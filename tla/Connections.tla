---------------------------- MODULE Connections ----------------------------
(***************************************************************************)
(* The life of the connections of a node (Node.cpp, Peer.cpp,              *)
(* PeerManager.cpp, VersionFilter.cpp, EndpointPool.cpp): connecting,      *)
(* accepting, the handshake, the three timers of a Peer and the pool of    *)
(* endpoints the next connection is taken from.                            *)
(*                                                                         *)
(* All handlers run on the one thread of the io_service, so each is a      *)
(* step.  What happens outside is a step of its own that makes a handler   *)
(* due: a timer expires, a connect completes, a message arrives.  Closing  *)
(* a socket or cancelling a timer takes back what is not due; a handler    *)
(* that is due runs although its timer is cancelled.  Handlers that are    *)
(* told operation_aborted do nothing and are left out.                     *)
(*                                                                         *)
(* An endpoint is an IP address.                                           *)
(***************************************************************************)
EXTENDS Integers, FiniteSets

CONSTANTS Endpoints,    \* the addresses there are
          Seeds,        \* the ones the node starts with
          Nowhere,      \* the endpoint of a Peer that has none any more
          Slots,        \* Peer objects that can be alive at once
          MaxOutbound,  \* _max_outbound
          MaxInbound,   \* _max_inbound
          Lists         \* what _connection_list may be

ASSUME ConnectionsAssumption ==
    /\ IsFiniteSet(Endpoints)
    /\ Nowhere \notin Endpoints
    /\ Seeds \subseteq Endpoints
    /\ IsFiniteSet(Slots)
    /\ MaxOutbound \in Nat
    /\ MaxInbound \in Nat
    /\ Lists \subseteq SUBSET Endpoints

VARIABLES peers,   \* slot |-> the Peer in it
          manager, \* PeerManager::_peers
          pool,    \* the table Endpoints
          recent,  \* the endpoints of the pool with a lasttry in the last hour
          posted,  \* a start_connect is posted
          list,    \* _connection_list
          fresh    \* an endpoint may be a candidate that was none in the last
                   \* start_connect, and no other is posted

vars == <<peers, manager, pool, recent, posted, list, fresh>>

(* A timer, and the handler of an asynchronous connect. *)
Timer == {"off", "armed", "due"}

Connect == {"off", "pending", "ok", "failed"}

Peer == [inbound : BOOLEAN, endpoint : Endpoints \cup {Nowhere}, open : BOOLEAN,
         connect : Connect,
         deadline : Timer,       \* _connection_deadline
         suicide : Timer,        \* _suicide
         keep_alive : Timer,     \* _keep_alive
         activity : BOOLEAN,     \* _activity
         version : BOOLEAN,      \* initialized(): _version # 0
         connected : BOOLEAN]    \* _successfullyConnected

(* No Peer: the last shared pointer to it is gone. *)
Free == [alive |-> FALSE]

Alive(p) == peers[p] # Free

TypeOK ==
    /\ peers \in [Slots -> Peer \cup {Free}]
    /\ manager \in SUBSET {p \in Slots : Alive(p)}
    /\ recent \subseteq pool
    /\ pool \subseteq Endpoints
    /\ list \in Lists
    /\ {posted, fresh} \subseteq BOOLEAN

(* The constructor of Node has added the seeds and posted a first connect. *)
Init ==
    /\ peers = [p \in Slots |-> Free]
    /\ manager = {}
    /\ pool = Seeds
    /\ recent = {}
    /\ posted = TRUE
    /\ list \in Lists
    /\ fresh = FALSE

----------------------------------------------------------------------------
(* PeerManager *)

IsConnected(p) == peers[p].connected /\ peers[p].open

(* getNumOutbound(true) and getNumInbound() *)
NumOutbound == Cardinality({p \in manager : ~peers[p].inbound})

NumInbound == Cardinality({p \in manager : peers[p].inbound /\ IsConnected(p)})

(* Mutant: peers whose socket is not bound yet are left out. *)
BoundIPList == {peers[p].endpoint : p \in {q \in manager : peers[q].connect = "off"}}

(* getPeerIPList(): the remote end of the socket or, before it is bound,   *)
(* what it is being connected to.                                          *)
PeerIPList == {peers[p].endpoint : p \in manager}

(* A Peer lives as long as the manager or a handler has a pointer to it.    *)
(* When only handlers have, what they do not read is forgotten.             *)
Keep(p, peer) ==
    IF p \in manager' THEN peer
    ELSE IF {peer.connect, peer.deadline, peer.suicide, peer.keep_alive} = {"off"} THEN Free
    ELSE [peer EXCEPT !.inbound = FALSE, !.endpoint = Nowhere,
                      !.connect = IF @ = "ok" THEN "failed" ELSE @,
                      !.activity = @ /\ peer.suicide # "off",
                      !.version = FALSE, !.connected = FALSE]

SetPeer(p, peer) == peers' = [peers EXCEPT ![p] = Keep(p, peer)]

Cancelled(timer) == IF timer = "due" THEN "due" ELSE "off"

(* Mutant: the socket is left open. *)
DisconnectedOpen(peer) ==
    [peer EXCEPT !.keep_alive = Cancelled(@), !.suicide = Cancelled(@)]

(* disconnect(): the socket is closed and two of the timers are cancelled;  *)
(* the deadline is not.                                                     *)
Disconnected(peer) ==
    [peer EXCEPT !.open = FALSE,
                 !.connect = IF @ = "pending" THEN "off" ELSE @,
                 !.keep_alive = Cancelled(@),
                 !.suicide = Cancelled(@)]

(* Mutant: another connection is not asked for. *)
CancelQuietly(p, peer) ==
    /\ manager' = manager \ {p}
    /\ SetPeer(p, IF p \in manager THEN Disconnected(peer) ELSE peer)
    /\ UNCHANGED <<posted, fresh>>

(* cancel(), for a Peer that the calling handler left as it is in peer. *)
Cancel(p, peer) ==
    /\ manager' = manager \ {p}
    /\ SetPeer(p, IF p \in manager THEN Disconnected(peer) ELSE peer)
    /\ posted' = (posted \/ p \in manager)
    /\ fresh' = (fresh /\ ~posted')

(* The handler of p ends with p as it is in peer. *)
Go(p, peer) == UNCHANGED <<manager, posted, fresh>> /\ SetPeer(p, peer)

----------------------------------------------------------------------------
(* Node *)

(* getCandidate() of the list, or of the pool: not a peer already, and not  *)
(* tried in the last hour.  The most recently seen one is taken; as nothing *)
(* else depends on when it was seen, that may be any of them.               *)
Candidates == IF list # {} THEN list \ PeerIPList ELSE (pool \ recent) \ PeerIPList

Wanted == IF list # {} THEN Cardinality(list) ELSE MaxOutbound

(* connect() *)
Outbound(ep) ==
    [inbound |-> FALSE, endpoint |-> ep, open |-> TRUE, connect |-> "pending",
     deadline |-> "armed", suicide |-> "off", keep_alive |-> "off",
     activity |-> FALSE, version |-> FALSE, connected |-> FALSE]

(* setLastTry() updates the row of the endpoint, if there is one. *)
Tried(eps) == recent \cup (eps \cap pool)

(* start_connect(): one candidate after the other until there are enough    *)
(* connections or no candidates.                                            *)
StartConnect ==
    /\ posted
    /\ posted' = FALSE
    /\ \E new \in SUBSET Candidates :
          /\ \/ NumOutbound + Cardinality(new) = Wanted
             \/ NumOutbound + Cardinality(new) < Wanted /\ new = Candidates
             \/ NumOutbound >= Wanted /\ new = {}
          /\ \E at \in [new -> {p \in Slots : ~Alive(p)}] :
                /\ \A a, b \in new : at[a] = at[b] => a = b
                /\ peers' = [p \in Slots |->
                               IF \E ep \in new : at[ep] = p
                               THEN Outbound(CHOOSE ep \in new : at[ep] = p) ELSE peers[p]]
                /\ manager' = manager \cup {at[ep] : ep \in new}
          /\ recent' = Tried(new)
    /\ fresh' = FALSE
    /\ UNCHANGED <<pool, list>>

(* Mutant: nothing watches whether the peer ever says something. *)
EstablishedUnwatched(peer) == peer

(* The part of handle_connect() for a connection that is established. *)
Established(peer) == [peer EXCEPT !.suicide = "armed"]

(* handle_connect() of an outbound connection. *)
HandleConnect(p) ==
    LET peer == [peers[p] EXCEPT !.connect = "off", !.deadline = Cancelled(@)] IN
    /\ Alive(p)
    /\ peers[p].connect \in {"ok", "failed"}
    /\ IF peers[p].connect = "ok" /\ peers[p].open
       THEN Go(p, Established(peer))
       ELSE Cancel(p, peer)
    /\ UNCHANGED <<pool, recent, list>>

(* handle_accept(): a peer there is no room for is dropped.  The room is    *)
(* counted by the peers that have finished the handshake.                   *)
HandleAccept(p, ep) ==
    /\ ~Alive(p)
    /\ NumInbound < MaxInbound
    /\ manager' = manager \cup {p}
    /\ peers' = [peers EXCEPT ![p] =
                   Established([inbound |-> TRUE, endpoint |-> ep, open |-> TRUE,
                                connect |-> "off", deadline |-> "off", suicide |-> "off",
                                keep_alive |-> "off", activity |-> FALSE,
                                version |-> FALSE, connected |-> FALSE])]
    /\ UNCHANGED <<pool, recent, posted, list, fresh>>

----------------------------------------------------------------------------
(* Peer *)

CheckDeadline(p) ==
    /\ Alive(p)
    /\ peers[p].deadline = "due"
    /\ Cancel(p, [peers[p] EXCEPT !.deadline = "off"])
    /\ UNCHANGED <<pool, recent, list>>

(* check_activity() disconnects a silent peer, and one in three others. *)
Suicide(p) ==
    /\ Alive(p)
    /\ peers[p].suicide = "due"
    /\ Cancel(p, [peers[p] EXCEPT !.suicide = "off"])
    /\ UNCHANGED <<pool, recent, list>>

GoOn(p) ==
    /\ Alive(p)
    /\ peers[p].suicide = "due"
    /\ peers[p].activity
    /\ Go(p, [peers[p] EXCEPT !.suicide = "armed", !.activity = FALSE])
    /\ UNCHANGED <<pool, recent, list>>

(* show_activity(): the timer is armed again, also when the peer was        *)
(* disconnected in the meantime; then the ping is not sent, and the failed  *)
(* write cancels a peer that is cancelled already.                          *)
ShowActivity(p) ==
    /\ Alive(p)
    /\ peers[p].keep_alive = "due"
    /\ Go(p, [peers[p] EXCEPT !.keep_alive = "armed"])
    /\ UNCHANGED <<pool, recent, list>>

Reading(p) == Alive(p) /\ peers[p].open /\ peers[p].connect = "off"

(* The version message: VersionFilter ignores a second one.  The nonce in   *)
(* it is drawn by the Peer object of the other side, which is another one   *)
(* also when a node is connected to itself, so that it is never p's own.    *)
ReadVersion(p) ==
    LET peer == [peers[p] EXCEPT !.activity = TRUE] IN
    /\ Reading(p)
    /\ Go(p, IF peer.version THEN peer
             ELSE [peer EXCEPT !.version = TRUE, !.connected = TRUE,
                               !.keep_alive = "armed"])
    /\ UNCHANGED <<pool, recent, list>>

(* The addr message adds an endpoint, or replaces what is known of it: it   *)
(* counts as not tried.  Before the version message it is ignored.          *)
ReadAddr(p, ep) ==
    /\ Reading(p)
    /\ UNCHANGED <<manager, posted, list>>
    /\ SetPeer(p, [peers[p] EXCEPT !.activity = TRUE])
    /\ IF peers[p].version
       THEN /\ pool' = pool \cup {ep}
            /\ recent' = recent \ {ep}
            /\ fresh' = (~posted /\ (fresh \/ ep \notin pool \ recent))
       ELSE UNCHANGED <<pool, recent, fresh>>

(* What cannot be parsed, an error and the end of the stream disconnect. *)
ReadFails(p) ==
    /\ Reading(p)
    /\ Cancel(p, peers[p])
    /\ UNCHANGED <<pool, recent, list>>

----------------------------------------------------------------------------
(* What happens outside. *)

ConnectCompletes(p, result) ==
    /\ Alive(p)
    /\ peers[p].connect = "pending"
    /\ peers' = [peers EXCEPT ![p].connect = result]
    /\ UNCHANGED <<manager, pool, recent, posted, list, fresh>>

DeadlineExpires(p) ==
    /\ Alive(p)
    /\ peers[p].deadline = "armed"
    /\ peers' = [peers EXCEPT ![p].deadline = "due"]
    /\ UNCHANGED <<manager, pool, recent, posted, list, fresh>>

SuicideExpires(p) ==
    /\ Alive(p)
    /\ peers[p].suicide = "armed"
    /\ peers' = [peers EXCEPT ![p].suicide = "due"]
    /\ UNCHANGED <<manager, pool, recent, posted, list, fresh>>

KeepAliveExpires(p) ==
    /\ Alive(p)
    /\ peers[p].keep_alive = "armed"
    /\ peers' = [peers EXCEPT ![p].keep_alive = "due"]
    /\ UNCHANGED <<manager, pool, recent, posted, list, fresh>>

(* An hour passes: the endpoints may be tried again, but no one is told. *)
HourPasses ==
    /\ recent # {}
    /\ recent' = {}
    /\ fresh' = ~posted
    /\ UNCHANGED <<peers, manager, pool, posted, list>>

Handlers(p) ==
    \/ HandleConnect(p)
    \/ CheckDeadline(p)
    \/ Suicide(p)
    \/ GoOn(p)
    \/ ShowActivity(p)

Timers(p) == DeadlineExpires(p) \/ SuicideExpires(p) \/ KeepAliveExpires(p)

Next ==
    \/ StartConnect
    \/ HourPasses
    \/ \E p \in Slots :
          \/ Handlers(p)
          \/ Timers(p)
          \/ ReadVersion(p)
          \/ ReadFails(p)
          \/ \E ep \in Endpoints : HandleAccept(p, ep) \/ ReadAddr(p, ep)
          \/ \E result \in {"ok", "failed"} : ConnectCompletes(p, result)

(* Handlers that are due run, timers expire, and the random number that     *)
(* ends a connection comes up now and then.  Nothing is expected of the     *)
(* other side.                                                              *)
Fairness ==
    /\ WF_vars(StartConnect)
    /\ \A p \in Slots :
          /\ WF_vars(HandleConnect(p))
          /\ WF_vars(CheckDeadline(p))
          /\ SF_vars(Suicide(p))
          /\ WF_vars(ShowActivity(p))
          /\ WF_vars(DeadlineExpires(p))
          /\ WF_vars(SuicideExpires(p))
          /\ WF_vars(KeepAliveExpires(p))

Spec == Init /\ [][Next]_vars /\ Fairness

----------------------------------------------------------------------------
(* Whatever timer and completion meet, a connection that is managed is      *)
(* under way with a deadline or watched for activity, and one that is not   *)
(* managed any more has its socket closed: no peer escapes all three.       *)
ManagedAreWatched ==
    \A p \in Slots : Alive(p) =>
        IF p \in manager
        THEN \/ peers[p].connect # "off" /\ peers[p].deadline # "off"
             \/ peers[p].suicide # "off"
        ELSE ~peers[p].open

(* The types, which say that only peers that live are managed, and that     *)
(* each of them is watched.                                                 *)
PeersAreManaged == TypeOK /\ ManagedAreWatched

(* Two outbound connections never go to the same address, nor one to an     *)
(* address that was a peer when it was made.                                *)
OutboundAreDistinct ==
    \A p, q \in manager :
        p # q /\ ~peers[p].inbound /\ ~peers[q].inbound =>
            peers[p].endpoint # peers[q].endpoint

(* With a free place and no connect under way, everything that could be     *)
(* connected to was tried when a connection was last looked for.  What has  *)
(* become a candidate since is not noticed: "alternatively we should add a  *)
(* timer" (Node.cpp:351).                                                   *)
PlacesAreFilled ==
    ~posted /\ NumOutbound < Wanted /\ ~fresh => Candidates = {}

(* No connection stays half open: it completes the handshake or is given    *)
(* up, although the other side may never answer, or say anything but that.  *)
HandshakeEnds ==
    \A p \in Slots :
        (p \in manager /\ ~peers[p].connected) ~>
            (p \notin manager \/ peers[p].connected)

(* A peer that is not managed any more is freed.  One whose keep-alive      *)
(* handler was due when it was cancelled is not: it goes on arming the      *)
(* timer, and so keeps itself alive.                                        *)
CancelledAreFreed ==
    \A p \in Slots :
        (Alive(p) /\ p \notin manager) ~>
            (~Alive(p) \/ p \in manager \/ peers[p].keep_alive # "off")

(* A connection comes to an end of its handshake and, once given up, to an  *)
(* end of its memory.                                                       *)
PeersEnd == HandshakeEnds /\ CancelledAreFreed
=============================================================================
