------------------------- MODULE ConnectionsProofs -------------------------
(***************************************************************************)
(* That every connection is watched, that no two of them go to the same    *)
(* address, and that free places are filled, for every number of Peer      *)
(* objects and of addresses, and every order in which handlers fall due.   *)
(***************************************************************************)
EXTENDS Connections, FiniteSetTheorems, TLAPS

(* What ManagedAreWatched says of a peer that is managed, or is not. *)
Watched(peer) ==
    \/ peer.connect # "off" /\ peer.deadline # "off"
    \/ peer.suicide # "off"

(* The invariants without the peers: pool, recent, list and the flags. *)
RestOK ==
    /\ recent \subseteq pool
    /\ pool \subseteq Endpoints
    /\ list \in Lists
    /\ posted \in BOOLEAN
    /\ fresh \in BOOLEAN

(* The invariants about the peers. *)
SlotsOK ==
    /\ peers = [p \in Slots |-> peers[p]]
    /\ manager \subseteq Slots
    /\ \A p \in Slots : peers[p] \in Peer \cup {Free}
    /\ \A p \in manager : peers[p] \in Peer /\ Watched(peers[p])
    /\ \A p \in Slots \ manager : Alive(p) => ~peers[p].open

(* A record of a Peer is not the one that stands for none. *)
LEMMA FreeIsNoPeer == Free \notin Peer
<1> SUFFICES ASSUME Free \in Peer PROVE FALSE
  OBVIOUS
<1>1. DOMAIN Free = {"alive"}
  BY DEF Free
<1>2. DOMAIN Free = {"inbound", "endpoint", "open", "connect", "deadline", "suicide",
                     "keep_alive", "activity", "version", "connected"}
  BY DEF Peer
<1> QED
  BY <1>1, <1>2

(* The invariant a run checks, and its parts as they are used here. *)
LEMMA ManagedParts ==
    PeersAreManaged <=> SlotsOK /\ RestOK
<1>1. ASSUME PeersAreManaged
      PROVE  SlotsOK /\ RestOK
  <2>1. \A p \in manager : p \in Slots /\ peers[p] # Free
    BY <1>1 DEF PeersAreManaged, TypeOK, Alive
  <2>2. \A p \in Slots : peers[p] \in Peer \cup {Free}
    BY <1>1 DEF PeersAreManaged, TypeOK
  <2>3. \A p \in manager : Watched(peers[p])
    BY <1>1, <2>1 DEF PeersAreManaged, ManagedAreWatched, Watched, Alive
  <2>4. \A p \in Slots \ manager : Alive(p) => ~peers[p].open
    BY <1>1 DEF PeersAreManaged, ManagedAreWatched
  <2>5. SlotsOK
    BY <1>1, <2>1, <2>2, <2>3, <2>4 DEF SlotsOK, PeersAreManaged, TypeOK
  <2>6. RestOK
    BY <1>1 DEF PeersAreManaged, TypeOK, RestOK
  <2> QED
    BY <2>5, <2>6
<1>2. ASSUME SlotsOK, RestOK
      PROVE  PeersAreManaged
  <2>1. \A p \in manager : p \in Slots /\ Alive(p)
    BY <1>2, FreeIsNoPeer DEF SlotsOK, Alive
  <2>2. peers \in [Slots -> Peer \cup {Free}]
    BY <1>2 DEF SlotsOK
  <2>3. TypeOK
    BY <1>2, <2>1, <2>2 DEF TypeOK, RestOK
  <2>4. ManagedAreWatched
    BY <1>2 DEF SlotsOK, ManagedAreWatched, Watched
  <2> QED
    BY <2>3, <2>4 DEF PeersAreManaged
<1> QED
  BY <1>1, <1>2

(* The same of the next state. *)
LEMMA ManagedPartsNext ==
    PeersAreManaged' <=> SlotsOK' /\ RestOK'
  BY ManagedParts, PTL

(* A step that changes one Peer leaves the managed ones where they are. *)
SamePeers ==
    /\ manager' \subseteq manager
    /\ \A q \in manager' : /\ peers'[q].endpoint = peers[q].endpoint
                           /\ peers'[q].inbound = peers[q].inbound

(* Nothing becomes a candidate unseen: a connect is posted, or the managed  *)
(* peers and the endpoints to choose from are as they were, or fresh says   *)
(* that they are not.                                                       *)
NothingUnseen ==
    \/ posted'
    \/ /\ manager' = manager
       /\ ~posted
       /\ fresh' \/ (~fresh /\ pool' = pool /\ recent' = recent)

(* The invariant: what the runs check, all at once. *)
CInv == PeersAreManaged /\ OutboundAreDistinct /\ PlacesAreFilled

(* Keep() leaves a managed peer as it is, and of another one the socket. *)
LEMMA KeepFacts ==
    ASSUME NEW p \in Slots, NEW peer \in Peer
    PROVE  /\ p \in manager' => Keep(p, peer) = peer
           /\ p \notin manager' => /\ Keep(p, peer) \in Peer \cup {Free}
                                   /\ Keep(p, peer) # Free => Keep(p, peer).open = peer.open
<1>1. ASSUME p \in manager' PROVE Keep(p, peer) = peer
  BY <1>1 DEF Keep
<1>2. ASSUME p \notin manager'
      PROVE  /\ Keep(p, peer) \in Peer \cup {Free}
             /\ Keep(p, peer) # Free => Keep(p, peer).open = peer.open
  <2> DEFINE ended == {peer.connect, peer.deadline, peer.suicide, peer.keep_alive} = {"off"}
             left == [peer EXCEPT !.inbound = FALSE, !.endpoint = Nowhere,
                                  !.connect = IF @ = "ok" THEN "failed" ELSE @,
                                  !.activity = @ /\ peer.suicide # "off",
                                  !.version = FALSE, !.connected = FALSE]
  <2>1. Keep(p, peer) = IF ended THEN Free ELSE left
    BY <1>2 DEF Keep
  <2>2. left \in Peer /\ left.open = peer.open
    <3>1. (peer.activity /\ peer.suicide # "off") \in BOOLEAN
      OBVIOUS
    <3>2. (IF peer.connect = "ok" THEN "failed" ELSE peer.connect) \in Connect
      BY DEF Peer, Connect
    <3> QED
      BY <3>1, <3>2 DEF Peer
  <2> QED
    BY <2>1, <2>2
<1> QED
  BY <1>1, <1>2

(* A step after which one Peer is another, managed or not, keeps the        *)
(* invariant about peers if that one is watched or its socket closed.       *)
LEMMA SlotChange ==
    ASSUME PeersAreManaged, RestOK', NEW p \in Slots, NEW x \in Peer \cup {Free},
           peers' = [peers EXCEPT ![p] = x], manager' \in {manager, manager \ {p}},
           p \in manager' => /\ x \in Peer
                             /\ Watched(x)
                             /\ x.endpoint = peers[p].endpoint
                             /\ x.inbound = peers[p].inbound,
           p \notin manager' /\ x # Free => ~x.open
    PROVE  PeersAreManaged' /\ SamePeers
<1>1. SlotsOK
  BY ManagedParts
<1>2. peers' = [q \in Slots |-> IF q = p THEN x ELSE peers[q]]
  BY <1>1 DEF SlotsOK
<1>3. peers' = [q \in Slots |-> peers'[q]]
  BY <1>2
<1>4. \A q \in Slots : q # p => peers'[q] = peers[q] /\ (q \in manager' <=> q \in manager)
  BY <1>2
<1>5. peers'[p] = x
  BY <1>2
<1>6. SlotsOK'
  <2>1. manager' \subseteq Slots
    BY <1>1 DEF SlotsOK
  <2>2. \A q \in Slots : peers'[q] \in Peer \cup {Free}
    BY <1>1, <1>4, <1>5 DEF SlotsOK
  <2>3. \A q \in manager' : peers'[q] \in Peer /\ Watched(peers'[q])
    BY <1>1, <1>4, <1>5, <2>1 DEF SlotsOK
  <2>4. \A q \in Slots \ manager' : peers'[q] # Free => ~peers'[q].open
    BY <1>1, <1>4, <1>5 DEF SlotsOK, Alive
  <2> QED
    BY <1>3, <2>1, <2>2, <2>3, <2>4 DEF SlotsOK, Alive, Watched
<1>7. SamePeers
  <2>1. \A q \in manager' : q \in Slots /\ q \in manager
    BY <1>1 DEF SlotsOK
  <2> QED
    BY <1>4, <1>5, <2>1 DEF SamePeers
<1>8. PeersAreManaged'
  BY <1>6, ManagedPartsNext
<1> QED
  BY <1>7, <1>8

(* A handler that leaves p as it is in peer. *)
LEMMA SlotStep ==
    ASSUME PeersAreManaged, RestOK', NEW p \in Slots, NEW peer \in Peer,
           SetPeer(p, peer), manager' \in {manager, manager \ {p}},
           p \in manager' => /\ Watched(peer)
                             /\ peer.endpoint = peers[p].endpoint
                             /\ peer.inbound = peers[p].inbound,
           p \notin manager' => ~peer.open
    PROVE  PeersAreManaged' /\ SamePeers
<1>1. PICK x : x = Keep(p, peer)
  OBVIOUS
<1>2. peers' = [peers EXCEPT ![p] = x]
  BY <1>1 DEF SetPeer
<1>3. /\ p \in manager' => x = peer
      /\ p \notin manager' => x \in Peer \cup {Free} /\ (x # Free => x.open = peer.open)
  BY <1>1, KeepFacts
<1> QED
  BY <1>2, <1>3, SlotChange

(* Then the other two invariants hold as well. *)
LEMMA SameKept ==
    ASSUME CInv, PeersAreManaged', SamePeers, NothingUnseen, list' = list
    PROVE  CInv'
<1>1. OutboundAreDistinct'
  BY DEF CInv, OutboundAreDistinct, SamePeers
<1>2. ASSUME ~posted', NumOutbound' < Wanted', ~fresh' PROVE Candidates' = {}
  <2>1. manager' = manager /\ ~posted /\ ~fresh /\ pool' = pool /\ recent' = recent
    BY <1>2 DEF NothingUnseen
  <2>2. \A q \in manager : /\ peers'[q].endpoint = peers[q].endpoint
                           /\ peers'[q].inbound = peers[q].inbound
    BY <2>1 DEF SamePeers
  <2>3. {q \in manager' : ~peers'[q].inbound} = {q \in manager : ~peers[q].inbound}
    BY <2>1, <2>2
  <2>4. NumOutbound' = NumOutbound
    BY <2>3 DEF NumOutbound
  <2>5. Wanted' = Wanted
    BY DEF Wanted
  <2>6. PeerIPList' = PeerIPList
    BY <2>1, <2>2 DEF PeerIPList
  <2>7. Candidates = {}
    BY <1>2, <2>1, <2>4, <2>5 DEF CInv, PlacesAreFilled
  <2> QED
    BY <2>1, <2>6, <2>7 DEF Candidates
<1> QED
  BY <1>1, <1>2 DEF CInv, PlacesAreFilled

(* What the invariant says of a Peer that a handler runs for. *)
LEMMA PeerFacts ==
    ASSUME CInv, NEW p \in Slots, Alive(p)
    PROVE  /\ peers[p] \in Peer
           /\ p \in manager => Watched(peers[p])
           /\ p \notin manager => ~peers[p].open
  BY ManagedParts DEF CInv, SlotsOK, Alive

(* disconnect() closes the socket. *)
LEMMA DisconnectedFacts ==
    ASSUME NEW peer \in Peer
    PROVE  Disconnected(peer) \in Peer /\ ~Disconnected(peer).open
<1>1. \A t \in Timer : Cancelled(t) \in Timer
  BY DEF Cancelled, Timer
<1>2. (IF peer.connect = "pending" THEN "off" ELSE peer.connect) \in Connect
  BY DEF Peer, Connect
<1>3. Disconnected(peer) =
        [peer EXCEPT !.open = FALSE,
                     !.connect = IF peer.connect = "pending" THEN "off" ELSE peer.connect,
                     !.keep_alive = Cancelled(peer.keep_alive),
                     !.suicide = Cancelled(peer.suicide)]
  BY DEF Disconnected, Peer
<1>4. peer.keep_alive \in Timer /\ peer.suicide \in Timer
  BY DEF Peer
<1>5. Cancelled(peer.keep_alive) \in Timer /\ Cancelled(peer.suicide) \in Timer
  BY <1>1, <1>4
<1> DEFINE c == IF peer.connect = "pending" THEN "off" ELSE peer.connect
           k == Cancelled(peer.keep_alive)
           s == Cancelled(peer.suicide)
<1> HIDE DEF c, k, s, Cancelled, Connect, Timer, Disconnected
<1>6. c \in Connect /\ k \in Timer /\ s \in Timer
  BY <1>2, <1>5 DEF c, k, s
<1>7. Disconnected(peer) = [peer EXCEPT !.open = FALSE, !.connect = c, !.keep_alive = k, !.suicide = s]
  BY <1>3 DEF c, k, s
<1> QED
  BY <1>6, <1>7 DEF Peer

(* cancel() keeps the invariant: the peer it takes out is disconnected, and *)
(* another connect is posted.                                               *)
LEMMA CancelStep ==
    ASSUME CInv, NEW p \in Slots, NEW peer \in Peer, Cancel(p, peer),
           p \notin manager => ~peer.open, UNCHANGED <<pool, recent, list>>
    PROVE  CInv'
<1> DEFINE new == IF p \in manager THEN Disconnected(peer) ELSE peer
<1>1. new \in Peer /\ ~new.open
  <2>1. CASE p \in manager
    BY <2>1, DisconnectedFacts
  <2>2. CASE p \notin manager
    BY <2>2
  <2> QED
    BY <2>1, <2>2
<1>2. SetPeer(p, new) /\ manager' = manager \ {p}
  BY DEF Cancel
<1>3. RestOK'
  <2>1. RestOK
    BY ManagedParts DEF CInv
  <2>2. posted' \in BOOLEAN /\ fresh' \in BOOLEAN
    BY DEF Cancel
  <2> QED
    BY <2>1, <2>2 DEF RestOK
<1>4. NothingUnseen
  <2>1. ASSUME ~posted' PROVE p \notin manager /\ ~posted /\ fresh' = fresh
    <3>1. p \notin manager /\ ~posted
      BY <2>1 DEF Cancel
    <3>2. RestOK
      BY ManagedParts DEF CInv
    <3> QED
      BY <2>1, <3>1, <3>2 DEF Cancel, RestOK
  <2>2. ASSUME ~posted' PROVE manager' = manager
    BY <1>2, <2>1, <2>2
  <2> QED
    BY <2>1, <2>2 DEF NothingUnseen
<1> HIDE DEF new
<1>5. PeersAreManaged' /\ SamePeers
  BY <1>1, <1>2, <1>3, SlotStep DEF CInv
<1> QED
  BY <1>4, <1>5, SameKept

(* A handler that only changes its own Peer keeps the invariant. *)
LEMMA GoStep ==
    ASSUME CInv, NEW p \in Slots, NEW peer \in Peer, Go(p, peer),
           p \in manager => /\ Watched(peer)
                            /\ peer.endpoint = peers[p].endpoint
                            /\ peer.inbound = peers[p].inbound,
           p \notin manager => ~peer.open,
           UNCHANGED <<pool, recent, list>>
    PROVE  CInv'
<1>1. SetPeer(p, peer) /\ manager' = manager /\ posted' = posted /\ fresh' = fresh
  BY DEF Go
<1>2. RestOK'
  BY <1>1, ManagedParts DEF CInv, RestOK
<1>3. NothingUnseen
  BY <1>1 DEF NothingUnseen
<1>4. PeersAreManaged' /\ SamePeers
  BY <1>1, <1>2, SlotStep DEF CInv
<1> QED
  BY <1>3, <1>4, SameKept

(* handle_connect(): a connection whose deadline is taken back is watched   *)
(* for activity from then on.                                               *)
LEMMA HandleConnectStep ==
    ASSUME CInv, NEW p \in Slots, HandleConnect(p)
    PROVE  CInv'
<1> DEFINE peer == [peers[p] EXCEPT !.connect = "off", !.deadline = Cancelled(@)]
           est == Established(peer)
<1>1. /\ peers[p] \in Peer
      /\ p \notin manager => ~peers[p].open
  BY PeerFacts DEF HandleConnect
<1>2. /\ peer \in Peer
      /\ peer.open = peers[p].open
  BY <1>1 DEF Peer, Connect, Timer, Cancelled
<1>3. /\ est \in Peer
      /\ est.open = peers[p].open
      /\ est.endpoint = peers[p].endpoint
      /\ est.inbound = peers[p].inbound
      /\ est.suicide = "armed"
  BY <1>1 DEF Peer, Connect, Timer, Cancelled, Established
<1>4. UNCHANGED <<pool, recent, list>>
  BY DEF HandleConnect
<1>5. \/ peers[p].open /\ Go(p, est)
      \/ Cancel(p, peer)
  BY DEF HandleConnect
<1>6. Watched(est)
  BY <1>3 DEF Watched
<1> HIDE DEF peer, est
<1>7. CASE Go(p, est) /\ peers[p].open
  BY <1>1, <1>3, <1>4, <1>6, <1>7, GoStep
<1>8. CASE Cancel(p, peer)
  BY <1>1, <1>2, <1>4, <1>8, CancelStep
<1> QED
  BY <1>5, <1>7, <1>8

(* The handlers of the timers _connection_deadline and _suicide. *)
LEMMA DeadlineStep ==
    ASSUME CInv, NEW p \in Slots, CheckDeadline(p) \/ Suicide(p) \/ ReadFails(p)
    PROVE  CInv'
<1>1. Alive(p) /\ UNCHANGED <<pool, recent, list>>
  BY DEF CheckDeadline, Suicide, ReadFails, Reading
<1>2. PICK peer \in {[peers[p] EXCEPT !.deadline = "off"],
                     [peers[p] EXCEPT !.suicide = "off"], peers[p]} : Cancel(p, peer)
  BY DEF CheckDeadline, Suicide, ReadFails
<1>3. peers[p] \in Peer /\ (p \notin manager => ~peers[p].open)
  BY <1>1, PeerFacts
<1>4. peer \in Peer /\ peer.open = peers[p].open
  BY <1>3 DEF Peer, Timer
<1> QED
  BY <1>1, <1>2, <1>3, <1>4, CancelStep

(* What only arms a timer again or notes activity: check_activity() that    *)
(* goes on, show_activity(), and the version message.                       *)
LEMMA ActivityStep ==
    ASSUME CInv, NEW p \in Slots, GoOn(p) \/ ShowActivity(p) \/ ReadVersion(p)
    PROVE  CInv'
<1> DEFINE read == [peers[p] EXCEPT !.activity = TRUE]
<1>1. Alive(p) /\ UNCHANGED <<pool, recent, list>>
  BY DEF GoOn, ShowActivity, ReadVersion, Reading
<1>2. PICK peer \in {[peers[p] EXCEPT !.suicide = "armed", !.activity = FALSE],
                     [peers[p] EXCEPT !.keep_alive = "armed"], read,
                     [read EXCEPT !.version = TRUE, !.connected = TRUE,
                                  !.keep_alive = "armed"]} : Go(p, peer)
  BY DEF GoOn, ShowActivity, ReadVersion
<1>3. /\ peers[p] \in Peer
      /\ p \in manager => Watched(peers[p])
      /\ p \notin manager => ~peers[p].open
  BY <1>1, PeerFacts
<1>4. /\ peer \in Peer
      /\ peer.open = peers[p].open
      /\ peer.endpoint = peers[p].endpoint
      /\ peer.inbound = peers[p].inbound
  BY <1>3 DEF Peer, Timer
<1>5. p \in manager => Watched(peer)
  BY <1>3 DEF Peer, Timer, Watched
<1> QED
  BY <1>1, <1>2, <1>3, <1>4, <1>5, GoStep

(* The addr message: what it makes a candidate is noted by fresh. *)
LEMMA ReadAddrStep ==
    ASSUME CInv, NEW p \in Slots, NEW ep \in Endpoints, ReadAddr(p, ep)
    PROVE  CInv'
<1> DEFINE peer == [peers[p] EXCEPT !.activity = TRUE]
<1>1. /\ peers[p] \in Peer
      /\ p \in manager => Watched(peers[p])
      /\ p \notin manager => ~peers[p].open
  BY PeerFacts DEF ReadAddr, Reading
<1>2. /\ peer \in Peer
      /\ peer.open = peers[p].open
      /\ peer.endpoint = peers[p].endpoint
      /\ peer.inbound = peers[p].inbound
  BY <1>1 DEF Peer
<1>3. p \in manager => Watched(peer)
  BY <1>1 DEF Peer, Watched
<1>4. SetPeer(p, peer) /\ manager' = manager /\ posted' = posted /\ list' = list
  BY DEF ReadAddr
<1>5. RestOK
  BY ManagedParts DEF CInv
<1>6. RestOK' /\ NothingUnseen
  <2>1. CASE peers[p].version
    <3>1. pool' = pool \cup {ep} /\ recent' = recent \ {ep}
      BY <2>1 DEF ReadAddr
    <3>2. fresh' = (~posted /\ (fresh \/ ep \notin pool \ recent))
      BY <2>1 DEF ReadAddr
    <3>3. RestOK'
      <4>1. fresh' \in BOOLEAN
        BY <3>2
      <4> QED
        BY <1>4, <1>5, <3>1, <4>1 DEF RestOK
    <3>4. NothingUnseen
      <4>1. ASSUME ~posted, ~fresh' PROVE ~fresh /\ ep \in pool \ recent
        BY <3>2, <4>1
      <4>2. ASSUME ~posted, ~fresh' PROVE ~fresh /\ pool' = pool /\ recent' = recent
        BY <3>1, <4>1, <4>2
      <4> QED
        BY <1>4, <4>2 DEF NothingUnseen
    <3> QED
      BY <3>3, <3>4
  <2>2. CASE ~peers[p].version
    <3>1. pool' = pool /\ recent' = recent /\ fresh' = fresh
      BY <2>2 DEF ReadAddr
    <3> QED
      BY <1>4, <1>5, <3>1 DEF RestOK, NothingUnseen
  <2> QED
    BY <2>1, <2>2
<1> HIDE DEF peer
<1>7. PeersAreManaged' /\ SamePeers
  BY <1>1, <1>2, <1>3, <1>4, <1>6, SlotStep DEF CInv
<1> QED
  BY <1>4, <1>6, <1>7, SameKept

(* A timer expires or a connect completes: the handler that falls due still *)
(* watches the peer.                                                        *)
LEMMA OutsideStep ==
    ASSUME CInv, NEW p \in Slots,
           Timers(p) \/ \E result \in {"ok", "failed"} : ConnectCompletes(p, result)
    PROVE  CInv'
<1>1. /\ Alive(p)
      /\ UNCHANGED <<manager, pool, recent, posted, list, fresh>>
  BY DEF Timers, DeadlineExpires, SuicideExpires, KeepAliveExpires, ConnectCompletes
<1>2. /\ peers[p] \in Peer
      /\ p \in manager => Watched(peers[p])
      /\ p \notin manager => ~peers[p].open
  BY <1>1, PeerFacts
<1>3. SlotsOK /\ RestOK
  BY ManagedParts DEF CInv
<1>4. PICK x \in {[peers[p] EXCEPT !.deadline = "due"], [peers[p] EXCEPT !.suicide = "due"],
                   [peers[p] EXCEPT !.keep_alive = "due"], [peers[p] EXCEPT !.connect = "ok"],
                   [peers[p] EXCEPT !.connect = "failed"]} :
             peers' = [peers EXCEPT ![p] = x]
  BY <1>3 DEF Timers, DeadlineExpires, SuicideExpires, KeepAliveExpires, ConnectCompletes,
              SlotsOK
<1>5. /\ x \in Peer
      /\ x.open = peers[p].open
      /\ x.endpoint = peers[p].endpoint
      /\ x.inbound = peers[p].inbound
  BY <1>2 DEF Peer, Timer, Connect
<1>6. p \in manager => Watched(x)
  BY <1>2 DEF Peer, Timer, Connect, Watched
<1>7. RestOK' /\ NothingUnseen
  BY <1>1, <1>3 DEF RestOK, NothingUnseen
<1>8. PeersAreManaged' /\ SamePeers
  BY <1>1, <1>2, <1>4, <1>5, <1>6, <1>7, SlotChange DEF CInv
<1> QED
  BY <1>1, <1>7, <1>8, SameKept

(* handle_accept(): a peer that connected is no outbound one, and what it   *)
(* connects from is no candidate any more.                                  *)
LEMMA HandleAcceptStep ==
    ASSUME CInv, NEW p \in Slots, NEW ep \in Endpoints, HandleAccept(p, ep)
    PROVE  CInv'
<1> DEFINE y == [inbound |-> TRUE, endpoint |-> ep, open |-> TRUE, connect |-> "off",
                 deadline |-> "off", suicide |-> "off", keep_alive |-> "off",
                 activity |-> FALSE, version |-> FALSE, connected |-> FALSE]
           x == Established(y)
<1>1. SlotsOK /\ RestOK
  BY ManagedParts DEF CInv
<1>2. p \notin manager
  BY <1>1, FreeIsNoPeer DEF SlotsOK, HandleAccept, Alive
<1>3. manager' = manager \cup {p}
  BY DEF HandleAccept
<1>4. peers' = [q \in Slots |-> IF q = p THEN x ELSE peers[q]]
  <2>1. peers' = [peers EXCEPT ![p] = x]
    BY DEF HandleAccept
  <2> HIDE DEF x
  <2> QED
    BY <1>1, <2>1 DEF SlotsOK
<1>5. x \in Peer /\ Watched(x) /\ x.inbound
  <2>1. y \in Peer /\ y.inbound
    BY DEF Peer, Timer, Connect
  <2> HIDE DEF y
  <2> QED
    BY <2>1 DEF Established, Peer, Timer, Watched
<1> HIDE DEF x
<1>6. /\ peers'[p] = x
      /\ \A q \in Slots : q # p => peers'[q] = peers[q]
      /\ \A q \in manager : q \in Slots /\ q # p /\ peers'[q] = peers[q]
  BY <1>1, <1>2, <1>4 DEF SlotsOK
<1>7. UNCHANGED <<pool, recent, posted, list, fresh>>
  BY DEF HandleAccept
<1>8. SlotsOK'
  <2>1. peers' = [q \in Slots |-> peers'[q]] /\ manager' \subseteq Slots
    BY <1>1, <1>3, <1>4 DEF SlotsOK
  <2>2. \A q \in Slots : peers'[q] \in Peer \cup {Free}
    BY <1>1, <1>5, <1>6 DEF SlotsOK
  <2>3. \A q \in manager' : peers'[q] \in Peer /\ Watched(peers'[q])
    BY <1>1, <1>3, <1>5, <1>6 DEF SlotsOK
  <2>4. \A q \in Slots \ manager' : peers'[q] # Free => ~peers'[q].open
    BY <1>1, <1>3, <1>6 DEF SlotsOK, Alive
  <2> QED
    BY <2>1, <2>2, <2>3, <2>4 DEF SlotsOK, Alive, Watched
<1>9. PeersAreManaged'
  BY <1>1, <1>7, <1>8, ManagedPartsNext DEF RestOK
<1>10. OutboundAreDistinct'
  BY <1>3, <1>5, <1>6 DEF CInv, OutboundAreDistinct
<1>11. ASSUME ~posted', NumOutbound' < Wanted', ~fresh' PROVE Candidates' = {}
  <2>1. {q \in manager' : ~peers'[q].inbound} = {q \in manager : ~peers[q].inbound}
    BY <1>3, <1>5, <1>6
  <2>2. NumOutbound' = NumOutbound /\ Wanted' = Wanted
    BY <1>7, <2>1 DEF NumOutbound, Wanted
  <2>3. PeerIPList \subseteq PeerIPList'
    BY <1>3, <1>6 DEF PeerIPList
  <2>4. Candidates = {}
    BY <1>7, <1>11, <2>2 DEF CInv, PlacesAreFilled
  <2> QED
    BY <1>7, <2>3, <2>4 DEF Candidates
<1> QED
  BY <1>9, <1>10, <1>11 DEF CInv, PlacesAreFilled

(* An hour passes: fresh says that there may be candidates. *)
LEMMA HourPassesStep ==
    ASSUME CInv, HourPasses
    PROVE  CInv'
<1>1. SlotsOK /\ RestOK
  BY ManagedParts DEF CInv
<1>2. RestOK'
  <2>1. fresh' \in BOOLEAN
    BY DEF HourPasses
  <2> QED
    BY <1>1, <2>1 DEF RestOK, HourPasses
<1>3. SlotsOK'
  BY <1>1 DEF SlotsOK, HourPasses, Alive, Watched
<1>4. PeersAreManaged'
  BY <1>2, <1>3, ManagedPartsNext
<1>5. SamePeers /\ NothingUnseen /\ list' = list
  BY DEF SamePeers, NothingUnseen, HourPasses
<1> QED
  BY <1>4, <1>5, SameKept

(* Distinct endpoints have distinct slots, so that there are as many new    *)
(* Peers as there are endpoints chosen.                                     *)
LEMMA NewPeersCount ==
    ASSUME NEW new, IsFiniteSet(new), NEW T, NEW at \in [new -> T],
           \A a, b \in new : at[a] = at[b] => a = b,
           \A t \in T : \E ep \in new : at[ep] = t
    PROVE  IsFiniteSet(T) /\ Cardinality(T) = Cardinality(new)
<1>1. at \in Bijection(new, T)
  BY DEF Bijection, Injection, Surjection, IsInjective
<1>2. ExistsBijection(new, T)
  BY <1>1 DEF ExistsBijection
<1> QED
  BY <1>2, FS_Bijection

(* connect() makes a Peer that is watched by its deadline. *)
LEMMA OutboundFacts ==
    ASSUME NEW ep \in Endpoints
    PROVE  /\ Outbound(ep) \in Peer
           /\ Watched(Outbound(ep))
           /\ ~Outbound(ep).inbound
           /\ Outbound(ep).endpoint = ep
  BY DEF Outbound, Peer, Timer, Connect, Watched

(* There are finitely many endpoints to choose from. *)
LEMMA CandidatesFacts ==
    ASSUME RestOK
    PROVE  /\ Candidates \subseteq Endpoints
           /\ Candidates \cap PeerIPList = {}
  BY ConnectionsAssumption DEF RestOK, Candidates

(* start_connect(): the connections it makes are to different addresses,    *)
(* none of them that of a peer, and either there are enough of them or no   *)
(* candidate is left.                                                       *)
LEMMA StartConnectStep ==
    ASSUME CInv, StartConnect
    PROVE  CInv'
<1>1. SlotsOK /\ RestOK
  BY ManagedParts DEF CInv
<1> DEFINE Places(new, at) ==
              /\ \A a, b \in new : at[a] = at[b] => a = b
              /\ peers' = [p \in Slots |->
                             IF \E ep \in new : at[ep] = p
                             THEN Outbound(CHOOSE ep \in new : at[ep] = p) ELSE peers[p]]
              /\ manager' = manager \cup {at[ep] : ep \in new}
<1>chosen. PICK new \in SUBSET Candidates :
          /\ \/ NumOutbound + Cardinality(new) = Wanted
             \/ NumOutbound + Cardinality(new) < Wanted /\ new = Candidates
             \/ NumOutbound >= Wanted /\ new = {}
          /\ \E at \in [new -> {p \in Slots : ~Alive(p)}] : Places(new, at)
          /\ recent' = Tried(new)
  BY DEF StartConnect
<1>2. PICK at \in [new -> {p \in Slots : ~Alive(p)}] : Places(new, at)
  BY <1>chosen
<1> DEFINE N == {at[ep] : ep \in new}
<1>3. new \subseteq Endpoints /\ new \cap PeerIPList = {}
  BY <1>1, <1>chosen, CandidatesFacts
<1>4. /\ \A ep \in new : at[ep] \in Slots /\ ~Alive(at[ep])
      /\ \A p \in N : p \in Slots /\ ~Alive(p) /\ \E ep \in new : at[ep] = p
  BY <1>2
<1>5. /\ N \cap manager = {}
      /\ \A q \in manager : q \in Slots /\ peers[q] \in Peer
  BY <1>1, <1>4, FreeIsNoPeer DEF SlotsOK, Alive
<1>6. \A ep \in new : peers'[at[ep]] = Outbound(ep)
  <2> TAKE ep \in new
  <2>1. (CHOOSE a \in new : at[a] = at[ep]) = ep
    BY <1>2
  <2> QED
    BY <1>2, <1>4, <2>1
<1>7. \A q \in Slots \ N : peers'[q] = peers[q]
  BY <1>2
<1>8. posted' = FALSE /\ fresh' = FALSE /\ pool' = pool /\ list' = list
  BY DEF StartConnect
<1>9. manager' = manager \cup N
  BY <1>2
<1>10. RestOK'
  BY <1>1, <1>chosen, <1>8 DEF RestOK, Tried
<1>11. SlotsOK'
  <2>1. peers' = [q \in Slots |-> peers'[q]]
    BY <1>2
  <2>2. \A p \in N : peers'[p] \in Peer /\ Watched(peers'[p])
    BY <1>3, <1>4, <1>6, OutboundFacts
  <2> HIDE DEF N
  <2>3. manager' \subseteq Slots
    BY <1>4, <1>5, <1>9
  <2>4. \A q \in manager' : peers'[q] \in Peer /\ Watched(peers'[q])
    BY <1>1, <1>5, <1>7, <1>9, <2>2 DEF SlotsOK
  <2>5. \A q \in Slots : peers'[q] \in Peer \cup {Free}
    BY <1>1, <1>7, <2>2 DEF SlotsOK
  <2>6. \A q \in Slots \ manager' : peers'[q] # Free => ~peers'[q].open
    BY <1>1, <1>7, <1>9 DEF SlotsOK, Alive
  <2> QED
    BY <2>1, <2>3, <2>4, <2>5, <2>6 DEF SlotsOK, Alive, Watched
<1>12. PeersAreManaged'
  BY <1>10, <1>11, ManagedPartsNext
<1>13. \A p \in N : ~peers'[p].inbound /\ \E ep \in new : at[ep] = p /\ peers'[p].endpoint = ep
  BY <1>3, <1>4, <1>6, OutboundFacts
<1>14. \A p \in manager : peers'[p] = peers[p] /\ peers[p].endpoint \in PeerIPList
  BY <1>5, <1>7 DEF PeerIPList
<1>15. OutboundAreDistinct'
  <2> SUFFICES ASSUME NEW p \in manager', NEW q \in manager', p # q,
                      ~peers'[p].inbound, ~peers'[q].inbound
               PROVE  peers'[p].endpoint # peers'[q].endpoint
    BY DEF OutboundAreDistinct
  <2> HIDE DEF N
  <2>1. CASE p \in manager /\ q \in manager
    BY <1>14, <2>1 DEF CInv, OutboundAreDistinct
  <2>2. CASE p \in manager /\ q \in N
    BY <1>3, <1>13, <1>14, <2>2
  <2>3. CASE p \in N /\ q \in manager
    BY <1>3, <1>13, <1>14, <2>3
  <2>4. CASE p \in N /\ q \in N
    BY <1>13, <2>4
  <2> QED
    BY <1>9, <2>1, <2>2, <2>3, <2>4
<1>16. ASSUME NumOutbound' < Wanted' PROVE Candidates' = {}
  <2> DEFINE Out == {p \in manager : ~peers[p].inbound}
  <2>1. {p \in manager' : ~peers'[p].inbound} = Out \cup N
    BY <1>9, <1>13, <1>14
  <2>2. Out \cap N = {}
    BY <1>5
  <2>3. IsFiniteSet(Out) /\ IsFiniteSet(new)
    <3>1. Out \in SUBSET Slots /\ IsFiniteSet(Slots)
      BY <1>5, ConnectionsAssumption
    <3>2. new \in SUBSET Endpoints /\ IsFiniteSet(Endpoints)
      BY <1>3, ConnectionsAssumption
    <3> QED
      BY <3>1, <3>2, FS_Subset
  <2>4. IsFiniteSet(N) /\ Cardinality(N) = Cardinality(new)
    <3>1. \A a, b \in new : at[a] = at[b] => a = b
      BY <1>2
    <3>2. at \in [new -> N] /\ \A t \in N : \E ep \in new : at[ep] = t
      BY <1>2
    <3> HIDE DEF N
    <3> QED
      BY <2>3, <3>1, <3>2, NewPeersCount
  <2> HIDE DEF N, Out
  <2>5. Cardinality(Out \cup N) = Cardinality(Out) + Cardinality(N)
    <3>1. Cardinality(Out \cup N) = Cardinality(Out) + Cardinality(N) - Cardinality(Out \cap N)
      BY <2>3, <2>4, FS_Union
    <3>2. Cardinality(Out \cap N) = 0
      BY <2>2, FS_EmptySet
    <3>3. Cardinality(Out) \in Nat /\ Cardinality(N) \in Nat
      BY <2>3, <2>4, FS_CardinalityType
    <3> QED
      BY <3>1, <3>2, <3>3
  <2>6. NumOutbound = Cardinality(Out)
    BY DEF NumOutbound, Out
  <2>7. NumOutbound' = NumOutbound + Cardinality(new)
    BY <2>1, <2>4, <2>5, <2>6 DEF NumOutbound
  <2>8. NumOutbound \in Nat /\ Cardinality(new) \in Nat
    BY <2>3, <2>6, FS_CardinalityType
  <2>9. Wanted' = Wanted /\ Wanted \in Nat
    <3>1. list \in SUBSET Endpoints
      BY <1>1, ConnectionsAssumption DEF RestOK
    <3>2. Cardinality(list) \in Nat
      BY <3>1, ConnectionsAssumption, FS_Subset, FS_CardinalityType
    <3> QED
      BY <1>8, <3>2, ConnectionsAssumption DEF Wanted
  <2>10. new = Candidates
    <3>1. NumOutbound + Cardinality(new) < Wanted
      BY <1>16, <2>7, <2>9
    <3> QED
      BY <1>chosen, <2>8, <2>9, <3>1
  <2>11. PeerIPList \cup new \subseteq PeerIPList'
    <3>1. \A p \in manager : peers[p].endpoint \in PeerIPList'
      BY <1>9, <1>14 DEF PeerIPList
    <3>2. \A ep \in new : ep \in PeerIPList'
      BY <1>3, <1>6, <1>9, OutboundFacts DEF N, PeerIPList
    <3> QED
      BY <3>1, <3>2 DEF PeerIPList
  <2>12. recent \subseteq recent'
    BY <1>chosen DEF Tried
  <2> QED
    BY <1>8, <2>10, <2>11, <2>12 DEF Candidates
<1> QED
  BY <1>12, <1>15, <1>16 DEF CInv, PlacesAreFilled

(* The constructor of Node establishes the invariant. *)
LEMMA InitCInv == Init => CInv
<1> SUFFICES ASSUME Init PROVE CInv
  OBVIOUS
<1>1. RestOK
  BY ConnectionsAssumption DEF Init, RestOK
<1>2. SlotsOK
  BY DEF Init, SlotsOK, Alive
<1>3. PeersAreManaged
  BY <1>1, <1>2, ManagedParts
<1> QED
  BY <1>3 DEF Init, CInv, OutboundAreDistinct, PlacesAreFilled

(* Every step of the node, its peers and its timers keeps the invariant. *)
LEMMA NextCInv == CInv /\ [Next]_vars => CInv'
<1> SUFFICES ASSUME CInv, [Next]_vars PROVE CInv'
  OBVIOUS
<1>1. CASE UNCHANGED vars
  <2>1. SlotsOK /\ RestOK
    BY ManagedParts DEF CInv
  <2>2. SlotsOK' /\ RestOK'
    BY <1>1, <2>1 DEF vars, SlotsOK, RestOK, Alive, Watched
  <2>3. SamePeers /\ NothingUnseen /\ list' = list
    BY <1>1 DEF vars, SamePeers, NothingUnseen
  <2> QED
    BY <2>2, <2>3, ManagedPartsNext, SameKept
<1>2. ASSUME NEW p \in Slots, Handlers(p) PROVE CInv'
  BY <1>2, HandleConnectStep, DeadlineStep, ActivityStep DEF Handlers
<1>3. ASSUME NEW p \in Slots,
             Timers(p) \/ \E result \in {"ok", "failed"} : ConnectCompletes(p, result)
      PROVE  CInv'
  BY <1>3, OutsideStep
<1>4. ASSUME NEW p \in Slots, ReadVersion(p) \/ ReadFails(p) PROVE CInv'
  BY <1>4, DeadlineStep, ActivityStep
<1>5. ASSUME NEW p \in Slots, NEW ep \in Endpoints, HandleAccept(p, ep) \/ ReadAddr(p, ep)
      PROVE  CInv'
  BY <1>5, HandleAcceptStep, ReadAddrStep
<1> QED
  BY <1>1, <1>2, <1>3, <1>4, <1>5, StartConnectStep, HourPassesStep DEF Next

(* So it holds of every behaviour. *)
LEMMA Invariance == Spec => []CInv
<1>1. Init => CInv
  BY InitCInv
<1>2. CInv /\ [Next]_vars => CInv'
  BY NextCInv
<1> QED
  BY <1>1, <1>2, PTL DEF Spec

(* Whatever timer and completion meet, a Peer in the PeerManager has a      *)
(* deadline for its connect or is watched for activity, and one that is out *)
(* of it has its socket closed (Peer.cpp, PeerManager::cancel).             *)
THEOREM ConnectionsWatched == Spec => []PeersAreManaged
<1>1. CInv => PeersAreManaged
  BY DEF CInv
<1> QED
  BY <1>1, Invariance, PTL

(* Node::start_connect() never makes two connections to the same address,   *)
(* nor one to the address of a peer.                                        *)
THEOREM ConnectionsDistinct == Spec => []OutboundAreDistinct
<1>1. CInv => OutboundAreDistinct
  BY DEF CInv
<1> QED
  BY <1>1, Invariance, PTL

(* When the node has a free place and no start_connect() is posted, there   *)
(* was nothing else to connect to when it last looked (Node.cpp).           *)
THEOREM ConnectionsFilled == Spec => []PlacesAreFilled
<1>1. CInv => PlacesAreFilled
  BY DEF CInv
<1> QED
  BY <1>1, Invariance, PTL
=============================================================================
