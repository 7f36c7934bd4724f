----------------------------- MODULE BlockSync -----------------------------
(***************************************************************************)
(* Block download between two nodes (BlockFilter.cpp, with the queues of   *)
(* Peer.cpp and PeerManager.cpp).  The client asks, the server answers;    *)
(* messages travel in order on a TCP connection that may break.            *)
(*                                                                         *)
(* Block n > 0 is the server's block of height n, block -n a block of the  *)
(* same height on a fork that only the client has, block 0 the first one.  *)
(* Every block is valid and has the same work.  Chains are shorter than    *)
(* ten blocks, so that a locator names every block down to the first.      *)
(***************************************************************************)
EXTENDS Integers, Sequences, FiniteSets

CONSTANTS Limit,     \* how many blocks getblocks announces at once
          ForkLens,  \* the lengths the client's fork may have
          FirstTips, \* the heights the server may start with
          MaxTip,    \* the height the server's chain grows to
          MaxDrops   \* how often the connection breaks

ASSUME SyncAssumption ==
    /\ Limit \in Nat \ {0}
    /\ ForkLens \subseteq 0..9
    /\ FirstTips \subseteq 0..MaxTip
    /\ MaxTip \in 0..9
    /\ MaxDrops \in Nat

(* The null hash.  No one asks for the first block, which has this number. *)
None == 0

VARIABLES
    (* the client *)
    have,     \* the blocks in its tree
    best,     \* the best of them
    orphans,  \* _orphans
    ready,    \* Peer::_queue: what is due to be requested ...
    later,    \* ... and what is not due yet
    asked,    \* PeerManager::_priorities: inventory |-> whether the retry
              \* delay has passed since the last request was queued
    last,     \* locatorLastGetBlocksBegin and hashLastGetBlocksEnd
    unsent,   \* Peer::_send: what waits to be flushed
    handled,  \* fRet in handle_read
    (* the server *)
    tip,      \* its best block
    known,    \* Peer::_knownInventory
    continue, \* Peer's continue hash
    (* the connection *)
    toServer, toClient, drops

client == <<have, best, orphans, ready, later, asked, last, unsent, handled>>

server == <<tip, known, continue>>

vars == <<client, server, toServer, toClient, drops>>

Height(b) == IF b < 0 THEN -b ELSE b

Prev(b) == IF b < 0 THEN b + 1 ELSE b - 1

Elements(s) == {s[i] : i \in DOMAIN s}

(* The elements of s that are in S, in their order. *)
Among(s, S) ==
    LET first[n \in 0..Len(s)] ==
            IF n = 0 THEN << >>
            ELSE IF s[n] \in S THEN Append(first[n - 1], s[n])
            ELSE first[n - 1]
    IN  first[Len(s)]

GetBlocks(from, stop) == [cmd |-> "getblocks", from |-> from, stop |-> stop]

GetData(invs) == [cmd |-> "getdata", invs |-> invs]

Inv(invs) == [cmd |-> "inv", invs |-> invs]

BlockMsg(b) == [cmd |-> "block", block |-> b]

(* The version message has been exchanged: the client asks its only peer. *)
Init ==
    /\ \E fork \in ForkLens : have = {-n : n \in 0..fork} /\ best = -fork
    /\ orphans = {}
    /\ ready = << >>
    /\ later = << >>
    /\ asked = << >>
    /\ last = <<best, None>>
    /\ unsent = << >>
    /\ handled = FALSE
    /\ tip \in FirstTips
    /\ known = {}
    /\ continue = None
    /\ toServer = <<GetBlocks(best, None)>>
    /\ toClient = << >>
    /\ drops = 0

----------------------------------------------------------------------------
(* The client.  Its state goes through several calls in one step, as a      *)
(* record c of its variables.                                               *)

Client == [have |-> have, best |-> best, orphans |-> orphans, ready |-> ready,
           later |-> later, asked |-> asked, last |-> last, unsent |-> unsent]

SetClient(c) ==
    /\ have' = c.have
    /\ best' = c.best
    /\ orphans' = c.orphans
    /\ ready' = c.ready
    /\ later' = c.later
    /\ asked' = c.asked
    /\ last' = c.last
    /\ unsent' = c.unsent

(* getOrphanRoot(): the first of the orphans that lead to b. *)
OrphanRoot(orphaned, b) ==
    CHOOSE r \in 1..b :
        /\ \A x \in (r + 1)..b : Prev(x) \in orphaned
        /\ Prev(r) \notin orphaned

(* PushGetBlocks() filters out a request that is the same as the last one. *)
PushGetBlocks(c, stop) ==
    IF c.last = <<c.best, stop>> THEN c
    ELSE [c EXCEPT !.last = <<c.best, stop>>,
                   !.unsent = Append(@, GetBlocks(c.best, stop))]

(* Peer::queue() with PeerManager::prioritize(): now, or a delay after the  *)
(* last request.                                                            *)
Queue(c, b) ==
    LET due == b \in DOMAIN c.asked => c.asked[b] IN
    [c EXCEPT !.asked = [x \in DOMAIN @ \cup {b} |-> IF x = b THEN FALSE ELSE @[x]],
              !.ready = IF due THEN Append(@, b) ELSE @,
              !.later = IF due THEN @ ELSE Append(@, b)]

(* An inventory of the inv message. *)
HandleInv(c, b) ==
    IF b \in c.orphans THEN PushGetBlocks(c, OrphanRoot(c.orphans, b))
    ELSE IF b \in c.have THEN c
    ELSE Queue(c, b)

(* Mutant: the orphans of the block are left where they are. *)
ProcessOne(c, b) ==
    [c EXCEPT !.have = @ \cup {b},
              !.best = IF Height(b) > Height(@) THEN b ELSE @]

(* process(): the block is appended, then the orphans that lead on from it. *)
Process(c, b) ==
    LET new == CHOOSE n \in b..(b + Cardinality(c.orphans)) :
                   (b + 1)..n \subseteq c.orphans /\ n + 1 \notin c.orphans
    IN  [c EXCEPT !.have = @ \cup b..new,
                  !.orphans = @ \ b..new,
                  !.best = IF Height(new) > Height(@) THEN new ELSE @]

Dequeue(c, b) == [c EXCEPT !.asked = [x \in DOMAIN @ \ {b} |-> @[x]]]

(* Mutant: an orphan does not make the client ask for what is missing. *)
HandleBlockSilently(c, b) ==
    IF b \in c.have \cup c.orphans THEN c
    ELSE IF Prev(b) \notin c.have
    THEN [Dequeue(c, b) EXCEPT !.orphans = @ \cup {b}]
    ELSE Process(Dequeue(c, b), b)

(* The block message.  A block that is known is not dequeued. *)
HandleBlock(c, b) ==
    IF b \in c.have \cup c.orphans THEN c
    ELSE IF Prev(b) \notin c.have
    THEN LET o == [Dequeue(c, b) EXCEPT !.orphans = @ \cup {b}]
         IN  PushGetBlocks(o, OrphanRoot(o.orphans, b))
    ELSE Process(Dequeue(c, b), b)

(* The inventories of an inv message, one after the other. *)
HandleInvs(c, invs) ==
    LET after[n \in 0..Len(invs)] ==
            IF n = 0 THEN c ELSE HandleInv(after[n - 1], invs[n])
    IN  after[Len(invs)]

Handle(c, m) ==
    IF m.cmd = "inv" THEN HandleInvs(c, m.invs) ELSE HandleBlock(c, m.block)

(* What the filter returns: false for a known block and for an orphan. *)
Returns(c, m) ==
    IF m.cmd = "inv" THEN TRUE
    ELSE m.block \notin c.have \cup c.orphans /\ Prev(m.block) \in c.have

(* reply() and flush(), when a message was handled: what is due and still   *)
(* wanted is requested.                                                     *)
Reply(c) ==
    LET want == Among(c.ready, DOMAIN c.asked) IN
    [c EXCEPT !.ready = << >>,
              !.unsent = IF want = << >> THEN @ ELSE Append(@, GetData(want))]

Finish(c) ==
    LET r == Reply(c) IN
    /\ SetClient([r EXCEPT !.unsent = << >>])
    /\ toServer' = toServer \o r.unsent
    /\ handled' = FALSE

(* handle_read() takes a message; more of them may be in the same read, and *)
(* reply() and flush() come after the last, if one of them was handled.     *)
Read ==
    LET c   == Handle(Client, Head(toClient))
        ret == handled \/ Returns(Client, Head(toClient))
    IN  /\ toClient # << >>
        /\ toClient' = Tail(toClient)
        /\ \/ /\ Len(toClient) > 1
              /\ SetClient(c)
              /\ handled' = ret
              /\ UNCHANGED toServer
           \/ /\ ret
              /\ Finish(c)
           \/ /\ ~ret
              /\ SetClient(c)
              /\ UNCHANGED <<handled, toServer>>
        /\ UNCHANGED <<server, drops>>

(* A message that is not about blocks (a ping, a transaction, an address)   *)
(* is handled by another filter.                                            *)
ReadOther ==
    /\ ready # << >> \/ unsent # << >>
    /\ Finish(Client)
    /\ UNCHANGED <<server, toClient, drops>>

(* The retry delay passes. *)
Elapse ==
    /\ later # << >> \/ \E b \in DOMAIN asked : ~asked[b]
    /\ ready' = ready \o later
    /\ later' = << >>
    /\ asked' = [b \in DOMAIN asked |-> TRUE]
    /\ UNCHANGED <<have, best, orphans, last, unsent, handled, server, toServer,
                   toClient, drops>>

----------------------------------------------------------------------------
(* The server. *)

(* broadcast(): the inventory in the queue that the peer does not know. *)
Broadcast(invs) ==
    LET new == Among(invs, Elements(invs) \ known) IN
    /\ known' = known \cup Elements(new)
    /\ toClient' = IF new = << >> THEN toClient ELSE Append(toClient, Inv(new))

(* Where the locator leads: to the client's best block if it is on the      *)
(* server's chain, to the first block if it is on the fork.                 *)
Found(from) == IF from < 0 THEN 0 ELSE from

(* Mutant: the batch does not grow with the fork. *)
NoDistance(from) == 0

(* getDistanceBack() *)
DistanceBack(from) == Height(from) - Found(from)

(* The getblocks message. *)
ServeGetBlocks ==
    LET m     == Head(toServer)
        start == Found(m.from)
        full  == start + Limit + DistanceBack(m.from)
        end   == IF m.stop # None /\ m.stop > start /\ m.stop <= full THEN m.stop - 1
                 ELSE IF full > tip THEN tip ELSE full
    IN  /\ toServer # << >>
        /\ m.cmd = "getblocks"
        /\ Broadcast([i \in 1..(end - start) |-> start + i])
        /\ continue' = IF end = full THEN full ELSE continue
        /\ toServer' = Tail(toServer)
        /\ UNCHANGED <<tip, client, drops>>

(* A block, and if it ends a batch the inventory of the best block, to make *)
(* the client ask for more.                                                 *)
Serve(sent, b) ==
    IF b = sent.continue
    THEN [msgs |-> sent.msgs \o <<BlockMsg(b), Inv(<<tip>>)>>, continue |-> None]
    ELSE [sent EXCEPT !.msgs = Append(@, BlockMsg(b))]

ServeAll(sent, invs) ==
    LET after[n \in 0..Len(invs)] ==
            IF n = 0 THEN sent ELSE Serve(after[n - 1], invs[n])
    IN  after[Len(invs)]

(* The getdata message. *)
ServeGetData ==
    LET m    == Head(toServer)
        sent == ServeAll([msgs |-> toClient, continue |-> continue], m.invs)
    IN  /\ toServer # << >>
        /\ m.cmd = "getdata"
        /\ toClient' = sent.msgs
        /\ continue' = sent.continue
        /\ toServer' = Tail(toServer)
        /\ UNCHANGED <<tip, known, client, drops>>

(* The server gets a new best block and relays it. *)
NewBlock ==
    /\ tip < MaxTip
    /\ tip' = tip + 1
    /\ Broadcast(<<tip + 1>>)
    /\ UNCHANGED <<continue, client, toServer, drops>>

----------------------------------------------------------------------------
(* The connection breaks and another one is made.  The Peers are new; the   *)
(* orphans and the PeerManager's priorities stay.                           *)
Reconnect ==
    /\ drops < MaxDrops
    /\ drops' = drops + 1
    /\ ready' = << >>
    /\ later' = << >>
    /\ last' = <<best, None>>
    /\ unsent' = << >>
    /\ handled' = FALSE
    /\ known' = {}
    /\ continue' = None
    /\ toServer' = <<GetBlocks(best, None)>>
    /\ toClient' = << >>
    /\ UNCHANGED <<have, best, orphans, asked, tip>>

Next == Read \/ ReadOther \/ Elapse \/ ServeGetBlocks \/ ServeGetData \/ NewBlock \/ Reconnect

(* Messages are delivered and handled, time passes, and a connection that   *)
(* is otherwise silent still carries pings.                                 *)
Fairness ==
    /\ WF_vars(Read)
    /\ WF_vars(ReadOther)
    /\ WF_vars(Elapse)
    /\ WF_vars(ServeGetBlocks)
    /\ WF_vars(ServeGetData)

Spec == Init /\ [][Next]_vars /\ Fairness

----------------------------------------------------------------------------
(* Every block is where it belongs: what is connected is in the tree with   *)
(* all that leads to it, an orphan is not, and the best block is one of     *)
(* the highest.                                                             *)
OrphansAreDisconnected ==
    /\ \A b \in have \ {0} : Prev(b) \in have
    /\ \A b \in orphans : b \notin have /\ Prev(b) \notin have
    /\ best \in have
    /\ \A b \in have : Height(b) <= Height(best)

(* A connection on which nothing is under way is never one that stopped     *)
(* halfway: the client has the server's best block.  The exception is the   *)
(* batch after a reconnection whose last block the client holds already, so *)
(* that it will not request it and the server waits for the request.        *)
QuietMeansDone ==
    (toServer \o toClient \o unsent \o ready \o later = << >>) =>
        \/ tip \in have
        \/ drops > 0 /\ continue # None /\ continue \in have

(* As long as the connection lasts, the client gets every block of the      *)
(* server's chain, whatever fork it was on, however the batches end and     *)
(* although the chain grows in the meantime.                                *)
Synchronised == \A n \in 1..MaxTip : (tip >= n) ~> (n \in have \/ drops > 0)
=============================================================================
