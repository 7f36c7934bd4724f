-------------------------------- MODULE Pool --------------------------------
(***************************************************************************)
(* The pool (Pool.cpp) and the RPC methods of miners: getblocktemplate with *)
(* long polling (GetBlockTemplate.cpp), getwork and submitblock.            *)
(*                                                                          *)
(* Two threads: the server thread installs the handler of a long poll; all  *)
(* else runs on the thread of the node, which calls the listeners for new   *)
(* blocks and transactions.  A listener takes the range of handlers to call *)
(* and erases it under the lock, but goes through it without.               *)
(*                                                                          *)
(* A block template is told apart by its merkle root, that is, by the block *)
(* it builds on and the claims that are in it.                              *)
(***************************************************************************)
EXTENDS Integers, Sequences, SequencesExt, FiniteSets

CONSTANTS Blocks,     \* the blocks that may be best
          Genesis,    \* the one that is at first
          Miners,
          Threshold,  \* _claim_threshold
          MaxClaims,  \* bound on the claims
          Nodes       \* elements of the multimap of handlers, a bound on them

ASSUME PoolAssumption ==
    /\ Genesis \in Blocks
    /\ Threshold \in Nat
    /\ MaxClaims \in Nat
    /\ Nodes \subseteq Nat \ {0}

VARIABLES best,       \* the best block
          claims,     \* claim_count()
          templates,  \* _templates
          latest,     \* *_latest_work
          recent,     \* the time of latest is less than 30 seconds ago
          handlers,   \* _handlers, in the order of the multimap
          miners,     \* what the miners have
          listener,   \* the listener that runs
          raced       \* miners whose handler was installed while one ran

vars == <<best, claims, templates, latest, recent, handlers, miners, listener, raced>>

Root == [prev : Blocks, claims : 0..MaxClaims]

NoRoot == [prev |-> "none", claims |-> 0]

(* A miner has the template it works on and its longpollid. *)
Miner == [root : Root \cup {NoRoot}, id : 0..(MaxClaims + Threshold), waiting : BOOLEAN]

(* The end of the multimap, as an iterator; other iterators are Nodes. *)
End == 0

Idle == [from |-> End, to |-> End, at |-> End, running |-> FALSE]

(* The types; the handlers are in the order of the claims they wait for. *)
TypeOK ==
    /\ best \in Blocks
    /\ claims \in 0..MaxClaims
    /\ templates \subseteq Root
    /\ latest \in Root \cup {NoRoot}
    /\ recent \in BOOLEAN
    /\ miners \in [Miners -> Miner]
    /\ handlers \in Seq([node : Nodes, miner : Miners, count : 0..(MaxClaims + Threshold)])
    /\ \A i \in 2..Len(handlers) : handlers[i - 1].count <= handlers[i].count
    /\ listener \in [from : Nodes \cup {End}, to : Nodes \cup {End},
                     at : Nodes \cup {End}, running : BOOLEAN]
    /\ raced \subseteq Miners

Init ==
    /\ best = Genesis
    /\ claims = 0
    /\ templates = {}
    /\ latest = NoRoot
    /\ recent = FALSE
    /\ handlers = <<>>
    /\ miners = [m \in Miners |-> [root |-> NoRoot, id |-> 0, waiting |-> FALSE]]
    /\ listener = Idle
    /\ raced = {}

----------------------------------------------------------------------------
(* Pool *)

(* getBlockTemplate() *)
Template == [prev |-> best, claims |-> claims]

(* Mutant: templates of another block are kept. *)
KeptAll == templates

(* The templates getWork() keeps when it makes another. *)
Kept == IF latest.prev = best THEN templates ELSE {}

(* getWork() makes a template if the last one is for another block or was   *)
(* given out in the last 30 seconds.                                        *)
GetWork ==
    IF templates = {} \/ latest.prev # best \/ recent
    THEN /\ templates' = Kept \cup {Template}
         /\ latest' = Template
    ELSE UNCHANGED <<templates, latest>>

(* operator() of GetBlockTemplate for m. *)
Served(m) ==
    /\ GetWork
    /\ recent' = TRUE
    /\ miners' = [miners EXCEPT ![m] = [root |-> latest', id |-> claims + Threshold,
                                        waiting |-> FALSE]]

----------------------------------------------------------------------------
(* GetBlockTemplate *)

At(it) == IF it = End THEN Len(handlers) + 1
          ELSE CHOOSE i \in 1..Len(handlers) : handlers[i].node = it

Iterator(i) == IF i > Len(handlers) THEN End ELSE handlers[i].node

(* upper_bound() *)
UpperBound(count) ==
    1 + Cardinality({i \in 1..Len(handlers) : handlers[i].count <= count})

FreeNodes == Nodes \ {handlers[i].node : i \in DOMAIN handlers}

(* dispatch() with a longpollid, on the server thread. *)
InstallHandler(m) ==
    /\ FreeNodes # {}
    /\ miners[m].root # NoRoot
    /\ ~miners[m].waiting
    /\ handlers' = InsertAt(handlers, UpperBound(miners[m].id),
                            [node |-> CHOOSE n \in FreeNodes : TRUE,
                             miner |-> m, count |-> miners[m].id])
    /\ miners' = [miners EXCEPT ![m].waiting = TRUE]
    /\ raced' = IF listener.running THEN raced \cup {m} ELSE raced \ {m}
    /\ UNCHANGED <<best, claims, templates, latest, recent, listener>>

(* dispatch() without a longpollid. *)
FirstCall(m) ==
    /\ ~listener.running
    /\ ~miners[m].waiting
    /\ Served(m)
    /\ UNCHANGED <<best, claims, handlers, listener, raced>>

(* Mutant: only the handlers that wait for so many claims are called. *)
SomeHandlers(count) ==
    [from |-> Iterator(1), to |-> Iterator(UpperBound(count)), at |-> Iterator(1),
     running |-> TRUE]

(* all_handlers() and current_handlers() *)
AllHandlers(count) ==
    [from |-> Iterator(1), to |-> End, at |-> Iterator(1), running |-> TRUE]

CurrentHandlers(count) ==
    [from |-> Iterator(1), to |-> Iterator(UpperBound(count)), at |-> Iterator(1),
     running |-> TRUE]

(* BlockListener: block is the new best one; what it confirms is not        *)
(* claimed any more, and what it displaced is again.                        *)
NewBest(block, count) ==
    /\ ~listener.running
    /\ best' = block
    /\ claims' = count
    /\ listener' = AllHandlers(count)
    /\ UNCHANGED <<templates, latest, recent, handlers, miners, raced>>

NewBlock(block, count) == block # best /\ NewBest(block, count)

(* submitBlock() with the header of m's template: one there is no template  *)
(* for any more is not accepted.                                            *)
SubmitBlock(m, block) ==
    /\ miners[m].root \in templates
    /\ block # miners[m].root.prev
    /\ NewBest(block, 0)

(* TransactionListener *)
NewTransaction ==
    /\ ~listener.running
    /\ claims < MaxClaims
    /\ claims' = claims + 1
    /\ listener' = CurrentHandlers(claims + 1)
    /\ UNCHANGED <<best, templates, latest, recent, handlers, miners, raced>>

(* A handler is called, and the iterator moves on. *)
CallHandler ==
    /\ listener.running
    /\ listener.at # listener.to
    /\ Served(handlers[At(listener.at)].miner)
    /\ listener' = [listener EXCEPT !.at = Iterator(At(@) + 1)]
    /\ UNCHANGED <<best, claims, handlers, raced>>

(* Mutant: nothing is erased. *)
ErasedNone == handlers

(* erase() of the range as it is by now. *)
Erased ==
    SubSeq(handlers, 1, At(listener.from) - 1) \o
    SubSeq(handlers, At(listener.to), Len(handlers))

EraseHandlers ==
    /\ listener.running
    /\ listener.at = listener.to
    /\ handlers' = Erased
    /\ listener' = Idle
    /\ UNCHANGED <<best, claims, templates, latest, recent, miners, raced>>

TimePasses ==
    /\ recent
    /\ recent' = FALSE
    /\ UNCHANGED <<best, claims, templates, latest, handlers, miners, listener, raced>>

Next ==
    \/ \E m \in Miners : InstallHandler(m) \/ FirstCall(m)
    \/ \E m \in Miners, b \in Blocks : SubmitBlock(m, b)
    \/ \E b \in Blocks, count \in 0..MaxClaims : NewBlock(b, count)
    \/ NewTransaction
    \/ CallHandler
    \/ EraseHandlers
    \/ TimePasses

(* A listener goes on, and there is always another block. *)
Fairness ==
    /\ WF_vars(CallHandler)
    /\ WF_vars(EraseHandlers)
    /\ SF_vars(\E b \in Blocks, count \in 0..MaxClaims : NewBlock(b, count))

Spec == Init /\ [][Next]_vars /\ Fairness

----------------------------------------------------------------------------
(* A miner that waits has its handler installed, unless the handler was     *)
(* installed while a listener ran: then the erasing may take it although it *)
(* was not called.  A miner that does not wait has a handler only until the *)
(* listener that called it erases it.                                       *)
WaitersAreInstalled ==
    \A m \in Miners :
        LET installed == \E i \in DOMAIN handlers : handlers[i].miner = m IN
        /\ miners[m].waiting /\ m \notin raced => installed
        /\ installed /\ ~listener.running => miners[m].waiting

(* The types, which say that the handlers are in the order of what they     *)
(* wait for, and that no poll loses its handler.                            *)
HandlersAreSound == TypeOK /\ WaitersAreInstalled

(* All templates are for the same block, and the last one is among them:    *)
(* target() and submitBlock() never mix two.                                *)
TemplatesShareParent ==
    /\ templates # {} => latest \in templates
    /\ \A r \in templates : r.prev = latest.prev

(* What getWork keeps is the work for one block and nothing else, and a     *)
(* template that a miner may still be working on is dropped only when       *)
(* another block is best.                                                   *)
TemplatesAreSound ==
    [][TemplatesShareParent' /\ \A r \in templates \ templates' : r.prev # best]_vars

(* A long poll returns at the latest when there is a new block.             *)
PollsReturn ==
    \A m \in Miners :
        (miners[m].waiting /\ m \notin raced) ~> (~miners[m].waiting)
=============================================================================
