------------------------------ MODULE Verifier ------------------------------
(***************************************************************************)
(* The Verifier (src/coinChain/Verifier.cpp): BlockChain::attach posts one *)
(* task per transaction of a block to a pool of threads and asks for the   *)
(* verdict at the end.  The caller is the one thread that runs the chain;  *)
(* the pool interleaves with it and with itself.                           *)
(*                                                                         *)
(* A task is the transaction it verifies: its block, its place in it and   *)
(* whether its scripts hold.  Transaction::verify catches what a script    *)
(* throws, so that it has two outcomes.                                    *)
(***************************************************************************)
EXTENDS Integers, Sequences

CONSTANTS Threads,    \* the threads the pool may have
          MaxBlocks,  \* how many blocks are attached
          MaxTxns     \* how many transactions of a block are verified

ASSUME VerifierAssumption == MaxBlocks \in Nat /\ MaxTxns \in Nat

VARIABLES workers,    \* _threads; none means that the caller verifies
          failed,     \* _failed
          pending,    \* the tasks whose futures are in _pending_verifications
          queue,      \* the tasks posted to the _io_service
          thread,     \* what every thread of the pool is doing
          done,       \* the tasks whose futures are ready
          stopped,    \* _io_service.stop() was called
          caller,     \* where the caller is in attach()
          block,      \* how many blocks the caller has begun to attach
          idx,        \* the transaction of the block attach() is at
          posted,     \* the tasks of the block being attached
          abandoned,  \* an attach() threw after it had posted a task
          success     \* what yield_success() last returned

pool == <<workers, queue, thread, done, stopped>>

vars == <<failed, pending, pool, caller, block, idx, posted, abandoned, success>>

Task == [block : 1..MaxBlocks, idx : 1..MaxTxns, valid : BOOLEAN]

Idle == [pc |-> "idle"]

Busy == [pc : {"check", "run", "fail", "return"}, task : Task]

Init ==
    /\ workers \in SUBSET Threads
    /\ failed = FALSE
    /\ pending = {}
    /\ queue = << >>
    /\ thread = [t \in Threads |-> Idle]
    /\ done = {}
    /\ stopped = FALSE
    /\ caller = "idle"
    /\ block = 0
    /\ idx = 1
    /\ posted = {}
    /\ abandoned = FALSE
    /\ success = TRUE

----------------------------------------------------------------------------
(* The caller.                                                              *)

(* Mutant: the verdict on the last block is kept. *)
ResetKeepsFailed == failed' = failed /\ pending' = {}

(* reset(): the futures of an abandoned block are dropped, its tasks stay   *)
(* in the queue.                                                            *)
Reset == failed' = FALSE /\ pending' = {}

(* attach() begins a block; its coinbase, transaction 0, is not verified. *)
BeginBlock ==
    /\ caller = "idle"
    /\ block < MaxBlocks
    /\ Reset
    /\ block' = block + 1
    /\ idx' = 1
    /\ posted' = {}
    /\ caller' = "posting"
    /\ UNCHANGED <<pool, abandoned, success>>

(* verify(): the future is kept and the task is posted; without threads the *)
(* caller verifies, unless an earlier transaction has failed.               *)
Verify(valid) ==
    LET task == [block |-> block, idx |-> idx, valid |-> valid] IN
    /\ caller = "posting"
    /\ idx <= MaxTxns
    /\ idx' = idx + 1
    /\ posted' = posted \cup {task}
    /\ \/ /\ workers # {}
          /\ pending' = pending \cup {task}
          /\ queue' = Append(queue, task)
          /\ UNCHANGED failed
       \/ /\ workers = {}
          /\ failed' = (failed \/ ~valid)
          /\ UNCHANGED <<pending, queue>>
    /\ UNCHANGED <<workers, thread, done, stopped, caller, block, abandoned,
                   success>>

(* A later transaction of the block cannot be posted: attach() throws, and  *)
(* nobody waits for the tasks of the block.                                 *)
AbandonBlock ==
    /\ caller = "posting"
    /\ caller' = "idle"
    /\ abandoned' = (abandoned \/ pending # {})
    /\ UNCHANGED <<failed, pending, pool, block, idx, posted, success>>

(* Mutant: the verdict is given when the first future is ready. *)
WaitForAny ==
    /\ caller = "posting"
    /\ pending \cap done # {} \/ pending = {}
    /\ caller' = "waited"
    /\ UNCHANGED <<failed, pending, pool, block, idx, posted, abandoned, success>>

(* yield_success(): wait_for_all() returns ... *)
WaitForAll ==
    /\ caller = "posting"
    /\ pending \subseteq done
    /\ caller' = "waited"
    /\ UNCHANGED <<failed, pending, pool, block, idx, posted, abandoned, success>>

(* ... and the verdict is read. *)
YieldSuccess ==
    /\ caller = "waited"
    /\ success' = ~failed
    /\ caller' = "idle"
    /\ UNCHANGED <<failed, pending, pool, block, idx, posted, abandoned>>

(* ~Verifier(): no further task is taken; the threads end their tasks. *)
Destroy ==
    /\ caller = "idle"
    /\ caller' = "joining"
    /\ stopped' = TRUE
    /\ UNCHANGED <<workers, failed, pending, queue, thread, done, block, idx,
                   posted, abandoned, success>>

JoinAll ==
    /\ caller = "joining"
    /\ \A t \in workers : thread[t] = Idle
    /\ caller' = "gone"
    /\ UNCHANGED <<failed, pending, pool, block, idx, posted, abandoned, success>>

----------------------------------------------------------------------------
(* The threads of the pool.                                                 *)

callerVars == <<workers, pending, caller, block, idx, posted, abandoned, success>>

(* io_service::run() takes a task. *)
Take(t) ==
    /\ t \in workers
    /\ thread[t] = Idle
    /\ ~stopped
    /\ queue # << >>
    /\ thread' = [thread EXCEPT ![t] = [pc |-> "check", task |-> Head(queue)]]
    /\ queue' = Tail(queue)
    /\ UNCHANGED <<failed, done, stopped, callerVars>>

Goto(t, pc) ==
    thread' = [thread EXCEPT ![t] = [pc |-> pc, task |-> thread[t].task]]

(* Mutant: the task is dropped, and its future is never ready. *)
AlreadyFailedDrops(t) ==
    /\ thread[t].pc = "check"
    /\ IF failed THEN thread' = [thread EXCEPT ![t] = Idle] ELSE Goto(t, "run")
    /\ UNCHANGED <<failed, queue, done, stopped, callerVars>>

(* do_verify(): a task is not run once another one has failed. *)
AlreadyFailed(t) ==
    /\ thread[t].pc = "check"
    /\ Goto(t, IF failed THEN "return" ELSE "run")
    /\ UNCHANGED <<failed, queue, done, stopped, callerVars>>

(* The scripts are evaluated, without the lock. *)
Run(t) ==
    /\ thread[t].pc = "run"
    /\ Goto(t, IF thread[t].task.valid THEN "return" ELSE "fail")
    /\ UNCHANGED <<failed, done, queue, stopped, callerVars>>

(* failed_with_reason(), under the lock. *)
FailedWithReason(t) ==
    /\ thread[t].pc = "fail"
    /\ failed' = TRUE
    /\ Goto(t, "return")
    /\ UNCHANGED <<done, queue, stopped, callerVars>>

(* The packaged task makes its future ready. *)
Return(t) ==
    /\ thread[t].pc = "return"
    /\ done' = done \cup {thread[t].task}
    /\ thread' = [thread EXCEPT ![t] = Idle]
    /\ UNCHANGED <<failed, queue, stopped, callerVars>>

Step(t) == Take(t) \/ AlreadyFailed(t) \/ Run(t) \/ FailedWithReason(t) \/ Return(t)

----------------------------------------------------------------------------
(* The destructor has returned and nothing is left to do. *)
Gone == caller = "gone" /\ UNCHANGED vars

Next ==
    \/ BeginBlock
    \/ \E valid \in BOOLEAN : Verify(valid)
    \/ AbandonBlock
    \/ WaitForAll
    \/ YieldSuccess
    \/ Destroy
    \/ JoinAll
    \/ \E t \in Threads : Step(t)
    \/ Gone

(* The operating system schedules every thread that can go on. *)
Fairness ==
    /\ WF_vars(WaitForAll) /\ WF_vars(YieldSuccess) /\ WF_vars(JoinAll)
    /\ \A t \in Threads : WF_vars(Step(t))

Spec == Init /\ [][Next]_vars /\ Fairness

----------------------------------------------------------------------------
FlagsOK ==
    /\ failed \in BOOLEAN
    /\ stopped \in BOOLEAN
    /\ abandoned \in BOOLEAN
    /\ success \in BOOLEAN

TasksOK ==
    /\ pending \subseteq Task
    /\ done \subseteq Task
    /\ posted \subseteq Task
    /\ queue \in Seq(Task)

ThreadsOK ==
    /\ workers \subseteq Threads
    /\ thread \in [Threads -> Busy \cup {Idle}]

CallerOK ==
    /\ caller \in {"idle", "posting", "waited", "joining", "gone"}
    /\ block \in 0..MaxBlocks
    /\ caller \in {"posting", "waited"} => block >= 1
    /\ idx \in 1..(MaxTxns + 1)

(* Every member of the Verifier, the queue of the _io_service, the threads  *)
(* and the place of the caller in attach() have their types.                *)
TypeOK == FlagsOK /\ TasksOK /\ ThreadsOK /\ CallerOK

(* When attach() takes the verdict, it is positive only if every            *)
(* transaction of this block was valid, whatever the threads were doing and *)
(* whatever an abandoned block has left in the queue.                       *)
SuccessIsSound ==
    [][YieldSuccess /\ success' => \A task \in posted : task.valid]_vars

(* A negative verdict is deserved: a transaction of the block is invalid,   *)
(* or an earlier attach() threw and left tasks that reset() does not wait   *)
(* for, whose failure is charged to the block after it.                     *)
FailureIsDeserved ==
    [][YieldSuccess /\ ~success' =>
         abandoned \/ \E task \in posted : ~task.valid]_vars

(* attach() is never stuck in yield_success(): as long as it has not thrown *)
(* the futures of its tasks become ready, and the destructor returns.       *)
WaitEnds ==
    /\ \A n \in 1..MaxBlocks :
          (caller = "posting" /\ block = n) ~> (caller # "posting" \/ block # n)
    /\ (caller = "joining") ~> (caller = "gone")
=============================================================================
