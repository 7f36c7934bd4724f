--------------------------- MODULE VerifierProofs ---------------------------
(***************************************************************************)
(* That a verdict is sound and a failure deserved, for every pool, every   *)
(* number of blocks and of transactions, and every interleaving.           *)
(***************************************************************************)
EXTENDS Verifier, TLAPS

(* A task was posted before the caller is at transaction i of block b. *)
Before(task, b, i) == task.block < b \/ (task.block = b /\ task.idx < i)

(* Every task known to the pool was posted before: the next one is new. *)
Posted ==
    /\ \A task \in done : Before(task, block, idx)
    /\ \A i \in 1..Len(queue) : Before(queue[i], block, idx)
    /\ \A t \in Threads : thread[t] # Idle => Before(thread[t].task, block, idx)

(* A future of this block is ready only if its transaction is valid or the  *)
(* failure is on record.                                                    *)
Recorded ==
    /\ \A task \in pending \cap done : task.valid \/ failed
    /\ \A t \in Threads :
          thread[t] # Idle /\ thread[t].pc = "return" /\ thread[t].task \in pending
            => thread[t].task.valid \/ failed

(* The futures are those of this block, and the verdict waits for them. *)
Awaited ==
    /\ workers # {} => pending = posted
    /\ workers = {} => \A task \in posted : task.valid \/ failed
    /\ caller = "waited" => pending \subseteq done

VInv == TypeOK /\ Posted /\ Recorded /\ Awaited

(* What the type invariant says of a thread. *)
LEMMA ThreadType ==
    ASSUME ThreadsOK, NEW t \in Threads, thread[t] # Idle
    PROVE  /\ thread[t] \in Busy
           /\ thread[t].task \in Task
           /\ thread[t] = [pc |-> thread[t].pc, task |-> thread[t].task]
  BY DEF ThreadsOK, Busy

(* The constructor establishes the invariant. *)
LEMMA InitVInv == Init => VInv
<1> SUFFICES ASSUME Init PROVE VInv
  OBVIOUS
<1>1. FlagsOK
  BY DEF Init, FlagsOK
<1>2. TasksOK
  BY DEF Init, TasksOK
<1>3. ThreadsOK
  BY DEF Init, ThreadsOK
<1>4. CallerOK
  BY VerifierAssumption DEF Init, CallerOK
<1>5. Posted
  BY DEF Init, Posted
<1>6. Recorded
  BY DEF Init, Recorded
<1>7. Awaited
  BY DEF Init, Awaited
<1> QED
  BY <1>1, <1>2, <1>3, <1>4, <1>5, <1>6, <1>7 DEF VInv, TypeOK

(* A thread that goes on to pc. *)
LEMMA GotoFacts ==
    ASSUME ThreadsOK, NEW t \in Threads, thread[t] # Idle,
           NEW pc \in {"check", "run", "fail", "return"}, Goto(t, pc)
    PROVE  /\ thread' \in [Threads -> Busy \cup {Idle}]
           /\ thread'[t] = [pc |-> pc, task |-> thread[t].task]
           /\ thread'[t].pc = pc
           /\ thread'[t].task = thread[t].task
           /\ \A u \in Threads \ {t} : thread'[u] = thread[u]
<1>1. thread[t].task \in Task
  BY ThreadType
<1>2. [pc |-> pc, task |-> thread[t].task] \in Busy
  BY <1>1 DEF Busy
<1> QED
  BY <1>2 DEF ThreadsOK, Goto

(* A thread that has gone back to io_service::run(). *)
LEMMA IdleFacts ==
    ASSUME ThreadsOK, NEW t \in Threads,
           thread' = [thread EXCEPT ![t] = Idle]
    PROVE  /\ thread' \in [Threads -> Busy \cup {Idle}]
           /\ thread'[t] = Idle
           /\ \A u \in Threads \ {t} : thread'[u] = thread[u]
  BY DEF ThreadsOK

----------------------------------------------------------------------------
(* The steps of the caller preserve the invariant.                          *)

(* reset() at the start of a block. *)
LEMMA BeginBlockInv == VInv /\ BeginBlock => VInv'
<1> SUFFICES ASSUME VInv, BeginBlock PROVE VInv'
  OBVIOUS
<1> USE DEF VInv, TypeOK
<1>1. FlagsOK'
  BY DEF BeginBlock, Reset, FlagsOK, pool
<1>2. TasksOK'
  BY DEF BeginBlock, Reset, TasksOK, pool
<1>3. ThreadsOK'
  BY DEF BeginBlock, ThreadsOK, pool
<1>4. CallerOK'
  BY VerifierAssumption DEF BeginBlock, CallerOK
<1>5. Posted'
  <2>1. ASSUME NEW task \in Task, Before(task, block, idx)
        PROVE  Before(task, block', idx')
    BY <2>1 DEF BeginBlock, Before, CallerOK, Task
  <2>2. queue' = queue /\ done' = done /\ thread' = thread
    BY DEF BeginBlock, pool
  <2>3. \A i \in 1..Len(queue) : queue[i] \in Task
    BY DEF TasksOK
  <2> QED
    BY <2>1, <2>2, <2>3, ThreadType DEF Posted, TasksOK
<1>6. Recorded'
  BY DEF BeginBlock, Reset, Recorded
<1>7. Awaited'
  BY DEF BeginBlock, Reset, Awaited
<1> QED
  BY <1>1, <1>2, <1>3, <1>4, <1>5, <1>6, <1>7

(* verify() posts a task that the pool does not know yet. *)
LEMMA VerifyInv ==
    ASSUME VInv, NEW valid \in BOOLEAN, Verify(valid) PROVE VInv'
<1> DEFINE task == [block |-> block, idx |-> idx, valid |-> valid]
<1> USE DEF VInv, TypeOK
<1>1. /\ caller = "posting" /\ caller' = caller
      /\ idx <= MaxTxns /\ idx' = idx + 1
      /\ block' = block
      /\ posted' = posted \cup {task}
      /\ thread' = thread /\ done' = done /\ workers' = workers
      /\ stopped' = stopped /\ abandoned' = abandoned /\ success' = success
  BY DEF Verify
<1>2. \/ /\ workers # {}
         /\ pending' = pending \cup {task}
         /\ queue' = Append(queue, task)
         /\ failed' = failed
      \/ /\ workers = {}
         /\ failed' = (failed \/ ~valid)
         /\ pending' = pending /\ queue' = queue
  BY DEF Verify
<1>3. task \in Task /\ task.valid = valid
  BY <1>1 DEF CallerOK, Task
<1>4. /\ ~Before(task, block, idx)
      /\ Before(task, block, idx + 1)
      /\ \A k \in Task : Before(k, block, idx) => Before(k, block, idx + 1)
  BY <1>1 DEF Before, CallerOK, Task
<1> HIDE DEF task
<1>5. FlagsOK'
  BY <1>1, <1>2, Zenon DEF FlagsOK
<1>6. TasksOK'
  BY <1>1, <1>2, <1>3 DEF TasksOK
<1>7. ThreadsOK'
  BY <1>1 DEF ThreadsOK
<1>8. CallerOK'
  BY <1>1, VerifierAssumption DEF CallerOK
<1>9. Posted'
  <2>1. \A k \in done : Before(k, block, idx + 1)
    BY <1>4 DEF Posted, TasksOK
  <2>2. \A t \in Threads : thread[t] # Idle => Before(thread[t].task, block, idx + 1)
    BY <1>4, ThreadType DEF Posted
  <2>3. \A i \in 1..Len(queue') : Before(queue'[i], block, idx + 1)
    <3>1. \A i \in 1..Len(queue) : Before(queue[i], block, idx + 1)
      BY <1>4 DEF Posted, TasksOK
    <3>2. CASE queue' = queue
      BY <3>1, <3>2
    <3>3. CASE queue' = Append(queue, task)
      BY <1>3, <1>4, <3>1, <3>3 DEF TasksOK
    <3> QED
      BY <1>2, <3>2, <3>3
  <2> QED
    BY <1>1, <2>1, <2>2, <2>3 DEF Posted
<1>10. Recorded'
  <2>1. task \notin done
    BY <1>4 DEF Posted
  <2>2. \A t \in Threads : thread[t] # Idle => thread[t].task # task
    BY <1>4 DEF Posted
  <2>3a. failed => failed'
    BY <1>2, Zenon
  <2>3. pending' \subseteq pending \cup {task} /\ (failed => failed')
    <3>1. pending' = pending \/ pending' = pending \cup {task}
      BY <1>2, Zenon
    <3> QED
      BY <2>3a, <3>1
  <2>4. ASSUME NEW k \in pending' \cap done' PROVE k.valid \/ failed'
    <3>1. k \in pending \cap done
      BY <1>1, <2>1, <2>3
    <3> QED
      BY <2>3, <3>1 DEF Recorded
  <2>5. ASSUME NEW t \in Threads, thread'[t] # Idle, thread'[t].pc = "return",
               thread'[t].task \in pending'
        PROVE  thread'[t].task.valid \/ failed'
    <3>1. thread[t].task \in pending
      BY <1>1, <2>2, <2>3, <2>5
    <3> QED
      BY <1>1, <2>3, <2>5, <3>1 DEF Recorded
  <2> QED
    BY <2>4, <2>5 DEF Recorded
<1>11. Awaited'
  BY <1>1, <1>2, <1>3, Zenon DEF Awaited
<1> QED
  BY <1>5, <1>6, <1>7, <1>8, <1>9, <1>10, <1>11

(* attach() throws. *)
LEMMA AbandonInv == VInv /\ AbandonBlock => VInv'
<1> SUFFICES ASSUME VInv, AbandonBlock PROVE VInv'
  OBVIOUS
<1> USE DEF VInv, TypeOK
<1>1. /\ caller' = "idle"
      /\ abandoned' \in BOOLEAN
      /\ UNCHANGED <<failed, pending, queue, thread, done, stopped, workers,
                     block, idx, posted, success>>
  BY DEF AbandonBlock, pool
<1>2. FlagsOK' /\ TasksOK' /\ ThreadsOK' /\ CallerOK'
  BY <1>1 DEF FlagsOK, TasksOK, ThreadsOK, CallerOK
<1>3. Posted' /\ Recorded' /\ Awaited'
  BY <1>1 DEF Posted, Recorded, Awaited
<1> QED
  BY <1>2, <1>3

(* wait_for_all() returns. *)
LEMMA WaitInv == VInv /\ WaitForAll => VInv'
<1> SUFFICES ASSUME VInv, WaitForAll PROVE VInv'
  OBVIOUS
<1> USE DEF VInv, TypeOK
<1>1. /\ caller = "posting" /\ caller' = "waited"
      /\ pending \subseteq done
      /\ UNCHANGED <<failed, pending, queue, thread, done, stopped, workers,
                     block, idx, posted, success, abandoned>>
  BY DEF WaitForAll, pool
<1>2. FlagsOK' /\ TasksOK' /\ ThreadsOK' /\ CallerOK'
  BY <1>1 DEF FlagsOK, TasksOK, ThreadsOK, CallerOK
<1>3. Posted' /\ Recorded' /\ Awaited'
  BY <1>1 DEF Posted, Recorded, Awaited
<1> QED
  BY <1>2, <1>3

(* The verdict is read. *)
LEMMA YieldInv == VInv /\ YieldSuccess => VInv'
<1> SUFFICES ASSUME VInv, YieldSuccess PROVE VInv'
  OBVIOUS
<1> USE DEF VInv, TypeOK
<1>1. /\ caller' = "idle"
      /\ success' \in BOOLEAN
      /\ UNCHANGED <<failed, pending, queue, thread, done, stopped, workers,
                     block, idx, posted, abandoned>>
  BY DEF YieldSuccess, pool, FlagsOK
<1>2. FlagsOK' /\ TasksOK' /\ ThreadsOK' /\ CallerOK'
  BY <1>1 DEF FlagsOK, TasksOK, ThreadsOK, CallerOK
<1>3. Posted' /\ Recorded' /\ Awaited'
  BY <1>1 DEF Posted, Recorded, Awaited
<1> QED
  BY <1>2, <1>3

(* The destructor stops the pool and joins its threads. *)
LEMMA DestroyInv == VInv /\ (Destroy \/ JoinAll \/ Gone) => VInv'
<1> SUFFICES ASSUME VInv, Destroy \/ JoinAll \/ Gone PROVE VInv'
  OBVIOUS
<1> USE DEF VInv, TypeOK
<1>1. /\ caller' \in {"joining", "gone"}
      /\ stopped' \in BOOLEAN
      /\ UNCHANGED <<failed, pending, queue, thread, done, workers,
                     block, idx, posted, success, abandoned>>
  BY DEF Destroy, JoinAll, Gone, pool, vars, FlagsOK
<1>2. FlagsOK' /\ TasksOK' /\ ThreadsOK' /\ CallerOK'
  BY <1>1 DEF FlagsOK, TasksOK, ThreadsOK, CallerOK
<1>3. Posted' /\ Recorded' /\ Awaited'
  BY <1>1 DEF Posted, Recorded, Awaited
<1> QED
  BY <1>2, <1>3

----------------------------------------------------------------------------
(* The steps of the threads preserve the invariant.                         *)

(* A thread takes a task from the queue. *)
LEMMA TakeInv ==
    ASSUME VInv, NEW t \in Threads, Take(t) PROVE VInv'
<1> DEFINE task == Head(queue)
<1> USE DEF VInv, TypeOK
<1>1. /\ thread[t] = Idle
      /\ queue # << >>
      /\ thread' = [thread EXCEPT ![t] = [pc |-> "check", task |-> task]]
      /\ queue' = Tail(queue)
      /\ UNCHANGED <<failed, done, stopped, workers, pending, caller, block, idx,
                     posted, abandoned, success>>
  BY DEF Take, callerVars
<1>2. /\ task \in Task
      /\ task = queue[1]
      /\ 1 \in 1..Len(queue)
      /\ Tail(queue) \in Seq(Task)
      /\ \A i \in 1..Len(Tail(queue)) : /\ i + 1 \in 1..Len(queue)
                                        /\ Tail(queue)[i] = queue[i + 1]
  BY <1>1 DEF TasksOK
<1> HIDE DEF task
<1>3. [pc |-> "check", task |-> task] \in Busy
  BY <1>2 DEF Busy
<1>4. /\ thread' \in [Threads -> Busy \cup {Idle}]
      /\ thread'[t] = [pc |-> "check", task |-> task]
      /\ \A u \in Threads \ {t} : thread'[u] = thread[u]
  BY <1>1, <1>3 DEF ThreadsOK
<1>5. FlagsOK' /\ CallerOK'
  BY <1>1 DEF FlagsOK, CallerOK
<1>6. TasksOK' /\ ThreadsOK'
  BY <1>1, <1>2, <1>4 DEF TasksOK, ThreadsOK
<1>7. Posted'
  <2>1. Before(task, block, idx)
    BY <1>2 DEF Posted
  <2>2. \A i \in 1..Len(queue') : Before(queue'[i], block, idx)
    BY <1>1, <1>2 DEF Posted
  <2>3. \A u \in Threads : thread'[u] # Idle => Before(thread'[u].task, block, idx)
    BY <1>4, <2>1 DEF Posted
  <2> QED
    BY <1>1, <2>2, <2>3 DEF Posted
<1>8. Recorded'
  BY <1>1, <1>4 DEF Recorded
<1>9. Awaited'
  BY <1>1 DEF Awaited
<1> QED
  BY <1>5, <1>6, <1>7, <1>8, <1>9

(* A thread that stays busy with its task and is not about to return. *)
LEMMA WorkingInv ==
    ASSUME VInv, NEW t \in Threads, thread[t] # Idle,
           NEW pc \in {"check", "run", "fail", "return"}, Goto(t, pc),
           pc = "return" =>
              (thread[t].task \in pending => thread[t].task.valid \/ failed'),
           failed => failed', failed' \in BOOLEAN,
           UNCHANGED <<done, queue, stopped, workers, pending, caller, block, idx,
                       posted, abandoned, success>>
    PROVE  VInv'
<1> USE DEF VInv, TypeOK
<1>1. /\ thread' \in [Threads -> Busy \cup {Idle}]
      /\ thread'[t].pc = pc
      /\ thread'[t].task = thread[t].task
      /\ \A u \in Threads \ {t} : thread'[u] = thread[u]
  BY GotoFacts
<1>2. FlagsOK' /\ CallerOK'
  BY DEF FlagsOK, CallerOK
<1>3. TasksOK' /\ ThreadsOK'
  BY <1>1 DEF TasksOK, ThreadsOK
<1>4. Posted'
  <2>1. \A u \in Threads : thread'[u] # Idle => Before(thread'[u].task, block, idx)
    BY <1>1 DEF Posted
  <2> QED
    BY <2>1 DEF Posted
<1>5. Recorded'
  <2>1. \A k \in pending \cap done : k.valid \/ failed'
    BY DEF Recorded
  <2>2. ASSUME NEW u \in Threads, thread'[u] # Idle, thread'[u].pc = "return",
               thread'[u].task \in pending
        PROVE  thread'[u].task.valid \/ failed'
    <3>1. CASE u = t
      BY <1>1, <2>2, <3>1
    <3>2. CASE u # t
      BY <1>1, <2>2, <3>2 DEF Recorded
    <3> QED
      BY <3>1, <3>2
  <2> QED
    BY <2>1, <2>2 DEF Recorded
<1>6. Awaited'
  BY DEF Awaited
<1> QED
  BY <1>2, <1>3, <1>4, <1>5, <1>6

(* A thread looks at _failed: it skips its task only when it is set. *)
LEMMA CheckInv ==
    ASSUME VInv, NEW t \in Threads, AlreadyFailed(t) PROVE VInv'
<1>1. thread[t] # Idle
  BY DEF AlreadyFailed, Idle
<1> DEFINE pc == IF failed THEN "return" ELSE "run"
<1>2. /\ pc \in {"check", "run", "fail", "return"}
      /\ Goto(t, pc)
      /\ pc = "return" => failed
      /\ UNCHANGED <<failed, done, queue, stopped, workers, pending, caller,
                     block, idx, posted, abandoned, success>>
  BY DEF AlreadyFailed, callerVars
<1>3. failed' \in BOOLEAN
  BY <1>2 DEF VInv, TypeOK, FlagsOK
<1> HIDE DEF pc
<1> QED
  BY <1>1, <1>2, <1>3, WorkingInv

(* A thread evaluates the scripts. *)
LEMMA RunInv ==
    ASSUME VInv, NEW t \in Threads, Run(t) PROVE VInv'
<1>1. thread[t] # Idle
  BY DEF Run, Idle
<1> DEFINE pc == IF thread[t].task.valid THEN "return" ELSE "fail"
<1>2. /\ pc \in {"check", "run", "fail", "return"}
      /\ Goto(t, pc)
      /\ pc = "return" => thread[t].task.valid
      /\ UNCHANGED <<failed, done, queue, stopped, workers, pending, caller,
                     block, idx, posted, abandoned, success>>
  BY DEF Run, callerVars
<1>3. failed' \in BOOLEAN
  BY <1>2 DEF VInv, TypeOK, FlagsOK
<1> HIDE DEF pc
<1> QED
  BY <1>1, <1>2, <1>3, WorkingInv

(* A thread records a failure. *)
LEMMA FailInv ==
    ASSUME VInv, NEW t \in Threads, FailedWithReason(t) PROVE VInv'
<1>1. thread[t] # Idle
  BY DEF FailedWithReason, Idle
<1>2. /\ Goto(t, "return")
      /\ failed' = TRUE
      /\ UNCHANGED <<done, queue, stopped, workers, pending, caller,
                     block, idx, posted, abandoned, success>>
  BY DEF FailedWithReason, callerVars
<1> QED
  BY <1>1, <1>2, WorkingInv

(* A future becomes ready. *)
LEMMA ReturnInv ==
    ASSUME VInv, NEW t \in Threads, Return(t) PROVE VInv'
<1> DEFINE task == thread[t].task
<1> USE DEF VInv, TypeOK
<1>1. /\ thread[t] # Idle
      /\ thread[t].pc = "return"
      /\ done' = done \cup {task}
      /\ thread' = [thread EXCEPT ![t] = Idle]
      /\ UNCHANGED <<failed, queue, stopped, workers, pending, caller, block, idx,
                     posted, abandoned, success>>
  BY DEF Return, callerVars, Idle
<1>2. task \in Task
  BY <1>1, ThreadType
<1>3. /\ thread' \in [Threads -> Busy \cup {Idle}]
      /\ thread'[t] = Idle
      /\ \A u \in Threads \ {t} : thread'[u] = thread[u]
  BY <1>1, IdleFacts
<1>4. FlagsOK' /\ CallerOK'
  BY <1>1 DEF FlagsOK, CallerOK
<1>5. Before(task, block, idx) /\ (task \in pending => task.valid \/ failed)
  BY <1>1 DEF Posted, Recorded
<1> HIDE DEF task
<1>6. TasksOK' /\ ThreadsOK'
  BY <1>1, <1>2, <1>3 DEF TasksOK, ThreadsOK
<1>7. Posted'
  BY <1>1, <1>3, <1>5 DEF Posted
<1>8. Recorded'
  BY <1>1, <1>3, <1>5 DEF Recorded
<1>9. Awaited'
  BY <1>1 DEF Awaited
<1> QED
  BY <1>4, <1>6, <1>7, <1>8, <1>9

----------------------------------------------------------------------------
(* The invariant holds in every reachable state. *)
LEMMA VInvariance == Spec => []VInv
<1>1. VInv /\ [Next]_vars => VInv'
  <2> SUFFICES ASSUME VInv, [Next]_vars PROVE VInv'
    OBVIOUS
  <2>1. CASE \E valid \in BOOLEAN : Verify(valid)
    BY <2>1, VerifyInv
  <2>2. CASE BeginBlock \/ AbandonBlock \/ WaitForAll \/ YieldSuccess
    BY <2>2, BeginBlockInv, AbandonInv, WaitInv, YieldInv
  <2>3. CASE Destroy \/ JoinAll \/ Gone
    BY <2>3, DestroyInv
  <2>4. CASE \E t \in Threads : Step(t)
    BY <2>4, TakeInv, CheckInv, RunInv, FailInv, ReturnInv DEF Step
  <2>5. CASE UNCHANGED vars
    <3>1. UNCHANGED <<failed, pending, queue, thread, done, stopped, workers,
                      caller, block, idx, posted, abandoned, success>>
      BY <2>5 DEF vars, pool
    <3> QED
      BY <3>1 DEF VInv, TypeOK, FlagsOK, TasksOK, ThreadsOK, CallerOK,
                  Posted, Recorded, Awaited
  <2> QED
    BY <2>1, <2>2, <2>3, <2>4, <2>5 DEF Next
<1> QED
  BY <1>1, InitVInv, PTL DEF Spec

(* The members of the Verifier keep their types, for every pool. *)
THEOREM VerifierTypeOK == Spec => []TypeOK
<1>1. VInv => TypeOK
  BY DEF VInv
<1> QED
  BY <1>1, VInvariance, PTL

(* yield_success() returns true only if every transaction that attach()     *)
(* posted for this block is valid: for every number of threads, blocks and  *)
(* transactions, every interleaving, and whatever tasks of blocks that were *)
(* abandoned the pool still runs.                                           *)
THEOREM VerifierSound == Spec => SuccessIsSound
<1>1. VInv /\ YieldSuccess /\ success' => \A task \in posted : task.valid
  <2> SUFFICES ASSUME VInv, YieldSuccess, success', NEW task \in posted
               PROVE  task.valid
    OBVIOUS
  <2>1. caller = "waited" /\ ~failed
    BY DEF YieldSuccess
  <2>2. CASE workers # {}
    <3>1. task \in pending \cap done
      BY <2>1, <2>2 DEF VInv, Awaited
    <3> QED
      BY <2>1, <3>1 DEF VInv, Recorded
  <2>3. CASE workers = {}
    BY <2>1, <2>3 DEF VInv, Awaited
  <2> QED
    BY <2>2, <2>3
<1>2. VInv /\ [Next]_vars =>
        [YieldSuccess /\ success' => \A task \in posted : task.valid]_vars
  BY <1>1
<1> QED
  BY <1>2, VInvariance, PTL DEF Spec, SuccessIsSound

----------------------------------------------------------------------------
(* That a negative verdict is deserved.                                     *)

(* A task is in one place: in the queue, with one thread, or done. *)
Once ==
    /\ \A i \in 1..Len(queue) : queue[i] \notin done
    /\ \A i, j \in 1..Len(queue) : queue[i] = queue[j] => i = j
    /\ \A i \in 1..Len(queue), t \in Threads :
          thread[t] # Idle => thread[t].task # queue[i]
    /\ \A t \in Threads : thread[t] # Idle => thread[t].task \notin done
    /\ \A t, u \in Threads :
          thread[t] # Idle /\ thread[u] # Idle /\ thread[t].task = thread[u].task => t = u

(* As long as no attach() threw, the pool has only tasks that the caller    *)
(* waits for, and after the verdict it has none.                            *)
Own ==
    /\ \A i \in 1..Len(queue) : queue[i] \in pending
    /\ \A t \in Threads : thread[t] # Idle => thread[t].task \in pending
    /\ caller # "posting" => pending \subseteq done

(* A failure is that of a transaction of this block. *)
Deserved ==
    /\ pending \subseteq posted
    /\ \A t \in Threads : thread[t] # Idle /\ thread[t].pc = "fail" => ~thread[t].task.valid
    /\ ~abandoned => Own /\ (failed => \E task \in posted : ~task.valid)

DInv == Once /\ Deserved

(* The constructor establishes it. *)
LEMMA InitDInv == Init => DInv
  BY DEF Init, DInv, Once, Deserved, Own, Idle

(* reset() leaves nothing of the block before, unless it was abandoned. *)
LEMMA BeginBlockDInv == VInv /\ DInv /\ BeginBlock => DInv'
<1> SUFFICES ASSUME VInv, DInv, BeginBlock PROVE DInv'
  OBVIOUS
<1>1. /\ caller = "idle" /\ pending' = {} /\ failed' = FALSE
      /\ UNCHANGED <<queue, thread, done, abandoned>>
  BY DEF BeginBlock, Reset, pool
<1>2. Once'
  BY <1>1 DEF DInv, Once
<1>3. ASSUME ~abandoned PROVE Own'
  <2>1. /\ \A i \in 1..Len(queue) : queue[i] \in pending
        /\ \A t \in Threads : thread[t] # Idle => thread[t].task \in pending
        /\ pending \subseteq done
    BY <1>1, <1>3 DEF DInv, Deserved, Own
  <2>2. \A i \in 1..Len(queue) : FALSE
    BY <2>1 DEF DInv, Once
  <2>3. \A t \in Threads : thread[t] = Idle
    BY <2>1 DEF DInv, Once
  <2> QED
    BY <1>1, <2>2, <2>3 DEF Own
<1>4. Deserved'
  BY <1>1, <1>3 DEF DInv, Deserved
<1> QED
  BY <1>2, <1>4 DEF DInv

(* verify() posts a task that is nowhere yet. *)
LEMMA VerifyDInv ==
    ASSUME VInv, DInv, NEW valid \in BOOLEAN, Verify(valid) PROVE DInv'
<1> DEFINE task == [block |-> block, idx |-> idx, valid |-> valid]
<1>1. /\ caller = "posting" /\ caller' = caller
      /\ idx <= MaxTxns
      /\ posted' = posted \cup {task}
      /\ UNCHANGED <<thread, done, abandoned>>
  BY DEF Verify
<1>2. \/ /\ pending' = pending \cup {task}
         /\ queue' = Append(queue, task)
         /\ failed' = failed
      \/ /\ failed' = (failed \/ ~valid)
         /\ pending' = pending /\ queue' = queue
  BY DEF Verify
<1>3. task.valid = valid
  OBVIOUS
<1>4. /\ ~Before(task, block, idx)
      /\ task \in Task
  BY <1>1 DEF Before, VInv, TypeOK, CallerOK, Task
<1>5. queue \in Seq(Task) /\ failed \in BOOLEAN
  BY DEF VInv, TypeOK, TasksOK, FlagsOK
<1> HIDE DEF task
<1>6. /\ task \notin done
      /\ \A i \in 1..Len(queue) : queue[i] # task
      /\ \A t \in Threads : thread[t] # Idle => thread[t].task # task
  BY <1>4 DEF VInv, Posted
<1>7. CASE pending' = pending \cup {task} /\ queue' = Append(queue, task) /\ failed' = failed
  <2>1. /\ Len(queue') = Len(queue) + 1
        /\ \A i \in 1..Len(queue) : queue'[i] = queue[i]
        /\ queue'[Len(queue) + 1] = task
        /\ Len(queue) \in Nat
    BY <1>4, <1>5, <1>7
  <2>2. \A i \in 1..Len(queue') : i \in 1..Len(queue) \/ i = Len(queue) + 1
    BY <2>1
  <2>3. Once'
    BY <1>1, <1>6, <2>1, <2>2 DEF DInv, Once
  <2>4. ASSUME ~abandoned PROVE Own' /\ (failed' => \E k \in posted' : ~k.valid)
    BY <1>1, <1>7, <2>1, <2>2, <2>4 DEF DInv, Deserved, Own
  <2>5. Deserved'
    BY <1>1, <1>7, <2>4 DEF DInv, Deserved
  <2> QED
    BY <2>3, <2>5 DEF DInv
<1>8. CASE failed' = (failed \/ ~valid) /\ pending' = pending /\ queue' = queue
  <2>1. Once'
    BY <1>1, <1>8 DEF DInv, Once
  <2>2. ASSUME ~abandoned, failed' PROVE \E k \in posted' : ~k.valid
    <3>1. failed \/ ~valid
      BY <1>8, <2>2
    <3>2. CASE failed
      BY <1>1, <2>2, <3>2 DEF DInv, Deserved
    <3>3. CASE ~valid
      BY <1>1, <1>3, <3>3
    <3> QED
      BY <3>1, <3>2, <3>3
  <2>3. ASSUME ~abandoned PROVE Own'
    BY <1>1, <1>8, <2>3 DEF DInv, Deserved, Own
  <2>4. Deserved'
    BY <1>1, <1>8, <2>2, <2>3 DEF DInv, Deserved
  <2> QED
    BY <2>1, <2>4 DEF DInv
<1> QED
  BY <1>2, <1>7, <1>8

(* attach() throws, waits for the futures, reads the verdict, or the        *)
(* destructor runs.                                                         *)
LEMMA CallerDInv ==
    VInv /\ DInv /\ (AbandonBlock \/ WaitForAll \/ YieldSuccess \/ Destroy \/ JoinAll \/ Gone)
      => DInv'
<1> SUFFICES ASSUME VInv, DInv,
                    AbandonBlock \/ WaitForAll \/ YieldSuccess \/ Destroy \/ JoinAll \/ Gone
             PROVE  DInv'
  OBVIOUS
<1>1. UNCHANGED <<failed, pending, queue, thread, done, posted>>
  BY DEF AbandonBlock, WaitForAll, YieldSuccess, Destroy, JoinAll, Gone, pool, vars
<1>2. Once'
  BY <1>1 DEF DInv, Once
<1>3. ~abandoned' => ~abandoned
  BY DEF AbandonBlock, WaitForAll, YieldSuccess, Destroy, JoinAll, Gone, pool, vars
<1>4. ASSUME ~abandoned', caller' # "posting" PROVE pending \subseteq done
  <2>1. CASE AbandonBlock
    BY <1>4, <2>1 DEF AbandonBlock
  <2>2. CASE WaitForAll
    BY <2>2 DEF WaitForAll
  <2>3. CASE YieldSuccess \/ Destroy \/ JoinAll \/ Gone
    <3>1. caller # "posting"
      BY <2>3 DEF YieldSuccess, Destroy, JoinAll, Gone
    <3> QED
      BY <1>3, <1>4, <3>1 DEF DInv, Deserved, Own
  <2> QED
    BY <2>1, <2>2, <2>3
<1>5. ASSUME ~abandoned' PROVE Own'
  BY <1>1, <1>3, <1>4, <1>5 DEF DInv, Deserved, Own
<1>6. Deserved'
  BY <1>1, <1>3, <1>5 DEF DInv, Deserved
<1> QED
  BY <1>2, <1>6 DEF DInv

(* A thread takes a task from the queue. *)
LEMMA TakeDInv ==
    ASSUME VInv, DInv, NEW t \in Threads, Take(t) PROVE DInv'
<1> DEFINE task == Head(queue)
<1>1. /\ thread[t] = Idle
      /\ queue # << >>
      /\ thread' = [thread EXCEPT ![t] = [pc |-> "check", task |-> task]]
      /\ queue' = Tail(queue)
      /\ UNCHANGED <<failed, done, pending, caller, posted, abandoned>>
  BY DEF Take, callerVars
<1>2. queue \in Seq(Task)
  BY DEF VInv, TypeOK, TasksOK
<1>3. /\ task = queue[1]
      /\ 1 \in 1..Len(queue)
      /\ \A i \in 1..Len(Tail(queue)) : /\ i + 1 \in 1..Len(queue)
                                        /\ i + 1 # 1
                                        /\ Tail(queue)[i] = queue[i + 1]
  BY <1>1, <1>2
<1>3a. \A i, j \in 1..Len(Tail(queue)) : i + 1 = j + 1 => i = j
  OBVIOUS
<1> HIDE DEF task
<1>4. /\ thread'[t] = [pc |-> "check", task |-> task]
      /\ thread'[t].task = task /\ thread'[t].pc = "check"
      /\ \A u \in Threads \ {t} : thread'[u] = thread[u]
  BY <1>1 DEF VInv, TypeOK, ThreadsOK
<1>5. /\ task \notin done
      /\ \A u \in Threads : thread[u] # Idle => thread[u].task # task
      /\ \A i \in 1..Len(queue') : queue'[i] # task
  BY <1>1, <1>3 DEF DInv, Once
<1>6. Once'
  <2>1. \A i \in 1..Len(queue') : queue'[i] \notin done'
    BY <1>1, <1>3 DEF DInv, Once
  <2>2. \A i, j \in 1..Len(queue') : queue'[i] = queue'[j] => i = j
    BY <1>1, <1>3, <1>3a DEF DInv, Once
  <2>3. ASSUME NEW i \in 1..Len(queue'), NEW u \in Threads, thread'[u] # Idle
        PROVE  thread'[u].task # queue'[i]
    <3>1. CASE u = t
      BY <1>4, <1>5, <3>1
    <3>2. CASE u # t
      BY <1>1, <1>3, <1>4, <2>3, <3>2 DEF DInv, Once
    <3> QED
      BY <3>1, <3>2
  <2>4. \A u \in Threads : thread'[u] # Idle => thread'[u].task \notin done'
    BY <1>1, <1>4, <1>5 DEF DInv, Once
  <2>5. ASSUME NEW u \in Threads, NEW w \in Threads, thread'[u] # Idle, thread'[w] # Idle,
               thread'[u].task = thread'[w].task
        PROVE  u = w
    BY <1>4, <1>5, <2>5 DEF DInv, Once
  <2> QED
    BY <2>1, <2>2, <2>3, <2>4, <2>5 DEF Once
<1>7. ASSUME ~abandoned PROVE Own'
  <2>1. task \in pending
    BY <1>3, <1>7 DEF DInv, Deserved, Own
  <2>2. \A i \in 1..Len(queue') : queue'[i] \in pending
    BY <1>1, <1>3, <1>7 DEF DInv, Deserved, Own
  <2>3. \A u \in Threads : thread'[u] # Idle => thread'[u].task \in pending
    BY <1>4, <1>7, <2>1 DEF DInv, Deserved, Own
  <2> QED
    BY <1>1, <1>7, <2>2, <2>3 DEF DInv, Deserved, Own
<1>8. Deserved'
  <2>1. \A u \in Threads : thread'[u] # Idle /\ thread'[u].pc = "fail" => ~thread'[u].task.valid
    BY <1>4 DEF DInv, Deserved
  <2> QED
    BY <1>1, <1>7, <2>1 DEF DInv, Deserved
<1> QED
  BY <1>6, <1>8 DEF DInv

(* A thread goes on with its task. *)
LEMMA WorkingDInv ==
    ASSUME VInv, DInv, NEW t \in Threads, thread[t] # Idle,
           NEW pc \in {"check", "run", "fail", "return"}, Goto(t, pc),
           pc = "fail" => ~thread[t].task.valid,
           failed' => failed \/ ~thread[t].task.valid,
           UNCHANGED <<done, queue, pending, caller, posted, abandoned>>
    PROVE  DInv'
<1>1. /\ thread'[t].pc = pc
      /\ thread'[t].task = thread[t].task
      /\ \A u \in Threads \ {t} : thread'[u] = thread[u]
  BY GotoFacts DEF VInv, TypeOK
<1>2. \A u \in Threads : /\ thread'[u].task = thread[u].task
                         /\ thread'[u] # Idle => thread[u] # Idle
  BY <1>1
<1>3. Once'
  BY <1>2 DEF DInv, Once
<1>4. ASSUME ~abandoned PROVE Own' /\ (failed' => \E k \in posted' : ~k.valid)
  <2>1. Own'
    BY <1>2, <1>4 DEF DInv, Deserved, Own
  <2>2. thread[t].task \in posted
    BY <1>4 DEF DInv, Deserved, Own
  <2> QED
    BY <1>4, <2>1, <2>2 DEF DInv, Deserved
<1>5. \A u \in Threads : thread'[u] # Idle /\ thread'[u].pc = "fail" => ~thread'[u].task.valid
  BY <1>1, <1>2 DEF DInv, Deserved
<1>6. Deserved'
  BY <1>4, <1>5 DEF DInv, Deserved
<1> QED
  BY <1>3, <1>6 DEF DInv

(* The steps of do_verify(): only an invalid transaction gets to            *)
(* failed_with_reason().                                                    *)
LEMMA DoVerifyDInv ==
    ASSUME VInv, DInv, NEW t \in Threads, AlreadyFailed(t) \/ Run(t) \/ FailedWithReason(t)
    PROVE  DInv'
<1>1. thread[t] # Idle
  BY DEF AlreadyFailed, Run, FailedWithReason, Idle
<1>2. UNCHANGED <<done, queue, pending, caller, posted, abandoned>>
  BY DEF AlreadyFailed, Run, FailedWithReason, callerVars
<1>3. CASE AlreadyFailed(t)
  <2> DEFINE pc == IF failed THEN "return" ELSE "run"
  <2>1. /\ pc \in {"check", "run", "fail", "return"} /\ pc # "fail"
        /\ Goto(t, pc) /\ failed' = failed
    BY <1>3 DEF AlreadyFailed
  <2> HIDE DEF pc
  <2> QED
    BY <1>1, <1>2, <2>1, WorkingDInv
<1>4. CASE Run(t)
  <2> DEFINE pc == IF thread[t].task.valid THEN "return" ELSE "fail"
  <2>1. /\ pc \in {"check", "run", "fail", "return"}
        /\ pc = "fail" => ~thread[t].task.valid
        /\ Goto(t, pc) /\ failed' = failed
    BY <1>4 DEF Run
  <2> HIDE DEF pc
  <2> QED
    BY <1>1, <1>2, <2>1, WorkingDInv
<1>5. CASE FailedWithReason(t)
  <2>1. Goto(t, "return") /\ ~thread[t].task.valid
    BY <1>1, <1>5 DEF FailedWithReason, DInv, Deserved
  <2> QED
    BY <1>1, <1>2, <2>1, WorkingDInv
<1> QED
  BY <1>3, <1>4, <1>5

(* A future becomes ready. *)
LEMMA ReturnDInv ==
    ASSUME VInv, DInv, NEW t \in Threads, Return(t) PROVE DInv'
<1> DEFINE task == thread[t].task
<1>1. /\ thread[t] # Idle
      /\ done' = done \cup {task}
      /\ thread' = [thread EXCEPT ![t] = Idle]
      /\ UNCHANGED <<failed, queue, pending, caller, posted, abandoned>>
  BY DEF Return, callerVars, Idle
<1>2. /\ thread'[t] = Idle
      /\ \A u \in Threads \ {t} : thread'[u] = thread[u]
  BY <1>1, IdleFacts DEF VInv, TypeOK
<1>3. /\ \A i \in 1..Len(queue) : queue[i] # task
      /\ \A u \in Threads : thread[u] # Idle /\ u # t => thread[u].task # task
  BY <1>1 DEF DInv, Once
<1> HIDE DEF task
<1>4. Once'
  BY <1>1, <1>2, <1>3 DEF DInv, Once
<1>5. ASSUME ~abandoned PROVE Own'
  BY <1>1, <1>2, <1>5 DEF DInv, Deserved, Own
<1>6. Deserved'
  BY <1>1, <1>2, <1>5 DEF DInv, Deserved
<1> QED
  BY <1>4, <1>6 DEF DInv

(* yield_success() returns false only if a transaction of the block is      *)
(* invalid or an attach() before it threw: for every number of threads,     *)
(* blocks and transactions, no verdict of a block that was waited for is    *)
(* charged to the next one.                                                 *)
THEOREM VerifierDeserved == Spec => FailureIsDeserved
<1>1. VInv /\ DInv /\ [Next]_vars => DInv'
  <2> SUFFICES ASSUME VInv, DInv, [Next]_vars PROVE DInv'
    OBVIOUS
  <2>1. CASE \E valid \in BOOLEAN : Verify(valid)
    BY <2>1, VerifyDInv
  <2>2. CASE BeginBlock
    BY <2>2, BeginBlockDInv
  <2>3. CASE AbandonBlock \/ WaitForAll \/ YieldSuccess \/ Destroy \/ JoinAll \/ Gone
    BY <2>3, CallerDInv
  <2>4. CASE \E t \in Threads : Step(t)
    BY <2>4, TakeDInv, DoVerifyDInv, ReturnDInv DEF Step
  <2>5. CASE UNCHANGED vars
    <3>1. UNCHANGED <<failed, pending, queue, thread, done, caller, posted, abandoned>>
      BY <2>5 DEF vars, pool
    <3> QED
      BY <3>1 DEF DInv, Once, Deserved, Own
  <2> QED
    BY <2>1, <2>2, <2>3, <2>4, <2>5 DEF Next
<1>2. VInv /\ DInv /\ YieldSuccess /\ ~success' => abandoned \/ \E task \in posted : ~task.valid
  <2> SUFFICES ASSUME VInv, DInv, YieldSuccess, ~success', ~abandoned
               PROVE  \E task \in posted : ~task.valid
    OBVIOUS
  <2>1. failed
    BY DEF YieldSuccess, VInv, TypeOK, FlagsOK
  <2> QED
    BY <2>1 DEF DInv, Deserved
<1>3. VInv /\ DInv /\ [Next]_vars =>
        [YieldSuccess /\ ~success' => abandoned \/ \E task \in posted : ~task.valid]_vars
  BY <1>2
<1> QED
  BY <1>1, <1>3, InitDInv, VInvariance, PTL DEF Spec, FailureIsDeserved
=============================================================================
