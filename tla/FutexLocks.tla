----------------------------- MODULE FutexLocks -----------------------------
(***************************************************************************)
(* Mutex and Condvar on Redox (src/sys/redox/mutex.rs and condvar.rs): one *)
(* mutex word, the sequence number of one condition variable used with it, *)
(* and the kernel's futex queues.  Every access to a word and every futex  *)
(* call is a step.  The mutex word is 0 (free), 1 (held) or 2 (held, and   *)
(* there may be sleepers).  A loop that spins may end after any iteration. *)
(* The kernel is external: FUTEX_WAIT compares and sleeps at once and      *)
(* returns when the values differ, for a wake, or after its timeout;       *)
(* FUTEX_WAKE picks any sleeper; FUTEX_REQUEUE wakes one and moves the     *)
(* others to the queue of the mutex word.                                  *)
(***************************************************************************)
EXTENDS Naturals

CONSTANTS Threads,
          MaxCalls    \* bound on calls made

ASSUME FutexAssumption == MaxCalls \in Nat

VARIABLES
  lock,      \* the mutex word
  seq,       \* the Condvar's sequence number
  bound,     \* the Condvar has recorded its mutex
  pc,        \* per thread: location; "msleep" and "csleep" are in the kernel
  ret,       \* where the call under way returns to
  before,    \* seq_before of the wait under way
  timed,     \* it is wait_timeout
  after,     \* its outcome: seq_before != seq_after
  failed,  \* the assertion of Condvar::wait has failed
  calls

vars == <<lock, seq, bound, pc, ret, before, timed, after, failed, calls>>
waiting == <<before, timed, after, failed>>

Init ==
  /\ lock = 0 /\ seq = 0 /\ bound = FALSE /\ calls = 0
  /\ pc = [t \in Threads |-> "idle"] /\ ret = [t \in Threads |-> "idle"]
  /\ before = [t \in Threads |-> 0] /\ timed = [t \in Threads |-> FALSE]
  /\ after = [t \in Threads |-> FALSE] /\ failed = [t \in Threads |-> FALSE]

Goto(t, l) == pc' = [pc EXCEPT ![t] = l]
Begin(t, l, r) ==
  /\ calls < MaxCalls /\ calls' = calls + 1
  /\ Goto(t, l) /\ ret' = [ret EXCEPT ![t] = r]

-----------------------------------------------------------------------------
(* Mutex                                                                   *)

LockCall(t) ==
  /\ pc[t] = "idle" /\ Begin(t, "spin", "held")
  /\ UNCHANGED <<lock, seq, bound, waiting>>

TryLock(t) ==
  /\ pc[t] = "idle" /\ Begin(t, IF lock = 0 THEN "held" ELSE "idle", "idle")
  /\ lock' = IF lock = 0 THEN 1 ELSE lock
  /\ UNCHANGED <<seq, bound, waiting>>

\* The last iteration of the loop: cxchg(m, 0, 1).
LockSpin(t) ==
  /\ pc[t] = "spin"
  /\ lock' = IF lock = 0 THEN 1 ELSE lock
  /\ Goto(t, IF lock = 0 THEN "held" ELSE IF lock = 1 THEN "xchg" ELSE "mwait")
  /\ UNCHANGED <<seq, bound, ret, waiting, calls>>

\* Mutant: a mutex that nobody else waits for counts as free.
WasFree_Mutant == lock # 2
WasFree == lock = 0

\* xchg(m, 2), in lock and when a wait on the Condvar ends.
LockXchg(t) ==
  /\ pc[t] = "xchg" /\ lock' = 2
  /\ Goto(t, IF WasFree THEN ret[t] ELSE "mwait")
  /\ UNCHANGED <<seq, bound, ret, waiting, calls>>

\* futex(m, FUTEX_WAIT, 2).
LockWait(t) ==
  /\ pc[t] = "mwait" /\ Goto(t, IF lock = 2 THEN "msleep" ELSE "xchg")
  /\ UNCHANGED <<lock, seq, bound, ret, waiting, calls>>

UnlockCall(t) ==
  /\ pc[t] = "held" /\ Goto(t, "uread") /\ ret' = [ret EXCEPT ![t] = "idle"]
  /\ UNCHANGED <<lock, seq, bound, waiting, calls>>

UnlockRead(t) ==
  /\ pc[t] = "uread" /\ Goto(t, IF lock = 2 THEN "ustore" ELSE "uxchg")
  /\ UNCHANGED <<lock, seq, bound, ret, waiting, calls>>

\* Mutant: whoever released the lock returns.
NothingToWake_Mutant == TRUE
NothingToWake == lock = 1

UnlockRelease(t) ==
  /\ pc[t] \in {"ustore", "uxchg"} /\ lock' = 0
  /\ Goto(t, IF pc[t] = "uxchg" /\ NothingToWake THEN ret[t] ELSE "uspin")
  /\ UNCHANGED <<seq, bound, ret, waiting, calls>>

\* Somebody may have the lock by now and be made to wake the sleepers.
UnlockSpin(t) ==
  /\ pc[t] = "uspin" /\ Goto(t, IF lock # 0 THEN "ucas" ELSE "uwake")
  /\ UNCHANGED <<lock, seq, bound, ret, waiting, calls>>

\* Mutant: the new holder is not told.
PassOn_Mutant == lock
PassOn == IF lock = 1 THEN 2 ELSE lock

UnlockCas(t) ==
  /\ pc[t] = "ucas" /\ lock' = PassOn
  /\ IF lock # 0 THEN Goto(t, ret[t]) ELSE Goto(t, "uspin") \/ Goto(t, "uwake")
  /\ UNCHANGED <<seq, bound, ret, waiting, calls>>

Asleep(l) == {u \in Threads : pc[u] = l}

\* futex(m, FUTEX_WAKE, 1).  A sleeper on the mutex goes on with the loop it was
\* in; a waiter that was requeued leaves the Condvar's FUTEX_WAIT.
UnlockWake(t) ==
  /\ pc[t] = "uwake"
  /\ IF Asleep("msleep") \cup Asleep("requeued") = {} THEN Goto(t, ret[t])
     ELSE \E u \in Asleep("msleep") \cup Asleep("requeued") :
            pc' = [pc EXCEPT ![t] = ret[t],
                             ![u] = IF pc[u] = "msleep" THEN "xchg" ELSE "cafter"]
  /\ UNCHANGED <<lock, seq, bound, ret, waiting, calls>>

-----------------------------------------------------------------------------
(* Condvar                                                                 *)

\* wait and wait_timeout record the mutex and release it.
WaitCall(t) ==
  /\ pc[t] = "held" /\ Begin(t, "uread", "cload") /\ bound' = TRUE
  /\ timed' \in {[timed EXCEPT ![t] = b] : b \in BOOLEAN}
  /\ UNCHANGED <<lock, seq, before, after, failed>>

WaitLoad(t) ==
  /\ pc[t] = "cload" /\ before' = [before EXCEPT ![t] = seq] /\ Goto(t, "cwait")
  /\ UNCHANGED <<lock, seq, bound, ret, timed, after, failed, calls>>

\* futex(seq, FUTEX_WAIT, seq_before).
WaitSleep(t) ==
  /\ pc[t] = "cwait" /\ Goto(t, IF seq = before[t] THEN "csleep" ELSE "cafter")
  /\ UNCHANGED <<lock, seq, bound, ret, waiting, calls>>

WaitTimeout(t) ==
  /\ pc[t] \in {"csleep", "requeued"} /\ timed[t] /\ Goto(t, "cafter")
  /\ UNCHANGED <<lock, seq, bound, ret, waiting, calls>>

\* seq is read again; the loop that takes the mutex is that of mutex_lock.
WaitAfter(t) ==
  /\ pc[t] = "cafter" /\ after' = [after EXCEPT ![t] = seq # before[t]]
  /\ Goto(t, "xchg") /\ ret' = [ret EXCEPT ![t] = "creturn"]
  /\ UNCHANGED <<lock, seq, bound, before, timed, failed, calls>>

\* wait asserts that seq has changed; unwinding releases the mutex.
WaitReturn(t) ==
  /\ pc[t] = "creturn"
  /\ IF timed[t] \/ after[t] THEN Goto(t, "held") /\ UNCHANGED <<ret, failed>>
     ELSE /\ failed' = [failed EXCEPT ![t] = TRUE]
          /\ Goto(t, "uread") /\ ret' = [ret EXCEPT ![t] = "dead"]
  /\ UNCHANGED <<lock, seq, bound, before, timed, after, calls>>

\* notify_one and notify_all, with or without holding the mutex.
NotifyCall(t) ==
  /\ pc[t] \in {"idle", "held"}
  /\ Begin(t, "add_one", pc[t]) \/ (bound /\ Begin(t, "add_all", pc[t]))
  /\ UNCHANGED <<lock, seq, bound, waiting>>

NotifyAdd(t) ==
  /\ pc[t] \in {"add_one", "add_all"} /\ seq' = seq + 1
  /\ Goto(t, IF pc[t] = "add_one" THEN "wake_one" ELSE "wake_all")
  /\ UNCHANGED <<lock, bound, ret, waiting, calls>>

\* One sleeper is woken; notify_all moves the others to the mutex.
Woken(t, us) ==
  LET rest == IF pc[t] = "wake_all" THEN "requeued" ELSE "csleep"
  IN  pc' = [u \in Threads |-> IF u = t THEN ret[t] ELSE IF u \in us THEN "cafter"
                               ELSE IF pc[u] = "csleep" THEN rest ELSE pc[u]]

NotifyWake(t) ==
  /\ pc[t] \in {"wake_one", "wake_all"}
  /\ IF Asleep("csleep") = {} THEN Woken(t, {})
     ELSE \E u \in Asleep("csleep") : Woken(t, {u})
  /\ UNCHANGED <<lock, seq, bound, ret, waiting, calls>>

-----------------------------------------------------------------------------
Step(t) ==
  \/ LockSpin(t) \/ LockXchg(t) \/ LockWait(t) \/ UnlockRead(t) \/ UnlockRelease(t)
  \/ UnlockSpin(t) \/ UnlockCas(t) \/ UnlockWake(t)
  \/ WaitLoad(t) \/ WaitSleep(t) \/ WaitAfter(t) \/ WaitReturn(t)
  \/ NotifyAdd(t) \/ NotifyWake(t)

Call(t) == LockCall(t) \/ TryLock(t) \/ WaitCall(t) \/ NotifyCall(t)

\* No call can be made any more; a wait may last for ever.
Terminated ==
  /\ calls = MaxCalls /\ \A t \in Threads : pc[t] \in {"idle", "dead", "csleep"}
  /\ UNCHANGED vars

Next ==
  \/ \E t \in Threads : Call(t) \/ UnlockCall(t) \/ WaitTimeout(t) \/ Step(t)
  \/ Terminated

Spec == Init /\ [][Next]_vars

\* A call under way goes on, timeouts pass, and a holder of the mutex releases it
\* in the end.
FairSpec ==
  Spec /\ \A t \in Threads :
    /\ WF_vars(Step(t)) /\ WF_vars(WaitTimeout(t)) /\ WF_vars(UnlockCall(t))

-----------------------------------------------------------------------------
Pcs == {"idle", "spin", "xchg", "mwait", "msleep", "held", "uread", "ustore", "uxchg",
        "uspin", "ucas", "uwake", "cload", "cwait", "csleep", "requeued", "cafter",
        "creturn", "add_one", "add_all", "wake_one", "wake_all", "dead"}

TypeOK ==
  /\ lock \in 0..2 /\ seq \in Nat /\ bound \in BOOLEAN /\ calls \in Nat
  /\ pc \in [Threads -> Pcs]
  /\ ret \in [Threads -> {"idle", "held", "cload", "creturn", "dead"}]
  /\ before \in [Threads -> Nat] /\ timed \in [Threads -> BOOLEAN]
  /\ after \in [Threads -> BOOLEAN] /\ failed \in [Threads -> BOOLEAN]

\* A thread owns the mutex from its successful exchange to its release, notify
\* calls made meanwhile included.
Owns(t) ==
  \/ pc[t] \in {"held", "uread", "ustore", "uxchg", "creturn"}
  \/ pc[t] \in {"add_one", "add_all", "wake_one", "wake_all"} /\ ret[t] = "held"

\* One thread owns the mutex, and none while the word is 0, whichever way it was
\* taken: by the fast path, after sleeping, or at the end of a wait.
MutualExclusion ==
  /\ \A t, u \in Threads : Owns(t) /\ Owns(u) => t = u
  /\ (\E t \in Threads : Owns(t)) <=> lock # 0

\* A thread asleep on the mutex is not forgotten: the word says 2, so that its
\* owner will look for sleepers, or somebody is on the way to set it or to wake.
\* That holds for the waiters too that notify_all moved to the mutex, although
\* they never set the word themselves.
SleepersKnown ==
  Asleep("msleep") \cup Asleep("requeued") # {} =>
    \/ lock = 2
    \/ \E t \in Threads : pc[t] \in {"uspin", "ucas", "uwake", "xchg", "cafter"}

\* Whoever waits for the mutex gets it, as long as its holders release it.
LockersGetIn ==
  \A t \in Threads : pc[t] \in {"spin", "xchg", "mwait", "msleep", "requeued"} ~> Owns(t)

\* Condvar::wait: assert!(self.wait_inner(mutex, ptr::null())).
WaitAssertion == \A t \in Threads : ~failed[t]

-----------------------------------------------------------------------------
(* The inductive invariant: where a call in progress will return to.        *)

ReturnsTo ==
  \A t \in Threads :
    /\ pc[t] \in {"spin", "xchg", "mwait", "msleep"} => ret[t] \in {"held", "creturn"}
    /\ pc[t] \in {"uread", "ustore", "uxchg", "uspin", "ucas", "uwake"} =>
         ret[t] \in {"idle", "cload", "dead"}
    /\ pc[t] \in {"add_one", "add_all", "wake_one", "wake_all"} =>
         ret[t] \in {"idle", "held"}

IInv == TypeOK /\ ReturnsTo /\ MutualExclusion /\ SleepersKnown
=============================================================================
