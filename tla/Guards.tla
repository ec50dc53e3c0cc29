------------------------------- MODULE Guards -------------------------------
(***************************************************************************)
(* The guards of Mutex and RwLock (src/sync/mutex.rs, src/sync/rwlock.rs), *)
(* poisoning (src/sys_common/poison.rs) and Condvar's wait                 *)
(* (src/sync/condvar.rs), over the unix locks (src/sys/unix/mutex.rs,      *)
(* src/sys/unix/rwlock.rs).  A thread has the guards it made, panics, and  *)
(* drops its guards while it unwinds; a destructor that runs meanwhile may *)
(* take locks of its own.  POSIX leaves open what a lock does for a thread *)
(* that has it already: wait, refuse, or grant it once more.               *)
(***************************************************************************)
EXTENDS Integers, Sequences, FiniteSets

CONSTANTS Threads, Mutexes, RwLocks,
          Nobody,       \* no thread, no mutex
          MaxReaders,   \* pthread's bound on readers (EAGAIN)
          MaxCalls      \* bound on the calls of all threads

Locks == Mutexes \cup RwLocks

ASSUME GuardsAssumption ==
  /\ Mutexes \cap RwLocks = {} /\ Nobody \notin Threads \cup Locks
  /\ IsFiniteSet(Threads) /\ IsFiniteSet(Locks)
  /\ MaxReaders \in Nat \ {0} /\ MaxCalls \in Nat

VARIABLES
  raw, writer,               \* pthread: holds per thread, and who has it for writing
  writeLocked, numReaders,   \* sys::RWLock's own fields
  failed,                    \* the poison flag
  bound,                     \* the mutex the condition variable was first used with
  guards,                    \* per thread: the guards it has, oldest first
  panicking,                 \* per thread: it unwinds
  aborted,                   \* a panic during a panic ended the process
  tpc, req,                  \* per thread: location, the call it is in
  calls,                     \* calls and panics so far
  tainted                    \* locks that were held for writing when a panic began

native == <<raw, writer>>
fields == <<writeLocked, numReaders, failed>>
local == <<guards, panicking, tpc, req, calls>>
guardVars == <<native, fields, bound, aborted, tainted, local>>

Modes(l) == IF l \in Mutexes THEN {"lock"} ELSE {"read", "write"}
Guard == [lock : Locks, mode : {"lock", "read", "write"}, panicking : BOOLEAN]

InitGuards ==
  /\ raw = [l \in Locks |-> [t \in Threads |-> 0]] /\ writer = [l \in Locks |-> Nobody]
  /\ writeLocked = [l \in RwLocks |-> FALSE] /\ numReaders = [l \in RwLocks |-> 0]
  /\ failed = [l \in Locks |-> FALSE] /\ bound = Nobody
  /\ guards = [t \in Threads |-> <<>>] /\ panicking = [t \in Threads |-> FALSE]
  /\ aborted = FALSE /\ tpc = [t \in Threads |-> "run"]
  /\ req = [t \in Threads |-> [lock |-> Nobody, mode |-> "none", try |-> FALSE]]
  /\ calls = 0 /\ tainted = {}

-----------------------------------------------------------------------------
(* pthread_mutex_t and pthread_rwlock_t *)

\* What a lock call may answer; the empty set when it has to wait.
Answers(t, l, mode) ==
  LET others == {u \in Threads \ {t} : raw[l][u] > 0}
      blocked == IF mode = "read" THEN writer[l] \in others ELSE others # {}
      again == raw[l][t] > 0
      total == Cardinality(others) + raw[l][t]
  IN  IF blocked \/ (again /\ l \in Mutexes) THEN {}
      ELSE IF mode = "read" /\ total >= MaxReaders THEN {"refused"}
      ELSE IF again THEN {"ok", "refused"} ELSE {"ok"}

RawLock(t, l, mode) ==
  /\ raw' = [raw EXCEPT ![l][t] = @ + 1]
  /\ writer' = IF mode # "read" /\ raw[l][t] = 0 THEN [writer EXCEPT ![l] = t] ELSE writer

RawUnlock(t, l) ==
  /\ raw' = [raw EXCEPT ![l][t] = @ - 1]
  /\ writer' = IF raw[l][t] = 1 /\ writer[l] = t THEN [writer EXCEPT ![l] = Nobody]
                                                 ELSE writer

-----------------------------------------------------------------------------
\* A panic begins in t, or, while it unwinds already, ends the process.
Panic(t) ==
  IF panicking[t]
  THEN aborted' = TRUE /\ UNCHANGED <<panicking, tainted>>
  ELSE /\ panicking' = [panicking EXCEPT ![t] = TRUE] /\ UNCHANGED aborted
       /\ tainted' = tainted \cup {guards[t][i].lock : i \in
                       {j \in 1..Len(guards[t]) : guards[t][j].mode # "read"}}

NoPanic == UNCHANGED <<panicking, tainted, aborted>>
Goto(t, where) == tpc' = [tpc EXCEPT ![t] = where]

\* lock, read, write and their try_ forms; a destructor may call them as well.
Call(t) ==
  /\ tpc[t] = "run" /\ calls < MaxCalls
  /\ \E l \in Locks, try \in BOOLEAN : \E m \in Modes(l) :
       req' = [req EXCEPT ![t] = [lock |-> l, mode |-> m, try |-> try]]
  /\ calls' = calls + 1 /\ Goto(t, "acquire")
  /\ UNCHANGED <<native, fields, bound, guards, panicking, aborted, tainted>>

\* The pthread call.  A refusal is a panic, and false from a try_ call.
Acquire(t) ==
  LET l == req[t].lock
      answers == Answers(t, l, req[t].mode)
  IN  /\ tpc[t] = "acquire"
      /\ \/ /\ "ok" \in answers /\ RawLock(t, l, req[t].mode)
            /\ Goto(t, "check") /\ NoPanic
         \/ /\ "refused" \in answers /\ ~req[t].try
            /\ Goto(t, "run") /\ Panic(t) /\ UNCHANGED native
         \/ /\ req[t].try /\ answers # {"ok"}
            /\ Goto(t, "run") /\ NoPanic /\ UNCHANGED native
      /\ UNCHANGED <<fields, bound, guards, req, calls>>

\* The lock was granted to a thread that has it.  Mutant: only writers are seen.
Recursive_Mutant(l, mode) == l \in RwLocks /\ writeLocked[l]
Recursive(l, mode) ==
  l \in RwLocks /\ (writeLocked[l] \/ (mode = "write" /\ numReaders[l] # 0))

\* sys::RWLock's own check: give the lock back, or note that it is taken; the
\* guard notes whether the thread is unwinding (poison::Flag::borrow).
Check(t) ==
  LET l == req[t].lock
      m == req[t].mode
      g == [lock |-> l, mode |-> m, panicking |-> panicking[t]]
  IN  /\ tpc[t] = "check" /\ Goto(t, "run")
      /\ IF Recursive(l, m)
         THEN /\ RawUnlock(t, l) /\ UNCHANGED <<writeLocked, numReaders, guards>>
              /\ IF req[t].try THEN NoPanic ELSE Panic(t)
         ELSE /\ guards' = [guards EXCEPT ![t] = Append(@, g)]
              /\ writeLocked' = IF m = "write" THEN [writeLocked EXCEPT ![l] = TRUE]
                                               ELSE writeLocked
              /\ numReaders' = IF m = "read" THEN [numReaders EXCEPT ![l] = @ + 1]
                                             ELSE numReaders
              /\ NoPanic /\ UNCHANGED native
      /\ UNCHANGED <<failed, bound, req, calls>>

\* poison::Flag::done.  Mutant: a guard made while unwinding poisons as well.
Poisons_Mutant(t, g) == g.mode # "read" /\ panicking[t]
Poisons(t, g) == g.mode # "read" /\ ~g.panicking /\ panicking[t]

\* A guard is dropped: in any order, but from the last one when unwinding.
DropGuard(t, i) ==
  LET g == guards[t][i]
  IN  /\ tpc[t] = "run" /\ (panicking[t] => i = Len(guards[t]))
      /\ guards' = [guards EXCEPT ![t] = SubSeq(@, 1, i - 1) \o SubSeq(@, i + 1, Len(@))]
      /\ failed' = IF Poisons(t, g) THEN [failed EXCEPT ![g.lock] = TRUE] ELSE failed
      /\ writeLocked' = IF g.mode = "write" THEN [writeLocked EXCEPT ![g.lock] = FALSE]
                                            ELSE writeLocked
      /\ numReaders' = IF g.mode = "read" THEN [numReaders EXCEPT ![g.lock] = @ - 1]
                                          ELSE numReaders
      /\ req' = [req EXCEPT ![t] = [lock |-> g.lock, mode |-> g.mode, try |-> FALSE]]
      /\ Goto(t, "release") /\ NoPanic
      /\ UNCHANGED <<native, bound, calls>>

Release(t) ==
  /\ tpc[t] = "release" /\ Goto(t, "run") /\ RawUnlock(t, req[t].lock)
  /\ UNCHANGED <<fields, bound, guards, panicking, aborted, tainted, req, calls>>

\* Code of the thread's own panics.
UserPanic(t) ==
  /\ tpc[t] = "run" /\ calls < MaxCalls
  /\ calls' = calls + 1 /\ Panic(t)
  /\ UNCHANGED <<native, fields, bound, guards, tpc, req>>

\* catch_unwind: every guard is gone and the thread goes on.
Caught(t) ==
  /\ tpc[t] = "run" /\ panicking[t] /\ guards[t] = <<>>
  /\ panicking' = [panicking EXCEPT ![t] = FALSE]
  /\ UNCHANGED <<native, fields, bound, guards, aborted, tainted, tpc, req, calls>>

\* Condvar::wait with a mutex guard: verify, then the mutex is given up.
CvWait(t, i) ==
  LET m == guards[t][i].lock
  IN  /\ tpc[t] = "run" /\ calls < MaxCalls /\ guards[t][i].mode = "lock"
      /\ calls' = calls + 1
      /\ bound' = IF bound = Nobody THEN m ELSE bound
      /\ IF bound' # m
         THEN Panic(t) /\ UNCHANGED <<native, tpc, req>>
         ELSE /\ RawUnlock(t, m) /\ Goto(t, "cv") /\ NoPanic
              /\ req' = [req EXCEPT ![t] = [lock |-> m, mode |-> "lock", try |-> FALSE]]
      /\ UNCHANGED <<fields, guards>>

\* A notification, a spurious wakeup or the end of the time; the mutex is taken
\* again and the guard is the old one.
CvWake(t) ==
  /\ tpc[t] = "cv" /\ Answers(t, req[t].lock, "lock") # {}
  /\ RawLock(t, req[t].lock, "lock") /\ Goto(t, "run")
  /\ UNCHANGED <<fields, bound, guards, panicking, aborted, tainted, req, calls>>

NextGuards ==
  /\ ~aborted
  /\ \E t \in Threads :
       \/ Call(t) \/ Acquire(t) \/ Check(t) \/ Release(t) \/ UserPanic(t) \/ Caught(t)
       \/ CvWake(t) \/ \E i \in 1..Len(guards[t]) : DropGuard(t, i) \/ CvWait(t, i)

-----------------------------------------------------------------------------
\* The guards of t on l; one that waits on the condition variable has no lock.
On(t, l) == {i \in 1..Len(guards[t]) : guards[t][i].lock = l
                                       /\ ~(tpc[t] = "cv" /\ req[t].lock = l)}

\* A guard for writing is alone: no other thread and no other guard of the same
\* thread reaches the data, whatever pthread grants.  The fields of sys::RWLock
\* count the guards, and every pthread lock that was taken has a guard or is
\* being given back: nothing stays locked after an attempt that failed.
GuardsExclude ==
  \A l \in Locks :
    LET all == UNION {{<<t, i>> : i \in On(t, l)} : t \in Threads}
        readers == {x \in all : guards[x[1]][x[2]].mode = "read"}
    IN  /\ readers # all => Cardinality(all) = 1
        /\ l \in RwLocks => /\ numReaders[l] = Cardinality(readers)
                            /\ writeLocked[l] <=> readers # all
        /\ \A t \in Threads :
             raw[l][t] = Cardinality(On(t, l)) +
               (IF tpc[t] \in {"check", "release"} /\ req[t].lock = l THEN 1 ELSE 0)

\* A lock is poisoned only if a panic began while it was held for writing, not
\* by readers nor by a destructor that locks while its thread unwinds; and if one
\* did, whoever gets the lock next, from lock or back from a condition variable,
\* finds the flag set.  The one way around it: a destructor that waits on a
\* condition variable with a guard older than the panic gives the lock up
\* unmarked, until it has it back.
PoisonExact ==
  \A l \in Locks :
    /\ failed[l] => l \in tainted
    /\ \A t \in Threads :
         l \in tainted /\ On(t, l) # {} /\ ~panicking[t] =>
           \/ failed[l]
           \/ \E u \in Threads : panicking[u] /\ tpc[u] = "cv" /\ req[u].lock = l
=============================================================================
