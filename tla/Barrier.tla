------------------------------ MODULE Barrier ------------------------------
(***************************************************************************)
(* Barrier (src/sync/barrier.rs), a count and a generation number under a  *)
(* mutex, with a condition variable.  What a thread does from one lock or  *)
(* wake-up to the next unlock or sleep is one critical section, and one    *)
(* step.  A program here uses the barrier, or the locks of Guards: they    *)
(* share nothing, so their product would add nothing.                      *)
(***************************************************************************)
EXTENDS Guards

CONSTANTS NumThreads,      \* Barrier::new(n)
          Generations,     \* generation_id wraps at this number
          MaxWaits         \* bound on the waits of a thread

ASSUME BarrierAssumption ==
  /\ NumThreads \in Nat /\ MaxWaits \in Nat
  /\ Generations \in Nat /\ Generations > MaxWaits * Cardinality(Threads)

VARIABLES
  program,          \* what the threads use
  count, generation,
  bpc, localGen,    \* per thread: out, asleep or notified; its generation
  waits,            \* per thread: waits so far
  arrived, leaders  \* per generation: threads that came, threads told to lead

barrier == <<count, generation, bpc, localGen, waits, arrived, leaders>>
vars == <<program, barrier, guardVars>>

Init ==
  /\ program \in {"barrier", "guards"} /\ InitGuards
  /\ count = 0 /\ generation = 0
  /\ bpc = [t \in Threads |-> "out"] /\ localGen = [t \in Threads |-> 0]
  /\ waits = [t \in Threads |-> 0]
  /\ arrived = [g \in 0..Generations - 1 |-> {}]
  /\ leaders = [g \in 0..Generations - 1 |-> {}]

\* Mutant: the threads of a generation go by the count alone.
MustSleep_Mutant(t) == count < NumThreads
MustSleep(t) == localGen[t] = generation /\ count < NumThreads

\* wait: the thread that completes the count leads and notifies all.
Wait(t) ==
  /\ bpc[t] = "out" /\ waits[t] < MaxWaits
  /\ waits' = [waits EXCEPT ![t] = @ + 1]
  /\ arrived' = [arrived EXCEPT ![generation] = @ \cup {t}]
  /\ localGen' = [localGen EXCEPT ![t] = generation]
  /\ IF count + 1 < NumThreads
     THEN /\ count' = count + 1 /\ bpc' = [bpc EXCEPT ![t] = "asleep"]
          /\ UNCHANGED <<generation, leaders>>
     ELSE /\ count' = 0 /\ generation' = (generation + 1) % Generations
          /\ leaders' = [leaders EXCEPT ![generation] = @ \cup {t}]
          /\ bpc' = [u \in Threads |-> IF bpc[u] = "asleep" THEN "notified" ELSE bpc[u]]

\* The while loop: notified, or woken for no reason, the thread looks again.
LookAgain(t) ==
  /\ bpc[t] \in {"asleep", "notified"}
  /\ bpc' = [bpc EXCEPT ![t] = IF MustSleep(t) THEN "asleep" ELSE "out"]
  /\ UNCHANGED <<count, generation, localGen, waits, arrived, leaders>>

Next ==
  \/ /\ program = "barrier" /\ \E t \in Threads : Wait(t) \/ LookAgain(t)
     /\ UNCHANGED <<program, guardVars>>
  \/ /\ program = "guards" /\ NextGuards
     /\ UNCHANGED <<program, barrier>>

Spec == Init /\ [][Next]_vars

\* A thread that was notified runs; a spurious wake-up need not come.
FairSpec ==
  /\ Spec
  /\ \A t \in Threads :
       WF_vars(program = "barrier" /\ bpc[t] = "notified" /\ LookAgain(t)
               /\ UNCHANGED <<program, guardVars>>)

-----------------------------------------------------------------------------
\* Every variable keeps its type.
TypeOK ==
  /\ raw \in [Locks -> [Threads -> Nat]] /\ writer \in [Locks -> Threads \cup {Nobody}]
  /\ writeLocked \in [RwLocks -> BOOLEAN] /\ numReaders \in [RwLocks -> Nat]
  /\ failed \in [Locks -> BOOLEAN] /\ bound \in Mutexes \cup {Nobody}
  /\ guards \in [Threads -> Seq(Guard)] /\ panicking \in [Threads -> BOOLEAN]
  /\ aborted \in BOOLEAN /\ tainted \subseteq Locks
  /\ tpc \in [Threads -> {"run", "acquire", "check", "release", "cv"}]
  /\ calls \in 0..MaxCalls
  /\ count \in 0..NumThreads /\ generation \in 0..Generations - 1
  /\ bpc \in [Threads -> {"out", "asleep", "notified"}] /\ waits \in [Threads -> Nat]

\* No thread leaves before NumThreads of its generation have come, and one of
\* them leads: "a single (arbitrary) thread"; a generation takes no more threads.
Rendezvous ==
  \A g \in 0..Generations - 1 :
    /\ Cardinality(arrived[g]) <= (IF NumThreads = 0 THEN 1 ELSE NumThreads)
    /\ Cardinality(leaders[g]) <= 1
    /\ \A t \in arrived[g] :
         bpc[t] = "out" /\ localGen[t] = g =>
           Cardinality(arrived[g]) >= NumThreads /\ leaders[g] # {}

\* A thread whose generation is over leaves, even if it sleeps through the ones
\* that follow and whatever their count is when it looks.  Includes the types of
\* Barrier and Guards.
BarrierReleases ==
  /\ [](TypeOK /\ Rendezvous)
  /\ \A t \in Threads :
       (bpc[t] # "out" /\ localGen[t] # generation) ~> bpc[t] = "out"
=============================================================================
