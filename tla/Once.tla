-------------------------------- MODULE Once --------------------------------
(***************************************************************************)
(* std::sync::Once (src/sync/once.rs): one atomic word holds a state and,  *)
(* while RUNNING, the head of a list of waiters.  The list nodes live on   *)
(* the waiters' stacks: a node may be touched only until its `signaled'    *)
(* flag is set.  The threads make up to MaxCalls calls of call_once and    *)
(* call_once_force, with closures that finish or panic.  Locals that are   *)
(* dead are reset, as their stack frame is gone.                           *)
(***************************************************************************)
EXTENDS Naturals

CONSTANTS Threads,
          Null,       \* the null waiter pointer
          MaxCalls    \* bound on the calls made by all threads together

ASSUME OnceAssumption == Null \notin Threads /\ MaxCalls \in Nat

VARIABLES
  state,              \* the atomic word
  pc, calls,
  force,              \* ignore_poisoning of the current call
  seen,               \* the local `state'
  next, signaled,     \* the thread's Waiter node
  permit,             \* the thread's park token (thread/mod.rs)
  queue, after,       \* Finish::drop's `queue' and `next'
  panicked,           \* Finish::panicked
  told,               \* OnceState::poisoned as given to the closure
  result,             \* how the thread's last call ended
  completions, panics \* closures that finished / panicked so far

vars == <<state, pc, calls, force, seen, next, signaled, permit, queue, after,
          panicked, told, result, completions, panics>>

Word(tag, head) == [tag |-> tag, head |-> head]
Tags == {"INCOMPLETE", "POISONED", "RUNNING", "COMPLETE"}
Nodes == Threads \cup {Null}
Pcs == {"idle", "fast", "load", "match", "init", "finish", "walk", "store",
        "unpark", "wait", "park", "reload"}

Init ==
  /\ state = Word("INCOMPLETE", Null)
  /\ pc = [t \in Threads |-> "idle"]
  /\ force = [t \in Threads |-> FALSE]
  /\ seen = [t \in Threads |-> Word("INCOMPLETE", Null)]
  /\ next = [t \in Threads |-> Null]
  /\ signaled = [t \in Threads |-> FALSE]
  /\ permit = [t \in Threads |-> FALSE]
  /\ queue = [t \in Threads |-> Null]
  /\ after = [t \in Threads |-> Null]
  /\ panicked = [t \in Threads |-> FALSE]
  /\ told = [t \in Threads |-> FALSE]
  /\ result = [t \in Threads |-> "none"]
  /\ completions = 0 /\ panics = 0 /\ calls = 0

Goto(t, l) == pc' = [pc EXCEPT ![t] = l]
Return(t, r) ==
  /\ Goto(t, "idle") /\ result' = [result EXCEPT ![t] = r]
  /\ force' = [force EXCEPT ![t] = FALSE]
  /\ seen' = [seen EXCEPT ![t] = Word("INCOMPLETE", Null)]

-----------------------------------------------------------------------------
Call(t) ==
  /\ pc[t] = "idle" /\ calls < MaxCalls
  /\ calls' = calls + 1
  /\ \E b \in BOOLEAN : force' = [force EXCEPT ![t] = b]
  /\ Goto(t, "fast") /\ result' = [result EXCEPT ![t] = "none"]
  /\ UNCHANGED <<state, seen, next, signaled, permit, queue, after, panicked,
                 told, completions, panics>>

FastPath(t) ==
  /\ pc[t] = "fast"
  /\ IF state.tag = "COMPLETE" THEN Return(t, "done")
                               ELSE Goto(t, "load") /\ UNCHANGED <<result, force, seen>>
  /\ UNCHANGED <<state, calls, next, signaled, permit, queue, after,
                 panicked, told, completions, panics>>

Load(t) ==
  /\ pc[t] \in {"load", "reload"}
  /\ seen' = [seen EXCEPT ![t] = state] /\ Goto(t, "match")
  /\ signaled' = [signaled EXCEPT ![t] = FALSE]
  /\ next' = [next EXCEPT ![t] = Null]
  /\ UNCHANGED <<state, calls, force, permit, queue, after,
                 panicked, told, result, completions, panics>>

\* COMPLETE returns, POISONED panics unless the call ignores poisoning.
MatchReturns(t) ==
  /\ pc[t] = "match"
  /\ \/ seen[t].tag = "COMPLETE" /\ Return(t, "done")
     \/ seen[t].tag = "POISONED" /\ ~force[t] /\ Return(t, "poison")
  /\ UNCHANGED <<state, calls, next, signaled, permit, queue, after,
                 panicked, told, completions, panics>>

\* Mutant: the closure is never told of an earlier panic.
ToldPoisoned_Mutant(t) == FALSE
ToldPoisoned(t) == seen[t].tag = "POISONED"

MatchRuns(t) ==
  /\ pc[t] = "match"
  /\ seen[t].tag = "INCOMPLETE" \/ (seen[t].tag = "POISONED" /\ force[t])
  /\ IF state = seen[t]
     THEN /\ state' = Word("RUNNING", Null) /\ Goto(t, "init")
          /\ told' = [told EXCEPT ![t] = ToldPoisoned(t)]
          /\ seen' = [seen EXCEPT ![t] = Word("INCOMPLETE", Null)]
     ELSE /\ seen' = [seen EXCEPT ![t] = state] /\ UNCHANGED <<state, pc, told>>
  /\ UNCHANGED <<calls, force, next, signaled, permit, queue, after, panicked,
                 result, completions, panics>>

\* The node is initialised, linked to the head seen and swapped in.
MatchEnqueues(t) ==
  /\ pc[t] = "match" /\ seen[t].tag = "RUNNING"
  /\ signaled' = [signaled EXCEPT ![t] = FALSE]
  /\ IF state = seen[t]
     THEN /\ state' = Word("RUNNING", t) /\ Goto(t, "wait")
          /\ seen' = [seen EXCEPT ![t] = Word("INCOMPLETE", Null)]
          /\ next' = [next EXCEPT ![t] = seen[t].head]
     ELSE seen' = [seen EXCEPT ![t] = state] /\ UNCHANGED <<state, pc, next>>
  /\ UNCHANGED <<calls, force, permit, queue, after, panicked, told, result,
                 completions, panics>>

\* while !signaled { park() }
WaitCheck(t) ==
  /\ pc[t] = "wait"
  /\ Goto(t, IF signaled[t] THEN "reload" ELSE "park")
  /\ UNCHANGED <<state, calls, force, seen, next, signaled, permit, queue, after,
                 panicked, told, result, completions, panics>>

Park(t) ==
  /\ pc[t] = "park" /\ permit[t]
  /\ permit' = [permit EXCEPT ![t] = FALSE] /\ Goto(t, "wait")
  /\ UNCHANGED <<state, calls, force, seen, next, signaled, queue, after,
                 panicked, told, result, completions, panics>>

\* The closure returns or panics; `panicked' is left set by a panic.
RunClosure(t) ==
  /\ pc[t] = "init"
  /\ \/ completions' = completions + 1 /\ UNCHANGED panics
        /\ panicked' = [panicked EXCEPT ![t] = FALSE]
     \/ panics' = panics + 1 /\ UNCHANGED completions
        /\ panicked' = [panicked EXCEPT ![t] = TRUE]
  /\ Goto(t, "finish") /\ told' = [told EXCEPT ![t] = FALSE]
  /\ UNCHANGED <<state, calls, force, seen, next, signaled, permit, queue, after,
                 result>>

\* Mutant: a finished initialisation is not recorded.
FinalTag_Mutant(t) == IF panicked[t] THEN "POISONED" ELSE "INCOMPLETE"
FinalTag(t) == IF panicked[t] THEN "POISONED" ELSE "COMPLETE"

FinishSwap(t) ==
  /\ pc[t] = "finish"
  /\ queue' = [queue EXCEPT ![t] = state.head]
  /\ state' = Word(FinalTag(t), Null)
  /\ Goto(t, "walk")
  /\ UNCHANGED <<calls, force, seen, next, signaled, permit, after, panicked,
                 told, result, completions, panics>>

\* `next' and `thread' are read from the node before it is signalled.
\* Mutant: the flag is stored first and the node read afterwards.
SignalEarly_Mutant(t) == signaled' = [signaled EXCEPT ![queue[t]] = TRUE]
SignalEarly(t) == UNCHANGED signaled

Walk(t) ==
  /\ pc[t] = "walk"
  /\ IF queue[t] = Null
     THEN /\ Return(t, IF panicked[t] THEN "panicked" ELSE "done")
          /\ panicked' = [panicked EXCEPT ![t] = FALSE]
          /\ UNCHANGED <<after, signaled>>
     ELSE /\ after' = [after EXCEPT ![t] = next[queue[t]]]
          /\ SignalEarly(t) /\ Goto(t, "store")
          /\ UNCHANGED <<result, panicked, force, seen>>
  /\ UNCHANGED <<state, calls, next, permit, queue, told, completions, panics>>

StoreSignaled(t) ==
  /\ pc[t] = "store"
  /\ signaled' = [signaled EXCEPT ![queue[t]] = TRUE] /\ Goto(t, "unpark")
  /\ UNCHANGED <<state, calls, force, seen, next, permit, queue, after, panicked,
                 told, result, completions, panics>>

\* Mutant: the waiter is not unparked.
SetPermit_Mutant(u) == UNCHANGED permit
SetPermit(u) == permit' = [permit EXCEPT ![u] = TRUE]

Unpark(t) ==
  /\ pc[t] = "unpark"
  /\ SetPermit(queue[t])
  /\ queue' = [queue EXCEPT ![t] = after[t]] /\ Goto(t, "walk")
  /\ after' = [after EXCEPT ![t] = Null]
  /\ UNCHANGED <<state, calls, force, seen, next, signaled, panicked, told, result,
                 completions, panics>>

\* A step of a call that is under way.
Step(t) ==
  \/ FastPath(t) \/ Load(t) \/ MatchReturns(t) \/ MatchRuns(t)
  \/ MatchEnqueues(t) \/ WaitCheck(t) \/ Park(t) \/ RunClosure(t)
  \/ FinishSwap(t) \/ Walk(t) \/ StoreSignaled(t) \/ Unpark(t)

Terminated ==
  /\ calls = MaxCalls /\ \A t \in Threads : pc[t] = "idle"
  /\ UNCHANGED vars

Next == (\E t \in Threads : Call(t) \/ Step(t)) \/ Terminated

Spec == Init /\ [][Next]_vars

\* A thread in a call is scheduled, and closures end.
FairSpec == Spec /\ \A t \in Threads : WF_vars(Step(t))

-----------------------------------------------------------------------------
TypeOK ==
  /\ state \in [tag : Tags, head : Nodes]
  /\ seen \in [Threads -> [tag : Tags, head : Nodes]]
  /\ pc \in [Threads -> Pcs] /\ calls \in Nat
  /\ force \in [Threads -> BOOLEAN] /\ next \in [Threads -> Nodes]
  /\ signaled \in [Threads -> BOOLEAN] /\ permit \in [Threads -> BOOLEAN]
  /\ queue \in [Threads -> Nodes] /\ after \in [Threads -> Nodes]
  /\ panicked \in [Threads -> BOOLEAN] /\ told \in [Threads -> BOOLEAN]
  /\ result \in [Threads -> {"none", "done", "poison", "panicked"}]
  /\ completions \in Nat /\ panics \in Nat

Running(t) == pc[t] \in {"init", "finish"}

\* The word admits one thread at a time to the closure, across poisoning and
\* forced retries, although waiters and finishers act on it concurrently.
SingleRunner == \A t, u \in Threads : Running(t) /\ Running(u) => t = u

\* "It will call the initialization closure at most once": no closure starts
\* after one has finished.
InitAtMostOnce == completions <= 1 /\ (\A t \in Threads : pc[t] = "init" => completions = 0)

\* "It will never return until the one that's running has finished": a call
\* returns normally only when a closure has run to its end and the word says so.
ReturnMeansComplete ==
  \A t \in Threads : result[t] = "done" => completions = 1 /\ state.tag = "COMPLETE"

\* What call_once promises its callers.
RunsOnce == InitAtMostOnce /\ ReturnMeansComplete

\* Finish::drop reads and signals a stack node only while its owner still waits
\* in the loop that keeps it alive.
NoUseAfterFree ==
  \A t \in Threads : pc[t] \in {"walk", "store"} /\ queue[t] # Null =>
    pc[queue[t]] \in {"wait", "park"} /\ ~signaled[queue[t]]

\* A closure run by call_once_force is told of poisoning exactly when some
\* earlier closure panicked.
PoisonReported ==
  \A t \in Threads : pc[t] = "init" => (told[t] <=> panics > 0)

\* Every waiter is woken, whether the closure finished or panicked.
WaitersReleased ==
  \A t \in Threads : pc[t] \in {"wait", "park"} ~> pc[t] \notin {"wait", "park"}

-----------------------------------------------------------------------------
(* The inductive invariant behind the safety properties.                    *)

\* The word tells whether somebody runs, and remembers how the closures ended.
WordInv ==
  /\ \A t \in Threads : Running(t) => state.tag = "RUNNING"
  /\ state.tag = "RUNNING" => \E t \in Threads : Running(t)
  /\ state.tag # "RUNNING" => state.head = Null
  /\ state.tag = "INCOMPLETE" => panics = 0
  /\ state.tag = "POISONED" => panics > 0
  /\ completions = (IF state.tag = "COMPLETE"
                       \/ \E t \in Threads : pc[t] = "finish" /\ ~panicked[t]
                    THEN 1 ELSE 0)
  /\ \A t \in Threads : pc[t] = "finish" /\ panicked[t] => panics > 0
  /\ \A t \in Threads : pc[t] \in {"walk", "store", "unpark"} /\ ~panicked[t] =>
                          state.tag = "COMPLETE"
  /\ \A t \in Threads : pc[t] = "match" /\ seen[t].tag = "COMPLETE" =>
                          state.tag = "COMPLETE"

\* The waiter nodes that may be touched, and the pointers into them: the head
\* in the word, the `next' of a live node, and the walk of a finisher.
Alive(n) == n \in Threads /\ pc[n] \in {"wait", "park"} /\ ~signaled[n]
Cursor(f) == IF pc[f] \in {"walk", "store"} THEN queue[f]
             ELSE IF pc[f] = "unpark" THEN after[f] ELSE Null

\* Every pointer leads to a live node and no two lead to the same one.
ListInv ==
  /\ state.head # Null => Alive(state.head)
  /\ \A n \in Threads : Alive(n) /\ next[n] # Null =>
       /\ Alive(next[n]) /\ next[n] # state.head
       /\ \A m \in Threads : Alive(m) /\ next[m] = next[n] => m = n
  /\ \A f \in Threads : Cursor(f) # Null =>
       /\ Alive(Cursor(f)) /\ Cursor(f) # state.head
       /\ \A n \in Threads : Alive(n) => next[n] # Cursor(f)
       /\ \A g \in Threads : Cursor(g) = Cursor(f) => g = f
  /\ \A f \in Threads : pc[f] = "store" => queue[f] # Null /\ after[f] = next[queue[f]]
  /\ \A f \in Threads : pc[f] = "unpark" => queue[f] # Null

IInv == TypeOK /\ SingleRunner /\ PoisonReported /\ ReturnMeansComplete
        /\ WordInv /\ ListInv

=============================================================================
