----------------------------- MODULE OnceProofs -----------------------------
(***************************************************************************)
(* Proofs about Once for any set of threads and any number of calls.  The  *)
(* invariant IInv of Once is inductive: WordInv ties the atomic word to    *)
(* the thread that runs the closure, ListInv says that the waiter list is  *)
(* a list of live stack nodes that nothing else points into.               *)
(***************************************************************************)
EXTENDS Once, TLAPS

\* The locals that a return resets keep their types.
LEMMA ReturnTypes ==
  ASSUME TypeOK, NEW t \in Threads,
         NEW r \in {"none", "done", "poison", "panicked"}, Return(t, r)
  PROVE  /\ pc' \in [Threads -> Pcs] /\ force' \in [Threads -> BOOLEAN]
         /\ seen' \in [Threads -> [tag : Tags, head : Nodes]]
         /\ result' \in [Threads -> {"none", "done", "poison", "panicked"}]
<1>1. pc' \in [Threads -> Pcs]
  BY DEF TypeOK, Return, Goto, Pcs
<1>2. force' \in [Threads -> BOOLEAN]
  BY DEF TypeOK, Return
<1>3. seen' \in [Threads -> [tag : Tags, head : Nodes]]
  BY DEF TypeOK, Return, Word, Tags, Nodes
<1>4. result' \in [Threads -> {"none", "done", "poison", "panicked"}]
  BY DEF TypeOK, Return
<1>5. QED
  BY <1>1, <1>2, <1>3, <1>4

\* Locations at which a thread neither owns a live node nor walks the list.
Quiet == Pcs \ {"wait", "park", "walk", "store", "unpark"}

\* A thread that moves between quiet locations does not disturb the list.
LEMMA QuietStep ==
  ASSUME TypeOK, ListInv, NEW t \in Threads, NEW l \in Quiet, Goto(t, l),
         pc[t] \in Quiet \/ (pc[t] = "walk" /\ queue[t] = Null),
         state'.head = state.head, UNCHANGED <<next, signaled, queue, after>>
  PROVE  ListInv'
<1>1. \A n : Alive(n)' <=> Alive(n)
  BY DEF Alive, TypeOK, Goto, Quiet, Pcs
<1>2. \A f \in Threads : Cursor(f)' = Cursor(f)
  BY DEF Cursor, TypeOK, Goto, Quiet, Pcs
<1>3. \A f \in Threads : pc'[f] \in {"store", "unpark"} => pc'[f] = pc[f]
  BY DEF TypeOK, Goto, Quiet, Pcs
<1>4. QED
  BY <1>1, <1>2, <1>3 DEF ListInv

\* A fresh Once (ONCE_INIT) satisfies IInv.
LEMMA InitIInv == Init => IInv
  BY OnceAssumption
  DEF Init, IInv, TypeOK, SingleRunner, PoisonReported, ReturnMeansComplete,
      WordInv, ListInv, Running, Alive, Cursor, Tags, Nodes, Pcs, Word

\* Every step of a call preserves each part of IInv.
LEMMA StepPreserves ==
  ASSUME TypeOK, SingleRunner, PoisonReported, ReturnMeansComplete, WordInv,
         ListInv, NEW t \in Threads, Call(t) \/ Step(t)
  PROVE  IInv'
<1>1. ASSUME Call(t) PROVE IInv'
  <2>1. TypeOK'
    BY <1>1, OnceAssumption
    DEF Call, Goto,
        TypeOK, Tags, Nodes, Pcs, Word
  <2>2. SingleRunner'
    BY <1>1, OnceAssumption
    DEF Call, Goto,
        TypeOK, SingleRunner, WordInv, Running, Pcs, Word
  <2>3. PoisonReported'
    BY <1>1, OnceAssumption
    DEF Call, Goto,
        TypeOK, PoisonReported, WordInv, SingleRunner, Running, Pcs, Word
  <2>4. ReturnMeansComplete'
    BY <1>1, OnceAssumption
    DEF Call, Goto,
        TypeOK, ReturnMeansComplete, WordInv, SingleRunner, Running, Pcs, Word
  <2>5. WordInv'
    BY <1>1, OnceAssumption
    DEF Call, Goto,
        TypeOK, WordInv, SingleRunner, Running, Pcs, Word
  <2>6. ListInv'
    BY <1>1, QuietStep DEF Call, Quiet, Pcs
  <2>7. QED
    BY <2>1, <2>2, <2>3, <2>4, <2>5, <2>6 DEF IInv
<1>2. ASSUME FastPath(t) PROVE IInv'
  <2>1. TypeOK'
    <3>1. CASE state.tag = "COMPLETE"
      BY <1>2, <3>1, ReturnTypes DEF FastPath, TypeOK
    <3>2. CASE state.tag # "COMPLETE"
      BY <1>2, <3>2 DEF FastPath, Goto, TypeOK, Pcs
    <3>3. QED
      BY <3>1, <3>2
  <2>2. SingleRunner'
    BY <1>2, OnceAssumption
    DEF FastPath, Goto, Return,
        TypeOK, SingleRunner, WordInv, Running, Pcs, Word
  <2>3. PoisonReported'
    BY <1>2, OnceAssumption
    DEF FastPath, Goto, Return,
        TypeOK, PoisonReported, WordInv, SingleRunner, Running, Pcs, Word
  <2>4. ReturnMeansComplete'
    BY <1>2, OnceAssumption
    DEF FastPath, Goto, Return,
        TypeOK, ReturnMeansComplete, WordInv, SingleRunner, Running, Pcs, Word
  <2>5. WordInv'
    BY <1>2, OnceAssumption
    DEF FastPath, Goto, Return,
        TypeOK, WordInv, SingleRunner, Running, Pcs, Word
  <2>6. ListInv'
    BY <1>2, QuietStep DEF FastPath, Return, Quiet, Pcs
  <2>7. QED
    BY <2>1, <2>2, <2>3, <2>4, <2>5, <2>6 DEF IInv
<1>3. ASSUME Load(t) PROVE IInv'
  <2>1. TypeOK'
    BY <1>3, OnceAssumption
    DEF Load, Goto,
        TypeOK, Tags, Nodes, Pcs, Word
  <2>2. SingleRunner'
    BY <1>3, OnceAssumption
    DEF Load, Goto,
        TypeOK, SingleRunner, WordInv, Running, Pcs, Word
  <2>3. PoisonReported'
    BY <1>3, OnceAssumption
    DEF Load, Goto,
        TypeOK, PoisonReported, WordInv, SingleRunner, Running, Pcs, Word
  <2>4. ReturnMeansComplete'
    BY <1>3, OnceAssumption
    DEF Load, Goto,
        TypeOK, ReturnMeansComplete, WordInv, SingleRunner, Running, Pcs, Word
  <2>5. WordInv'
    BY <1>3, OnceAssumption
    DEF Load, Goto,
        TypeOK, WordInv, SingleRunner, Running, Pcs, Word
  <2>6. ListInv'
    BY <1>3, OnceAssumption
    DEF Load, Goto,
        TypeOK, ListInv, WordInv, Alive, Cursor, Pcs, Word, Nodes
  <2>7. QED
    BY <2>1, <2>2, <2>3, <2>4, <2>5, <2>6 DEF IInv
<1>4. ASSUME MatchReturns(t) PROVE IInv'
  <2>1. TypeOK'
    BY <1>4, ReturnTypes DEF MatchReturns, TypeOK
  <2>2. SingleRunner'
    BY <1>4, OnceAssumption
    DEF MatchReturns, Goto, Return,
        TypeOK, SingleRunner, WordInv, Running, Pcs, Word
  <2>3. PoisonReported'
    BY <1>4, OnceAssumption
    DEF MatchReturns, Goto, Return,
        TypeOK, PoisonReported, WordInv, SingleRunner, Running, Pcs, Word
  <2>4. ReturnMeansComplete'
    BY <1>4, OnceAssumption
    DEF MatchReturns, Goto, Return,
        TypeOK, ReturnMeansComplete, WordInv, SingleRunner, Running, Pcs, Word
  <2>5. WordInv'
    BY <1>4, OnceAssumption
    DEF MatchReturns, Goto, Return,
        TypeOK, WordInv, SingleRunner, Running, Pcs, Word
  <2>6. ListInv'
    BY <1>4, QuietStep DEF MatchReturns, Return, Quiet, Pcs
  <2>7. QED
    BY <2>1, <2>2, <2>3, <2>4, <2>5, <2>6 DEF IInv
<1>5. ASSUME MatchRuns(t) PROVE IInv'
  <2>1. TypeOK'
    <3>1. CASE state = seen[t]
      <4>1. state' \in [tag : Tags, head : Nodes] /\ pc' \in [Threads -> Pcs]
        BY <1>5, <3>1 DEF MatchRuns, Goto, TypeOK, Tags, Nodes, Pcs, Word
      <4>2. told' \in [Threads -> BOOLEAN]
        BY <1>5, <3>1 DEF MatchRuns, ToldPoisoned, TypeOK
      <4>3. seen' \in [Threads -> [tag : Tags, head : Nodes]]
        BY <1>5, <3>1 DEF MatchRuns, TypeOK, Tags, Nodes, Word
      <4>4. QED
        BY <1>5, <4>1, <4>2, <4>3 DEF MatchRuns, TypeOK
    <3>2. CASE state # seen[t]
      BY <1>5, <3>2 DEF MatchRuns, TypeOK
    <3>3. QED
      BY <3>1, <3>2
  <2>2. SingleRunner'
    BY <1>5, OnceAssumption
    DEF MatchRuns, Goto, ToldPoisoned,
        TypeOK, SingleRunner, WordInv, Running, Pcs, Word
  <2>3. PoisonReported'
    <3>1. CASE state = seen[t]
      <4>1. told'[t] <=> panics > 0
        <5>1. told'[t] <=> state.tag = "POISONED"
          BY <1>5, <3>1 DEF MatchRuns, ToldPoisoned, TypeOK
        <5>2. state.tag \in {"INCOMPLETE", "POISONED"}
          BY <1>5, <3>1 DEF MatchRuns
        <5>3. state.tag = "POISONED" <=> panics > 0
          BY <5>2 DEF WordInv, TypeOK
        <5>4. QED
          BY <5>1, <5>3
      <4>2. \A u \in Threads : u # t => pc'[u] # "init"
        BY <1>5, <3>1 DEF MatchRuns, Goto, TypeOK, WordInv, Running
      <4>3. QED
        BY <1>5, <4>1, <4>2 DEF MatchRuns, PoisonReported
    <3>2. CASE state # seen[t]
      BY <1>5, <3>2 DEF MatchRuns, PoisonReported
    <3>3. QED
      BY <3>1, <3>2
  <2>4. ReturnMeansComplete'
    BY <1>5, OnceAssumption
    DEF MatchRuns, Goto, ToldPoisoned,
        TypeOK, ReturnMeansComplete, WordInv, SingleRunner, Running, Pcs, Word
  <2>5. WordInv'
    <3>1. CASE state = seen[t]
      BY <1>5, <3>1 DEF MatchRuns, Goto, TypeOK, WordInv, Running, Pcs, Word
    <3>2. CASE state # seen[t]
      BY <1>5, <3>2 DEF MatchRuns, TypeOK, WordInv, Running
    <3>3. QED
      BY <3>1, <3>2
  <2>6. ListInv'
    <3>1. pc'[t] \in {"match", "init"} /\ Goto(t, pc'[t])
      BY <1>5 DEF MatchRuns, Goto, TypeOK
    <3>2. state'.head = state.head
      BY <1>5 DEF MatchRuns, WordInv, Word
    <3>3. QED
      BY <1>5, <3>1, <3>2, QuietStep DEF MatchRuns, Quiet, Pcs
  <2>7. QED
    BY <2>1, <2>2, <2>3, <2>4, <2>5, <2>6 DEF IInv
<1>6. ASSUME MatchEnqueues(t) PROVE IInv'
  <2>1. TypeOK'
    BY <1>6, OnceAssumption
    DEF MatchEnqueues, Goto,
        TypeOK, Tags, Nodes, Pcs, Word
  <2>2. SingleRunner'
    BY <1>6, OnceAssumption
    DEF MatchEnqueues, Goto,
        TypeOK, SingleRunner, WordInv, Running, Pcs, Word
  <2>3. PoisonReported'
    BY <1>6, OnceAssumption
    DEF MatchEnqueues, Goto,
        TypeOK, PoisonReported, WordInv, SingleRunner, Running, Pcs, Word
  <2>4. ReturnMeansComplete'
    BY <1>6, OnceAssumption
    DEF MatchEnqueues, Goto,
        TypeOK, ReturnMeansComplete, WordInv, SingleRunner, Running, Pcs, Word
  <2>5. WordInv'
    BY <1>6, OnceAssumption
    DEF MatchEnqueues, Goto,
        TypeOK, WordInv, SingleRunner, Running, Pcs, Word
  <2>6. ListInv'
    BY <1>6, OnceAssumption
    DEF MatchEnqueues, Goto,
        TypeOK, ListInv, WordInv, Alive, Cursor, Pcs, Word, Nodes
  <2>7. QED
    BY <2>1, <2>2, <2>3, <2>4, <2>5, <2>6 DEF IInv
<1>7. ASSUME WaitCheck(t) PROVE IInv'
  <2>1. TypeOK'
    BY <1>7, OnceAssumption
    DEF WaitCheck, Goto,
        TypeOK, Tags, Nodes, Pcs, Word
  <2>2. SingleRunner'
    BY <1>7, OnceAssumption
    DEF WaitCheck, Goto,
        TypeOK, SingleRunner, WordInv, Running, Pcs, Word
  <2>3. PoisonReported'
    BY <1>7, OnceAssumption
    DEF WaitCheck, Goto,
        TypeOK, PoisonReported, WordInv, SingleRunner, Running, Pcs, Word
  <2>4. ReturnMeansComplete'
    BY <1>7, OnceAssumption
    DEF WaitCheck, Goto,
        TypeOK, ReturnMeansComplete, WordInv, SingleRunner, Running, Pcs, Word
  <2>5. WordInv'
    BY <1>7, OnceAssumption
    DEF WaitCheck, Goto,
        TypeOK, WordInv, SingleRunner, Running, Pcs, Word
  <2>6. ListInv'
    BY <1>7, OnceAssumption
    DEF WaitCheck, Goto,
        TypeOK, ListInv, WordInv, Alive, Cursor, Pcs, Word, Nodes
  <2>7. QED
    BY <2>1, <2>2, <2>3, <2>4, <2>5, <2>6 DEF IInv
<1>8. ASSUME Park(t) PROVE IInv'
  <2>1. TypeOK'
    BY <1>8, OnceAssumption
    DEF Park, Goto,
        TypeOK, Tags, Nodes, Pcs, Word
  <2>2. SingleRunner'
    BY <1>8, OnceAssumption
    DEF Park, Goto,
        TypeOK, SingleRunner, WordInv, Running, Pcs, Word
  <2>3. PoisonReported'
    BY <1>8, OnceAssumption
    DEF Park, Goto,
        TypeOK, PoisonReported, WordInv, SingleRunner, Running, Pcs, Word
  <2>4. ReturnMeansComplete'
    BY <1>8, OnceAssumption
    DEF Park, Goto,
        TypeOK, ReturnMeansComplete, WordInv, SingleRunner, Running, Pcs, Word
  <2>5. WordInv'
    BY <1>8, OnceAssumption
    DEF Park, Goto,
        TypeOK, WordInv, SingleRunner, Running, Pcs, Word
  <2>6. ListInv'
    BY <1>8, OnceAssumption
    DEF Park, Goto,
        TypeOK, ListInv, WordInv, Alive, Cursor, Pcs, Word, Nodes
  <2>7. QED
    BY <2>1, <2>2, <2>3, <2>4, <2>5, <2>6 DEF IInv
<1>9. ASSUME RunClosure(t) PROVE IInv'
  <2>1. TypeOK'
    <3>1. panicked' \in [Threads -> BOOLEAN] /\ told' \in [Threads -> BOOLEAN]
      BY <1>9 DEF RunClosure, TypeOK
    <3>2. pc' \in [Threads -> Pcs] /\ completions' \in Nat /\ panics' \in Nat
      BY <1>9 DEF RunClosure, Goto, TypeOK, Pcs
    <3>3. QED
      BY <1>9, <3>1, <3>2 DEF RunClosure, TypeOK
  <2>2. SingleRunner'
    BY <1>9, OnceAssumption
    DEF RunClosure, Goto,
        TypeOK, SingleRunner, WordInv, Running, Pcs, Word
  <2>3. PoisonReported'
    BY <1>9, OnceAssumption
    DEF RunClosure, Goto,
        TypeOK, PoisonReported, WordInv, SingleRunner, Running, Pcs, Word
  <2>4. ReturnMeansComplete'
    BY <1>9, OnceAssumption
    DEF RunClosure, Goto,
        TypeOK, ReturnMeansComplete, WordInv, SingleRunner, Running, Pcs, Word
  <2>5. WordInv'
    BY <1>9, OnceAssumption
    DEF RunClosure, Goto,
        TypeOK, WordInv, SingleRunner, Running, Pcs, Word
  <2>6. ListInv'
    BY <1>9, QuietStep DEF RunClosure, Quiet, Pcs
  <2>7. QED
    BY <2>1, <2>2, <2>3, <2>4, <2>5, <2>6 DEF IInv
<1>10. ASSUME FinishSwap(t) PROVE IInv'
  <2>1. TypeOK'
    BY <1>10, OnceAssumption
    DEF FinishSwap, Goto, FinalTag,
        TypeOK, Tags, Nodes, Pcs, Word
  <2>2. SingleRunner'
    BY <1>10, OnceAssumption
    DEF FinishSwap, Goto, FinalTag,
        TypeOK, SingleRunner, WordInv, Running, Pcs, Word
  <2>3. PoisonReported'
    BY <1>10, OnceAssumption
    DEF FinishSwap, Goto, FinalTag,
        TypeOK, PoisonReported, WordInv, SingleRunner, Running, Pcs, Word
  <2>4. ReturnMeansComplete'
    BY <1>10, OnceAssumption
    DEF FinishSwap, Goto, FinalTag,
        TypeOK, ReturnMeansComplete, WordInv, SingleRunner, Running, Pcs, Word
  <2>5. WordInv'
    BY <1>10, OnceAssumption
    DEF FinishSwap, Goto, FinalTag,
        TypeOK, WordInv, SingleRunner, Running, Pcs, Word
  <2>6. ListInv'
    BY <1>10, OnceAssumption
    DEF FinishSwap, Goto, FinalTag,
        TypeOK, ListInv, WordInv, Alive, Cursor, Pcs, Word, Nodes
  <2>7. QED
    BY <2>1, <2>2, <2>3, <2>4, <2>5, <2>6 DEF IInv
<1>11. ASSUME Walk(t) PROVE IInv'
  <2>1. TypeOK'
    <3>1. CASE queue[t] = Null
      <4>1. panicked' \in [Threads -> BOOLEAN]
        BY <1>11, <3>1 DEF Walk, TypeOK
      <4>2. QED
        BY <1>11, <3>1, <4>1, ReturnTypes DEF Walk, TypeOK
    <3>2. CASE queue[t] # Null
      BY <1>11, <3>2 DEF Walk, Goto, SignalEarly, TypeOK, Nodes, Pcs
    <3>3. QED
      BY <3>1, <3>2
  <2>2. SingleRunner'
    BY <1>11, OnceAssumption
    DEF Walk, Goto, Return, SignalEarly,
        TypeOK, SingleRunner, WordInv, Running, Pcs, Word
  <2>3. PoisonReported'
    BY <1>11, OnceAssumption
    DEF Walk, Goto, Return, SignalEarly,
        TypeOK, PoisonReported, WordInv, SingleRunner, Running, Pcs, Word
  <2>4. ReturnMeansComplete'
    BY <1>11, OnceAssumption
    DEF Walk, Goto, Return, SignalEarly,
        TypeOK, ReturnMeansComplete, WordInv, SingleRunner, Running, Pcs, Word
  <2>5. WordInv'
    <3>1. CASE queue[t] = Null
      <4>1. \A u \in Threads : u # t => pc'[u] = pc[u] /\ panicked'[u] = panicked[u]
        BY <1>11, <3>1 DEF Walk, Goto, Return, TypeOK
      <4>2. pc'[t] = "idle" /\ seen'[t].tag = "INCOMPLETE"
        BY <1>11, <3>1 DEF Walk, Goto, Return, Word, TypeOK
      <4>3. \A u \in Threads : u # t => seen'[u] = seen[u]
        BY <1>11, <3>1 DEF Walk, Return, TypeOK
      <4>4. QED
        BY <1>11, <3>1, <4>1, <4>2, <4>3 DEF Walk, WordInv, Running
    <3>2. CASE queue[t] # Null
      BY <1>11, <3>2 DEF Walk, Goto, TypeOK, WordInv, Running, Pcs
    <3>3. QED
      BY <3>1, <3>2
  <2>6. ListInv'
    <3>1. CASE queue[t] = Null
      BY <1>11, <3>1, QuietStep DEF Walk, Return, Quiet, Cursor, Pcs
    <3>2. CASE queue[t] # Null
      <4>1. \A n : Alive(n)' <=> Alive(n)
        BY <1>11, <3>2 DEF Walk, Goto, SignalEarly, Alive, TypeOK, Pcs
      <4>2. \A f \in Threads : Cursor(f)' = Cursor(f)
        BY <1>11, <3>2 DEF Walk, Goto, Cursor, TypeOK, Pcs
      <4>3. \A f \in Threads : pc'[f] = "store" =>
              queue'[f] # Null /\ after'[f] = next'[queue'[f]]
        BY <1>11, <3>2 DEF Walk, Goto, TypeOK, ListInv, Pcs
      <4>4. \A f \in Threads : pc'[f] = "unpark" => queue'[f] # Null
        BY <1>11, <3>2 DEF Walk, Goto, TypeOK, ListInv, Pcs
      <4>5. QED
        BY <1>11, <3>2, <4>1, <4>2, <4>3, <4>4 DEF Walk, ListInv
    <3>3. QED
      BY <3>1, <3>2
  <2>7. QED
    BY <2>1, <2>2, <2>3, <2>4, <2>5, <2>6 DEF IInv
<1>12. ASSUME StoreSignaled(t) PROVE IInv'
  <2>1. TypeOK'
    BY <1>12, OnceAssumption
    DEF StoreSignaled, Goto,
        TypeOK, Tags, Nodes, Pcs, Word
  <2>2. SingleRunner'
    BY <1>12, OnceAssumption
    DEF StoreSignaled, Goto,
        TypeOK, SingleRunner, WordInv, Running, Pcs, Word
  <2>3. PoisonReported'
    BY <1>12, OnceAssumption
    DEF StoreSignaled, Goto,
        TypeOK, PoisonReported, WordInv, SingleRunner, Running, Pcs, Word
  <2>4. ReturnMeansComplete'
    BY <1>12, OnceAssumption
    DEF StoreSignaled, Goto,
        TypeOK, ReturnMeansComplete, WordInv, SingleRunner, Running, Pcs, Word
  <2>5. WordInv'
    BY <1>12, OnceAssumption
    DEF StoreSignaled, Goto,
        TypeOK, WordInv, SingleRunner, Running, Pcs, Word
  <2>6. ListInv'
    BY <1>12, OnceAssumption
    DEF StoreSignaled, Goto,
        TypeOK, ListInv, WordInv, Alive, Cursor, Pcs, Word, Nodes
  <2>7. QED
    BY <2>1, <2>2, <2>3, <2>4, <2>5, <2>6 DEF IInv
<1>13. ASSUME Unpark(t) PROVE IInv'
  <2>1. TypeOK'
    BY <1>13, OnceAssumption
    DEF Unpark, Goto, SetPermit,
        TypeOK, Tags, Nodes, Pcs, Word
  <2>2. SingleRunner'
    BY <1>13, OnceAssumption
    DEF Unpark, Goto, SetPermit,
        TypeOK, SingleRunner, WordInv, Running, Pcs, Word
  <2>3. PoisonReported'
    BY <1>13, OnceAssumption
    DEF Unpark, Goto, SetPermit,
        TypeOK, PoisonReported, WordInv, SingleRunner, Running, Pcs, Word
  <2>4. ReturnMeansComplete'
    BY <1>13, OnceAssumption
    DEF Unpark, Goto, SetPermit,
        TypeOK, ReturnMeansComplete, WordInv, SingleRunner, Running, Pcs, Word
  <2>5. WordInv'
    BY <1>13, OnceAssumption
    DEF Unpark, Goto, SetPermit,
        TypeOK, WordInv, SingleRunner, Running, Pcs, Word
  <2>6. ListInv'
    BY <1>13, OnceAssumption
    DEF Unpark, Goto, SetPermit,
        TypeOK, ListInv, WordInv, Alive, Cursor, Pcs, Word, Nodes
  <2>7. QED
    BY <2>1, <2>2, <2>3, <2>4, <2>5, <2>6 DEF IInv
<1>14. QED
  BY <1>1, <1>2, <1>3, <1>4, <1>5, <1>6, <1>7, <1>8, <1>9, <1>10, <1>11, <1>12, <1>13
  DEF Step

\* The invariant mentions variables only, so a stuttering step keeps it.
LEMMA StutterPreserves == ASSUME IInv, UNCHANGED vars PROVE IInv'
<1>1. \A n : Alive(n)' <=> Alive(n)
  BY DEF vars, Alive
<1>2. \A f : Cursor(f)' = Cursor(f)
  BY DEF vars, Cursor
<1>3. ListInv'
  BY <1>1, <1>2 DEF vars, IInv, ListInv
<1>4. QED
  BY <1>3 DEF vars, IInv, TypeOK, SingleRunner, PoisonReported,
     ReturnMeansComplete, WordInv, Running

\* IInv holds in every reachable state of a Once.
THEOREM IInvHolds == Spec => []IInv
<1>1. IInv /\ [Next]_vars => IInv'
  BY StepPreserves, StutterPreserves DEF Next, Terminated, IInv
<1>2. QED
  BY InitIInv, <1>1, PTL DEF Spec

\* Every variable keeps its type.
THEOREM TypeCorrect == Spec => []TypeOK
<1>1. IInv => TypeOK
  BY DEF IInv
<1>2. QED
  BY IInvHolds, <1>1, PTL

\* The closure runs in one thread at a time, runs to its end at most once, and
\* no call returns normally before it has.
THEOREM OnceGuarantee ==
  Spec => [](SingleRunner /\ RunsOnce)
<1>1. IInv => InitAtMostOnce
  <2> SUFFICES ASSUME IInv PROVE InitAtMostOnce
    OBVIOUS
  <2>1. completions <= 1
    BY DEF IInv, WordInv
  <2>2. ASSUME NEW t \in Threads, pc[t] = "init" PROVE completions = 0
    <3>1. state.tag = "RUNNING"
      BY <2>2 DEF IInv, WordInv, Running
    <3>2. \A u \in Threads : pc[u] # "finish"
      BY <2>2 DEF IInv, SingleRunner, Running
    <3>3. QED
      BY <3>1, <3>2 DEF IInv, WordInv
  <2>3. QED
    BY <2>1, <2>2 DEF InitAtMostOnce
<1>2. IInv => SingleRunner /\ RunsOnce
  BY <1>1 DEF IInv, RunsOnce
<1>3. QED
  BY IInvHolds, <1>2, PTL

\* Finish::drop never touches a waiter node whose owner may have left.
THEOREM NodesSafe == Spec => []NoUseAfterFree
<1>1. IInv => NoUseAfterFree
  BY DEF IInv, NoUseAfterFree, ListInv, Alive, Cursor
<1>2. QED
  BY IInvHolds, <1>1, PTL

\* The poisoned flag given to a closure is exact.
THEOREM PoisonExact == Spec => []PoisonReported
<1>1. IInv => PoisonReported
  BY DEF IInv
<1>2. QED
  BY IInvHolds, <1>1, PTL
=============================================================================
