---------------------------- MODULE LocksProofs -----------------------------
(***************************************************************************)
(* Proofs about Barrier and about the guards of Mutex, RwLock and Condvar, *)
(* for any threads and locks, any number of readers that pthread admits    *)
(* and any size of the barrier.                                            *)
(***************************************************************************)
EXTENDS Barrier, FiniteSetTheorems, FunctionTheorems, SequenceTheorems, TLAPS

-----------------------------------------------------------------------------
(* The inductive invariant of the guards *)

\* The calls a thread may be in, with the one before the first.
Request == [lock : Locks \cup {Nobody}, mode : {"lock", "read", "write", "none"},
            try : BOOLEAN]

\* Every variable of Guards keeps its type.
GuardsTypeOK ==
  /\ raw \in [Locks -> [Threads -> Nat]] /\ writer \in [Locks -> Threads \cup {Nobody}]
  /\ writeLocked \in [RwLocks -> BOOLEAN] /\ numReaders \in [RwLocks -> Nat]
  /\ failed \in [Locks -> BOOLEAN] /\ bound \in Mutexes \cup {Nobody}
  /\ guards \in [Threads -> Seq(Guard)] /\ panicking \in [Threads -> BOOLEAN]
  /\ aborted \in BOOLEAN /\ tainted \in SUBSET Locks
  /\ tpc \in [Threads -> {"run", "acquire", "check", "release", "cv"}]
  /\ req \in [Threads -> Request] /\ calls \in 0..MaxCalls

\* The guards of t on l, with the lock or waiting for it.
Indices(t, l) == {i \in 1..Len(guards[t]) : guards[t][i].lock = l}

\* t gave l up to wait on the condition variable.
Away(t, l) == tpc[t] = "cv" /\ req[t].lock = l

\* t has l from pthread and no guard for it: not yet, or not any more.
Pending(t, l) == IF tpc[t] \in {"check", "release"} /\ req[t].lock = l THEN 1 ELSE 0

\* A call names a lock and a way to take it; so does a guard.
CallsInv ==
  /\ \A t \in Threads : tpc[t] # "run" => /\ req[t].lock \in Locks
                                          /\ req[t].mode \in Modes(req[t].lock)
  /\ \A t \in Threads : \A i \in 1..Len(guards[t]) :
       guards[t][i].mode \in Modes(guards[t][i].lock)

\* Whoever waits on the condition variable kept one guard of the mutex.
CondvarInv ==
  \A t \in Threads : tpc[t] = "cv" =>
    req[t].lock \in Mutexes /\ Cardinality(Indices(t, req[t].lock)) = 1

\* pthread has counted the guards and the calls under way.
RawInv ==
  \A l \in Locks : \A t \in Threads :
    raw[l][t] = (IF Away(t, l) THEN 0 ELSE Cardinality(Indices(t, l))) + Pending(t, l)

\* pthread grants a mutex to one thread, once.
MutexInv ==
  \A l \in Mutexes : \A t \in Threads :
    /\ raw[l][t] <= 1
    /\ \A u \in Threads : raw[l][t] # 0 /\ raw[l][u] # 0 => t = u

\* The guards on l, of all threads, and those of them that read.
Places == {x \in Threads \X (Nat \ {0}) : x[2] <= Len(guards[x[1]])}
At(x) == guards[x[1]][x[2]]
GuardsOf(l) == {x \in Places : At(x).lock = l}
ReadersOf(l) == {x \in GuardsOf(l) : At(x).mode = "read"}

\* The fields of sys::RWLock count the guards, and one that writes is alone.
FieldsInv ==
  \A l \in RwLocks :
    /\ IsFiniteSet(ReadersOf(l)) /\ numReaders[l] = Cardinality(ReadersOf(l))
    /\ writeLocked[l] <=> \E x \in GuardsOf(l) : At(x).mode # "read"
    /\ \A x, y \in GuardsOf(l) : At(x).mode # "read" => x = y

\* A guard that was held for writing when a panic of its thread began.
Marks(g, p) == g.mode # "read" /\ ~g.panicking /\ p

\* Guards made while unwinding are gone when it ends, and a lock that was held
\* for writing when a panic began is poisoned, or the guard is still there.
TaintInv ==
  /\ \A t \in Threads : \A i \in 1..Len(guards[t]) :
       /\ guards[t][i].panicking => panicking[t]
       /\ Marks(guards[t][i], panicking[t]) => guards[t][i].lock \in tainted
  /\ \A l \in Locks : failed[l] => l \in tainted
  /\ \A l \in tainted : failed[l] \/
       \E t \in Threads : \E i \in 1..Len(guards[t]) :
         guards[t][i].lock = l /\ Marks(guards[t][i], panicking[t])

\* The inductive invariant of the guards.
GuardsInv ==
  /\ GuardsTypeOK /\ CallsInv /\ CondvarInv /\ RawInv /\ MutexInv /\ FieldsInv /\ TaintInv

-----------------------------------------------------------------------------
(* Guards that come and go *)

\* Two sets with a one-to-one map between them have as many elements.
LEMMA SameSize ==
  ASSUME NEW S, NEW T, IsFiniteSet(T), NEW f \in [S -> T],
         \A a, b \in S : f[a] = f[b] => a = b, \A y \in T : \E x \in S : f[x] = y
  PROVE  IsFiniteSet(S) /\ Cardinality(S) = Cardinality(T)
<1>1. f \in Bijection(S, T)
  BY Fun_IsBij
<1>2. Inverse(f, S, T) \in Bijection(T, S)
  BY <1>1, Fun_BijInverse
<1>3. ExistsBijection(T, S)
  BY <1>2, Fun_ExistsBij
<1>4. QED
  BY <1>3, FS_Bijection

\* The guards left when the i-th of s is gone, as DropGuard leaves them.
LEMMA Removed ==
  ASSUME NEW s \in Seq(Guard), NEW i \in 1..Len(s),
         NEW r, r = SubSeq(s, 1, i - 1) \o SubSeq(s, i + 1, Len(s))
  PROVE  /\ r \in Seq(Guard) /\ Len(r) = Len(s) - 1
         /\ \A k \in 1..Len(r) : r[k] = s[IF k < i THEN k ELSE k + 1]
<1>1. PICK n \in Nat : n = Len(s) /\ 1 <= i /\ i <= n /\ i - 1 \in Int /\ i + 1 \in Int
  OBVIOUS
<1>2. (\A k \in 1..(i - 1) : s[k] \in Guard) /\ (\A k \in (i + 1)..n : s[k] \in Guard)
  BY <1>1
<1>3. PICK a : a = SubSeq(s, 1, i - 1)
  OBVIOUS
<1>4. PICK b : b = SubSeq(s, i + 1, n)
  OBVIOUS
<1>5. a \in Seq(Guard) /\ Len(a) = i - 1 /\ \A k \in 1..(i - 1) : a[k] = s[k]
  <2>1. /\ SubSeq(s, 1, i - 1) \in Seq(Guard)
        /\ Len(SubSeq(s, 1, i - 1)) = IF 1 <= i - 1 THEN i - 1 - 1 + 1 ELSE 0
        /\ \A k \in 1..(i - 1 - 1 + 1) : SubSeq(s, 1, i - 1)[k] = s[1 + k - 1]
    BY <1>1, <1>2, SubSeqProperties
  <2>2. QED
    BY <1>1, <1>3, <2>1
<1>6. b \in Seq(Guard) /\ Len(b) = n - i /\ \A k \in 1..(n - i) : b[k] = s[i + k]
  <2>1. /\ SubSeq(s, i + 1, n) \in Seq(Guard)
        /\ Len(SubSeq(s, i + 1, n)) = IF i + 1 <= n THEN n - (i + 1) + 1 ELSE 0
        /\ \A k \in 1..(n - (i + 1) + 1) : SubSeq(s, i + 1, n)[k] = s[i + 1 + k - 1]
    BY <1>1, <1>2, SubSeqProperties
  <2>2. n - (i + 1) + 1 = n - i /\ \A k \in Int : i + 1 + k - 1 = i + k
    BY <1>1
  <2>3. Len(b) = n - i
    BY <1>1, <1>4, <2>1
  <2>4. ASSUME NEW k \in 1..(n - i) PROVE b[k] = s[i + k]
    <3>1. k \in 1..(n - (i + 1) + 1) /\ i + 1 + k - 1 = i + k
      BY <2>2
    <3>2. QED
      BY <3>1, <2>1, <1>4
  <2>5. QED
    BY <2>1, <2>3, <2>4, <1>4
<1>c. PICK c : c = a \o b
  OBVIOUS
<1>7. /\ c \in Seq(Guard) /\ Len(c) = Len(a) + Len(b)
      /\ \A k \in 1..(Len(a) + Len(b)) : c[k] = IF k <= Len(a) THEN a[k] ELSE b[k - Len(a)]
  <2>1. a \in Seq(Guard) /\ b \in Seq(Guard)
    BY <1>5, <1>6
  <2>2. QED
    BY <1>c, <2>1, ConcatProperties
<1>d. r = c
  BY <1>1, <1>3, <1>4, <1>c
<1>8. Len(r) = n - 1 /\ Len(a) + Len(b) = n - 1 /\ Len(a) = i - 1
  <2>1. Len(a) = i - 1 /\ Len(b) = n - i /\ Len(c) = Len(a) + Len(b)
    BY <1>5, <1>6, <1>7
  <2>2. Len(c) = n - 1
    BY <2>1, <1>1
  <2>3. QED
    BY <2>1, <2>2, <1>d
<1>9. ASSUME NEW k \in 1..(n - 1) PROVE r[k] = s[IF k < i THEN k ELSE k + 1]
  <2>1. k \in 1..(Len(a) + Len(b)) /\ 1 <= k /\ k <= n - 1
    BY <1>1, <1>8
  <2>2. CASE k < i
    <3>1. k <= Len(a) /\ k \in 1..(i - 1)
      BY <2>1, <2>2, <1>8
    <3>2. c[k] = a[k] /\ a[k] = s[k]
      BY <2>1, <3>1, <1>5, <1>7
    <3>3. QED
      BY <2>2, <3>2, <1>d
  <2>3. CASE ~(k < i)
    <3>1. k - Len(a) \in 1..(n - i) /\ i + (k - Len(a)) = k + 1 /\ ~(k <= Len(a))
      BY <2>1, <2>3, <1>1, <1>8
    <3>2. c[k] = b[k - Len(a)]
      BY <2>1, <3>1, <1>7
    <3>3. b[k - Len(a)] = s[k + 1]
      BY <3>1, <1>6
    <3>4. QED
      BY <2>3, <3>2, <3>3, <1>d
  <2>4. QED
    BY <2>2, <2>3
<1>10. QED
  BY <1>1, <1>7, <1>8, <1>9, <1>d

\* Nat is unbounded and the guards of a thread are not.
LEMMA IndicesFinite ==
  ASSUME NEW t, NEW l, Len(guards[t]) \in Nat
  PROVE  IsFiniteSet(Indices(t, l)) /\ Cardinality(Indices(t, l)) \in Nat
<1>1. IsFiniteSet(1..Len(guards[t]))
  BY FS_Interval
<1>2. Indices(t, l) \in SUBSET (1..Len(guards[t]))
  BY DEF Indices
<1>3. QED
  BY <1>1, <1>2, FS_Subset, FS_CardinalityType

\* Where the guard at x was before the i-th guard of t was dropped.
Before(x, t, i) == IF x[1] = t /\ i <= x[2] THEN <<t, x[2] + 1>> ELSE x

\* DropGuard moves the younger guards of its thread up.
LEMMA Drops ==
  ASSUME GuardsTypeOK, NEW t \in Threads, NEW i \in 1..Len(guards[t]),
         guards' = [guards EXCEPT ![t] = SubSeq(@, 1, i - 1) \o SubSeq(@, i + 1, Len(@))]
  PROVE  /\ guards' \in [Threads -> Seq(Guard)]
         /\ \A u \in Threads : u # t => guards'[u] = guards[u]
         /\ Len(guards'[t]) = Len(guards[t]) - 1
         /\ \A k \in 1..Len(guards'[t]) :
              guards'[t][k] = guards[t][IF k < i THEN k ELSE k + 1]
<1>1. guards \in [Threads -> Seq(Guard)] /\ guards[t] \in Seq(Guard)
  BY DEF GuardsTypeOK
<1>2. PICK s : s = guards[t]
  OBVIOUS
<1>3. PICK r : r = SubSeq(s, 1, i - 1) \o SubSeq(s, i + 1, Len(s))
  OBVIOUS
<1>4. guards' = [guards EXCEPT ![t] = r]
  BY <1>2, <1>3
<1>5. s \in Seq(Guard) /\ i \in 1..Len(s)
  BY <1>1, <1>2
<1>6. /\ r \in Seq(Guard) /\ Len(r) = Len(s) - 1
      /\ \A k \in 1..Len(r) : r[k] = s[IF k < i THEN k ELSE k + 1]
  BY <1>3, <1>5, Removed
<1>7. guards'[t] = r
  BY <1>1, <1>4
<1>8. guards' \in [Threads -> Seq(Guard)] /\ \A u \in Threads : u # t => guards'[u] = guards[u]
  BY <1>1, <1>4, <1>6
<1>9. QED
  BY <1>2, <1>6, <1>7, <1>8, Zenon

\* One guard of t on the lock of the guard dropped is gone, and no other.
LEMMA DropIndices ==
  ASSUME GuardsTypeOK, NEW t \in Threads, NEW i \in 1..Len(guards[t]), NEW l,
         Len(guards'[t]) = Len(guards[t]) - 1,
         \A k \in 1..Len(guards'[t]) : guards'[t][k] = guards[t][IF k < i THEN k ELSE k + 1]
  PROVE  Cardinality(Indices(t, l)') =
           Cardinality(Indices(t, l)) - (IF guards[t][i].lock = l THEN 1 ELSE 0)
<1>0. PICK n \in Nat : n = Len(guards[t])
  BY DEF GuardsTypeOK
<1>1. IsFiniteSet(Indices(t, l)) /\ Cardinality(Indices(t, l)) \in Nat
  BY <1>0, IndicesFinite
<1> DEFINE S == {k \in 1..(n - 1) : guards[t][IF k < i THEN k ELSE k + 1].lock = l}
           T == {k \in 1..n : guards[t][k].lock = l}
           U == T \ {i}
<1>2. Indices(t, l)' = S
  <2>1. Indices(t, l)' = {k \in 1..Len(guards'[t]) : guards'[t][k].lock = l}
    BY DEF Indices
  <2>2. Len(guards'[t]) = n - 1
    BY <1>0
  <2>3. QED
    BY <2>1, <2>2
<1>3. Indices(t, l) = T
  BY <1>0 DEF Indices
<1>4. PICK f : f = [k \in S |-> IF k < i THEN k ELSE k + 1]
  OBVIOUS
<1>5. f \in [S -> U]
  <2>1. ASSUME NEW k \in S PROVE (IF k < i THEN k ELSE k + 1) \in U
    BY <1>0
  <2>2. QED
    BY <1>4, <2>1
<1>6. ASSUME NEW a \in S, NEW b \in S, f[a] = f[b] PROVE a = b
  BY <1>4, <1>6, <1>0
<1>7. ASSUME NEW y \in U PROVE \E x \in S : f[x] = y
  <2>1. CASE y < i
    <3>1. y \in S /\ f[y] = y
      BY <2>1, <1>0, <1>4
    <3>2. QED
      BY <3>1
  <2>2. CASE ~(y < i)
    <3>1. y - 1 \in 1..(n - 1) /\ ~(y - 1 < i) /\ (y - 1) + 1 = y
      BY <2>2, <1>0
    <3>2. y - 1 \in S
      BY <3>1
    <3>3. f[y - 1] = y
      BY <3>1, <3>2, <1>4
    <3>4. QED
      BY <3>2, <3>3
  <2>3. QED
    BY <2>1, <2>2
<1>8. IsFiniteSet(U) /\ Cardinality(U) = IF i \in T THEN Cardinality(T) - 1 ELSE Cardinality(T)
  BY <1>1, <1>3, FS_RemoveElement
<1>9. i \in T <=> guards[t][i].lock = l
  BY <1>0
<1> HIDE DEF S, U
<1>10. Cardinality(S) = Cardinality(U)
  BY <1>5, <1>6, <1>7, <1>8, SameSize
<1> HIDE DEF T
<1>11. QED
  BY <1>1, <1>2, <1>3, <1>8, <1>9, <1>10

\* The guards that are left are the old ones but for the i-th guard of t.
LEMMA DropPlaces ==
  ASSUME GuardsTypeOK, NEW t \in Threads, NEW i \in 1..Len(guards[t]),
         \A u \in Threads : u # t => guards'[u] = guards[u],
         Len(guards'[t]) = Len(guards[t]) - 1,
         \A k \in 1..Len(guards'[t]) : guards'[t][k] = guards[t][IF k < i THEN k ELSE k + 1]
  PROVE  /\ \A x \in Places' : /\ Before(x, t, i) \in Places /\ Before(x, t, i) # <<t, i>>
                               /\ At(x)' = At(Before(x, t, i))
         /\ \A x, y \in Places' : Before(x, t, i) = Before(y, t, i) => x = y
         /\ \A y \in Places : y # <<t, i>> => \E x \in Places' : Before(x, t, i) = y
<1>a. guards[t] \in Seq(Guard)
  BY DEF GuardsTypeOK
<1>b. PICK n \in Nat : n = Len(guards[t])
  BY <1>a
<1>0. n = Len(guards[t]) /\ 1 <= i /\ i <= n
  BY <1>b
<1>1. Len(guards'[t]) = n - 1
  BY <1>0
<1>2. \A k \in Nat \ {0} : k <= n - 1 => guards'[t][k] = guards[t][IF k < i THEN k ELSE k + 1]
  BY <1>1
<1>3. ASSUME NEW x \in Places'
      PROVE  /\ Before(x, t, i) \in Places /\ Before(x, t, i) # <<t, i>>
             /\ At(x)' = At(Before(x, t, i))
  <2>1. PICK u \in Threads, k \in Nat \ {0} : x = <<u, k>> /\ k <= Len(guards'[u])
    BY DEF Places
  <2>2. CASE u # t
    <3>1. Before(x, t, i) = x /\ x # <<t, i>> /\ guards'[u] = guards[u]
      BY <2>1, <2>2 DEF Before
    <3>2. QED
      BY <2>1, <3>1 DEF Places, At
  <2>3. CASE u = t /\ k < i
    <3>1. Before(x, t, i) = x /\ x # <<t, i>> /\ guards'[t][k] = guards[t][k] /\ k <= n
      BY <2>1, <2>3, <1>0, <1>1, <1>2 DEF Before
    <3>2. QED
      BY <2>1, <2>3, <3>1, <1>0 DEF Places, At
  <2>4. CASE u = t /\ ~(k < i)
    <3>1. /\ Before(x, t, i) = <<t, k + 1>> /\ k + 1 # i /\ k + 1 <= n
          /\ guards'[t][k] = guards[t][k + 1] /\ k + 1 \in Nat \ {0}
      BY <2>1, <2>4, <1>0, <1>1, <1>2 DEF Before
    <3>2. QED
      BY <2>1, <2>4, <3>1, <1>0 DEF Places, At
  <2>5. QED
    BY <2>2, <2>3, <2>4
<1>4. ASSUME NEW x \in Places', NEW y \in Places', Before(x, t, i) = Before(y, t, i)
      PROVE  x = y
  <2>1. PICK u \in Threads, k \in Nat \ {0} : x = <<u, k>>
    BY DEF Places
  <2>2. PICK v \in Threads, j \in Nat \ {0} : y = <<v, j>>
    BY DEF Places
  <2>3. QED
    BY <2>1, <2>2, <1>4, <1>0 DEF Before
<1>5. ASSUME NEW y \in Places, y # <<t, i>> PROVE \E x \in Places' : Before(x, t, i) = y
  <2>1. PICK u \in Threads, k \in Nat \ {0} : y = <<u, k>> /\ k <= Len(guards[u])
    BY DEF Places
  <2>2. CASE u # t
    <3>1. y \in Places' /\ Before(y, t, i) = y
      BY <2>1, <2>2 DEF Places, Before
    <3>2. QED
      BY <3>1
  <2>3. CASE u = t /\ k < i
    <3>1. y \in Places' /\ Before(y, t, i) = y
      BY <2>1, <2>3, <1>0, <1>1 DEF Places, Before
    <3>2. QED
      BY <3>1
  <2>4. CASE u = t /\ ~(k < i)
    <3>1. k # i
      BY <1>5, <2>1, <2>4
    <3>2. k - 1 \in Nat \ {0} /\ k - 1 <= n - 1 /\ i <= k - 1 /\ (k - 1) + 1 = k
      BY <2>1, <2>4, <3>1, <1>0
    <3>3. <<t, k - 1>> \in Places' /\ Before(<<t, k - 1>>, t, i) = y
      BY <2>1, <2>4, <3>2, <1>1 DEF Places, Before
    <3>4. QED
      BY <3>3
  <2>5. QED
    BY <2>2, <2>3, <2>4
<1>6. QED
  BY <1>3, <1>4, <1>5

\* Dropping a guard keeps the fields of sys::RWLock exact.
LEMMA DropFields ==
  ASSUME GuardsTypeOK, CallsInv, FieldsInv, NEW t \in Threads, NEW i \in 1..Len(guards[t]),
         NEW g, g = guards[t][i],
         \A u \in Threads : u # t => guards'[u] = guards[u],
         Len(guards'[t]) = Len(guards[t]) - 1,
         \A k \in 1..Len(guards'[t]) : guards'[t][k] = guards[t][IF k < i THEN k ELSE k + 1],
         writeLocked' = IF g.mode = "write" THEN [writeLocked EXCEPT ![g.lock] = FALSE]
                                            ELSE writeLocked,
         numReaders' = IF g.mode = "read" THEN [numReaders EXCEPT ![g.lock] = @ - 1]
                                          ELSE numReaders
  PROVE  /\ FieldsInv' /\ writeLocked' \in [RwLocks -> BOOLEAN]
         /\ numReaders' \in [RwLocks -> Nat]
<1>1. /\ \A x \in Places' : /\ Before(x, t, i) \in Places /\ Before(x, t, i) # <<t, i>>
                            /\ At(x)' = At(Before(x, t, i))
      /\ \A x, y \in Places' : Before(x, t, i) = Before(y, t, i) => x = y
      /\ \A y \in Places : y # <<t, i>> => \E x \in Places' : Before(x, t, i) = y
  BY DropPlaces
<1>2. PICK z : z = <<t, i>>
  OBVIOUS
<1>3. guards[t] \in Seq(Guard) /\ g \in Guard /\ g.mode \in Modes(g.lock)
  BY DEF GuardsTypeOK, CallsInv
<1>4. z \in Places /\ At(z) = g
  BY <1>2, <1>3 DEF Places, At
<1>5. /\ writeLocked \in [RwLocks -> BOOLEAN] /\ numReaders \in [RwLocks -> Nat]
      /\ g.mode \in {"read", "write"} <=> g.lock \in RwLocks
      /\ g.mode \in {"lock", "read", "write"}
  BY <1>3, GuardsAssumption DEF GuardsTypeOK, Modes, Guard, Locks
<1>6. ASSUME NEW l \in RwLocks
      PROVE  /\ IsFiniteSet(ReadersOf(l)') /\ numReaders'[l] = Cardinality(ReadersOf(l)')
             /\ writeLocked'[l] <=> \E x \in GuardsOf(l)' : At(x)'.mode # "read"
             /\ \A x, y \in GuardsOf(l)' : At(x)'.mode # "read" => x = y
             /\ numReaders'[l] \in Nat /\ writeLocked'[l] \in BOOLEAN
  <2>1. /\ IsFiniteSet(ReadersOf(l)) /\ numReaders[l] = Cardinality(ReadersOf(l))
        /\ writeLocked[l] <=> \E x \in GuardsOf(l) : At(x).mode # "read"
        /\ \A x, y \in GuardsOf(l) : At(x).mode # "read" => x = y
        /\ numReaders[l] \in Nat /\ writeLocked[l] \in BOOLEAN
    BY <1>5 DEF FieldsInv
  <2>2. PICK f : f = [x \in ReadersOf(l)' |-> Before(x, t, i)]
    OBVIOUS
  <2>3. /\ \A x : x \in GuardsOf(l)' <=> x \in Places' /\ At(x)'.lock = l
        /\ \A x : x \in GuardsOf(l) <=> x \in Places /\ At(x).lock = l
        /\ \A x : x \in ReadersOf(l)' <=> x \in GuardsOf(l)' /\ At(x)'.mode = "read"
        /\ \A x : x \in ReadersOf(l) <=> x \in GuardsOf(l) /\ At(x).mode = "read"
    BY DEF GuardsOf, ReadersOf
  <2>4. PICK T : T = ReadersOf(l) \ {z}
    OBVIOUS
  <2>5. f \in [ReadersOf(l)' -> T]
    <3>1. ASSUME NEW x \in ReadersOf(l)' PROVE Before(x, t, i) \in T
      BY <1>1, <1>2, <2>3, <2>4
    <3>2. QED
      BY <2>2, <3>1
  <2>6. \A x, y \in ReadersOf(l)' : f[x] = f[y] => x = y
    BY <1>1, <2>2, <2>3
  <2>7. \A y \in T : \E x \in ReadersOf(l)' : f[x] = y
    <3>1. SUFFICES ASSUME NEW y \in T PROVE \E x \in ReadersOf(l)' : f[x] = y
      OBVIOUS
    <3>2. y \in Places /\ y # <<t, i>> /\ At(y).lock = l /\ At(y).mode = "read"
      BY <1>2, <2>3, <2>4
    <3>3. PICK x \in Places' : Before(x, t, i) = y
      BY <1>1, <3>2
    <3>4. At(x)' = At(y)
      BY <1>1, <3>3
    <3>5. x \in ReadersOf(l)'
      BY <2>3, <3>2, <3>3, <3>4
    <3>6. QED
      BY <2>2, <3>3, <3>5
  <2>8. /\ IsFiniteSet(T)
        /\ Cardinality(T) = IF z \in ReadersOf(l) THEN Cardinality(ReadersOf(l)) - 1
                                                  ELSE Cardinality(ReadersOf(l))
    BY <2>1, <2>4, FS_RemoveElement
  <2>9. /\ IsFiniteSet(ReadersOf(l)') /\ Cardinality(ReadersOf(l)') = Cardinality(T)
        /\ Cardinality(ReadersOf(l)') \in Nat
    <3>1. IsFiniteSet(ReadersOf(l)') /\ Cardinality(ReadersOf(l)') = Cardinality(T)
      <4>1. PICK S : S = ReadersOf(l)'
        OBVIOUS
      <4>2. /\ f \in [S -> T] /\ IsFiniteSet(T)
            /\ \A x, y \in S : f[x] = f[y] => x = y
            /\ \A y \in T : \E x \in S : f[x] = y
        BY <2>5, <2>6, <2>7, <2>8, <4>1
      <4>3. IsFiniteSet(S) /\ Cardinality(S) = Cardinality(T)
        BY <4>2, SameSize
      <4>4. QED
        BY <4>1, <4>3
    <3>2. QED
      BY <3>1, FS_CardinalityType
  <2>10. z \in ReadersOf(l) <=> g.lock = l /\ g.mode = "read"
    BY <1>4, <2>3
  <2>11. numReaders'[l] = IF g.lock = l /\ g.mode = "read" THEN numReaders[l] - 1
                                                          ELSE numReaders[l]
    BY <1>5
  <2>12. numReaders'[l] = Cardinality(ReadersOf(l)') /\ numReaders'[l] \in Nat
    BY <2>1, <2>8, <2>9, <2>10, <2>11
  <2>13. \A x \in GuardsOf(l)' :
           /\ Before(x, t, i) \in GuardsOf(l) /\ Before(x, t, i) # z
           /\ At(x)' = At(Before(x, t, i))
    BY <1>1, <1>2, <2>3
  <2>14. \A x, y \in GuardsOf(l)' : At(x)'.mode # "read" => x = y
    <3>1. SUFFICES ASSUME NEW x \in GuardsOf(l)', NEW y \in GuardsOf(l)', At(x)'.mode # "read"
                   PROVE  x = y
      OBVIOUS
    <3>2. Before(x, t, i) = Before(y, t, i)
      BY <2>1, <2>13, <3>1
    <3>3. QED
      BY <1>1, <2>3, <3>2
  <2>15. /\ writeLocked'[l] <=> \E x \in GuardsOf(l)' : At(x)'.mode # "read"
         /\ writeLocked'[l] \in BOOLEAN
    <3>1. CASE g.mode # "read" /\ g.lock = l
      <4>1. g.mode = "write" /\ writeLocked'[l] = FALSE
        BY <1>5, <3>1
      <4>2. z \in GuardsOf(l) /\ At(z).mode # "read"
        BY <1>4, <2>3, <3>1
      <4>3. ASSUME NEW x \in GuardsOf(l)' PROVE At(x)'.mode = "read"
        BY <2>1, <2>13, <4>2
      <4>4. QED
        BY <4>1, <4>3
    <3>2. CASE ~(g.mode # "read" /\ g.lock = l)
      <4>1. writeLocked'[l] = writeLocked[l]
        BY <1>5, <3>2
      <4>2. ASSUME NEW x \in GuardsOf(l)', At(x)'.mode # "read" PROVE writeLocked[l]
        BY <2>1, <2>13, <4>2
      <4>3. ASSUME NEW y \in GuardsOf(l), At(y).mode # "read"
            PROVE  \E x \in GuardsOf(l)' : At(x)'.mode # "read"
        <5>1. y # <<t, i>> /\ y \in Places /\ At(y).lock = l
          BY <1>2, <1>4, <2>3, <3>2, <4>3
        <5>2. PICK x \in Places' : Before(x, t, i) = y
          BY <1>1, <5>1
        <5>3. At(x)' = At(y) /\ x \in GuardsOf(l)'
          BY <1>1, <2>3, <5>1, <5>2
        <5>4. QED
          BY <4>3, <5>3
      <4>4. QED
        BY <2>1, <4>1, <4>2, <4>3
    <3>3. QED
      BY <3>1, <3>2
  <2>16. QED
    BY <2>9, <2>12, <2>14, <2>15
<1>7. writeLocked' \in [RwLocks -> BOOLEAN] /\ numReaders' \in [RwLocks -> Nat]
  <2>1. /\ writeLocked' = [l \in RwLocks |-> writeLocked'[l]]
        /\ numReaders' = [l \in RwLocks |-> numReaders'[l]]
    BY <1>5
  <2>2. QED
    BY <1>6, <2>1
<1>8. QED
  BY <1>6, <1>7 DEF FieldsInv

\* A guard that passed the check of sys::RWLock is counted and is alone if it writes.
LEMMA AddFields ==
  ASSUME GuardsTypeOK, FieldsInv, NEW t \in Threads, NEW g \in Guard, g.mode \in Modes(g.lock),
         ~Recursive(g.lock, g.mode),
         \A u \in Threads : u # t => guards'[u] = guards[u],
         guards'[t] = Append(guards[t], g),
         writeLocked' = IF g.mode = "write" THEN [writeLocked EXCEPT ![g.lock] = TRUE]
                                            ELSE writeLocked,
         numReaders' = IF g.mode = "read" THEN [numReaders EXCEPT ![g.lock] = @ + 1]
                                          ELSE numReaders
  PROVE  /\ FieldsInv' /\ writeLocked' \in [RwLocks -> BOOLEAN]
         /\ numReaders' \in [RwLocks -> Nat]
<1>1. PICK n \in Nat : n = Len(guards[t]) /\ n + 1 \in Nat \ {0}
  BY DEF GuardsTypeOK
<1>2. guards[t] \in Seq(Guard)
  BY DEF GuardsTypeOK
<1>3. /\ Len(guards'[t]) = n + 1 /\ guards'[t][n + 1] = g
      /\ \A k \in 1..n : guards'[t][k] = guards[t][k]
  BY <1>1, <1>2, AppendProperties
<1>4. PICK z : z = <<t, n + 1>>
  OBVIOUS
<1>5. z \in Places' /\ z \notin Places /\ At(z)' = g
  BY <1>1, <1>3, <1>4 DEF Places, At
<1>6. ASSUME NEW x, x # z PROVE (x \in Places' <=> x \in Places) /\ (x \in Places => At(x)' = At(x))
  <2>1. x \in Places' <=> x \in Places
    <3>1. CASE ~(x \in Threads \X (Nat \ {0}))
      BY <3>1 DEF Places
    <3>2. CASE x \in Threads \X (Nat \ {0})
      <4>1. PICK u \in Threads, k \in Nat \ {0} : x = <<u, k>>
        BY <3>2
      <4>2. k <= Len(guards'[u]) <=> k <= Len(guards[u])
        BY <1>1, <1>3, <1>4, <1>6, <4>1
      <4>3. QED
        BY <4>1, <4>2 DEF Places
    <3>3. QED
      BY <3>1, <3>2
  <2>2. ASSUME x \in Places PROVE At(x)' = At(x)
    <3>1. PICK u \in Threads, k \in Nat \ {0} : x = <<u, k>> /\ k <= Len(guards[u])
      BY <2>2 DEF Places
    <3>2. guards'[u][k] = guards[u][k]
      BY <1>1, <1>3, <3>1
    <3>3. QED
      BY <3>1, <3>2 DEF At
  <2>3. QED
    BY <2>1, <2>2
<1>7. /\ writeLocked \in [RwLocks -> BOOLEAN] /\ numReaders \in [RwLocks -> Nat]
      /\ g.mode \in {"read", "write"} <=> g.lock \in RwLocks
      /\ g.mode \in {"lock", "read", "write"}
  BY GuardsAssumption DEF GuardsTypeOK, Modes, Guard, Locks
<1>8. ASSUME NEW l \in RwLocks
      PROVE  /\ IsFiniteSet(ReadersOf(l)') /\ numReaders'[l] = Cardinality(ReadersOf(l)')
             /\ writeLocked'[l] <=> \E x \in GuardsOf(l)' : At(x)'.mode # "read"
             /\ \A x, y \in GuardsOf(l)' : At(x)'.mode # "read" => x = y
             /\ numReaders'[l] \in Nat /\ writeLocked'[l] \in BOOLEAN
  <2>1. /\ IsFiniteSet(ReadersOf(l)) /\ numReaders[l] = Cardinality(ReadersOf(l))
        /\ writeLocked[l] <=> \E x \in GuardsOf(l) : At(x).mode # "read"
        /\ \A x, y \in GuardsOf(l) : At(x).mode # "read" => x = y
        /\ numReaders[l] \in Nat /\ writeLocked[l] \in BOOLEAN
    BY <1>7 DEF FieldsInv
  <2>3. /\ \A x : x \in GuardsOf(l)' <=> x \in Places' /\ At(x)'.lock = l
        /\ \A x : x \in GuardsOf(l) <=> x \in Places /\ At(x).lock = l
        /\ \A x : x \in ReadersOf(l)' <=> x \in GuardsOf(l)' /\ At(x)'.mode = "read"
        /\ \A x : x \in ReadersOf(l) <=> x \in GuardsOf(l) /\ At(x).mode = "read"
    BY DEF GuardsOf, ReadersOf
  <2>4. \A x : x # z => /\ x \in GuardsOf(l)' <=> x \in GuardsOf(l)
                        /\ x \in ReadersOf(l)' <=> x \in ReadersOf(l)
                        /\ x \in GuardsOf(l) => At(x)' = At(x)
    BY <1>6, <2>3
  <2>5. z \notin GuardsOf(l) /\ z \notin ReadersOf(l)
    BY <1>5, <2>3
  <2>6. CASE g.lock # l
    <3>1. z \notin GuardsOf(l)' /\ z \notin ReadersOf(l)'
      BY <1>5, <2>3, <2>6
    <3>2. ReadersOf(l)' = ReadersOf(l) /\ GuardsOf(l)' = GuardsOf(l)
      <4>1. \A x : /\ x \in ReadersOf(l)' <=> x \in ReadersOf(l)
                   /\ x \in GuardsOf(l)' <=> x \in GuardsOf(l)
        BY <2>4, <2>5, <3>1
      <4>2. QED
        BY <4>1, Zenon
    <3>3. numReaders'[l] = numReaders[l] /\ writeLocked'[l] = writeLocked[l]
      BY <1>7, <2>6
    <3>4. \A x \in GuardsOf(l) : At(x)' = At(x)
      BY <2>4, <2>5
    <3>5. QED
      BY <2>1, <3>2, <3>3, <3>4
  <2>7. CASE g.lock = l /\ g.mode = "read"
    <3>1. z \in ReadersOf(l)' /\ z \in GuardsOf(l)'
      BY <1>5, <2>3, <2>7
    <3>2. ReadersOf(l)' = ReadersOf(l) \cup {z}
      BY <2>4, <3>1
    <3>3. IsFiniteSet(ReadersOf(l)') /\ Cardinality(ReadersOf(l)') = Cardinality(ReadersOf(l)) + 1
      BY <2>1, <2>5, <3>2, FS_AddElement
    <3>4. numReaders'[l] = numReaders[l] + 1 /\ writeLocked'[l] = writeLocked[l] /\ ~writeLocked[l]
      BY <1>7, <2>7 DEF Recursive
    <3>5. \A x \in GuardsOf(l)' : At(x)'.mode = "read"
      BY <1>5, <2>1, <2>4, <2>7, <3>4
    <3>6. numReaders'[l] = Cardinality(ReadersOf(l)') /\ numReaders'[l] \in Nat
      BY <2>1, <3>3, <3>4
    <3>7. writeLocked'[l] \in BOOLEAN
      BY <2>1, <3>4
    <3>8. QED
      BY <3>3, <3>4, <3>5, <3>6, <3>7, Zenon
  <2>8. CASE g.lock = l /\ g.mode = "write"
    <3>1. /\ z \in GuardsOf(l)' /\ z \notin ReadersOf(l)' /\ At(z)'.mode # "read"
      BY <1>5, <2>3, <2>8
    <3>2. numReaders'[l] = 0 /\ numReaders[l] = 0 /\ writeLocked'[l] = TRUE /\ ~writeLocked[l]
      BY <1>7, <2>8 DEF Recursive
    <3>3. ReadersOf(l) = {}
      BY <2>1, <3>2, FS_EmptySet
    <3>4. GuardsOf(l) = {}
      BY <2>1, <2>3, <3>2, <3>3
    <3>5. \A x \in GuardsOf(l)' : x = z
      BY <2>4, <3>4
    <3>6. ReadersOf(l)' = {}
      BY <2>3, <3>1, <3>5
    <3>7. IsFiniteSet(ReadersOf(l)') /\ numReaders'[l] = Cardinality(ReadersOf(l)')
      BY <3>2, <3>6, FS_EmptySet
    <3>8. \A x, y \in GuardsOf(l)' : x = y
      BY <3>5, Zenon
    <3>9. \E x \in GuardsOf(l)' : At(x)'.mode # "read"
      BY <3>1, Zenon
    <3>10. writeLocked'[l] /\ writeLocked'[l] \in BOOLEAN
      BY <3>2, Zenon
    <3>11. numReaders'[l] \in Nat
      BY <3>2
    <3>12. QED
      BY <3>7, <3>8, <3>9, <3>10, <3>11, Zenon
  <2>9. QED
    BY <1>7, <2>6, <2>7, <2>8
<1>9. writeLocked' \in [RwLocks -> BOOLEAN] /\ numReaders' \in [RwLocks -> Nat]
  <2>1. /\ writeLocked' = [l \in RwLocks |-> writeLocked'[l]]
        /\ numReaders' = [l \in RwLocks |-> numReaders'[l]]
    BY <1>7
  <2>2. QED
    BY <1>8, <2>1
<1>10. QED
  BY <1>8, <1>9 DEF FieldsInv

\* While the guards are the same, so is what is counted of them.
LEMMA SameGuards ==
  ASSUME guards' = guards
  PROVE  /\ \A u, l : Indices(u, l)' = Indices(u, l)
         /\ FieldsInv /\ writeLocked' = writeLocked /\ numReaders' = numReaders => FieldsInv'
<1>1. \A u, l : Indices(u, l)' = Indices(u, l)
  BY DEF Indices
<1>2. Places' = Places /\ \A x : At(x)' = At(x)
  BY DEF Places, At
<1>3. \A l : GuardsOf(l)' = GuardsOf(l)
  BY <1>2 DEF GuardsOf
<1>4. \A l : ReadersOf(l)' = ReadersOf(l)
  BY <1>2, <1>3 DEF ReadersOf
<1>5. ASSUME FieldsInv, writeLocked' = writeLocked, numReaders' = numReaders PROVE FieldsInv'
  BY <1>2, <1>3, <1>4, <1>5 DEF FieldsInv
<1>6. QED
  BY <1>1, <1>5

\* A panic marks what its thread holds for writing.
LEMMA PanicTaints ==
  ASSUME GuardsTypeOK, TaintInv, NEW t \in Threads, Panic(t), guards' = guards, failed' = failed
  PROVE  /\ TaintInv' /\ panicking' \in [Threads -> BOOLEAN] /\ aborted' \in BOOLEAN
         /\ tainted' \in SUBSET Locks
<1>1. /\ guards \in [Threads -> Seq(Guard)] /\ panicking \in [Threads -> BOOLEAN]
      /\ tainted \in SUBSET Locks /\ aborted \in BOOLEAN
  BY DEF GuardsTypeOK
<1>2. CASE panicking[t]
  BY <1>1, <1>2 DEF Panic, TaintInv, Marks
<1>3. CASE ~panicking[t]
  <2>1. /\ panicking' = [panicking EXCEPT ![t] = TRUE] /\ aborted' = aborted
        /\ tainted' = tainted \cup {guards[t][i].lock : i \in
                        {j \in 1..Len(guards[t]) : guards[t][j].mode # "read"}}
    BY <1>3 DEF Panic
  <2>2. /\ tainted' \in SUBSET Locks /\ tainted \subseteq tainted'
        /\ \A i \in 1..Len(guards[t]) : guards[t][i].mode # "read" => guards[t][i].lock \in tainted'
        /\ \A l \in tainted' : l \in tainted \/ \E i \in 1..Len(guards[t]) :
                                 guards[t][i].mode # "read" /\ guards[t][i].lock = l
    <3>1. \A i \in 1..Len(guards[t]) : guards[t][i].lock \in Locks
      <4>1. guards[t] \in Seq(Guard)
        BY <1>1
      <4>2. \A i \in 1..Len(guards[t]) : guards[t][i] \in Guard
        BY <4>1
      <4>3. QED
        BY <4>2 DEF Guard
    <3>2. QED
      BY <1>1, <2>1, <3>1
  <2>3. /\ panicking'[t] = TRUE /\ \A u \in Threads : u # t => panicking'[u] = panicking[u]
        /\ panicking' \in [Threads -> BOOLEAN]
    BY <1>1, <2>1
  <2>4. ASSUME NEW u \in Threads, NEW i \in 1..Len(guards[u])
        PROVE  /\ guards[u][i].panicking => panicking'[u]
               /\ Marks(guards[u][i], panicking'[u]) => guards[u][i].lock \in tainted'
    BY <2>2, <2>3 DEF TaintInv, Marks
  <2>5. \A l \in Locks : failed[l] => l \in tainted'
    BY <2>2 DEF TaintInv
  <2>6. ASSUME NEW l \in tainted'
        PROVE  failed[l] \/ \E u \in Threads : \E i \in 1..Len(guards[u]) :
                 guards[u][i].lock = l /\ Marks(guards[u][i], panicking'[u])
    <3>1. CASE l \in tainted
      <4>1. ASSUME NEW u \in Threads, panicking[u] PROVE panicking'[u]
        BY <2>3, <4>1
      <4>2. QED
        BY <3>1, <4>1 DEF TaintInv, Marks
    <3>2. CASE \E i \in 1..Len(guards[t]) : guards[t][i].mode # "read" /\ guards[t][i].lock = l
      <4>1. PICK i \in 1..Len(guards[t]) : guards[t][i].mode # "read" /\ guards[t][i].lock = l
        BY <3>2
      <4>2. ~guards[t][i].panicking
        BY <1>3 DEF TaintInv
      <4>3. Marks(guards[t][i], panicking'[t])
        BY <2>3, <4>1, <4>2 DEF Marks
      <4>4. QED
        BY <4>1, <4>3
    <3>3. QED
      BY <2>2, <3>1, <3>2
  <2>7. TaintInv'
    BY <2>4, <2>5, <2>6 DEF TaintInv, Marks
  <2>8. QED
    BY <1>1, <2>1, <2>2, <2>3, <2>7
<1>4. QED
  BY <1>2, <1>3

\* Without a panic nothing is marked.
LEMMA NoPanicTaints ==
  ASSUME TaintInv, NoPanic, guards' = guards, failed' = failed
  PROVE  TaintInv'
  BY DEF TaintInv, NoPanic, Marks

\* pthread lets a thread have a mutex that nobody has.
LEMMA MutexFree ==
  ASSUME GuardsTypeOK, NEW t \in Threads, NEW l \in Mutexes, NEW m, m # "read",
         Answers(t, l, m) # {}
  PROVE  \A u \in Threads : raw[l][u] = 0
<1>1. \A u \in Threads : raw[l][u] \in Nat
  BY DEF GuardsTypeOK, Locks
<1>2. {u \in Threads \ {t} : raw[l][u] > 0} = {} /\ ~(raw[l][t] > 0)
  BY DEF Answers
<1>3. QED
  BY <1>1, <1>2

-----------------------------------------------------------------------------
(* Every step of the guards preserves the invariant *)

\* What pthread has counted agrees with the guards if it does for the thread that
\* takes the step, and nothing changed for the others.
LEMMA OthersCounted ==
  ASSUME RawInv, NEW t \in Threads,
         \A u \in Threads : u # t => tpc'[u] = tpc[u] /\ req'[u] = req[u] /\ guards'[u] = guards[u],
         \A l \in Locks : \A u \in Threads : u # t => raw'[l][u] = raw[l][u],
         \A l \in Locks : raw'[l][t] =
           (IF Away(t, l)' THEN 0 ELSE Cardinality(Indices(t, l)')) + Pending(t, l)'
  PROVE  RawInv'
<1>1. ASSUME NEW l \in Locks, NEW u \in Threads
      PROVE  raw'[l][u] = (IF Away(u, l)' THEN 0 ELSE Cardinality(Indices(u, l)')) + Pending(u, l)'
  <2>1. CASE u = t
    BY <2>1
  <2>2. CASE u # t
    <3>1. Away(u, l)' = Away(u, l) /\ Pending(u, l)' = Pending(u, l)
      BY <2>2 DEF Away, Pending
    <3>2. Indices(u, l)' = Indices(u, l)
      BY <2>2 DEF Indices
    <3>3. QED
      BY <2>2, <3>1, <3>2 DEF RawInv
  <2>3. QED
    BY <2>1, <2>2
<1>2. QED
  BY <1>1 DEF RawInv

\* Threads that went on waiting on the condition variable kept their guards.
LEMMA WaitersStay ==
  ASSUME CondvarInv,
         \A u \in Threads : tpc'[u] = "cv" =>
           tpc[u] = "cv" /\ req'[u] = req[u] /\ guards'[u] = guards[u]
  PROVE  CondvarInv'
  BY DEF CondvarInv, Indices

\* lock, read, write and their try_ forms begin.
LEMMA CallKeeps == ASSUME GuardsInv, NEW t \in Threads, Call(t) PROVE GuardsInv'
<1>1. /\ tpc[t] = "run" /\ tpc' = [tpc EXCEPT ![t] = "acquire"] /\ calls < MaxCalls
      /\ calls' = calls + 1
      /\ raw' = raw /\ writer' = writer /\ writeLocked' = writeLocked
      /\ numReaders' = numReaders /\ failed' = failed /\ bound' = bound /\ guards' = guards
      /\ panicking' = panicking /\ aborted' = aborted /\ tainted' = tainted
  BY DEF Call, Goto, native, fields
<1>2. \E l \in Locks, try \in BOOLEAN : \E m \in Modes(l) :
        req' = [req EXCEPT ![t] = [lock |-> l, mode |-> m, try |-> try]]
  BY DEF Call
<1>a. PICK l \in Locks, try \in BOOLEAN : \E m \in Modes(l) :
        req' = [req EXCEPT ![t] = [lock |-> l, mode |-> m, try |-> try]]
  BY <1>2
<1>b. PICK m \in Modes(l) : req' = [req EXCEPT ![t] = [lock |-> l, mode |-> m, try |-> try]]
  BY <1>a
<1>3. PICK r \in Request : r = [lock |-> l, mode |-> m, try |-> try]
  BY DEF Modes, Request
<1>4. r.lock \in Locks /\ r.mode \in Modes(r.lock)
  BY <1>3
<1>5. req' = [req EXCEPT ![t] = r]
  BY <1>b, <1>3
<1>6. /\ tpc'[t] = "acquire" /\ req'[t] = r
      /\ \A u \in Threads : u # t => tpc'[u] = tpc[u] /\ req'[u] = req[u]
      /\ tpc' \in [Threads -> {"run", "acquire", "check", "release", "cv"}]
      /\ req' \in [Threads -> Request]
  BY <1>1, <1>5 DEF GuardsInv, GuardsTypeOK
<1>7. GuardsTypeOK'
  <2>1. calls' \in 0..MaxCalls
    BY <1>1, GuardsAssumption DEF GuardsInv, GuardsTypeOK
  <2>2. QED
    BY <1>1, <1>6, <2>1 DEF GuardsInv, GuardsTypeOK
<1>8. CallsInv'
  BY <1>1, <1>4, <1>6 DEF GuardsInv, CallsInv, Modes
<1>9. /\ \A u, k : Indices(u, k)' = Indices(u, k)
      /\ FieldsInv'
  BY <1>1, SameGuards DEF GuardsInv
<1>10. CondvarInv'
  BY <1>6, <1>9 DEF GuardsInv, CondvarInv
<1>11. RawInv'
  <2>1. \A k \in Locks : raw[k][t] = Cardinality(Indices(t, k)) + 0
    BY <1>1 DEF GuardsInv, RawInv, Away, Pending
  <2>2. \A k \in Locks : ~Away(t, k)' /\ Pending(t, k)' = 0
    BY <1>6 DEF Away, Pending
  <2>3. QED
    BY <1>1, <1>6, <1>9, <2>1, <2>2, OthersCounted DEF GuardsInv
<1>12. MutexInv'
  BY <1>1 DEF GuardsInv, MutexInv
<1>13. TaintInv'
  BY <1>1, NoPanicTaints DEF GuardsInv, NoPanic
<1>14. QED
  BY <1>7, <1>8, <1>9, <1>10, <1>11, <1>12, <1>13 DEF GuardsInv

\* pthread answers: the lock is granted and to be checked, or the call is over.
LEMMA AcquireKeeps == ASSUME GuardsInv, NEW t \in Threads, Acquire(t) PROVE GuardsInv'
<1>1. /\ tpc[t] = "acquire" /\ writeLocked' = writeLocked /\ numReaders' = numReaders
      /\ failed' = failed /\ bound' = bound /\ guards' = guards /\ req' = req /\ calls' = calls
  BY DEF Acquire, fields
<1>2. PICK l, m : l \in Locks /\ m \in Modes(l) /\ l = req[t].lock /\ m = req[t].mode
  BY <1>1 DEF GuardsInv, CallsInv
<1>3. /\ \A u, k : Indices(u, k)' = Indices(u, k)
      /\ FieldsInv'
  BY <1>1, SameGuards DEF GuardsInv
<1>4. GuardsTypeOK
  BY DEF GuardsInv
<1>5. \A k \in Locks : raw[k][t] = Cardinality(Indices(t, k)) + 0
  BY <1>1 DEF GuardsInv, RawInv, Away, Pending
<1>6. CASE "ok" \in Answers(t, l, m) /\ RawLock(t, l, m) /\ Goto(t, "check") /\ NoPanic
  <2>1. /\ tpc'[t] = "check" /\ \A u \in Threads : u # t => tpc'[u] = tpc[u]
        /\ tpc' \in [Threads -> {"run", "acquire", "check", "release", "cv"}]
    BY <1>4, <1>6 DEF GuardsTypeOK, Goto
  <2>2. /\ raw' = [raw EXCEPT ![l] = [raw[l] EXCEPT ![t] = raw[l][t] + 1]]
        /\ raw[l] \in [Threads -> Nat]
    BY <1>2, <1>4, <1>6 DEF GuardsTypeOK, RawLock
  <2>3. /\ raw' \in [Locks -> [Threads -> Nat]] /\ raw'[l][t] = raw[l][t] + 1
        /\ \A u \in Threads : u # t => raw'[l][u] = raw[l][u]
        /\ \A k \in Locks : k # l => raw'[k] = raw[k]
    BY <1>2, <1>4, <2>2 DEF GuardsTypeOK
  <2>4. writer' \in [Locks -> Threads \cup {Nobody}]
    BY <1>2, <1>4, <1>6 DEF GuardsTypeOK, RawLock
  <2>5. GuardsTypeOK'
    BY <1>1, <1>4, <1>6, <2>1, <2>3, <2>4 DEF GuardsTypeOK, NoPanic
  <2>6. CallsInv'
    BY <1>1, <1>2, <2>1 DEF GuardsInv, CallsInv, Modes
  <2>7. CondvarInv'
    BY <1>1, <1>3, <2>1 DEF GuardsInv, CondvarInv
  <2>8. RawInv'
    <3>1. \A k \in Locks : ~Away(t, k)' /\ Pending(t, k)' = IF k = l THEN 1 ELSE 0
      BY <1>1, <1>2, <2>1 DEF Away, Pending
    <3>2. \A k \in Locks : raw'[k][t] = Cardinality(Indices(t, k)) + IF k = l THEN 1 ELSE 0
      <4>1. ASSUME NEW k \in Locks PROVE Cardinality(Indices(t, k)) \in Nat
        BY <1>4, IndicesFinite DEF GuardsTypeOK
      <4>2. QED
        BY <1>5, <2>3, <4>1
    <3>3. \A k \in Locks : \A u \in Threads : u # t => raw'[k][u] = raw[k][u]
      BY <2>3
    <3>4. \A k \in Locks : raw'[k][t] =
            (IF Away(t, k)' THEN 0 ELSE Cardinality(Indices(t, k)')) + Pending(t, k)'
      BY <1>3, <3>1, <3>2
    <3>5. QED
      BY <1>1, <2>1, <3>3, <3>4, OthersCounted DEF GuardsInv
  <2>9. MutexInv'
    <3>1. ASSUME NEW k \in Mutexes, k = l PROVE \A u \in Threads : raw[l][u] = 0
      <4>1. l \in Mutexes /\ m # "read" /\ Answers(t, l, m) # {}
        BY <1>2, <1>6, <3>1 DEF Modes
      <4>2. QED
        BY <1>4, <4>1, MutexFree
    <3>2. QED
      BY <2>3, <3>1 DEF GuardsInv, MutexInv, Locks
  <2>10. TaintInv'
    BY <1>1, <1>6, NoPanicTaints DEF GuardsInv
  <2>11. QED
    BY <1>3, <2>5, <2>6, <2>7, <2>8, <2>9, <2>10 DEF GuardsInv
<1>7. CASE Goto(t, "run") /\ (Panic(t) \/ NoPanic) /\ UNCHANGED native
  <2>1. /\ tpc'[t] = "run" /\ \A u \in Threads : u # t => tpc'[u] = tpc[u]
        /\ tpc' \in [Threads -> {"run", "acquire", "check", "release", "cv"}]
    BY <1>4, <1>7 DEF GuardsTypeOK, Goto
  <2>2. raw' = raw /\ writer' = writer
    BY <1>7 DEF native
  <2>3. /\ TaintInv' /\ panicking' \in [Threads -> BOOLEAN] /\ aborted' \in BOOLEAN
        /\ tainted' \in SUBSET Locks
    <3>1. CASE Panic(t)
      BY <1>1, <1>4, <3>1, PanicTaints DEF GuardsInv
    <3>2. CASE NoPanic
      <4>1. TaintInv'
        BY <1>1, <3>2, NoPanicTaints DEF GuardsInv
      <4>2. QED
        BY <1>4, <3>2, <4>1 DEF GuardsTypeOK, NoPanic
    <3>3. QED
      BY <1>7, <3>1, <3>2
  <2>4. GuardsTypeOK'
    BY <1>1, <1>4, <2>1, <2>2, <2>3 DEF GuardsTypeOK
  <2>5. CallsInv'
    BY <1>1, <2>1 DEF GuardsInv, CallsInv, Modes
  <2>6. CondvarInv'
    BY <1>1, <1>3, <2>1 DEF GuardsInv, CondvarInv
  <2>7. RawInv'
    <3>1. \A k \in Locks : ~Away(t, k)' /\ Pending(t, k)' = 0
      BY <2>1 DEF Away, Pending
    <3>2. QED
      BY <1>1, <1>3, <1>5, <2>1, <2>2, <3>1, OthersCounted DEF GuardsInv
  <2>8. MutexInv'
    BY <2>2 DEF GuardsInv, MutexInv
  <2>9. QED
    BY <1>3, <2>3, <2>4, <2>5, <2>6, <2>7, <2>8 DEF GuardsInv
<1>8. QED
  BY <1>2, <1>6, <1>7 DEF Acquire

\* sys::RWLock gives a recursive lock back, and makes a guard otherwise.
LEMMA CheckKeeps == ASSUME GuardsInv, NEW t \in Threads, Check(t) PROVE GuardsInv'
<1>1. /\ tpc[t] = "check" /\ tpc' = [tpc EXCEPT ![t] = "run"]
      /\ failed' = failed /\ bound' = bound /\ req' = req /\ calls' = calls
  BY DEF Check, Goto
<1>2. PICK l, m : l \in Locks /\ m \in Modes(l) /\ l = req[t].lock /\ m = req[t].mode
  BY <1>1 DEF GuardsInv, CallsInv
<1>3. PICK g \in Guard : g = [lock |-> l, mode |-> m, panicking |-> panicking[t]]
  BY <1>2 DEF GuardsInv, GuardsTypeOK, Guard, Modes
<1>4. g.lock = l /\ g.mode = m /\ g.panicking = panicking[t]
  BY <1>3
<1>5. GuardsTypeOK /\ FieldsInv
  BY DEF GuardsInv
<1>6. /\ tpc'[t] = "run" /\ \A u \in Threads : u # t => tpc'[u] = tpc[u]
      /\ tpc' \in [Threads -> {"run", "acquire", "check", "release", "cv"}]
  BY <1>1, <1>5 DEF GuardsTypeOK
<1>7. \A k \in Locks : /\ Cardinality(Indices(t, k)) \in Nat
                       /\ raw[k][t] = Cardinality(Indices(t, k)) + IF k = l THEN 1 ELSE 0
                       /\ ~Away(t, k)' /\ Pending(t, k)' = 0
  <2>1. \A k \in Locks : ~Away(t, k) /\ Pending(t, k) = IF k = l THEN 1 ELSE 0
    BY <1>1, <1>2 DEF Away, Pending
  <2>2. \A k \in Locks : ~Away(t, k)' /\ Pending(t, k)' = 0
    BY <1>6 DEF Away, Pending
  <2>3. ASSUME NEW k \in Locks PROVE Cardinality(Indices(t, k)) \in Nat
    BY <1>5, IndicesFinite DEF GuardsTypeOK
  <2>4. QED
    BY <2>1, <2>2, <2>3 DEF GuardsInv, RawInv
<1>8. CASE Recursive(l, m)
  <2>1. /\ RawUnlock(t, l) /\ writeLocked' = writeLocked /\ numReaders' = numReaders
        /\ guards' = guards /\ (Panic(t) \/ NoPanic)
    BY <1>2, <1>8 DEF Check
  <2>2. /\ raw' = [raw EXCEPT ![l] = [raw[l] EXCEPT ![t] = raw[l][t] - 1]]
        /\ raw[l] \in [Threads -> Nat] /\ raw[l][t] - 1 \in Nat
    BY <1>2, <1>5, <1>7, <2>1 DEF GuardsTypeOK, RawUnlock
  <2>3. /\ raw' \in [Locks -> [Threads -> Nat]] /\ raw'[l][t] = raw[l][t] - 1
        /\ \A u \in Threads : u # t => raw'[l][u] = raw[l][u]
        /\ \A k \in Locks : k # l => raw'[k] = raw[k]
    BY <1>2, <1>5, <2>2 DEF GuardsTypeOK
  <2>4. writer' \in [Locks -> Threads \cup {Nobody}]
    BY <1>2, <1>5, <2>1 DEF GuardsTypeOK, RawUnlock
  <2>5. /\ TaintInv' /\ panicking' \in [Threads -> BOOLEAN] /\ aborted' \in BOOLEAN
        /\ tainted' \in SUBSET Locks
    <3>1. CASE Panic(t)
      BY <1>1, <1>5, <2>1, <3>1, PanicTaints DEF GuardsInv
    <3>2. CASE NoPanic
      <4>1. TaintInv'
        BY <1>1, <2>1, <3>2, NoPanicTaints DEF GuardsInv
      <4>2. QED
        BY <1>5, <3>2, <4>1 DEF GuardsTypeOK, NoPanic
    <3>3. QED
      BY <2>1, <3>1, <3>2
  <2>6. GuardsTypeOK'
    BY <1>1, <1>5, <1>6, <2>1, <2>3, <2>4, <2>5 DEF GuardsTypeOK
  <2>7. CallsInv'
    BY <1>1, <1>6, <2>1 DEF GuardsInv, CallsInv, Modes
  <2>8. (\A u, k : Indices(u, k)' = Indices(u, k)) /\ FieldsInv'
    BY <1>5, <2>1, SameGuards
  <2>9. CondvarInv'
    BY <1>1, <1>6, <2>8 DEF GuardsInv, CondvarInv
  <2>10. RawInv'
    <3>1. \A k \in Locks : raw'[k][t] = Cardinality(Indices(t, k))
      BY <1>7, <2>3
    <3>2. \A k \in Locks : \A u \in Threads : u # t => raw'[k][u] = raw[k][u]
      BY <2>3
    <3>3. \A k \in Locks : raw'[k][t] =
            (IF Away(t, k)' THEN 0 ELSE Cardinality(Indices(t, k)')) + Pending(t, k)'
      BY <1>7, <2>8, <3>1
    <3>4. QED
      BY <1>1, <1>6, <2>1, <3>2, <3>3, OthersCounted DEF GuardsInv
  <2>11. MutexInv'
    <3>1. l \notin Mutexes
      BY <1>8, GuardsAssumption DEF Recursive
    <3>2. \A k \in Mutexes : raw'[k] = raw[k]
      BY <2>3, <3>1 DEF Locks
    <3>3. QED
      BY <3>2 DEF GuardsInv, MutexInv
  <2>12. QED
    BY <2>5, <2>6, <2>7, <2>8, <2>9, <2>10, <2>11 DEF GuardsInv
<1>9. CASE ~Recursive(l, m)
  <2>1. /\ guards' = [guards EXCEPT ![t] = Append(guards[t], g)]
        /\ writeLocked' = IF m = "write" THEN [writeLocked EXCEPT ![l] = TRUE] ELSE writeLocked
        /\ numReaders' = IF m = "read" THEN [numReaders EXCEPT ![l] = @ + 1] ELSE numReaders
        /\ NoPanic /\ raw' = raw /\ writer' = writer
    BY <1>2, <1>3, <1>9 DEF Check, native
  <2>2. PICK n \in Nat : n = Len(guards[t])
    BY <1>5 DEF GuardsTypeOK
  <2>3. /\ guards'[t] = Append(guards[t], g) /\ guards[t] \in Seq(Guard)
        /\ \A u \in Threads : u # t => guards'[u] = guards[u]
    BY <1>5, <2>1 DEF GuardsTypeOK
  <2>4. /\ Append(guards[t], g) \in Seq(Guard) /\ Len(guards'[t]) = n + 1
        /\ guards'[t][n + 1] = g /\ \A k \in 1..n : guards'[t][k] = guards[t][k]
    BY <2>2, <2>3, AppendProperties
  <2>5. guards' \in [Threads -> Seq(Guard)]
    BY <1>5, <2>1, <2>4 DEF GuardsTypeOK
  <2>6. FieldsInv' /\ writeLocked' \in [RwLocks -> BOOLEAN] /\ numReaders' \in [RwLocks -> Nat]
    <3>1. ~Recursive(g.lock, g.mode) /\ g.mode \in Modes(g.lock)
      BY <1>2, <1>4, <1>9
    <3>2. /\ writeLocked' = IF g.mode = "write" THEN [writeLocked EXCEPT ![g.lock] = TRUE]
                                                ELSE writeLocked
          /\ numReaders' = IF g.mode = "read" THEN [numReaders EXCEPT ![g.lock] = @ + 1]
                                              ELSE numReaders
      BY <1>4, <2>1
    <3>3. QED
      BY <1>5, <2>3, <3>1, <3>2, AddFields
  <2>7. GuardsTypeOK'
    BY <1>1, <1>5, <1>6, <2>1, <2>5, <2>6 DEF GuardsTypeOK, NoPanic
  <2>8. \A k \in 1..Len(guards'[t]) : k = n + 1 \/ k \in 1..n
    BY <2>2, <2>4
  <2>9. CallsInv'
    <3>1. ASSUME NEW u \in Threads, NEW i \in 1..Len(guards'[u])
          PROVE  guards'[u][i].mode \in Modes(guards'[u][i].lock)
      <4>1. CASE u = t /\ i = n + 1
        BY <1>2, <1>4, <2>4, <4>1
      <4>2. CASE ~(u = t /\ i = n + 1)
        <5>1. guards'[u][i] = guards[u][i] /\ i \in 1..Len(guards[u])
          BY <2>2, <2>3, <2>4, <2>8, <4>2
        <5>2. QED
          BY <5>1 DEF GuardsInv, CallsInv
      <4>3. QED
        BY <4>1, <4>2
    <3>2. QED
      BY <1>1, <1>6, <3>1 DEF GuardsInv, CallsInv, Modes
  <2>10. \A k \in Locks : Indices(t, k)' = Indices(t, k) \cup (IF k = l THEN {n + 1} ELSE {})
    <3>1. SUFFICES ASSUME NEW k \in Locks
                   PROVE  Indices(t, k)' = Indices(t, k) \cup (IF k = l THEN {n + 1} ELSE {})
      OBVIOUS
    <3>2. /\ Indices(t, k) = {i \in 1..n : guards[t][i].lock = k}
          /\ Indices(t, k)' = {i \in 1..(n + 1) : guards'[t][i].lock = k}
      BY <2>2, <2>4 DEF Indices
    <3>3. \A i \in 1..(n + 1) : i \in 1..n \/ i = n + 1
      OBVIOUS
    <3>4. 1..n \subseteq 1..(n + 1) /\ n + 1 \in 1..(n + 1) /\ n + 1 \notin 1..n
      OBVIOUS
    <3>5. QED
      BY <1>4, <2>4, <3>2, <3>3, <3>4
  <2>11. RawInv'
    <3>1. ASSUME NEW k \in Locks PROVE raw[k][t] = Cardinality(Indices(t, k)')
      <4>1. IsFiniteSet(Indices(t, k))
        BY <2>2, IndicesFinite
      <4>2. n + 1 \notin Indices(t, k)
        BY <2>2 DEF Indices
      <4>3. CASE k = l
        <5>1. Indices(t, k)' = Indices(t, k) \cup {n + 1}
          BY <2>10, <4>3
        <5>2. Cardinality(Indices(t, k)') = Cardinality(Indices(t, k)) + 1
          BY <4>1, <4>2, <5>1, FS_AddElement
        <5>3. QED
          BY <1>7, <4>3, <5>2
      <4>4. CASE k # l
        <5>1. Indices(t, k)' = Indices(t, k)
          BY <2>10, <4>4
        <5>2. QED
          BY <1>7, <4>4, <5>1
      <4>5. QED
        BY <4>3, <4>4
    <3>2. \A k \in Locks : Cardinality(Indices(t, k)') \in Nat
      BY <1>5, <3>1 DEF GuardsTypeOK
    <3>3. \A k \in Locks : raw'[k][t] =
            (IF Away(t, k)' THEN 0 ELSE Cardinality(Indices(t, k)')) + Pending(t, k)'
      BY <1>7, <2>1, <3>1, <3>2
    <3>4. QED
      BY <1>1, <1>6, <2>1, <2>3, <3>3, OthersCounted DEF GuardsInv
  <2>12. CondvarInv'
    <3>1. \A u \in Threads : tpc'[u] = "cv" =>
            tpc[u] = "cv" /\ req'[u] = req[u] /\ guards'[u] = guards[u]
      BY <1>1, <1>6, <2>3
    <3>2. QED
      BY <3>1, WaitersStay DEF GuardsInv
  <2>13. MutexInv'
    BY <2>1 DEF GuardsInv, MutexInv
  <2>14. TaintInv'
    <3>0. panicking' = panicking /\ tainted' = tainted
      BY <2>1 DEF NoPanic
    <3>1. ASSUME NEW u \in Threads, NEW i \in 1..Len(guards'[u])
          PROVE  /\ guards'[u][i].panicking => panicking[u]
                 /\ Marks(guards'[u][i], panicking[u]) => guards'[u][i].lock \in tainted
      <4>1. CASE u = t /\ i = n + 1
        BY <1>4, <2>4, <4>1 DEF Marks
      <4>2. CASE ~(u = t /\ i = n + 1)
        <5>1. guards'[u][i] = guards[u][i] /\ i \in 1..Len(guards[u])
          BY <2>2, <2>3, <2>4, <2>8, <4>2
        <5>2. QED
          BY <5>1 DEF GuardsInv, TaintInv
      <4>3. QED
        BY <4>1, <4>2
    <3>2. ASSUME NEW k \in tainted, ~failed[k]
          PROVE  \E u \in Threads : \E i \in 1..Len(guards'[u]) :
                   guards'[u][i].lock = k /\ Marks(guards'[u][i], panicking[u])
      <4>1. PICK u \in Threads : \E i \in 1..Len(guards[u]) :
              guards[u][i].lock = k /\ Marks(guards[u][i], panicking[u])
        BY <3>2 DEF GuardsInv, TaintInv
      <4>2. PICK i \in 1..Len(guards[u]) :
              guards[u][i].lock = k /\ Marks(guards[u][i], panicking[u])
        BY <4>1
      <4>3. i \in 1..Len(guards'[u]) /\ guards'[u][i] = guards[u][i]
        <5>1. CASE u = t
          <6>1. i \in 1..n /\ i \in 1..(n + 1)
            BY <2>2, <5>1
          <6>2. QED
            BY <2>4, <5>1, <6>1
        <5>2. CASE u # t
          BY <2>3, <5>2
        <5>3. QED
          BY <5>1, <5>2
      <4>4. QED
        BY <4>2, <4>3
    <3>3. QED
      BY <1>1, <3>0, <3>1, <3>2 DEF GuardsInv, TaintInv
  <2>15. QED
    BY <2>6, <2>7, <2>9, <2>11, <2>12, <2>13, <2>14 DEF GuardsInv
<1>10. QED
  BY <1>8, <1>9

\* The guard is gone, the lock is marked if a panic began meanwhile, and pthread's
\* lock is about to be given back.
LEMMA DropGuardKeeps ==
  ASSUME GuardsInv, NEW t \in Threads, NEW i \in 1..Len(guards[t]), DropGuard(t, i)
  PROVE  GuardsInv'
<1>1. PICK g : g = guards[t][i]
  OBVIOUS
<1>2. /\ tpc[t] = "run" /\ (panicking[t] => i = Len(guards[t]))
      /\ guards' = [guards EXCEPT ![t] = SubSeq(@, 1, i - 1) \o SubSeq(@, i + 1, Len(@))]
      /\ failed' = IF Poisons(t, g) THEN [failed EXCEPT ![g.lock] = TRUE] ELSE failed
      /\ writeLocked' = IF g.mode = "write" THEN [writeLocked EXCEPT ![g.lock] = FALSE]
                                            ELSE writeLocked
      /\ numReaders' = IF g.mode = "read" THEN [numReaders EXCEPT ![g.lock] = @ - 1]
                                          ELSE numReaders
      /\ req' = [req EXCEPT ![t] = [lock |-> g.lock, mode |-> g.mode, try |-> FALSE]]
      /\ tpc' = [tpc EXCEPT ![t] = "release"] /\ bound' = bound /\ calls' = calls
      /\ panicking' = panicking /\ tainted' = tainted /\ aborted' = aborted
      /\ raw' = raw /\ writer' = writer
  BY <1>1 DEF DropGuard, Goto, NoPanic, native
<1>3. GuardsTypeOK /\ FieldsInv /\ CallsInv
  BY DEF GuardsInv
<1>4. guards[t] \in Seq(Guard) /\ g \in Guard /\ g.mode \in Modes(g.lock)
  BY <1>1, <1>3 DEF GuardsTypeOK, CallsInv
<1>5. g.lock \in Locks /\ g.mode \in {"lock", "read", "write"} /\ g.panicking \in BOOLEAN
  BY <1>4 DEF Guard
<1>6. /\ guards' \in [Threads -> Seq(Guard)]
      /\ \A u \in Threads : u # t => guards'[u] = guards[u]
      /\ Len(guards'[t]) = Len(guards[t]) - 1
      /\ \A k \in 1..Len(guards'[t]) : guards'[t][k] = guards[t][IF k < i THEN k ELSE k + 1]
  BY <1>2, <1>3, Drops
<1>7. FieldsInv' /\ writeLocked' \in [RwLocks -> BOOLEAN] /\ numReaders' \in [RwLocks -> Nat]
  <2>1. /\ writeLocked' = IF g.mode = "write" THEN [writeLocked EXCEPT ![g.lock] = FALSE]
                                              ELSE writeLocked
        /\ numReaders' = IF g.mode = "read" THEN [numReaders EXCEPT ![g.lock] = @ - 1]
                                            ELSE numReaders
    BY <1>2
  <2>2. QED
    BY <1>1, <1>3, <1>6, <2>1, DropFields, ZenonT(40)
<1>8. PICK r \in Request : r = [lock |-> g.lock, mode |-> g.mode, try |-> FALSE]
  BY <1>5 DEF Request
<1>9. /\ tpc'[t] = "release" /\ req'[t] = r /\ r.lock = g.lock /\ r.mode = g.mode
      /\ \A u \in Threads : u # t => tpc'[u] = tpc[u] /\ req'[u] = req[u]
      /\ tpc' \in [Threads -> {"run", "acquire", "check", "release", "cv"}]
      /\ req' \in [Threads -> Request]
  <2>1. req' = [req EXCEPT ![t] = r] /\ r.lock = g.lock /\ r.mode = g.mode
    BY <1>2, <1>8
  <2>2. /\ req \in [Threads -> Request] /\ tpc' = [tpc EXCEPT ![t] = "release"]
        /\ tpc \in [Threads -> {"run", "acquire", "check", "release", "cv"}]
    BY <1>2, <1>3 DEF GuardsTypeOK
  <2>3. QED
    BY <2>1, <2>2
<1>10. /\ failed' \in [Locks -> BOOLEAN]
       /\ \A k \in Locks : failed'[k] <=> failed[k] \/ (k = g.lock /\ Poisons(t, g))
  BY <1>2, <1>3, <1>5 DEF GuardsTypeOK
<1>11. GuardsTypeOK'
  BY <1>2, <1>3, <1>6, <1>7, <1>9, <1>10 DEF GuardsTypeOK
<1>12. PICK n \in Nat : n = Len(guards[t]) /\ i \in 1..n /\ Len(guards'[t]) = n - 1
  BY <1>4, <1>6
<1>13. ASSUME NEW u \in Threads, NEW k \in 1..Len(guards'[u])
       PROVE  \E j \in 1..Len(guards[u]) : guards'[u][k] = guards[u][j]
  <2>1. CASE u # t
    BY <1>6, <2>1
  <2>2. CASE u = t
    <3>1. (IF k < i THEN k ELSE k + 1) \in 1..Len(guards[t])
      BY <1>12, <2>2
    <3>2. QED
      BY <1>6, <2>2, <3>1
  <2>3. QED
    BY <2>1, <2>2
<1>14. CallsInv'
  <2>1. ASSUME NEW u \in Threads, NEW k \in 1..Len(guards'[u])
        PROVE  guards'[u][k].mode \in Modes(guards'[u][k].lock)
    BY <1>3, <1>13 DEF CallsInv
  <2>2. ASSUME NEW u \in Threads, tpc'[u] # "run"
        PROVE  req'[u].lock \in Locks /\ req'[u].mode \in Modes(req'[u].lock)
    BY <1>3, <1>4, <1>5, <1>9, <2>2 DEF CallsInv
  <2>3. QED
    BY <2>1, <2>2 DEF CallsInv, Modes
<1>15. CondvarInv'
  <2>1. \A u \in Threads : tpc'[u] = "cv" =>
          tpc[u] = "cv" /\ req'[u] = req[u] /\ guards'[u] = guards[u]
    BY <1>6, <1>9
  <2>2. QED
    BY <2>1, WaitersStay DEF GuardsInv
<1>16. RawInv'
  <2>1. ASSUME NEW k \in Locks
        PROVE  raw'[k][t] = (IF Away(t, k)' THEN 0 ELSE Cardinality(Indices(t, k)')) + Pending(t, k)'
    <3>1. raw[k][t] = Cardinality(Indices(t, k)) + 0 /\ Cardinality(Indices(t, k)) \in Nat
      <4>1. ~Away(t, k) /\ Pending(t, k) = 0
        BY <1>2 DEF Away, Pending
      <4>2. Cardinality(Indices(t, k)) \in Nat
        BY <1>12, IndicesFinite
      <4>3. QED
        BY <4>1, <4>2 DEF GuardsInv, RawInv
    <3>2. ~Away(t, k)' /\ Pending(t, k)' = IF g.lock = k THEN 1 ELSE 0
      BY <1>9 DEF Away, Pending
    <3>3. Cardinality(Indices(t, k)') =
            Cardinality(Indices(t, k)) - (IF g.lock = k THEN 1 ELSE 0)
      BY <1>1, <1>3, <1>6, DropIndices
    <3>4. QED
      BY <1>2, <3>1, <3>2, <3>3
  <2>2. QED
    BY <1>2, <1>6, <1>9, <2>1, OthersCounted DEF GuardsInv
<1>17. MutexInv'
  BY <1>2 DEF GuardsInv, MutexInv
<1>18. TaintInv'
  <2>1. ASSUME NEW u \in Threads, NEW k \in 1..Len(guards'[u])
        PROVE  /\ guards'[u][k].panicking => panicking[u]
               /\ Marks(guards'[u][k], panicking[u]) => guards'[u][k].lock \in tainted
    BY <1>13 DEF GuardsInv, TaintInv
  <2>2. Poisons(t, g) => g.lock \in tainted
    <3>1. Poisons(t, g) => Marks(guards[t][i], panicking[t])
      BY <1>1 DEF Poisons, Marks
    <3>2. QED
      BY <1>1, <3>1 DEF GuardsInv, TaintInv
  <2>3. \A k \in Locks : failed'[k] => k \in tainted
    BY <1>10, <2>2 DEF GuardsInv, TaintInv
  <2>4. ASSUME NEW k \in tainted, ~failed'[k]
        PROVE  \E u \in Threads : \E j \in 1..Len(guards'[u]) :
                 guards'[u][j].lock = k /\ Marks(guards'[u][j], panicking[u])
    <3>0. k \in Locks
      BY <1>3 DEF GuardsTypeOK
    <3>1. PICK u \in Threads : \E j \in 1..Len(guards[u]) :
            guards[u][j].lock = k /\ Marks(guards[u][j], panicking[u])
      BY <2>4, <1>10, <3>0 DEF GuardsInv, TaintInv
    <3>2. PICK j \in 1..Len(guards[u]) :
            guards[u][j].lock = k /\ Marks(guards[u][j], panicking[u])
      BY <3>1
    <3>3. CASE u # t
      BY <1>6, <3>2, <3>3
    <3>4. CASE u = t
      <4>1. j # i
        <5>1. SUFFICES ASSUME j = i PROVE FALSE
          OBVIOUS
        <5>2. k = g.lock /\ Poisons(t, g)
          BY <1>1, <3>2, <3>4, <5>1 DEF Poisons, Marks
        <5>3. QED
          BY <1>10, <2>4, <3>0, <5>2
      <4>2. panicking[t] /\ i = n
        BY <1>2, <1>12, <3>2, <3>4 DEF Marks
      <4>3. j \in 1..Len(guards'[t]) /\ j < i
        BY <1>12, <3>4, <4>1, <4>2
      <4>4. guards'[t][j] = guards[t][j]
        BY <1>6, <4>3
      <4>5. QED
        BY <3>2, <3>4, <4>3, <4>4
    <3>5. QED
      BY <3>3, <3>4
  <2>5. \A k \in tainted : failed'[k] \/ \E u \in Threads : \E j \in 1..Len(guards'[u]) :
          guards'[u][j].lock = k /\ Marks(guards'[u][j], panicking[u])
    BY <2>4, Zenon
  <2>6. panicking' = panicking /\ tainted' = tainted
    BY <1>2
  <2>7. QED
    BY <2>1, <2>3, <2>5, <2>6, Zenon DEF TaintInv, Marks
<1>19. QED
  BY <1>7, <1>11, <1>14, <1>15, <1>16, <1>17, <1>18 DEF GuardsInv

\* pthread's lock is given back after the guard is gone.
LEMMA ReleaseKeeps == ASSUME GuardsInv, NEW t \in Threads, Release(t) PROVE GuardsInv'
<1>1. /\ tpc[t] = "release" /\ tpc' = [tpc EXCEPT ![t] = "run"]
      /\ writeLocked' = writeLocked /\ numReaders' = numReaders /\ failed' = failed
      /\ bound' = bound /\ guards' = guards /\ panicking' = panicking /\ aborted' = aborted
      /\ tainted' = tainted /\ req' = req /\ calls' = calls
  BY DEF Release, Goto, fields
<1>2. PICK l : l \in Locks /\ l = req[t].lock
  BY <1>1 DEF GuardsInv, CallsInv
<1>3. RawUnlock(t, l) /\ GuardsTypeOK /\ FieldsInv
  BY <1>2 DEF Release, GuardsInv
<1>4. /\ tpc'[t] = "run" /\ \A u \in Threads : u # t => tpc'[u] = tpc[u]
      /\ tpc' \in [Threads -> {"run", "acquire", "check", "release", "cv"}]
  BY <1>1, <1>3 DEF GuardsTypeOK
<1>5. \A k \in Locks : /\ Cardinality(Indices(t, k)) \in Nat
                       /\ raw[k][t] = Cardinality(Indices(t, k)) + IF k = l THEN 1 ELSE 0
                       /\ ~Away(t, k)' /\ Pending(t, k)' = 0
  <2>1. \A k \in Locks : ~Away(t, k) /\ Pending(t, k) = IF k = l THEN 1 ELSE 0
    BY <1>1, <1>2 DEF Away, Pending
  <2>2. \A k \in Locks : ~Away(t, k)' /\ Pending(t, k)' = 0
    BY <1>4 DEF Away, Pending
  <2>3. ASSUME NEW k \in Locks PROVE Cardinality(Indices(t, k)) \in Nat
    BY <1>3, IndicesFinite DEF GuardsTypeOK
  <2>4. QED
    BY <2>1, <2>2, <2>3 DEF GuardsInv, RawInv
<1>6. /\ raw' = [raw EXCEPT ![l] = [raw[l] EXCEPT ![t] = raw[l][t] - 1]]
      /\ raw[l] \in [Threads -> Nat] /\ raw[l][t] - 1 \in Nat
  BY <1>2, <1>3, <1>5 DEF GuardsTypeOK, RawUnlock
<1>7. /\ raw' \in [Locks -> [Threads -> Nat]] /\ raw'[l][t] = raw[l][t] - 1
      /\ \A u \in Threads : u # t => raw'[l][u] = raw[l][u]
      /\ \A k \in Locks : k # l => raw'[k] = raw[k]
  BY <1>2, <1>3, <1>6 DEF GuardsTypeOK
<1>8. writer' \in [Locks -> Threads \cup {Nobody}]
  BY <1>2, <1>3 DEF GuardsTypeOK, RawUnlock
<1>9. GuardsTypeOK'
  BY <1>1, <1>3, <1>4, <1>7, <1>8 DEF GuardsTypeOK
<1>10. CallsInv'
  BY <1>1, <1>4 DEF GuardsInv, CallsInv, Modes
<1>11. (\A u, k : Indices(u, k)' = Indices(u, k)) /\ FieldsInv'
  BY <1>1, <1>3, SameGuards
<1>12. CondvarInv'
  BY <1>1, <1>4, WaitersStay DEF GuardsInv
<1>13. RawInv'
  <2>1. \A k \in Locks : raw'[k][t] = Cardinality(Indices(t, k))
    BY <1>5, <1>7
  <2>2. \A k \in Locks : \A u \in Threads : u # t => raw'[k][u] = raw[k][u]
    BY <1>7
  <2>3. \A k \in Locks : raw'[k][t] =
          (IF Away(t, k)' THEN 0 ELSE Cardinality(Indices(t, k)')) + Pending(t, k)'
    BY <1>5, <1>11, <2>1
  <2>4. QED
    BY <1>1, <1>4, <2>2, <2>3, OthersCounted DEF GuardsInv
<1>14. MutexInv'
  <2>1. \A k \in Mutexes : \A u \in Threads :
          raw[k][u] \in Nat /\ (raw'[k][u] = raw[k][u] \/ (raw'[k][u] = raw[k][u] - 1 /\ raw[k][u] # 0))
    BY <1>3, <1>6, <1>7 DEF GuardsTypeOK, Locks
  <2>2. \A k \in Mutexes : \A u \in Threads :
          raw'[k][u] <= 1 /\ (raw'[k][u] # 0 => raw[k][u] # 0)
    BY <2>1 DEF GuardsInv, MutexInv
  <2>3. QED
    BY <2>2 DEF GuardsInv, MutexInv
<1>15. TaintInv'
  BY <1>1, NoPanicTaints DEF GuardsInv, NoPanic
<1>16. QED
  BY <1>9, <1>10, <1>11, <1>12, <1>13, <1>14, <1>15 DEF GuardsInv

\* A panic of the thread's own code, and the end of one.
LEMMA PanicKeeps ==
  ASSUME GuardsInv, NEW t \in Threads, UserPanic(t) \/ Caught(t) PROVE GuardsInv'
<1>1. /\ tpc[t] = "run" /\ raw' = raw /\ writer' = writer /\ writeLocked' = writeLocked
      /\ numReaders' = numReaders /\ failed' = failed /\ bound' = bound /\ guards' = guards
      /\ tpc' = tpc /\ req' = req
  BY DEF UserPanic, Caught, native, fields
<1>2. GuardsTypeOK /\ TaintInv
  BY DEF GuardsInv
<1>3. /\ TaintInv' /\ panicking' \in [Threads -> BOOLEAN] /\ aborted' \in BOOLEAN
      /\ tainted' \in SUBSET Locks /\ calls' \in 0..MaxCalls
  <2>1. CASE UserPanic(t)
    <3>1. Panic(t) /\ calls' = calls + 1 /\ calls < MaxCalls
      BY <2>1 DEF UserPanic
    <3>2. calls' \in 0..MaxCalls
      BY <1>2, <3>1, GuardsAssumption DEF GuardsTypeOK
    <3>3. QED
      BY <1>1, <1>2, <3>1, <3>2, PanicTaints
  <2>2. CASE Caught(t)
    <3>1. /\ guards[t] = <<>> /\ panicking' = [panicking EXCEPT ![t] = FALSE]
          /\ aborted' = aborted /\ tainted' = tainted /\ calls' = calls
      BY <2>2 DEF Caught
    <3>2. /\ panicking' \in [Threads -> BOOLEAN]
          /\ \A u \in Threads : u # t => panicking'[u] = panicking[u]
          /\ \A i : i \notin 1..Len(guards[t])
      BY <1>2, <3>1 DEF GuardsTypeOK
    <3>3. ASSUME NEW u \in Threads, NEW i \in 1..Len(guards[u])
          PROVE  u # t /\ panicking'[u] = panicking[u]
      BY <3>2
    <3>4. TaintInv'
      <4>1. /\ \A l \in Locks : failed[l] => l \in tainted
            /\ \A u \in Threads : \A i \in 1..Len(guards[u]) :
                 /\ guards[u][i].panicking => panicking'[u]
                 /\ Marks(guards[u][i], panicking'[u]) => guards[u][i].lock \in tainted
        BY <1>2, <3>3 DEF TaintInv
      <4>2. ASSUME NEW l \in tainted, ~failed[l]
            PROVE  \E u \in Threads : \E i \in 1..Len(guards[u]) :
                     guards[u][i].lock = l /\ Marks(guards[u][i], panicking'[u])
        <5>1. PICK u \in Threads : \E i \in 1..Len(guards[u]) :
                guards[u][i].lock = l /\ Marks(guards[u][i], panicking[u])
          BY <1>2, <4>2 DEF TaintInv
        <5>2. PICK i \in 1..Len(guards[u]) :
                guards[u][i].lock = l /\ Marks(guards[u][i], panicking[u])
          BY <5>1
        <5>3. panicking'[u] = panicking[u]
          BY <3>3
        <5>4. QED
          BY <5>2, <5>3
      <4>3. QED
        BY <1>1, <3>1, <4>1, <4>2 DEF TaintInv, Marks
    <3>5. QED
      BY <1>2, <3>1, <3>2, <3>4 DEF GuardsTypeOK
  <2>3. QED
    BY <2>1, <2>2
<1>4. GuardsTypeOK'
  BY <1>1, <1>2, <1>3 DEF GuardsTypeOK
<1>5. CallsInv'
  BY <1>1 DEF GuardsInv, CallsInv, Modes
<1>6. (\A u, k : Indices(u, k)' = Indices(u, k)) /\ FieldsInv'
  BY <1>1, SameGuards DEF GuardsInv
<1>7. CondvarInv'
  BY <1>1, WaitersStay DEF GuardsInv
<1>8. RawInv'
  BY <1>1, <1>6 DEF GuardsInv, RawInv, Away, Pending
<1>9. MutexInv'
  BY <1>1 DEF GuardsInv, MutexInv
<1>10. QED
  BY <1>3, <1>4, <1>5, <1>6, <1>7, <1>8, <1>9 DEF GuardsInv

\* Condvar::wait panics over a second mutex, or gives the mutex up.
LEMMA CvWaitKeeps ==
  ASSUME GuardsInv, NEW t \in Threads, NEW i \in 1..Len(guards[t]), CvWait(t, i)
  PROVE  GuardsInv'
<1>1. PICK m : m = guards[t][i].lock
  OBVIOUS
<1>2. /\ tpc[t] = "run" /\ guards[t][i].mode = "lock" /\ calls < MaxCalls /\ calls' = calls + 1
      /\ bound' = (IF bound = Nobody THEN m ELSE bound)
      /\ writeLocked' = writeLocked /\ numReaders' = numReaders /\ failed' = failed
      /\ guards' = guards
  BY <1>1 DEF CvWait, fields
<1>3. GuardsTypeOK /\ FieldsInv /\ TaintInv
  BY DEF GuardsInv
<1>4. m \in Mutexes /\ m \in Locks
  <2>1. guards[t][i] \in Guard /\ guards[t][i].mode \in Modes(m)
    <3>1. guards[t] \in Seq(Guard)
      BY <1>3 DEF GuardsTypeOK
    <3>2. guards[t][i] \in Guard
      BY <3>1
    <3>3. QED
      BY <1>1, <3>2 DEF GuardsInv, CallsInv
  <2>2. m \in Locks
    BY <1>1, <2>1 DEF Guard
  <2>3. QED
    BY <1>2, <2>1, <2>2 DEF Modes
<1>5. bound' \in Mutexes \cup {Nobody} /\ calls' \in 0..MaxCalls
  BY <1>2, <1>3, <1>4, GuardsAssumption DEF GuardsTypeOK
<1>6. (\A u, k : Indices(u, k)' = Indices(u, k)) /\ FieldsInv'
  BY <1>2, <1>3, SameGuards
<1>7. \A k \in Locks : /\ Cardinality(Indices(t, k)) \in Nat
                       /\ raw[k][t] = Cardinality(Indices(t, k))
  <2>1. \A k \in Locks : ~Away(t, k) /\ Pending(t, k) = 0
    BY <1>2 DEF Away, Pending
  <2>2. ASSUME NEW k \in Locks PROVE Cardinality(Indices(t, k)) \in Nat
    BY <1>3, IndicesFinite DEF GuardsTypeOK
  <2>3. QED
    BY <2>1, <2>2 DEF GuardsInv, RawInv
<1>8. CASE bound' # m
  <2>1. /\ Panic(t) /\ raw' = raw /\ writer' = writer /\ tpc' = tpc /\ req' = req
    BY <1>1, <1>8 DEF CvWait, native
  <2>2. /\ TaintInv' /\ panicking' \in [Threads -> BOOLEAN] /\ aborted' \in BOOLEAN
        /\ tainted' \in SUBSET Locks
    BY <1>2, <1>3, <2>1, PanicTaints
  <2>3. GuardsTypeOK'
    BY <1>2, <1>3, <1>5, <2>1, <2>2 DEF GuardsTypeOK
  <2>4. CallsInv'
    BY <1>2, <2>1 DEF GuardsInv, CallsInv, Modes
  <2>5. CondvarInv'
    BY <1>2, <2>1, WaitersStay DEF GuardsInv
  <2>6. RawInv'
    BY <1>6, <2>1 DEF GuardsInv, RawInv, Away, Pending
  <2>7. MutexInv'
    BY <2>1 DEF GuardsInv, MutexInv
  <2>8. QED
    BY <1>6, <2>2, <2>3, <2>4, <2>5, <2>6, <2>7 DEF GuardsInv
<1>9. CASE bound' = m
  <2>1. /\ RawUnlock(t, m) /\ tpc' = [tpc EXCEPT ![t] = "cv"] /\ NoPanic
        /\ req' = [req EXCEPT ![t] = [lock |-> m, mode |-> "lock", try |-> FALSE]]
    BY <1>1, <1>9 DEF CvWait, Goto
  <2>2. PICK r \in Request : r = [lock |-> m, mode |-> "lock", try |-> FALSE]
    BY <1>4 DEF Request
  <2>3. req' = [req EXCEPT ![t] = r] /\ r.lock = m /\ r.mode = "lock"
    BY <2>1, <2>2
  <2>4. /\ tpc'[t] = "cv" /\ req'[t] = r
        /\ \A u \in Threads : u # t => tpc'[u] = tpc[u] /\ req'[u] = req[u]
        /\ tpc' \in [Threads -> {"run", "acquire", "check", "release", "cv"}]
        /\ req' \in [Threads -> Request]
    BY <1>3, <2>1, <2>3 DEF GuardsTypeOK
  <2>5. Cardinality(Indices(t, m)) = 1 /\ raw[m][t] = 1
    <3>1. i \in Indices(t, m) /\ IsFiniteSet(Indices(t, m))
      <4>1. Len(guards[t]) \in Nat
        BY <1>3 DEF GuardsTypeOK
      <4>2. IsFiniteSet(Indices(t, m))
        BY <4>1, IndicesFinite
      <4>3. QED
        BY <1>1, <4>2 DEF Indices
    <3>2. Cardinality(Indices(t, m)) # 0
      BY <3>1, FS_EmptySet
    <3>3. raw[m][t] <= 1
      BY <1>4 DEF GuardsInv, MutexInv
    <3>4. QED
      BY <1>4, <1>7, <3>2, <3>3
  <2>6. /\ raw' = [raw EXCEPT ![m] = [raw[m] EXCEPT ![t] = 0]] /\ raw[m] \in [Threads -> Nat]
    BY <1>3, <1>4, <2>1, <2>5 DEF GuardsTypeOK, RawUnlock
  <2>7. /\ raw' \in [Locks -> [Threads -> Nat]] /\ raw'[m][t] = 0
        /\ \A u \in Threads : u # t => raw'[m][u] = raw[m][u]
        /\ \A k \in Locks : k # m => raw'[k] = raw[k]
    BY <1>3, <1>4, <2>6 DEF GuardsTypeOK
  <2>8. writer' \in [Locks -> Threads \cup {Nobody}]
    BY <1>3, <1>4, <2>1 DEF GuardsTypeOK, RawUnlock
  <2>9. GuardsTypeOK'
    BY <1>2, <1>3, <1>5, <2>1, <2>4, <2>7, <2>8 DEF GuardsTypeOK, NoPanic
  <2>10. CallsInv'
    <3>1. r.lock \in Locks /\ r.mode \in Modes(r.lock)
      BY <1>4, <2>3 DEF Modes
    <3>2. QED
      BY <1>2, <2>4, <3>1 DEF GuardsInv, CallsInv, Modes
  <2>11. CondvarInv'
    <3>1. ASSUME NEW u \in Threads, tpc'[u] = "cv"
          PROVE  \E k \in Mutexes : req'[u].lock = k /\ Cardinality(Indices(u, k)) = 1
      BY <1>4, <2>3, <2>4, <2>5, <3>1 DEF GuardsInv, CondvarInv
    <3>2. QED
      BY <1>6, <3>1 DEF CondvarInv
  <2>12. RawInv'
    <3>1. \A k \in Locks : (Away(t, k)' <=> k = m) /\ Pending(t, k)' = 0
      BY <2>3, <2>4 DEF Away, Pending
    <3>2. \A k \in Locks : \A u \in Threads : u # t => raw'[k][u] = raw[k][u]
      BY <2>7
    <3>3. \A k \in Locks : raw'[k][t] =
            (IF Away(t, k)' THEN 0 ELSE Cardinality(Indices(t, k)')) + Pending(t, k)'
      BY <1>6, <1>7, <2>7, <3>1
    <3>4. QED
      BY <1>2, <2>4, <3>2, <3>3, OthersCounted DEF GuardsInv
  <2>13. MutexInv'
    <3>1. \A k \in Mutexes : \A u \in Threads : raw'[k][u] = raw[k][u] \/ raw'[k][u] = 0
      BY <2>7 DEF Locks
    <3>2. QED
      BY <3>1 DEF GuardsInv, MutexInv
  <2>14. TaintInv'
    BY <1>2, <1>3, <2>1, NoPanicTaints
  <2>15. QED
    BY <1>6, <2>9, <2>10, <2>11, <2>12, <2>13, <2>14 DEF GuardsInv
<1>10. QED
  BY <1>8, <1>9

\* Condvar::wait has the mutex back, under the guard it had.
LEMMA CvWakeKeeps == ASSUME GuardsInv, NEW t \in Threads, CvWake(t) PROVE GuardsInv'
<1>1. /\ tpc[t] = "cv" /\ tpc' = [tpc EXCEPT ![t] = "run"]
      /\ writeLocked' = writeLocked /\ numReaders' = numReaders /\ failed' = failed
      /\ bound' = bound /\ guards' = guards /\ panicking' = panicking /\ aborted' = aborted
      /\ tainted' = tainted /\ req' = req /\ calls' = calls
  BY DEF CvWake, Goto, fields
<1>2. PICK m : m \in Mutexes /\ m \in Locks /\ m = req[t].lock
  BY <1>1 DEF GuardsInv, CondvarInv, Locks
<1>3. RawLock(t, m, "lock") /\ Answers(t, m, "lock") # {} /\ GuardsTypeOK /\ FieldsInv
  BY <1>2 DEF CvWake, GuardsInv
<1>4. /\ tpc'[t] = "run" /\ \A u \in Threads : u # t => tpc'[u] = tpc[u]
      /\ tpc' \in [Threads -> {"run", "acquire", "check", "release", "cv"}]
  BY <1>1, <1>3 DEF GuardsTypeOK
<1>5. \A u \in Threads : raw[m][u] = 0
  BY <1>2, <1>3, MutexFree
<1>6. /\ raw' = [raw EXCEPT ![m] = [raw[m] EXCEPT ![t] = 1]] /\ raw[m] \in [Threads -> Nat]
  <2>1. raw' = [raw EXCEPT ![m][t] = @ + 1] /\ raw \in [Locks -> [Threads -> Nat]]
    BY <1>3 DEF GuardsTypeOK, RawLock
  <2>2. raw[m][t] + 1 = 1
    BY <1>5
  <2>3. QED
    BY <1>2, <2>1, <2>2
<1>7. /\ raw' \in [Locks -> [Threads -> Nat]] /\ raw'[m][t] = 1
      /\ \A u \in Threads : u # t => raw'[m][u] = raw[m][u]
      /\ \A k \in Locks : k # m => raw'[k] = raw[k]
  BY <1>2, <1>3, <1>6 DEF GuardsTypeOK
<1>8. writer' \in [Locks -> Threads \cup {Nobody}]
  BY <1>2, <1>3 DEF GuardsTypeOK, RawLock
<1>9. GuardsTypeOK'
  BY <1>1, <1>3, <1>4, <1>7, <1>8 DEF GuardsTypeOK
<1>10. CallsInv'
  BY <1>1, <1>4 DEF GuardsInv, CallsInv, Modes
<1>11. (\A u, k : Indices(u, k)' = Indices(u, k)) /\ FieldsInv'
  BY <1>1, <1>3, SameGuards
<1>12. CondvarInv'
  BY <1>1, <1>4, WaitersStay DEF GuardsInv
<1>13. RawInv'
  <2>1. \A k \in Locks : ~Away(t, k)' /\ Pending(t, k)' = 0 /\ Cardinality(Indices(t, k)) \in Nat
    <3>1. ASSUME NEW k \in Locks PROVE Cardinality(Indices(t, k)) \in Nat
      BY <1>3, IndicesFinite DEF GuardsTypeOK
    <3>2. QED
      BY <1>4, <3>1 DEF Away, Pending
  <2>2. Cardinality(Indices(t, m)) = 1
    BY <1>1, <1>2 DEF GuardsInv, CondvarInv
  <2>3. \A k \in Locks : k # m => raw[k][t] = Cardinality(Indices(t, k))
    <3>1. \A k \in Locks : k # m => ~Away(t, k) /\ Pending(t, k) = 0
      BY <1>1, <1>2 DEF Away, Pending
    <3>2. QED
      BY <2>1, <3>1 DEF GuardsInv, RawInv
  <2>4. \A k \in Locks : \A u \in Threads : u # t => raw'[k][u] = raw[k][u]
    BY <1>7
  <2>5. \A k \in Locks : raw'[k][t] =
          (IF Away(t, k)' THEN 0 ELSE Cardinality(Indices(t, k)')) + Pending(t, k)'
    BY <1>7, <1>11, <2>1, <2>2, <2>3
  <2>6. QED
    BY <1>1, <1>4, <2>4, <2>5, OthersCounted DEF GuardsInv
<1>14. MutexInv'
  <2>1. \A k \in Mutexes : k # m => raw'[k] = raw[k]
    BY <1>7 DEF Locks
  <2>2. raw'[m][t] = 1 /\ \A u \in Threads : u # t => raw'[m][u] = 0
    BY <1>5, <1>7
  <2>3. QED
    BY <2>1, <2>2 DEF GuardsInv, MutexInv
<1>15. TaintInv'
  BY <1>1, NoPanicTaints DEF GuardsInv, NoPanic
<1>16. QED
  BY <1>9, <1>10, <1>11, <1>12, <1>13, <1>14, <1>15 DEF GuardsInv

-----------------------------------------------------------------------------
(* What the invariant says *)

\* InitGuards: no guard, no lock, no panic.
LEMMA GuardsStart == InitGuards => GuardsInv
<1> SUFFICES ASSUME InitGuards PROVE GuardsInv
  OBVIOUS
<1>1. GuardsTypeOK
  <2>1. /\ raw \in [Locks -> [Threads -> Nat]] /\ writer \in [Locks -> Threads \cup {Nobody}]
        /\ writeLocked \in [RwLocks -> BOOLEAN] /\ numReaders \in [RwLocks -> Nat]
        /\ failed \in [Locks -> BOOLEAN] /\ bound \in Mutexes \cup {Nobody}
    BY DEF InitGuards
  <2>2. guards \in [Threads -> Seq(Guard)]
    <3>1. <<>> \in Seq(Guard)
      OBVIOUS
    <3>2. QED
      BY <3>1 DEF InitGuards
  <2>3. req \in [Threads -> Request]
    <3>1. [lock |-> Nobody, mode |-> "none", try |-> FALSE] \in Request
      BY DEF Request
    <3>2. QED
      BY <3>1 DEF InitGuards
  <2>4. /\ panicking \in [Threads -> BOOLEAN] /\ aborted \in BOOLEAN /\ tainted \in SUBSET Locks
        /\ tpc \in [Threads -> {"run", "acquire", "check", "release", "cv"}]
        /\ calls \in 0..MaxCalls
    <3>1. panicking = [t \in Threads |-> FALSE] /\ tpc = [t \in Threads |-> "run"]
      BY DEF InitGuards
    <3>2. aborted = FALSE /\ tainted = {} /\ calls = 0 /\ MaxCalls \in Nat
      BY GuardsAssumption DEF InitGuards
    <3>3. panicking \in [Threads -> BOOLEAN]
      BY <3>1, Zenon
    <3>4. tpc \in [Threads -> {"run", "acquire", "check", "release", "cv"}]
      BY <3>1
    <3>5. aborted \in BOOLEAN /\ tainted \in SUBSET Locks
      BY <3>2, Zenon
    <3>6. calls \in 0..MaxCalls
      BY <3>2
    <3>7. QED
      BY <3>3, <3>4, <3>5, <3>6
  <2>5. QED
    BY <2>1, <2>2, <2>3, <2>4 DEF GuardsTypeOK
<1>2. \A t \in Threads : /\ tpc[t] = "run" /\ guards[t] = <<>> /\ 1..Len(guards[t]) = {}
                         /\ Len(guards[t]) = 0
  BY DEF InitGuards
<1>3. \A l : GuardsOf(l) = {} /\ ReadersOf(l) = {}
  BY <1>2 DEF GuardsOf, ReadersOf, Places
<1>4. \A t \in Threads : \A l : Indices(t, l) = {}
  BY <1>2 DEF Indices
<1>5. CallsInv /\ CondvarInv
  BY <1>2 DEF CallsInv, CondvarInv
<1>6. RawInv
  <2>1. \A l \in Locks : \A t \in Threads : raw[l][t] = 0
    BY DEF InitGuards
  <2>2. \A l \in Locks : \A t \in Threads : ~Away(t, l) /\ Pending(t, l) = 0
    BY <1>2 DEF Away, Pending
  <2>3. QED
    BY <1>4, <2>1, <2>2, FS_EmptySet DEF RawInv
<1>7. MutexInv
  BY DEF InitGuards, MutexInv, Locks
<1>8. FieldsInv
  BY <1>3, FS_EmptySet DEF InitGuards, FieldsInv
<1>9. TaintInv
  BY <1>2 DEF InitGuards, TaintInv
<1>10. QED
  BY <1>1, <1>5, <1>6, <1>7, <1>8, <1>9 DEF GuardsInv

\* Every step of the guards preserves the invariant.
LEMMA GuardsStep == GuardsInv /\ [NextGuards]_guardVars => GuardsInv'
<1> SUFFICES ASSUME GuardsInv, [NextGuards]_guardVars PROVE GuardsInv'
  OBVIOUS
<1>1. CASE NextGuards
  <2>1. PICK t \in Threads :
          \/ Call(t) \/ Acquire(t) \/ Check(t) \/ Release(t) \/ UserPanic(t) \/ Caught(t)
          \/ CvWake(t) \/ \E i \in 1..Len(guards[t]) : DropGuard(t, i) \/ CvWait(t, i)
    BY <1>1 DEF NextGuards
  <2>2. QED
    BY <2>1, CallKeeps, AcquireKeeps, CheckKeeps, ReleaseKeeps, PanicKeeps, CvWakeKeeps,
       DropGuardKeeps, CvWaitKeeps
<1>2. CASE UNCHANGED guardVars
  <2>1. /\ raw' = raw /\ writer' = writer /\ writeLocked' = writeLocked
        /\ numReaders' = numReaders /\ failed' = failed /\ bound' = bound /\ guards' = guards
        /\ panicking' = panicking /\ aborted' = aborted /\ tainted' = tainted
        /\ tpc' = tpc /\ req' = req /\ calls' = calls
    BY <1>2 DEF guardVars, native, fields, local
  <2>2. GuardsTypeOK'
    BY <2>1 DEF GuardsInv, GuardsTypeOK
  <2>3. CallsInv'
    BY <2>1 DEF GuardsInv, CallsInv, Modes
  <2>4. (\A u, k : Indices(u, k)' = Indices(u, k)) /\ FieldsInv'
    BY <2>1, SameGuards DEF GuardsInv
  <2>5. CondvarInv'
    BY <2>1, WaitersStay DEF GuardsInv
  <2>6. RawInv'
    BY <2>1, <2>4 DEF GuardsInv, RawInv, Away, Pending
  <2>7. MutexInv'
    BY <2>1 DEF GuardsInv, MutexInv
  <2>8. TaintInv'
    BY <2>1, NoPanicTaints DEF GuardsInv, NoPanic
  <2>9. QED
    BY <2>2, <2>3, <2>4, <2>5, <2>6, <2>7, <2>8 DEF GuardsInv
<1>3. QED
  BY <1>1, <1>2

\* A guard that waits on the condition variable is not on the lock.
LEMMA OnIs ==
  ASSUME NEW t, NEW l
  PROVE  On(t, l) = IF Away(t, l) THEN {} ELSE Indices(t, l)
  BY DEF On, Away, Indices

\* A guard for writing is the only one that has the lock.
LEMMA WritesAlone ==
  ASSUME GuardsInv, NEW l \in Locks, NEW t \in Threads, NEW u \in Threads,
         NEW i \in On(t, l), NEW j \in On(u, l), guards[t][i].mode # "read"
  PROVE  t = u /\ i = j
<1>1. i \in Indices(t, l) /\ ~Away(t, l) /\ j \in Indices(u, l) /\ ~Away(u, l)
  BY OnIs
<1>2. guards[t] \in Seq(Guard) /\ guards[u] \in Seq(Guard)
  BY DEF GuardsInv, GuardsTypeOK
<1>3. CASE l \in RwLocks
  <2>1. <<t, i>> \in GuardsOf(l) /\ <<u, j>> \in GuardsOf(l) /\ At(<<t, i>>) = guards[t][i]
    BY <1>1, <1>2 DEF GuardsOf, Places, At, Indices
  <2>2. <<t, i>> = <<u, j>>
    BY <1>3, <2>1 DEF GuardsInv, FieldsInv
  <2>3. QED
    BY <2>2
<1>4. CASE l \in Mutexes
  <2>1. Len(guards[t]) \in Nat /\ Len(guards[u]) \in Nat
    BY <1>2
  <2>2. /\ IsFiniteSet(Indices(t, l)) /\ Cardinality(Indices(t, l)) \in Nat
        /\ IsFiniteSet(Indices(u, l)) /\ Cardinality(Indices(u, l)) \in Nat
    BY <2>1, IndicesFinite
  <2>3. Cardinality(Indices(t, l)) # 0 /\ Cardinality(Indices(u, l)) # 0
    BY <1>1, <2>2, FS_EmptySet
  <2>4. /\ raw[l][t] = Cardinality(Indices(t, l)) + Pending(t, l)
        /\ raw[l][u] = Cardinality(Indices(u, l)) + Pending(u, l)
        /\ Pending(t, l) \in {0, 1} /\ Pending(u, l) \in {0, 1}
    BY <1>1 DEF GuardsInv, RawInv, Pending
  <2>5. raw[l][t] # 0 /\ raw[l][u] # 0
    BY <2>2, <2>3, <2>4
  <2>6. t = u /\ raw[l][t] <= 1
    BY <1>4, <2>5 DEF GuardsInv, MutexInv
  <2>7. Cardinality(Indices(t, l)) = 1
    BY <2>2, <2>3, <2>4, <2>6
  <2>8. PICK x : Indices(t, l) = {x}
    BY <2>2, <2>7, FS_Singleton
  <2>9. QED
    BY <1>1, <2>6, <2>8
<1>5. QED
  BY <1>3, <1>4 DEF Locks

\* The invariant implies exclusion, and that pthread's count is exact.
LEMMA GuardsInvExcludes == GuardsInv => GuardsExclude
<1> SUFFICES ASSUME GuardsInv, NEW l \in Locks,
                    NEW all, all = UNION {{<<t, i>> : i \in On(t, l)} : t \in Threads},
                    NEW readers, readers = {x \in all : guards[x[1]][x[2]].mode = "read"}
             PROVE  /\ readers # all => Cardinality(all) = 1
                    /\ l \in RwLocks => /\ numReaders[l] = Cardinality(readers)
                                        /\ writeLocked[l] <=> readers # all
                    /\ \A t \in Threads :
                         raw[l][t] = Cardinality(On(t, l)) +
                           (IF tpc[t] \in {"check", "release"} /\ req[t].lock = l THEN 1 ELSE 0)
  BY DEF GuardsExclude
<1>1. \A x : x \in all <=> \E t \in Threads : \E i \in On(t, l) : x = <<t, i>>
  OBVIOUS
<1>2. ASSUME readers # all PROVE Cardinality(all) = 1
  <2>1. PICK x \in all : guards[x[1]][x[2]].mode # "read"
    BY <1>2
  <2>2. PICK t \in Threads : \E i \in On(t, l) : x = <<t, i>>
    BY <1>1, <2>1
  <2>3. PICK i \in On(t, l) : x = <<t, i>>
    BY <2>2
  <2>4. guards[t][i].mode # "read"
    BY <2>1, <2>3
  <2>5. ASSUME NEW y \in all PROVE y = x
    <3>1. PICK u \in Threads : \E j \in On(u, l) : y = <<u, j>>
      BY <1>1
    <3>2. PICK j \in On(u, l) : y = <<u, j>>
      BY <3>1
    <3>3. t = u /\ i = j
      BY <2>4, WritesAlone
    <3>4. QED
      BY <2>3, <3>2, <3>3
  <2>6. all = {x}
    BY <2>1, <2>5
  <2>7. QED
    BY <2>6, FS_Singleton
<1>3. ASSUME l \in RwLocks
      PROVE  numReaders[l] = Cardinality(readers) /\ (writeLocked[l] <=> readers # all)
  <2>1. \A t \in Threads : On(t, l) = Indices(t, l)
    <3>1. \A t \in Threads : ~Away(t, l)
      BY <1>3, GuardsAssumption DEF GuardsInv, CondvarInv, Away
    <3>2. QED
      BY <3>1, OnIs
  <2>2. \A x : x \in all <=> x \in GuardsOf(l)
    <3>1. ASSUME NEW x \in all PROVE x \in GuardsOf(l)
      <4>1. PICK t \in Threads : \E i \in Indices(t, l) : x = <<t, i>>
        BY <1>1, <2>1
      <4>2. PICK i \in Indices(t, l) : x = <<t, i>>
        BY <4>1
      <4>3. guards[t] \in Seq(Guard)
        BY DEF GuardsInv, GuardsTypeOK
      <4>4. QED
        BY <4>2, <4>3 DEF GuardsOf, Places, At, Indices
    <3>2. ASSUME NEW x \in GuardsOf(l) PROVE x \in all
      <4>1. PICK t \in Threads, i \in Nat \ {0} :
              x = <<t, i>> /\ i <= Len(guards[t]) /\ guards[t][i].lock = l
        BY DEF GuardsOf, Places, At
      <4>2. guards[t] \in Seq(Guard)
        BY DEF GuardsInv, GuardsTypeOK
      <4>3. i \in Indices(t, l)
        BY <4>1, <4>2 DEF Indices
      <4>4. QED
        BY <1>1, <2>1, <4>1, <4>3
    <3>3. QED
      BY <3>1, <3>2
  <2>3. readers = ReadersOf(l)
    BY <2>2 DEF ReadersOf, At
  <2>4. readers # all <=> \E x \in GuardsOf(l) : At(x).mode # "read"
    BY <2>2 DEF At
  <2>5. QED
    BY <1>3, <2>3, <2>4 DEF GuardsInv, FieldsInv
<1>4. ASSUME NEW t \in Threads
      PROVE  raw[l][t] = Cardinality(On(t, l)) +
               (IF tpc[t] \in {"check", "release"} /\ req[t].lock = l THEN 1 ELSE 0)
  <2>1. raw[l][t] = (IF Away(t, l) THEN 0 ELSE Cardinality(Indices(t, l))) + Pending(t, l)
    BY DEF GuardsInv, RawInv
  <2>2. Cardinality(On(t, l)) = IF Away(t, l) THEN 0 ELSE Cardinality(Indices(t, l))
    BY OnIs, FS_EmptySet
  <2>3. QED
    BY <2>1, <2>2 DEF Pending
<1>5. QED
  BY <1>2, <1>3, <1>4

\* The invariant implies that poisoning is exact.
LEMMA GuardsInvPoison == GuardsInv => PoisonExact
<1> SUFFICES ASSUME GuardsInv, NEW l \in Locks
             PROVE  /\ failed[l] => l \in tainted
                    /\ \A t \in Threads : l \in tainted /\ On(t, l) # {} /\ ~panicking[t] =>
                         \/ failed[l]
                         \/ \E u \in Threads : panicking[u] /\ tpc[u] = "cv" /\ req[u].lock = l
  BY DEF PoisonExact
<1>1. failed[l] => l \in tainted
  BY DEF GuardsInv, TaintInv
<1>2. ASSUME NEW t \in Threads, l \in tainted, On(t, l) # {}, ~panicking[t], ~failed[l]
      PROVE  \E u \in Threads : panicking[u] /\ tpc[u] = "cv" /\ req[u].lock = l
  <2>1. PICK u \in Threads : \E i \in 1..Len(guards[u]) :
          guards[u][i].lock = l /\ Marks(guards[u][i], panicking[u])
    BY <1>2 DEF GuardsInv, TaintInv
  <2>2. PICK i \in 1..Len(guards[u]) : guards[u][i].lock = l /\ Marks(guards[u][i], panicking[u])
    BY <2>1
  <2>3. panicking[u] /\ guards[u][i].mode # "read" /\ i \in Indices(u, l)
    BY <2>2 DEF Marks, Indices
  <2>4. Away(u, l)
    <3>1. SUFFICES ASSUME ~Away(u, l) PROVE FALSE
      OBVIOUS
    <3>2. i \in On(u, l)
      BY <2>3, <3>1, OnIs
    <3>3. PICK j : j \in On(t, l)
      BY <1>2
    <3>4. u = t
      BY <2>3, <3>2, <3>3, WritesAlone
    <3>5. QED
      BY <1>2, <2>3, <3>4
  <2>5. QED
    BY <2>3, <2>4 DEF Away
<1>3. QED
  BY <1>1, <1>2

-----------------------------------------------------------------------------
(* The barrier *)

\* How many threads a generation takes: Barrier::new(0) lets each one pass.
Size == IF NumThreads = 0 THEN 1 ELSE NumThreads

\* The numbers of generations; each one that is over has used up a wait.
Numbers == 0..Generations - 1
WaitsUsed == (1..MaxWaits) \X Threads

\* Every variable of the barrier keeps its type.
BarrierTypeOK ==
  /\ program \in {"barrier", "guards"} /\ count \in Nat /\ generation \in Numbers
  /\ bpc \in [Threads -> {"out", "asleep", "notified"}]
  /\ localGen \in [Threads -> Nat] /\ waits \in [Threads -> 0..MaxWaits]
  /\ arrived \in [Numbers -> SUBSET Threads] /\ leaders \in [Numbers -> SUBSET Threads]

\* No number comes twice: the generations that are over can be numbered by the
\* waits of their leaders.
FreshInv ==
  \E f \in [0..generation - 1 -> WaitsUsed] :
    /\ \A g, h \in 0..generation - 1 : f[g] = f[h] => g = h
    /\ \A g \in 0..generation - 1 : f[g][1] <= waits[f[g][2]]

\* The generations that are over were full and had one leader, the one under way
\* has as many threads as the count says, and those after it have none.
GenerationInv ==
  \A g \in Numbers :
    /\ g < generation => /\ Cardinality(arrived[g]) = Size
                         /\ \E t \in Threads : leaders[g] = {t}
    /\ g = generation => Cardinality(arrived[g]) = count /\ leaders[g] = {}
    /\ g > generation => arrived[g] = {} /\ leaders[g] = {}

\* The threads of the generation under way are the ones that sleep.
SleepersInv ==
  /\ count < Size
  /\ \A t \in Threads :
       /\ bpc[t] = "asleep" <=> t \in arrived[generation]
       /\ bpc[t] = "asleep" => localGen[t] = generation
       /\ bpc[t] = "notified" => localGen[t] # generation
       /\ localGen[t] <= generation

\* The inductive invariant of the barrier.
BarrierInv == BarrierTypeOK /\ FreshInv /\ GenerationInv /\ SleepersInv

\* Barrier::new.
LEMMA BarrierStarts == Init => BarrierInv
<1> SUFFICES ASSUME Init PROVE BarrierInv
  OBVIOUS
<1>1. 0 \in Numbers /\ Size \in Nat /\ Size > 0 /\ MaxWaits \in Nat
  <2>1. Cardinality(Threads) \in Nat
    BY GuardsAssumption, FS_CardinalityType
  <2>2. PICK p \in Nat : p = MaxWaits * Cardinality(Threads)
    BY <2>1, BarrierAssumption
  <2>3. Generations \in Nat /\ Generations > p
    BY <2>2, BarrierAssumption
  <2>4. 0 \in Numbers
    BY <2>3 DEF Numbers
  <2>5. QED
    BY <2>4, BarrierAssumption DEF Size
<1>2. BarrierTypeOK
  BY <1>1 DEF Init, BarrierTypeOK, Numbers
<1>3. FreshInv
  <2>1. 0..generation - 1 = {}
    BY DEF Init
  <2>2. PICK f : f = [g \in {} |-> g]
    OBVIOUS
  <2>3. f \in [{} -> WaitsUsed]
    BY <2>2
  <2>4. QED
    BY <2>1, <2>3 DEF FreshInv
<1>4. GenerationInv
  BY <1>1, FS_EmptySet DEF Init, GenerationInv, Numbers
<1>5. SleepersInv
  BY <1>1 DEF Init, SleepersInv, Numbers
<1>6. QED
  BY <1>2, <1>3, <1>4, <1>5 DEF BarrierInv

\* The number after the generation under way is still free.
LEMMA NumberFree ==
  ASSUME NEW n \in Nat, NEW f \in [0..n - 1 -> WaitsUsed],
         \A g, h \in 0..n - 1 : f[g] = f[h] => g = h
  PROVE  n \in Numbers
<1>1. IsFiniteSet(1..MaxWaits) /\ Cardinality(1..MaxWaits) = MaxWaits
  BY BarrierAssumption, FS_Interval
<1>2. IsFiniteSet(WaitsUsed) /\ Cardinality(WaitsUsed) = MaxWaits * Cardinality(Threads)
  BY <1>1, GuardsAssumption, FS_Product DEF WaitsUsed
<1>3. f \in Injection(0..n - 1, WaitsUsed)
  BY Fun_IsInj
<1>4. Cardinality(0..n - 1) <= Cardinality(WaitsUsed)
  BY <1>2, <1>3, FS_Injection
<1>5. Cardinality(0..n - 1) = n
  <2>1. n - 1 \in Int /\ 0 \in Int
    OBVIOUS
  <2>2. Cardinality(0..n - 1) = IF 0 > n - 1 THEN 0 ELSE n - 1 - 0 + 1
    BY <2>1, FS_Interval
  <2>3. QED
    BY <2>2
<1>6. n < Generations
  BY <1>2, <1>4, <1>5, BarrierAssumption, GuardsAssumption, FS_CardinalityType
<1>7. QED
  BY <1>6, BarrierAssumption DEF Numbers

\* A thread comes: it sleeps, or completes the generation and leads it.
LEMMA WaitKeeps ==
  ASSUME BarrierInv, NEW t \in Threads, Wait(t), program' = program PROVE BarrierInv'
<1>1. /\ bpc[t] = "out" /\ waits[t] < MaxWaits
      /\ waits' = [waits EXCEPT ![t] = @ + 1]
      /\ arrived' = [arrived EXCEPT ![generation] = @ \cup {t}]
      /\ localGen' = [localGen EXCEPT ![t] = generation]
  BY DEF Wait
<1>2. BarrierTypeOK /\ MaxWaits \in Nat /\ generation \in Numbers /\ generation \in Nat
  BY BarrierAssumption DEF BarrierInv, BarrierTypeOK, Numbers
<1>3. /\ waits' \in [Threads -> 0..MaxWaits] /\ waits'[t] = waits[t] + 1
      /\ waits[t] \in Nat /\ waits[t] + 1 \in 1..MaxWaits
      /\ \A u \in Threads : u # t => waits'[u] = waits[u]
  BY <1>1, <1>2 DEF BarrierTypeOK
<1>4. /\ arrived' \in [Numbers -> SUBSET Threads]
      /\ arrived'[generation] = arrived[generation] \cup {t}
      /\ \A g \in Numbers : g # generation => arrived'[g] = arrived[g]
  BY <1>1, <1>2 DEF BarrierTypeOK
<1>5. /\ localGen' \in [Threads -> Nat] /\ localGen'[t] = generation
      /\ \A u \in Threads : u # t => localGen'[u] = localGen[u]
  BY <1>1, <1>2 DEF BarrierTypeOK
<1>6. t \notin arrived[generation]
  BY <1>1 DEF BarrierInv, SleepersInv
<1>7. Cardinality(arrived'[generation]) = count + 1
  <2>1. IsFiniteSet(arrived[generation])
    BY <1>2, GuardsAssumption, FS_Subset DEF BarrierTypeOK
  <2>2. Cardinality(arrived[generation]) = count
    BY <1>2 DEF BarrierInv, GenerationInv
  <2>3. QED
    BY <1>4, <1>6, <2>1, <2>2, FS_AddElement
<1>8. PICK f \in [0..generation - 1 -> WaitsUsed] :
        /\ \A g, h \in 0..generation - 1 : f[g] = f[h] => g = h
        /\ \A g \in 0..generation - 1 : f[g][1] <= waits[f[g][2]]
  BY DEF BarrierInv, FreshInv
<1>9. \A g \in 0..generation - 1 : /\ f[g][1] \in 1..MaxWaits /\ f[g][2] \in Threads
                                   /\ f[g][1] <= waits'[f[g][2]] /\ f[g] # <<waits[t] + 1, t>>
  <2>1. ASSUME NEW g \in 0..generation - 1
        PROVE  /\ f[g][1] \in 1..MaxWaits /\ f[g][2] \in Threads
               /\ f[g][1] <= waits'[f[g][2]] /\ f[g] # <<waits[t] + 1, t>>
    <3>1. PICK k \in 1..MaxWaits, u \in Threads : f[g] = <<k, u>>
      BY DEF WaitsUsed
    <3>2. k <= waits[u]
      BY <1>8, <3>1
    <3>3. waits[u] \in Nat
      BY <1>2 DEF BarrierTypeOK
    <3>4. k <= waits'[u]
      BY <1>3, <3>2, <3>3
    <3>5. ~(k = waits[t] + 1 /\ u = t)
      BY <1>3, <3>2
    <3>6. QED
      BY <3>1, <3>4, <3>5
  <2>2. QED
    BY <2>1
<1>10. count \in Nat /\ Size \in Nat /\ count < Size /\ NumThreads \in Nat
  BY <1>2, BarrierAssumption DEF BarrierInv, BarrierTypeOK, SleepersInv, Size
<1>11. CASE count + 1 < NumThreads
  <2>1. /\ count' = count + 1 /\ bpc' = [bpc EXCEPT ![t] = "asleep"]
        /\ generation' = generation /\ leaders' = leaders
    BY <1>11 DEF Wait
  <2>2. /\ bpc'[t] = "asleep" /\ \A u \in Threads : u # t => bpc'[u] = bpc[u]
        /\ bpc' \in [Threads -> {"out", "asleep", "notified"}]
    BY <1>2, <2>1 DEF BarrierTypeOK
  <2>3. BarrierTypeOK'
    BY <1>2, <1>3, <1>4, <1>5, <1>10, <2>1, <2>2 DEF BarrierTypeOK
  <2>4. FreshInv'
    BY <1>8, <1>9, <2>1 DEF FreshInv
  <2>5. GenerationInv'
    BY <1>2, <1>4, <1>7, <2>1 DEF BarrierInv, GenerationInv, Numbers
  <2>6. SleepersInv'
    <3>1. count' < Size
      BY <1>10, <1>11, <2>1 DEF Size
    <3>2. ASSUME NEW u \in Threads
          PROVE  /\ bpc'[u] = "asleep" <=> u \in arrived'[generation]
                 /\ bpc'[u] = "asleep" => localGen'[u] = generation
                 /\ bpc'[u] = "notified" => localGen'[u] # generation
                 /\ localGen'[u] <= generation
      BY <1>2, <1>4, <1>5, <2>2 DEF BarrierInv, SleepersInv
    <3>3. QED
      BY <2>1, <3>1, <3>2 DEF SleepersInv, Size
  <2>7. QED
    BY <2>3, <2>4, <2>5, <2>6 DEF BarrierInv
<1>12. CASE ~(count + 1 < NumThreads)
  <2>1. /\ count' = 0 /\ generation' = (generation + 1) % Generations
        /\ leaders' = [leaders EXCEPT ![generation] = @ \cup {t}]
        /\ bpc' = [u \in Threads |-> IF bpc[u] = "asleep" THEN "notified" ELSE bpc[u]]
    BY <1>12 DEF Wait
  <2>2. PICK e : e = [g \in 0..generation |-> IF g = generation THEN <<waits[t] + 1, t>> ELSE f[g]]
    OBVIOUS
  <2>3. /\ e \in [0..generation -> WaitsUsed]
        /\ e[generation] = <<waits[t] + 1, t>>
        /\ \A g \in 0..generation - 1 : e[g] = f[g]
        /\ \A g \in 0..generation : g = generation \/ g \in 0..generation - 1
    <3>1. <<waits[t] + 1, t>> \in WaitsUsed
      BY <1>3 DEF WaitsUsed
    <3>2. \A g \in 0..generation : g = generation \/ g \in 0..generation - 1
      BY <1>2
    <3>3. generation \in 0..generation /\ \A g \in 0..generation - 1 : g \in 0..generation /\ g # generation
      BY <1>2
    <3>4. QED
      BY <2>2, <3>1, <3>2, <3>3
  <2>4. \A g, h \in 0..generation : e[g] = e[h] => g = h
    BY <1>8, <1>9, <2>3
  <2>5. \A g \in 0..generation : e[g][1] <= waits'[e[g][2]]
    <3>1. e[generation][1] <= waits'[e[generation][2]]
      BY <1>3, <2>3
    <3>2. ASSUME NEW g \in 0..generation - 1 PROVE e[g][1] <= waits'[e[g][2]]
      BY <1>9, <2>3
    <3>3. QED
      BY <2>3, <3>1, <3>2
  <2>6. PICK n \in Nat : n = generation + 1 /\ 0..n - 1 = 0..generation
    BY <1>2
  <2>7. n \in Numbers
    BY <2>3, <2>4, <2>6, NumberFree
  <2>8. generation' = n
    BY <2>1, <2>6, <2>7, BarrierAssumption DEF Numbers
  <2>9. /\ leaders' \in [Numbers -> SUBSET Threads]
        /\ leaders'[generation] = leaders[generation] \cup {t}
        /\ \A g \in Numbers : g # generation => leaders'[g] = leaders[g]
    BY <1>2, <2>1 DEF BarrierTypeOK
  <2>10. BarrierTypeOK'
    <3>1. bpc' \in [Threads -> {"out", "asleep", "notified"}]
      BY <1>2, <2>1 DEF BarrierTypeOK
    <3>2. QED
      BY <1>2, <1>3, <1>4, <1>5, <2>1, <2>7, <2>8, <2>9, <3>1 DEF BarrierTypeOK
  <2>11. FreshInv'
    BY <2>3, <2>4, <2>5, <2>6, <2>8 DEF FreshInv
  <2>12. GenerationInv'
    <3>1. leaders'[generation] = {t} /\ Cardinality(arrived'[generation]) = Size
      <4>1. leaders[generation] = {}
        BY <1>2 DEF BarrierInv, GenerationInv
      <4>2. count + 1 = Size
        BY <1>10, <1>12 DEF Size
      <4>3. QED
        BY <1>7, <2>9, <4>1, <4>2
    <3>2. ASSUME NEW g \in Numbers
          PROVE  /\ g < n => Cardinality(arrived'[g]) = Size /\ \E u \in Threads : leaders'[g] = {u}
                 /\ g >= n => arrived'[g] = {} /\ leaders'[g] = {}
      <4>1. CASE g = generation
        BY <1>2, <2>6, <3>1, <4>1
      <4>2. CASE g # generation
        <5>1. arrived'[g] = arrived[g] /\ leaders'[g] = leaders[g]
          BY <1>4, <2>9, <4>2
        <5>2. (g < n => g < generation) /\ (g >= n => g > generation)
          BY <1>2, <2>6, <4>2 DEF Numbers
        <5>3. QED
          BY <5>1, <5>2 DEF BarrierInv, GenerationInv
      <4>3. QED
        BY <4>1, <4>2
    <3>3. Cardinality(arrived'[n]) = 0 /\ leaders'[n] = {}
      <4>1. n >= n
        BY <2>6
      <4>2. arrived'[n] = {} /\ leaders'[n] = {}
        BY <2>7, <3>2, <4>1
      <4>3. QED
        BY <4>2, FS_EmptySet
    <3>4. QED
      BY <2>1, <2>8, <3>2, <3>3 DEF GenerationInv, Numbers, Size
  <2>13. SleepersInv'
    <3>1. arrived'[n] = {}
      <4>1. arrived[n] = {}
        BY <1>2, <2>6, <2>7 DEF BarrierInv, GenerationInv
      <4>2. QED
        BY <1>2, <1>4, <2>6, <2>7, <4>1
    <3>2. ASSUME NEW u \in Threads
          PROVE  bpc'[u] # "asleep" /\ localGen'[u] # n /\ localGen'[u] <= n
      <4>1. localGen'[u] \in Nat /\ localGen'[u] <= generation
        BY <1>2, <1>5 DEF BarrierInv, SleepersInv
      <4>2. bpc'[u] # "asleep"
        BY <2>1
      <4>3. QED
        BY <1>2, <2>6, <4>1, <4>2
    <3>3. 0 < Size
      BY <1>10 DEF Size
    <3>4. QED
      BY <2>1, <2>8, <3>1, <3>2, <3>3 DEF SleepersInv, Size
  <2>14. QED
    BY <2>10, <2>11, <2>12, <2>13 DEF BarrierInv
<1>13. QED
  BY <1>11, <1>12

\* A thread looks again: it sleeps on exactly if its generation is under way.
LEMMA LookAgainKeeps ==
  ASSUME BarrierInv, NEW t \in Threads, LookAgain(t), program' = program PROVE BarrierInv'
<1>1. /\ bpc[t] \in {"asleep", "notified"}
      /\ bpc' = [bpc EXCEPT ![t] = IF MustSleep(t) THEN "asleep" ELSE "out"]
      /\ count' = count /\ generation' = generation /\ localGen' = localGen
      /\ waits' = waits /\ arrived' = arrived /\ leaders' = leaders
  BY DEF LookAgain
<1>2. BarrierTypeOK
  BY DEF BarrierInv
<1>3. BarrierTypeOK' /\ FreshInv' /\ GenerationInv'
  <2>1. BarrierTypeOK'
    BY <1>1, <1>2 DEF BarrierTypeOK
  <2>2. FreshInv'
    BY <1>1 DEF BarrierInv, FreshInv
  <2>3. GenerationInv'
    BY <1>1 DEF BarrierInv, GenerationInv, Size
  <2>4. QED
    BY <2>1, <2>2, <2>3
<1>4. CASE bpc[t] = "asleep"
  <2>1. t \in arrived[generation] /\ localGen[t] = generation
    BY <1>4 DEF BarrierInv, SleepersInv
  <2>2. generation \in Numbers /\ arrived[generation] \in SUBSET Threads
    BY <1>2 DEF BarrierTypeOK
  <2>3. IsFiniteSet(arrived[generation]) /\ Cardinality(arrived[generation]) = count
    BY <2>2, GuardsAssumption, FS_Subset DEF BarrierInv, GenerationInv
  <2>4. count # 0 /\ count \in Nat
    BY <1>2, <2>1, <2>3, FS_EmptySet DEF BarrierTypeOK
  <2>5. count < NumThreads
    BY <2>4, BarrierAssumption DEF BarrierInv, SleepersInv, Size
  <2>6. bpc' = bpc
    BY <1>1, <1>2, <1>4, <2>1, <2>5 DEF MustSleep, BarrierTypeOK
  <2>7. SleepersInv'
    BY <1>1, <2>6 DEF BarrierInv, SleepersInv, Size
  <2>8. QED
    BY <1>3, <2>7 DEF BarrierInv
<1>5. CASE bpc[t] = "notified"
  <2>1. localGen[t] # generation /\ t \notin arrived[generation]
    BY <1>5 DEF BarrierInv, SleepersInv
  <2>2. bpc'[t] = "out" /\ \A u \in Threads : u # t => bpc'[u] = bpc[u]
    BY <1>1, <1>2, <2>1 DEF MustSleep, BarrierTypeOK
  <2>3. SleepersInv'
    BY <1>1, <2>1, <2>2 DEF BarrierInv, SleepersInv, Size
  <2>4. QED
    BY <1>3, <2>3 DEF BarrierInv
<1>6. QED
  BY <1>1, <1>4, <1>5

\* The invariant implies that the threads of a generation meet.
LEMMA BarrierInvMeets == BarrierInv => Rendezvous
<1> SUFFICES ASSUME BarrierInv, NEW g \in Numbers
             PROVE  /\ Cardinality(arrived[g]) <= Size
                    /\ Cardinality(leaders[g]) <= 1
                    /\ \A t \in arrived[g] : bpc[t] = "out" /\ localGen[t] = g =>
                         Cardinality(arrived[g]) >= NumThreads /\ leaders[g] # {}
  BY DEF Rendezvous, Numbers, Size
<1>1. /\ count \in Nat /\ count < Size /\ Size \in Nat /\ Size >= NumThreads /\ NumThreads \in Nat
      /\ generation \in Nat /\ g \in Nat
      /\ arrived \in [Numbers -> SUBSET Threads]
  BY BarrierAssumption DEF BarrierInv, BarrierTypeOK, SleepersInv, Size, Numbers
<1>2. CASE g < generation
  <2>1. Cardinality(arrived[g]) = Size
    BY <1>2 DEF BarrierInv, GenerationInv
  <2>2. PICK t \in Threads : leaders[g] = {t}
    BY <1>2 DEF BarrierInv, GenerationInv
  <2>3. Cardinality(leaders[g]) = 1
    BY <2>2, FS_Singleton
  <2>4. QED
    BY <1>1, <2>1, <2>2, <2>3
<1>3. CASE g = generation
  <2>1. Cardinality(arrived[g]) = count /\ leaders[g] = {}
    BY <1>3 DEF BarrierInv, GenerationInv
  <2>2. Cardinality(leaders[g]) = 0
    BY <2>1, FS_EmptySet
  <2>3. \A t \in arrived[g] : bpc[t] # "out"
    BY <1>1, <1>3 DEF BarrierInv, SleepersInv
  <2>4. QED
    BY <1>1, <2>1, <2>2, <2>3
<1>4. CASE g > generation
  <2>1. arrived[g] = {} /\ leaders[g] = {}
    BY <1>4 DEF BarrierInv, GenerationInv
  <2>2. QED
    BY <1>1, <2>1, FS_EmptySet
<1>5. QED
  BY <1>1, <1>2, <1>3, <1>4

-----------------------------------------------------------------------------
(* The theorems *)

\* The invariants of the guards and of the barrier hold in every state, whichever
\* of the two the program uses.
THEOREM InvariantHolds == Spec => [](GuardsInv /\ BarrierInv)
<1>1. Init => GuardsInv /\ BarrierInv
  BY GuardsStart, BarrierStarts DEF Init
<1>2. GuardsInv /\ BarrierInv /\ [Next]_vars => (GuardsInv /\ BarrierInv)'
  <2> SUFFICES ASSUME GuardsInv, BarrierInv, [Next]_vars PROVE GuardsInv' /\ BarrierInv'
    OBVIOUS
  <2>1. ASSUME UNCHANGED <<program, barrier>> PROVE BarrierInv'
    <3>1. /\ count' = count /\ generation' = generation /\ bpc' = bpc /\ localGen' = localGen
          /\ waits' = waits /\ arrived' = arrived /\ leaders' = leaders /\ program' = program
      BY <2>1 DEF barrier
    <3>2. BarrierTypeOK'
      BY <3>1 DEF BarrierInv, BarrierTypeOK
    <3>3. FreshInv'
      BY <3>1 DEF BarrierInv, FreshInv
    <3>4. GenerationInv' /\ SleepersInv'
      BY <3>1 DEF BarrierInv, GenerationInv, SleepersInv, Size
    <3>5. QED
      BY <3>2, <3>3, <3>4 DEF BarrierInv
  <2>2. CASE /\ program = "barrier" /\ \E t \in Threads : Wait(t) \/ LookAgain(t)
             /\ UNCHANGED <<program, guardVars>>
    <3>1. GuardsInv'
      BY <2>2, GuardsStep
    <3>2. PICK t \in Threads : Wait(t) \/ LookAgain(t)
      BY <2>2
    <3>3. BarrierInv'
      BY <2>2, <3>2, WaitKeeps, LookAgainKeeps
    <3>4. QED
      BY <3>1, <3>3
  <2>3. CASE NextGuards /\ UNCHANGED <<program, barrier>>
    BY <2>1, <2>3, GuardsStep
  <2>4. CASE UNCHANGED vars
    <3>1. UNCHANGED <<program, barrier>> /\ UNCHANGED guardVars
      BY <2>4 DEF vars
    <3>2. QED
      BY <2>1, <3>1, GuardsStep
  <2>5. QED
    BY <2>2, <2>3, <2>4 DEF Next
<1>3. QED
  BY <1>1, <1>2, PTL DEF Spec

\* A guard for writing is alone whatever pthread grants, and nothing stays locked
\* without a guard (src/sys/unix/rwlock.rs, src/sync/mutex.rs).
THEOREM GuardsAreExclusive == Spec => []GuardsExclude
  BY InvariantHolds, GuardsInvExcludes, PTL

\* A lock is poisoned exactly if a panic began while it was held for writing
\* (src/sys_common/poison.rs).
THEOREM PoisoningIsExact == Spec => []PoisonExact
  BY InvariantHolds, GuardsInvPoison, PTL

\* Every variable keeps its type, and no thread leaves the barrier before its
\* generation is full and has its one leader (src/sync/barrier.rs).
THEOREM ThreadsMeet == Spec => [](TypeOK /\ Rendezvous)
<1>1. GuardsInv /\ BarrierInv => TypeOK
  <2> SUFFICES ASSUME GuardsInv, BarrierInv PROVE TypeOK
    OBVIOUS
  <2>1. GuardsTypeOK /\ BarrierTypeOK /\ count < Size
    BY DEF GuardsInv, BarrierInv, SleepersInv
  <2>2. count \in 0..NumThreads /\ waits \in [Threads -> Nat] /\ generation \in 0..Generations - 1
    BY <2>1, BarrierAssumption DEF BarrierTypeOK, Size, Numbers
  <2>3. QED
    BY <2>1, <2>2 DEF GuardsTypeOK, BarrierTypeOK, TypeOK
<1>2. QED
  BY <1>1, InvariantHolds, BarrierInvMeets, PTL
=============================================================================
