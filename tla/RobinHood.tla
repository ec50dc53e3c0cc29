----------------------------- MODULE RobinHood -----------------------------
(***************************************************************************)
(* The table of HashMap and HashSet (src/collections/hash/map.rs, table.rs)*)
(* with Robin Hood probing: insert that takes the place of luckier         *)
(* elements, remove that shifts the following ones back, resizing, retain  *)
(* and shrink_to_fit.  Values travel with their keys and are left out.     *)
(* Each call is a step; a loop is the least number of rounds that ends it, *)
(* or a fold over the buckets in the order in which it visits them.        *)
(***************************************************************************)
EXTENDS Integers, Sequences, FiniteSets, SequencesExt

CONSTANTS Keys, Hashes,       \* the keys, numbers, and the values of their hash
          NoKey,              \* an empty bucket
          MinRaw,             \* MIN_NONZERO_RAW_CAPACITY, a power of two
          LoadNum, LoadDen,   \* the load factor is LoadDen / LoadNum
          Threshold           \* DISPLACEMENT_THRESHOLD

ASSUME RobinHoodAssumption ==
  /\ Keys \subseteq Nat /\ NoKey \notin Keys /\ Hashes \subseteq Nat
  /\ \E n \in 0..MinRaw : MinRaw = 2^n
  /\ LoadDen \in Nat \ {0} /\ LoadNum \in Nat /\ LoadNum > LoadDen /\ Threshold \in Nat

VARIABLES
  hash,      \* what the hasher gives for each key
  table,     \* the RawTable
  present    \* the keys that were inserted and not removed

hashVars == <<hash, table, present>>

Slots(cap) == 0..cap - 1
NewTable(cap) == [cap |-> cap, size |-> 0, tag |-> FALSE,
                  slots |-> [i \in Slots(cap) |-> NoKey]]

\* The distance of what is in bucket i from the bucket its hash asks for.
Displacement(slots, cap, i) == (i - hash[slots[i]]) % cap
Probe(T, k, d) == (hash[k] + d) % T.cap
Least(S) == CHOOSE n \in S : \A m \in S : n <= m

PutIn(T, i, k) == [T EXCEPT !.slots[i] = k, !.size = @ + 1]

-----------------------------------------------------------------------------
(* search_hashed *)

\* A hole, a luckier element or the key itself ends the probing.
EndsProbe(T, k, d) ==
  LET i == Probe(T, k, d)
  IN  \/ T.slots[i] \in {NoKey, k}
      \/ Displacement(T.slots, T.cap, i) < d

Search(T, k) == Least({d \in 0..T.cap : EndsProbe(T, k, d)})
Finds(T, k) == T.cap # 0 /\ T.slots[Probe(T, k, Search(T, k))] = k

-----------------------------------------------------------------------------
(* insert *)

\* robin_hood: k takes bucket i; what was there goes on to the next bucket whose
\* element is closer to home than it, until there is a hole.
Steal(T, i, k) ==
  LET move(s, n) ==
        LET j == (i + n) % T.cap
        IN  IF s.carry = NoKey THEN s
            ELSE IF s.slots[j] = NoKey \/ Displacement(s.slots, T.cap, j) < s.disp + 1
            THEN [slots |-> [s.slots EXCEPT ![j] = s.carry], carry |-> s.slots[j],
                  disp |-> IF s.slots[j] = NoKey THEN 0
                           ELSE Displacement(s.slots, T.cap, j)]
            ELSE [s EXCEPT !.disp = @ + 1]
      start == [slots |-> [T.slots EXCEPT ![i] = k], carry |-> T.slots[i],
                disp |-> Displacement(T.slots, T.cap, i)]
  IN  [T EXCEPT !.slots = FoldLeft(move, start, [n \in 1..T.cap |-> n]).slots,
                !.size = @ + 1]

\* insert_hashed_nocheck and VacantEntry::insert.
InsertNoCheck(T, k) ==
  LET d == Search(T, k)
      i == Probe(T, k, d)
      free == T.slots[i] = NoKey
      far == (IF free THEN d ELSE Displacement(T.slots, T.cap, i)) >= Threshold
      U == [T EXCEPT !.tag = @ \/ far]
  IN  IF Finds(T, k) THEN T ELSE IF free THEN PutIn(U, i, k) ELSE Steal(U, i, k)

\* insert_hashed_ordered: the first hole will do.
InsertOrdered(T, k) ==
  PutIn(T, Probe(T, k, Least({d \in Slots(T.cap) : T.slots[Probe(T, k, d)] = NoKey})), k)

\* The keys from bucket i on, once round the table.
KeysFrom(T, i) ==
  SelectSeq([n \in 1..T.cap |-> T.slots[(i + n - 1) % T.cap]], LAMBDA k : k # NoKey)

\* Start where a cluster begins.  Mutant: at the first bucket.
HeadBucket_Mutant(T) == 0
HeadBucket(T) ==
  Least({i \in Slots(T.cap) : /\ T.slots[i] # NoKey
                              /\ Displacement(T.slots, T.cap, i) = 0})

Resize(T, cap) ==
  IF T.size = 0 THEN NewTable(cap)
  ELSE FoldLeft(InsertOrdered, NewTable(cap), KeysFrom(T, HeadBucket(T)))

-----------------------------------------------------------------------------
(* DefaultResizePolicy and reserve *)

NextPowerOfTwo(n) == 2^Least({e \in 0..n : 2^e >= n})
RawCapacity(len) ==
  LET raw == NextPowerOfTwo((len * LoadNum) \div LoadDen)
  IN  IF len = 0 THEN 0 ELSE IF raw < MinRaw THEN MinRaw ELSE raw
Capacity(raw) == (raw * LoadDen + LoadDen - 1) \div LoadNum

Reserve(T, additional) ==
  LET remaining == Capacity(T.cap) - T.size
  IN  IF remaining < additional THEN Resize(T, RawCapacity(T.size + additional))
      ELSE IF T.tag /\ remaining <= T.size THEN Resize(T, 2 * T.cap)
      ELSE T

-----------------------------------------------------------------------------
(* pop_internal *)

\* The elements after the gap move back by one, up to the first hole or the first
\* element that is at home.
PopInternal(T, i) ==
  LET at(n) == (i + n) % T.cap
      end == Least({n \in 1..T.cap :
                      \/ n = T.cap \/ T.slots[at(n)] = NoKey
                      \/ Displacement(T.slots, T.cap, at(n)) = 0})
      moved == {at(n) : n \in 0..end - 2}
  IN  [T EXCEPT !.size = @ - 1,
                !.slots = [j \in Slots(T.cap) |->
                             IF j \in moved THEN T.slots[(j + 1) % T.cap]
                             ELSE IF j = at(end - 1) THEN NoKey ELSE T.slots[j]]]

\* retain: backwards from the bucket before the head, so that what is shifted
\* was looked at already.
RetainKeys(T, keep) ==
  LET head == HeadBucket(T)
      visit(s, n) ==
        LET i == (head - n) % T.cap
        IN  IF s.left = 0 \/ s.T.slots[i] = NoKey THEN s
            ELSE [left |-> s.left - 1,
                  T |-> IF s.T.slots[i] \in keep THEN s.T ELSE PopInternal(s.T, i)]
  IN  FoldLeft(visit, [T |-> T, left |-> T.size], [n \in 1..T.cap |-> n]).T

-----------------------------------------------------------------------------
(* The calls *)

InitHash ==
  /\ hash \in {h \in [Keys -> Hashes] : \A j, k \in Keys : j < k => h[j] <= h[k]}
  /\ table = NewTable(0) /\ present = {}

InsertKey(k) ==
  /\ table' = InsertNoCheck(Reserve(table, 1), k)
  /\ present' = present \cup {k} /\ UNCHANGED hash

RemoveKey(k) ==
  /\ Finds(table, k)
  /\ table' = PopInternal(table, Probe(table, k, Search(table, k)))
  /\ present' = present \ {k} /\ UNCHANGED hash

Retain(keep) ==
  /\ table.size # 0
  /\ table' = RetainKeys(table, keep)
  /\ present' = present \cap keep /\ UNCHANGED hash

ReserveMore(n) ==
  table' = Reserve(table, n) /\ UNCHANGED <<hash, present>>

ShrinkToFit ==
  /\ table.cap # RawCapacity(table.size)
  /\ table' = FoldLeft(InsertNoCheck, NewTable(RawCapacity(table.size)),
                       KeysFrom(table, 0))
  /\ UNCHANGED <<hash, present>>

\* clear is a drain: it leaves the capacity and the tag.
Clear ==
  /\ table' = [NewTable(table.cap) EXCEPT !.tag = table.tag]
  /\ present' = {} /\ UNCHANGED hash

NextHash ==
  \/ \E k \in Keys : InsertKey(k) \/ RemoveKey(k)
  \/ \E keep \in SUBSET Keys : Retain(keep)
  \/ ReserveMore(Cardinality(Keys)) \/ ShrinkToFit \/ Clear

-----------------------------------------------------------------------------
\* The table is the set of the keys that were put into it: each of them is found
\* and no other, none is there twice, the size counts them; the probing order
\* that the next call relies on holds, with a hole to end every probe, after no
\* more buckets than there are elements; and a reserve from here, by any number up to
\* that of the keys, finds or makes room for as many more and loses no element.
TableSound ==
  LET full == {i \in Slots(table.cap) : table.slots[i] # NoKey}
      disp(i) == Displacement(table.slots, table.cap, i)
  IN  /\ \A k \in Keys : Finds(table, k) <=> k \in present
      /\ table.size = Cardinality(full) /\ table.size = Cardinality(present)
      /\ table.size <= Capacity(table.cap)
      /\ table.cap # 0 => /\ table.size < table.cap
                          /\ \A k \in Keys : Search(table, k) <= table.size
      /\ \A i \in full : LET p == (i - 1) % table.cap
                         IN  disp(i) <= IF p \in full THEN disp(p) + 1 ELSE 0
      /\ \A n \in 1..Cardinality(Keys) :
           LET T == Reserve(table, n)
           IN  /\ Capacity(T.cap) >= table.size + n
               /\ \A k \in Keys : Finds(T, k) <=> k \in present
=============================================================================
