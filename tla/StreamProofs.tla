------------------------------ MODULE StreamProofs ------------------------------
(***************************************************************************)
(* Proofs about the stream packet and the queue under it, for any number   *)
(* of sends and blocking calls.  The queue's nodes are dealt with first:   *)
(* SpscInv has the list as a sequence, so that what a push and a pop do to *)
(* the recursive Chain is a fact about sequences.  Everything after that   *)
(* sees only the sequence of elements on the queue.                        *)
(***************************************************************************)
EXTENDS Stream, FiniteSetTheorems, SequenceTheorems, WellFoundedInduction, TLAPS

-----------------------------------------------------------------------------
(* The inductive invariant: the queue                                      *)

Numbers == 1..Len(nodes)
NodesType == nodes \in Seq([value : Int, next : Nat])
\* The sequence s is the list of nodes that starts at n.
IsChain(n, s) ==
  /\ s \in Seq(Nat) /\ Len(s) > 0 /\ Len(s) <= Len(nodes) /\ s[1] = n
  /\ \A i \in 1..Len(s) : s[i] \in Numbers
  /\ \A i \in 1..Len(s) : nodes[s[i]].next = IF i < Len(s) THEN s[i + 1] ELSE Null
\* The list a from `first' on holds every node once, but for the one in the hands of
\* a push; the tail is its t-th node, up to which the values are gone, and the
\* node before it has been handed back or is about to be.
Listed(a, t) ==
  /\ IsChain(first, a)
  /\ Len(a) + (IF fresh = Null THEN 0 ELSE 1) = Len(nodes)
  /\ \A i, j \in 1..Len(a) : a[i] = a[j] => i = j
  /\ \A n \in Numbers : n = fresh \/ \E i \in 1..Len(a) : a[i] = n
  /\ \A i \in 1..Len(a) : a[i] # fresh
  /\ a[Len(a)] = head
  /\ t \in 2..Len(a) /\ tail = a[t]
  /\ \A i \in 1..Len(a) : nodes[a[i]].value = None <=> i <= t
\* Where the producer's copy and tail_prev are.
HandedOver(a, t) ==
  \E c, p \in 1..Len(a) :
    /\ c <= p /\ a[c] = tailCopy /\ a[p] = tailPrev
    /\ IF due = Null THEN p + 1 = t ELSE p + 2 = t /\ due = a[t - 1]
SpscInv ==
  /\ NodesType
  /\ fresh # Null => fresh \in Numbers /\ nodes[fresh].next = Null /\ nodes[fresh].value # None
  /\ \E a \in Seq(Nat) : \E t \in Nat : Listed(a, t) /\ HandedOver(a, t)

-----------------------------------------------------------------------------
(* The inductive invariant: the packet                                     *)

SenderLocs == {"idle", "check", "push", "link", "add", "disc", "drain1", "drain2", "take",
               "clear", "signal", "inherited", "drop", "gone"}
Folding == {"fold", "foldbump", "foldstore", "folded"}
TryLocs == {"try", "look", "again", "panic_empty"} \cup Folding
AbortLocs == {"abort", "abortdisc", "aborttake", "abortspin"}
Dropping == {"hangup", "dropcas", "dropdrain", "gone"}
\* A blocking call has made its token and not forgotten it yet.
Block == {"sub", "subdisc", "unwake", "wait"} \cup AbortLocs
ReceiverLocs == TryLocs \cup Block \cup Dropping \cup
                {"idle", "can", "decr", "cancel", "cancelbump", "abortpeek", "panic_aborted"}

QueueTypes ==
  /\ received \in Seq(Nat) /\ destroyed \subseteq Nat /\ hand \in Int
  /\ accepted \in Nat /\ sent \in Nat
CountTypes ==
  /\ cnt \in DISCONNECTED..ISIZE_MAX /\ steals \in Int /\ local \in Int /\ portDropped \in BOOLEAN
TokenTypes ==
  /\ woken \subseteq Nat /\ freed \in [Tokens -> Nat]
  /\ stok \in Nat /\ toWake \in Nat /\ rtok \in Nat /\ blocks \in Nat
CallTypes ==
  /\ rmode \in {"recv", "timeout", "try", "select"} /\ final \in BOOLEAN
  /\ aborted \in {"none", "select", "timeout"} /\ sop \in {"send", "clone", "drop"}
  /\ rres \in {"none", "Ok", "Empty", "Disconnected", "Upgraded", "ready", "unready"}
\* No sender panics, and the receiver only where an abort leads to.
LocTypes ==
  /\ spc \in SenderLocs /\ rpc \in ReceiverLocs
  /\ rpc = "panic_empty" => aborted = "timeout"
  /\ rpc = "panic_aborted" => aborted # "none"
TypeInv == QueueTypes /\ CountTypes /\ TokenTypes /\ CallTypes /\ LocTypes

\* The sender has swapped DISCONNECTED into the count.
Over == spc \in {"gone", "inherited"} \/ (sop = "drop" /\ spc \in {"take", "clear", "signal"})
\* The sender pushes nothing any more: it is dropped or has pushed the upgrade.
Finished == sop = "drop" \/ (sop = "clone" /\ spc \notin {"check", "push", "link"})
Open == ~Over /\ rpc # "gone"
Exact == aborted \in {"none", "select"}

\* What a push is about to link.
Item == IF sop = "send" THEN accepted + 1 ELSE GoUp
PushInv == /\ fresh # Null <=> spc = "link"
           /\ spc = "link" => nodes[fresh].value = Item
OpInv ==
  /\ spc \in {"signal", "inherited", "gone"} => sop # "clone"
  /\ spc = "idle" => sop = "send"
  /\ spc = "inherited" => sop = "drop"
  /\ spc = "gone" => sop = "drop"
  /\ sop = "drop" => spc \in {"drop", "take", "clear", "signal", "inherited", "gone"}
  /\ spc = "drop" => sop # "send"

\* An upgrade is the last element of the queue; the messages before it are the
\* last ones accepted.
UpInQueue == Len(queue) > 0 /\ queue[Len(queue)] = GoUp
Msgs == Len(queue) - (IF UpInQueue THEN 1 ELSE 0)
Popped == accepted - Msgs
Held == IF hand \in {None, GoUp} THEN 0 ELSE 1
OrderInv ==
  /\ Msgs <= accepted
  /\ \A i \in 1..Msgs : queue[i] = Popped + i
  /\ \A i \in 1..Len(received) : received[i] = i
  /\ Len(received) + Held <= Popped
  /\ destroyed \ {GoUp} = (Len(received) + Held + 1)..Popped
  /\ Held = 1 => hand = Len(received) + 1 /\ hand = Popped
\* An upgrade on its way: it was linked and the sender has not gone on.
Linked == (sop = "clone" /\ spc \in {"add", "take", "clear"}) \/ (spc = "drop" /\ stok # NoToken)
UpInv ==
  /\ UpInQueue => Finished
  /\ hand = GoUp => Finished /\ Len(queue) = 0 /\ Len(received) = accepted
  /\ hand # None <=> rpc \in Folding
  /\ Linked => UpInQueue \/ hand = GoUp \/ rres = "Upgraded" \/ rpc \in Dropping
\* The receiver destroys what it did not receive, or the sender after it has gone.
DestroyedInv == destroyed # {} => rpc \in Dropping
EndInv ==
  rres \in {"Disconnected", "Upgraded"} =>
    Finished /\ Len(queue) = 0 /\ destroyed = {} /\ rpc \notin Folding /\ Len(received) = accepted
ResultInv ==
  /\ rpc \in TryLocs \cup Block \cup {"can", "decr", "cancel", "abortpeek"} => rres \in {"none", "ready"}
  /\ rres = "Upgraded" => rpc \in Dropping \cup {"cancelbump"}
  /\ rpc = "hangup" \/ (rpc = "cancelbump" /\ rres # "ready") => rres = "Upgraded"

\* The count: at each location of the receiver it exceeds the messages counted for
\* by this much.
Uncounted == IF spc = "add" THEN 1 ELSE 0
Stolen == steals - (IF final THEN 1 ELSE 0)
Extra == IF rpc \in {"wait", "abort", "unwake", "cancel"} THEN -1
         ELSE IF rpc = "cancelbump" THEN IF rres = "Upgraded" THEN 0 ELSE -1
         ELSE IF rpc \in {"aborttake", "abortspin"} THEN 1
         ELSE IF rpc \in {"sub", "dropcas", "dropdrain"} THEN local
         ELSE IF rpc \in {"fold", "folded"} THEN Stolen + 1
         ELSE IF rpc = "foldbump" THEN Stolen + 1 - local
         ELSE Stolen
Mid == {"foldstore", "subdisc", "abortdisc"}
Due == Len(queue) - Uncounted + Extra
OverInv ==
  /\ rpc \in Mid \cup {"again", "panic_aborted"} => Over
  /\ Over /\ rpc \notin Mid => cnt = DISCONNECTED
GoneInv ==
  /\ rpc = "gone" => cnt = IF spc = "disc" THEN DISCONNECTED + 1 ELSE DISCONNECTED
  /\ spc \in {"disc", "drain1", "drain2"} => rpc = "gone"
  /\ rpc = "gone" /\ ~Over => Len(queue) <= IF spc \in {"add", "disc", "drain1"} THEN 1 ELSE 0
Spare == final /\ (rpc \in {"look", "fold"} \/ (rpc = "try" /\ steals > 0))
BalanceInv ==
  Open => /\ cnt >= Due /\ (Exact /\ rpc \notin Dropping => cnt = Due)
          /\ Spare => cnt > Due
\* An upper bound of the count.
Limit == accepted + (IF Finished THEN 1 ELSE 0) - Uncounted + blocks
         - (IF rpc \in {"wait", "abort", "unwake", "cancel", "cancelbump"} THEN 2
            ELSE IF rpc = "sub" THEN 1 ELSE 0)
LimitInv == Open => cnt + (IF rpc = "foldbump" THEN local ELSE 0) <= Limit
SendsInv ==
  /\ accepted + (IF sop = "send" /\ spc \in {"check", "push", "link"} THEN 1 ELSE 0) <= sent
  /\ sent <= MaxSends
BlocksInv ==
  /\ blocks <= MaxBlocks /\ rtok <= blocks
  /\ rpc \in {"can", "decr"} \/ (rpc \in TryLocs /\ rmode # "try" /\ ~final) => blocks < MaxBlocks
StealsInv ==
  /\ steals >= -1 /\ (~Over => steals <= MAX_STEALS + 1)
  /\ ~Over => steals >= 0
  /\ rpc \in Block \cup {"cancel", "cancelbump"} => steals = 0
  /\ rpc = "abortpeek" => steals \in {0, 1} /\ (~Over => steals = 1)
  /\ final => steals >= 0 /\ (Exact /\ ~Over => steals = 0)
  /\ rpc \in {"sub", "foldbump", "dropcas", "dropdrain"} /\ ~Over => local >= 0
  /\ rpc = "foldbump" /\ ~Over => cnt >= 0
  /\ rpc = "fold" => steals > MAX_STEALS
  /\ rpc \in {"foldbump", "folded"} /\ ~Over => steals = 0
  /\ rpc \in Folding => steals >= 0

\* A token has one owner.
FreedInv ==
  /\ \A t \in Tokens : freed[t] \in {0, 1} /\ (t > blocks => freed[t] = 0)
  /\ toWake # NoToken => freed[toWake] = 0
  /\ stok # NoToken => freed[stok] = 0
  /\ \A t \in 1..blocks : freed[t] = 0 => toWake = t \/ stok = t
  /\ \A t \in woken : t \in 1..blocks /\ freed[t] = 1
  /\ rpc = "wait" /\ freed[rtok] = 1 => rtok \in woken
HolderInv ==
  /\ toWake <= blocks /\ stok <= blocks
  /\ spc \in {"clear", "signal", "inherited"} => stok # NoToken
  /\ stok # NoToken => spc \in {"clear", "signal", "inherited", "drop"}
  /\ stok # NoToken /\ toWake = stok => spc = "clear"
  /\ spc = "clear" => stok = toWake
TakerInv ==
  spc \in {"take", "clear"} => toWake # NoToken /\ rpc \notin {"sub", "subdisc", "unwake", "aborttake"}
\* A count below zero is there to be seen: nobody was told yet.
ArmedInv ==
  Open /\ cnt < 0 => /\ toWake # NoToken /\ rpc \in {"wait", "abort"}
                     /\ spc \notin {"take", "clear"} /\ (spc = "drop" => stok = NoToken)
ToWakeInv ==
  /\ rpc \in Block => toWake \in {NoToken, rtok} /\ rtok \in 1..blocks
  /\ rpc \notin Block \cup {"panic_aborted"} => toWake = NoToken
  /\ rpc \in {"sub", "unwake", "subdisc", "aborttake"} => toWake = rtok
\* An upgrade that took the token found the queue empty before it; the receiver finds
\* it there and blocks no more.
Cloning == (sop = "clone" /\ spc \in {"take", "clear"}) \/ (spc = "drop" /\ stok # NoToken)
CloneInv ==
  /\ Cloning => rpc \in {"wait", "abort", "abortspin", "abortpeek"} \cup Dropping
  /\ Cloning /\ rpc \in {"wait", "abort", "abortspin", "abortpeek"} =>
       Len(queue) = 1 /\ queue[1] = GoUp
  /\ Cloning /\ rpc \in {"wait", "abort"} => rtok = IF spc = "drop" THEN stok ELSE toWake

\* What the receiver has seen stays so, and its location fits its call.
SeenInv ==
  /\ rpc = "look" /\ final /\ Exact => Over
  /\ rpc = "try" /\ rmode = "select" => Len(queue) > 0 /\ queue[1] = GoUp
ModeInv ==
  /\ final => rpc \in TryLocs /\ rmode \in {"recv", "timeout"}
  /\ rpc \in AbortLocs \cup {"abortpeek"} => /\ rmode \in {"timeout", "select"}
                                             /\ rmode = "timeout" => ~Exact
  /\ rpc \in AbortLocs => (aborted = "none" => rtok \in woken)
  /\ rpc \in {"can", "cancel", "cancelbump"} => rmode = "select"
  /\ rpc \in {"decr", "sub", "subdisc", "unwake", "wait"} => rmode # "try"

IInv ==
  /\ SpscInv /\ TypeInv /\ PushInv /\ OpInv /\ OrderInv /\ UpInv /\ DestroyedInv /\ EndInv
  /\ ResultInv /\ OverInv /\ GoneInv /\ BalanceInv /\ LimitInv /\ SendsInv /\ BlocksInv
  /\ StealsInv /\ FreedInv /\ HolderInv /\ TakerInv /\ ArmedInv /\ ToWakeInv /\ CloneInv
  /\ SeenInv /\ ModeInv

-----------------------------------------------------------------------------
(* The recursive list                                                      *)

\* A set of numbers that is not empty has a least element.
LEMMA NatMin ==
  ASSUME NEW T, T \subseteq Nat, T # {}
  PROVE  \E m \in T : \A k \in T : m <= k
<1>1. IsWellFoundedOn(OpToRel(<, Nat), Nat)
  BY NatLessThanWellFounded
<1>2. \E x \in T : \A y \in T : ~ (<<y, x>> \in OpToRel(<, Nat))
  BY <1>1, WFMin
<1>3. \A x, y \in Nat : y < x => <<y, x>> \in OpToRel(<, Nat)
  <2>1. TAKE x, y \in Nat
  <2>2. HAVE y < x
  <2>3. <<y, x>> \in Nat \X Nat /\ <<y, x>>[1] = y /\ <<y, x>>[2] = x
    OBVIOUS
  <2>4. <<y, x>>[1] < <<y, x>>[2]
    BY <2>2, <2>3
  <2>5. QED
    BY <2>3, <2>4, Zenon DEF OpToRel
<1>4. PICK m \in T : \A y \in T : ~ (<<y, m>> \in OpToRel(<, Nat))
  BY <1>2
<1>5. \A k \in T : ~(k < m)
  BY <1>3, <1>4
<1>6. QED
  BY <1>5

\* The recursive Chain computes the list: the least place where it differs from the
\* list cannot be.
LEMMA ChainIs ==
  ASSUME NEW n, NEW s, IsChain(n, s), NodesType
  PROVE  Chain(n) = s
<1> DEFINE N == Len(nodes)
           g == [k \in 0..N |-> [i \in 1..(IF k < Len(s) THEN k + 1 ELSE Len(s)) |-> s[i]]]
           F(f) == [k \in 0..N |->
                      IF k = 0 THEN <<n>>
                      ELSE IF nodes[f[k - 1][Len(f[k - 1])]].next = Null THEN f[k - 1]
                      ELSE Append(f[k - 1], nodes[f[k - 1][Len(f[k - 1])]].next)]
           c == CHOOSE f : f = F(f)
<1>0. N \in Nat
  BY DEF NodesType
<1> USE <1>0
<1>1. \A k \in 0..N : /\ g[k] \in Seq(Nat) 
                      /\ Len(g[k]) = IF k < Len(s) THEN k + 1 ELSE Len(s)
                      /\ \A i \in 1..Len(g[k]) : g[k][i] = s[i]
  BY DEF IsChain
<1>2. g[0] = <<n>>
  <2>1. g[0] = [i \in 1..1 |-> n]
    BY DEF IsChain
  <2>2. QED BY <2>1
<1>3. ASSUME NEW k \in 1..N
      PROVE g[k] = IF nodes[g[k - 1][Len(g[k - 1])]].next = Null THEN g[k - 1]
                      ELSE Append(g[k - 1], nodes[g[k - 1][Len(g[k - 1])]].next)
  <2>0. k - 1 \in 0..N /\ k \in 0..N
    OBVIOUS
  <2>1. CASE k < Len(s)
    <3>1. Len(g[k-1]) = k /\ g[k-1][k] = s[k]
      BY <1>1, <2>0, <2>1 DEF IsChain
    <3>2. nodes[s[k]].next = s[k+1] /\ s[k+1] # Null
      <4>1. k \in 1..Len(s) /\ k + 1 \in 1..Len(s)
        BY <2>1 DEF IsChain
      <4>2. QED
        BY <2>1, <4>1 DEF IsChain, Numbers, Null
    <3>3. g[k] = Append(g[k-1], s[k+1])
      <4>0. s[k+1] \in Nat BY <2>1 DEF IsChain
      <4>1. Append(g[k-1], s[k+1]) \in Seq(Nat)
            /\ Len(Append(g[k-1], s[k+1])) = Len(g[k])
        BY <4>0, <1>1, <2>0, <2>1, <3>1
      <4>2. \A i \in 1..Len(g[k]) : Append(g[k-1], s[k+1])[i] = g[k][i]
        BY <4>0, <1>1, <2>0, <2>1, <3>1
      <4>3. QED BY <4>1, <4>2, <1>1, <2>0, SeqEqual
    <3>4. nodes[g[k-1][Len(g[k-1])]].next = s[k+1]
      BY <3>1, <3>2, Zenon
    <3> HIDE DEF g
    <3>5. QED BY <3>2, <3>3, <3>4
  <2>2. CASE ~(k < Len(s))
    <3>1. Len(g[k-1]) = Len(s) /\ g[k-1][Len(s)] = s[Len(s)]
      BY <1>1, <2>0, <2>2 DEF IsChain
    <3>2. g[k] = g[k-1]
      BY <2>0, <2>2 DEF IsChain
    <3>3. QED BY <3>1, <3>2 DEF IsChain
  <2>3. QED BY <2>1, <2>2
<1>4. g = F(g)
  <2> DEFINE G(k) == IF k = 0 THEN <<n>>
                      ELSE IF nodes[g[k - 1][Len(g[k - 1])]].next = Null THEN g[k - 1]
                      ELSE Append(g[k - 1], nodes[g[k - 1][Len(g[k - 1])]].next)
  <2>1. \A k \in 0..N : g[k] = G(k)
    <3>1. \A k \in 0..N : k = 0 \/ k \in 1..N
      OBVIOUS
    <3> HIDE DEF g
    <3>2. QED
      BY <3>1, <1>2, <1>3
  <2>2. g = [k \in 0..N |-> g[k]]
    OBVIOUS
  <2>3. [k \in 0..N |-> g[k]] = [k \in 0..N |-> G(k)]
    <3> HIDE DEF G, g
    <3>1. QED BY <2>1
  <2>4. QED
    BY <2>2, <2>3, Zenon
<1>5. c = F(c)
  BY <1>4, Zenon
<1> HIDE DEF c
<1>6. \A k \in 0..N : c[k] = g[k]
  <2> HIDE DEF g
  <2> DEFINE T == {k \in 0..N : c[k] # g[k]}
  <2>1. SUFFICES ASSUME T # {} PROVE FALSE OBVIOUS
  <2>2. PICK m \in T : \A k \in T : m <= k
    <3>1. T \subseteq Nat
      OBVIOUS
    <3> HIDE DEF T
    <3>2. QED
      BY <2>1, <3>1, NatMin
  <2>3. m \in 0..N /\ c[m] # g[m] OBVIOUS
  <2>4. c[0] = <<n>>
    BY <1>5
  <2>5. m \in 1..N /\ m - 1 \in 0..N /\ c[m-1] = g[m-1]
    BY <2>2, <2>3, <2>4, <1>2
  <2>6. c[m] = IF nodes[c[m - 1][Len(c[m - 1])]].next = Null THEN c[m - 1]
                      ELSE Append(c[m - 1], nodes[c[m - 1][Len(c[m - 1])]].next)
    <3>1. c[m] = F(c)[m]
      BY <1>5, Zenon
    <3>2. m # 0 /\ m \in 0..N
      BY <2>3, <2>5
    <3>3. QED
      BY <3>1, <3>2, Zenon
  <2>7. QED BY <2>3, <2>5, <2>6, <1>3
<1>7. g[N] = s
  <2>1. N \in 0..N OBVIOUS
  <2>2. Len(g[N]) = Len(s) /\ \A i \in 1..Len(s) : g[N][i] = s[i]
    <3> HIDE DEF g
    <3>1. QED BY <1>1, <2>1 DEF IsChain
  <2>3. QED BY <1>1, <2>1, <2>2, SeqEqual DEF IsChain
<1>8. c[N] = s
  <2> HIDE DEF g
  <2>1. QED BY <1>6, <1>7
<1>9. QED
  BY <1>8, Zenon DEF Chain, c

\* What is on the queue, in terms of the list.
QueueFact ==
  \A a \in Seq(Nat) : \A t \in Nat :
    NodesType /\ Listed(a, t) =>
      queue = [i \in 1..(Len(a) - t) |-> nodes[a[t + i]].value]
\* The queue is the part of the list behind the tail.
LEMMA QueueOfList == QueueFact
<1>1. SUFFICES ASSUME NEW a \in Seq(Nat), NEW t \in Nat, NodesType, Listed(a, t)
      PROVE  queue = [i \in 1..(Len(a) - t) |-> nodes[a[t + i]].value]
  BY DEF QueueFact
<1> DEFINE s == SubSeq(a, t, Len(a))
<1>2. t \in 1..Len(a) /\ Len(a) \in Nat /\ tail = a[t] /\ IsChain(first, a) /\ Len(nodes) \in Nat
  <2>1. Len(a) \in Nat /\ Len(nodes) \in Nat
    BY <1>1 DEF NodesType
  <2>2. t \in 2..Len(a) /\ tail = a[t] /\ IsChain(first, a)
    BY <1>1, Zenon DEF Listed
  <2>3. QED
    BY <2>1, <2>2
<1>3. s \in Seq(Nat) /\ Len(s) = Len(a) - t + 1 /\ \A i \in 1..Len(s) : s[i] = a[t + i - 1]
  BY <1>2
<1> HIDE DEF s
<1>4. IsChain(tail, s)
  <2>1. Len(s) > 0 /\ Len(s) <= Len(nodes) /\ s[1] = tail
    BY <1>2, <1>3 DEF IsChain
  <2>2. ASSUME NEW i \in 1..Len(s)
        PROVE  s[i] \in Numbers /\ nodes[s[i]].next = IF i < Len(s) THEN s[i + 1] ELSE Null
    <3>0. i \in Nat /\ 1 <= i /\ i <= Len(a) - t + 1
      BY <1>2, <1>3
    <3>1. /\ t + i - 1 \in 1..Len(a)
          /\ i < Len(s) => t + i - 1 < Len(a)
          /\ t + i - 1 < Len(a) => i < Len(s)
      BY <1>2, <1>3, <3>0
    <3>2. a[t + i - 1] \in Numbers
          /\ nodes[a[t + i - 1]].next = IF t + i - 1 < Len(a) THEN a[t + i - 1 + 1] ELSE Null
      BY <1>2, <3>1 DEF IsChain
    <3>3. s[i] = a[t + i - 1] /\ (i < Len(s) => s[i + 1] = a[t + i - 1 + 1])
      BY <1>2, <1>3
    <3>4. QED
      BY <3>1, <3>2, <3>3
  <2>3. QED
    BY <1>3, <2>1, <2>2 DEF IsChain
<1>5. Chain(tail) = s
  BY <1>1, <1>4, ChainIs
<1>6. queue = [i \in 1..(Len(s) - 1) |-> nodes[s[i + 1]].value]
  BY <1>5, Zenon DEF queue
<1>7. Len(s) - 1 = Len(a) - t /\ \A i \in 1..(Len(a) - t) : s[i + 1] = a[t + i]
  BY <1>2, <1>3
<1>8. QED
  BY <1>6, <1>7

-----------------------------------------------------------------------------
(* The steps of the queue                                                  *)

\* A function on 1..n is a sequence of length n.
LEMMA SeqOfLength ==
  ASSUME NEW S, NEW n \in Nat, NEW f \in [1..n -> S]
  PROVE  f \in Seq(S) /\ Len(f) = n
  OBVIOUS

\* What a consumer sees of the queue.
Visible ==
  /\ queue \in Seq(Int) /\ \A i \in 1..Len(queue) : queue[i] # None
  /\ HasData <=> queue # <<>>
  /\ queue # <<>> => FrontValue = queue[1]

\* pop and peek find the first element of the queue, if there is one.
LEMMA QueueVisible == SpscInv => Visible
<1>1. SUFFICES ASSUME SpscInv PROVE Visible
  OBVIOUS
<1>2. PICK a \in Seq(Nat), t \in Nat : Listed(a, t)
  BY <1>1 DEF SpscInv
<1>3. queue = [i \in 1..(Len(a) - t) |-> nodes[a[t + i]].value]
  BY <1>1, <1>2, QueueOfList DEF QueueFact, SpscInv
<1>4. Len(a) \in Nat /\ t \in 2..Len(a)
  BY <1>2 DEF Listed
<1>5. \A i \in 1..(Len(a) - t) : /\ t + i \in 1..Len(a) /\ a[t + i] \in Numbers
                                 /\ nodes[a[t + i]].value \in Int
                                 /\ nodes[a[t + i]].value # None
  <2>1. TAKE i \in 1..(Len(a) - t)
  <2>2. t + i \in 1..Len(a) /\ ~(t + i <= t)
    BY <1>4
  <2>3. a[t + i] \in Numbers
    BY <1>2, <2>2 DEF Listed, IsChain
  <2>4. nodes[a[t + i]].value \in Int
    <3>1. nodes \in Seq([value : Int, next : Nat]) /\ a[t + i] \in 1..Len(nodes)
      BY <1>1, <2>3 DEF SpscInv, NodesType, Numbers
    <3>2. nodes[a[t + i]] \in [value : Int, next : Nat]
      BY <3>1, ElementOfSeq
    <3>3. QED
      BY <3>2
  <2>5. nodes[a[t + i]].value # None
    BY <1>2, <2>2 DEF Listed
  <2>6. QED
    BY <2>2, <2>3, <2>4, <2>5
<1>6. Len(a) - t \in Nat /\ \A i \in 1..(Len(a) - t) : queue[i] = nodes[a[t + i]].value
  BY <1>3, <1>4
<1>7. queue \in Seq(Int) /\ Len(queue) = Len(a) - t
  <2> DEFINE n == Len(a) - t
             e(i) == nodes[a[t + i]].value
  <2>1. n \in Nat /\ \A i \in 1..n : e(i) \in Int
    BY <1>5, <1>6
  <2> HIDE DEF n, e
  <2>2. [i \in 1..n |-> e(i)] \in Seq(Int) /\ Len([i \in 1..n |-> e(i)]) = n
    BY <2>1
  <2>3. QED
    BY <1>3, <2>2 DEF n, e
<1>8. t \in 1..Len(a) /\ tail = a[t] /\ Front = IF t < Len(a) THEN a[t + 1] ELSE Null
  BY <1>2, <1>4 DEF Listed, IsChain, Front
<1>9. t < Len(a) => Front # Null
  <2>1. t < Len(a) => t + 1 \in 1..Len(a)
    BY <1>4
  <2>2. QED
    BY <1>2, <1>8, <2>1 DEF Listed, IsChain, Numbers, Null
<1>10. CASE t < Len(a)
  <2>1. Len(queue) # 0 /\ 1 \in 1..(Len(a) - t)
    BY <1>4, <1>7, <1>10
  <2>2. queue # <<>> /\ HasData /\ FrontValue = queue[1]
    BY <1>6, <1>7, <1>8, <1>9, <1>10, <2>1 DEF HasData, FrontValue
  <2>3. QED
    BY <1>5, <1>6, <1>7, <2>2 DEF Visible
<1>11. CASE ~(t < Len(a))
  <2>1. Len(queue) = 0
    BY <1>4, <1>7, <1>11
  <2>2. queue = <<>> /\ ~HasData
    BY <1>7, <1>8, <1>11, <2>1 DEF HasData
  <2>3. QED
    BY <1>7, <2>1, <2>2 DEF Visible
<1>12. QED
  BY <1>10, <1>11

\* Two lists with the same elements behind the tail are the same queue.
LEMMA SameQueue ==
  ASSUME SpscInv, NEW a \in Seq(Nat), NEW t \in Nat, Listed(a, t),
         SpscInv', NEW b \in Seq(Nat), NEW u \in Nat, Listed(b, u)',
         Len(b) - u = Len(a) - t,
         \A i \in 1..(Len(a) - t) : nodes'[b[u + i]].value = nodes[a[t + i]].value
  PROVE  queue' = queue
<1>1. QueueFact'
  BY QueueOfList, PTL
<1>2. queue = [i \in 1..(Len(a) - t) |-> nodes[a[t + i]].value]
  BY QueueOfList DEF QueueFact, SpscInv
<1>3. queue' = [i \in 1..(Len(b) - u) |-> nodes'[b[u + i]].value]
  BY <1>1 DEF QueueFact, SpscInv
<1>4. QED
  BY <1>2, <1>3

\* alloc: a node of the cache or a new one; the queue is not touched.
LEMMA PushAllocStep ==
  ASSUME SpscInv, fresh = Null, NEW v \in Int, v # None, PushAlloc(v)
  PROVE  SpscInv' /\ queue' = queue /\ fresh' # Null /\ nodes'[fresh'].value = v
<1>1. PICK a \in Seq(Nat), t \in Nat : Listed(a, t) /\ HandedOver(a, t)
  BY DEF SpscInv
<1>2. PICK c \in 1..Len(a), p \in 1..Len(a) :
        /\ c <= p /\ a[c] = tailCopy /\ a[p] = tailPrev
        /\ IF due = Null THEN p + 1 = t ELSE p + 2 = t /\ due = a[t - 1]
  BY <1>1 DEF HandedOver
<1>3. Len(a) \in Nat /\ t \in 2..Len(a) /\ Len(nodes) \in Nat /\ Len(a) = Len(nodes)
  BY <1>1 DEF Listed, SpscInv, NodesType
<1>4. /\ a[1] = first /\ a[Len(a)] = head /\ a[t] = tail
      /\ \A i \in 1..Len(a) : a[i] \in 1..Len(nodes)
      /\ \A i \in 1..Len(a) : nodes[a[i]].next = IF i < Len(a) THEN a[i + 1] ELSE Null
      /\ \A i, j \in 1..Len(a) : a[i] = a[j] => i = j
      /\ \A i \in 1..Len(a) : nodes[a[i]].value = None <=> i <= t
  BY <1>1 DEF Listed, IsChain, Numbers
<1>5. \A m \in 1..Len(nodes) : \E i \in 1..Len(a) : a[i] = m
  <2>1. \A m \in 1..Len(nodes) : m # fresh
    BY DEF Null
  <2>2. QED
    BY <1>1, <2>1 DEF Listed, Numbers
<1>6. UNCHANGED <<head, tail, tailPrev, due>>
      /\ tailCopy' = IF first = tailCopy THEN tailPrev ELSE tailCopy
  BY DEF PushAlloc
<1>7. PICK d \in 1..Len(a) : c <= d /\ d <= p /\ a[d] = tailCopy' /\ (first = tailCopy' => d = 1)
                             /\ (first # tailCopy' => d > 1)
  <2>1. CASE first = tailCopy
    <3>1. a[p] = tailCopy' /\ 1 \in 1..Len(a) /\ a[1] = first
      BY <1>2, <1>3, <1>4, <1>6, <2>1
    <3>2. first = a[p] => p = 1
      BY <1>4, <3>1
    <3>3. first # a[p] => p > 1
      BY <1>3, <3>1
    <3>4. QED
      BY <1>2, <1>3, <3>1, <3>2, <3>3
  <2>2. CASE first # tailCopy
    BY <1>2, <1>3, <1>4, <1>6, <2>2
  <2>3. QED
    BY <2>1, <2>2
<1>8. CASE first = tailCopy'
  <2>1. /\ fresh' = Len(nodes) + 1 /\ first' = first
        /\ nodes' = [i \in 1..Len(nodes) \cup {Len(nodes) + 1} |->
                       IF i = Len(nodes) + 1 THEN [value |-> v, next |-> Null] ELSE nodes[i]]
    BY <1>8 DEF PushAlloc
  <2>f. fresh' = Len(nodes) + 1
    BY <2>1
  <2>2. 1..Len(nodes) \cup {Len(nodes) + 1} = 1..(Len(nodes) + 1)
    <3>1. \A n \in Nat : 1..n \cup {n + 1} = 1..(n + 1)
      OBVIOUS
    <3>2. QED
      BY <1>3, <3>1
  <2>3. nodes' \in Seq([value : Int, next : Nat]) /\ Len(nodes') = Len(nodes) + 1
    <3>1. ASSUME NEW i \in 1..(Len(nodes) + 1)
          PROVE  (IF i = Len(nodes) + 1 THEN [value |-> v, next |-> Null] ELSE nodes[i])
                   \in [value : Int, next : Nat]
      <4>1. CASE i = Len(nodes) + 1
        BY <4>1 DEF Null
      <4>2. CASE i # Len(nodes) + 1
        <5>1. i \in 1..Len(nodes)
          BY <1>3, <4>2
        <5>2. nodes \in Seq([value : Int, next : Nat])
          BY DEF SpscInv, NodesType
        <5>3. QED
          BY <4>2, <5>1, <5>2, ElementOfSeq
      <4>3. QED
        BY <4>1, <4>2
    <3>2. Len(nodes) + 1 \in Nat
      BY <1>3
    <3>3. nodes' \in [1..(Len(nodes) + 1) -> [value : Int, next : Nat]]
      BY <2>1, <2>2, <3>1, Zenon
    <3>4. QED
      BY <3>2, <3>3, SeqOfLength
  <2>n. Len(nodes') = Len(nodes) + 1
    BY <2>3
  <2>4. /\ nodes'[Len(nodes) + 1] = [value |-> v, next |-> Null]
        /\ \A i \in 1..Len(nodes) : nodes'[i] = nodes[i]
    BY <1>3, <2>1
  <2>5. Listed(a, t)'
    <3>1. IsChain(first, a)'
      <4>1. \A i \in 1..Len(a) : a[i] \in 1..Len(nodes') /\ nodes'[a[i]].next = nodes[a[i]].next
        <5>1. \A m \in 1..Len(nodes) : m \in 1..Len(nodes')
          BY <1>3, <2>n
        <5>2. QED
          BY <1>4, <2>4, <5>1
      <4>2. Len(a) > 0 /\ Len(a) <= Len(nodes')
        BY <1>3, <2>n
      <4>3. QED
        BY <1>4, <2>1, <4>1, <4>2 DEF IsChain, Numbers
    <3>2. \A m \in 1..Len(nodes') : m = fresh' \/ \E i \in 1..Len(a) : a[i] = m
      <4>1. \A m \in 1..Len(nodes') : m = fresh' \/ m \in 1..Len(nodes)
        BY <1>3, <2>f, <2>n
      <4>2. QED
        BY <1>5, <4>1
    <3>3. \A i \in 1..Len(a) : a[i] # fresh'
      <4>1. \A m \in 1..Len(nodes) : m # fresh'
        BY <1>3, <2>f
      <4>2. QED
        BY <1>4, <4>1
    <3>4. \A i \in 1..Len(a) : nodes'[a[i]].value = None <=> i <= t
      BY <1>4, <2>4
    <3>5. fresh' # Null
      BY <1>3, <2>1 DEF Null
    <3>6. QED
      BY <1>3, <1>4, <1>6, <2>3, <3>1, <3>2, <3>3, <3>4, <3>5 DEF Listed, Numbers
  <2>6. HandedOver(a, t)'
    BY <1>2, <1>6, <1>7 DEF HandedOver
  <2>7. fresh' # Null /\ fresh' \in 1..Len(nodes') /\ nodes'[fresh'].next = Null
        /\ nodes'[fresh'].value = v
    <3>1. fresh' # Null /\ fresh' \in 1..Len(nodes')
      BY <1>3, <2>f, <2>n DEF Null
    <3>2. QED
      BY <2>1, <2>4, <3>1
  <2>8. SpscInv'
    BY <2>3, <2>5, <2>6, <2>7 DEF SpscInv, NodesType, Numbers
  <2>9. \A i \in 1..(Len(a) - t) : nodes'[a[t + i]].value = nodes[a[t + i]].value
    <3>1. \A i \in 1..(Len(a) - t) : t + i \in 1..Len(a)
      BY <1>3
    <3>2. QED
      BY <3>1, <1>4, <2>4
  <2>10. queue' = queue
    BY <1>1, <2>5, <2>8, <2>9, SameQueue
  <2>11. QED
    BY <2>7, <2>8, <2>10
<1>9. CASE first # tailCopy'
  <2> DEFINE b == Tail(a)
  <2>1. /\ fresh' = first /\ first' = nodes[first].next
        /\ nodes' = [i \in 1..Len(nodes) \cup {first} |->
                       IF i = first THEN [value |-> v, next |-> Null] ELSE nodes[i]]
    BY <1>9 DEF PushAlloc
  <2>2. first \in 1..Len(nodes) /\ first # Null /\ 1..Len(nodes) \cup {first} = 1..Len(nodes)
    <3>1. 1 \in 1..Len(a)
      BY <1>3
    <3>2. first \in 1..Len(nodes)
      BY <1>4, <3>1
    <3>3. QED
      BY <1>3, <3>2 DEF Null
  <2>3. nodes' \in Seq([value : Int, next : Nat]) /\ Len(nodes') = Len(nodes)
    <3>1. ASSUME NEW i \in 1..Len(nodes)
          PROVE  (IF i = first THEN [value |-> v, next |-> Null] ELSE nodes[i])
                   \in [value : Int, next : Nat]
      <4>1. nodes \in Seq([value : Int, next : Nat])
        BY DEF SpscInv, NodesType
      <4>2. nodes[i] \in [value : Int, next : Nat]
        BY <4>1, ElementOfSeq
      <4>3. QED
        BY <4>2 DEF Null
    <3>2. nodes' \in [1..Len(nodes) -> [value : Int, next : Nat]]
      BY <2>1, <2>2, <3>1, Zenon
    <3>3. QED
      BY <1>3, <3>2, SeqOfLength
  <2>n. Len(nodes') = Len(nodes)
    BY <2>3
  <2>4. /\ nodes'[first] = [value |-> v, next |-> Null]
        /\ \A i \in 1..Len(nodes) : i # first => nodes'[i] = nodes[i]
    BY <2>1, <2>2
  <2>5. /\ b \in Seq(Nat) /\ Len(b) = Len(a) - 1
        /\ \A i \in 1..Len(b) : b[i] = a[i + 1]
        /\ \A i \in 1..Len(b) : i \in Nat /\ i >= 1 /\ i + 1 \in 1..Len(a) /\ i + 1 # 1
    BY <1>3
  <2> HIDE DEF b
  <2>6. \A i \in 1..Len(b) : b[i] # first /\ b[i] \in 1..Len(nodes) /\ nodes'[b[i]] = nodes[b[i]]
    <3>1. ASSUME NEW i \in 1..Len(b) PROVE a[i + 1] # first /\ a[i + 1] \in 1..Len(nodes)
      <4>1. 1 \in 1..Len(a) /\ i + 1 \in 1..Len(a) /\ i + 1 # 1
        BY <1>3, <2>5
      <4>2. QED
        BY <1>4, <4>1
    <3>2. QED
      BY <2>4, <2>5, <3>1
  <2>7. Listed(b, t - 1)'
    <3>0. Len(b) > 0 /\ Len(b) <= Len(nodes') /\ b[1] = first'
      <4>1. 1 \in 1..Len(b) /\ 1 \in 1..Len(a) /\ 1 < Len(a) /\ 1 + 1 = 2 /\ Len(b) <= Len(nodes')
        <5>1. Len(a) > 1
          BY <1>3
        <5>2. QED
          BY <1>3, <2>n, <2>5, <5>1
      <4>2. b[1] = a[1 + 1] /\ nodes[a[1]].next = a[1 + 1]
        BY <1>4, <2>5, <4>1
      <4>3. QED
        BY <1>4, <2>1, <4>1, <4>2
    <3>1. IsChain(first, b)'
      <4>1. ASSUME NEW i \in 1..Len(b)
            PROVE  nodes'[b[i]].next = IF i < Len(b) THEN b[i + 1] ELSE Null
        <5>1. nodes[a[i + 1]].next = IF i + 1 < Len(a) THEN a[i + 1 + 1] ELSE Null
          BY <1>4, <2>5
        <5>2. i < Len(b) => i + 1 < Len(a) /\ b[i + 1] = a[i + 1 + 1]
          <6>1. i < Len(b) => i + 1 \in 1..Len(b)
            BY <2>5
          <6>2. i < Len(b) => i + 1 < Len(a)
            BY <1>3, <2>5
          <6>3. QED
            BY <2>5, <6>1, <6>2
        <5>3. ~(i < Len(b)) => ~(i + 1 < Len(a))
          BY <1>3, <2>5
        <5>4. QED
          BY <2>5, <2>6, <5>1, <5>2, <5>3
      <4>2. QED
        BY <2>3, <2>5, <2>6, <3>0, <4>1 DEF IsChain, Numbers
    <3>2. ASSUME NEW m \in 1..Len(nodes'), m # fresh' PROVE \E i \in 1..Len(b) : b[i] = m
      <4>1. PICK i \in 1..Len(a) : a[i] = m
        BY <1>5, <2>3
      <4>2. i # 1
        BY <1>4, <2>1, <3>2, <4>1
      <4>3. i - 1 \in 1..Len(b) /\ b[i - 1] = m
        <5>1. i - 1 \in 1..Len(b) /\ i - 1 + 1 = i
          BY <1>3, <2>5, <4>2
        <5>2. b[i - 1] = a[i - 1 + 1]
          BY <2>5, <5>1
        <5>3. QED
          BY <4>1, <5>1, <5>2
      <4>4. QED
        BY <4>3
    <3>3. \A i \in 1..Len(b) : b[i] # fresh'
      BY <2>1, <2>6
    <3>4. \A i, j \in 1..Len(b) : b[i] = b[j] => i = j
      <4>1. SUFFICES ASSUME NEW i \in 1..Len(b), NEW j \in 1..Len(b), b[i] = b[j]
                     PROVE  i = j
        OBVIOUS
      <4>2. i + 1 \in 1..Len(a) /\ j + 1 \in 1..Len(a) /\ a[i + 1] = a[j + 1]
        <5>1. i + 1 \in 1..Len(a) /\ j + 1 \in 1..Len(a)
          BY <1>3, <2>5
        <5>2. b[i] = a[i + 1] /\ b[j] = a[j + 1]
          BY <2>5
        <5>3. QED
          BY <4>1, <5>1, <5>2
      <4>3. i + 1 = j + 1
        BY <1>4, <4>2
      <4>4. QED
        BY <2>5, <4>3
    <3>5. ASSUME NEW i \in 1..Len(b) PROVE nodes'[b[i]].value = None <=> i <= t - 1
      <4>1. i + 1 \in 1..Len(a) /\ b[i] = a[i + 1] /\ nodes'[b[i]] = nodes[a[i + 1]]
        BY <2>5, <2>6
      <4>2. nodes[a[i + 1]].value = None <=> i + 1 <= t
        BY <1>4, <4>1
      <4>3. i + 1 <= t <=> i <= t - 1
        BY <1>3
      <4>4. QED
        BY <4>1, <4>2, <4>3
    <3>6. t - 1 \in 2..Len(b) /\ b[t - 1] = a[t] /\ b[Len(b)] = a[Len(a)]
      <4>1. p > 1 /\ t > p
        BY <1>2, <1>3, <1>7, <1>9
      <4>2. t - 1 \in 2..Len(b) /\ t - 1 \in 1..Len(b) /\ Len(b) \in 1..Len(b)
            /\ t - 1 + 1 = t /\ Len(b) + 1 = Len(a)
        BY <1>3, <2>5, <4>1
      <4>3. b[t - 1] = a[t - 1 + 1] /\ b[Len(b)] = a[Len(b) + 1]
        BY <2>5, <4>2
      <4>4. QED
        BY <4>2, <4>3
    <3>7. fresh' # Null
      BY <2>1, <2>2
    <3>8. QED
      BY <1>3, <1>4, <1>6, <2>3, <2>5, <3>1, <3>2, <3>3, <3>4, <3>5, <3>6, <3>7 DEF Listed, Numbers
  <2>8. HandedOver(b, t - 1)'
    <3>0. /\ d - 1 \in 1..Len(b) /\ p - 1 \in 1..Len(b) /\ t - 1 - 1 \in 1..Len(b)
          /\ d - 1 + 1 = d /\ p - 1 + 1 = p /\ t - 1 - 1 + 1 = t - 1 /\ d - 1 <= p - 1
      <4>1. d > 1 /\ d <= p /\ p < t /\ t <= Len(a)
        BY <1>2, <1>3, <1>7, <1>9
      <4>2. d \in Nat /\ p \in Nat /\ t \in Nat
        BY <1>3
      <4>3. QED
        BY <1>3, <2>5, <4>1, <4>2
    <3>1. b[d - 1] = a[d - 1 + 1] /\ b[p - 1] = a[p - 1 + 1] /\ b[t - 1 - 1] = a[t - 1 - 1 + 1]
      BY <2>5, <3>0
    <3>2. b[d - 1] = tailCopy' /\ b[p - 1] = tailPrev /\ b[t - 1 - 1] = a[t - 1]
      BY <1>2, <1>7, <3>0, <3>1
    <3>3. IF due = Null THEN p - 1 + 1 = t - 1 ELSE p - 1 + 2 = t - 1 /\ due = b[t - 1 - 1]
      BY <1>2, <1>3, <3>2
    <3>4. QED
      BY <1>6, <3>0, <3>2, <3>3 DEF HandedOver
  <2>9. fresh' # Null /\ fresh' \in 1..Len(nodes') /\ nodes'[fresh'].next = Null
        /\ nodes'[fresh'].value = v
    BY <2>1, <2>2, <2>3, <2>4
  <2>10. t - 1 \in Nat
    BY <1>3
  <2>11. SpscInv'
    BY <2>3, <2>5, <2>7, <2>8, <2>9, <2>10 DEF SpscInv, NodesType, Numbers
  <2>12. /\ Len(b) - (t - 1) = Len(a) - t
         /\ \A i \in 1..(Len(a) - t) : nodes'[b[t - 1 + i]].value = nodes[a[t + i]].value
    <3>1. Len(b) - (t - 1) = Len(a) - t
      BY <1>3, <2>5
    <3>2. ASSUME NEW i \in 1..(Len(a) - t)
          PROVE  nodes'[b[t - 1 + i]].value = nodes[a[t + i]].value
      <4>1. i \in Nat /\ i >= 1 /\ i <= Len(a) - t
        BY <1>3
      <4>2. t - 1 + i \in 1..Len(b) /\ t - 1 + i + 1 = t + i
        BY <1>3, <2>5, <4>1
      <4>3. b[t - 1 + i] = a[t - 1 + i + 1] /\ nodes'[b[t - 1 + i]] = nodes[b[t - 1 + i]]
        BY <2>5, <2>6, <4>2
      <4>4. QED
        BY <4>2, <4>3
    <3>3. QED
      BY <3>1, <3>2
  <2>13. queue' = queue
    BY <1>1, <2>5, <2>7, <2>10, <2>11, <2>12, SameQueue
  <2>14. QED
    BY <2>9, <2>11, <2>13
<1>10. QED
  BY <1>8, <1>9

\* Append as a function.
LEMMA AppendIs ==
  ASSUME NEW s \in Seq(Int), NEW x \in Int
  PROVE  Append(s, x) = [i \in 1..(Len(s) + 1) |-> IF i = Len(s) + 1 THEN x ELSE s[i]]
<1> DEFINE n == Len(s) + 1
           f == [i \in 1..n |-> IF i = n THEN x ELSE s[i]]
<1>1. n \in Nat /\ \A i \in 1..n : i # n => i \in 1..Len(s)
  OBVIOUS
<1>2. \A i \in 1..n : (IF i = n THEN x ELSE s[i]) \in Int
  BY <1>1, ElementOfSeq
<1>3. f \in [1..n -> Int]
  BY <1>2
<1>4. f \in Seq(Int) /\ Len(f) = n
  <2> HIDE DEF f, n
  <2>1. QED
    BY <1>1, <1>3, SeqOfLength
<1>5. /\ Append(s, x) \in Seq(Int) /\ Len(Append(s, x)) = n
      /\ \A i \in 1..Len(s) : Append(s, x)[i] = s[i]
      /\ Append(s, x)[n] = x
  BY AppendProperties
<1>6. \A i \in 1..n : Append(s, x)[i] = f[i]
  BY <1>1, <1>5
<1> HIDE DEF f
<1>7. Append(s, x) = f
  BY <1>4, <1>5, <1>6, SeqEqual
<1>8. QED
  BY <1>7 DEF f

\* The store that links the node: what push has in hand is on the queue.
LEMMA PushLinkStep ==
  ASSUME SpscInv, fresh # Null, PushLink
  PROVE  SpscInv' /\ queue' = Append(queue, nodes[fresh].value) /\ fresh' = Null
<1>1. PICK a \in Seq(Nat), t \in Nat : Listed(a, t) /\ HandedOver(a, t)
  BY DEF SpscInv
<1>2. PICK c \in 1..Len(a), p \in 1..Len(a) :
        /\ c <= p /\ a[c] = tailCopy /\ a[p] = tailPrev
        /\ IF due = Null THEN p + 1 = t ELSE p + 2 = t /\ due = a[t - 1]
  BY <1>1 DEF HandedOver
<1>3. Len(a) \in Nat /\ t \in 2..Len(a) /\ Len(nodes) \in Nat /\ Len(a) + 1 = Len(nodes)
  <2>1. Len(a) \in Nat /\ Len(nodes) \in Nat
    BY DEF SpscInv, NodesType
  <2>2. QED
    BY <1>1, <2>1 DEF Listed
<1>4. /\ a[1] = first /\ a[Len(a)] = head /\ a[t] = tail
      /\ \A i \in 1..Len(a) : a[i] \in 1..Len(nodes) /\ a[i] # fresh
      /\ \A i \in 1..Len(a) : nodes[a[i]].next = IF i < Len(a) THEN a[i + 1] ELSE Null
      /\ \A i, j \in 1..Len(a) : a[i] = a[j] => i = j
      /\ \A i \in 1..Len(a) : nodes[a[i]].value = None <=> i <= t
      /\ \A m \in 1..Len(nodes) : m # fresh => \E i \in 1..Len(a) : a[i] = m
  BY <1>1 DEF Listed, IsChain, Numbers
<1>5. fresh \in 1..Len(nodes) /\ nodes[fresh].next = Null /\ nodes[fresh].value # None
  BY DEF SpscInv, Numbers
<1>6. /\ nodes' = [nodes EXCEPT ![head].next = fresh] /\ head' = fresh /\ fresh' = Null
      /\ UNCHANGED <<first, tailCopy, tail, tailPrev, due>>
  BY DEF PushLink
<1>7. head \in 1..Len(nodes) /\ head # fresh /\ Len(a) \in 1..Len(a)
  BY <1>3, <1>4
<1>8. nodes \in Seq([value : Int, next : Nat]) /\ nodes \in [1..Len(nodes) -> [value : Int, next : Nat]]
  <2>1. nodes \in Seq([value : Int, next : Nat])
    BY DEF SpscInv, NodesType
  <2>2. QED
    BY <2>1, LenProperties
<1>9. nodes' \in Seq([value : Int, next : Nat]) /\ Len(nodes') = Len(nodes)
  <2>1. nodes' \in [1..Len(nodes) -> [value : Int, next : Nat]]
    <3>0. fresh \in Nat
      BY <1>3, <1>5
    <3>1. nodes[head] \in [value : Int, next : Nat] /\ fresh \in Nat
      BY <1>7, <1>8, <3>0
    <3>2. [nodes[head] EXCEPT !.next = fresh] \in [value : Int, next : Nat]
      BY <3>1
    <3>3. QED
      BY <1>6, <1>7, <1>8, <3>2
  <2>2. QED
    BY <1>3, <2>1, SeqOfLength
<1>10. /\ \A i \in 1..Len(nodes) : i # head => nodes'[i] = nodes[i]
       /\ nodes'[head].next = fresh
       /\ \A i \in 1..Len(nodes) : nodes'[i].value = nodes[i].value
  <2>1. \A i \in 1..Len(nodes) : nodes'[i] = IF i = head THEN [nodes[head] EXCEPT !.next = fresh] ELSE nodes[i]
    BY <1>6, <1>7, <1>8
  <2>2. nodes[head] \in [value : Int, next : Nat]
    BY <1>7, <1>8
  <2>3. [nodes[head] EXCEPT !.next = fresh].next = fresh
        /\ [nodes[head] EXCEPT !.next = fresh].value = nodes[head].value
    BY <2>2
  <2>4. QED
    BY <1>7, <2>1, <2>3
<1>n. Len(nodes') = Len(nodes)
  BY <1>9
<1>11. PICK b \in Seq(Nat) : /\ Len(b) = Len(a) + 1 /\ b[Len(a) + 1] = fresh
                             /\ \A i \in 1..Len(a) : b[i] = a[i]
  <2>1. fresh \in Nat
    BY <1>3, <1>5
  <2>2. /\ Append(a, fresh) \in Seq(Nat) /\ Len(Append(a, fresh)) = Len(a) + 1
        /\ Append(a, fresh)[Len(a) + 1] = fresh
        /\ \A i \in 1..Len(a) : Append(a, fresh)[i] = a[i]
    BY <2>1, AppendProperties
  <2>3. QED
    BY <2>2
<1>l. Len(b) = Len(a) + 1 /\ Len(b) \in Nat
  BY <1>3, <1>11
<1>12. \A i \in 1..Len(b) : i \in 1..Len(a) \/ i = Len(a) + 1
  <2>1. \A n \in Nat : \A i \in 1..(n + 1) : i \in 1..n \/ i = n + 1
    OBVIOUS
  <2>2. QED
    BY <1>3, <1>l, <2>1
<1>13. Listed(b, t)'
  <2>1. IsChain(first, b)'
    <3>1. Len(b) > 0 /\ Len(b) <= Len(nodes') /\ 1 \in 1..Len(a)
      BY <1>3, <1>11, <1>n
    <3>2. ASSUME NEW i \in 1..Len(b)
          PROVE  b[i] \in 1..Len(nodes') /\ nodes'[b[i]].next = IF i < Len(b) THEN b[i + 1] ELSE Null
      <4>1. CASE i = Len(a) + 1
        <5>1. ~(i < Len(b)) /\ b[i] = fresh
          BY <1>3, <1>11, <4>1
        <5>2. QED
          BY <1>5, <1>7, <1>10, <1>n, <5>1
      <4>2. CASE i = Len(a)
        <5>0. i < Len(b) /\ i \in 1..Len(a) /\ i + 1 = Len(a) + 1
          BY <1>3, <1>11, <4>2
        <5>1. i < Len(b) /\ b[i] = head /\ b[i + 1] = fresh
          BY <1>4, <1>11, <4>2, <5>0
        <5>2. QED
          BY <1>7, <1>10, <1>n, <5>1
      <4>3. CASE i # Len(a) /\ i # Len(a) + 1
        <5>1. i \in 1..Len(a) /\ i < Len(a) /\ i < Len(b) /\ i + 1 \in 1..Len(a)
          BY <1>3, <1>l, <1>12, <4>3
        <5>2. b[i] = a[i] /\ b[i + 1] = a[i + 1]
          BY <1>11, <5>1
        <5>3. a[i] # head /\ a[i] \in 1..Len(nodes)
          BY <1>4, <1>7, <4>3, <5>1
        <5>4. nodes[a[i]].next = a[i + 1]
          BY <1>4, <5>1
        <5>5. QED
          BY <1>10, <1>n, <5>1, <5>2, <5>3, <5>4
      <4>4. QED
        BY <4>1, <4>2, <4>3
    <3>3. b[1] = first'
      BY <1>4, <1>6, <1>11, <3>1
    <3>4. QED
      BY <1>11, <3>1, <3>2, <3>3 DEF IsChain, Numbers
  <2>2. ASSUME NEW m \in 1..Len(nodes') PROVE \E i \in 1..Len(b) : b[i] = m
    <3>1. CASE m = fresh
      <4>1. Len(a) + 1 \in 1..Len(b)
        BY <1>3, <1>11
      <4>2. QED
        BY <1>11, <3>1, <4>1
    <3>2. CASE m # fresh
      <4>1. PICK i \in 1..Len(a) : a[i] = m
        BY <1>4, <1>n, <3>2
      <4>0. i \in 1..Len(b)
        BY <1>3, <1>11
      <4>2. i \in 1..Len(b) /\ b[i] = m
        BY <1>11, <4>0, <4>1
      <4>3. QED
        BY <4>2
    <3>3. QED
      BY <3>1, <3>2
  <2>3. \A i \in 1..Len(b) : b[i] # fresh'
    <3>1. \A i \in 1..Len(b) : b[i] \in 1..Len(nodes)
      BY <1>4, <1>5, <1>11, <1>12
    <3>2. QED
      BY <1>3, <1>6, <3>1 DEF Null
  <2>4. ASSUME NEW i \in 1..Len(b), NEW j \in 1..Len(b), b[i] = b[j] PROVE i = j
    <3>1. CASE i \in 1..Len(a) /\ j \in 1..Len(a)
      BY <1>4, <1>11, <2>4, <3>1
    <3>2. CASE i = Len(a) + 1 /\ j \in 1..Len(a)
      BY <1>4, <1>11, <2>4, <3>2
    <3>3. CASE i \in 1..Len(a) /\ j = Len(a) + 1
      BY <1>4, <1>11, <2>4, <3>3
    <3>4. QED
      BY <1>12, <3>1, <3>2, <3>3
  <2>5. ASSUME NEW i \in 1..Len(b) PROVE nodes'[b[i]].value = None <=> i <= t
    <3>1. CASE i = Len(a) + 1
      <4>1. ~(i <= t)
        BY <1>3, <3>1
      <4>2. nodes'[b[i]].value # None
        BY <1>5, <1>10, <1>11, <3>1
      <4>3. QED
        BY <4>1, <4>2
    <3>2. CASE i \in 1..Len(a)
      <4>1. b[i] = a[i] /\ a[i] \in 1..Len(nodes)
        BY <1>4, <1>11, <3>2
      <4>2. nodes'[b[i]].value = nodes[a[i]].value
        BY <1>10, <4>1
      <4>3. QED
        BY <1>4, <3>2, <4>2
    <3>3. QED
      BY <1>12, <3>1, <3>2
  <2>6. t \in 2..Len(b) /\ b[t] = a[t] /\ b[Len(b)] = fresh
    BY <1>3, <1>11
  <2>7. Len(b) + 0 = Len(nodes')
    BY <1>3, <1>11, <1>n
  <2>8. QED
    BY <1>4, <1>6, <2>1, <2>2, <2>3, <2>4, <2>5, <2>6, <2>7 DEF Listed, Numbers
<1>14. HandedOver(b, t)'
  <2>1. c \in 1..Len(b) /\ p \in 1..Len(b) /\ t - 1 \in 1..Len(a)
    BY <1>3, <1>l
  <2>2. b[c] = a[c] /\ b[p] = a[p] /\ b[t - 1] = a[t - 1]
    BY <1>11, <2>1
  <2>3. QED
    BY <1>2, <1>6, <2>1, <2>2 DEF HandedOver
<1>15. SpscInv'
  BY <1>6, <1>9, <1>11, <1>13, <1>14 DEF SpscInv, NodesType
<1>16. queue' = Append(queue, nodes[fresh].value)
  <2>1. QueueFact'
    BY QueueOfList, PTL
  <2>2. queue = [i \in 1..(Len(a) - t) |-> nodes[a[t + i]].value]
    BY <1>1, QueueOfList DEF QueueFact, SpscInv
  <2>3. queue' = [i \in 1..(Len(b) - t) |-> nodes'[b[t + i]].value]
    BY <1>11, <1>13, <1>15, <2>1 DEF QueueFact, SpscInv
  <2> DEFINE n == Len(a) - t
  <2>4. n \in Nat /\ Len(b) - t = n + 1 /\ t + (n + 1) = Len(a) + 1
    BY <1>3, <1>11
  <2>5. \A i \in 1..n : t + i \in 1..Len(a)
    BY <1>3
  <2>6. queue \in Seq(Int)
    BY QueueVisible DEF Visible
  <2>7. \A i \in 1..n : nodes'[b[t + i]].value = nodes[a[t + i]].value
    BY <1>4, <1>10, <1>11, <2>5
  <2>8. nodes'[b[t + (n + 1)]].value = nodes[fresh].value /\ nodes[fresh].value \in Int
    BY <1>5, <1>8, <1>10, <1>11, <2>4
  <2>q. queue = [i \in 1..n |-> nodes[a[t + i]].value] /\ queue' = [i \in 1..(n + 1) |-> nodes'[b[t + i]].value]
    BY <2>2, <2>3, <2>4
  <2> HIDE DEF n
  <2>9. Len(queue) = n /\ \A i \in 1..n : queue[i] = nodes[a[t + i]].value
    BY <2>4, <2>q
  <2>10. \A i \in 1..(n + 1) : queue'[i] = nodes'[b[t + i]].value
    BY <2>q
  <2>11. \A i \in 1..(n + 1) : queue'[i] = IF i = n + 1 THEN nodes[fresh].value ELSE queue[i]
    <3>1. \A i \in 1..(n + 1) : i = n + 1 \/ i \in 1..n
      BY <2>4
    <3>2. \A i \in 1..n : i # n + 1
      BY <2>4
    <3>3. ASSUME NEW i \in 1..n
          PROVE  queue'[i] = queue[i]
      <4>1. i \in 1..(n + 1)
        BY <2>4
      <4>2. queue'[i] = nodes'[b[t + i]].value
        BY <2>10, <4>1
      <4>3. QED
        BY <2>7, <2>9, <4>2
    <3>4. queue'[n + 1] = nodes[fresh].value
      <4>1. n + 1 \in 1..(n + 1)
        BY <2>4
      <4>2. queue'[n + 1] = nodes'[b[t + (n + 1)]].value
        BY <2>10, <4>1
      <4>3. QED
        BY <2>8, <4>2
    <3>5. QED
      BY <3>1, <3>2, <3>3, <3>4, Zenon
  <2>12. queue' = [i \in 1..(n + 1) |-> IF i = n + 1 THEN nodes[fresh].value ELSE queue[i]]
    BY <2>q, <2>11, Zenon
  <2>13. queue' = [i \in 1..(Len(queue) + 1) |->
                     IF i = Len(queue) + 1 THEN nodes[fresh].value ELSE queue[i]]
    BY <2>9, <2>12
  <2>14. QED
    BY <2>6, <2>8, <2>13, AppendIs
<1>17. QED
  BY <1>6, <1>15, <1>16

\* Tail as a function.
LEMMA TailIs ==
  ASSUME NEW s \in Seq(Int), s # <<>>
  PROVE  Tail(s) = [i \in 1..(Len(s) - 1) |-> s[i + 1]] /\ Len(s) >= 1
<1>1. Len(s) \in Nat /\ Len(s) # 0
  BY EmptySeq
<1>2. Len(s) - 1 \in Nat
  BY <1>1
<1> DEFINE n == Len(s) - 1
           f == [i \in 1..n |-> s[i + 1]]
<1>3. \A i \in 1..n : i + 1 \in 1..Len(s)
  BY <1>1
<1>4. f \in [1..n -> Int]
  BY <1>3, ElementOfSeq
<1>5. f \in Seq(Int) /\ Len(f) = n
  <2> HIDE DEF f, n
  <2>1. QED
    BY <1>2, <1>4, SeqOfLength DEF n
<1>6. Tail(s) \in Seq(Int) /\ Len(Tail(s)) = n /\ \A i \in 1..n : Tail(s)[i] = s[i + 1]
  BY HeadTailProperties
<1>7. \A i \in 1..n : Tail(s)[i] = f[i]
  BY <1>6
<1> HIDE DEF f
<1>8. Tail(s) = f
  BY <1>5, <1>6, <1>7, SeqEqual
<1>9. QED
  BY <1>1, <1>8 DEF f

\* pop takes the value and makes the node the tail.
LEMMA PopStep ==
  ASSUME SpscInv, due = Null, HasData, Pop
  PROVE  /\ SpscInv' /\ queue' = Tail(queue) /\ queue # <<>> /\ fresh' = fresh
         /\ fresh # Null => nodes'[fresh].value = nodes[fresh].value
<1>1. PICK a \in Seq(Nat), t \in Nat : Listed(a, t) /\ HandedOver(a, t)
  BY DEF SpscInv
<1>2. PICK c \in 1..Len(a), p \in 1..Len(a) :
        c <= p /\ a[c] = tailCopy /\ a[p] = tailPrev /\ p + 1 = t
  BY <1>1 DEF HandedOver
<1>3. Len(a) \in Nat /\ t \in 2..Len(a) /\ Len(nodes) \in Nat
      /\ Len(a) + (IF fresh = Null THEN 0 ELSE 1) = Len(nodes)
  <2>1. Len(a) \in Nat /\ Len(nodes) \in Nat
    BY DEF SpscInv, NodesType
  <2>2. QED
    BY <1>1, <2>1 DEF Listed
<1>4. /\ a[1] = first /\ a[Len(a)] = head /\ a[t] = tail
      /\ \A i \in 1..Len(a) : a[i] \in 1..Len(nodes) /\ a[i] # fresh
      /\ \A i \in 1..Len(a) : nodes[a[i]].next = IF i < Len(a) THEN a[i + 1] ELSE Null
      /\ \A i, j \in 1..Len(a) : a[i] = a[j] => i = j
      /\ \A i \in 1..Len(a) : nodes[a[i]].value = None <=> i <= t
      /\ \A m \in 1..Len(nodes) : m = fresh \/ \E i \in 1..Len(a) : a[i] = m
  BY <1>1 DEF Listed, IsChain, Numbers
<1>5. fresh # Null => fresh \in 1..Len(nodes) /\ nodes[fresh].next = Null /\ nodes[fresh].value # None
  BY DEF SpscInv, Numbers
<1>6. t < Len(a) /\ Front = a[t + 1] /\ t + 1 \in 1..Len(a) /\ Len(a) > 0 /\ Len(a) <= Len(nodes)
  <2>1. t \in 1..Len(a)
    BY <1>3
  <2>2. Front = IF t < Len(a) THEN a[t + 1] ELSE Null
    BY <1>4, <2>1 DEF Front
  <2>3. t < Len(a) /\ Front = a[t + 1]
    BY <2>2 DEF HasData
  <2>4. QED
    BY <1>3, <2>3
<1>7. /\ nodes' = [nodes EXCEPT ![Front].value = None] /\ tail' = Front /\ due' = tail
      /\ UNCHANGED <<head, first, tailCopy, fresh, tailPrev>>
  BY DEF Pop
<1>8. Front \in 1..Len(nodes) /\ Front # fresh
  BY <1>4, <1>6
<1>9. nodes \in [1..Len(nodes) -> [value : Int, next : Nat]]
  <2>1. nodes \in Seq([value : Int, next : Nat])
    BY DEF SpscInv, NodesType
  <2>2. QED
    BY <2>1, LenProperties
<1>10. /\ nodes' \in [1..Len(nodes) -> [value : Int, next : Nat]]
       /\ \A i \in 1..Len(nodes) : nodes'[i].next = nodes[i].next
       /\ \A i \in 1..Len(nodes) : i # Front => nodes'[i] = nodes[i]
       /\ nodes'[Front].value = None
  <2>1. nodes[Front] \in [value : Int, next : Nat]
    BY <1>8, <1>9
  <2> DEFINE r == [nodes[Front] EXCEPT !.value = None]
  <2>2. r \in [value : Int, next : Nat] /\ r.value = None /\ r.next = nodes[Front].next
    BY <2>1 DEF None
  <2>3. nodes' = [i \in 1..Len(nodes) |-> IF i = Front THEN r ELSE nodes[i]]
    BY <1>7, <1>8, <1>9
  <2> HIDE DEF r
  <2>4. QED
    BY <1>8, <1>9, <2>2, <2>3
<1>11. nodes' \in Seq([value : Int, next : Nat]) /\ Len(nodes') = Len(nodes)
  BY <1>3, <1>10, SeqOfLength
<1>n. Len(nodes') = Len(nodes)
  BY <1>11
<1>12. Listed(a, t + 1)'
  <2>1. IsChain(first, a)'
    <3>1. \A i \in 1..Len(a) : nodes'[a[i]].next = nodes[a[i]].next
      BY <1>4, <1>10
    <3>2. QED
      BY <1>4, <1>6, <1>7, <1>n, <3>1 DEF IsChain, Numbers
  <2>2. ASSUME NEW i \in 1..Len(a) PROVE nodes'[a[i]].value = None <=> i <= t + 1
    <3>1. CASE i = t + 1
      <4>1. i <= t + 1
        BY <1>3, <3>1
      <4>2. QED
        BY <1>6, <1>10, <3>1, <4>1
    <3>2. CASE i # t + 1
      <4>1. a[i] # Front /\ a[i] \in 1..Len(nodes)
        BY <1>4, <1>6, <3>2
      <4>2. nodes'[a[i]].value = nodes[a[i]].value
        BY <1>10, <4>1
      <4>3. i <= t <=> i <= t + 1
        BY <1>3, <3>2
      <4>4. QED
        BY <1>4, <4>2, <4>3
    <3>3. QED
      BY <3>1, <3>2
  <2>3. t + 1 \in 2..Len(a)
    BY <1>3, <1>6
  <2>4. QED
    BY <1>3, <1>4, <1>6, <1>7, <1>n, <2>1, <2>2, <2>3 DEF Listed, Numbers
<1>13. HandedOver(a, t + 1)'
  <2>1. p + 2 = t + 1 /\ tail = a[t + 1 - 1] /\ tail # Null
    <3>1. t + 1 - 1 = t /\ t \in 1..Len(a)
      BY <1>3
    <3>2. tail \in 1..Len(nodes)
      BY <1>4, <3>1
    <3>3. QED
      BY <1>2, <1>3, <1>4, <3>1, <3>2 DEF Null
  <2>2. QED
    BY <1>2, <1>7, <2>1 DEF HandedOver
<1>14. fresh # Null => nodes'[fresh] = nodes[fresh]
  BY <1>5, <1>8, <1>10
<1>15. SpscInv'
  <2>1. t + 1 \in Nat
    OBVIOUS
  <2>2. QED
    BY <1>5, <1>7, <1>11, <1>12, <1>13, <1>14, <2>1 DEF SpscInv, NodesType, Numbers
<1>16. queue' = Tail(queue) /\ queue # <<>>
  <2>1. QueueFact'
    BY QueueOfList, PTL
  <2>2. queue = [i \in 1..(Len(a) - t) |-> nodes[a[t + i]].value]
    BY <1>1, QueueOfList DEF QueueFact, SpscInv
  <2>t. t + 1 \in Nat
    OBVIOUS
  <2>3. queue' = [i \in 1..(Len(a) - (t + 1)) |-> nodes'[a[t + 1 + i]].value]
    BY <1>12, <1>15, <2>1, <2>t DEF QueueFact, SpscInv
  <2>4. queue \in Seq(Int) /\ queue # <<>>
    BY QueueVisible DEF Visible
  <2> DEFINE n == Len(a) - t
  <2>5. n \in Nat /\ Len(a) - (t + 1) = n - 1
    BY <1>3, <1>6
  <2>6. Len(queue) = n /\ \A i \in 1..n : queue[i] = nodes[a[t + i]].value
    <3>1. queue = [i \in 1..n |-> nodes[a[t + i]].value]
      BY <2>2
    <3> HIDE DEF n
    <3>2. QED
      BY <2>5, <3>1
  <2>7. ASSUME NEW i \in 1..(n - 1) PROVE nodes'[a[t + 1 + i]].value = queue[i + 1]
    <3>0. i \in Nat /\ i >= 1 /\ i <= n - 1
      BY <2>5
    <3>1. i + 1 \in 1..n /\ t + 1 + i \in 1..Len(a) /\ t + 1 + i # t + 1 /\ t + (i + 1) = t + 1 + i
      BY <1>3, <1>6, <2>5, <3>0
    <3>2. a[t + 1 + i] # Front /\ a[t + 1 + i] \in 1..Len(nodes)
      BY <1>4, <1>6, <3>1
    <3>3. nodes'[a[t + 1 + i]] = nodes[a[t + 1 + i]]
      BY <1>10, <3>2
    <3>4. queue[i + 1] = nodes[a[t + (i + 1)]].value
      BY <2>6, <3>1
    <3>5. QED
      BY <3>1, <3>3, <3>4
  <2>8. queue' = [i \in 1..(n - 1) |-> queue[i + 1]]
    <3>1. queue' = [i \in 1..(n - 1) |-> nodes'[a[t + 1 + i]].value]
      BY <2>3, <2>5
    <3> HIDE DEF n
    <3>2. QED
      BY <2>7, <3>1
  <2>9. QED
    BY <2>4, <2>6, <2>8, TailIs
<1>17. QED
  BY <1>7, <1>14, <1>15, <1>16

\* The store to tail_prev: the producer may reuse the old tail.
LEMMA RecycleStep ==
  ASSUME SpscInv, Recycle
  PROVE  SpscInv' /\ queue' = queue /\ fresh' = fresh /\ nodes' = nodes
<1>1. PICK a \in Seq(Nat), t \in Nat : Listed(a, t) /\ HandedOver(a, t)
  BY DEF SpscInv
<1>2. due # Null /\ tailPrev' = due /\ due' = Null /\ UNCHANGED <<nodes, head, first, tailCopy, fresh, tail>>
  BY DEF Recycle, HandedBack
<1>3. PICK c \in 1..Len(a), p \in 1..Len(a) :
        c <= p /\ a[c] = tailCopy /\ a[p] = tailPrev /\ p + 2 = t /\ due = a[t - 1]
  BY <1>1, <1>2 DEF HandedOver
<1>4. Listed(a, t)'
  BY <1>1, <1>2 DEF Listed, IsChain, Numbers
<1>5. HandedOver(a, t)'
  <2>1. t \in 2..Len(a) /\ Len(a) \in Nat
    BY <1>1 DEF Listed
  <2>2. t - 1 \in 1..Len(a) /\ c <= t - 1 /\ t - 1 + 1 = t
    BY <1>3, <2>1
  <2>3. QED
    BY <1>2, <1>3, <2>2 DEF HandedOver
<1>6. SpscInv'
  BY <1>2, <1>4, <1>5 DEF SpscInv, NodesType, Numbers
<1>7. queue' = queue
  BY <1>1, <1>2, <1>4, <1>6, SameQueue
<1>8. QED
  BY <1>2, <1>6, <1>7

\* No step of the queue at all.
LEMMA QueueSame ==
  ASSUME spsc' = spsc
  PROVE  queue' = queue /\ (SpscInv => SpscInv') /\ nodes' = nodes /\ fresh' = fresh
<1>1. UNCHANGED <<nodes, head, first, tailCopy, fresh, tail, tailPrev, due>>
  BY DEF spsc
<1>2. queue' = queue
  BY <1>1 DEF queue, Chain
<1>3. ASSUME SpscInv PROVE SpscInv'
  <2>1. PICK a \in Seq(Nat), t \in Nat : Listed(a, t) /\ HandedOver(a, t)
    BY <1>3 DEF SpscInv
  <2>2. Listed(a, t)'
    BY <1>1, <2>1 DEF Listed, IsChain, Numbers
  <2>3. HandedOver(a, t)'
    BY <1>1, <2>1 DEF HandedOver
  <2>4. QED
    BY <1>1, <1>3, <2>2, <2>3 DEF SpscInv, NodesType, Numbers
<1>4. QED
  BY <1>1, <1>2, <1>3

\* A new queue has two nodes and nothing on it.
LEMMA QueueInit ==
  ASSUME InitSpsc
  PROVE  SpscInv /\ queue = <<>> /\ fresh = Null
<1> DEFINE a == <<1, 2>>
           t == 2
<1>1. /\ nodes = << [value |-> None, next |-> 2], [value |-> None, next |-> Null] >>
      /\ tail = 2 /\ tailPrev = 1 /\ due = Null
      /\ head = 2 /\ first = 1 /\ tailCopy = 1 /\ fresh = Null
  BY DEF InitSpsc
<1>2. NodesType /\ Len(nodes) = 2 /\ nodes[1].next = 2 /\ nodes[2].next = Null
      /\ nodes[1].value = None /\ nodes[2].value = None
  BY <1>1 DEF NodesType, None, Null
<1>3. a \in Seq(Nat) /\ Len(a) = 2 /\ a[1] = 1 /\ a[2] = 2 /\ \A i \in 1..2 : i = 1 \/ i = 2
  OBVIOUS
<1> HIDE DEF a
<1>4. IsChain(first, a)
  BY <1>1, <1>2, <1>3 DEF IsChain, Numbers
<1>5. Listed(a, t)
  BY <1>1, <1>2, <1>3, <1>4 DEF Listed, Numbers, Null
<1>6. HandedOver(a, t)
  BY <1>1, <1>3 DEF HandedOver
<1>7. SpscInv
  BY <1>1, <1>2, <1>3, <1>5, <1>6 DEF SpscInv
<1>8. queue = [i \in 1..(Len(a) - t) |-> nodes[a[t + i]].value]
  BY <1>2, <1>3, <1>5, QueueOfList DEF QueueFact
<1>9. queue = <<>>
  BY <1>3, <1>8
<1>10. QED
  BY <1>1, <1>7, <1>9

\* The list of nodes is whole: the properties of NodesOwned hold of it.
LEMMA ListIsOwned == ASSUME SpscInv PROVE NodesOwned
<1>1. PICK a \in Seq(Nat), t \in Nat : Listed(a, t) /\ HandedOver(a, t)
  BY DEF SpscInv
<1>2. PICK c \in 1..Len(a), p \in 1..Len(a) :
        /\ c <= p /\ a[c] = tailCopy /\ a[p] = tailPrev
        /\ IF due = Null THEN p + 1 = t ELSE p + 2 = t /\ due = a[t - 1]
  BY <1>1 DEF HandedOver
<1>3. Len(a) \in Nat /\ t \in 2..Len(a) /\ Len(nodes) \in Nat
      /\ Len(a) + (IF fresh = Null THEN 0 ELSE 1) = Len(nodes)
  <2>1. Len(a) \in Nat /\ Len(nodes) \in Nat
    BY DEF SpscInv, NodesType
  <2>2. QED
    BY <1>1, <2>1 DEF Listed
<1>4. /\ a[Len(a)] = head /\ a[t] = tail
      /\ \A i \in 1..Len(a) : a[i] \in 1..Len(nodes) /\ a[i] # fresh
      /\ \A i, j \in 1..Len(a) : a[i] = a[j] => i = j
      /\ \A i \in 1..Len(a) : nodes[a[i]].value = None <=> i <= t
      /\ \A m \in 1..Len(nodes) : m = fresh \/ \E i \in 1..Len(a) : a[i] = m
  BY <1>1 DEF Listed, IsChain, Numbers
<1>5. fresh # Null => fresh \in 1..Len(nodes)
  BY DEF SpscInv, Numbers
<1> DEFINE all == Chain(first)
           at(n) == CHOOSE i \in 1..Len(all) : all[i] = n
           inUse == {all[i] : i \in 1..Len(all)}
<1>6. all = a
  BY <1>1, ChainIs DEF Listed, SpscInv
<1> HIDE DEF all
<1>7. \A i \in 1..Len(a) : at(a[i]) = i
  <2>1. TAKE i \in 1..Len(a)
  <2>2. at(a[i]) \in 1..Len(all) /\ all[at(a[i])] = a[i]
    <3>1. \E j \in 1..Len(all) : all[j] = a[i]
      BY <1>6
    <3>2. QED
      BY <3>1, Zenon
  <2> HIDE DEF at
  <2>3. QED
    BY <1>4, <1>6, <2>2
<1>8. t \in 1..Len(a) /\ p < t
  BY <1>2, <1>3
<1>9. at(tail) = t /\ at(tailPrev) = p /\ at(tailCopy) = c
  <2> HIDE DEF at
  <2>1. QED
    BY <1>2, <1>4, <1>7, <1>8
<1>10. tail \in inUse /\ tailPrev \in inUse /\ tailCopy \in inUse
  BY <1>2, <1>4, <1>6, <1>8
<1>11. inUse \cup ({fresh} \ {Null}) = 1..Len(nodes)
  <2>1. \A m \in 1..Len(nodes) : m \in inUse \/ m = fresh
    BY <1>4, <1>6
  <2>2. \A m \in inUse : m \in 1..Len(nodes)
    BY <1>4, <1>6
  <2>3. \A m \in 1..Len(nodes) : m # Null
    BY <1>3 DEF Null
  <2> HIDE DEF inUse
  <2>4. QED
    BY <1>5, <2>1, <2>2, <2>3
<1>12. /\ at(tailPrev) < at(tail) /\ at(tailCopy) <= at(tailPrev)
       /\ \A i \in 1..Len(all) : nodes[all[i]].value = None <=> i <= at(tail)
       /\ Len(all) + (IF fresh = Null THEN 0 ELSE 1) = Len(nodes) /\ all[Len(all)] = head
  <2> HIDE DEF at
  <2>1. QED
    BY <1>2, <1>3, <1>4, <1>6, <1>8, <1>9
<1>13. QED
  BY <1>10, <1>11, <1>12, Zenon DEF NodesOwned, all

-----------------------------------------------------------------------------
(* What the steps of the packet do to the queue                            *)

\* What is known of the elements of the queue.
Elements ==
  /\ Len(queue) \in Nat /\ (queue = <<>> <=> Len(queue) = 0)
  /\ \A i \in 1..Len(queue) : queue[i] \in Int /\ queue[i] # None
  /\ HasData <=> Len(queue) > 0
  /\ Len(queue) > 0 => FrontValue = queue[1]
\* A step takes the first element off the queue, or leaves it alone.
PopEffect ==
  Len(queue') = Len(queue) - 1 /\ \A i \in 1..Len(queue') : queue'[i] = queue[i + 1]
\* From here on nothing else is used of the queue.
Effects ==
  /\ Elements /\ Elements'
  /\ spsc' = spsc \/ SendPush \/ EndPop => queue' = queue
  /\ SendLink => /\ Len(queue') = Len(queue) + 1 /\ queue'[Len(queue')] = Item
                 /\ \A i \in 1..Len(queue) : queue'[i] = queue[i]
  /\ due = Null /\ HasData /\ Pop => PopEffect

\* What is on the queue is a message or an upgrade, and its front is what pop sees.
LEMMA ElementsFact == SpscInv => Elements
<1>1. SUFFICES ASSUME SpscInv PROVE Elements
  OBVIOUS
<1>2. Visible
  BY <1>1, QueueVisible
<1>3. Len(queue) \in Nat /\ (queue = <<>> <=> Len(queue) = 0)
  <2>1. queue \in Seq(Int)
    BY <1>2 DEF Visible
  <2>2. Len(queue) \in Nat
    BY <2>1
  <2>3. queue = <<>> <=> Len(queue) = 0
    BY <2>1, EmptySeq
  <2>4. QED
    BY <2>2, <2>3
<1>4. \A i \in 1..Len(queue) : queue[i] \in Int /\ queue[i] # None
  <2>1. queue \in Seq(Int) /\ \A i \in 1..Len(queue) : queue[i] # None
    BY <1>2 DEF Visible
  <2>2. \A i \in 1..Len(queue) : queue[i] \in Int
    BY <2>1
  <2>3. QED
    BY <2>1, <2>2
<1>5. QED
  BY <1>2, <1>3, <1>4 DEF Visible, Elements

\* Every step keeps the queue's structure, and the node in the sender's hands.
LEMMA QueueStep ==
  ASSUME IInv, Next
  PROVE  SpscInv' /\ PushInv'
<1>inv. SpscInv /\ PushInv /\ OpInv /\ accepted \in Nat /\ sop \in {"send", "clone", "drop"}
  BY DEF IInv, TypeInv, QueueTypes, CallTypes
<1>same. ASSUME spsc' = spsc, spc' = spc \/ {spc, spc'} \cap {"link"} = {},
                spc' = "link" => UNCHANGED <<sop, accepted>>
         PROVE  SpscInv' /\ PushInv'
  <2>1. SpscInv' /\ nodes' = nodes /\ fresh' = fresh
    BY <1>same, <1>inv, QueueSame
  <2>2. QED
    BY <2>1, <1>same, <1>inv DEF PushInv, Item
<1>pop. ASSUME due = Null, HasData, Pop, UNCHANGED <<sop, accepted>>,
               spc' = spc \/ {spc, spc'} \cap {"link"} = {}
        PROVE  SpscInv' /\ PushInv'
  <2>1. /\ SpscInv' /\ fresh' = fresh
        /\ fresh # Null => nodes'[fresh].value = nodes[fresh].value
    BY <1>inv, <1>pop, PopStep
  <2>2. QED
    BY <2>1, <1>pop, <1>inv DEF PushInv, Item
<1>1. CASE SenderCall \/ SendCheck \/ SendAdd \/ SendDisconnected \/ TakeLoad \/ TakeClear \/ Signal
           \/ DropChan
  BY <1>1, <1>same DEF SenderCall, SendCheck, SendAdd, SendDisconnected, TakeLoad,
     TakeClear, Signal, DropChan, AfterSend
<1>2. CASE SendPush
  <2>1. spc = "push" /\ spc' = "link" /\ UNCHANGED <<sop, accepted>> /\ PushAlloc(Item)
    BY <1>2 DEF SendPush, Item
  <2>2. Item \in Int /\ Item # None /\ fresh = Null
    BY <2>1, <1>inv DEF Item, GoUp, None, PushInv
  <2>3. SpscInv' /\ fresh' # Null /\ nodes'[fresh'].value = Item
    BY <2>1, <2>2, <1>inv, PushAllocStep
  <2>4. Item' = Item
    BY <2>1 DEF Item
  <2>5. QED
    BY <2>1, <2>3, <2>4 DEF PushInv
<1>3. CASE SendLink
  <2>1. spc = "link" /\ spc' = "add" /\ PushLink
    BY <1>3 DEF SendLink
  <2>2. SpscInv' /\ fresh' = Null
    BY <2>1, <1>inv, PushLinkStep DEF PushInv
  <2>3. QED
    BY <2>1, <2>2 DEF PushInv
<1>4. CASE SendDrain
  <2>1. /\ spc \in {"drain1", "drain2"} /\ due = Null /\ UNCHANGED <<sop, accepted>> /\ spc' # "link"
        /\ (HasData /\ Pop) \/ spsc' = spsc
    BY <1>4 DEF SendDrain, AfterSend
  <2>2. QED
    BY <2>1, <1>same, <1>pop
<1>5. CASE EndPop
  <2>1. UNCHANGED <<spc, sop, accepted>> /\ Recycle
    BY <1>5 DEF EndPop, sender
  <2>2. SpscInv' /\ fresh' = fresh /\ nodes' = nodes
    BY <2>1, <1>inv, RecycleStep
  <2>3. QED
    BY <2>1, <2>2, <1>inv DEF PushInv, Item
<1>6. CASE due = Null /\ (RecvCall \/ ReceiverStep \/ WaitAborted \/ DropPort)
  <2>1. UNCHANGED <<spc, sop, accepted>>
    BY <1>6 DEF RecvCall, ReceiverStep, WaitAborted, DropPort, sender,
       TryPop, FoldSwap, FoldBump, FoldStore, Folded, TryLook, TryAgain, Decrement,
       DecrementSub, DecrementDisc, DecrementFailed, WaitDone, CanRecv, StartCancel,
       StartCancelBump, AbortBump, AbortDisc, AbortTake, AbortSpin, AbortPeek, DropCas, DropDrain
  <2>2. (HasData /\ Pop) \/ spsc' = spsc
    BY <1>6 DEF RecvCall, ReceiverStep, WaitAborted, DropPort, TakeGoUp,
       TryPop, FoldSwap, FoldBump, FoldStore, Folded, TryLook, TryAgain, Decrement,
       DecrementSub, DecrementDisc, DecrementFailed, WaitDone, CanRecv, StartCancel,
       StartCancelBump, AbortBump, AbortDisc, AbortTake, AbortSpin, AbortPeek, DropCas, DropDrain
  <2>3. QED
    BY <1>6, <2>1, <2>2, <1>same, <1>pop
<1>7. CASE Terminated
  BY <1>7, <1>same DEF Terminated, vars, sender
<1>8. QED
  BY <1>1, <1>2, <1>3, <1>4, <1>5, <1>6, <1>7 DEF Next, SenderStep

\* The effects of the steps on the queue are those of push and pop.
LEMMA QueueEffects == ASSUME IInv, Next PROVE Effects
<1>inv. SpscInv /\ PushInv
  BY DEF IInv
<1>q. queue \in Seq(Int)
  BY <1>inv, QueueVisible DEF Visible
<1>1. Elements
  BY <1>inv, ElementsFact
<1>2. Elements'
  <2>1. SpscInv'
    BY QueueStep
  <2>2. QED
    BY <2>1, ElementsFact, PTL
<1>3. spsc' = spsc => queue' = queue
  BY QueueSame
<1>4. ASSUME SendPush PROVE queue' = queue
  <2>1. spc = "push" /\ PushAlloc(Item) /\ accepted \in Nat
    BY <1>4 DEF SendPush, Item, IInv, TypeInv, QueueTypes
  <2>2. Item \in Int /\ Item # None /\ fresh = Null
    BY <2>1, <1>inv DEF Item, GoUp, None, PushInv
  <2>3. QED
    BY <2>1, <2>2, <1>inv, PushAllocStep
<1>5. ASSUME EndPop PROVE queue' = queue
  BY <1>5, <1>inv, RecycleStep DEF EndPop
<1>6. ASSUME SendLink
      PROVE  /\ Len(queue') = Len(queue) + 1 /\ queue'[Len(queue')] = Item
             /\ \A i \in 1..Len(queue) : queue'[i] = queue[i]
  <2>1. PushLink /\ fresh # Null /\ nodes[fresh].value = Item
    BY <1>6, <1>inv DEF SendLink, PushInv
  <2>2. queue' = Append(queue, Item)
    BY <2>1, <1>inv, PushLinkStep
  <2>3. Item \in Int
    BY DEF Item, GoUp, IInv, TypeInv, QueueTypes
  <2>4. /\ Len(Append(queue, Item)) = Len(queue) + 1 /\ Append(queue, Item)[Len(queue) + 1] = Item
        /\ \A i \in 1..Len(queue) : Append(queue, Item)[i] = queue[i]
    BY <1>q, <2>3
  <2>5. QED
    BY <2>2, <2>4
<1>7. ASSUME due = Null, HasData, Pop PROVE PopEffect
  <2>1. queue' = Tail(queue) /\ queue # <<>>
    BY <1>7, <1>inv, PopStep
  <2>2. Tail(queue) = [i \in 1..(Len(queue) - 1) |-> queue[i + 1]] /\ Len(queue) >= 1
    BY <1>q, <2>1, TailIs
  <2>3. Len(queue) - 1 \in Nat /\ [i \in 1..(Len(queue) - 1) |-> queue[i + 1]] \in [1..(Len(queue) - 1) -> Int]
    BY <1>q, <2>2
  <2>4. Len(queue') = Len(queue) - 1
    BY <2>1, <2>2, <2>3, SeqOfLength
  <2>5. \A i \in 1..(Len(queue) - 1) : queue'[i] = queue[i + 1]
    BY <2>1, <2>2
  <2>6. QED
    BY <2>4, <2>5 DEF PopEffect
<1>8. QED
  BY <1>1, <1>2, <1>3, <1>4, <1>5, <1>6, <1>7 DEF Effects

-----------------------------------------------------------------------------
(* The range of the count                                                  *)

\* The constants, as numbers.
LEMMA Bounds ==
  /\ MaxSends \in Nat /\ MaxBlocks \in Nat /\ MAX_STEALS \in Nat /\ ISIZE_MAX \in Nat
  /\ ISIZE_MAX >= 1 /\ ISIZE_MAX >= MaxSends + MaxBlocks + 1 /\ (MaxBlocks >= 1 => ISIZE_MAX >= 3)
  /\ DISCONNECTED \in Int /\ DISCONNECTED = -ISIZE_MAX - 1
<1>1. /\ MaxSends \in Nat /\ MaxBlocks \in Nat /\ MAX_STEALS \in Nat /\ ISIZE_MAX \in Nat
      /\ ISIZE_MAX > 2 * (MaxSends + MaxBlocks + MAX_STEALS)
  BY StreamAssumption
<1>2. DISCONNECTED \in Int /\ DISCONNECTED = -ISIZE_MAX - 1
  BY <1>1 DEF DISCONNECTED
<1>3. QED
  BY <1>1, <1>2

\* No overflow where there is room.
LEMMA NoWrap ==
  ASSUME NEW x \in Int, DISCONNECTED <= x, x <= ISIZE_MAX
  PROVE  Wrap(x) = x
<1> DEFINE n == 2 * (ISIZE_MAX + 1)
           y == x + ISIZE_MAX + 1
<1>1. n \in Nat \ {0} /\ y \in Nat /\ y < n
  BY Bounds
<1>2. ASSUME NEW k \in Nat, NEW m \in Nat \ {0}, k < m PROVE k % m = k
  BY <1>2
<1>3. y % n = y
  BY <1>1, <1>2
<1>4. QED
  BY <1>1, <1>3, Bounds DEF Wrap

\* Wrapping gives a count.
LEMMA WrapType == \A x \in Int : Wrap(x) \in DISCONNECTED..ISIZE_MAX
<1>1. 2 * (ISIZE_MAX + 1) \in Nat \ {0}
  BY Bounds
<1>2. \A y \in Int : \A n \in Nat \ {0} : y % n \in Int /\ 0 <= y % n /\ y % n <= n - 1
  OBVIOUS
<1>3. SUFFICES ASSUME NEW x \in Int PROVE Wrap(x) \in DISCONNECTED..ISIZE_MAX
  OBVIOUS
<1>4. PICK r \in Int : /\ r = (x + ISIZE_MAX + 1) % (2 * (ISIZE_MAX + 1))
                       /\ 0 <= r /\ r <= 2 * (ISIZE_MAX + 1) - 1
  BY <1>1, <1>2, Bounds
<1>5. Wrap(x) = r - ISIZE_MAX - 1
  BY <1>4 DEF Wrap
<1>6. QED
  BY <1>4, <1>5, Bounds

\* The numbers the packet keeps.
LEMMA Types ==
  ASSUME IInv
  PROVE  /\ cnt \in Int /\ local \in Int /\ steals \in Int /\ final \in BOOLEAN
         /\ accepted \in Nat /\ sent \in Nat /\ blocks \in Nat /\ toWake \in Nat /\ stok \in Nat
         /\ rtok \in Nat /\ hand \in Int /\ Uncounted \in {0, 1} /\ Stolen \in Int /\ Extra \in Int
         /\ Len(queue) \in Nat /\ Due \in Int /\ Limit \in Int
<1>1. /\ cnt \in Int /\ local \in Int /\ steals \in Int /\ final \in BOOLEAN
      /\ accepted \in Nat /\ sent \in Nat /\ blocks \in Nat /\ toWake \in Nat /\ stok \in Nat
      /\ rtok \in Nat /\ hand \in Int
  BY Bounds DEF IInv, TypeInv, QueueTypes, CountTypes, CallTypes, TokenTypes
<1>2. Elements
  BY ElementsFact DEF IInv
<1>3. Len(queue) \in Nat
  BY <1>2 DEF Elements
<1>4. Uncounted \in {0, 1}
  BY DEF Uncounted
<1>5. Stolen \in Int
  BY <1>1 DEF Stolen
<1>6. Extra \in Int
  BY <1>1, <1>5 DEF Extra
<1>7. Due \in Int /\ Limit \in Int
  BY <1>1, <1>3, <1>4, <1>6 DEF Due, Limit
<1>8. QED
  BY <1>1, <1>3, <1>4, <1>5, <1>6, <1>7

\* A sender that still works has not hung up.
LEMMA WhileOpen ==
  ASSUME IInv
  PROVE  /\ spc \in {"idle", "check", "push", "link", "add", "disc", "drain1", "drain2", "drop"} => ~Over
         /\ sop # "drop" /\ spc # "gone" => ~Over
         /\ rpc = "gone" /\ spc # "disc" => cnt = DISCONNECTED
         /\ DISCONNECTED < -1
<1>1. spc \in {"idle", "check", "push", "link", "add", "disc", "drain1", "drain2", "drop"} => ~Over
  BY DEF Over
<1>2. sop # "drop" /\ spc # "gone" => ~Over
  BY DEF Over, IInv, OpInv
<1>3. rpc = "gone" /\ spc # "disc" => cnt = DISCONNECTED
  BY DEF IInv, GoneInv
<1>4. QED
  BY <1>1, <1>2, <1>3, Bounds

\* While both ends are there the count is far from both ends.
LEMMA CountRange ==
  ASSUME IInv, Open
  PROVE  /\ cnt >= -2 /\ (spc # "add" => cnt >= -1) /\ (cnt < 0 => MaxBlocks >= 1)
         /\ cnt + (IF rpc = "foldbump" THEN local ELSE 0) <= Limit
         /\ Limit + Uncounted <= ISIZE_MAX
         /\ rpc = "foldbump" => local >= 0
         /\ rpc = "sub" => local >= 0 /\ cnt - local >= -1
<1>t. /\ cnt \in Int /\ local \in Int /\ steals \in Int /\ final \in BOOLEAN
      /\ accepted \in Nat /\ sent \in Nat /\ blocks \in Nat /\ toWake \in Nat
      /\ rtok \in Nat /\ Uncounted \in {0, 1} /\ Stolen \in Int /\ Extra \in Int
      /\ Len(queue) \in Nat /\ Due \in Int /\ Limit \in Int
  BY Types
<1>inv. StealsInv /\ BalanceInv /\ ArmedInv /\ HolderInv /\ SendsInv /\ BlocksInv /\ LimitInv
  BY DEF IInv
<1>over. ~Over /\ rpc # "gone"
  BY DEF Open
<1>1. cnt >= Due
  BY <1>inv DEF BalanceInv
<1>2. Stolen >= -1
  BY <1>t, <1>inv, <1>over DEF Stolen, StealsInv
<1>3. rpc = "foldbump" => cnt >= 0 /\ local >= 0
  BY <1>inv, <1>over DEF StealsInv
<1>4. rpc \in {"sub", "dropcas", "dropdrain"} => local >= 0
  BY <1>inv, <1>over DEF StealsInv
<1>5. cnt >= -1 - Uncounted
  <2>1. CASE rpc = "foldbump"
    BY <2>1, <1>3, <1>t
  <2>2. CASE rpc # "foldbump"
    <3>1. Extra >= -1
      BY <2>2, <1>2, <1>4, <1>t DEF Extra
    <3>2. QED
      BY <1>1, <3>1, <1>t DEF Due
  <2>3. QED
    BY <2>1, <2>2
<1>6. cnt < 0 => MaxBlocks >= 1
  <2>1. cnt < 0 => toWake # NoToken
    BY <1>inv DEF ArmedInv
  <2>2. QED
    BY <2>1, <1>t, <1>inv, Bounds DEF HolderInv, BlocksInv, NoToken
<1>7. Limit + Uncounted <= ISIZE_MAX
  <2>1. accepted <= MaxSends /\ blocks <= MaxBlocks
    BY <1>inv, <1>t, Bounds DEF SendsInv, BlocksInv
  <2>2. Limit + Uncounted <= accepted + 1 + blocks
    BY <1>t DEF Limit
  <2>3. QED
    BY <2>1, <2>2, <1>t, Bounds
<1>8. cnt + (IF rpc = "foldbump" THEN local ELSE 0) <= Limit
  BY <1>inv DEF LimitInv
<1>9. rpc = "sub" => cnt - local >= -1
  BY <1>1, <1>t DEF Due, Extra
<1>10. cnt >= -2 /\ (spc # "add" => cnt >= -1)
  BY <1>5, <1>t DEF Uncounted
<1>11. QED
  BY <1>3, <1>4, <1>6, <1>7, <1>8, <1>9, <1>10

\* Hence nothing overflows, and the count of an open port is not taken for that of a
\* disconnected one.
LEMMA CountFacts ==
  ASSUME IInv
  PROVE  /\ Open => /\ cnt # DISCONNECTED /\ cnt >= -2 /\ (spc # "add" => cnt >= -1)
                    /\ spc = "add" => Wrap(cnt + 1) = cnt + 1
                    /\ rpc = "sub" => Wrap(cnt - (1 + local)) = cnt - (1 + local)
                    /\ rpc = "cancelbump" => Wrap(cnt + 1) = cnt + 1
                    /\ rpc = "abort" => Wrap(cnt + 2) = cnt + 2
                    /\ rpc = "foldbump" => Wrap(cnt + local) = cnt + local
         /\ Wrap(DISCONNECTED + 1) = DISCONNECTED + 1
<1>t. /\ cnt \in Int /\ local \in Int /\ Uncounted \in {0, 1} /\ Limit \in Int
      /\ accepted \in Nat /\ blocks \in Nat
  BY Types
<1>1. ASSUME Open
      PROVE  /\ cnt # DISCONNECTED /\ cnt >= -2 /\ (spc # "add" => cnt >= -1)
             /\ spc = "add" => Wrap(cnt + 1) = cnt + 1
             /\ rpc = "sub" => Wrap(cnt - (1 + local)) = cnt - (1 + local)
             /\ rpc = "cancelbump" => Wrap(cnt + 1) = cnt + 1
             /\ rpc = "abort" => Wrap(cnt + 2) = cnt + 2
             /\ rpc = "foldbump" => Wrap(cnt + local) = cnt + local
  <2>1. /\ cnt >= -2 /\ (spc # "add" => cnt >= -1) /\ (cnt < 0 => MaxBlocks >= 1)
        /\ cnt + (IF rpc = "foldbump" THEN local ELSE 0) <= Limit
        /\ Limit + Uncounted <= ISIZE_MAX
        /\ rpc = "foldbump" => local >= 0
        /\ rpc = "sub" => local >= 0 /\ cnt - local >= -1
    BY <1>1, CountRange
  <2>2. cnt # DISCONNECTED /\ DISCONNECTED <= -2 /\ DISCONNECTED <= cnt
    BY <2>1, <1>t, Bounds
  <2>3. cnt <= Limit
    BY <2>1, <1>t
  <2>4. ASSUME spc = "add" PROVE cnt + 1 \in Int /\ DISCONNECTED <= cnt + 1 /\ cnt + 1 <= ISIZE_MAX
    <3>1. Uncounted = 1
      BY <2>4 DEF Uncounted
    <3>2. QED
      BY <3>1, <2>1, <2>2, <2>3, <1>t, Bounds
  <2>5. ASSUME rpc = "sub"
        PROVE  /\ cnt - (1 + local) \in Int /\ DISCONNECTED <= cnt - (1 + local)
               /\ cnt - (1 + local) <= ISIZE_MAX
    BY <2>1, <2>2, <2>3, <2>5, <1>t, Bounds
  <2>6. ASSUME rpc \in {"abort", "cancelbump"}
        PROVE  /\ cnt + 1 \in Int /\ DISCONNECTED <= cnt + 1 /\ cnt + 1 <= ISIZE_MAX
               /\ cnt + 2 \in Int /\ DISCONNECTED <= cnt + 2 /\ cnt + 2 <= ISIZE_MAX
    <3>1. accepted <= MaxSends /\ blocks <= MaxBlocks
      <4>1. SendsInv /\ BlocksInv /\ sent \in Nat
        BY Types DEF IInv
      <4>2. QED
        BY <4>1, <1>t, Bounds DEF SendsInv, BlocksInv
    <3>2. Limit + 2 <= MaxSends + MaxBlocks + 1
      BY <3>1, <2>6, <1>t, Bounds DEF Limit
    <3>3. QED
      BY <3>2, <2>2, <2>3, <1>t, Bounds
  <2>7. ASSUME rpc = "foldbump"
        PROVE  cnt + local \in Int /\ DISCONNECTED <= cnt + local /\ cnt + local <= ISIZE_MAX
    BY <2>1, <2>2, <2>7, <1>t, Bounds
  <2>8. spc = "add" => Wrap(cnt + 1) = cnt + 1
    BY <2>4, NoWrap
  <2>9. rpc = "sub" => Wrap(cnt - (1 + local)) = cnt - (1 + local)
    BY <2>5, NoWrap
  <2>10. rpc = "cancelbump" => Wrap(cnt + 1) = cnt + 1
    BY <2>6, NoWrap
  <2>11. rpc = "abort" => Wrap(cnt + 2) = cnt + 2
    BY <2>6, NoWrap
  <2>12. rpc = "foldbump" => Wrap(cnt + local) = cnt + local
    BY <2>7, NoWrap
  <2>13. QED
    BY <2>1, <2>2, <2>8, <2>9, <2>10, <2>11, <2>12
<1>2. Wrap(DISCONNECTED + 1) = DISCONNECTED + 1
  BY Bounds, NoWrap
<1>3. QED
  BY <1>1, <1>2

\* The assertions of the sender hold.
LEMMA SenderAsserts ==
  ASSUME IInv
  PROVE  /\ spc = "add" => cnt = DISCONNECTED \/ cnt >= -2
         /\ spc = "drop" => cnt = DISCONNECTED \/ cnt = -1 \/ cnt >= 0
         /\ spc = "take" => toWake # NoToken
         /\ spc = "drain2" => ~HasData
<1>t. cnt \in Int /\ Len(queue) \in Nat
  BY Types
<1>1. spc \in {"add", "drop"} => ~Over /\ (rpc = "gone" => cnt = DISCONNECTED)
  BY WhileOpen
<1>2. spc = "add" => cnt = DISCONNECTED \/ cnt >= -2
  BY <1>1, CountFacts DEF Open
<1>3. spc = "drop" => cnt = DISCONNECTED \/ cnt >= -1
  BY <1>1, CountFacts DEF Open
<1>4. spc = "take" => toWake # NoToken
  BY DEF IInv, TakerInv
<1>5. ASSUME spc = "drain2" PROVE ~HasData
  <2>1. rpc = "gone" /\ ~Over
    BY <1>5, WhileOpen DEF IInv, GoneInv
  <2>2. Len(queue) <= 0
    BY <1>5, <2>1 DEF IInv, GoneInv
  <2>3. Elements
    BY ElementsFact DEF IInv
  <2>4. QED
    BY <2>2, <2>3, <1>t DEF Elements
<1>6. QED
  BY <1>2, <1>3, <1>4, <1>5, <1>t

\* And those of the receiver.
LEMMA ReceiverAsserts ==
  ASSUME IInv
  PROVE  /\ rpc \in {"sub", "cancelbump"} => cnt = DISCONNECTED \/ cnt >= 0
         /\ rpc = "abort" => cnt = DISCONNECTED \/ cnt >= -2
         /\ rpc \in Folding => steals >= 0
         /\ rpc \in {"aborttake", "abortspin"} => steals = 0
         /\ rpc = "aborttake" => toWake # NoToken
         /\ rpc = "abortdisc" /\ aborted = "none" => toWake = NoToken
         /\ rpc = "decr" => toWake = NoToken
         /\ rpc = "look" /\ final /\ Exact => cnt = DISCONNECTED
<1>t. cnt \in Int /\ toWake \in Nat /\ rtok \in Nat /\ blocks \in Nat
  BY Types
<1>inv. OverInv /\ ArmedInv /\ StealsInv /\ ToWakeInv /\ SeenInv /\ ModeInv /\ FreedInv
  BY DEF IInv
<1>1. rpc \in {"sub", "cancelbump", "abort"} /\ ~Open => cnt = DISCONNECTED
  BY <1>inv DEF OverInv, Open, Mid
<1>2. rpc \in {"sub", "cancelbump"} /\ Open => cnt >= 0
  BY <1>inv, <1>t DEF ArmedInv
<1>3. rpc = "abort" /\ Open => cnt >= -2
  BY CountFacts
<1>4. rpc \in Folding => steals >= 0
  BY <1>inv DEF StealsInv
<1>5. rpc \in {"aborttake", "abortspin"} => steals = 0
  BY <1>inv DEF StealsInv, Block, AbortLocs
<1>6. rpc = "aborttake" => toWake # NoToken
  BY <1>inv, <1>t DEF ToWakeInv, Block, AbortLocs, NoToken
<1>7. ASSUME rpc = "abortdisc", aborted = "none", toWake # NoToken PROVE FALSE
  <2>1. toWake = rtok /\ rtok \in woken
    BY <1>7, <1>inv DEF ToWakeInv, ModeInv, Block, AbortLocs
  <2>2. freed[rtok] = 1 /\ freed[toWake] = 0
    BY <1>7, <2>1, <1>inv DEF FreedInv
  <2>3. QED
    BY <2>1, <2>2
<1>8. rpc = "decr" => toWake = NoToken
  BY <1>inv DEF ToWakeInv, Block, AbortLocs
<1>9. rpc = "look" /\ final /\ Exact => cnt = DISCONNECTED
  BY <1>inv DEF SeenInv, OverInv, Mid
<1>10. QED
  BY <1>1, <1>2, <1>3, <1>4, <1>5, <1>6, <1>7, <1>8, <1>9

-----------------------------------------------------------------------------
(* Types                                                                   *)

\* What Free leaves.
LEMMA FreeType ==
  ASSUME NEW t, freed \in [Tokens -> Nat], Free(t)
  PROVE  freed' \in [Tokens -> Nat]
<1>1. freed' = [u \in Tokens |-> IF u = t THEN freed[u] + 1 ELSE freed[u]]
  BY DEF Free
<1>2. QED
  BY <1>1

\* The first element of the queue is a message or an upgrade, and so is what has been
\* popped and not returned.
LEMMA FrontIs ==
  ASSUME IInv
  PROVE  /\ HasData => FrontValue \in Nat /\ FrontValue <= accepted
         /\ rpc \in Folding => hand \in Nat
<1>t. accepted \in Nat /\ Len(queue) \in Nat /\ hand \in Int /\ received \in Seq(Nat)
  BY Types DEF IInv, TypeInv, QueueTypes
<1>e. Elements
  BY ElementsFact DEF IInv
<1>inv. OrderInv /\ UpInv
  BY DEF IInv
<1>1. ASSUME HasData PROVE FrontValue \in Nat /\ FrontValue <= accepted
  <2>1. Len(queue) > 0 /\ FrontValue = queue[1]
    BY <1>1, <1>e DEF Elements
  <2>2. CASE Msgs = 0
    BY <2>1, <2>2, <1>t DEF Msgs, UpInQueue, GoUp
  <2>3. CASE Msgs # 0
    <3>1. Msgs \in Nat /\ Msgs >= 1 /\ Msgs <= accepted
      <4>1. Msgs \in Nat
        BY <2>1, <1>t DEF Msgs
      <4>2. Msgs <= accepted
        BY <1>inv DEF OrderInv
      <4>3. QED
        BY <2>3, <4>1, <4>2
    <3>2. 1 \in 1..Msgs
      BY <3>1
    <3>3. queue[1] = Popped + 1
      BY <3>2, <1>inv DEF OrderInv
    <3>4. QED
      BY <2>1, <3>1, <3>3, <1>t DEF Popped
  <2>4. QED
    BY <2>2, <2>3
<1>2. ASSUME rpc \in Folding PROVE hand \in Nat
  <2>1. hand # None
    BY <1>2, <1>inv DEF UpInv
  <2>2. CASE hand = GoUp
    BY <2>2 DEF GoUp
  <2>3. CASE hand # GoUp
    <3>1. Held = 1
      BY <2>1, <2>3 DEF Held
    <3>2. hand = Len(received) + 1 /\ Len(received) \in Nat
      BY <3>1, <1>inv, <1>t DEF OrderInv
    <3>3. QED
      BY <3>2
  <2>4. QED
    BY <2>2, <2>3
<1>3. QED
  BY <1>1, <1>2

\* The messages.
LEMMA QueueTypesStep ==
  ASSUME IInv, Next
  PROVE  QueueTypes'
<1>eff. Effects
  BY QueueEffects
<1>types. QueueTypes
  BY DEF IInv, TypeInv
<1>front. (HasData => FrontValue \in Nat) /\ (rpc \in Folding => hand \in Nat)
  BY FrontIs
<1>app. \A x \in Nat : received \in Seq(Nat) => Append(received, x) \in Seq(Nat)
  OBVIOUS
<1>same. ASSUME UNCHANGED <<received, destroyed, hand, accepted, sent>> PROVE QueueTypes'
  BY <1>same, <1>types DEF QueueTypes
<1>1. ASSUME
       SendCheck \/ SendPush \/ SendAdd \/ SendDisconnected \/ TakeLoad \/ TakeClear \/
       Signal \/ DropChan \/ EndPop
       PROVE  QueueTypes'
  BY <1>1, <1>same DEF SendCheck, receiver, SendPush, SendAdd, SendDisconnected, TakeLoad,
       TakeClear, Signal, DropChan, EndPop, sender
<1>2. ASSUME SenderCall PROVE QueueTypes'
  BY <1>2, <1>types, <1>front DEF QueueTypes, SenderCall, receiver
<1>3. ASSUME SendLink PROVE QueueTypes'
  BY <1>3, <1>types, <1>front DEF QueueTypes, SendLink, receiver
<1>4. ASSUME SendDrain PROVE QueueTypes'
  BY <1>4, <1>types, <1>front DEF QueueTypes, SendDrain, AfterSend, receiver
<1>5. ASSUME
       RecvCall \/ FoldSwap \/ FoldBump \/ FoldStore \/ TryLook \/ Decrement \/
       DecrementSub \/ DecrementDisc \/ DecrementFailed \/ WaitDone \/ WaitAborted \/
       CanRecv \/ StartCancel \/ StartCancelBump \/ AbortBump \/ AbortDisc \/ AbortTake \/
       AbortSpin \/ AbortPeek \/ DropPort \/ DropCas
       PROVE  QueueTypes'
  BY <1>5, <1>same DEF RecvCall, sender, FoldSwap, FoldBump, FoldStore, TryLook,
       Decrement, DecrementSub, DecrementDisc, DecrementFailed, WaitDone, WaitAborted,
       CanRecv, StartCancel, StartCancelBump, AbortBump, AbortDisc, AbortTake, AbortSpin,
       AbortPeek, DropPort, DropCas
<1>6. ASSUME due = Null, TryPop PROVE QueueTypes'
  BY <1>6, <1>types, <1>app, <1>front DEF QueueTypes, TryPop, Found, FoldDue, Return,
       Offset, GoUp, sender
<1>7. ASSUME due = Null, Folded PROVE QueueTypes'
  <2>1. hand \in Nat
    BY <1>7, <1>front DEF Folded, Folding
  <2>2. QED
    BY <1>7, <1>types, <1>app, <2>1 DEF QueueTypes, None, Folded, Found, Return, Offset,
         GoUp, sender
<1>8. ASSUME due = Null, TryAgain PROVE QueueTypes'
  BY <1>8, <1>types, <1>app, <1>front DEF QueueTypes, TryAgain, Return, Found, Offset,
       GoUp, sender
<1>9. ASSUME due = Null, DropDrain PROVE QueueTypes'
  BY <1>9, <1>types, <1>front DEF QueueTypes, DropDrain, CountDrained, sender
<1>10. CASE Terminated
  BY <1>10, <1>same DEF Terminated, vars, sender, receiver
<1>11. QED
  BY <1>1, <1>2, <1>3, <1>4, <1>5, <1>6, <1>7, <1>8, <1>9, <1>10 DEF Next, SenderStep,
       ReceiverStep

\* The counters.
LEMMA CountTypesStep ==
  ASSUME IInv, Next
  PROVE  CountTypes'
<1>eff. Effects
  BY QueueEffects
<1>types. CountTypes
  BY DEF IInv, TypeInv
<1>same. ASSUME UNCHANGED <<cnt, steals, local, portDropped>> PROVE CountTypes'
  BY <1>same, <1>types DEF CountTypes
<1>1. ASSUME
       SenderCall \/ SendCheck \/ SendPush \/ SendLink \/ SendDrain \/ TakeLoad \/
       TakeClear \/ Signal \/ EndPop
       PROVE  CountTypes'
  BY <1>1, <1>same DEF SenderCall, receiver, SendCheck, SendPush, SendLink, SendDrain,
       TakeLoad, TakeClear, Signal, EndPop, sender
<1>2. ASSUME SendAdd PROVE CountTypes'
  BY <1>2, <1>types, Bounds, WrapType DEF CountTypes, SendAdd, AfterSend, SeesWaiter,
       receiver
<1>3. ASSUME SendDisconnected PROVE CountTypes'
  BY <1>3, <1>types, Bounds, WrapType DEF CountTypes, SendDisconnected, receiver
<1>4. ASSUME DropChan PROVE CountTypes'
  BY <1>4, <1>types, Bounds, WrapType DEF CountTypes, DropChan, NoToken, receiver
<1>5. ASSUME
       RecvCall \/ TryLook \/ WaitDone \/ WaitAborted \/ CanRecv \/ StartCancel \/
       AbortPeek
       PROVE  CountTypes'
  BY <1>5, <1>same DEF RecvCall, sender, TryLook, WaitDone, WaitAborted, CanRecv,
       StartCancel, AbortPeek
<1>6. ASSUME due = Null, TryPop PROVE CountTypes'
  <2>1. UNCHANGED <<cnt, local, portDropped>> /\ steals' \in Int
    BY <1>6, <1>types DEF CountTypes, TryPop, Found, Offset
  <2>2. QED
    BY <1>types, <2>1 DEF CountTypes
<1>7. ASSUME due = Null, FoldSwap PROVE CountTypes'
  BY <1>7, <1>types, Bounds, WrapType DEF CountTypes, FoldSwap, Foldable, AddBack, sender
<1>8. ASSUME due = Null, FoldBump PROVE CountTypes'
  BY <1>8, <1>types, Bounds, WrapType DEF CountTypes, FoldBump, sender
<1>9. ASSUME due = Null, FoldStore PROVE CountTypes'
  BY <1>9, <1>types, Bounds, WrapType DEF CountTypes, FoldStore, sender
<1>10. ASSUME due = Null, Folded PROVE CountTypes'
  BY <1>10, <1>types, Bounds, WrapType DEF CountTypes, Folded, Found, Return, Offset,
       GoUp, sender
<1>11. ASSUME due = Null, TryAgain PROVE CountTypes'
  BY <1>11, <1>types, Bounds, WrapType DEF CountTypes, TryAgain, Return, Found, Offset,
       GoUp, sender
<1>12. ASSUME due = Null, Decrement PROVE CountTypes'
  BY <1>12, <1>types, Bounds, WrapType DEF CountTypes, Decrement, NoToken, sender
<1>13. ASSUME due = Null, DecrementSub PROVE CountTypes'
  BY <1>13, <1>types, Bounds, WrapType DEF CountTypes, DecrementSub, sender
<1>14. ASSUME due = Null, DecrementDisc PROVE CountTypes'
  BY <1>14, <1>types, Bounds, WrapType DEF CountTypes, DecrementDisc, sender
<1>15. ASSUME due = Null, DecrementFailed PROVE CountTypes'
  BY <1>15, <1>types, Bounds, WrapType DEF CountTypes, DecrementFailed, Free, Unannounced,
       NoToken, sender
<1>16. ASSUME due = Null, StartCancelBump PROVE CountTypes'
  BY <1>16, <1>types, Bounds, WrapType DEF CountTypes, StartCancelBump, sender
<1>17. ASSUME due = Null, AbortBump PROVE CountTypes'
  BY <1>17, <1>types, Bounds, WrapType DEF CountTypes, AbortBump, sender
<1>18. ASSUME due = Null, AbortDisc PROVE CountTypes'
  BY <1>18, <1>types, Bounds, WrapType DEF CountTypes, AbortDisc, NoToken, sender
<1>19. ASSUME due = Null, AbortTake PROVE CountTypes'
  BY <1>19, <1>types, Bounds, WrapType DEF CountTypes, AbortTake, Return, DropTaken,
       NoToken, Free, sender
<1>20. ASSUME due = Null, AbortSpin PROVE CountTypes'
  BY <1>20, <1>types, Bounds, WrapType DEF CountTypes, AbortSpin, NoToken, sender
<1>21. ASSUME due = Null, DropPort PROVE CountTypes'
  BY <1>21, <1>types, Bounds, WrapType DEF CountTypes, DropPort, sender
<1>22. ASSUME due = Null, DropCas PROVE CountTypes'
  BY <1>22, <1>types, Bounds, WrapType DEF CountTypes, DropCas, MustDrain, sender
<1>23. ASSUME due = Null, DropDrain PROVE CountTypes'
  BY <1>23, <1>types, Bounds, WrapType DEF CountTypes, DropDrain, CountDrained, sender
<1>24. CASE Terminated
  BY <1>24, <1>same DEF Terminated, vars, sender, receiver
<1>25. QED
  BY <1>1, <1>2, <1>3, <1>4, <1>5, <1>6, <1>7, <1>8, <1>9, <1>10, <1>11, <1>12, <1>13,
       <1>14, <1>15, <1>16, <1>17, <1>18, <1>19, <1>20, <1>21, <1>22, <1>23, <1>24 DEF
       Next, SenderStep, ReceiverStep

\* The tokens.
LEMMA TokenTypesStep ==
  ASSUME IInv, Next
  PROVE  TokenTypes'
<1>eff. Effects
  BY QueueEffects
<1>types. TokenTypes
  BY DEF IInv, TypeInv
<1>same. ASSUME UNCHANGED <<woken, freed, stok, toWake, rtok, blocks>> PROVE TokenTypes'
  BY <1>same, <1>types DEF TokenTypes
<1>1. ASSUME
       SenderCall \/ SendCheck \/ SendPush \/ SendLink \/ SendAdd \/ SendDisconnected \/
       SendDrain \/ DropChan \/ EndPop
       PROVE  TokenTypes'
  BY <1>1, <1>same DEF SenderCall, receiver, SendCheck, SendPush, SendLink, SendAdd,
       SendDisconnected, SendDrain, DropChan, EndPop, sender
<1>2. ASSUME TakeLoad PROVE TokenTypes'
  BY <1>2, <1>types DEF TokenTypes, TakeLoad, NoToken, receiver
<1>3. ASSUME TakeClear PROVE TokenTypes'
  BY <1>3, <1>types DEF TokenTypes, TakeClear, NoToken, receiver
<1>4. ASSUME Signal PROVE TokenTypes'
  <2>1. Free(stok)
    BY <1>4 DEF Signal
  <2>2. freed' \in [Tokens -> Nat]
    BY <1>types, <2>1, FreeType DEF TokenTypes
  <2>3. QED
    BY <1>4, <1>types, <2>2 DEF TokenTypes, Signal, NoToken, receiver
<1>5. ASSUME
       RecvCall \/ TryPop \/ FoldSwap \/ FoldBump \/ FoldStore \/ Folded \/ TryLook \/
       TryAgain \/ DecrementSub \/ DecrementDisc \/ WaitAborted \/ CanRecv \/ StartCancel
       \/ StartCancelBump \/ AbortBump \/ AbortPeek \/ DropPort \/ DropCas \/ DropDrain
       PROVE  TokenTypes'
  BY <1>5, <1>same DEF RecvCall, sender, TryPop, FoldSwap, FoldBump, FoldStore, Folded,
       TryLook, TryAgain, DecrementSub, DecrementDisc, WaitAborted, CanRecv, StartCancel,
       StartCancelBump, AbortBump, AbortPeek, DropPort, DropCas, DropDrain
<1>6. ASSUME due = Null, Decrement PROVE TokenTypes'
  BY <1>6, <1>types DEF TokenTypes, Decrement, NoToken, sender
<1>7. ASSUME due = Null, DecrementFailed PROVE TokenTypes'
  <2>1. Free(rtok)
    BY <1>7 DEF DecrementFailed
  <2>2. freed' \in [Tokens -> Nat]
    BY <1>types, <2>1, FreeType DEF TokenTypes
  <2>3. QED
    BY <1>7, <1>types, <2>2 DEF TokenTypes, DecrementFailed, Unannounced, NoToken, sender
<1>8. ASSUME due = Null, WaitDone PROVE TokenTypes'
  BY <1>8, <1>types DEF TokenTypes, WaitDone, NoToken, sender
<1>9. ASSUME due = Null, AbortDisc PROVE TokenTypes'
  BY <1>9, <1>types DEF TokenTypes, AbortDisc, NoToken, sender
<1>10. ASSUME due = Null, AbortTake PROVE TokenTypes'
  <2>1. Free(toWake) \/ UNCHANGED freed
    BY <1>10 DEF AbortTake, DropTaken
  <2>2. freed' \in [Tokens -> Nat]
    BY <1>types, <2>1, FreeType DEF TokenTypes
  <2>3. QED
    BY <1>10, <1>types, <2>2 DEF TokenTypes, AbortTake, Return, NoToken, sender
<1>11. ASSUME due = Null, AbortSpin PROVE TokenTypes'
  BY <1>11, <1>types DEF TokenTypes, AbortSpin, NoToken, sender
<1>12. CASE Terminated
  BY <1>12, <1>same DEF Terminated, vars, sender, receiver
<1>13. QED
  BY <1>1, <1>2, <1>3, <1>4, <1>5, <1>6, <1>7, <1>8, <1>9, <1>10, <1>11, <1>12 DEF Next,
       SenderStep, ReceiverStep

\* The calls.
LEMMA CallTypesStep ==
  ASSUME IInv, Next
  PROVE  CallTypes'
<1>eff. Effects
  BY QueueEffects
<1>types. CallTypes
  BY DEF IInv, TypeInv
<1>same. ASSUME UNCHANGED <<rmode, final, aborted, rres, sop>> PROVE CallTypes'
  BY <1>same, <1>types DEF CallTypes
<1>1. ASSUME
       SendCheck \/ SendPush \/ SendLink \/ SendAdd \/ SendDisconnected \/ SendDrain \/
       TakeLoad \/ TakeClear \/ Signal \/ EndPop
       PROVE  CallTypes'
  BY <1>1, <1>same DEF SendCheck, receiver, SendPush, SendLink, SendAdd, SendDisconnected,
       SendDrain, TakeLoad, TakeClear, Signal, EndPop, sender
<1>2. ASSUME SenderCall PROVE CallTypes'
  BY <1>2, <1>types, StreamAssumption DEF CallTypes, SenderCall, receiver
<1>3. ASSUME DropChan PROVE CallTypes'
  BY <1>3, <1>types, StreamAssumption DEF CallTypes, DropChan, NoToken, receiver
<1>4. ASSUME
       FoldSwap \/ FoldBump \/ FoldStore \/ Decrement \/ DecrementSub \/ DecrementDisc \/
       StartCancelBump \/ AbortBump \/ AbortDisc \/ AbortSpin \/ DropPort \/ DropCas \/
       DropDrain
       PROVE  CallTypes'
  BY <1>4, <1>same DEF FoldSwap, sender, FoldBump, FoldStore, Decrement, DecrementSub,
       DecrementDisc, StartCancelBump, AbortBump, AbortDisc, AbortSpin, DropPort, DropCas,
       DropDrain
<1>5. ASSUME due = Null, RecvCall PROVE CallTypes'
  BY <1>5, <1>types, StreamAssumption DEF CallTypes, RecvCall, sender
<1>6. ASSUME due = Null, TryPop PROVE CallTypes'
  BY <1>6, <1>types, StreamAssumption DEF CallTypes, TryPop, Found, FoldDue, Return,
       Offset, GoUp, sender
<1>7. ASSUME due = Null, Folded PROVE CallTypes'
  BY <1>7, <1>types, StreamAssumption DEF CallTypes, Folded, Found, Return, Offset, GoUp,
       sender
<1>8. ASSUME due = Null, TryLook PROVE CallTypes'
  BY <1>8, <1>types, StreamAssumption DEF CallTypes, TryLook, Nothing, Return, sender
<1>9. ASSUME due = Null, TryAgain PROVE CallTypes'
  BY <1>9, <1>types, StreamAssumption DEF CallTypes, TryAgain, Return, Found, Offset,
       GoUp, sender
<1>10. ASSUME due = Null, DecrementFailed PROVE CallTypes'
  BY <1>10, <1>types, StreamAssumption DEF CallTypes, DecrementFailed, Free, Unannounced,
       NoToken, sender
<1>11. ASSUME due = Null, WaitDone PROVE CallTypes'
  BY <1>11, <1>types, StreamAssumption DEF CallTypes, WaitDone, NoToken, sender
<1>12. ASSUME due = Null, WaitAborted PROVE CallTypes'
  BY <1>12, <1>types, StreamAssumption DEF CallTypes, WaitAborted, sender
<1>13. ASSUME due = Null, CanRecv PROVE CallTypes'
  BY <1>13, <1>types, StreamAssumption DEF CallTypes, CanRecv, Return, GoUp, sender
<1>14. ASSUME due = Null, StartCancel PROVE CallTypes'
  BY <1>14, <1>types, StreamAssumption DEF CallTypes, StartCancel, TakeGoUp, GoUp, sender
<1>15. ASSUME due = Null, AbortTake PROVE CallTypes'
  BY <1>15, <1>types, StreamAssumption DEF CallTypes, AbortTake, Return, DropTaken,
       NoToken, Free, sender
<1>16. ASSUME due = Null, AbortPeek PROVE CallTypes'
  BY <1>16, <1>types, StreamAssumption DEF CallTypes, AbortPeek, TakeGoUp, GoUp, sender
<1>17. CASE Terminated
  BY <1>17, <1>same DEF Terminated, vars, sender, receiver
<1>18. QED
  BY <1>1, <1>2, <1>3, <1>4, <1>5, <1>6, <1>7, <1>8, <1>9, <1>10, <1>11, <1>12, <1>13,
       <1>14, <1>15, <1>16, <1>17 DEF Next, SenderStep, ReceiverStep

\* The locations: no assertion fails that no aborted call has spoilt.
LEMMA LocTypesStep ==
  ASSUME IInv, Next
  PROVE  LocTypes'
<1>eff. Effects
  BY QueueEffects
<1>types. LocTypes /\ aborted \in {"none", "select", "timeout"} /\ cnt \in Int /\ sop \in {"send", "clone", "drop"}
  BY Types DEF IInv, TypeInv, CallTypes
<1>same. ASSUME UNCHANGED <<spc, rpc, aborted>> PROVE LocTypes'
  BY <1>same, <1>types DEF LocTypes
<1>1. ASSUME
       EndPop
       PROVE  LocTypes'
  BY <1>1, <1>same DEF EndPop, sender, receiver
<1>2. ASSUME SenderCall PROVE LocTypes'
  BY <1>2, <1>types, SenderAsserts, ReceiverAsserts DEF LocTypes, SenderLocs,
       ReceiverLocs, TryLocs, AbortLocs, Block, Folding, Dropping, SenderCall, receiver
<1>3. ASSUME SendCheck PROVE LocTypes'
  BY <1>3, <1>types, SenderAsserts, ReceiverAsserts DEF LocTypes, SenderLocs,
       ReceiverLocs, TryLocs, AbortLocs, Block, Folding, Dropping, SendCheck, AfterSend,
       receiver
<1>4. ASSUME SendPush PROVE LocTypes'
  BY <1>4, <1>types, SenderAsserts, ReceiverAsserts DEF LocTypes, SenderLocs,
       ReceiverLocs, TryLocs, AbortLocs, Block, Folding, Dropping, SendPush, GoUp,
       receiver
<1>5. ASSUME SendLink PROVE LocTypes'
  BY <1>5, <1>types, SenderAsserts, ReceiverAsserts DEF LocTypes, SenderLocs,
       ReceiverLocs, TryLocs, AbortLocs, Block, Folding, Dropping, SendLink, receiver
<1>6. ASSUME SendAdd PROVE LocTypes'
  BY <1>6, <1>types, SenderAsserts, ReceiverAsserts DEF LocTypes, SenderLocs,
       ReceiverLocs, TryLocs, AbortLocs, Block, Folding, Dropping, SendAdd, AfterSend,
       SeesWaiter, receiver
<1>7. ASSUME SendDisconnected PROVE LocTypes'
  BY <1>7, <1>types, SenderAsserts, ReceiverAsserts DEF LocTypes, SenderLocs,
       ReceiverLocs, TryLocs, AbortLocs, Block, Folding, Dropping, SendDisconnected,
       receiver
<1>8. ASSUME SendDrain PROVE LocTypes'
  BY <1>8, <1>types, SenderAsserts, ReceiverAsserts DEF LocTypes, SenderLocs,
       ReceiverLocs, TryLocs, AbortLocs, Block, Folding, Dropping, SendDrain, AfterSend,
       receiver
<1>9. ASSUME TakeLoad PROVE LocTypes'
  BY <1>9, <1>types, SenderAsserts, ReceiverAsserts DEF LocTypes, SenderLocs,
       ReceiverLocs, TryLocs, AbortLocs, Block, Folding, Dropping, TakeLoad, NoToken,
       receiver
<1>10. ASSUME TakeClear PROVE LocTypes'
  BY <1>10, <1>types, SenderAsserts, ReceiverAsserts DEF LocTypes, SenderLocs,
       ReceiverLocs, TryLocs, AbortLocs, Block, Folding, Dropping, TakeClear, NoToken,
       receiver
<1>11. ASSUME Signal PROVE LocTypes'
  BY <1>11, <1>types, SenderAsserts, ReceiverAsserts DEF LocTypes, SenderLocs,
       ReceiverLocs, TryLocs, AbortLocs, Block, Folding, Dropping, Signal, Free, NoToken,
       receiver
<1>12. ASSUME DropChan PROVE LocTypes'
  BY <1>12, <1>types, SenderAsserts, ReceiverAsserts DEF LocTypes, SenderLocs,
       ReceiverLocs, TryLocs, AbortLocs, Block, Folding, Dropping, DropChan, NoToken,
       receiver
<1>13. ASSUME due = Null, RecvCall PROVE LocTypes'
  BY <1>13, <1>types, SenderAsserts, ReceiverAsserts DEF LocTypes, SenderLocs,
       ReceiverLocs, TryLocs, AbortLocs, Block, Folding, Dropping, RecvCall, sender
<1>14. ASSUME due = Null, TryPop PROVE LocTypes'
  BY <1>14, <1>types, SenderAsserts, ReceiverAsserts DEF LocTypes, SenderLocs,
       ReceiverLocs, TryLocs, AbortLocs, Block, Folding, Dropping, TryPop, Found, FoldDue,
       Return, Offset, GoUp, sender
<1>15. ASSUME due = Null, FoldSwap PROVE LocTypes'
  BY <1>15, <1>types, SenderAsserts, ReceiverAsserts DEF LocTypes, SenderLocs,
       ReceiverLocs, TryLocs, AbortLocs, Block, Folding, Dropping, FoldSwap, Foldable,
       AddBack, sender
<1>16. ASSUME due = Null, FoldBump PROVE LocTypes'
  BY <1>16, <1>types, SenderAsserts, ReceiverAsserts DEF LocTypes, SenderLocs,
       ReceiverLocs, TryLocs, AbortLocs, Block, Folding, Dropping, FoldBump, sender
<1>17. ASSUME due = Null, FoldStore PROVE LocTypes'
  BY <1>17, <1>types, SenderAsserts, ReceiverAsserts DEF LocTypes, SenderLocs,
       ReceiverLocs, TryLocs, AbortLocs, Block, Folding, Dropping, FoldStore, sender
<1>18. ASSUME due = Null, Folded PROVE LocTypes'
  BY <1>18, <1>types, SenderAsserts, ReceiverAsserts DEF LocTypes, SenderLocs,
       ReceiverLocs, TryLocs, AbortLocs, Block, Folding, Dropping, Folded, Found, Return,
       Offset, GoUp, sender
<1>19. ASSUME due = Null, TryLook PROVE LocTypes'
  BY <1>19, <1>types, ReceiverAsserts DEF LocTypes, Exact, ReceiverLocs, TryLocs, Folding,
       TryLook, Nothing, Return, sender
<1>20. ASSUME due = Null, TryAgain PROVE LocTypes'
  BY <1>20, <1>types, SenderAsserts, ReceiverAsserts DEF LocTypes, SenderLocs,
       ReceiverLocs, TryLocs, AbortLocs, Block, Folding, Dropping, TryAgain, Return,
       Found, Offset, GoUp, sender
<1>21. ASSUME due = Null, Decrement PROVE LocTypes'
  BY <1>21, <1>types, SenderAsserts, ReceiverAsserts DEF LocTypes, SenderLocs,
       ReceiverLocs, TryLocs, AbortLocs, Block, Folding, Dropping, Decrement, NoToken,
       sender
<1>22. ASSUME due = Null, DecrementSub PROVE LocTypes'
  BY <1>22, <1>types, SenderAsserts, ReceiverAsserts DEF LocTypes, SenderLocs,
       ReceiverLocs, TryLocs, AbortLocs, Block, Folding, Dropping, DecrementSub, sender
<1>23. ASSUME due = Null, DecrementDisc PROVE LocTypes'
  BY <1>23, <1>types, SenderAsserts, ReceiverAsserts DEF LocTypes, SenderLocs,
       ReceiverLocs, TryLocs, AbortLocs, Block, Folding, Dropping, DecrementDisc, sender
<1>24. ASSUME due = Null, DecrementFailed PROVE LocTypes'
  BY <1>24, <1>types, SenderAsserts, ReceiverAsserts DEF LocTypes, SenderLocs,
       ReceiverLocs, TryLocs, AbortLocs, Block, Folding, Dropping, DecrementFailed, Free,
       Unannounced, NoToken, sender
<1>25. ASSUME due = Null, WaitDone PROVE LocTypes'
  BY <1>25, <1>types, SenderAsserts, ReceiverAsserts DEF LocTypes, SenderLocs,
       ReceiverLocs, TryLocs, AbortLocs, Block, Folding, Dropping, WaitDone, NoToken,
       sender
<1>26. ASSUME due = Null, WaitAborted PROVE LocTypes'
  BY <1>26, <1>types, SenderAsserts, ReceiverAsserts DEF LocTypes, SenderLocs,
       ReceiverLocs, TryLocs, AbortLocs, Block, Folding, Dropping, WaitAborted, sender
<1>27. ASSUME due = Null, CanRecv PROVE LocTypes'
  BY <1>27, <1>types, SenderAsserts, ReceiverAsserts DEF LocTypes, SenderLocs,
       ReceiverLocs, TryLocs, AbortLocs, Block, Folding, Dropping, CanRecv, Return, GoUp,
       sender
<1>28. ASSUME due = Null, StartCancel PROVE LocTypes'
  BY <1>28, <1>types, SenderAsserts, ReceiverAsserts DEF LocTypes, SenderLocs,
       ReceiverLocs, TryLocs, AbortLocs, Block, Folding, Dropping, StartCancel, TakeGoUp,
       GoUp, sender
<1>29. ASSUME due = Null, StartCancelBump PROVE LocTypes'
  BY <1>29, <1>types, SenderAsserts, ReceiverAsserts DEF LocTypes, SenderLocs,
       ReceiverLocs, TryLocs, AbortLocs, Block, Folding, Dropping, StartCancelBump, sender
<1>30. ASSUME due = Null, AbortBump PROVE LocTypes'
  BY <1>30, <1>types, SenderAsserts, ReceiverAsserts DEF LocTypes, SenderLocs,
       ReceiverLocs, TryLocs, AbortLocs, Block, Folding, Dropping, AbortBump, sender
<1>31. ASSUME due = Null, AbortDisc PROVE LocTypes'
  BY <1>31, <1>types, SenderAsserts, ReceiverAsserts DEF LocTypes, SenderLocs,
       ReceiverLocs, TryLocs, AbortLocs, Block, Folding, Dropping, AbortDisc, NoToken,
       sender
<1>32. ASSUME due = Null, AbortTake PROVE LocTypes'
  BY <1>32, <1>types, SenderAsserts, ReceiverAsserts DEF LocTypes, SenderLocs,
       ReceiverLocs, TryLocs, AbortLocs, Block, Folding, Dropping, AbortTake, Return,
       DropTaken, NoToken, Free, sender
<1>33. ASSUME due = Null, AbortSpin PROVE LocTypes'
  BY <1>33, <1>types, SenderAsserts, ReceiverAsserts DEF LocTypes, SenderLocs,
       ReceiverLocs, TryLocs, AbortLocs, Block, Folding, Dropping, AbortSpin, NoToken,
       sender
<1>34. ASSUME due = Null, AbortPeek PROVE LocTypes'
  BY <1>34, <1>types, SenderAsserts, ReceiverAsserts DEF LocTypes, SenderLocs,
       ReceiverLocs, TryLocs, AbortLocs, Block, Folding, Dropping, AbortPeek, TakeGoUp,
       GoUp, sender
<1>35. ASSUME due = Null, DropPort PROVE LocTypes'
  BY <1>35, <1>types, SenderAsserts, ReceiverAsserts DEF LocTypes, SenderLocs,
       ReceiverLocs, TryLocs, AbortLocs, Block, Folding, Dropping, DropPort, sender
<1>36. ASSUME due = Null, DropCas PROVE LocTypes'
  BY <1>36, <1>types, SenderAsserts, ReceiverAsserts DEF LocTypes, SenderLocs,
       ReceiverLocs, TryLocs, AbortLocs, Block, Folding, Dropping, DropCas, MustDrain,
       sender
<1>37. ASSUME due = Null, DropDrain PROVE LocTypes'
  BY <1>37, <1>types, SenderAsserts, ReceiverAsserts DEF LocTypes, SenderLocs,
       ReceiverLocs, TryLocs, AbortLocs, Block, Folding, Dropping, DropDrain,
       CountDrained, sender
<1>38. CASE Terminated
  BY <1>38, <1>same DEF Terminated, vars, sender, receiver
<1>39. QED
  BY <1>1, <1>2, <1>3, <1>4, <1>5, <1>6, <1>7, <1>8, <1>9, <1>10, <1>11, <1>12, <1>13,
       <1>14, <1>15, <1>16, <1>17, <1>18, <1>19, <1>20, <1>21, <1>22, <1>23, <1>24, <1>25,
       <1>26, <1>27, <1>28, <1>29, <1>30, <1>31, <1>32, <1>33, <1>34, <1>35, <1>36, <1>37,
       <1>38 DEF Next, SenderStep, ReceiverStep

-----------------------------------------------------------------------------
(* The sender's operations                                                 *)

\* The location of the sender fits its operation.
LEMMA OpInvStep ==
  ASSUME IInv, Next
  PROVE  OpInv'
<1>eff. Effects
  BY QueueEffects
<1>inv. OpInv /\ sop \in {"send", "clone", "drop"} /\ cnt \in Int
  BY Types DEF IInv, TypeInv, CallTypes
<1>same. ASSUME UNCHANGED <<spc, sop>> PROVE OpInv'
  BY <1>same, <1>inv DEF OpInv
<1>1. ASSUME
       EndPop
       PROVE  OpInv'
  BY <1>1, <1>same DEF EndPop, sender, receiver
<1>2. ASSUME SenderCall PROVE OpInv'
  BY <1>2, <1>inv, SenderAsserts DEF OpInv, SenderCall, receiver
<1>3. ASSUME SendCheck PROVE OpInv'
  BY <1>3, <1>inv, SenderAsserts DEF OpInv, SendCheck, AfterSend, receiver
<1>4. ASSUME SendPush PROVE OpInv'
  BY <1>4, <1>inv, SenderAsserts DEF OpInv, SendPush, GoUp, receiver
<1>5. ASSUME SendLink PROVE OpInv'
  BY <1>5, <1>inv, SenderAsserts DEF OpInv, SendLink, receiver
<1>6. ASSUME SendAdd PROVE OpInv'
  BY <1>6, <1>inv, SenderAsserts DEF OpInv, SendAdd, AfterSend, SeesWaiter, receiver
<1>7. ASSUME SendDisconnected PROVE OpInv'
  BY <1>7, <1>inv, SenderAsserts DEF OpInv, SendDisconnected, receiver
<1>8. ASSUME SendDrain PROVE OpInv'
  BY <1>8, <1>inv, SenderAsserts DEF OpInv, SendDrain, AfterSend, receiver
<1>9. ASSUME TakeLoad PROVE OpInv'
  BY <1>9, <1>inv, SenderAsserts DEF OpInv, TakeLoad, NoToken, receiver
<1>10. ASSUME TakeClear PROVE OpInv'
  BY <1>10, <1>inv, SenderAsserts DEF OpInv, TakeClear, NoToken, receiver
<1>11. ASSUME Signal PROVE OpInv'
  BY <1>11, <1>inv, SenderAsserts DEF OpInv, Signal, Free, NoToken, receiver
<1>12. ASSUME DropChan PROVE OpInv'
  BY <1>12, <1>inv, SenderAsserts DEF OpInv, DropChan, NoToken, receiver
<1>13. ASSUME
       RecvCall \/ TryPop \/ FoldSwap \/ FoldBump \/ FoldStore \/ Folded \/ TryLook \/
       TryAgain \/ Decrement \/ DecrementSub \/ DecrementDisc \/ DecrementFailed \/
       WaitDone \/ WaitAborted \/ CanRecv \/ StartCancel \/ StartCancelBump \/ AbortBump
       \/ AbortDisc \/ AbortTake \/ AbortSpin \/ AbortPeek \/ DropPort \/ DropCas \/
       DropDrain
       PROVE  OpInv'
  BY <1>13, <1>same DEF RecvCall, sender, TryPop, FoldSwap, FoldBump, FoldStore, Folded,
       TryLook, TryAgain, Decrement, DecrementSub, DecrementDisc, DecrementFailed,
       WaitDone, WaitAborted, CanRecv, StartCancel, StartCancelBump, AbortBump, AbortDisc,
       AbortTake, AbortSpin, AbortPeek, DropPort, DropCas, DropDrain
<1>14. CASE Terminated
  BY <1>14, <1>same DEF Terminated, vars, sender, receiver
<1>15. QED
  BY <1>1, <1>2, <1>3, <1>4, <1>5, <1>6, <1>7, <1>8, <1>9, <1>10, <1>11, <1>12, <1>13,
       <1>14 DEF Next, SenderStep, ReceiverStep

\* What depends on the sender only is left alone by the receiver.
LEMMA SenderStays ==
  ASSUME UNCHANGED <<spc, sop>>
  PROVE  (Over' <=> Over) /\ (Finished' <=> Finished) /\ Uncounted' = Uncounted
BY DEF Over, Finished, Uncounted

\* A sender that has hung up stays so, and so does one that pushes nothing more.
LEMMA SenderMoves ==
  ASSUME IInv, Next
  PROVE  /\ Over => Over' /\ spc # "drop"
         /\ Finished => Finished'
<1>inv. OpInv /\ OpInv'
  BY OpInvStep DEF IInv
<1>t. sop \in {"send", "clone", "drop"} /\ cnt \in Int
  BY Types DEF IInv, TypeInv, CallTypes
<1>same. ASSUME UNCHANGED <<spc, sop>> PROVE (Over => Over' /\ spc # "drop") /\ (Finished => Finished')
  <2>1. Over => spc # "drop"
    BY DEF Over
  <2>2. QED
    BY <1>same, <2>1, SenderStays
<1>1. CASE SenderCall
  BY <1>1, <1>inv, <1>t, SenderAsserts DEF Over, Finished, OpInv, SenderCall
<1>2. CASE SendCheck
  BY <1>2, <1>inv, <1>t, SenderAsserts DEF Over, Finished, OpInv, SendCheck, AfterSend
<1>3. CASE SendPush
  BY <1>3, <1>inv, <1>t, SenderAsserts DEF Over, Finished, OpInv, SendPush, GoUp
<1>4. CASE SendLink
  BY <1>4, <1>inv, <1>t, SenderAsserts DEF Over, Finished, OpInv, SendLink
<1>5. CASE SendAdd
  BY <1>5, <1>inv, <1>t, SenderAsserts DEF Over, Finished, OpInv, SendAdd, AfterSend,
       SeesWaiter
<1>6. CASE SendDisconnected
  BY <1>6, <1>inv, <1>t, SenderAsserts DEF Over, Finished, OpInv, SendDisconnected
<1>7. CASE SendDrain
  BY <1>7, <1>inv, <1>t, SenderAsserts DEF Over, Finished, OpInv, SendDrain, AfterSend
<1>8. CASE TakeLoad
  BY <1>8, <1>inv, <1>t, SenderAsserts DEF Over, Finished, OpInv, TakeLoad, NoToken
<1>9. CASE TakeClear
  BY <1>9, <1>inv, <1>t, SenderAsserts DEF Over, Finished, OpInv, TakeClear, NoToken
<1>10. CASE Signal
  BY <1>10, <1>inv, <1>t, SenderAsserts DEF Over, Finished, OpInv, Signal, Free, NoToken
<1>11. CASE DropChan
  BY <1>11, <1>inv, <1>t, SenderAsserts DEF Over, Finished, OpInv, DropChan, NoToken
<1>12. CASE EndPop
  BY <1>12, <1>same DEF EndPop, sender
<1>13. CASE due = Null /\ (RecvCall \/ ReceiverStep \/ WaitAborted \/ DropPort)
  BY <1>13, <1>same DEF ReceiverStep, sender, RecvCall, TryPop, FoldSwap, FoldBump,
       FoldStore, Folded, TryLook, TryAgain, Decrement, DecrementSub, DecrementDisc,
       DecrementFailed, WaitDone, WaitAborted, CanRecv, StartCancel, StartCancelBump,
       AbortBump, AbortDisc, AbortTake, AbortSpin, AbortPeek, DropPort, DropCas, DropDrain
<1>14. CASE Terminated
  BY <1>14, <1>same DEF Terminated, vars, sender
<1>15. QED
  BY <1>1, <1>2, <1>3, <1>4, <1>5, <1>6, <1>7, <1>8, <1>9, <1>10, <1>11, <1>12, <1>13,
       <1>14 DEF Next, SenderStep

-----------------------------------------------------------------------------
(* Hanging up                                                              *)

\* A sender that has hung up leaves the count disconnected, once the receiver is not in
\* the middle of restoring it.
LEMMA OverInvStep ==
  ASSUME IInv, Next
  PROVE  OverInv'
<1>eff. Effects
  BY QueueEffects
<1>t. /\ cnt \in Int /\ local \in Int /\ Len(queue) \in Nat /\ steals \in Int
      /\ sop \in {"send", "clone", "drop"}
  BY Types DEF IInv, TypeInv, CallTypes
<1>inv. OverInv /\ OpInv
  BY DEF IInv
<1>moves. (Over => Over' /\ spc # "drop")
  BY SenderMoves
<1>same. ASSUME UNCHANGED <<spc, sop, rpc, cnt>> PROVE OverInv'
  BY <1>same, <1>inv DEF OverInv, Over
<1>1. ASSUME
       EndPop
       PROVE  OverInv'
  BY <1>1, <1>same DEF EndPop, sender, receiver
<1>2. ASSUME SenderCall PROVE OverInv'
  BY <1>2, <1>inv, <1>t, <1>moves, SenderAsserts, WhileOpen DEF Over, OverInv, Mid,
       SenderCall, receiver
<1>3. ASSUME SendCheck PROVE OverInv'
  BY <1>3, <1>inv, <1>t, <1>moves, SenderAsserts, WhileOpen DEF Over, OverInv, Mid,
       SendCheck, AfterSend, receiver
<1>4. ASSUME SendPush PROVE OverInv'
  BY <1>4, <1>inv, <1>t, <1>moves, SenderAsserts, WhileOpen DEF Over, OverInv, Mid,
       SendPush, GoUp, receiver
<1>5. ASSUME SendLink PROVE OverInv'
  BY <1>5, <1>inv, <1>t, <1>moves, SenderAsserts, WhileOpen DEF Over, OverInv, Mid,
       SendLink, receiver
<1>6. ASSUME SendAdd PROVE OverInv'
  <2>1. ~Over /\ rpc' = rpc /\ sop' = sop /\ sop # "drop" /\ spc' \notin {"gone", "inherited"}
    BY <1>6, <1>inv, WhileOpen DEF SendAdd, receiver, OpInv, AfterSend
  <2>2. ~Over'
    BY <2>1 DEF Over
  <2>3. QED
    BY <2>1, <2>2, <1>inv DEF OverInv
<1>7. ASSUME SendDisconnected PROVE OverInv'
  BY <1>7, <1>inv, <1>t, <1>moves, SenderAsserts, WhileOpen DEF Over, OverInv, Mid,
       SendDisconnected, receiver
<1>8. ASSUME SendDrain PROVE OverInv'
  BY <1>8, <1>inv, <1>t, <1>moves, SenderAsserts, WhileOpen DEF Over, OverInv, Mid,
       SendDrain, AfterSend, receiver
<1>9. ASSUME TakeLoad PROVE OverInv'
  BY <1>9, <1>inv, <1>t, <1>moves, SenderAsserts, WhileOpen DEF Over, OverInv, Mid,
       TakeLoad, NoToken, receiver
<1>10. ASSUME TakeClear PROVE OverInv'
  BY <1>10, <1>inv, <1>t, <1>moves, SenderAsserts, WhileOpen DEF Over, OverInv, Mid,
       TakeClear, NoToken, receiver
<1>11. ASSUME Signal PROVE OverInv'
  <2>1. /\ UNCHANGED <<cnt, rpc, sop>> /\ spc \in {"signal", "inherited"}
        /\ spc' = IF sop = "send" THEN "idle" ELSE "gone"
    BY <1>11 DEF Signal, receiver
  <2>2. Over' <=> Over
    BY <2>1, <1>inv, <1>t DEF Over, OpInv
  <2>3. QED
    BY <2>1, <2>2, <1>inv DEF OverInv
<1>12. ASSUME DropChan PROVE OverInv'
  BY <1>12, <1>inv, <1>t, <1>moves, SenderAsserts, WhileOpen DEF Over, OverInv, Mid,
       DropChan, NoToken, receiver
<1>13. ASSUME due = Null, RecvCall PROVE OverInv'
  <2>1. (Over' <=> Over) /\ (cnt = DISCONNECTED /\ rpc # "gone" => Over)
    BY <1>13, SenderStays, CountFacts DEF sender, Open, RecvCall
  <2>2. QED
    BY <1>13, <2>1, <1>inv, <1>t, ReceiverAsserts DEF OverInv, Mid, RecvCall, sender
<1>14. ASSUME due = Null, TryPop PROVE OverInv'
  <2>1. (Over' <=> Over) /\ (cnt = DISCONNECTED /\ rpc # "gone" => Over)
    BY <1>14, SenderStays, CountFacts DEF sender, Open, TryPop
  <2>2. QED
    BY <1>14, <2>1, <1>inv, <1>t, ReceiverAsserts DEF OverInv, Mid, TryPop, Found, FoldDue,
         Return, Offset, GoUp, sender
<1>15. ASSUME due = Null, FoldSwap PROVE OverInv'
  <2>1. (Over' <=> Over) /\ (cnt = DISCONNECTED /\ rpc # "gone" => Over)
    BY <1>15, SenderStays, CountFacts DEF sender, Open, FoldSwap
  <2>2. QED
    BY <1>15, <2>1, <1>inv, <1>t, ReceiverAsserts DEF OverInv, Mid, FoldSwap, Foldable,
         AddBack, sender
<1>16. ASSUME due = Null, FoldBump PROVE OverInv'
  <2>1. (Over' <=> Over) /\ (cnt = DISCONNECTED /\ rpc # "gone" => Over)
    BY <1>16, SenderStays, CountFacts DEF sender, Open, FoldBump
  <2>2. QED
    BY <1>16, <2>1, <1>inv, <1>t, ReceiverAsserts DEF OverInv, Mid, FoldBump, sender
<1>17. ASSUME due = Null, FoldStore PROVE OverInv'
  <2>1. (Over' <=> Over) /\ (cnt = DISCONNECTED /\ rpc # "gone" => Over)
    BY <1>17, SenderStays, CountFacts DEF sender, Open, FoldStore
  <2>2. QED
    BY <1>17, <2>1, <1>inv, <1>t, ReceiverAsserts DEF OverInv, Mid, FoldStore, sender
<1>18. ASSUME due = Null, Folded PROVE OverInv'
  <2>1. (Over' <=> Over) /\ (cnt = DISCONNECTED /\ rpc # "gone" => Over)
    BY <1>18, SenderStays, CountFacts DEF sender, Open, Folded
  <2>2. QED
    BY <1>18, <2>1, <1>inv, <1>t, ReceiverAsserts DEF OverInv, Mid, Folded, Found, Return,
         Offset, GoUp, sender
<1>19. ASSUME due = Null, TryLook PROVE OverInv'
  <2>1. (Over' <=> Over) /\ (cnt = DISCONNECTED /\ rpc # "gone" => Over)
    BY <1>19, SenderStays, CountFacts DEF sender, Open, TryLook
  <2>2. QED
    BY <1>19, <2>1, <1>inv, <1>t, ReceiverAsserts DEF OverInv, Mid, TryLook, Nothing,
         Return, sender
<1>20. ASSUME due = Null, TryAgain PROVE OverInv'
  <2>1. (Over' <=> Over) /\ (cnt = DISCONNECTED /\ rpc # "gone" => Over)
    BY <1>20, SenderStays, CountFacts DEF sender, Open, TryAgain
  <2>2. QED
    BY <1>20, <2>1, <1>inv, <1>t, ReceiverAsserts DEF OverInv, Mid, TryAgain, Return,
         Found, Offset, GoUp, sender
<1>21. ASSUME due = Null, Decrement PROVE OverInv'
  <2>1. (Over' <=> Over) /\ (cnt = DISCONNECTED /\ rpc # "gone" => Over)
    BY <1>21, SenderStays, CountFacts DEF sender, Open, Decrement
  <2>2. QED
    BY <1>21, <2>1, <1>inv, <1>t, ReceiverAsserts DEF OverInv, Mid, Decrement, NoToken,
         sender
<1>22. ASSUME due = Null, DecrementSub PROVE OverInv'
  <2>1. (Over' <=> Over) /\ (cnt = DISCONNECTED /\ rpc # "gone" => Over)
    BY <1>22, SenderStays, CountFacts DEF sender, Open, DecrementSub
  <2>2. QED
    BY <1>22, <2>1, <1>inv, <1>t, ReceiverAsserts DEF OverInv, Mid, DecrementSub, sender
<1>23. ASSUME due = Null, DecrementDisc PROVE OverInv'
  <2>1. (Over' <=> Over) /\ (cnt = DISCONNECTED /\ rpc # "gone" => Over)
    BY <1>23, SenderStays, CountFacts DEF sender, Open, DecrementDisc
  <2>2. QED
    BY <1>23, <2>1, <1>inv, <1>t, ReceiverAsserts DEF OverInv, Mid, DecrementDisc, sender
<1>24. ASSUME due = Null, DecrementFailed PROVE OverInv'
  <2>1. (Over' <=> Over) /\ (cnt = DISCONNECTED /\ rpc # "gone" => Over)
    BY <1>24, SenderStays, CountFacts DEF sender, Open, DecrementFailed
  <2>2. QED
    BY <1>24, <2>1, <1>inv, <1>t, ReceiverAsserts DEF OverInv, Mid, DecrementFailed, Free,
         Unannounced, NoToken, sender
<1>25. ASSUME due = Null, WaitDone PROVE OverInv'
  <2>1. (Over' <=> Over) /\ (cnt = DISCONNECTED /\ rpc # "gone" => Over)
    BY <1>25, SenderStays, CountFacts DEF sender, Open, WaitDone
  <2>2. QED
    BY <1>25, <2>1, <1>inv, <1>t, ReceiverAsserts DEF OverInv, Mid, WaitDone, NoToken,
         sender
<1>26. ASSUME due = Null, WaitAborted PROVE OverInv'
  <2>1. (Over' <=> Over) /\ (cnt = DISCONNECTED /\ rpc # "gone" => Over)
    BY <1>26, SenderStays, CountFacts DEF sender, Open, WaitAborted
  <2>2. QED
    BY <1>26, <2>1, <1>inv, <1>t, ReceiverAsserts DEF OverInv, Mid, WaitAborted, sender
<1>27. ASSUME due = Null, CanRecv PROVE OverInv'
  <2>1. (Over' <=> Over) /\ (cnt = DISCONNECTED /\ rpc # "gone" => Over)
    BY <1>27, SenderStays, CountFacts DEF sender, Open, CanRecv
  <2>2. QED
    BY <1>27, <2>1, <1>inv, <1>t, ReceiverAsserts DEF OverInv, Mid, CanRecv, Return, GoUp,
         sender
<1>28. ASSUME due = Null, StartCancel PROVE OverInv'
  <2>1. (Over' <=> Over) /\ (cnt = DISCONNECTED /\ rpc # "gone" => Over)
    BY <1>28, SenderStays, CountFacts DEF sender, Open, StartCancel
  <2>2. QED
    BY <1>28, <2>1, <1>inv, <1>t, ReceiverAsserts DEF OverInv, Mid, StartCancel, TakeGoUp,
         GoUp, sender
<1>29. ASSUME due = Null, StartCancelBump PROVE OverInv'
  <2>1. (Over' <=> Over) /\ (cnt = DISCONNECTED /\ rpc # "gone" => Over)
    BY <1>29, SenderStays, CountFacts DEF sender, Open, StartCancelBump
  <2>2. QED
    BY <1>29, <2>1, <1>inv, <1>t, ReceiverAsserts DEF OverInv, Mid, StartCancelBump, sender
<1>30. ASSUME due = Null, AbortBump PROVE OverInv'
  <2>1. (Over' <=> Over) /\ (cnt = DISCONNECTED /\ rpc # "gone" => Over)
    BY <1>30, SenderStays, CountFacts DEF sender, Open, AbortBump
  <2>2. QED
    BY <1>30, <2>1, <1>inv, <1>t, ReceiverAsserts DEF OverInv, Mid, AbortBump, sender
<1>31. ASSUME due = Null, AbortDisc PROVE OverInv'
  <2>1. (Over' <=> Over) /\ (cnt = DISCONNECTED /\ rpc # "gone" => Over)
    BY <1>31, SenderStays, CountFacts DEF sender, Open, AbortDisc
  <2>2. QED
    BY <1>31, <2>1, <1>inv, <1>t, ReceiverAsserts DEF OverInv, Mid, AbortDisc, NoToken,
         sender
<1>32. ASSUME due = Null, AbortTake PROVE OverInv'
  <2>1. (Over' <=> Over) /\ (cnt = DISCONNECTED /\ rpc # "gone" => Over)
    BY <1>32, SenderStays, CountFacts DEF sender, Open, AbortTake
  <2>2. QED
    BY <1>32, <2>1, <1>inv, <1>t, ReceiverAsserts DEF OverInv, Mid, AbortTake, Return,
         DropTaken, NoToken, Free, sender
<1>33. ASSUME due = Null, AbortSpin PROVE OverInv'
  <2>1. (Over' <=> Over) /\ (cnt = DISCONNECTED /\ rpc # "gone" => Over)
    BY <1>33, SenderStays, CountFacts DEF sender, Open, AbortSpin
  <2>2. QED
    BY <1>33, <2>1, <1>inv, <1>t, ReceiverAsserts DEF OverInv, Mid, AbortSpin, NoToken,
         sender
<1>34. ASSUME due = Null, AbortPeek PROVE OverInv'
  <2>1. (Over' <=> Over) /\ (cnt = DISCONNECTED /\ rpc # "gone" => Over)
    BY <1>34, SenderStays, CountFacts DEF sender, Open, AbortPeek
  <2>2. QED
    BY <1>34, <2>1, <1>inv, <1>t, ReceiverAsserts DEF OverInv, Mid, AbortPeek, TakeGoUp,
         GoUp, sender
<1>35. ASSUME due = Null, DropPort PROVE OverInv'
  <2>1. (Over' <=> Over) /\ (cnt = DISCONNECTED /\ rpc # "gone" => Over)
    BY <1>35, SenderStays, CountFacts DEF sender, Open, DropPort
  <2>2. QED
    BY <1>35, <2>1, <1>inv, <1>t, ReceiverAsserts DEF OverInv, Mid, DropPort, sender
<1>36. ASSUME due = Null, DropCas PROVE OverInv'
  <2>1. (Over' <=> Over) /\ (cnt = DISCONNECTED /\ rpc # "gone" => Over)
    BY <1>36, SenderStays, CountFacts DEF sender, Open, DropCas
  <2>2. QED
    BY <1>36, <2>1, <1>inv, <1>t, ReceiverAsserts DEF OverInv, Mid, DropCas, MustDrain,
         sender
<1>37. ASSUME due = Null, DropDrain PROVE OverInv'
  <2>1. (Over' <=> Over) /\ (cnt = DISCONNECTED /\ rpc # "gone" => Over)
    BY <1>37, SenderStays, CountFacts DEF sender, Open, DropDrain
  <2>2. QED
    BY <1>37, <2>1, <1>inv, <1>t, ReceiverAsserts DEF OverInv, Mid, DropDrain,
         CountDrained, sender
<1>38. CASE Terminated
  BY <1>38, <1>same DEF Terminated, vars, sender, receiver
<1>39. QED
  BY <1>1, <1>2, <1>3, <1>4, <1>5, <1>6, <1>7, <1>8, <1>9, <1>10, <1>11, <1>12, <1>13,
       <1>14, <1>15, <1>16, <1>17, <1>18, <1>19, <1>20, <1>21, <1>22, <1>23, <1>24, <1>25,
       <1>26, <1>27, <1>28, <1>29, <1>30, <1>31, <1>32, <1>33, <1>34, <1>35, <1>36, <1>37,
       <1>38 DEF Next, SenderStep, ReceiverStep

\* A port that is gone leaves the count disconnected and at most the message under way on
\* the queue.
LEMMA GoneInvStep ==
  ASSUME IInv, Next
  PROVE  GoneInv'
<1>eff. Effects
  BY QueueEffects
<1>t. /\ cnt \in Int /\ local \in Int /\ Len(queue) \in Nat /\ steals \in Int
      /\ sop \in {"send", "clone", "drop"}
  BY Types DEF IInv, TypeInv, CallTypes
<1>inv. GoneInv /\ OpInv
  BY DEF IInv
<1>moves. Over => Over'
  BY SenderMoves
<1>live. rpc # "gone" => spc \notin {"disc", "drain1", "drain2"}
  BY DEF IInv, GoneInv
<1>same. ASSUME UNCHANGED <<spc, sop, rpc, cnt, queue>> PROVE GoneInv'
  BY <1>same, <1>inv DEF GoneInv, Over
<1>1. ASSUME
       EndPop
       PROVE  GoneInv'
  BY <1>1, <1>same, <1>eff DEF EndPop, sender, receiver, Effects
<1>2. ASSUME SenderCall PROVE GoneInv'
  <2>1. /\ UNCHANGED <<cnt, rpc>> /\ queue' = queue /\ spc \notin {"disc", "drain1", "drain2", "add"}
        /\ spc' \notin {"disc", "drain1", "drain2", "add"}
    BY <1>2, <1>eff DEF Effects, AfterSend, SenderCall, receiver
  <2>2. QED
    BY <2>1, <1>inv, <1>moves DEF GoneInv
<1>3. ASSUME SendCheck PROVE GoneInv'
  <2>1. /\ UNCHANGED <<cnt, rpc>> /\ queue' = queue /\ spc \notin {"disc", "drain1", "drain2", "add"}
        /\ spc' \notin {"disc", "drain1", "drain2", "add"}
    BY <1>3, <1>eff DEF Effects, AfterSend, SendCheck, receiver
  <2>2. QED
    BY <2>1, <1>inv, <1>moves DEF GoneInv
<1>4. ASSUME SendPush PROVE GoneInv'
  <2>1. /\ UNCHANGED <<cnt, rpc>> /\ queue' = queue /\ spc \notin {"disc", "drain1", "drain2", "add"}
        /\ spc' \notin {"disc", "drain1", "drain2", "add"}
    BY <1>4, <1>eff DEF Effects, AfterSend, SendPush, receiver
  <2>2. QED
    BY <2>1, <1>inv, <1>moves DEF GoneInv
<1>5. ASSUME SendLink PROVE GoneInv'
  <2>1. /\ spc = "link" /\ spc' = "add" /\ UNCHANGED <<cnt, rpc>> /\ ~Over
        /\ Len(queue') = Len(queue) + 1
    BY <1>5, <1>eff, WhileOpen DEF SendLink, receiver, Effects
  <2>2. QED
    BY <2>1, <1>inv, <1>t DEF GoneInv
<1>6. ASSUME SendAdd PROVE GoneInv'
  <2>1. spc = "add" /\ UNCHANGED rpc /\ queue' = queue /\ ~Over
    BY <1>6, <1>eff, WhileOpen DEF SendAdd, receiver, Effects
  <2>2. ASSUME rpc = "gone" PROVE cnt' = DISCONNECTED + 1 /\ spc' = "disc"
    BY <1>6, <2>1, <2>2, WhileOpen, CountFacts DEF SendAdd, SeesWaiter
  <2>3. ASSUME rpc # "gone" PROVE spc' \notin {"disc", "drain1", "drain2"}
    BY <1>6, <2>1, <2>3, CountFacts DEF SendAdd, AfterSend, Open
  <2>4. QED
    BY <2>1, <2>2, <2>3, <1>inv, <1>t DEF GoneInv
<1>7. ASSUME SendDisconnected PROVE GoneInv'
  <2>1. spc = "disc" /\ cnt' = DISCONNECTED /\ rpc' = rpc /\ spc' = "drain1" /\ queue' = queue /\ ~Over
    BY <1>7, <1>eff, WhileOpen DEF SendDisconnected, receiver, Effects
  <2>2. QED
    BY <2>1, <1>inv DEF GoneInv
<1>8. ASSUME SendDrain PROVE GoneInv'
  <2>1. /\ spc \in {"drain1", "drain2"} /\ rpc = "gone" /\ ~Over /\ UNCHANGED <<cnt, rpc>>
        /\ spc' \notin {"disc", "drain1"} /\ due = Null
    BY <1>8, <1>inv, WhileOpen DEF SendDrain, receiver, GoneInv, AfterSend
  <2>2. (HasData /\ Pop /\ spc = "drain1") \/ (~HasData /\ queue' = queue)
    BY <1>8, SenderAsserts, <1>eff, <2>1 DEF SendDrain, Effects
  <2>3. Len(queue') = 0
    BY <2>1, <2>2, <1>eff, <1>inv, <1>t DEF Effects, Elements, PopEffect, GoneInv
  <2>4. QED
    BY <2>1, <2>3, <1>inv DEF GoneInv
<1>9. ASSUME TakeLoad PROVE GoneInv'
  <2>1. /\ UNCHANGED <<cnt, rpc>> /\ queue' = queue /\ spc \notin {"disc", "drain1", "drain2", "add"}
        /\ spc' \notin {"disc", "drain1", "drain2", "add"}
    BY <1>9, <1>eff DEF Effects, AfterSend, TakeLoad, receiver
  <2>2. QED
    BY <2>1, <1>inv, <1>moves DEF GoneInv
<1>10. ASSUME TakeClear PROVE GoneInv'
  <2>1. /\ UNCHANGED <<cnt, rpc>> /\ queue' = queue /\ spc \notin {"disc", "drain1", "drain2", "add"}
        /\ spc' \notin {"disc", "drain1", "drain2", "add"}
    BY <1>10, <1>eff DEF Effects, AfterSend, TakeClear, receiver
  <2>2. QED
    BY <2>1, <1>inv, <1>moves DEF GoneInv
<1>11. ASSUME Signal PROVE GoneInv'
  <2>1. /\ UNCHANGED <<cnt, rpc>> /\ queue' = queue /\ spc \notin {"disc", "drain1", "drain2", "add"}
        /\ spc' \notin {"disc", "drain1", "drain2", "add"}
    BY <1>11, <1>eff DEF Effects, AfterSend, Signal, receiver
  <2>2. QED
    BY <2>1, <1>inv, <1>moves DEF GoneInv
<1>12. ASSUME DropChan PROVE GoneInv'
  <2>1. spc = "drop" /\ cnt' = DISCONNECTED /\ rpc' = rpc /\ spc' \notin {"disc", "drain1", "drain2", "add"}
        /\ queue' = queue /\ ~Over
    BY <1>12, <1>eff, WhileOpen DEF DropChan, receiver, Effects
  <2>2. QED
    BY <2>1, <1>inv DEF GoneInv
<1>13. ASSUME due = Null, RecvCall PROVE GoneInv'
  <2>1. rpc' # "gone" /\ rpc # "gone" /\ spc' = spc
    BY <1>13 DEF RecvCall, sender
  <2>2. QED
    BY <2>1, <1>live DEF GoneInv
<1>14. ASSUME due = Null, TryPop PROVE GoneInv'
  <2>1. rpc' # "gone" /\ rpc # "gone" /\ spc' = spc
    BY <1>14 DEF TryPop, Found, Return, sender
  <2>2. QED
    BY <2>1, <1>live DEF GoneInv
<1>15. ASSUME due = Null, FoldSwap PROVE GoneInv'
  <2>1. rpc' # "gone" /\ rpc # "gone" /\ spc' = spc
    BY <1>15 DEF FoldSwap, sender
  <2>2. QED
    BY <2>1, <1>live DEF GoneInv
<1>16. ASSUME due = Null, FoldBump PROVE GoneInv'
  <2>1. rpc' # "gone" /\ rpc # "gone" /\ spc' = spc
    BY <1>16 DEF FoldBump, sender
  <2>2. QED
    BY <2>1, <1>live DEF GoneInv
<1>17. ASSUME due = Null, FoldStore PROVE GoneInv'
  <2>1. rpc' # "gone" /\ rpc # "gone" /\ spc' = spc
    BY <1>17 DEF FoldStore, sender
  <2>2. QED
    BY <2>1, <1>live DEF GoneInv
<1>18. ASSUME due = Null, Folded PROVE GoneInv'
  <2>1. rpc' # "gone" /\ rpc # "gone" /\ spc' = spc
    BY <1>18 DEF Folded, Found, Return, sender
  <2>2. QED
    BY <2>1, <1>live DEF GoneInv
<1>19. ASSUME due = Null, TryLook PROVE GoneInv'
  <2>1. rpc' # "gone" /\ rpc # "gone" /\ spc' = spc
    BY <1>19 DEF TryLook, Nothing, Return, sender
  <2>2. QED
    BY <2>1, <1>live DEF GoneInv
<1>20. ASSUME due = Null, TryAgain PROVE GoneInv'
  <2>1. rpc' # "gone" /\ rpc # "gone" /\ spc' = spc
    BY <1>20 DEF TryAgain, Return, Found, sender
  <2>2. QED
    BY <2>1, <1>live DEF GoneInv
<1>21. ASSUME due = Null, Decrement PROVE GoneInv'
  <2>1. rpc' # "gone" /\ rpc # "gone" /\ spc' = spc
    BY <1>21 DEF Decrement, sender
  <2>2. QED
    BY <2>1, <1>live DEF GoneInv
<1>22. ASSUME due = Null, DecrementSub PROVE GoneInv'
  <2>1. rpc' # "gone" /\ rpc # "gone" /\ spc' = spc
    BY <1>22 DEF DecrementSub, sender
  <2>2. QED
    BY <2>1, <1>live DEF GoneInv
<1>23. ASSUME due = Null, DecrementDisc PROVE GoneInv'
  <2>1. rpc' # "gone" /\ rpc # "gone" /\ spc' = spc
    BY <1>23 DEF DecrementDisc, sender
  <2>2. QED
    BY <2>1, <1>live DEF GoneInv
<1>24. ASSUME due = Null, DecrementFailed PROVE GoneInv'
  <2>1. rpc' # "gone" /\ rpc # "gone" /\ spc' = spc
    BY <1>24 DEF DecrementFailed, sender
  <2>2. QED
    BY <2>1, <1>live DEF GoneInv
<1>25. ASSUME due = Null, WaitDone PROVE GoneInv'
  <2>1. rpc' # "gone" /\ rpc # "gone" /\ spc' = spc
    BY <1>25 DEF WaitDone, sender
  <2>2. QED
    BY <2>1, <1>live DEF GoneInv
<1>26. ASSUME due = Null, WaitAborted PROVE GoneInv'
  <2>1. rpc' # "gone" /\ rpc # "gone" /\ spc' = spc
    BY <1>26 DEF WaitAborted, sender
  <2>2. QED
    BY <2>1, <1>live DEF GoneInv
<1>27. ASSUME due = Null, CanRecv PROVE GoneInv'
  <2>1. rpc' # "gone" /\ rpc # "gone" /\ spc' = spc
    BY <1>27 DEF CanRecv, Return, sender
  <2>2. QED
    BY <2>1, <1>live DEF GoneInv
<1>28. ASSUME due = Null, StartCancel PROVE GoneInv'
  <2>1. rpc' # "gone" /\ rpc # "gone" /\ spc' = spc
    BY <1>28 DEF StartCancel, sender
  <2>2. QED
    BY <2>1, <1>live DEF GoneInv
<1>29. ASSUME due = Null, StartCancelBump PROVE GoneInv'
  <2>1. rpc' # "gone" /\ rpc # "gone" /\ spc' = spc
    BY <1>29 DEF StartCancelBump, sender
  <2>2. QED
    BY <2>1, <1>live DEF GoneInv
<1>30. ASSUME due = Null, AbortBump PROVE GoneInv'
  <2>1. rpc' # "gone" /\ rpc # "gone" /\ spc' = spc
    BY <1>30 DEF AbortBump, sender
  <2>2. QED
    BY <2>1, <1>live DEF GoneInv
<1>31. ASSUME due = Null, AbortDisc PROVE GoneInv'
  <2>1. rpc' # "gone" /\ rpc # "gone" /\ spc' = spc
    BY <1>31 DEF AbortDisc, sender
  <2>2. QED
    BY <2>1, <1>live DEF GoneInv
<1>32. ASSUME due = Null, AbortTake PROVE GoneInv'
  <2>1. rpc' # "gone" /\ rpc # "gone" /\ spc' = spc
    BY <1>32 DEF AbortTake, Return, sender
  <2>2. QED
    BY <2>1, <1>live DEF GoneInv
<1>33. ASSUME due = Null, AbortSpin PROVE GoneInv'
  <2>1. rpc' # "gone" /\ rpc # "gone" /\ spc' = spc
    BY <1>33 DEF AbortSpin, sender
  <2>2. QED
    BY <2>1, <1>live DEF GoneInv
<1>34. ASSUME due = Null, AbortPeek PROVE GoneInv'
  <2>1. rpc' # "gone" /\ rpc # "gone" /\ spc' = spc
    BY <1>34 DEF AbortPeek, sender
  <2>2. QED
    BY <2>1, <1>live DEF GoneInv
<1>35. ASSUME due = Null, DropPort PROVE GoneInv'
  <2>1. rpc' # "gone" /\ rpc # "gone" /\ spc' = spc
    BY <1>35 DEF DropPort, sender
  <2>2. QED
    BY <2>1, <1>live DEF GoneInv
<1>36. ASSUME due = Null, DropCas PROVE GoneInv'
  <2>1. rpc = "dropcas" /\ UNCHANGED <<spc, sop>> /\ queue' = queue
    BY <1>36, <1>eff DEF DropCas, sender, Effects
  <2>2. (Over' <=> Over) /\ spc' \notin {"disc", "drain1", "drain2"}
    BY <2>1, <1>live, SenderStays
  <2>3. CASE rpc' # "gone"
    BY <2>2, <2>3 DEF GoneInv
  <2>4. CASE rpc' = "gone"
    <3>1. cnt' = DISCONNECTED /\ (cnt = DISCONNECTED \/ cnt = local)
      BY <1>36, <2>4 DEF DropCas, MustDrain
    <3>2. ASSUME ~Over PROVE Len(queue) <= Uncounted
      <4>1. Open /\ cnt # DISCONNECTED
        BY <3>2, <2>1, CountFacts DEF Open
      <4>2. cnt >= Due /\ cnt = local
        BY <3>1, <4>1 DEF IInv, BalanceInv
      <4>3. Extra = local
        BY <2>1 DEF Extra
      <4>4. QED
        BY <4>2, <4>3, Types DEF Due
    <3>3. ASSUME ~Over' PROVE Len(queue') <= IF spc' \in {"add", "disc", "drain1"} THEN 1 ELSE 0
      BY <3>2, <3>3, <2>1, <2>2, <1>t DEF Uncounted
    <3>4. QED
      BY <2>2, <2>4, <3>1, <3>3 DEF GoneInv
  <2>5. QED
    BY <2>3, <2>4
<1>37. ASSUME due = Null, DropDrain PROVE GoneInv'
  <2>1. rpc' # "gone" /\ rpc # "gone" /\ spc' = spc
    BY <1>37 DEF DropDrain, sender
  <2>2. QED
    BY <2>1, <1>live DEF GoneInv
<1>38. CASE Terminated
  BY <1>38, <1>same, <1>eff DEF Terminated, vars, sender, receiver, Effects
<1>39. QED
  BY <1>1, <1>2, <1>3, <1>4, <1>5, <1>6, <1>7, <1>8, <1>9, <1>10, <1>11, <1>12, <1>13,
       <1>14, <1>15, <1>16, <1>17, <1>18, <1>19, <1>20, <1>21, <1>22, <1>23, <1>24, <1>25,
       <1>26, <1>27, <1>28, <1>29, <1>30, <1>31, <1>32, <1>33, <1>34, <1>35, <1>36, <1>37,
       <1>38 DEF Next, SenderStep, ReceiverStep

-----------------------------------------------------------------------------
(* The receiver's calls and its steals                                     *)

\* The location of the receiver fits its call.
LEMMA ModeInvStep ==
  ASSUME IInv, Next
  PROVE  ModeInv'
<1>eff. Effects
  BY QueueEffects
<1>t. /\ cnt \in Int /\ local \in Int /\ steals \in Int /\ final \in BOOLEAN /\ blocks \in Nat /\ rtok \in Nat
      /\ rmode \in {"recv", "timeout", "try", "select"} /\ aborted \in {"none", "select", "timeout"}
      /\ sop \in {"send", "clone", "drop"} /\ sent \in Nat /\ accepted \in Nat
  BY Types DEF IInv, TypeInv, CallTypes
<1>inv. ModeInv
  BY DEF IInv
<1>same. ASSUME UNCHANGED <<final, rpc, rmode, aborted, rtok, woken>> PROVE ModeInv'
  BY <1>same, <1>inv DEF ModeInv, Exact
<1>1. ASSUME
       SenderCall \/ SendCheck \/ SendPush \/ SendLink \/ SendAdd \/ SendDisconnected \/
       SendDrain \/ TakeLoad \/ TakeClear \/ DropChan \/ EndPop
       PROVE  ModeInv'
  BY <1>1, <1>same DEF SenderCall, receiver, SendCheck, SendPush, SendLink, SendAdd,
       SendDisconnected, SendDrain, TakeLoad, TakeClear, DropChan, EndPop, sender
<1>2. ASSUME Signal PROVE ModeInv'
  <2>1. UNCHANGED <<final, rpc, rmode, aborted, rtok>> /\ woken \subseteq woken'
    BY <1>2 DEF Signal, receiver
  <2>2. Exact' <=> Exact
    BY <2>1 DEF Exact
  <2>3. QED
    BY <2>1, <2>2, <1>inv DEF ModeInv
<1>3. ASSUME due = Null, RecvCall PROVE ModeInv'
  BY <1>3, <1>inv, <1>t, ReceiverAsserts DEF ModeInv, Exact, TryLocs, AbortLocs, Block,
       Folding, RecvCall, sender
<1>4. ASSUME due = Null, TryPop PROVE ModeInv'
  BY <1>4, <1>inv, <1>t, ReceiverAsserts DEF ModeInv, Exact, TryLocs, AbortLocs, Block,
       Folding, TryPop, Found, FoldDue, Return, Offset, GoUp, sender
<1>5. ASSUME due = Null, FoldSwap PROVE ModeInv'
  BY <1>5, <1>inv, <1>t, ReceiverAsserts DEF ModeInv, Exact, TryLocs, AbortLocs, Block,
       Folding, FoldSwap, Foldable, AddBack, sender
<1>6. ASSUME due = Null, FoldBump PROVE ModeInv'
  BY <1>6, <1>inv, <1>t, ReceiverAsserts DEF ModeInv, Exact, TryLocs, AbortLocs, Block,
       Folding, FoldBump, sender
<1>7. ASSUME due = Null, FoldStore PROVE ModeInv'
  BY <1>7, <1>inv, <1>t, ReceiverAsserts DEF ModeInv, Exact, TryLocs, AbortLocs, Block,
       Folding, FoldStore, sender
<1>8. ASSUME due = Null, Folded PROVE ModeInv'
  BY <1>8, <1>inv, <1>t, ReceiverAsserts DEF ModeInv, Exact, TryLocs, AbortLocs, Block,
       Folding, Folded, Found, Return, Offset, GoUp, sender
<1>9. ASSUME due = Null, TryLook PROVE ModeInv'
  BY <1>9, <1>inv, <1>t, ReceiverAsserts DEF ModeInv, Exact, TryLocs, AbortLocs, Block,
       Folding, TryLook, Nothing, Return, sender
<1>10. ASSUME due = Null, TryAgain PROVE ModeInv'
  BY <1>10, <1>inv, <1>t, ReceiverAsserts DEF ModeInv, Exact, TryLocs, AbortLocs, Block,
       Folding, TryAgain, Return, Found, Offset, GoUp, sender
<1>11. ASSUME due = Null, Decrement PROVE ModeInv'
  BY <1>11, <1>inv, <1>t, ReceiverAsserts DEF ModeInv, Exact, TryLocs, AbortLocs, Block,
       Folding, Decrement, NoToken, sender
<1>12. ASSUME due = Null, DecrementSub PROVE ModeInv'
  BY <1>12, <1>inv, <1>t, ReceiverAsserts DEF ModeInv, Exact, TryLocs, AbortLocs, Block,
       Folding, DecrementSub, sender
<1>13. ASSUME due = Null, DecrementDisc PROVE ModeInv'
  BY <1>13, <1>inv, <1>t, ReceiverAsserts DEF ModeInv, Exact, TryLocs, AbortLocs, Block,
       Folding, DecrementDisc, sender
<1>14. ASSUME due = Null, DecrementFailed PROVE ModeInv'
  BY <1>14, <1>inv, <1>t, ReceiverAsserts DEF ModeInv, Exact, TryLocs, AbortLocs, Block,
       Folding, DecrementFailed, Free, Unannounced, NoToken, sender
<1>15. ASSUME due = Null, WaitDone PROVE ModeInv'
  BY <1>15, <1>inv, <1>t, ReceiverAsserts DEF ModeInv, Exact, TryLocs, AbortLocs, Block,
       Folding, WaitDone, NoToken, sender
<1>16. ASSUME due = Null, WaitAborted PROVE ModeInv'
  BY <1>16, <1>inv, <1>t, ReceiverAsserts DEF ModeInv, Exact, TryLocs, AbortLocs, Block,
       Folding, WaitAborted, sender
<1>17. ASSUME due = Null, CanRecv PROVE ModeInv'
  BY <1>17, <1>inv, <1>t, ReceiverAsserts DEF ModeInv, Exact, TryLocs, AbortLocs, Block,
       Folding, CanRecv, Return, GoUp, sender
<1>18. ASSUME due = Null, StartCancel PROVE ModeInv'
  BY <1>18, <1>inv, <1>t, ReceiverAsserts DEF ModeInv, Exact, TryLocs, AbortLocs, Block,
       Folding, StartCancel, TakeGoUp, GoUp, sender
<1>19. ASSUME due = Null, StartCancelBump PROVE ModeInv'
  BY <1>19, <1>inv, <1>t, ReceiverAsserts DEF ModeInv, Exact, TryLocs, AbortLocs, Block,
       Folding, StartCancelBump, sender
<1>20. ASSUME due = Null, AbortBump PROVE ModeInv'
  BY <1>20, <1>inv, <1>t, ReceiverAsserts DEF ModeInv, Exact, TryLocs, AbortLocs, Block,
       Folding, AbortBump, sender
<1>21. ASSUME due = Null, AbortDisc PROVE ModeInv'
  BY <1>21, <1>inv, <1>t, ReceiverAsserts DEF ModeInv, Exact, TryLocs, AbortLocs, Block,
       Folding, AbortDisc, NoToken, sender
<1>22. ASSUME due = Null, AbortTake PROVE ModeInv'
  BY <1>22, <1>inv, <1>t, ReceiverAsserts DEF ModeInv, Exact, TryLocs, AbortLocs, Block,
       Folding, AbortTake, Return, DropTaken, NoToken, Free, sender
<1>23. ASSUME due = Null, AbortSpin PROVE ModeInv'
  BY <1>23, <1>inv, <1>t, ReceiverAsserts DEF ModeInv, Exact, TryLocs, AbortLocs, Block,
       Folding, AbortSpin, NoToken, sender
<1>24. ASSUME due = Null, AbortPeek PROVE ModeInv'
  BY <1>24, <1>inv, <1>t, ReceiverAsserts DEF ModeInv, Exact, TryLocs, AbortLocs, Block,
       Folding, AbortPeek, TakeGoUp, GoUp, sender
<1>25. ASSUME due = Null, DropPort PROVE ModeInv'
  BY <1>25, <1>inv, <1>t, ReceiverAsserts DEF ModeInv, Exact, TryLocs, AbortLocs, Block,
       Folding, DropPort, sender
<1>26. ASSUME due = Null, DropCas PROVE ModeInv'
  BY <1>26, <1>inv, <1>t, ReceiverAsserts DEF ModeInv, Exact, TryLocs, AbortLocs, Block,
       Folding, DropCas, MustDrain, sender
<1>27. ASSUME due = Null, DropDrain PROVE ModeInv'
  BY <1>27, <1>inv, <1>t, ReceiverAsserts DEF ModeInv, Exact, TryLocs, AbortLocs, Block,
       Folding, DropDrain, CountDrained, sender
<1>28. CASE Terminated
  BY <1>28, <1>same DEF Terminated, vars, sender, receiver
<1>29. QED
  BY <1>1, <1>2, <1>3, <1>4, <1>5, <1>6, <1>7, <1>8, <1>9, <1>10, <1>11, <1>12, <1>13,
       <1>14, <1>15, <1>16, <1>17, <1>18, <1>19, <1>20, <1>21, <1>22, <1>23, <1>24, <1>25,
       <1>26, <1>27, <1>28 DEF Next, SenderStep, ReceiverStep

\* A call that is under way has no result yet.
LEMMA ResultInvStep ==
  ASSUME IInv, Next
  PROVE  ResultInv'
<1>eff. Effects
  BY QueueEffects
<1>inv. ResultInv /\ cnt \in Int
  BY Types DEF IInv
<1>same. ASSUME UNCHANGED <<rpc, rres>> PROVE ResultInv'
  BY <1>same, <1>inv DEF ResultInv
<1>1. ASSUME
       SenderCall \/ SendCheck \/ SendPush \/ SendLink \/ SendAdd \/ SendDisconnected \/
       SendDrain \/ TakeLoad \/ TakeClear \/ Signal \/ DropChan \/ EndPop
       PROVE  ResultInv'
  BY <1>1, <1>same DEF SenderCall, receiver, SendCheck, SendPush, SendLink, SendAdd,
       SendDisconnected, SendDrain, TakeLoad, TakeClear, Signal, DropChan, EndPop, sender
<1>2. ASSUME due = Null, RecvCall PROVE ResultInv'
  BY <1>2, <1>inv, ReceiverAsserts DEF ResultInv, TryLocs, AbortLocs, Block, Folding,
       Dropping, RecvCall, sender
<1>3. ASSUME due = Null, TryPop PROVE ResultInv'
  BY <1>3, <1>inv, ReceiverAsserts DEF ResultInv, TryLocs, AbortLocs, Block, Folding,
       Dropping, TryPop, Found, FoldDue, Return, Offset, GoUp, sender
<1>4. ASSUME due = Null, FoldSwap PROVE ResultInv'
  BY <1>4, <1>inv, ReceiverAsserts DEF ResultInv, TryLocs, AbortLocs, Block, Folding,
       Dropping, FoldSwap, Foldable, AddBack, sender
<1>5. ASSUME due = Null, FoldBump PROVE ResultInv'
  BY <1>5, <1>inv, ReceiverAsserts DEF ResultInv, TryLocs, AbortLocs, Block, Folding,
       Dropping, FoldBump, sender
<1>6. ASSUME due = Null, FoldStore PROVE ResultInv'
  BY <1>6, <1>inv, ReceiverAsserts DEF ResultInv, TryLocs, AbortLocs, Block, Folding,
       Dropping, FoldStore, sender
<1>7. ASSUME due = Null, Folded PROVE ResultInv'
  BY <1>7, <1>inv, ReceiverAsserts DEF ResultInv, TryLocs, AbortLocs, Block, Folding,
       Dropping, Folded, Found, Return, Offset, GoUp, sender
<1>8. ASSUME due = Null, TryLook PROVE ResultInv'
  BY <1>8, <1>inv, ReceiverAsserts DEF ResultInv, TryLocs, AbortLocs, Block, Folding,
       Dropping, TryLook, Nothing, Return, sender
<1>9. ASSUME due = Null, TryAgain PROVE ResultInv'
  BY <1>9, <1>inv, ReceiverAsserts DEF ResultInv, TryLocs, AbortLocs, Block, Folding,
       Dropping, TryAgain, Return, Found, Offset, GoUp, sender
<1>10. ASSUME due = Null, Decrement PROVE ResultInv'
  BY <1>10, <1>inv, ReceiverAsserts DEF ResultInv, TryLocs, AbortLocs, Block, Folding,
       Dropping, Decrement, NoToken, sender
<1>11. ASSUME due = Null, DecrementSub PROVE ResultInv'
  BY <1>11, <1>inv, ReceiverAsserts DEF ResultInv, TryLocs, AbortLocs, Block, Folding,
       Dropping, DecrementSub, sender
<1>12. ASSUME due = Null, DecrementDisc PROVE ResultInv'
  BY <1>12, <1>inv, ReceiverAsserts DEF ResultInv, TryLocs, AbortLocs, Block, Folding,
       Dropping, DecrementDisc, sender
<1>13. ASSUME due = Null, DecrementFailed PROVE ResultInv'
  BY <1>13, <1>inv, ReceiverAsserts DEF ResultInv, TryLocs, AbortLocs, Block, Folding,
       Dropping, DecrementFailed, Free, Unannounced, NoToken, sender
<1>14. ASSUME due = Null, WaitDone PROVE ResultInv'
  BY <1>14, <1>inv, ReceiverAsserts DEF ResultInv, TryLocs, AbortLocs, Block, Folding,
       Dropping, WaitDone, NoToken, sender
<1>15. ASSUME due = Null, WaitAborted PROVE ResultInv'
  BY <1>15, <1>inv, ReceiverAsserts DEF ResultInv, TryLocs, AbortLocs, Block, Folding,
       Dropping, WaitAborted, sender
<1>16. ASSUME due = Null, CanRecv PROVE ResultInv'
  BY <1>16, <1>inv, ReceiverAsserts DEF ResultInv, TryLocs, AbortLocs, Block, Folding,
       Dropping, CanRecv, Return, GoUp, sender
<1>17. ASSUME due = Null, StartCancel PROVE ResultInv'
  BY <1>17, <1>inv, ReceiverAsserts DEF ResultInv, TryLocs, AbortLocs, Block, Folding,
       Dropping, StartCancel, TakeGoUp, GoUp, sender
<1>18. ASSUME due = Null, StartCancelBump PROVE ResultInv'
  BY <1>18, <1>inv, ReceiverAsserts DEF ResultInv, TryLocs, AbortLocs, Block, Folding,
       Dropping, StartCancelBump, sender
<1>19. ASSUME due = Null, AbortBump PROVE ResultInv'
  BY <1>19, <1>inv, ReceiverAsserts DEF ResultInv, TryLocs, AbortLocs, Block, Folding,
       Dropping, AbortBump, sender
<1>20. ASSUME due = Null, AbortDisc PROVE ResultInv'
  BY <1>20, <1>inv, ReceiverAsserts DEF ResultInv, TryLocs, AbortLocs, Block, Folding,
       Dropping, AbortDisc, NoToken, sender
<1>21. ASSUME due = Null, AbortTake PROVE ResultInv'
  BY <1>21, <1>inv, ReceiverAsserts DEF ResultInv, TryLocs, AbortLocs, Block, Folding,
       Dropping, AbortTake, Return, DropTaken, NoToken, Free, sender
<1>22. ASSUME due = Null, AbortSpin PROVE ResultInv'
  BY <1>22, <1>inv, ReceiverAsserts DEF ResultInv, TryLocs, AbortLocs, Block, Folding,
       Dropping, AbortSpin, NoToken, sender
<1>23. ASSUME due = Null, AbortPeek PROVE ResultInv'
  BY <1>23, <1>inv, ReceiverAsserts DEF ResultInv, TryLocs, AbortLocs, Block, Folding,
       Dropping, AbortPeek, TakeGoUp, GoUp, sender
<1>24. ASSUME due = Null, DropPort PROVE ResultInv'
  BY <1>24, <1>inv, ReceiverAsserts DEF ResultInv, TryLocs, AbortLocs, Block, Folding,
       Dropping, DropPort, sender
<1>25. ASSUME due = Null, DropCas PROVE ResultInv'
  BY <1>25, <1>inv, ReceiverAsserts DEF ResultInv, TryLocs, AbortLocs, Block, Folding,
       Dropping, DropCas, MustDrain, sender
<1>26. ASSUME due = Null, DropDrain PROVE ResultInv'
  BY <1>26, <1>inv, ReceiverAsserts DEF ResultInv, TryLocs, AbortLocs, Block, Folding,
       Dropping, DropDrain, CountDrained, sender
<1>27. CASE Terminated
  BY <1>27, <1>same DEF Terminated, vars, sender, receiver
<1>28. QED
  BY <1>1, <1>2, <1>3, <1>4, <1>5, <1>6, <1>7, <1>8, <1>9, <1>10, <1>11, <1>12, <1>13,
       <1>14, <1>15, <1>16, <1>17, <1>18, <1>19, <1>20, <1>21, <1>22, <1>23, <1>24, <1>25,
       <1>26, <1>27 DEF Next, SenderStep, ReceiverStep

\* A call that may block has a token left to make.
LEMMA BlocksInvStep ==
  ASSUME IInv, Next
  PROVE  BlocksInv'
<1>eff. Effects
  BY QueueEffects
<1>t. /\ cnt \in Int /\ local \in Int /\ steals \in Int /\ final \in BOOLEAN /\ blocks \in Nat /\ rtok \in Nat
      /\ rmode \in {"recv", "timeout", "try", "select"} /\ aborted \in {"none", "select", "timeout"}
      /\ sop \in {"send", "clone", "drop"} /\ sent \in Nat /\ accepted \in Nat
  BY Types DEF IInv, TypeInv, CallTypes
<1>inv. BlocksInv
  BY DEF IInv
<1>m. rpc \notin TryLocs => ~final
  BY DEF IInv, ModeInv
<1>same. ASSUME UNCHANGED <<blocks, rtok, rpc, rmode, final>> PROVE BlocksInv'
  BY <1>same, <1>inv DEF BlocksInv
<1>1. ASSUME
       SenderCall \/ SendCheck \/ SendPush \/ SendLink \/ SendAdd \/ SendDisconnected \/
       SendDrain \/ TakeLoad \/ TakeClear \/ Signal \/ DropChan \/ EndPop
       PROVE  BlocksInv'
  BY <1>1, <1>same DEF SenderCall, receiver, SendCheck, SendPush, SendLink, SendAdd,
       SendDisconnected, SendDrain, TakeLoad, TakeClear, Signal, DropChan, EndPop, sender
<1>2. ASSUME due = Null, RecvCall PROVE BlocksInv'
  BY <1>2, <1>inv, <1>t, <1>m, Bounds DEF BlocksInv, TryLocs, Folding, RecvCall, sender
<1>3. ASSUME due = Null, TryPop PROVE BlocksInv'
  BY <1>3, <1>inv, <1>t, <1>m, Bounds DEF BlocksInv, TryLocs, Folding, TryPop, Found,
       FoldDue, Return, Offset, GoUp, sender
<1>4. ASSUME due = Null, FoldSwap PROVE BlocksInv'
  BY <1>4, <1>inv, <1>t, <1>m, Bounds DEF BlocksInv, TryLocs, Folding, FoldSwap, Foldable,
       AddBack, sender
<1>5. ASSUME due = Null, FoldBump PROVE BlocksInv'
  BY <1>5, <1>inv, <1>t, <1>m, Bounds DEF BlocksInv, TryLocs, Folding, FoldBump, sender
<1>6. ASSUME due = Null, FoldStore PROVE BlocksInv'
  BY <1>6, <1>inv, <1>t, <1>m, Bounds DEF BlocksInv, TryLocs, Folding, FoldStore, sender
<1>7. ASSUME due = Null, Folded PROVE BlocksInv'
  BY <1>7, <1>inv, <1>t, <1>m, Bounds DEF BlocksInv, TryLocs, Folding, Folded, Found,
       Return, Offset, GoUp, sender
<1>8. ASSUME due = Null, TryLook PROVE BlocksInv'
  BY <1>8, <1>inv, <1>t, <1>m, Bounds DEF BlocksInv, TryLocs, Folding, TryLook, Nothing,
       Return, sender
<1>9. ASSUME due = Null, TryAgain PROVE BlocksInv'
  BY <1>9, <1>inv, <1>t, <1>m, Bounds DEF BlocksInv, TryLocs, Folding, TryAgain, Return,
       Found, Offset, GoUp, sender
<1>10. ASSUME due = Null, Decrement PROVE BlocksInv'
  BY <1>10, <1>inv, <1>t, <1>m, Bounds DEF BlocksInv, TryLocs, Folding, Decrement,
       NoToken, sender
<1>11. ASSUME due = Null, DecrementSub PROVE BlocksInv'
  BY <1>11, <1>inv, <1>t, <1>m, Bounds DEF BlocksInv, TryLocs, Folding, DecrementSub,
       sender
<1>12. ASSUME due = Null, DecrementDisc PROVE BlocksInv'
  BY <1>12, <1>inv, <1>t, <1>m, Bounds DEF BlocksInv, TryLocs, Folding, DecrementDisc,
       sender
<1>13. ASSUME due = Null, DecrementFailed PROVE BlocksInv'
  BY <1>13, <1>inv, <1>t, <1>m, Bounds DEF BlocksInv, TryLocs, Folding, DecrementFailed,
       Free, Unannounced, NoToken, sender
<1>14. ASSUME due = Null, WaitDone PROVE BlocksInv'
  BY <1>14, <1>inv, <1>t, <1>m, Bounds DEF BlocksInv, TryLocs, Folding, WaitDone, NoToken,
       sender
<1>15. ASSUME due = Null, WaitAborted PROVE BlocksInv'
  BY <1>15, <1>inv, <1>t, <1>m, Bounds DEF BlocksInv, TryLocs, Folding, WaitAborted,
       sender
<1>16. ASSUME due = Null, CanRecv PROVE BlocksInv'
  BY <1>16, <1>inv, <1>t, <1>m, Bounds DEF BlocksInv, TryLocs, Folding, CanRecv, Return,
       GoUp, sender
<1>17. ASSUME due = Null, StartCancel PROVE BlocksInv'
  BY <1>17, <1>inv, <1>t, <1>m, Bounds DEF BlocksInv, TryLocs, Folding, StartCancel,
       TakeGoUp, GoUp, sender
<1>18. ASSUME due = Null, StartCancelBump PROVE BlocksInv'
  BY <1>18, <1>inv, <1>t, <1>m, Bounds DEF BlocksInv, TryLocs, Folding, StartCancelBump,
       sender
<1>19. ASSUME due = Null, AbortBump PROVE BlocksInv'
  BY <1>19, <1>inv, <1>t, <1>m, Bounds DEF BlocksInv, TryLocs, Folding, AbortBump, sender
<1>20. ASSUME due = Null, AbortDisc PROVE BlocksInv'
  BY <1>20, <1>inv, <1>t, <1>m, Bounds DEF BlocksInv, TryLocs, Folding, AbortDisc,
       NoToken, sender
<1>21. ASSUME due = Null, AbortTake PROVE BlocksInv'
  BY <1>21, <1>inv, <1>t, <1>m, Bounds DEF BlocksInv, TryLocs, Folding, AbortTake, Return,
       DropTaken, NoToken, Free, sender
<1>22. ASSUME due = Null, AbortSpin PROVE BlocksInv'
  BY <1>22, <1>inv, <1>t, <1>m, Bounds DEF BlocksInv, TryLocs, Folding, AbortSpin,
       NoToken, sender
<1>23. ASSUME due = Null, AbortPeek PROVE BlocksInv'
  BY <1>23, <1>inv, <1>t, <1>m, Bounds DEF BlocksInv, TryLocs, Folding, AbortPeek,
       TakeGoUp, GoUp, sender
<1>24. ASSUME due = Null, DropPort PROVE BlocksInv'
  BY <1>24, <1>inv, <1>t, <1>m, Bounds DEF BlocksInv, TryLocs, Folding, DropPort, sender
<1>25. ASSUME due = Null, DropCas PROVE BlocksInv'
  BY <1>25, <1>inv, <1>t, <1>m, Bounds DEF BlocksInv, TryLocs, Folding, DropCas,
       MustDrain, sender
<1>26. ASSUME due = Null, DropDrain PROVE BlocksInv'
  BY <1>26, <1>inv, <1>t, <1>m, Bounds DEF BlocksInv, TryLocs, Folding, DropDrain,
       CountDrained, sender
<1>27. CASE Terminated
  BY <1>27, <1>same DEF Terminated, vars, sender, receiver
<1>28. QED
  BY <1>1, <1>2, <1>3, <1>4, <1>5, <1>6, <1>7, <1>8, <1>9, <1>10, <1>11, <1>12, <1>13,
       <1>14, <1>15, <1>16, <1>17, <1>18, <1>19, <1>20, <1>21, <1>22, <1>23, <1>24, <1>25,
       <1>26, <1>27 DEF Next, SenderStep, ReceiverStep

\* Messages on the queue were counted as sent.
LEMMA SendsInvStep ==
  ASSUME IInv, Next
  PROVE  SendsInv'
<1>eff. Effects
  BY QueueEffects
<1>t. /\ cnt \in Int /\ local \in Int /\ steals \in Int /\ final \in BOOLEAN /\ blocks \in Nat /\ rtok \in Nat
      /\ rmode \in {"recv", "timeout", "try", "select"} /\ aborted \in {"none", "select", "timeout"}
      /\ sop \in {"send", "clone", "drop"} /\ sent \in Nat /\ accepted \in Nat
  BY Types DEF IInv, TypeInv, CallTypes
<1>inv. SendsInv
  BY DEF IInv
<1>same. ASSUME UNCHANGED <<accepted, spc, sop, sent>> PROVE SendsInv'
  BY <1>same, <1>inv DEF SendsInv
<1>1. ASSUME
       EndPop
       PROVE  SendsInv'
  BY <1>1, <1>same DEF EndPop, sender, receiver
<1>2. ASSUME SenderCall PROVE SendsInv'
  BY <1>2, <1>inv, <1>t, Bounds DEF SendsInv, SenderCall, receiver
<1>3. ASSUME SendCheck PROVE SendsInv'
  BY <1>3, <1>inv, <1>t, Bounds DEF SendsInv, SendCheck, AfterSend, receiver
<1>4. ASSUME SendPush PROVE SendsInv'
  BY <1>4, <1>inv, <1>t, Bounds DEF SendsInv, SendPush, GoUp, receiver
<1>5. ASSUME SendLink PROVE SendsInv'
  BY <1>5, <1>inv, <1>t, Bounds DEF SendsInv, SendLink, receiver
<1>6. ASSUME SendAdd PROVE SendsInv'
  BY <1>6, <1>inv, <1>t, Bounds DEF SendsInv, SendAdd, AfterSend, SeesWaiter, receiver
<1>7. ASSUME SendDisconnected PROVE SendsInv'
  BY <1>7, <1>inv, <1>t, Bounds DEF SendsInv, SendDisconnected, receiver
<1>8. ASSUME SendDrain PROVE SendsInv'
  BY <1>8, <1>inv, <1>t, Bounds DEF SendsInv, SendDrain, AfterSend, receiver
<1>9. ASSUME TakeLoad PROVE SendsInv'
  BY <1>9, <1>inv, <1>t, Bounds DEF SendsInv, TakeLoad, NoToken, receiver
<1>10. ASSUME TakeClear PROVE SendsInv'
  BY <1>10, <1>inv, <1>t, Bounds DEF SendsInv, TakeClear, NoToken, receiver
<1>11. ASSUME Signal PROVE SendsInv'
  BY <1>11, <1>inv, <1>t, Bounds DEF SendsInv, Signal, Free, NoToken, receiver
<1>12. ASSUME DropChan PROVE SendsInv'
  BY <1>12, <1>inv, <1>t, Bounds DEF SendsInv, DropChan, NoToken, receiver
<1>13. ASSUME
       RecvCall \/ TryPop \/ FoldSwap \/ FoldBump \/ FoldStore \/ Folded \/ TryLook \/
       TryAgain \/ Decrement \/ DecrementSub \/ DecrementDisc \/ DecrementFailed \/
       WaitDone \/ WaitAborted \/ CanRecv \/ StartCancel \/ StartCancelBump \/ AbortBump
       \/ AbortDisc \/ AbortTake \/ AbortSpin \/ AbortPeek \/ DropPort \/ DropCas \/
       DropDrain
       PROVE  SendsInv'
  BY <1>13, <1>same DEF RecvCall, sender, TryPop, FoldSwap, FoldBump, FoldStore, Folded,
       TryLook, TryAgain, Decrement, DecrementSub, DecrementDisc, DecrementFailed,
       WaitDone, WaitAborted, CanRecv, StartCancel, StartCancelBump, AbortBump, AbortDisc,
       AbortTake, AbortSpin, AbortPeek, DropPort, DropCas, DropDrain
<1>14. CASE Terminated
  BY <1>14, <1>same DEF Terminated, vars, sender, receiver
<1>15. QED
  BY <1>1, <1>2, <1>3, <1>4, <1>5, <1>6, <1>7, <1>8, <1>9, <1>10, <1>11, <1>12, <1>13,
       <1>14 DEF Next, SenderStep, ReceiverStep

\* The steals, and the copies of them the receiver works on.
LEMMA StealsInvStep ==
  ASSUME IInv, Next
  PROVE  StealsInv'
<1>eff. Effects
  BY QueueEffects
<1>t. /\ cnt \in Int /\ local \in Int /\ steals \in Int /\ final \in BOOLEAN /\ blocks \in Nat /\ rtok \in Nat
      /\ rmode \in {"recv", "timeout", "try", "select"} /\ aborted \in {"none", "select", "timeout"}
      /\ sop \in {"send", "clone", "drop"} /\ sent \in Nat /\ accepted \in Nat
  BY Types DEF IInv, TypeInv, CallTypes
<1>inv. StealsInv
  BY DEF IInv
<1>mode. /\ rpc \notin TryLocs => ~final
         /\ rpc \in {"aborttake", "abortspin", "abortdisc", "abortpeek"} /\ rmode = "timeout" => ~Exact
         /\ rpc \in {"idle", "hangup", "can", "decr", "wait", "unwake", "sub", "subdisc", "abort",
                    "abortdisc", "aborttake", "abortspin", "abortpeek", "cancel", "cancelbump",
                    "dropcas", "dropdrain"} => ~final
  BY DEF IInv, ModeInv, AbortLocs, TryLocs, Folding
<1>over. /\ rpc \in Mid \cup {"again"} => Over
         /\ Over /\ rpc \notin Mid => cnt = DISCONNECTED
  BY DEF IInv, OverInv
<1>moves. Over => Over'
  BY SenderMoves
<1>kept. ASSUME UNCHANGED <<steals, rpc, final, local, aborted>>,
                rpc = "foldbump" /\ ~Over => cnt' \in Int /\ cnt' >= cnt
         PROVE  StealsInv'
  <2>1. Exact' <=> Exact
    BY <1>kept DEF Exact
  <2>2. QED
    BY <1>kept, <2>1, <1>inv, <1>t, <1>moves DEF StealsInv
<1>same. ASSUME UNCHANGED <<spc, sop, rpc, steals, final, aborted, local, cnt>> PROVE StealsInv'
  BY <1>same, <1>inv DEF StealsInv, Over, Exact
<1>1. ASSUME
       EndPop
       PROVE  StealsInv'
  BY <1>1, <1>same DEF EndPop, sender, receiver
<1>2. ASSUME SenderCall PROVE StealsInv'
  <2>1. UNCHANGED <<steals, rpc, final, local, aborted>> /\ (rpc = "foldbump" => cnt' = cnt)
    BY <1>2 DEF SenderCall, receiver
  <2>2. QED
    BY <2>1, <1>kept, <1>t
<1>3. ASSUME SendCheck PROVE StealsInv'
  <2>1. UNCHANGED <<steals, rpc, final, local, aborted>> /\ (rpc = "foldbump" => cnt' = cnt)
    BY <1>3 DEF SendCheck, receiver
  <2>2. QED
    BY <2>1, <1>kept, <1>t
<1>4. ASSUME SendPush PROVE StealsInv'
  <2>1. UNCHANGED <<steals, rpc, final, local, aborted>> /\ (rpc = "foldbump" => cnt' = cnt)
    BY <1>4 DEF SendPush, receiver
  <2>2. QED
    BY <2>1, <1>kept, <1>t
<1>5. ASSUME SendLink PROVE StealsInv'
  <2>1. UNCHANGED <<steals, rpc, final, local, aborted>> /\ (rpc = "foldbump" => cnt' = cnt)
    BY <1>5 DEF SendLink, receiver
  <2>2. QED
    BY <2>1, <1>kept, <1>t
<1>6. ASSUME SendAdd PROVE StealsInv'
  <2>1. UNCHANGED <<steals, rpc, final, local, aborted>> /\ spc = "add" /\ ~Over
    BY <1>6, WhileOpen DEF SendAdd, receiver
  <2>2. rpc # "gone" => cnt' = cnt + 1
    BY <1>6, <2>1, CountFacts DEF SendAdd, Open
  <2>3. QED
    BY <2>1, <2>2, <1>kept, <1>t
<1>7. ASSUME SendDisconnected PROVE StealsInv'
  <2>1. UNCHANGED <<steals, rpc, final, local, aborted>> /\ rpc = "gone"
    BY <1>7 DEF SendDisconnected, receiver, IInv, GoneInv
  <2>2. QED
    BY <2>1, <1>kept, <1>t
<1>8. ASSUME SendDrain PROVE StealsInv'
  <2>1. UNCHANGED <<steals, rpc, final, local, aborted>> /\ (rpc = "foldbump" => cnt' = cnt)
    BY <1>8 DEF SendDrain, receiver
  <2>2. QED
    BY <2>1, <1>kept, <1>t
<1>9. ASSUME TakeLoad PROVE StealsInv'
  <2>1. UNCHANGED <<steals, rpc, final, local, aborted>> /\ (rpc = "foldbump" => cnt' = cnt)
    BY <1>9 DEF TakeLoad, receiver
  <2>2. QED
    BY <2>1, <1>kept, <1>t
<1>10. ASSUME TakeClear PROVE StealsInv'
  <2>1. UNCHANGED <<steals, rpc, final, local, aborted>> /\ (rpc = "foldbump" => cnt' = cnt)
    BY <1>10 DEF TakeClear, receiver
  <2>2. QED
    BY <2>1, <1>kept, <1>t
<1>11. ASSUME Signal PROVE StealsInv'
  <2>1. UNCHANGED <<steals, rpc, final, local, aborted>> /\ (rpc = "foldbump" => cnt' = cnt)
    BY <1>11 DEF Signal, receiver
  <2>2. QED
    BY <2>1, <1>kept, <1>t
<1>12. ASSUME DropChan PROVE StealsInv'
  <2>1. UNCHANGED <<steals, rpc, final, local, aborted>>
    BY <1>12 DEF DropChan, receiver
  <2>2. Over'
    BY <1>12, <1>t, SenderAsserts DEF DropChan, Over
  <2>3. Exact' <=> Exact
    BY <2>1 DEF Exact
  <2>4. QED
    BY <2>1, <2>2, <2>3, <1>inv DEF StealsInv
<1>13. ASSUME due = Null, RecvCall PROVE StealsInv'
  <2>1. (Over' <=> Over) /\ (Exact' <=> Exact)
    BY <1>13, SenderStays DEF Exact, RecvCall, sender
  <2>2. QED
    BY <1>13, <2>1, <1>inv, <1>t, <1>mode, <1>over, Bounds, ReceiverAsserts DEF StealsInv,
         Mid, Block, AbortLocs, Folding, RecvCall, sender
<1>14. ASSUME due = Null, TryPop PROVE StealsInv'
  <2>1. (Over' <=> Over) /\ (Exact' <=> Exact)
    BY <1>14, SenderStays DEF Exact, TryPop, Found, Return, sender
  <2>2. QED
    BY <1>14, <2>1, <1>inv, <1>t, <1>mode, <1>over, Bounds, ReceiverAsserts DEF StealsInv,
         Mid, Block, AbortLocs, Folding, TryPop, Found, FoldDue, Return, Offset, GoUp,
         sender
<1>15. ASSUME due = Null, FoldSwap PROVE StealsInv'
  <2>1. (Over' <=> Over) /\ (Exact' <=> Exact) /\ rpc = "fold" /\ steals > MAX_STEALS /\ final' = final
    BY <1>15, SenderStays, <1>inv DEF FoldSwap, sender, Exact, StealsInv
  <2>2. CASE Over
    <3>1. rpc' = "foldstore" /\ steals' = steals
      BY <1>15, <2>1, <2>2, <1>over DEF FoldSwap, Mid
    <3>2. QED
      BY <2>1, <2>2, <3>1, <1>inv, <1>t, Bounds DEF StealsInv, Block, AbortLocs, Folding
  <2>3. CASE ~Over
    <3>1. Open /\ cnt # DISCONNECTED
      BY <2>1, <2>3, CountFacts DEF Open
    <3>2. cnt >= steals
      <4>1. cnt >= Due /\ (final => cnt > Due)
        BY <2>1, <3>1 DEF IInv, BalanceInv, Spare
      <4>2. Extra = Stolen + 1 /\ Stolen = IF final THEN steals - 1 ELSE steals
        BY <2>1, <1>t DEF Extra, Stolen
      <4>3. Due = Len(queue) - Uncounted + Extra
        BY DEF Due
      <4>4. Extra >= steals /\ (~final => Extra > steals)
        BY <4>2, <1>t
      <4>5. Due \in Int /\ Len(queue) \in Nat /\ Uncounted \in {0, 1} /\ Extra \in Int
        BY Types
      <4>6. QED
        BY <4>1, <4>3, <4>4, <4>5, <1>t
    <3>3. /\ cnt' = 0 /\ steals' = 0 /\ local' \in Int /\ local' >= 0 /\ rpc' = "foldbump"
      <4>1. Foldable(cnt) = steals
        BY <3>2, <1>t DEF Foldable
      <4>2. cnt' = 0 /\ steals' = steals - Foldable(cnt) /\ local' = cnt - Foldable(cnt) /\ rpc' = "foldbump"
        BY <1>15, <3>1 DEF FoldSwap, AddBack
      <4>3. QED
        BY <3>2, <4>1, <4>2, <1>t
    <3>4. QED
      BY <2>1, <2>3, <3>3, <1>inv, Bounds DEF StealsInv, Block, AbortLocs, Folding
  <2>4. QED
    BY <2>2, <2>3
<1>16. ASSUME due = Null, FoldBump PROVE StealsInv'
  <2>1. (Over' <=> Over) /\ (Exact' <=> Exact)
    BY <1>16, SenderStays DEF Exact, FoldBump, sender
  <2>2. QED
    BY <1>16, <2>1, <1>inv, <1>t, <1>mode, <1>over, Bounds, ReceiverAsserts DEF StealsInv,
         Mid, Block, AbortLocs, Folding, FoldBump, sender
<1>17. ASSUME due = Null, FoldStore PROVE StealsInv'
  <2>1. (Over' <=> Over) /\ (Exact' <=> Exact)
    BY <1>17, SenderStays DEF Exact, FoldStore, sender
  <2>2. QED
    BY <1>17, <2>1, <1>inv, <1>t, <1>mode, <1>over, Bounds, ReceiverAsserts DEF StealsInv,
         Mid, Block, AbortLocs, Folding, FoldStore, sender
<1>18. ASSUME due = Null, Folded PROVE StealsInv'
  <2>1. (Over' <=> Over) /\ (Exact' <=> Exact)
    BY <1>18, SenderStays DEF Exact, Folded, Found, Return, sender
  <2>2. QED
    BY <1>18, <2>1, <1>inv, <1>t, <1>mode, <1>over, Bounds, ReceiverAsserts DEF StealsInv,
         Mid, Block, AbortLocs, Folding, Folded, Found, Return, Offset, GoUp, sender
<1>19. ASSUME due = Null, TryLook PROVE StealsInv'
  <2>1. (Over' <=> Over) /\ (Exact' <=> Exact)
    BY <1>19, SenderStays DEF Exact, TryLook, Return, sender
  <2>2. QED
    BY <1>19, <2>1, <1>inv, <1>t, <1>mode, <1>over, Bounds, ReceiverAsserts DEF StealsInv,
         Mid, Block, AbortLocs, Folding, TryLook, Nothing, Return, sender
<1>20. ASSUME due = Null, TryAgain PROVE StealsInv'
  <2>1. (Over' <=> Over) /\ (Exact' <=> Exact)
    BY <1>20, SenderStays DEF Exact, TryAgain, Return, Found, sender
  <2>2. QED
    BY <1>20, <2>1, <1>inv, <1>t, <1>mode, <1>over, Bounds, ReceiverAsserts DEF StealsInv,
         Mid, Block, AbortLocs, Folding, TryAgain, Return, Found, Offset, GoUp, sender
<1>21. ASSUME due = Null, Decrement PROVE StealsInv'
  <2>1. (Over' <=> Over) /\ (Exact' <=> Exact)
    BY <1>21, SenderStays DEF Exact, Decrement, sender
  <2>2. QED
    BY <1>21, <2>1, <1>inv, <1>t, <1>mode, <1>over, Bounds, ReceiverAsserts DEF StealsInv,
         Mid, Block, AbortLocs, Folding, Decrement, NoToken, sender
<1>22. ASSUME due = Null, DecrementSub PROVE StealsInv'
  <2>1. (Over' <=> Over) /\ (Exact' <=> Exact)
    BY <1>22, SenderStays DEF Exact, DecrementSub, sender
  <2>2. QED
    BY <1>22, <2>1, <1>inv, <1>t, <1>mode, <1>over, Bounds, ReceiverAsserts DEF StealsInv,
         Mid, Block, AbortLocs, Folding, DecrementSub, sender
<1>23. ASSUME due = Null, DecrementDisc PROVE StealsInv'
  <2>1. (Over' <=> Over) /\ (Exact' <=> Exact)
    BY <1>23, SenderStays DEF Exact, DecrementDisc, sender
  <2>2. QED
    BY <1>23, <2>1, <1>inv, <1>t, <1>mode, <1>over, Bounds, ReceiverAsserts DEF StealsInv,
         Mid, Block, AbortLocs, Folding, DecrementDisc, sender
<1>24. ASSUME due = Null, DecrementFailed PROVE StealsInv'
  <2>1. (Over' <=> Over) /\ (Exact' <=> Exact)
    BY <1>24, SenderStays DEF Exact, DecrementFailed, sender
  <2>2. QED
    BY <1>24, <2>1, <1>inv, <1>t, <1>mode, <1>over, Bounds, ReceiverAsserts DEF StealsInv,
         Mid, Block, AbortLocs, Folding, DecrementFailed, Free, Unannounced, NoToken,
         sender
<1>25. ASSUME due = Null, WaitDone PROVE StealsInv'
  <2>1. (Over' <=> Over) /\ (Exact' <=> Exact)
    BY <1>25, SenderStays DEF Exact, WaitDone, sender
  <2>2. QED
    BY <1>25, <2>1, <1>inv, <1>t, <1>mode, <1>over, Bounds, ReceiverAsserts DEF StealsInv,
         Mid, Block, AbortLocs, Folding, WaitDone, NoToken, sender
<1>26. ASSUME due = Null, WaitAborted PROVE StealsInv'
  <2>1. /\ rpc = "wait" /\ rpc' = "abort" /\ UNCHANGED <<steals, final, local, cnt, spc, sop>>
    BY <1>26 DEF WaitAborted, sender
  <2>2. (Over' <=> Over) /\ ~final
    BY <2>1, SenderStays, <1>mode
  <2>3. QED
    BY <2>1, <2>2, <1>inv DEF StealsInv, Block, AbortLocs, Folding
<1>27. ASSUME due = Null, CanRecv PROVE StealsInv'
  <2>1. (Over' <=> Over) /\ (Exact' <=> Exact)
    BY <1>27, SenderStays DEF Exact, CanRecv, Return, sender
  <2>2. QED
    BY <1>27, <2>1, <1>inv, <1>t, <1>mode, <1>over, Bounds, ReceiverAsserts DEF StealsInv,
         Mid, Block, AbortLocs, Folding, CanRecv, Return, GoUp, sender
<1>28. ASSUME due = Null, StartCancel PROVE StealsInv'
  <2>1. (Over' <=> Over) /\ (Exact' <=> Exact)
    BY <1>28, SenderStays DEF Exact, StartCancel, sender
  <2>2. QED
    BY <1>28, <2>1, <1>inv, <1>t, <1>mode, <1>over, Bounds, ReceiverAsserts DEF StealsInv,
         Mid, Block, AbortLocs, Folding, StartCancel, TakeGoUp, GoUp, sender
<1>29. ASSUME due = Null, StartCancelBump PROVE StealsInv'
  <2>1. (Over' <=> Over) /\ (Exact' <=> Exact)
    BY <1>29, SenderStays DEF Exact, StartCancelBump, sender
  <2>2. QED
    BY <1>29, <2>1, <1>inv, <1>t, <1>mode, <1>over, Bounds, ReceiverAsserts DEF StealsInv,
         Mid, Block, AbortLocs, Folding, StartCancelBump, sender
<1>30. ASSUME due = Null, AbortBump PROVE StealsInv'
  <2>1. (Over' <=> Over) /\ (Exact' <=> Exact)
    BY <1>30, SenderStays DEF Exact, AbortBump, sender
  <2>2. QED
    BY <1>30, <2>1, <1>inv, <1>t, <1>mode, <1>over, Bounds, ReceiverAsserts DEF StealsInv,
         Mid, Block, AbortLocs, Folding, AbortBump, sender
<1>31. ASSUME due = Null, AbortDisc PROVE StealsInv'
  <2>1. (Over' <=> Over) /\ (Exact' <=> Exact)
    BY <1>31, SenderStays DEF Exact, AbortDisc, sender
  <2>2. QED
    BY <1>31, <2>1, <1>inv, <1>t, <1>mode, <1>over, Bounds, ReceiverAsserts DEF StealsInv,
         Mid, Block, AbortLocs, Folding, AbortDisc, NoToken, sender
<1>32. ASSUME due = Null, AbortTake PROVE StealsInv'
  <2>1. (Over' <=> Over) /\ (Exact' <=> Exact)
    BY <1>32, SenderStays DEF Exact, AbortTake, Return, sender
  <2>2. QED
    BY <1>32, <2>1, <1>inv, <1>t, <1>mode, <1>over, Bounds, ReceiverAsserts DEF StealsInv,
         Mid, Block, AbortLocs, Folding, AbortTake, Return, DropTaken, NoToken, Free,
         sender
<1>33. ASSUME due = Null, AbortSpin PROVE StealsInv'
  <2>1. (Over' <=> Over) /\ (Exact' <=> Exact)
    BY <1>33, SenderStays DEF Exact, AbortSpin, sender
  <2>2. QED
    BY <1>33, <2>1, <1>inv, <1>t, <1>mode, <1>over, Bounds, ReceiverAsserts DEF StealsInv,
         Mid, Block, AbortLocs, Folding, AbortSpin, NoToken, sender
<1>34. ASSUME due = Null, AbortPeek PROVE StealsInv'
  <2>1. (Over' <=> Over) /\ (Exact' <=> Exact)
    BY <1>34, SenderStays DEF Exact, AbortPeek, sender
  <2>2. QED
    BY <1>34, <2>1, <1>inv, <1>t, <1>mode, <1>over, Bounds, ReceiverAsserts DEF StealsInv,
         Mid, Block, AbortLocs, Folding, AbortPeek, TakeGoUp, GoUp, sender
<1>35. ASSUME due = Null, DropPort PROVE StealsInv'
  <2>1. (Over' <=> Over) /\ (Exact' <=> Exact)
    BY <1>35, SenderStays DEF Exact, DropPort, sender
  <2>2. QED
    BY <1>35, <2>1, <1>inv, <1>t, <1>mode, <1>over, Bounds, ReceiverAsserts DEF StealsInv,
         Mid, Block, AbortLocs, Folding, DropPort, sender
<1>36. ASSUME due = Null, DropCas PROVE StealsInv'
  <2>1. (Over' <=> Over) /\ (Exact' <=> Exact)
    BY <1>36, SenderStays DEF Exact, DropCas, sender
  <2>2. QED
    BY <1>36, <2>1, <1>inv, <1>t, <1>mode, <1>over, Bounds, ReceiverAsserts DEF StealsInv,
         Mid, Block, AbortLocs, Folding, DropCas, MustDrain, sender
<1>37. ASSUME due = Null, DropDrain PROVE StealsInv'
  <2>1. (Over' <=> Over) /\ (Exact' <=> Exact)
    BY <1>37, SenderStays DEF Exact, DropDrain, sender
  <2>2. QED
    BY <1>37, <2>1, <1>inv, <1>t, <1>mode, <1>over, Bounds, ReceiverAsserts DEF StealsInv,
         Mid, Block, AbortLocs, Folding, DropDrain, CountDrained, sender
<1>38. CASE Terminated
  BY <1>38, <1>same DEF Terminated, vars, sender, receiver
<1>39. QED
  BY <1>1, <1>2, <1>3, <1>4, <1>5, <1>6, <1>7, <1>8, <1>9, <1>10, <1>11, <1>12, <1>13,
       <1>14, <1>15, <1>16, <1>17, <1>18, <1>19, <1>20, <1>21, <1>22, <1>23, <1>24, <1>25,
       <1>26, <1>27, <1>28, <1>29, <1>30, <1>31, <1>32, <1>33, <1>34, <1>35, <1>36, <1>37,
       <1>38 DEF Next, SenderStep, ReceiverStep

-----------------------------------------------------------------------------
(* The tokens                                                              *)

\* The sender holds a token from the load on, and clears to_wake next.
LEMMA HolderInvStep ==
  ASSUME IInv, Next
  PROVE  HolderInv'
<1>eff. Effects
  BY QueueEffects
<1>t. /\ cnt \in Int /\ local \in Int /\ blocks \in Nat /\ toWake \in Nat /\ stok \in Nat /\ rtok \in Nat
      /\ sop \in {"send", "clone", "drop"} /\ Len(queue) \in Nat
  BY Types DEF IInv, TypeInv, CallTypes
<1>inv. HolderInv /\ TakerInv /\ ArmedInv /\ ToWakeInv /\ CloneInv /\ OpInv /\ BlocksInv
  BY DEF IInv
<1>see. /\ spc \in {"add", "drop"} /\ cnt = -1 =>
             Open /\ toWake # NoToken /\ rpc \in {"wait", "abort"} /\ (spc = "drop" => stok = NoToken)
        /\ spc = "add" => stok = NoToken
  <2>1. spc \in {"add", "drop"} /\ cnt = -1 => Open
    BY WhileOpen DEF Open
  <2>2. QED
    BY <2>1, <1>inv DEF ArmedInv, HolderInv
<1>same. ASSUME UNCHANGED <<toWake, blocks, stok, spc>> PROVE HolderInv'
  BY <1>same, <1>inv DEF HolderInv
<1>1. ASSUME
       EndPop
       PROVE  HolderInv'
  BY <1>1, <1>same DEF EndPop, sender, receiver
<1>2. ASSUME SenderCall PROVE HolderInv'
  BY <1>2, <1>inv, <1>t, <1>see, SenderAsserts, ReceiverAsserts DEF HolderInv, SenderCall,
       receiver
<1>3. ASSUME SendCheck PROVE HolderInv'
  BY <1>3, <1>inv, <1>t, <1>see, SenderAsserts, ReceiverAsserts DEF HolderInv, SendCheck,
       AfterSend, receiver
<1>4. ASSUME SendPush PROVE HolderInv'
  BY <1>4, <1>inv, <1>t, <1>see, SenderAsserts, ReceiverAsserts DEF HolderInv, SendPush,
       GoUp, receiver
<1>5. ASSUME SendLink PROVE HolderInv'
  BY <1>5, <1>inv, <1>t, <1>see, SenderAsserts, ReceiverAsserts DEF HolderInv, SendLink,
       receiver
<1>6. ASSUME SendAdd PROVE HolderInv'
  BY <1>6, <1>inv, <1>t, <1>see, SenderAsserts, ReceiverAsserts DEF HolderInv, SendAdd,
       AfterSend, SeesWaiter, receiver
<1>7. ASSUME SendDisconnected PROVE HolderInv'
  BY <1>7, <1>inv, <1>t, <1>see, SenderAsserts, ReceiverAsserts DEF HolderInv,
       SendDisconnected, receiver
<1>8. ASSUME SendDrain PROVE HolderInv'
  BY <1>8, <1>inv, <1>t, <1>see, SenderAsserts, ReceiverAsserts DEF HolderInv, SendDrain,
       AfterSend, receiver
<1>9. ASSUME TakeLoad PROVE HolderInv'
  BY <1>9, <1>inv, <1>t, <1>see, SenderAsserts, ReceiverAsserts DEF HolderInv, TakeLoad,
       NoToken, receiver
<1>10. ASSUME TakeClear PROVE HolderInv'
  BY <1>10, <1>inv, <1>t, <1>see, SenderAsserts, ReceiverAsserts DEF HolderInv, TakeClear,
       NoToken, receiver
<1>11. ASSUME Signal PROVE HolderInv'
  BY <1>11, <1>inv, <1>t, <1>see, SenderAsserts, ReceiverAsserts DEF HolderInv, Signal,
       Free, NoToken, receiver
<1>12. ASSUME DropChan PROVE HolderInv'
  BY <1>12, <1>inv, <1>t, <1>see, SenderAsserts, ReceiverAsserts DEF HolderInv, DropChan,
       NoToken, receiver
<1>13. ASSUME
       RecvCall \/ TryPop \/ FoldSwap \/ FoldBump \/ FoldStore \/ Folded \/ TryLook \/
       TryAgain \/ DecrementSub \/ DecrementDisc \/ WaitDone \/ WaitAborted \/ CanRecv \/
       StartCancel \/ StartCancelBump \/ AbortBump \/ AbortDisc \/ AbortSpin \/ AbortPeek
       \/ DropPort \/ DropCas \/ DropDrain
       PROVE  HolderInv'
  BY <1>13, <1>same DEF RecvCall, sender, TryPop, FoldSwap, FoldBump, FoldStore, Folded,
       TryLook, TryAgain, DecrementSub, DecrementDisc, WaitDone, WaitAborted, CanRecv,
       StartCancel, StartCancelBump, AbortBump, AbortDisc, AbortSpin, AbortPeek, DropPort,
       DropCas, DropDrain
<1>14. ASSUME due = Null, Decrement PROVE HolderInv'
  BY <1>14, <1>inv, <1>t, ReceiverAsserts DEF HolderInv, TakerInv, Decrement, NoToken,
       sender
<1>15. ASSUME due = Null, DecrementFailed PROVE HolderInv'
  BY <1>15, <1>inv, <1>t, ReceiverAsserts DEF HolderInv, TakerInv, DecrementFailed,
       Unannounced, NoToken, sender
<1>16. ASSUME due = Null, AbortTake PROVE HolderInv'
  BY <1>16, <1>inv, <1>t, ReceiverAsserts DEF HolderInv, TakerInv, AbortTake, NoToken,
       sender
<1>17. CASE Terminated
  BY <1>17, <1>same DEF Terminated, vars, sender, receiver
<1>18. QED
  BY <1>1, <1>2, <1>3, <1>4, <1>5, <1>6, <1>7, <1>8, <1>9, <1>10, <1>11, <1>12, <1>13,
       <1>14, <1>15, <1>16, <1>17 DEF Next, SenderStep, ReceiverStep

\* A sender that saw the count of a waiter finds its token.
LEMMA TakerInvStep ==
  ASSUME IInv, Next
  PROVE  TakerInv'
<1>eff. Effects
  BY QueueEffects
<1>t. /\ cnt \in Int /\ local \in Int /\ blocks \in Nat /\ toWake \in Nat /\ stok \in Nat /\ rtok \in Nat
      /\ sop \in {"send", "clone", "drop"} /\ Len(queue) \in Nat
  BY Types DEF IInv, TypeInv, CallTypes
<1>inv. HolderInv /\ TakerInv /\ ArmedInv /\ ToWakeInv /\ CloneInv /\ OpInv /\ BlocksInv
  BY DEF IInv
<1>see. /\ spc \in {"add", "drop"} /\ cnt = -1 =>
             Open /\ toWake # NoToken /\ rpc \in {"wait", "abort"} /\ (spc = "drop" => stok = NoToken)
        /\ spc = "add" => stok = NoToken
  <2>1. spc \in {"add", "drop"} /\ cnt = -1 => Open
    BY WhileOpen DEF Open
  <2>2. QED
    BY <2>1, <1>inv DEF ArmedInv, HolderInv
<1>same. ASSUME UNCHANGED <<toWake, spc, rpc>> PROVE TakerInv'
  BY <1>same, <1>inv DEF TakerInv
<1>1. ASSUME
       EndPop
       PROVE  TakerInv'
  BY <1>1, <1>same DEF EndPop, sender, receiver
<1>2. ASSUME SenderCall PROVE TakerInv'
  BY <1>2, <1>inv, <1>t, <1>see DEF TakerInv, SenderCall, receiver
<1>3. ASSUME SendCheck PROVE TakerInv'
  BY <1>3, <1>inv, <1>t, <1>see DEF TakerInv, SendCheck, AfterSend, receiver
<1>4. ASSUME SendPush PROVE TakerInv'
  BY <1>4, <1>inv, <1>t, <1>see DEF TakerInv, SendPush, GoUp, receiver
<1>5. ASSUME SendLink PROVE TakerInv'
  BY <1>5, <1>inv, <1>t, <1>see DEF TakerInv, SendLink, receiver
<1>6. ASSUME SendAdd PROVE TakerInv'
  BY <1>6, <1>inv, <1>t, <1>see DEF TakerInv, SendAdd, AfterSend, SeesWaiter, receiver
<1>7. ASSUME SendDisconnected PROVE TakerInv'
  BY <1>7, <1>inv, <1>t, <1>see DEF TakerInv, SendDisconnected, receiver
<1>8. ASSUME SendDrain PROVE TakerInv'
  BY <1>8, <1>inv, <1>t, <1>see DEF TakerInv, SendDrain, AfterSend, receiver
<1>9. ASSUME TakeLoad PROVE TakerInv'
  BY <1>9, <1>inv, <1>t, <1>see DEF TakerInv, TakeLoad, NoToken, receiver
<1>10. ASSUME TakeClear PROVE TakerInv'
  BY <1>10, <1>inv, <1>t, <1>see DEF TakerInv, TakeClear, NoToken, receiver
<1>11. ASSUME Signal PROVE TakerInv'
  BY <1>11, <1>inv, <1>t, <1>see DEF TakerInv, Signal, Free, NoToken, receiver
<1>12. ASSUME DropChan PROVE TakerInv'
  BY <1>12, <1>inv, <1>t, <1>see DEF TakerInv, DropChan, NoToken, receiver
<1>13. ASSUME due = Null, RecvCall PROVE TakerInv'
  BY <1>13, <1>inv, <1>t, <1>see DEF TakerInv, RecvCall, sender
<1>14. ASSUME due = Null, TryPop PROVE TakerInv'
  BY <1>14, <1>inv, <1>t, <1>see DEF TakerInv, TryPop, Found, FoldDue, Return, Offset,
       GoUp, sender
<1>15. ASSUME due = Null, FoldSwap PROVE TakerInv'
  BY <1>15, <1>inv, <1>t, <1>see DEF TakerInv, FoldSwap, Foldable, AddBack, sender
<1>16. ASSUME due = Null, FoldBump PROVE TakerInv'
  BY <1>16, <1>inv, <1>t, <1>see DEF TakerInv, FoldBump, sender
<1>17. ASSUME due = Null, FoldStore PROVE TakerInv'
  BY <1>17, <1>inv, <1>t, <1>see DEF TakerInv, FoldStore, sender
<1>18. ASSUME due = Null, Folded PROVE TakerInv'
  BY <1>18, <1>inv, <1>t, <1>see DEF TakerInv, Folded, Found, Return, Offset, GoUp, sender
<1>19. ASSUME due = Null, TryLook PROVE TakerInv'
  BY <1>19, <1>inv, <1>t, <1>see DEF TakerInv, TryLook, Nothing, Return, sender
<1>20. ASSUME due = Null, TryAgain PROVE TakerInv'
  BY <1>20, <1>inv, <1>t, <1>see DEF TakerInv, TryAgain, Return, Found, Offset, GoUp,
       sender
<1>21. ASSUME due = Null, Decrement PROVE TakerInv'
  BY <1>21, <1>inv, <1>t, ReceiverAsserts DEF TakerInv, Decrement, NoToken, sender
<1>22. ASSUME due = Null, DecrementSub PROVE TakerInv'
  BY <1>22, <1>inv DEF TakerInv, DecrementSub, sender
<1>23. ASSUME due = Null, DecrementDisc PROVE TakerInv'
  BY <1>23, <1>inv, <1>t, <1>see DEF TakerInv, DecrementDisc, sender
<1>24. ASSUME due = Null, DecrementFailed PROVE TakerInv'
  BY <1>24, <1>inv, <1>t, <1>see DEF TakerInv, DecrementFailed, Free, Unannounced,
       NoToken, sender
<1>25. ASSUME due = Null, WaitDone PROVE TakerInv'
  BY <1>25, <1>inv, <1>t, <1>see DEF TakerInv, WaitDone, NoToken, sender
<1>26. ASSUME due = Null, WaitAborted PROVE TakerInv'
  BY <1>26, <1>inv, <1>t, <1>see DEF TakerInv, WaitAborted, sender
<1>27. ASSUME due = Null, CanRecv PROVE TakerInv'
  BY <1>27, <1>inv, <1>t, <1>see DEF TakerInv, CanRecv, Return, GoUp, sender
<1>28. ASSUME due = Null, StartCancel PROVE TakerInv'
  BY <1>28, <1>inv, <1>t, <1>see DEF TakerInv, StartCancel, TakeGoUp, GoUp, sender
<1>29. ASSUME due = Null, StartCancelBump PROVE TakerInv'
  BY <1>29, <1>inv, <1>t, <1>see DEF TakerInv, StartCancelBump, sender
<1>30. ASSUME due = Null, AbortBump PROVE TakerInv'
  <2>1. rpc = "abort" /\ UNCHANGED <<spc, toWake>> /\ rpc' \notin {"sub", "subdisc", "unwake"}
    BY <1>30 DEF AbortBump, sender
  <2>2. ASSUME rpc' = "aborttake" PROVE cnt < 0 /\ Open
    <3>1. cnt < 0 /\ cnt # DISCONNECTED
      BY <1>30, <2>2 DEF AbortBump
    <3>2. QED
      BY <2>1, <3>1 DEF IInv, OverInv, Mid, Open
  <2>3. QED
    BY <2>1, <2>2, <1>inv DEF TakerInv, ArmedInv
<1>31. ASSUME due = Null, AbortDisc PROVE TakerInv'
  BY <1>31, <1>inv, <1>t, <1>see DEF TakerInv, AbortDisc, NoToken, sender
<1>32. ASSUME due = Null, AbortTake PROVE TakerInv'
  BY <1>32, <1>inv, <1>t, <1>see DEF TakerInv, AbortTake, Return, DropTaken, NoToken,
       Free, sender
<1>33. ASSUME due = Null, AbortSpin PROVE TakerInv'
  BY <1>33, <1>inv, <1>t, <1>see DEF TakerInv, AbortSpin, NoToken, sender
<1>34. ASSUME due = Null, AbortPeek PROVE TakerInv'
  BY <1>34, <1>inv, <1>t, <1>see DEF TakerInv, AbortPeek, TakeGoUp, GoUp, sender
<1>35. ASSUME due = Null, DropPort PROVE TakerInv'
  BY <1>35, <1>inv, <1>t, <1>see DEF TakerInv, DropPort, sender
<1>36. ASSUME due = Null, DropCas PROVE TakerInv'
  BY <1>36, <1>inv, <1>t, <1>see DEF TakerInv, DropCas, MustDrain, sender
<1>37. ASSUME due = Null, DropDrain PROVE TakerInv'
  BY <1>37, <1>inv, <1>t, <1>see DEF TakerInv, DropDrain, CountDrained, sender
<1>38. CASE Terminated
  BY <1>38, <1>same DEF Terminated, vars, sender, receiver
<1>39. QED
  BY <1>1, <1>2, <1>3, <1>4, <1>5, <1>6, <1>7, <1>8, <1>9, <1>10, <1>11, <1>12, <1>13,
       <1>14, <1>15, <1>16, <1>17, <1>18, <1>19, <1>20, <1>21, <1>22, <1>23, <1>24, <1>25,
       <1>26, <1>27, <1>28, <1>29, <1>30, <1>31, <1>32, <1>33, <1>34, <1>35, <1>36, <1>37,
       <1>38 DEF Next, SenderStep, ReceiverStep

\* A count below zero has not been seen by anybody.
LEMMA ArmedInvStep ==
  ASSUME IInv, Next
  PROVE  ArmedInv'
<1>eff. Effects
  BY QueueEffects
<1>t. /\ cnt \in Int /\ local \in Int /\ blocks \in Nat /\ toWake \in Nat /\ stok \in Nat /\ rtok \in Nat
      /\ sop \in {"send", "clone", "drop"} /\ Len(queue) \in Nat
  BY Types DEF IInv, TypeInv, CallTypes
<1>inv. HolderInv /\ TakerInv /\ ArmedInv /\ ToWakeInv /\ CloneInv /\ OpInv /\ BlocksInv
  BY DEF IInv
<1>see. /\ spc \in {"add", "drop"} /\ cnt = -1 =>
             Open /\ toWake # NoToken /\ rpc \in {"wait", "abort"} /\ (spc = "drop" => stok = NoToken)
        /\ spc = "add" => stok = NoToken
  <2>1. spc \in {"add", "drop"} /\ cnt = -1 => Open
    BY WhileOpen DEF Open
  <2>2. QED
    BY <2>1, <1>inv DEF ArmedInv, HolderInv
<1>woken. toWake # NoToken => toWake \notin woken
  BY DEF IInv, FreedInv
<1>held. stok # NoToken => stok \notin woken
  BY DEF IInv, FreedInv
<1>low. Open /\ rpc \notin {"wait", "abort"} => ~(cnt < 0)
  BY <1>inv DEF ArmedInv
<1>st. rpc = "foldbump" /\ Open => local >= 0
  BY DEF IInv, StealsInv, Open
<1>same. ASSUME UNCHANGED <<spc, sop, stok, rpc, cnt, toWake>> PROVE ArmedInv'
  BY <1>same, <1>inv DEF ArmedInv, Open, Over
<1>1. ASSUME
       EndPop
       PROVE  ArmedInv'
  BY <1>1, <1>same DEF EndPop, sender, receiver
<1>2. ASSUME SenderCall PROVE ArmedInv'
  <2>1. UNCHANGED <<rpc, cnt, toWake>> /\ (Open' => Open)
    BY <1>2, SenderMoves DEF Open, SenderCall, receiver
  <2>2. QED
    BY <1>2, <2>1, <1>inv, <1>see DEF ArmedInv, HolderInv, SenderCall, receiver
<1>3. ASSUME SendCheck PROVE ArmedInv'
  <2>1. UNCHANGED <<rpc, cnt, toWake>> /\ (Open' => Open)
    BY <1>3, SenderMoves DEF Open, SendCheck, receiver
  <2>2. QED
    BY <1>3, <2>1, <1>inv, <1>see DEF ArmedInv, HolderInv, SendCheck, AfterSend, receiver
<1>4. ASSUME SendPush PROVE ArmedInv'
  <2>1. UNCHANGED <<rpc, cnt, toWake>> /\ (Open' => Open)
    BY <1>4, SenderMoves DEF Open, SendPush, receiver
  <2>2. QED
    BY <1>4, <2>1, <1>inv, <1>see DEF ArmedInv, HolderInv, SendPush, GoUp, receiver
<1>5. ASSUME SendLink PROVE ArmedInv'
  <2>1. UNCHANGED <<rpc, cnt, toWake>> /\ (Open' => Open)
    BY <1>5, SenderMoves DEF Open, SendLink, receiver
  <2>2. QED
    BY <1>5, <2>1, <1>inv, <1>see DEF ArmedInv, HolderInv, SendLink, receiver
<1>6. ASSUME SendAdd PROVE ArmedInv'
  <2>1. UNCHANGED <<rpc, toWake, stok>> /\ (Open' => Open) /\ spc = "add"
    BY <1>6, SenderMoves DEF Open, SendAdd, receiver
  <2>2. Open => cnt' = cnt + 1
    BY <1>6, <2>1, CountFacts DEF SendAdd
  <2>3. Open /\ cnt' < 0 => cnt < 0 /\ spc' \notin {"take", "clear"}
    BY <1>6, <2>2, <1>t DEF SendAdd, SeesWaiter, AfterSend
  <2>4. QED
    BY <2>1, <2>3, <1>inv, <1>see DEF ArmedInv
<1>7. ASSUME SendDisconnected PROVE ArmedInv'
  <2>1. ~Open'
    BY <1>7 DEF SendDisconnected, receiver, Open, IInv, GoneInv
  <2>2. QED
    BY <2>1 DEF ArmedInv
<1>8. ASSUME SendDrain PROVE ArmedInv'
  <2>1. UNCHANGED <<rpc, cnt, toWake>> /\ (Open' => Open)
    BY <1>8, SenderMoves DEF Open, SendDrain, receiver
  <2>2. QED
    BY <1>8, <2>1, <1>inv, <1>see DEF ArmedInv, HolderInv, SendDrain, AfterSend, receiver
<1>9. ASSUME TakeLoad PROVE ArmedInv'
  <2>1. UNCHANGED <<rpc, cnt, toWake>> /\ (Open' => Open)
    BY <1>9, SenderMoves DEF Open, TakeLoad, receiver
  <2>2. QED
    BY <1>9, <2>1, <1>inv, <1>see DEF ArmedInv, HolderInv, TakeLoad, NoToken, receiver
<1>10. ASSUME TakeClear PROVE ArmedInv'
  <2>1. UNCHANGED <<rpc, cnt>> /\ (Open' => Open) /\ spc = "clear"
    BY <1>10, SenderMoves DEF Open, TakeClear, receiver
  <2>2. QED
    BY <2>1, <1>inv DEF ArmedInv
<1>11. ASSUME Signal PROVE ArmedInv'
  <2>1. UNCHANGED <<rpc, cnt, toWake>> /\ (Open' => Open)
    BY <1>11, SenderMoves DEF Open, Signal, receiver
  <2>2. QED
    BY <1>11, <2>1, <1>inv, <1>see DEF ArmedInv, HolderInv, Signal, Free, NoToken, receiver
<1>12. ASSUME DropChan PROVE ArmedInv'
  <2>1. Over'
    BY <1>12, <1>t, SenderAsserts DEF DropChan, Over
  <2>2. QED
    BY <2>1 DEF ArmedInv, Open
<1>13. ASSUME due = Null, RecvCall PROVE ArmedInv'
  <2>1. UNCHANGED <<spc, sop, stok>> /\ (Open' => Open) /\ rpc \notin {"wait", "abort"}
    BY <1>13, SenderStays DEF Open, RecvCall, sender
  <2>2. cnt' = cnt
    BY <1>13, <1>low, <1>t, <1>st, CountFacts, ReceiverAsserts DEF RecvCall, sender
  <2>3. QED
    BY <2>1, <2>2, <1>low DEF ArmedInv
<1>14. ASSUME due = Null, TryPop PROVE ArmedInv'
  <2>1. UNCHANGED <<spc, sop, stok>> /\ (Open' => Open) /\ rpc \notin {"wait", "abort"}
    BY <1>14, SenderStays DEF Open, TryPop, sender
  <2>2. cnt' = cnt
    BY <1>14, <1>low, <1>t, <1>st, CountFacts, ReceiverAsserts DEF TryPop, Found, FoldDue,
         Return, Offset, GoUp, sender
  <2>3. QED
    BY <2>1, <2>2, <1>low DEF ArmedInv
<1>15. ASSUME due = Null, FoldSwap PROVE ArmedInv'
  <2>1. UNCHANGED <<spc, sop, stok>> /\ (Open' => Open) /\ rpc \notin {"wait", "abort"}
    BY <1>15, SenderStays DEF Open, FoldSwap, sender
  <2>2. Open => cnt' >= 0 /\ cnt' \in Int
    BY <1>15, <1>low, <1>t, <1>st, CountFacts, ReceiverAsserts DEF FoldSwap, Foldable,
         AddBack, sender
  <2>3. QED
    BY <2>1, <2>2, <1>low DEF ArmedInv
<1>16. ASSUME due = Null, FoldBump PROVE ArmedInv'
  <2>1. UNCHANGED <<spc, sop, stok>> /\ (Open' => Open) /\ rpc \notin {"wait", "abort"}
    BY <1>16, SenderStays DEF Open, FoldBump, sender
  <2>2. Open => cnt' >= 0 /\ cnt' \in Int
    BY <1>16, <1>low, <1>t, <1>st, CountFacts, ReceiverAsserts DEF FoldBump, sender
  <2>3. QED
    BY <2>1, <2>2, <1>low DEF ArmedInv
<1>17. ASSUME due = Null, FoldStore PROVE ArmedInv'
  <2>1. Over /\ UNCHANGED <<spc, sop>>
    BY <1>17 DEF IInv, OverInv, Mid, sender, FoldStore
  <2>2. QED
    BY <2>1, SenderStays DEF ArmedInv, Open
<1>18. ASSUME due = Null, Folded PROVE ArmedInv'
  <2>1. UNCHANGED <<spc, sop, stok>> /\ (Open' => Open) /\ rpc \notin {"wait", "abort"}
    BY <1>18, SenderStays DEF Open, Folded, sender
  <2>2. cnt' = cnt
    BY <1>18, <1>low, <1>t, <1>st, CountFacts, ReceiverAsserts DEF Folded, Found, Return,
         Offset, GoUp, sender
  <2>3. QED
    BY <2>1, <2>2, <1>low DEF ArmedInv
<1>19. ASSUME due = Null, TryLook PROVE ArmedInv'
  <2>1. UNCHANGED <<spc, sop, stok>> /\ (Open' => Open) /\ rpc \notin {"wait", "abort"}
    BY <1>19, SenderStays DEF Open, TryLook, sender
  <2>2. cnt' = cnt
    BY <1>19, <1>low, <1>t, <1>st, CountFacts, ReceiverAsserts DEF TryLook, Nothing,
         Return, sender
  <2>3. QED
    BY <2>1, <2>2, <1>low DEF ArmedInv
<1>20. ASSUME due = Null, TryAgain PROVE ArmedInv'
  <2>1. UNCHANGED <<spc, sop, stok>> /\ (Open' => Open) /\ rpc \notin {"wait", "abort"}
    BY <1>20, SenderStays DEF Open, TryAgain, sender
  <2>2. cnt' = cnt
    BY <1>20, <1>low, <1>t, <1>st, CountFacts, ReceiverAsserts DEF TryAgain, Return, Found,
         Offset, GoUp, sender
  <2>3. QED
    BY <2>1, <2>2, <1>low DEF ArmedInv
<1>21. ASSUME due = Null, Decrement PROVE ArmedInv'
  <2>1. UNCHANGED <<spc, sop, stok>> /\ (Open' => Open) /\ rpc \notin {"wait", "abort"}
    BY <1>21, SenderStays DEF Open, Decrement, sender
  <2>2. cnt' = cnt
    BY <1>21, <1>low, <1>t, <1>st, CountFacts, ReceiverAsserts DEF Decrement, NoToken,
         sender
  <2>3. QED
    BY <2>1, <2>2, <1>low DEF ArmedInv
<1>22. ASSUME due = Null, DecrementSub PROVE ArmedInv'
  <2>1. UNCHANGED <<spc, sop, stok, toWake>> /\ rpc = "sub"
    BY <1>22 DEF DecrementSub, sender
  <2>2. Open' => Open
    BY <2>1, SenderStays DEF Open
  <2>3. Open => cnt' = cnt - (1 + local) /\ cnt # DISCONNECTED /\ cnt >= 0
    BY <1>22, <2>1, CountFacts, <1>low, <1>t DEF DecrementSub
  <2>4. Open /\ cnt' < 0 => rpc' = "wait"
    BY <1>22, <2>3, <1>t DEF DecrementSub
  <2>5. toWake # NoToken /\ spc \notin {"take", "clear"} /\ (spc = "drop" => stok = NoToken)
    BY <2>1, <1>inv, <1>t DEF ToWakeInv, Block, NoToken, TakerInv, CloneInv, Cloning, Dropping
  <2>6. QED
    BY <2>1, <2>2, <2>4, <2>5 DEF ArmedInv
<1>23. ASSUME due = Null, DecrementDisc PROVE ArmedInv'
  <2>1. Over /\ UNCHANGED <<spc, sop>>
    BY <1>23 DEF IInv, OverInv, Mid, sender, DecrementDisc
  <2>2. QED
    BY <2>1, SenderStays DEF ArmedInv, Open
<1>24. ASSUME due = Null, DecrementFailed PROVE ArmedInv'
  <2>1. UNCHANGED <<spc, sop, stok>> /\ (Open' => Open) /\ rpc \notin {"wait", "abort"}
    BY <1>24, SenderStays DEF Open, DecrementFailed, sender
  <2>2. cnt' = cnt
    BY <1>24, <1>low, <1>t, <1>st, CountFacts, ReceiverAsserts DEF DecrementFailed, Free,
         Unannounced, NoToken, sender
  <2>3. QED
    BY <2>1, <2>2, <1>low DEF ArmedInv
<1>25. ASSUME due = Null, WaitDone PROVE ArmedInv'
  <2>1. UNCHANGED <<spc, sop, stok, toWake, cnt>> /\ rpc = "wait" /\ rtok \in woken
    BY <1>25 DEF WaitDone, sender
  <2>2. Open' => Open
    BY <2>1, SenderStays DEF Open
  <2>3. toWake = NoToken
    BY <2>1, <1>inv, <1>woken DEF ToWakeInv, Block
  <2>4. QED
    BY <2>1, <2>2, <2>3, <1>inv DEF ArmedInv
<1>26. ASSUME due = Null, WaitAborted PROVE ArmedInv'
  <2>1. UNCHANGED <<spc, sop, stok, toWake, cnt>> /\ rpc = "wait" /\ rpc' = "abort"
    BY <1>26 DEF WaitAborted, sender
  <2>2. Open' => Open
    BY <2>1, SenderStays DEF Open
  <2>3. QED
    BY <2>1, <2>2, <1>inv DEF ArmedInv
<1>27. ASSUME due = Null, CanRecv PROVE ArmedInv'
  <2>1. UNCHANGED <<spc, sop, stok>> /\ (Open' => Open) /\ rpc \notin {"wait", "abort"}
    BY <1>27, SenderStays DEF Open, CanRecv, sender
  <2>2. cnt' = cnt
    BY <1>27, <1>low, <1>t, <1>st, CountFacts, ReceiverAsserts DEF CanRecv, Return, GoUp,
         sender
  <2>3. QED
    BY <2>1, <2>2, <1>low DEF ArmedInv
<1>28. ASSUME due = Null, StartCancel PROVE ArmedInv'
  <2>1. UNCHANGED <<spc, sop, stok>> /\ (Open' => Open) /\ rpc \notin {"wait", "abort"}
    BY <1>28, SenderStays DEF Open, StartCancel, sender
  <2>2. cnt' = cnt
    BY <1>28, <1>low, <1>t, <1>st, CountFacts, ReceiverAsserts DEF StartCancel, TakeGoUp,
         GoUp, sender
  <2>3. QED
    BY <2>1, <2>2, <1>low DEF ArmedInv
<1>29. ASSUME due = Null, StartCancelBump PROVE ArmedInv'
  <2>1. UNCHANGED <<spc, sop, stok>> /\ (Open' => Open) /\ rpc \notin {"wait", "abort"}
    BY <1>29, SenderStays DEF Open, StartCancelBump, sender
  <2>2. Open => cnt' >= 0 /\ cnt' \in Int
    BY <1>29, <1>low, <1>t, <1>st, CountFacts, ReceiverAsserts DEF StartCancelBump, sender
  <2>3. QED
    BY <2>1, <2>2, <1>low DEF ArmedInv
<1>30. ASSUME due = Null, AbortBump PROVE ArmedInv'
  <2>1. UNCHANGED <<spc, sop>> /\ rpc = "abort"
    BY <1>30 DEF AbortBump, sender
  <2>2. Open' => Open
    BY <2>1, SenderStays DEF Open
  <2>3. Open => cnt' = cnt + 2 /\ cnt >= -2
    BY <1>30, <2>1, CountFacts DEF AbortBump
  <2>4. QED
    BY <2>2, <2>3, <1>t DEF ArmedInv
<1>31. ASSUME due = Null, AbortDisc PROVE ArmedInv'
  <2>1. Over /\ UNCHANGED <<spc, sop>>
    BY <1>31 DEF IInv, OverInv, Mid, sender, AbortDisc
  <2>2. QED
    BY <2>1, SenderStays DEF ArmedInv, Open
<1>32. ASSUME due = Null, AbortTake PROVE ArmedInv'
  <2>1. UNCHANGED <<spc, sop, stok>> /\ (Open' => Open) /\ rpc \notin {"wait", "abort"}
    BY <1>32, SenderStays DEF Open, AbortTake, sender
  <2>2. cnt' = cnt
    BY <1>32, <1>low, <1>t, <1>st, CountFacts, ReceiverAsserts DEF AbortTake, Return,
         DropTaken, NoToken, Free, sender
  <2>3. QED
    BY <2>1, <2>2, <1>low DEF ArmedInv
<1>33. ASSUME due = Null, AbortSpin PROVE ArmedInv'
  <2>1. UNCHANGED <<spc, sop, stok>> /\ (Open' => Open) /\ rpc \notin {"wait", "abort"}
    BY <1>33, SenderStays DEF Open, AbortSpin, sender
  <2>2. cnt' = cnt
    BY <1>33, <1>low, <1>t, <1>st, CountFacts, ReceiverAsserts DEF AbortSpin, NoToken,
         sender
  <2>3. QED
    BY <2>1, <2>2, <1>low DEF ArmedInv
<1>34. ASSUME due = Null, AbortPeek PROVE ArmedInv'
  <2>1. UNCHANGED <<spc, sop, stok>> /\ (Open' => Open) /\ rpc \notin {"wait", "abort"}
    BY <1>34, SenderStays DEF Open, AbortPeek, sender
  <2>2. cnt' = cnt
    BY <1>34, <1>low, <1>t, <1>st, CountFacts, ReceiverAsserts DEF AbortPeek, TakeGoUp,
         GoUp, sender
  <2>3. QED
    BY <2>1, <2>2, <1>low DEF ArmedInv
<1>35. ASSUME due = Null, DropPort PROVE ArmedInv'
  <2>1. UNCHANGED <<spc, sop, stok>> /\ (Open' => Open) /\ rpc \notin {"wait", "abort"}
    BY <1>35, SenderStays DEF Open, DropPort, sender
  <2>2. cnt' = cnt
    BY <1>35, <1>low, <1>t, <1>st, CountFacts, ReceiverAsserts DEF DropPort, sender
  <2>3. QED
    BY <2>1, <2>2, <1>low DEF ArmedInv
<1>36. ASSUME due = Null, DropCas PROVE ArmedInv'
  <2>1. UNCHANGED <<spc, sop, stok>> /\ (Open' => Open) /\ rpc = "dropcas"
    BY <1>36, SenderStays DEF Open, DropCas, sender
  <2>2. Open' => cnt' = cnt
    BY <1>36 DEF DropCas, MustDrain, Open
  <2>3. QED
    BY <2>1, <2>2, <1>low DEF ArmedInv
<1>37. ASSUME due = Null, DropDrain PROVE ArmedInv'
  <2>1. UNCHANGED <<spc, sop, stok>> /\ (Open' => Open) /\ rpc \notin {"wait", "abort"}
    BY <1>37, SenderStays DEF Open, DropDrain, sender
  <2>2. cnt' = cnt
    BY <1>37, <1>low, <1>t, <1>st, CountFacts, ReceiverAsserts DEF DropDrain, CountDrained,
         sender
  <2>3. QED
    BY <2>1, <2>2, <1>low DEF ArmedInv
<1>38. CASE Terminated
  BY <1>38, <1>same DEF Terminated, vars, sender, receiver
<1>39. QED
  BY <1>1, <1>2, <1>3, <1>4, <1>5, <1>6, <1>7, <1>8, <1>9, <1>10, <1>11, <1>12, <1>13,
       <1>14, <1>15, <1>16, <1>17, <1>18, <1>19, <1>20, <1>21, <1>22, <1>23, <1>24, <1>25,
       <1>26, <1>27, <1>28, <1>29, <1>30, <1>31, <1>32, <1>33, <1>34, <1>35, <1>36, <1>37,
       <1>38 DEF Next, SenderStep, ReceiverStep

\* to_wake holds the token of the blocking call, and of no other.
LEMMA ToWakeInvStep ==
  ASSUME IInv, Next
  PROVE  ToWakeInv'
<1>eff. Effects
  BY QueueEffects
<1>t. /\ cnt \in Int /\ local \in Int /\ blocks \in Nat /\ toWake \in Nat /\ stok \in Nat /\ rtok \in Nat
      /\ sop \in {"send", "clone", "drop"} /\ Len(queue) \in Nat
  BY Types DEF IInv, TypeInv, CallTypes
<1>inv. HolderInv /\ TakerInv /\ ArmedInv /\ ToWakeInv /\ CloneInv /\ OpInv /\ BlocksInv
  BY DEF IInv
<1>woken. toWake # NoToken => toWake \notin woken
  BY DEF IInv, FreedInv
<1>held. stok # NoToken => stok \notin woken
  BY DEF IInv, FreedInv
<1>same. ASSUME UNCHANGED <<rpc, toWake, rtok, blocks>> PROVE ToWakeInv'
  BY <1>same, <1>inv DEF ToWakeInv
<1>1. ASSUME
       SenderCall \/ SendCheck \/ SendPush \/ SendLink \/ SendAdd \/ SendDisconnected \/
       SendDrain \/ TakeLoad \/ Signal \/ DropChan \/ EndPop
       PROVE  ToWakeInv'
  BY <1>1, <1>same DEF SenderCall, receiver, SendCheck, SendPush, SendLink, SendAdd,
       SendDisconnected, SendDrain, TakeLoad, Signal, DropChan, EndPop, sender
<1>2. ASSUME TakeClear PROVE ToWakeInv'
  BY <1>2, <1>inv, <1>t, <1>woken, SenderAsserts, ReceiverAsserts DEF ToWakeInv, TakerInv,
       Block, AbortLocs, TakeClear, NoToken, receiver
<1>3. ASSUME due = Null, RecvCall PROVE ToWakeInv'
  BY <1>3, <1>inv, <1>t, <1>woken, SenderAsserts, ReceiverAsserts DEF ToWakeInv, TakerInv,
       Block, AbortLocs, RecvCall, sender
<1>4. ASSUME due = Null, TryPop PROVE ToWakeInv'
  BY <1>4, <1>inv, <1>t, <1>woken, SenderAsserts, ReceiverAsserts DEF ToWakeInv, TakerInv,
       Block, AbortLocs, TryPop, Found, FoldDue, Return, Offset, GoUp, sender
<1>5. ASSUME due = Null, FoldSwap PROVE ToWakeInv'
  BY <1>5, <1>inv, <1>t, <1>woken, SenderAsserts, ReceiverAsserts DEF ToWakeInv, TakerInv,
       Block, AbortLocs, FoldSwap, Foldable, AddBack, sender
<1>6. ASSUME due = Null, FoldBump PROVE ToWakeInv'
  BY <1>6, <1>inv, <1>t, <1>woken, SenderAsserts, ReceiverAsserts DEF ToWakeInv, TakerInv,
       Block, AbortLocs, FoldBump, sender
<1>7. ASSUME due = Null, FoldStore PROVE ToWakeInv'
  BY <1>7, <1>inv, <1>t, <1>woken, SenderAsserts, ReceiverAsserts DEF ToWakeInv, TakerInv,
       Block, AbortLocs, FoldStore, sender
<1>8. ASSUME due = Null, Folded PROVE ToWakeInv'
  BY <1>8, <1>inv, <1>t, <1>woken, SenderAsserts, ReceiverAsserts DEF ToWakeInv, TakerInv,
       Block, AbortLocs, Folded, Found, Return, Offset, GoUp, sender
<1>9. ASSUME due = Null, TryLook PROVE ToWakeInv'
  BY <1>9, <1>inv, <1>t, <1>woken, SenderAsserts, ReceiverAsserts DEF ToWakeInv, TakerInv,
       Block, AbortLocs, TryLook, Nothing, Return, sender
<1>10. ASSUME due = Null, TryAgain PROVE ToWakeInv'
  BY <1>10, <1>inv, <1>t, <1>woken, SenderAsserts, ReceiverAsserts DEF ToWakeInv, TakerInv,
       Block, AbortLocs, TryAgain, Return, Found, Offset, GoUp, sender
<1>11. ASSUME due = Null, Decrement PROVE ToWakeInv'
  BY <1>11, <1>inv, <1>t, <1>woken, SenderAsserts, ReceiverAsserts DEF ToWakeInv, TakerInv,
       Block, AbortLocs, Decrement, NoToken, sender
<1>12. ASSUME due = Null, DecrementSub PROVE ToWakeInv'
  BY <1>12, <1>inv, <1>t, <1>woken, SenderAsserts, ReceiverAsserts DEF ToWakeInv, TakerInv,
       Block, AbortLocs, DecrementSub, sender
<1>13. ASSUME due = Null, DecrementDisc PROVE ToWakeInv'
  BY <1>13, <1>inv, <1>t, <1>woken, SenderAsserts, ReceiverAsserts DEF ToWakeInv, TakerInv,
       Block, AbortLocs, DecrementDisc, sender
<1>14. ASSUME due = Null, DecrementFailed PROVE ToWakeInv'
  BY <1>14, <1>inv, <1>t, <1>woken, SenderAsserts, ReceiverAsserts DEF ToWakeInv, TakerInv,
       Block, AbortLocs, DecrementFailed, Unannounced, NoToken, sender
<1>15. ASSUME due = Null, WaitDone PROVE ToWakeInv'
  BY <1>15, <1>inv, <1>t, <1>woken, SenderAsserts, ReceiverAsserts DEF ToWakeInv, TakerInv,
       Block, AbortLocs, WaitDone, NoToken, sender
<1>16. ASSUME due = Null, WaitAborted PROVE ToWakeInv'
  BY <1>16, <1>inv, <1>t, <1>woken, SenderAsserts, ReceiverAsserts DEF ToWakeInv, TakerInv,
       Block, AbortLocs, WaitAborted, sender
<1>17. ASSUME due = Null, CanRecv PROVE ToWakeInv'
  BY <1>17, <1>inv, <1>t, <1>woken, SenderAsserts, ReceiverAsserts DEF ToWakeInv, TakerInv,
       Block, AbortLocs, CanRecv, Return, GoUp, sender
<1>18. ASSUME due = Null, StartCancel PROVE ToWakeInv'
  BY <1>18, <1>inv, <1>t, <1>woken, SenderAsserts, ReceiverAsserts DEF ToWakeInv, TakerInv,
       Block, AbortLocs, StartCancel, TakeGoUp, GoUp, sender
<1>19. ASSUME due = Null, StartCancelBump PROVE ToWakeInv'
  BY <1>19, <1>inv, <1>t, <1>woken, SenderAsserts, ReceiverAsserts DEF ToWakeInv, TakerInv,
       Block, AbortLocs, StartCancelBump, sender
<1>20. ASSUME due = Null, AbortBump PROVE ToWakeInv'
  <2>1. UNCHANGED <<toWake, rtok, blocks>> /\ rpc = "abort" /\ rpc' \in AbortLocs
    BY <1>20, <1>t, ReceiverAsserts DEF AbortBump, AbortLocs
  <2>2. ASSUME rpc' = "aborttake" PROVE toWake # NoToken
    <3>1. cnt < 0 /\ cnt # DISCONNECTED
      BY <1>20, <2>2 DEF AbortBump
    <3>2. Open
      BY <2>1, <3>1 DEF IInv, OverInv, Mid, Open
    <3>3. QED
      BY <3>1, <3>2, <1>inv DEF ArmedInv
  <2>3. QED
    BY <1>20, <2>1, <2>2, <1>inv DEF ToWakeInv, AbortLocs, Block, AbortBump
<1>21. ASSUME due = Null, AbortDisc PROVE ToWakeInv'
  BY <1>21, <1>inv, <1>t, <1>woken, SenderAsserts, ReceiverAsserts DEF ToWakeInv, TakerInv,
       Block, AbortLocs, AbortDisc, NoToken, sender
<1>22. ASSUME due = Null, AbortTake PROVE ToWakeInv'
  BY <1>22, <1>inv, <1>t, <1>woken, SenderAsserts, ReceiverAsserts DEF ToWakeInv, TakerInv,
       Block, AbortLocs, AbortTake, Return, NoToken, sender
<1>23. ASSUME due = Null, AbortSpin PROVE ToWakeInv'
  BY <1>23, <1>inv, <1>t, <1>woken, SenderAsserts, ReceiverAsserts DEF ToWakeInv, TakerInv,
       Block, AbortLocs, AbortSpin, NoToken, sender
<1>24. ASSUME due = Null, AbortPeek PROVE ToWakeInv'
  BY <1>24, <1>inv, <1>t, <1>woken, SenderAsserts, ReceiverAsserts DEF ToWakeInv, TakerInv,
       Block, AbortLocs, AbortPeek, TakeGoUp, GoUp, sender
<1>25. ASSUME due = Null, DropPort PROVE ToWakeInv'
  BY <1>25, <1>inv, <1>t, <1>woken, SenderAsserts, ReceiverAsserts DEF ToWakeInv, TakerInv,
       Block, AbortLocs, DropPort, sender
<1>26. ASSUME due = Null, DropCas PROVE ToWakeInv'
  BY <1>26, <1>inv, <1>t, <1>woken, SenderAsserts, ReceiverAsserts DEF ToWakeInv, TakerInv,
       Block, AbortLocs, DropCas, MustDrain, sender
<1>27. ASSUME due = Null, DropDrain PROVE ToWakeInv'
  BY <1>27, <1>inv, <1>t, <1>woken, SenderAsserts, ReceiverAsserts DEF ToWakeInv, TakerInv,
       Block, AbortLocs, DropDrain, CountDrained, sender
<1>28. CASE Terminated
  BY <1>28, <1>same DEF Terminated, vars, sender, receiver
<1>29. QED
  BY <1>1, <1>2, <1>3, <1>4, <1>5, <1>6, <1>7, <1>8, <1>9, <1>10, <1>11, <1>12, <1>13,
       <1>14, <1>15, <1>16, <1>17, <1>18, <1>19, <1>20, <1>21, <1>22, <1>23, <1>24, <1>25,
       <1>26, <1>27, <1>28 DEF Next, SenderStep, ReceiverStep

\* The receiver finds the upgrade of a sender that took its token.
LEMMA CloneInvStep ==
  ASSUME IInv, Next
  PROVE  CloneInv'
<1>eff. Effects
  BY QueueEffects
<1>t. /\ cnt \in Int /\ local \in Int /\ blocks \in Nat /\ toWake \in Nat /\ stok \in Nat /\ rtok \in Nat
      /\ sop \in {"send", "clone", "drop"} /\ Len(queue) \in Nat
  BY Types DEF IInv, TypeInv, CallTypes
<1>inv. HolderInv /\ TakerInv /\ ArmedInv /\ ToWakeInv /\ CloneInv /\ OpInv /\ BlocksInv
  BY DEF IInv
<1>see. /\ spc \in {"add", "drop"} /\ cnt = -1 =>
             Open /\ toWake # NoToken /\ rpc \in {"wait", "abort"} /\ (spc = "drop" => stok = NoToken)
        /\ spc = "add" => stok = NoToken
  <2>1. spc \in {"add", "drop"} /\ cnt = -1 => Open
    BY WhileOpen DEF Open
  <2>2. QED
    BY <2>1, <1>inv DEF ArmedInv, HolderInv
<1>woken. toWake # NoToken => toWake \notin woken
  BY DEF IInv, FreedInv
<1>held. stok # NoToken => stok \notin woken
  BY DEF IInv, FreedInv
<1>same. ASSUME UNCHANGED <<spc, sop, stok, rpc, rtok, toWake, queue>> PROVE CloneInv'
  BY <1>same, <1>inv DEF CloneInv, Cloning
<1>1. ASSUME
       EndPop
       PROVE  CloneInv'
  BY <1>1, <1>same, <1>eff DEF EndPop, sender, receiver, Effects
<1>2. ASSUME SenderCall PROVE CloneInv'
  <2>1. UNCHANGED <<rpc, rtok>> /\ queue' = queue
    BY <1>2, <1>eff DEF Effects, SenderCall, receiver
  <2>2. (Cloning' => Cloning) /\ (Cloning' => (IF spc' = "drop" THEN stok' ELSE toWake') = IF spc = "drop" THEN stok ELSE toWake)
    BY <1>2, <1>inv, <1>t DEF Cloning, HolderInv, OpInv, SenderCall
  <2>3. QED
    BY <2>1, <2>2, <1>inv DEF CloneInv
<1>3. ASSUME SendCheck PROVE CloneInv'
  <2>1. UNCHANGED <<rpc, rtok>> /\ queue' = queue
    BY <1>3, <1>eff DEF Effects, SendCheck, receiver
  <2>2. (Cloning' => Cloning) /\ (Cloning' => (IF spc' = "drop" THEN stok' ELSE toWake') = IF spc = "drop" THEN stok ELSE toWake)
    BY <1>3, <1>inv, <1>t DEF Cloning, HolderInv, OpInv, SendCheck, AfterSend
  <2>3. QED
    BY <2>1, <2>2, <1>inv DEF CloneInv
<1>4. ASSUME SendPush PROVE CloneInv'
  <2>1. UNCHANGED <<rpc, rtok>> /\ queue' = queue
    BY <1>4, <1>eff DEF Effects, SendPush, receiver
  <2>2. (Cloning' => Cloning) /\ (Cloning' => (IF spc' = "drop" THEN stok' ELSE toWake') = IF spc = "drop" THEN stok ELSE toWake)
    BY <1>4, <1>inv, <1>t DEF Cloning, HolderInv, OpInv, SendPush, GoUp
  <2>3. QED
    BY <2>1, <2>2, <1>inv DEF CloneInv
<1>5. ASSUME SendLink PROVE CloneInv'
  <2>1. ~Cloning'
    BY <1>5, <1>inv DEF Cloning, HolderInv, AfterSend, SendLink
  <2>2. QED
    BY <2>1 DEF CloneInv
<1>6. ASSUME SendAdd PROVE CloneInv'
  <2>1. UNCHANGED <<rpc, rtok, toWake, stok, sop>> /\ queue' = queue /\ spc = "add" /\ stok = NoToken
    BY <1>6, <1>eff, <1>inv DEF Effects, SendAdd, receiver, HolderInv
  <2>2. ASSUME Cloning' PROVE cnt = -1 /\ sop = "clone" /\ spc' = "take"
    BY <1>6, <2>1, <2>2, <1>t DEF Cloning, SendAdd, SeesWaiter, AfterSend
  <2>3. ASSUME Cloning' PROVE Open /\ toWake # NoToken /\ rpc \in {"wait", "abort"} /\ Len(queue) = 1 /\ queue[1] = GoUp
    <3>1. Open /\ toWake # NoToken /\ rpc \in {"wait", "abort"}
      BY <2>1, <2>2, <2>3, <1>see
    <3>2. cnt >= Due
      BY <3>1 DEF IInv, BalanceInv
    <3>3. Extra = -1 /\ Uncounted = 1
      BY <2>1, <3>1 DEF Extra, Uncounted
    <3>4. Len(queue) <= 1
      BY <2>2, <2>3, <3>2, <3>3, Types DEF Due
    <3>5. UpInQueue
      <4>1. UpInv /\ ResultInv
        BY DEF IInv
      <4>2. Linked
        BY <2>1, <2>2, <2>3 DEF Linked
      <4>3. hand # GoUp
        BY <3>1, <4>1 DEF UpInv, Folding, GoUp, None
      <4>4. rres # "Upgraded" /\ rpc \notin Dropping
        BY <3>1, <4>1 DEF ResultInv, Block, AbortLocs, Dropping
      <4>5. QED
        BY <4>1, <4>2, <4>3, <4>4 DEF UpInv
    <3>6. Len(queue) = 1
      BY <3>4, <3>5, <1>t DEF UpInQueue
    <3>7. QED
      BY <3>1, <3>5, <3>6 DEF UpInQueue
  <2>4. Cloning' => rtok = toWake
    BY <2>3, <1>inv DEF ToWakeInv, Block, AbortLocs
  <2>5. QED
    BY <2>1, <2>2, <2>3, <2>4 DEF CloneInv
<1>7. ASSUME SendDisconnected PROVE CloneInv'
  <2>1. UNCHANGED <<rpc, rtok>> /\ queue' = queue
    BY <1>7, <1>eff DEF Effects, SendDisconnected, receiver
  <2>2. (Cloning' => Cloning) /\ (Cloning' => (IF spc' = "drop" THEN stok' ELSE toWake') = IF spc = "drop" THEN stok ELSE toWake)
    BY <1>7, <1>inv, <1>t DEF Cloning, HolderInv, OpInv, SendDisconnected
  <2>3. QED
    BY <2>1, <2>2, <1>inv DEF CloneInv
<1>8. ASSUME SendDrain PROVE CloneInv'
  <2>1. ~Cloning'
    BY <1>8, <1>inv DEF Cloning, HolderInv, AfterSend, SendDrain
  <2>2. QED
    BY <2>1 DEF CloneInv
<1>9. ASSUME TakeLoad PROVE CloneInv'
  <2>1. UNCHANGED <<rpc, rtok>> /\ queue' = queue
    BY <1>9, <1>eff DEF Effects, TakeLoad, receiver
  <2>2. (Cloning' => Cloning) /\ (Cloning' => (IF spc' = "drop" THEN stok' ELSE toWake') = IF spc = "drop" THEN stok ELSE toWake)
    BY <1>9, <1>inv, <1>t DEF Cloning, HolderInv, OpInv, TakeLoad, NoToken
  <2>3. QED
    BY <2>1, <2>2, <1>inv DEF CloneInv
<1>10. ASSUME TakeClear PROVE CloneInv'
  <2>1. UNCHANGED <<rpc, rtok>> /\ queue' = queue
    BY <1>10, <1>eff DEF Effects, TakeClear, receiver
  <2>2. (Cloning' => Cloning) /\ (Cloning' => (IF spc' = "drop" THEN stok' ELSE toWake') = IF spc = "drop" THEN stok ELSE toWake)
    BY <1>10, <1>inv, <1>t DEF Cloning, HolderInv, OpInv, TakeClear, NoToken
  <2>3. QED
    BY <2>1, <2>2, <1>inv DEF CloneInv
<1>11. ASSUME Signal PROVE CloneInv'
  <2>1. UNCHANGED <<rpc, rtok>> /\ queue' = queue
    BY <1>11, <1>eff DEF Effects, Signal, receiver
  <2>2. (Cloning' => Cloning) /\ (Cloning' => (IF spc' = "drop" THEN stok' ELSE toWake') = IF spc = "drop" THEN stok ELSE toWake)
    BY <1>11, <1>inv, <1>t DEF Cloning, HolderInv, OpInv, Signal, NoToken
  <2>3. QED
    BY <2>1, <2>2, <1>inv DEF CloneInv
<1>12. ASSUME DropChan PROVE CloneInv'
  <2>1. ~Cloning'
    BY <1>12, <1>inv DEF Cloning, HolderInv, AfterSend, DropChan
  <2>2. QED
    BY <2>1 DEF CloneInv
<1>13. ASSUME due = Null, RecvCall PROVE CloneInv'
  <2>1. UNCHANGED <<spc, sop, stok>>
    BY <1>13 DEF sender, RecvCall
  <2>2. Cloning' <=> Cloning
    BY <2>1 DEF Cloning
  <2>3. rpc \notin {"wait", "abort", "abortspin", "abortpeek"} \cup Dropping
    BY <1>13 DEF Dropping, RecvCall
  <2>4. QED
    BY <2>2, <2>3, <1>inv DEF CloneInv
<1>14. ASSUME due = Null, TryPop PROVE CloneInv'
  <2>1. UNCHANGED <<spc, sop, stok>>
    BY <1>14 DEF sender, TryPop
  <2>2. Cloning' <=> Cloning
    BY <2>1 DEF Cloning
  <2>3. rpc \notin {"wait", "abort", "abortspin", "abortpeek"} \cup Dropping
    BY <1>14 DEF Dropping, TryPop
  <2>4. QED
    BY <2>2, <2>3, <1>inv DEF CloneInv
<1>15. ASSUME due = Null, FoldSwap PROVE CloneInv'
  <2>1. UNCHANGED <<spc, sop, stok>>
    BY <1>15 DEF sender, FoldSwap
  <2>2. Cloning' <=> Cloning
    BY <2>1 DEF Cloning
  <2>3. rpc \notin {"wait", "abort", "abortspin", "abortpeek"} \cup Dropping
    BY <1>15 DEF Dropping, FoldSwap
  <2>4. QED
    BY <2>2, <2>3, <1>inv DEF CloneInv
<1>16. ASSUME due = Null, FoldBump PROVE CloneInv'
  <2>1. UNCHANGED <<spc, sop, stok>>
    BY <1>16 DEF sender, FoldBump
  <2>2. Cloning' <=> Cloning
    BY <2>1 DEF Cloning
  <2>3. rpc \notin {"wait", "abort", "abortspin", "abortpeek"} \cup Dropping
    BY <1>16 DEF Dropping, FoldBump
  <2>4. QED
    BY <2>2, <2>3, <1>inv DEF CloneInv
<1>17. ASSUME due = Null, FoldStore PROVE CloneInv'
  <2>1. UNCHANGED <<spc, sop, stok>>
    BY <1>17 DEF sender, FoldStore
  <2>2. Cloning' <=> Cloning
    BY <2>1 DEF Cloning
  <2>3. rpc \notin {"wait", "abort", "abortspin", "abortpeek"} \cup Dropping
    BY <1>17 DEF Dropping, FoldStore
  <2>4. QED
    BY <2>2, <2>3, <1>inv DEF CloneInv
<1>18. ASSUME due = Null, Folded PROVE CloneInv'
  <2>1. UNCHANGED <<spc, sop, stok>>
    BY <1>18 DEF sender, Folded
  <2>2. Cloning' <=> Cloning
    BY <2>1 DEF Cloning
  <2>3. rpc \notin {"wait", "abort", "abortspin", "abortpeek"} \cup Dropping
    BY <1>18 DEF Dropping, Folded
  <2>4. QED
    BY <2>2, <2>3, <1>inv DEF CloneInv
<1>19. ASSUME due = Null, TryLook PROVE CloneInv'
  <2>1. UNCHANGED <<spc, sop, stok>>
    BY <1>19 DEF sender, TryLook
  <2>2. Cloning' <=> Cloning
    BY <2>1 DEF Cloning
  <2>3. rpc \notin {"wait", "abort", "abortspin", "abortpeek"} \cup Dropping
    BY <1>19 DEF Dropping, TryLook
  <2>4. QED
    BY <2>2, <2>3, <1>inv DEF CloneInv
<1>20. ASSUME due = Null, TryAgain PROVE CloneInv'
  <2>1. UNCHANGED <<spc, sop, stok>>
    BY <1>20 DEF sender, TryAgain
  <2>2. Cloning' <=> Cloning
    BY <2>1 DEF Cloning
  <2>3. rpc \notin {"wait", "abort", "abortspin", "abortpeek"} \cup Dropping
    BY <1>20 DEF Dropping, TryAgain
  <2>4. QED
    BY <2>2, <2>3, <1>inv DEF CloneInv
<1>21. ASSUME due = Null, Decrement PROVE CloneInv'
  <2>1. UNCHANGED <<spc, sop, stok>>
    BY <1>21 DEF sender, Decrement
  <2>2. Cloning' <=> Cloning
    BY <2>1 DEF Cloning
  <2>3. rpc \notin {"wait", "abort", "abortspin", "abortpeek"} \cup Dropping
    BY <1>21 DEF Dropping, Decrement
  <2>4. QED
    BY <2>2, <2>3, <1>inv DEF CloneInv
<1>22. ASSUME due = Null, DecrementSub PROVE CloneInv'
  <2>1. UNCHANGED <<spc, sop, stok>>
    BY <1>22 DEF sender, DecrementSub
  <2>2. Cloning' <=> Cloning
    BY <2>1 DEF Cloning
  <2>3. rpc \notin {"wait", "abort", "abortspin", "abortpeek"} \cup Dropping
    BY <1>22 DEF Dropping, DecrementSub
  <2>4. QED
    BY <2>2, <2>3, <1>inv DEF CloneInv
<1>23. ASSUME due = Null, DecrementDisc PROVE CloneInv'
  <2>1. UNCHANGED <<spc, sop, stok>>
    BY <1>23 DEF sender, DecrementDisc
  <2>2. Cloning' <=> Cloning
    BY <2>1 DEF Cloning
  <2>3. rpc \notin {"wait", "abort", "abortspin", "abortpeek"} \cup Dropping
    BY <1>23 DEF Dropping, DecrementDisc
  <2>4. QED
    BY <2>2, <2>3, <1>inv DEF CloneInv
<1>24. ASSUME due = Null, DecrementFailed PROVE CloneInv'
  <2>1. UNCHANGED <<spc, sop, stok>>
    BY <1>24 DEF sender, DecrementFailed
  <2>2. Cloning' <=> Cloning
    BY <2>1 DEF Cloning
  <2>3. rpc \notin {"wait", "abort", "abortspin", "abortpeek"} \cup Dropping
    BY <1>24 DEF Dropping, DecrementFailed
  <2>4. QED
    BY <2>2, <2>3, <1>inv DEF CloneInv
<1>25. ASSUME due = Null, WaitDone PROVE CloneInv'
  <2>1. UNCHANGED <<spc, sop, stok>>
    BY <1>25 DEF sender, WaitDone
  <2>2. Cloning' <=> Cloning
    BY <2>1 DEF Cloning
  <2>3. rpc = "wait" /\ rtok \in woken
    BY <1>25 DEF WaitDone
  <2>4. ~Cloning
    <3>1. SUFFICES ASSUME Cloning PROVE FALSE
      OBVIOUS
    <3>2. rtok = IF spc = "drop" THEN stok ELSE toWake
      BY <3>1, <2>3, <1>inv DEF CloneInv
    <3>3. (IF spc = "drop" THEN stok ELSE toWake) # NoToken
      BY <3>1, <1>inv DEF Cloning, TakerInv
    <3>4. QED
      BY <2>3, <3>2, <3>3, <1>woken, <1>held
  <2>5. QED
    BY <2>2, <2>4 DEF CloneInv
<1>26. ASSUME due = Null, WaitAborted PROVE CloneInv'
  <2>1. UNCHANGED <<spc, sop, stok>>
    BY <1>26 DEF sender, WaitAborted
  <2>2. Cloning' <=> Cloning
    BY <2>1 DEF Cloning
  <2>3. rpc = "wait" /\ rpc' = "abort" /\ UNCHANGED <<rtok, toWake>> /\ queue' = queue
    BY <1>26, <1>eff DEF WaitAborted, Effects
  <2>4. QED
    BY <2>1, <2>2, <2>3, <1>inv DEF CloneInv
<1>27. ASSUME due = Null, CanRecv PROVE CloneInv'
  <2>1. UNCHANGED <<spc, sop, stok>>
    BY <1>27 DEF sender, CanRecv
  <2>2. Cloning' <=> Cloning
    BY <2>1 DEF Cloning
  <2>3. rpc \notin {"wait", "abort", "abortspin", "abortpeek"} \cup Dropping
    BY <1>27 DEF Dropping, CanRecv
  <2>4. QED
    BY <2>2, <2>3, <1>inv DEF CloneInv
<1>28. ASSUME due = Null, StartCancel PROVE CloneInv'
  <2>1. UNCHANGED <<spc, sop, stok>>
    BY <1>28 DEF sender, StartCancel
  <2>2. Cloning' <=> Cloning
    BY <2>1 DEF Cloning
  <2>3. rpc \notin {"wait", "abort", "abortspin", "abortpeek"} \cup Dropping
    BY <1>28 DEF Dropping, StartCancel
  <2>4. QED
    BY <2>2, <2>3, <1>inv DEF CloneInv
<1>29. ASSUME due = Null, StartCancelBump PROVE CloneInv'
  <2>1. UNCHANGED <<spc, sop, stok>>
    BY <1>29 DEF sender, StartCancelBump
  <2>2. Cloning' <=> Cloning
    BY <2>1 DEF Cloning
  <2>3. rpc \notin {"wait", "abort", "abortspin", "abortpeek"} \cup Dropping
    BY <1>29 DEF Dropping, StartCancelBump
  <2>4. QED
    BY <2>2, <2>3, <1>inv DEF CloneInv
<1>30. ASSUME due = Null, AbortBump PROVE CloneInv'
  <2>1. UNCHANGED <<spc, sop, stok>>
    BY <1>30 DEF sender, AbortBump
  <2>2. Cloning' <=> Cloning
    BY <2>1 DEF Cloning
  <2>3. rpc = "abort" /\ queue' = queue
    BY <1>30, <1>eff DEF AbortBump, Effects
  <2>4. ASSUME Cloning PROVE rpc' = "abortspin"
    <3>1. ~Over /\ Open
      BY <2>3, <2>4, WhileOpen DEF Cloning, Open
    <3>2. ~(cnt < 0) /\ cnt # DISCONNECTED
      BY <2>4, <3>1, <1>inv, CountFacts DEF ArmedInv, Cloning
    <3>3. QED
      BY <1>30, <3>2, <1>t DEF AbortBump
  <2>5. QED
    BY <2>2, <2>3, <2>4, <1>inv DEF CloneInv
<1>31. ASSUME due = Null, AbortDisc PROVE CloneInv'
  <2>1. UNCHANGED <<spc, sop, stok>>
    BY <1>31 DEF sender, AbortDisc
  <2>2. Cloning' <=> Cloning
    BY <2>1 DEF Cloning
  <2>3. rpc \notin {"wait", "abort", "abortspin", "abortpeek"} \cup Dropping
    BY <1>31 DEF Dropping, AbortDisc
  <2>4. QED
    BY <2>2, <2>3, <1>inv DEF CloneInv
<1>32. ASSUME due = Null, AbortTake PROVE CloneInv'
  <2>1. UNCHANGED <<spc, sop, stok>>
    BY <1>32 DEF sender, AbortTake
  <2>2. Cloning' <=> Cloning
    BY <2>1 DEF Cloning
  <2>3. rpc \notin {"wait", "abort", "abortspin", "abortpeek"} \cup Dropping
    BY <1>32 DEF Dropping, AbortTake
  <2>4. QED
    BY <2>2, <2>3, <1>inv DEF CloneInv
<1>33. ASSUME due = Null, AbortSpin PROVE CloneInv'
  <2>1. UNCHANGED <<spc, sop, stok>>
    BY <1>33 DEF sender, AbortSpin
  <2>2. Cloning' <=> Cloning
    BY <2>1 DEF Cloning
  <2>3. rpc = "abortspin" /\ queue' = queue /\ rpc' = "abortpeek"
    BY <1>33, <1>eff, ReceiverAsserts DEF AbortSpin, Effects
  <2>4. QED
    BY <2>2, <2>3, <1>inv DEF CloneInv
<1>34. ASSUME due = Null, AbortPeek PROVE CloneInv'
  <2>1. UNCHANGED <<spc, sop, stok>>
    BY <1>34 DEF sender, AbortPeek
  <2>2. Cloning' <=> Cloning
    BY <2>1 DEF Cloning
  <2>3. ASSUME Cloning PROVE rpc' = "hangup"
    <3>1. Len(queue) = 1 /\ queue[1] = GoUp
      BY <1>34, <2>3, <1>inv DEF AbortPeek, CloneInv
    <3>2. HasData /\ FrontValue = GoUp
      BY <3>1, <1>eff DEF Effects, Elements
    <3>3. QED
      BY <1>34, <3>2 DEF AbortPeek, TakeGoUp
  <2>4. QED
    BY <2>2, <2>3 DEF CloneInv, Dropping
<1>35. ASSUME due = Null, DropPort PROVE CloneInv'
  <2>1. rpc' \in Dropping
    BY <1>35 DEF Dropping, DropPort
  <2>2. QED
    BY <2>1 DEF CloneInv, Dropping
<1>36. ASSUME due = Null, DropCas PROVE CloneInv'
  <2>1. rpc' \in Dropping
    BY <1>36 DEF Dropping, DropCas
  <2>2. QED
    BY <2>1 DEF CloneInv, Dropping
<1>37. ASSUME due = Null, DropDrain PROVE CloneInv'
  <2>1. rpc' \in Dropping
    BY <1>37 DEF Dropping, DropDrain
  <2>2. QED
    BY <2>1 DEF CloneInv, Dropping
<1>38. CASE Terminated
  BY <1>38, <1>same, <1>eff DEF Terminated, vars, sender, receiver, Effects
<1>39. QED
  BY <1>1, <1>2, <1>3, <1>4, <1>5, <1>6, <1>7, <1>8, <1>9, <1>10, <1>11, <1>12, <1>13,
       <1>14, <1>15, <1>16, <1>17, <1>18, <1>19, <1>20, <1>21, <1>22, <1>23, <1>24, <1>25,
       <1>26, <1>27, <1>28, <1>29, <1>30, <1>31, <1>32, <1>33, <1>34, <1>35, <1>36, <1>37,
       <1>38 DEF Next, SenderStep, ReceiverStep

\* Casting a token back that nobody holds any more.
LEMMA FreeStep ==
  ASSUME IInv, NEW t \in 1..blocks, freed[t] = 0, Free(t), blocks' = blocks,
         \A u \in Tokens : u # t /\ (toWake = u \/ stok = u) => toWake' = u \/ stok' = u,
         toWake' # NoToken => toWake' = toWake /\ toWake' # t,
         stok' # NoToken => stok' = stok /\ stok' # t,
         woken' \subseteq woken \cup {t}, woken \subseteq woken',
         rpc' = "wait" => rpc = "wait" /\ rtok' = rtok /\ t \in woken'
  PROVE  FreedInv'
<1>t. /\ freed \in [Tokens -> Nat] /\ blocks \in Nat /\ MaxBlocks \in Nat /\ blocks <= MaxBlocks
      /\ toWake \in Nat /\ stok \in Nat /\ rtok \in Nat
  BY Types, Bounds DEF IInv, TypeInv, TokenTypes, BlocksInv
<1>inv. FreedInv /\ HolderInv /\ ToWakeInv
  BY DEF IInv
<1>1. t \in Tokens /\ 1..blocks \subseteq Tokens
  BY <1>t DEF Tokens
<1>2. \A u \in Tokens : freed'[u] = IF u = t THEN 1 ELSE freed[u]
  BY <1>1, <1>t DEF Free
<1>3. \A u \in Tokens : freed'[u] \in {0, 1} /\ (u > blocks' => freed'[u] = 0)
  BY <1>1, <1>2, <1>inv, <1>t DEF FreedInv
<1>4. toWake' # NoToken => freed'[toWake'] = 0
  <2>1. toWake # NoToken => toWake \in Tokens
    BY <1>inv, <1>t, <1>1 DEF HolderInv, NoToken
  <2>2. QED
    BY <1>2, <1>inv, <2>1 DEF FreedInv
<1>5. stok' # NoToken => freed'[stok'] = 0
  <2>1. stok # NoToken => stok \in Tokens
    BY <1>inv, <1>t, <1>1 DEF HolderInv, NoToken
  <2>2. QED
    BY <1>2, <1>inv, <2>1 DEF FreedInv
<1>6. \A u \in 1..blocks' : freed'[u] = 0 => toWake' = u \/ stok' = u
  BY <1>1, <1>2, <1>inv DEF FreedInv
<1>7. \A u \in woken' : u \in 1..blocks' /\ freed'[u] = 1
  BY <1>1, <1>2, <1>inv DEF FreedInv
<1>8. rpc' = "wait" /\ freed'[rtok'] = 1 => rtok' \in woken'
  <2>1. rpc' = "wait" => rtok \in 1..blocks
    BY <1>inv DEF ToWakeInv, Block
  <2>2. QED
    BY <1>1, <1>2, <1>inv, <2>1 DEF FreedInv
<1>9. QED
  BY <1>3, <1>4, <1>5, <1>6, <1>7, <1>8 DEF FreedInv

\* Every token has one owner.
LEMMA FreedInvStep ==
  ASSUME IInv, Next
  PROVE  FreedInv'
<1>eff. Effects
  BY QueueEffects
<1>t. /\ blocks \in Nat /\ toWake \in Nat /\ stok \in Nat /\ rtok \in Nat /\ MaxBlocks \in Nat
  BY Types, Bounds
<1>inv. FreedInv
  BY DEF IInv
<1>tok. HolderInv /\ TakerInv /\ ToWakeInv
  BY DEF IInv
<1>max. blocks <= MaxBlocks /\ (rpc = "decr" => blocks < MaxBlocks)
  BY DEF IInv, BlocksInv
<1>same. ASSUME UNCHANGED <<toWake, stok, freed, blocks, woken, rpc, rtok>> PROVE FreedInv'
  BY <1>same, <1>inv DEF FreedInv
<1>1. ASSUME
       SenderCall \/ SendCheck \/ SendPush \/ SendLink \/ SendAdd \/ SendDisconnected \/
       SendDrain \/ DropChan \/ EndPop
       PROVE  FreedInv'
  BY <1>1, <1>same DEF SenderCall, receiver, SendCheck, SendPush, SendLink, SendAdd,
       SendDisconnected, SendDrain, DropChan, EndPop, sender
<1>2. ASSUME TakeLoad PROVE FreedInv'
  <2>1. /\ spc = "take" /\ toWake # NoToken /\ stok' = toWake /\ stok = NoToken
        /\ UNCHANGED <<toWake, freed, blocks, woken, rpc, rtok>>
    BY <1>2, <1>tok DEF TakeLoad, receiver, TakerInv, HolderInv
  <2>2. QED
    BY <2>1, <1>inv, <1>t DEF FreedInv, NoToken
<1>3. ASSUME TakeClear PROVE FreedInv'
  <2>1. /\ stok = toWake /\ toWake' = NoToken /\ UNCHANGED <<stok, freed, blocks, woken, rpc, rtok>>
    BY <1>3, <1>tok DEF TakeClear, receiver, HolderInv
  <2>2. QED
    BY <2>1, <1>inv, <1>t DEF FreedInv, NoToken
<1>4. ASSUME Signal PROVE FreedInv'
  <2>1. /\ spc \in {"signal", "inherited"} /\ woken' = woken \cup {stok} /\ Free(stok) /\ stok' = NoToken
        /\ UNCHANGED <<toWake, blocks, rpc, rtok>>
    BY <1>4 DEF Signal, receiver
  <2>2. stok \in 1..blocks /\ freed[stok] = 0 /\ toWake # stok
    BY <2>1, <1>tok, <1>inv, <1>t DEF HolderInv, FreedInv, NoToken
  <2>3. QED
    BY <2>1, <2>2, FreeStep
<1>5. ASSUME due = Null, RecvCall PROVE FreedInv'
  <2>1. UNCHANGED <<toWake, stok, freed, blocks, woken>>
    BY <1>5 DEF sender, RecvCall
  <2>2. rpc' # "wait"
    BY <1>5 DEF RecvCall
  <2>3. QED
    BY <2>1, <2>2, <1>inv DEF FreedInv
<1>6. ASSUME due = Null, TryPop PROVE FreedInv'
  <2>1. UNCHANGED <<toWake, stok, freed, blocks, woken>>
    BY <1>6 DEF sender, TryPop
  <2>2. rpc' # "wait"
    BY <1>6 DEF TryPop, Found, Return
  <2>3. QED
    BY <2>1, <2>2, <1>inv DEF FreedInv
<1>7. ASSUME due = Null, FoldSwap PROVE FreedInv'
  <2>1. UNCHANGED <<toWake, stok, freed, blocks, woken>>
    BY <1>7 DEF sender, FoldSwap
  <2>2. rpc' # "wait"
    BY <1>7 DEF FoldSwap
  <2>3. QED
    BY <2>1, <2>2, <1>inv DEF FreedInv
<1>8. ASSUME due = Null, FoldBump PROVE FreedInv'
  <2>1. UNCHANGED <<toWake, stok, freed, blocks, woken>>
    BY <1>8 DEF sender, FoldBump
  <2>2. rpc' # "wait"
    BY <1>8 DEF FoldBump
  <2>3. QED
    BY <2>1, <2>2, <1>inv DEF FreedInv
<1>9. ASSUME due = Null, FoldStore PROVE FreedInv'
  <2>1. UNCHANGED <<toWake, stok, freed, blocks, woken>>
    BY <1>9 DEF sender, FoldStore
  <2>2. rpc' # "wait"
    BY <1>9 DEF FoldStore
  <2>3. QED
    BY <2>1, <2>2, <1>inv DEF FreedInv
<1>10. ASSUME due = Null, Folded PROVE FreedInv'
  <2>1. UNCHANGED <<toWake, stok, freed, blocks, woken>>
    BY <1>10 DEF sender, Folded
  <2>2. rpc' # "wait"
    BY <1>10 DEF Folded, Found, Return
  <2>3. QED
    BY <2>1, <2>2, <1>inv DEF FreedInv
<1>11. ASSUME due = Null, TryLook PROVE FreedInv'
  <2>1. UNCHANGED <<toWake, stok, freed, blocks, woken>>
    BY <1>11 DEF sender, TryLook
  <2>2. rpc' # "wait"
    BY <1>11 DEF TryLook, Nothing, Return
  <2>3. QED
    BY <2>1, <2>2, <1>inv DEF FreedInv
<1>12. ASSUME due = Null, TryAgain PROVE FreedInv'
  <2>1. UNCHANGED <<toWake, stok, freed, blocks, woken>>
    BY <1>12 DEF sender, TryAgain
  <2>2. rpc' # "wait"
    BY <1>12 DEF TryAgain, Return, Found
  <2>3. QED
    BY <2>1, <2>2, <1>inv DEF FreedInv
<1>13. ASSUME due = Null, Decrement PROVE FreedInv'
  <2>1. /\ toWake = NoToken /\ blocks' = blocks + 1 /\ toWake' = blocks + 1 /\ rpc' = "sub"
        /\ UNCHANGED <<stok, freed, woken>> /\ rpc = "decr"
    BY <1>13, ReceiverAsserts DEF Decrement, sender
  <2>2. blocks + 1 \in Tokens /\ freed[blocks + 1] = 0
    <3>1. blocks + 1 \in Tokens
      BY <2>1, <1>max, <1>t DEF Tokens
    <3>2. QED
      BY <3>1, <1>inv, <1>t DEF FreedInv
  <2>3. \A u \in Tokens : freed[u] \in {0, 1} /\ (u > blocks + 1 => freed[u] = 0)
    BY <1>inv, <1>t DEF FreedInv, Tokens
  <2>4. \A u \in 1..(blocks + 1) : freed[u] = 0 => blocks + 1 = u \/ stok = u
    BY <2>1, <1>inv, <1>t DEF FreedInv, NoToken
  <2>5. \A u \in woken : u \in 1..(blocks + 1) /\ freed[u] = 1
    BY <1>inv, <1>t DEF FreedInv
  <2>6. QED
    BY <2>1, <2>2, <2>3, <2>4, <2>5, <1>inv DEF FreedInv
<1>14. ASSUME due = Null, DecrementSub PROVE FreedInv'
  <2>1. UNCHANGED <<toWake, stok, freed, blocks, woken, rtok>> /\ rpc = "sub"
    BY <1>14 DEF DecrementSub, sender
  <2>2. freed[rtok] = 0
    BY <2>1, <1>tok, <1>inv, <1>t DEF ToWakeInv, Block, FreedInv, NoToken
  <2>3. QED
    BY <2>1, <2>2, <1>inv DEF FreedInv
<1>15. ASSUME due = Null, DecrementDisc PROVE FreedInv'
  <2>1. UNCHANGED <<toWake, stok, freed, blocks, woken>>
    BY <1>15 DEF sender, DecrementDisc
  <2>2. rpc' # "wait"
    BY <1>15 DEF DecrementDisc
  <2>3. QED
    BY <2>1, <2>2, <1>inv DEF FreedInv
<1>16. ASSUME due = Null, DecrementFailed PROVE FreedInv'
  <2>1. /\ rpc = "unwake" /\ toWake' = NoToken /\ Free(rtok) /\ rpc' # "wait"
        /\ UNCHANGED <<stok, blocks, woken>>
    BY <1>16 DEF DecrementFailed, Unannounced, sender
  <2>2. rtok \in 1..blocks /\ toWake = rtok /\ freed[rtok] = 0 /\ spc # "clear"
    <3>1. rtok \in 1..blocks /\ toWake = rtok /\ spc # "clear"
      BY <2>1, <1>tok DEF ToWakeInv, Block, TakerInv
    <3>2. QED
      BY <3>1, <1>inv, <1>t DEF FreedInv, NoToken
  <2>3. stok # NoToken => stok # rtok
    BY <2>2, <1>tok DEF HolderInv
  <2>4. QED
    BY <2>1, <2>2, <2>3, FreeStep
<1>17. ASSUME due = Null, WaitDone PROVE FreedInv'
  <2>1. UNCHANGED <<toWake, stok, freed, blocks, woken>>
    BY <1>17 DEF sender, WaitDone
  <2>2. rpc' # "wait"
    BY <1>17 DEF WaitDone
  <2>3. QED
    BY <2>1, <2>2, <1>inv DEF FreedInv
<1>18. ASSUME due = Null, WaitAborted PROVE FreedInv'
  <2>1. UNCHANGED <<toWake, stok, freed, blocks, woken>>
    BY <1>18 DEF sender, WaitAborted
  <2>2. rpc' # "wait"
    BY <1>18 DEF WaitAborted
  <2>3. QED
    BY <2>1, <2>2, <1>inv DEF FreedInv
<1>19. ASSUME due = Null, CanRecv PROVE FreedInv'
  <2>1. UNCHANGED <<toWake, stok, freed, blocks, woken>>
    BY <1>19 DEF sender, CanRecv
  <2>2. rpc' # "wait"
    BY <1>19 DEF CanRecv, Return
  <2>3. QED
    BY <2>1, <2>2, <1>inv DEF FreedInv
<1>20. ASSUME due = Null, StartCancel PROVE FreedInv'
  <2>1. UNCHANGED <<toWake, stok, freed, blocks, woken>>
    BY <1>20 DEF sender, StartCancel
  <2>2. rpc' # "wait"
    BY <1>20 DEF StartCancel
  <2>3. QED
    BY <2>1, <2>2, <1>inv DEF FreedInv
<1>21. ASSUME due = Null, StartCancelBump PROVE FreedInv'
  <2>1. UNCHANGED <<toWake, stok, freed, blocks, woken>>
    BY <1>21 DEF sender, StartCancelBump
  <2>2. rpc' # "wait"
    BY <1>21 DEF StartCancelBump
  <2>3. QED
    BY <2>1, <2>2, <1>inv DEF FreedInv
<1>22. ASSUME due = Null, AbortBump PROVE FreedInv'
  <2>1. UNCHANGED <<toWake, stok, freed, blocks, woken>>
    BY <1>22 DEF sender, AbortBump
  <2>2. rpc' # "wait"
    BY <1>22 DEF AbortBump
  <2>3. QED
    BY <2>1, <2>2, <1>inv DEF FreedInv
<1>23. ASSUME due = Null, AbortDisc PROVE FreedInv'
  <2>1. UNCHANGED <<toWake, stok, freed, blocks, woken>>
    BY <1>23 DEF sender, AbortDisc
  <2>2. rpc' # "wait"
    BY <1>23 DEF AbortDisc
  <2>3. QED
    BY <2>1, <2>2, <1>inv DEF FreedInv
<1>24. ASSUME due = Null, AbortTake PROVE FreedInv'
  <2>1. /\ rpc = "aborttake" /\ toWake' = NoToken /\ Free(toWake) /\ rpc' # "wait"
        /\ UNCHANGED <<stok, blocks, woken>> /\ toWake # NoToken
    BY <1>24, ReceiverAsserts DEF AbortTake, DropTaken, Return, sender
  <2>2. toWake \in 1..blocks /\ freed[toWake] = 0 /\ spc # "clear"
    BY <2>1, <1>tok, <1>inv, <1>t DEF HolderInv, FreedInv, NoToken, TakerInv
  <2>3. stok # NoToken => stok # toWake
    BY <2>2, <1>tok DEF HolderInv
  <2>4. QED
    BY <2>1, <2>2, <2>3, FreeStep
<1>25. ASSUME due = Null, AbortSpin PROVE FreedInv'
  <2>1. UNCHANGED <<toWake, stok, freed, blocks, woken>>
    BY <1>25 DEF sender, AbortSpin
  <2>2. rpc' # "wait"
    BY <1>25 DEF AbortSpin
  <2>3. QED
    BY <2>1, <2>2, <1>inv DEF FreedInv
<1>26. ASSUME due = Null, AbortPeek PROVE FreedInv'
  <2>1. UNCHANGED <<toWake, stok, freed, blocks, woken>>
    BY <1>26 DEF sender, AbortPeek
  <2>2. rpc' # "wait"
    BY <1>26 DEF AbortPeek
  <2>3. QED
    BY <2>1, <2>2, <1>inv DEF FreedInv
<1>27. ASSUME due = Null, DropPort PROVE FreedInv'
  <2>1. UNCHANGED <<toWake, stok, freed, blocks, woken>>
    BY <1>27 DEF sender, DropPort
  <2>2. rpc' # "wait"
    BY <1>27 DEF DropPort
  <2>3. QED
    BY <2>1, <2>2, <1>inv DEF FreedInv
<1>28. ASSUME due = Null, DropCas PROVE FreedInv'
  <2>1. UNCHANGED <<toWake, stok, freed, blocks, woken>>
    BY <1>28 DEF sender, DropCas
  <2>2. rpc' # "wait"
    BY <1>28 DEF DropCas
  <2>3. QED
    BY <2>1, <2>2, <1>inv DEF FreedInv
<1>29. ASSUME due = Null, DropDrain PROVE FreedInv'
  <2>1. UNCHANGED <<toWake, stok, freed, blocks, woken>>
    BY <1>29 DEF sender, DropDrain
  <2>2. rpc' # "wait"
    BY <1>29 DEF DropDrain
  <2>3. QED
    BY <2>1, <2>2, <1>inv DEF FreedInv
<1>30. CASE Terminated
  BY <1>30, <1>same DEF Terminated, vars, sender, receiver
<1>31. QED
  BY <1>1, <1>2, <1>3, <1>4, <1>5, <1>6, <1>7, <1>8, <1>9, <1>10, <1>11, <1>12, <1>13,
       <1>14, <1>15, <1>16, <1>17, <1>18, <1>19, <1>20, <1>21, <1>22, <1>23, <1>24, <1>25,
       <1>26, <1>27, <1>28, <1>29, <1>30 DEF Next, SenderStep, ReceiverStep

-----------------------------------------------------------------------------
(* What the receiver has seen                                              *)

\* A try that finds nothing after a wait has seen the hangup.
LEMMA SeenInvStep ==
  ASSUME IInv, Next
  PROVE  SeenInv'
<1>eff. Effects
  BY QueueEffects
<1>inv. SeenInv
  BY DEF IInv
<1>moves. Over => Over'
  BY SenderMoves
<1>same. ASSUME UNCHANGED <<spc, sop, rpc, final, aborted, rmode, queue>> PROVE SeenInv'
  BY <1>same, <1>inv DEF SeenInv, Over, Exact
<1>1. ASSUME
       EndPop
       PROVE  SeenInv'
  BY <1>1, <1>same, <1>eff DEF EndPop, sender, receiver, Effects
<1>2. ASSUME SenderCall PROVE SeenInv'
  <2>1. UNCHANGED <<rpc, final, aborted, rmode>> /\ queue' = queue
    BY <1>2, <1>eff DEF Effects, SenderCall, receiver
  <2>2. Exact' <=> Exact
    BY <2>1 DEF Exact
  <2>3. QED
    BY <2>1, <2>2, <1>inv, <1>moves DEF SeenInv
<1>3. ASSUME SendCheck PROVE SeenInv'
  <2>1. UNCHANGED <<rpc, final, aborted, rmode>> /\ queue' = queue
    BY <1>3, <1>eff DEF Effects, SendCheck, receiver
  <2>2. Exact' <=> Exact
    BY <2>1 DEF Exact
  <2>3. QED
    BY <2>1, <2>2, <1>inv, <1>moves DEF SeenInv
<1>4. ASSUME SendPush PROVE SeenInv'
  <2>1. UNCHANGED <<rpc, final, aborted, rmode>> /\ queue' = queue
    BY <1>4, <1>eff DEF Effects, SendPush, receiver
  <2>2. Exact' <=> Exact
    BY <2>1 DEF Exact
  <2>3. QED
    BY <2>1, <2>2, <1>inv, <1>moves DEF SeenInv
<1>5. ASSUME SendLink PROVE SeenInv'
  <2>1. UNCHANGED <<rpc, final, aborted, rmode>>
    BY <1>5 DEF SendLink, receiver
  <2>2. (Exact' <=> Exact) /\ (Len(queue) > 0 => Len(queue') > 0 /\ queue'[1] = queue[1])
    BY <1>5, <2>1, <1>eff DEF Exact, Effects, Elements
  <2>3. QED
    BY <2>1, <2>2, <1>inv, <1>moves DEF SeenInv
<1>6. ASSUME SendAdd PROVE SeenInv'
  <2>1. UNCHANGED <<rpc, final, aborted, rmode>> /\ queue' = queue
    BY <1>6, <1>eff DEF Effects, SendAdd, receiver
  <2>2. Exact' <=> Exact
    BY <2>1 DEF Exact
  <2>3. QED
    BY <2>1, <2>2, <1>inv, <1>moves DEF SeenInv
<1>7. ASSUME SendDisconnected PROVE SeenInv'
  <2>1. UNCHANGED <<rpc, final, aborted, rmode>> /\ queue' = queue
    BY <1>7, <1>eff DEF Effects, SendDisconnected, receiver
  <2>2. Exact' <=> Exact
    BY <2>1 DEF Exact
  <2>3. QED
    BY <2>1, <2>2, <1>inv, <1>moves DEF SeenInv
<1>8. ASSUME SendDrain PROVE SeenInv'
  <2>1. UNCHANGED <<rpc, final, aborted, rmode>> /\ rpc = "gone"
    BY <1>8 DEF SendDrain, receiver, IInv, GoneInv
  <2>2. QED
    BY <2>1 DEF SeenInv
<1>9. ASSUME TakeLoad PROVE SeenInv'
  <2>1. UNCHANGED <<rpc, final, aborted, rmode>> /\ queue' = queue
    BY <1>9, <1>eff DEF Effects, TakeLoad, receiver
  <2>2. Exact' <=> Exact
    BY <2>1 DEF Exact
  <2>3. QED
    BY <2>1, <2>2, <1>inv, <1>moves DEF SeenInv
<1>10. ASSUME TakeClear PROVE SeenInv'
  <2>1. UNCHANGED <<rpc, final, aborted, rmode>> /\ queue' = queue
    BY <1>10, <1>eff DEF Effects, TakeClear, receiver
  <2>2. Exact' <=> Exact
    BY <2>1 DEF Exact
  <2>3. QED
    BY <2>1, <2>2, <1>inv, <1>moves DEF SeenInv
<1>11. ASSUME Signal PROVE SeenInv'
  <2>1. UNCHANGED <<rpc, final, aborted, rmode>> /\ queue' = queue
    BY <1>11, <1>eff DEF Effects, Signal, receiver
  <2>2. Exact' <=> Exact
    BY <2>1 DEF Exact
  <2>3. QED
    BY <2>1, <2>2, <1>inv, <1>moves DEF SeenInv
<1>12. ASSUME DropChan PROVE SeenInv'
  <2>1. UNCHANGED <<rpc, final, aborted, rmode>> /\ queue' = queue
    BY <1>12, <1>eff DEF Effects, DropChan, receiver
  <2>2. Exact' <=> Exact
    BY <2>1 DEF Exact
  <2>3. QED
    BY <2>1, <2>2, <1>inv, <1>moves DEF SeenInv
<1>13. ASSUME due = Null, RecvCall PROVE SeenInv'
  <2>1. rpc' # "look" /\ (rpc' = "try" => rmode' # "select")
    BY <1>13 DEF RecvCall
  <2>2. QED
    BY <2>1 DEF SeenInv
<1>14. ASSUME due = Null, TryPop PROVE SeenInv'
  <2>1. rpc = "try" /\ UNCHANGED <<spc, sop, aborted, cnt>> /\ rpc' # "try" /\ (rpc' = "look" => ~HasData /\ final' = final)
    BY <1>14 DEF TryPop, sender, Found, Return
  <2>2. (Over' <=> Over) /\ (Exact' <=> Exact)
    BY <2>1, SenderStays DEF Exact
  <2>3. ASSUME rpc' = "look", final, Exact, ~Over PROVE FALSE
    <3>1. Len(queue) = 0
      BY <2>1, <2>3, <1>eff DEF Effects, Elements
    <3>2. steals = 0
      BY <2>3 DEF IInv, StealsInv
    <3>3. Open /\ cnt = Due
      BY <2>1, <2>3 DEF Open, Dropping, IInv, BalanceInv
    <3>4. Extra = -1
      BY <2>1, <2>3, <3>2 DEF Extra, Stolen
    <3>5. cnt < 0
      BY <3>1, <3>3, <3>4, Types DEF Due
    <3>6. QED
      BY <2>1, <3>3, <3>5 DEF IInv, ArmedInv
  <2>4. QED
    BY <2>1, <2>2, <2>3 DEF SeenInv
<1>15. ASSUME due = Null, FoldSwap PROVE SeenInv'
  <2>1. rpc' # "look" /\ (rpc' = "try" => rmode' # "select")
    BY <1>15 DEF FoldSwap
  <2>2. QED
    BY <2>1 DEF SeenInv
<1>16. ASSUME due = Null, FoldBump PROVE SeenInv'
  <2>1. rpc' # "look" /\ (rpc' = "try" => rmode' # "select")
    BY <1>16 DEF FoldBump
  <2>2. QED
    BY <2>1 DEF SeenInv
<1>17. ASSUME due = Null, FoldStore PROVE SeenInv'
  <2>1. rpc' # "look" /\ (rpc' = "try" => rmode' # "select")
    BY <1>17 DEF FoldStore
  <2>2. QED
    BY <2>1 DEF SeenInv
<1>18. ASSUME due = Null, Folded PROVE SeenInv'
  <2>1. rpc' # "look" /\ (rpc' = "try" => rmode' # "select")
    BY <1>18 DEF Folded, Found, Return
  <2>2. QED
    BY <2>1 DEF SeenInv
<1>19. ASSUME due = Null, TryLook PROVE SeenInv'
  <2>1. rpc' # "look" /\ (rpc' = "try" => rmode' # "select")
    BY <1>19 DEF TryLook, Nothing, Return
  <2>2. QED
    BY <2>1 DEF SeenInv
<1>20. ASSUME due = Null, TryAgain PROVE SeenInv'
  <2>1. rpc' # "look" /\ (rpc' = "try" => rmode' # "select")
    BY <1>20 DEF TryAgain, Return, Found
  <2>2. QED
    BY <2>1 DEF SeenInv
<1>21. ASSUME due = Null, Decrement PROVE SeenInv'
  <2>1. rpc' # "look" /\ (rpc' = "try" => rmode' # "select")
    BY <1>21 DEF Decrement
  <2>2. QED
    BY <2>1 DEF SeenInv
<1>22. ASSUME due = Null, DecrementSub PROVE SeenInv'
  <2>1. rpc' # "look" /\ (rpc' = "try" => rmode' # "select")
    BY <1>22 DEF DecrementSub
  <2>2. QED
    BY <2>1 DEF SeenInv
<1>23. ASSUME due = Null, DecrementDisc PROVE SeenInv'
  <2>1. rpc' # "look" /\ (rpc' = "try" => rmode' # "select")
    BY <1>23 DEF DecrementDisc
  <2>2. QED
    BY <2>1 DEF SeenInv
<1>24. ASSUME due = Null, DecrementFailed PROVE SeenInv'
  <2>1. rpc' # "look" /\ (rpc' = "try" => rmode' # "select")
    BY <1>24 DEF DecrementFailed
  <2>2. QED
    BY <2>1 DEF SeenInv
<1>25. ASSUME due = Null, WaitDone PROVE SeenInv'
  <2>1. rpc' # "look" /\ (rpc' = "try" => rmode' # "select")
    BY <1>25 DEF WaitDone
  <2>2. QED
    BY <2>1 DEF SeenInv
<1>26. ASSUME due = Null, WaitAborted PROVE SeenInv'
  <2>1. rpc' # "look" /\ (rpc' = "try" => rmode' # "select")
    BY <1>26 DEF WaitAborted
  <2>2. QED
    BY <2>1 DEF SeenInv
<1>27. ASSUME due = Null, CanRecv PROVE SeenInv'
  <2>1. rpc' # "look" /\ (rpc' = "try" => HasData /\ FrontValue = GoUp) /\ queue' = queue
    BY <1>27, <1>eff DEF CanRecv, Return, Effects
  <2>2. QED
    BY <2>1, <1>eff DEF SeenInv, Effects, Elements
<1>28. ASSUME due = Null, StartCancel PROVE SeenInv'
  <2>1. rpc' # "look" /\ (rpc' = "try" => rmode' # "select")
    BY <1>28 DEF StartCancel
  <2>2. QED
    BY <2>1 DEF SeenInv
<1>29. ASSUME due = Null, StartCancelBump PROVE SeenInv'
  <2>1. rpc' # "look" /\ (rpc' = "try" => rmode' # "select")
    BY <1>29 DEF StartCancelBump
  <2>2. QED
    BY <2>1 DEF SeenInv
<1>30. ASSUME due = Null, AbortBump PROVE SeenInv'
  <2>1. rpc' # "look" /\ (rpc' = "try" => rmode' # "select")
    BY <1>30 DEF AbortBump
  <2>2. QED
    BY <2>1 DEF SeenInv
<1>31. ASSUME due = Null, AbortDisc PROVE SeenInv'
  <2>1. rpc' # "look" /\ (rpc' = "try" => rmode' # "select")
    BY <1>31 DEF AbortDisc
  <2>2. QED
    BY <2>1 DEF SeenInv
<1>32. ASSUME due = Null, AbortTake PROVE SeenInv'
  <2>1. rpc' # "look" /\ (rpc' = "try" => rmode' # "select")
    BY <1>32 DEF AbortTake, Return
  <2>2. QED
    BY <2>1 DEF SeenInv
<1>33. ASSUME due = Null, AbortSpin PROVE SeenInv'
  <2>1. rpc' # "look" /\ (rpc' = "try" => rmode' # "select")
    BY <1>33 DEF AbortSpin
  <2>2. QED
    BY <2>1 DEF SeenInv
<1>34. ASSUME due = Null, AbortPeek PROVE SeenInv'
  <2>1. rpc' # "look" /\ (rpc' = "try" => rmode' # "select")
    BY <1>34 DEF AbortPeek
  <2>2. QED
    BY <2>1 DEF SeenInv
<1>35. ASSUME due = Null, DropPort PROVE SeenInv'
  <2>1. rpc' # "look" /\ (rpc' = "try" => rmode' # "select")
    BY <1>35 DEF DropPort
  <2>2. QED
    BY <2>1 DEF SeenInv
<1>36. ASSUME due = Null, DropCas PROVE SeenInv'
  <2>1. rpc' # "look" /\ (rpc' = "try" => rmode' # "select")
    BY <1>36 DEF DropCas
  <2>2. QED
    BY <2>1 DEF SeenInv
<1>37. ASSUME due = Null, DropDrain PROVE SeenInv'
  <2>1. rpc' # "look" /\ (rpc' = "try" => rmode' # "select")
    BY <1>37 DEF DropDrain
  <2>2. QED
    BY <2>1 DEF SeenInv
<1>38. CASE Terminated
  BY <1>38, <1>same, <1>eff DEF Terminated, vars, sender, receiver, Effects
<1>39. QED
  BY <1>1, <1>2, <1>3, <1>4, <1>5, <1>6, <1>7, <1>8, <1>9, <1>10, <1>11, <1>12, <1>13,
       <1>14, <1>15, <1>16, <1>17, <1>18, <1>19, <1>20, <1>21, <1>22, <1>23, <1>24, <1>25,
       <1>26, <1>27, <1>28, <1>29, <1>30, <1>31, <1>32, <1>33, <1>34, <1>35, <1>36, <1>37,
       <1>38 DEF Next, SenderStep, ReceiverStep

-----------------------------------------------------------------------------
(* The balance of the count                                                *)

\* The count follows what is due, step by step.
LEMMA BalanceInvStep ==
  ASSUME IInv, Next
  PROVE  BalanceInv'
<1>eff. Effects
  BY QueueEffects
<1>t. /\ cnt \in Int /\ local \in Int /\ steals \in Int /\ final \in BOOLEAN
      /\ Uncounted \in {0, 1} /\ Stolen \in Int /\ Extra \in Int /\ Len(queue) \in Nat /\ Due \in Int
      /\ sop \in {"send", "clone", "drop"} /\ aborted \in {"none", "select", "timeout"}
      /\ \A n \in Int : Foldable(n) \in Int
  <2>1. \A n \in Int : Foldable(n) \in Int
    BY Types DEF Foldable
  <2>2. QED
    BY <2>1, Types DEF IInv, TypeInv, CallTypes
<1>bal. BalanceInv
  BY DEF IInv
<1>mode. /\ rpc \in {"idle", "hangup", "can", "decr", "wait", "unwake", "sub", "subdisc", "abort",
                    "abortdisc", "aborttake", "abortspin", "abortpeek", "cancel", "cancelbump",
                    "dropcas", "dropdrain"} => ~final
         /\ rpc \in {"wait", "unwake", "cancel", "cancelbump", "aborttake", "abortspin"} => steals = 0
         /\ rpc \in {"aborttake", "abortpeek"} /\ rmode = "timeout" => ~Exact
  BY DEF IInv, ModeInv, StealsInv, TryLocs, Folding, AbortLocs, Block
<1>moves. Over => Over'
  BY SenderMoves
<1>both. ASSUME Open' => Open, Open' => cnt' \in Int /\ Due' \in Int /\ cnt' - Due' = cnt - Due,
                Exact' /\ rpc' \notin Dropping => Exact /\ rpc \notin Dropping, Spare' => Spare
         PROVE  BalanceInv'
  <2>1. SUFFICES ASSUME Open'
                 PROVE  /\ cnt' >= Due' /\ (Exact' /\ rpc' \notin Dropping => cnt' = Due')
                        /\ Spare' => cnt' > Due'
    BY DEF BalanceInv
  <2>2. cnt >= Due /\ (Exact /\ rpc \notin Dropping => cnt = Due) /\ (Spare => cnt > Due)
    BY <2>1, <1>both, <1>bal DEF BalanceInv
  <2>3. cnt' \in Int /\ Due' \in Int /\ cnt' - Due' = cnt - Due
    BY <2>1, <1>both
  <2>t. cnt \in Int /\ Due \in Int /\ cnt >= Due
    BY <1>t, <2>2
  <2>4. cnt' >= Due' /\ (cnt = Due => cnt' = Due') /\ (cnt > Due => cnt' > Due')
    <3>1. ASSUME NEW x \in Int, NEW y \in Int, NEW u \in Int, NEW v \in Int, x - y = u - v, u >= v
          PROVE  x >= y /\ (u = v => x = y) /\ (u > v => x > y)
      BY <3>1
    <3>2. QED
      BY <2>3, <2>t, <3>1, Zenon
  <2>5. Exact' /\ rpc' \notin Dropping => cnt' = Due'
    BY <2>2, <2>4, <1>both, Zenon
  <2>6. Spare' => cnt' > Due'
    BY <2>2, <2>4, <1>both, Zenon
  <2>7. QED
    BY <2>4, <2>5, <2>6
<1>more. ASSUME Open' => Open, cnt' = cnt + 1, Due' = Due, rpc' \in Dropping
         PROVE  BalanceInv'
  <2>1. SUFFICES ASSUME Open' PROVE cnt' > Due'
    BY <1>t, <1>more DEF BalanceInv
  <2>2. cnt >= Due
    BY <2>1, <1>more, <1>bal DEF BalanceInv
  <2>3. QED
    BY <2>2, <1>more, <1>t
<1>even. ASSUME Open' => Open, Open' => cnt' = cnt, Due' = Due,
                Exact' /\ rpc' \notin Dropping => Exact /\ rpc \notin Dropping, Spare' => Spare
         PROVE  BalanceInv'
  BY <1>even, <1>bal DEF BalanceInv
<1>less. ASSUME Open' => Open, cnt' = cnt, Due' = Due + (-1), Exact' => rpc' \in Dropping
         PROVE  BalanceInv'
  BY <1>less, <1>bal, <1>t DEF BalanceInv
<1>kept. ASSUME UNCHANGED <<rpc, steals, final, local, aborted, rres, cnt>>,
                Len(queue') - Uncounted' = Len(queue) - Uncounted
         PROVE  BalanceInv'
  <2>1. Extra' = Extra /\ (Exact' <=> Exact) /\ (Spare' <=> Spare) /\ (Open' => Open)
    BY <1>kept, <1>moves DEF Extra, Stolen, Exact, Spare, Open
  <2>2. Due' = Due
    BY <1>kept, <2>1 DEF Due
  <2>3. QED
    BY <1>kept, <2>1, <2>2, <1>bal DEF BalanceInv
<1>same. ASSUME UNCHANGED <<spc, sop, rpc, cnt, queue, steals, final, local, aborted, rres>> PROVE BalanceInv'
  BY <1>same, <1>bal DEF BalanceInv, Due, Extra, Stolen, Spare, Exact, Open, Over,
       Uncounted
<1>1. ASSUME
       EndPop
       PROVE  BalanceInv'
  BY <1>1, <1>same, <1>eff DEF EndPop, sender, receiver, Effects
<1>2. ASSUME SenderCall PROVE BalanceInv'
  <2>1. UNCHANGED <<cnt, rpc, steals, final, local, aborted, rres>> /\ queue' = queue /\ Uncounted' = Uncounted
    BY <1>2, <1>eff DEF Effects, Uncounted, AfterSend, SenderCall, receiver
  <2>2. QED
    BY <2>1, <1>moves, <1>kept
<1>3. ASSUME SendCheck PROVE BalanceInv'
  <2>1. UNCHANGED <<cnt, rpc, steals, final, local, aborted, rres>> /\ queue' = queue /\ Uncounted' = Uncounted
    BY <1>3, <1>eff DEF Effects, Uncounted, AfterSend, SendCheck, receiver
  <2>2. QED
    BY <2>1, <1>moves, <1>kept
<1>4. ASSUME SendPush PROVE BalanceInv'
  <2>1. UNCHANGED <<cnt, rpc, steals, final, local, aborted, rres>> /\ queue' = queue /\ Uncounted' = Uncounted
    BY <1>4, <1>eff DEF Effects, Uncounted, AfterSend, SendPush, receiver
  <2>2. QED
    BY <2>1, <1>moves, <1>kept
<1>5. ASSUME SendLink PROVE BalanceInv'
  <2>1. /\ UNCHANGED <<cnt, rpc, steals, final, local, aborted, rres>> /\ Len(queue') = Len(queue) + 1
        /\ Uncounted' = 1 /\ Uncounted = 0
    BY <1>5, <1>eff DEF Effects, Uncounted, SendLink, receiver
  <2>2. QED
    BY <2>1, <1>t, <1>moves, <1>kept
<1>6. ASSUME SendAdd PROVE BalanceInv'
  <2>1. /\ UNCHANGED <<rpc, steals, final, local, aborted, rres>> /\ queue' = queue /\ spc = "add"
        /\ spc' # "add"
    BY <1>6, <1>eff DEF Effects, SendAdd, AfterSend, receiver
  <2>2. Uncounted' = 0 /\ Uncounted = 1
    BY <2>1 DEF Uncounted
  <2>3. Open => cnt' = cnt + 1
    BY <1>6, <2>1, CountFacts DEF SendAdd
  <2>o. Open' => Open
    BY <2>1, <1>moves DEF Open
  <2>4. Extra' = Extra /\ (Exact' <=> Exact) /\ (Spare' <=> Spare)
    BY <2>1 DEF Extra, Stolen, Exact, Spare
  <2>5. Due' = Due + 1
    BY <2>1, <2>2, <2>4, <1>t DEF Due
  <2>6. Open' => cnt' \in Int /\ Due' \in Int /\ cnt' - Due' = cnt - Due
    BY <2>3, <2>5, <2>o, <1>t
  <2>7. QED
    BY <2>1, <2>4, <2>6, <2>o, <1>both
<1>7. ASSUME SendDisconnected PROVE BalanceInv'
  <2>1. ~Open'
    BY <1>7 DEF SendDisconnected, receiver, Open, IInv, GoneInv
  <2>2. QED
    BY <2>1 DEF BalanceInv
<1>8. ASSUME SendDrain PROVE BalanceInv'
  <2>1. ~Open'
    BY <1>8 DEF SendDrain, receiver, Open, IInv, GoneInv
  <2>2. QED
    BY <2>1 DEF BalanceInv
<1>9. ASSUME TakeLoad PROVE BalanceInv'
  <2>1. UNCHANGED <<cnt, rpc, steals, final, local, aborted, rres>> /\ queue' = queue /\ Uncounted' = Uncounted
    BY <1>9, <1>eff DEF Effects, Uncounted, AfterSend, TakeLoad, receiver
  <2>2. QED
    BY <2>1, <1>moves, <1>kept
<1>10. ASSUME TakeClear PROVE BalanceInv'
  <2>1. UNCHANGED <<cnt, rpc, steals, final, local, aborted, rres>> /\ queue' = queue /\ Uncounted' = Uncounted
    BY <1>10, <1>eff DEF Effects, Uncounted, AfterSend, TakeClear, receiver
  <2>2. QED
    BY <2>1, <1>moves, <1>kept
<1>11. ASSUME Signal PROVE BalanceInv'
  <2>1. UNCHANGED <<cnt, rpc, steals, final, local, aborted, rres>> /\ queue' = queue /\ Uncounted' = Uncounted
    BY <1>11, <1>eff DEF Effects, Uncounted, AfterSend, Signal, receiver
  <2>2. QED
    BY <2>1, <1>moves, <1>kept
<1>12. ASSUME DropChan PROVE BalanceInv'
  <2>1. Over'
    BY <1>12, <1>t, SenderAsserts DEF DropChan, Over
  <2>2. QED
    BY <2>1 DEF BalanceInv, Open
<1>13. ASSUME due = Null, RecvCall PROVE BalanceInv'
  <2>1. UNCHANGED <<spc, sop>> /\ rpc # "gone"
    BY <1>13 DEF sender, RecvCall
  <2>2. (Over' <=> Over) /\ Uncounted' = Uncounted /\ (Open' => Open)
    BY <2>1, SenderStays DEF Open
  <2>3. /\ UNCHANGED <<cnt, steals>> /\ queue' = queue
        /\ rpc = "idle" /\ rpc' \in {"can", "try"} /\ UNCHANGED <<final, aborted>>
    BY <1>13, <1>eff, <1>mode, <1>t DEF Effects, RecvCall
  <2>4. Extra' = Extra /\ ~Spare' /\ (Exact' => Exact)
    BY <2>3, <1>mode, <1>t DEF Extra, Stolen, Spare, Exact
  <2>5. rpc' \notin Dropping => rpc \notin Dropping
    BY <2>3 DEF Dropping
  <2>6. Due' = Due
    BY <2>2, <2>3, <2>4 DEF Due
  <2>7. QED
    BY <2>2, <2>3, <2>4, <2>5, <2>6, <1>even
<1>14. ASSUME due = Null, TryPop PROVE BalanceInv'
  <2>1. UNCHANGED <<spc, sop>> /\ rpc # "gone"
    BY <1>14 DEF sender, TryPop
  <2>2. (Over' <=> Over) /\ Uncounted' = Uncounted /\ (Open' => Open)
    BY <2>1, SenderStays DEF Open
  <2>3. UNCHANGED <<cnt, aborted>> /\ rpc = "try" /\ rpc \notin Dropping
    BY <1>14 DEF TryPop, Dropping
  <2>4. (Exact' <=> Exact) /\ Extra = Stolen
    BY <2>3 DEF Exact, Extra
  <2>5. CASE ~HasData /\ rpc' = "look" /\ UNCHANGED <<spsc, steals, final>>
    <3>1. Extra' = Extra /\ queue' = queue /\ Len(queue) = 0
      BY <2>4, <2>5, <1>eff DEF Extra, Stolen, Effects, Elements
    <3>2. Due' = Due
      BY <2>2, <3>1 DEF Due
    <3>3. ASSUME Open, Spare', ~Spare PROVE cnt > Due
      <4>1. final /\ steals = 0
        <5>1. final /\ ~(steals > 0)
          BY <2>3, <2>5, <3>3 DEF Spare
        <5>2. steals >= 0
          BY <5>1 DEF IInv, StealsInv
        <5>3. QED
          BY <5>1, <5>2, <1>t
      <4>2. Extra = -1
        BY <2>4, <4>1 DEF Stolen
      <4>3. ~(cnt < 0)
        BY <2>3, <3>3 DEF IInv, ArmedInv
      <4>4. QED
        BY <3>1, <4>2, <4>3, <1>t DEF Due
    <3>4. QED
      BY <2>2, <2>3, <2>4, <3>2, <3>3, <1>bal DEF BalanceInv
  <2>6. CASE HasData /\ FoldDue /\ Pop /\ rpc' = "fold" /\ UNCHANGED <<steals, final>>
    <3>1. Len(queue') = Len(queue) - 1
      BY <1>14, <2>6, <1>eff DEF Effects, PopEffect
    <3>2. Extra' = Stolen + 1
      BY <2>6 DEF Extra, Stolen
    <3>3. Spare' => Spare
      BY <2>3, <2>6, <1>t, Bounds DEF Spare, FoldDue
    <3>4. Due' = Due
      BY <2>2, <2>4, <3>1, <3>2, <1>t DEF Due
    <3>5. QED
      BY <2>2, <2>3, <2>4, <3>3, <3>4, <1>even
  <2>7. CASE HasData /\ Pop /\ Found(FrontValue, steals + 1)
    <3>1. Len(queue') = Len(queue) - 1
      BY <1>14, <2>7, <1>eff DEF Effects, PopEffect
    <3>2. Extra' = Stolen + 1 /\ ~Spare'
      <4>1. steals' = steals + 1 - (IF final THEN 1 ELSE 0) /\ ~final' /\ rpc' \in {"idle", "hangup"}
        <5>1. steals' = steals + 1 - (IF final THEN 1 ELSE 0)
          BY <2>7, <1>t DEF Found, Offset
        <5>2. ~final' /\ rpc' \in {"idle", "hangup"}
          BY <2>7 DEF Found, Return
        <5>3. QED
          BY <5>1, <5>2
      <4>2. Stolen' = steals'
        BY <4>1, <1>t DEF Stolen
      <4>3. Extra' = Stolen' /\ ~Spare'
        BY <4>1 DEF Extra, Spare
      <4>4. QED
        BY <4>1, <4>2, <4>3, <1>t DEF Stolen
    <3>3. Due' = Due
      BY <2>2, <2>4, <3>1, <3>2, <1>t DEF Due
    <3>4. QED
      BY <2>2, <2>3, <2>4, <3>2, <3>3, <1>even
  <2>8. QED
    BY <1>14, <2>5, <2>6, <2>7 DEF TryPop
<1>15. ASSUME due = Null, FoldSwap PROVE BalanceInv'
  <2>1. UNCHANGED <<spc, sop>> /\ rpc # "gone"
    BY <1>15 DEF sender, FoldSwap
  <2>2. (Over' <=> Over) /\ Uncounted' = Uncounted /\ (Open' => Open)
    BY <2>1, SenderStays DEF Open
  <2>3. CASE Over
    BY <2>2, <2>3 DEF BalanceInv, Open
  <2>4. CASE ~Over
    <3>1. rpc = "fold" /\ Open
      BY <1>15, <2>1, <2>4 DEF FoldSwap, Open
    <3>2. /\ cnt' = 0 /\ steals' = steals - Foldable(cnt) /\ local' = cnt - Foldable(cnt)
          /\ rpc' = "foldbump" /\ UNCHANGED <<final, aborted>> /\ queue' = queue /\ Foldable(cnt) \in Int
      BY <1>15, <3>1, <1>eff, <1>t, <1>mode, CountFacts, ReceiverAsserts DEF Effects,
           FoldSwap, Foldable, AddBack
    <3>3. Extra' = Extra + (-cnt) /\ ~Spare' /\ (Exact' <=> Exact) /\ rpc \notin Dropping
      <4>1. PICK k \in Int : k = Foldable(cnt)
        BY <1>t
      <4>2. steals' = steals - k /\ local' = cnt - k
        BY <3>2, <4>1
      <4>3. Stolen' = Stolen - k /\ Stolen \in Int
        <5>1. steals \in Int /\ final \in BOOLEAN /\ final' = final
          BY <3>2, <1>t
        <5>2. QED
          BY <4>2, <5>1 DEF Stolen
      <4>5. Extra' = Stolen' + 1 - local' /\ Extra = Stolen + 1
        BY <3>1, <3>2 DEF Extra
      <4>6. Extra' = Extra + (-cnt)
        <5>1. cnt \in Int
          BY <1>t
        <5>2. QED
          BY <4>2, <4>3, <4>5, <5>1
      <4>4. ~Spare' /\ (Exact' <=> Exact) /\ rpc \notin Dropping
        BY <3>1, <3>2 DEF Spare, Exact, Dropping
      <4>7. QED
        BY <4>4, <4>6
    <3>4. -cnt \in Int /\ cnt' = cnt + (-cnt) /\ Due' = Due + (-cnt)
      BY <2>2, <3>2, <3>3, <1>t DEF Due
    <3>5. cnt' \in Int /\ Due' \in Int /\ cnt' - Due' = cnt - Due
      BY <3>4, <1>t
    <3>6. QED
      BY <2>2, <3>3, <3>5, <1>both
  <2>5. QED
    BY <2>3, <2>4
<1>16. ASSUME due = Null, FoldBump PROVE BalanceInv'
  <2>1. UNCHANGED <<spc, sop>> /\ rpc # "gone"
    BY <1>16 DEF sender, FoldBump
  <2>2. (Over' <=> Over) /\ Uncounted' = Uncounted /\ (Open' => Open)
    BY <2>1, SenderStays DEF Open
  <2>3. CASE Over
    BY <2>2, <2>3 DEF BalanceInv, Open
  <2>4. CASE ~Over
    <3>1. rpc = "foldbump" /\ Open
      BY <1>16, <2>1, <2>4 DEF FoldBump, Open
    <3>2. /\ cnt' = cnt + local /\ rpc' = "folded" /\ UNCHANGED <<steals, final, aborted>>
          /\ queue' = queue
      BY <1>16, <3>1, <1>eff, <1>t, <1>mode, CountFacts, ReceiverAsserts DEF Folding, Effects,
           FoldBump
    <3>3. Extra' = Extra + local /\ ~Spare' /\ (Exact' <=> Exact) /\ rpc \notin Dropping
      BY <3>1, <3>2, <1>t, <1>mode DEF Extra, Stolen, Spare, Exact, Dropping
    <3>4. local \in Int /\ cnt' = cnt + (local) /\ Due' = Due + (local)
      BY <2>2, <3>2, <3>3, <1>t DEF Due
    <3>5. cnt' \in Int /\ Due' \in Int /\ cnt' - Due' = cnt - Due
      BY <3>4, <1>t
    <3>6. QED
      BY <2>2, <3>3, <3>5, <1>both
  <2>5. QED
    BY <2>3, <2>4
<1>17. ASSUME due = Null, FoldStore PROVE BalanceInv'
  <2>1. UNCHANGED <<spc, sop>> /\ rpc # "gone"
    BY <1>17 DEF sender, FoldStore
  <2>2. (Over' <=> Over) /\ Uncounted' = Uncounted /\ (Open' => Open)
    BY <2>1, SenderStays DEF Open
  <2>3. Over
    BY <1>17 DEF FoldStore, IInv, OverInv, Mid
  <2>4. QED
    BY <2>2, <2>3 DEF BalanceInv, Open
<1>18. ASSUME due = Null, Folded PROVE BalanceInv'
  <2>1. UNCHANGED <<spc, sop>> /\ rpc # "gone"
    BY <1>18 DEF sender, Folded
  <2>2. (Over' <=> Over) /\ Uncounted' = Uncounted /\ (Open' => Open)
    BY <2>1, SenderStays DEF Open
  <2>3. UNCHANGED <<cnt, aborted>> /\ queue' = queue /\ rpc = "folded" /\ rpc \notin Dropping
    BY <1>18, <1>eff DEF Folded, Dropping, Effects
  <2>4. (Exact' <=> Exact) /\ Extra = Stolen + 1
    BY <2>3 DEF Exact, Extra
  <2>5. steals' = steals + 1 - (IF final THEN 1 ELSE 0) /\ ~final' /\ rpc' \in {"idle", "hangup"}
    <3>1. steals' = steals + 1 - (IF final THEN 1 ELSE 0)
      BY <1>18, <1>t DEF Folded, Found, Offset
    <3>2. ~final' /\ rpc' \in {"idle", "hangup"}
      BY <1>18 DEF Folded, Found, Return
    <3>3. QED
      BY <3>1, <3>2
  <2>6. Stolen' = steals'
    BY <2>5, <1>t DEF Stolen
  <2>7. Extra' = Stolen' /\ ~Spare'
    BY <2>5 DEF Extra, Spare
  <2>8. Due' = Due
    BY <2>2, <2>3, <2>4, <2>5, <2>6, <2>7, <1>t DEF Due, Stolen
  <2>9. QED
    BY <2>2, <2>3, <2>4, <2>7, <2>8, <1>even
<1>19. ASSUME due = Null, TryLook PROVE BalanceInv'
  <2>1. UNCHANGED <<spc, sop>> /\ rpc # "gone"
    BY <1>19 DEF sender, TryLook
  <2>2. (Over' <=> Over) /\ Uncounted' = Uncounted /\ (Open' => Open)
    BY <2>1, SenderStays DEF Open
  <2>3. CASE Over
    BY <2>2, <2>3 DEF BalanceInv, Open
  <2>4. CASE ~Over
    <3>1. /\ rpc = "look" /\ Open /\ UNCHANGED <<cnt, steals, aborted>> /\ queue' = queue
          /\ \/ rpc' \in {"decr", "panic_empty"} /\ final' = final
             \/ rpc' = "idle" /\ ~final'
      BY <1>19, <2>1, <2>4, <1>eff, CountFacts DEF TryLook, Nothing, Open, Return, Effects
    <3>2. (Exact' <=> Exact) /\ rpc \notin Dropping /\ ~Spare' /\ Extra = Stolen /\ Extra' = Stolen'
      BY <3>1 DEF Exact, Dropping, Spare, Extra
    <3>3. CASE final' = final \/ (~final /\ ~final')
      <4>1. Due' = Due
        BY <2>2, <3>1, <3>2, <3>3 DEF Due, Stolen
      <4>2. QED
        BY <2>2, <3>1, <3>2, <4>1, <1>even
    <3>4. CASE ~final' /\ final
      <4>1. Spare /\ ~Exact
        BY <2>4, <3>1, <3>4 DEF Spare, IInv, SeenInv
      <4>2. Stolen' = Stolen + 1
        BY <3>1, <3>4, <1>t DEF Stolen
      <4>3. Due' = Due + 1
        BY <2>2, <3>1, <3>2, <4>2, <1>t DEF Due
      <4>4. cnt > Due
        BY <3>1, <4>1, <1>bal DEF BalanceInv
      <4>5. QED
        BY <3>1, <3>2, <4>1, <4>3, <4>4, <1>t DEF BalanceInv
    <3>5. QED
      BY <3>1, <3>3, <3>4, <1>t
  <2>5. QED
    BY <2>3, <2>4
<1>20. ASSUME due = Null, TryAgain PROVE BalanceInv'
  <2>1. UNCHANGED <<spc, sop>> /\ rpc # "gone"
    BY <1>20 DEF sender, TryAgain
  <2>2. (Over' <=> Over) /\ Uncounted' = Uncounted /\ (Open' => Open)
    BY <2>1, SenderStays DEF Open
  <2>3. Over
    BY <1>20 DEF TryAgain, IInv, OverInv, Mid
  <2>4. QED
    BY <2>2, <2>3 DEF BalanceInv, Open
<1>21. ASSUME due = Null, Decrement PROVE BalanceInv'
  <2>1. UNCHANGED <<spc, sop>> /\ rpc # "gone"
    BY <1>21 DEF sender, Decrement
  <2>2. (Over' <=> Over) /\ Uncounted' = Uncounted /\ (Open' => Open)
    BY <2>1, SenderStays DEF Open
  <2>3. /\ UNCHANGED <<cnt, final, aborted>> /\ queue' = queue /\ rpc = "decr" /\ rpc' = "sub"
        /\ local' = steals /\ ~final
    BY <1>21, <1>eff, <1>mode, ReceiverAsserts DEF Decrement, Effects
  <2>4. Extra' = steals /\ Extra = steals /\ ~Spare' /\ (Exact' <=> Exact)
    BY <2>3, <1>t DEF Extra, Stolen, Spare, Exact
  <2>5. Due' = Due /\ rpc \notin Dropping
    BY <2>2, <2>3, <2>4 DEF Due, Dropping
  <2>6. QED
    BY <2>2, <2>3, <2>4, <2>5, <1>even
<1>22. ASSUME due = Null, DecrementSub PROVE BalanceInv'
  <2>1. UNCHANGED <<spc, sop>> /\ rpc # "gone"
    BY <1>22 DEF sender, DecrementSub
  <2>2. (Over' <=> Over) /\ Uncounted' = Uncounted /\ (Open' => Open)
    BY <2>1, SenderStays DEF Open
  <2>3. CASE Over
    BY <2>2, <2>3 DEF BalanceInv, Open
  <2>4. CASE ~Over
    <3>1. rpc = "sub" /\ Open
      BY <1>22, <2>1, <2>4 DEF DecrementSub, Open
    <3>2. /\ cnt' = cnt - (1 + local) /\ rpc' \in {"wait", "unwake"} /\ UNCHANGED <<steals, final, aborted, local>>
          /\ queue' = queue
      BY <1>22, <3>1, <1>eff, <1>t, <1>mode, CountFacts, ReceiverAsserts DEF Effects,
           DecrementSub
    <3>3. Extra' = Extra + (-1 - local) /\ ~Spare' /\ (Exact' <=> Exact) /\ rpc \notin Dropping
      BY <3>1, <3>2, <1>t, <1>mode DEF Extra, Stolen, Spare, Exact, Dropping
    <3>4. -1 - local \in Int /\ cnt' = cnt + (-1 - local) /\ Due' = Due + (-1 - local)
      BY <2>2, <3>2, <3>3, <1>t DEF Due
    <3>5. cnt' \in Int /\ Due' \in Int /\ cnt' - Due' = cnt - Due
      BY <3>4, <1>t
    <3>6. QED
      BY <2>2, <3>3, <3>5, <1>both
  <2>5. QED
    BY <2>3, <2>4
<1>23. ASSUME due = Null, DecrementDisc PROVE BalanceInv'
  <2>1. UNCHANGED <<spc, sop>> /\ rpc # "gone"
    BY <1>23 DEF sender, DecrementDisc
  <2>2. (Over' <=> Over) /\ Uncounted' = Uncounted /\ (Open' => Open)
    BY <2>1, SenderStays DEF Open
  <2>3. Over
    BY <1>23 DEF DecrementDisc, IInv, OverInv, Mid
  <2>4. QED
    BY <2>2, <2>3 DEF BalanceInv, Open
<1>24. ASSUME due = Null, DecrementFailed PROVE BalanceInv'
  <2>1. UNCHANGED <<spc, sop>> /\ rpc # "gone"
    BY <1>24 DEF sender, DecrementFailed
  <2>2. (Over' <=> Over) /\ Uncounted' = Uncounted /\ (Open' => Open)
    BY <2>1, SenderStays DEF Open
  <2>3. /\ UNCHANGED <<cnt, steals>> /\ queue' = queue
        /\ rpc = "unwake" /\ steals = 0 /\ aborted' = aborted
        /\ rpc' = "cancel" \/ (rpc' = "try" /\ final')
    BY <1>24, <1>eff, <1>mode, <1>t DEF Effects, DecrementFailed, Unannounced, NoToken
  <2>4. Extra' = Extra /\ ~Spare' /\ (Exact' => Exact)
    BY <2>3, <1>mode, <1>t DEF Extra, Stolen, Spare, Exact
  <2>5. rpc' \notin Dropping => rpc \notin Dropping
    BY <2>3 DEF Dropping
  <2>6. Due' = Due
    BY <2>2, <2>3, <2>4 DEF Due
  <2>7. QED
    BY <2>2, <2>3, <2>4, <2>5, <2>6, <1>even
<1>25. ASSUME due = Null, WaitDone PROVE BalanceInv'
  <2>1. UNCHANGED <<spc, sop>> /\ rpc # "gone"
    BY <1>25 DEF sender, WaitDone
  <2>2. (Over' <=> Over) /\ Uncounted' = Uncounted /\ (Open' => Open)
    BY <2>1, SenderStays DEF Open
  <2>3. /\ UNCHANGED <<cnt, steals>> /\ queue' = queue
        /\ rpc = "wait" /\ steals = 0 /\ aborted' = aborted
        /\ rpc' = "abort" \/ (rpc' = "try" /\ final')
    BY <1>25, <1>eff, <1>mode, <1>t DEF Effects, WaitDone, NoToken
  <2>4. Extra' = Extra /\ ~Spare' /\ (Exact' => Exact)
    BY <2>3, <1>mode, <1>t DEF Extra, Stolen, Spare, Exact
  <2>5. rpc' \notin Dropping => rpc \notin Dropping
    BY <2>3 DEF Dropping
  <2>6. Due' = Due
    BY <2>2, <2>3, <2>4 DEF Due
  <2>7. QED
    BY <2>2, <2>3, <2>4, <2>5, <2>6, <1>even
<1>26. ASSUME due = Null, WaitAborted PROVE BalanceInv'
  <2>1. UNCHANGED <<spc, sop>> /\ rpc # "gone"
    BY <1>26 DEF sender, WaitAborted
  <2>2. (Over' <=> Over) /\ Uncounted' = Uncounted /\ (Open' => Open)
    BY <2>1, SenderStays DEF Open
  <2>3. /\ UNCHANGED <<cnt, steals>> /\ queue' = queue
        /\ rpc = "wait" /\ rpc' = "abort"
        /\ aborted' \in {"none", "select"} => aborted \in {"none", "select"}
    BY <1>26, <1>eff, <1>mode, <1>t DEF Effects, WaitAborted
  <2>4. Extra' = Extra /\ ~Spare' /\ (Exact' => Exact)
    BY <2>3, <1>mode, <1>t DEF Extra, Stolen, Spare, Exact
  <2>5. rpc' \notin Dropping => rpc \notin Dropping
    BY <2>3 DEF Dropping
  <2>6. Due' = Due
    BY <2>2, <2>3, <2>4 DEF Due
  <2>7. QED
    BY <2>2, <2>3, <2>4, <2>5, <2>6, <1>even
<1>27. ASSUME due = Null, CanRecv PROVE BalanceInv'
  <2>1. UNCHANGED <<spc, sop>> /\ rpc # "gone"
    BY <1>27 DEF sender, CanRecv
  <2>2. (Over' <=> Over) /\ Uncounted' = Uncounted /\ (Open' => Open)
    BY <2>1, SenderStays DEF Open
  <2>3. /\ UNCHANGED <<cnt, steals>> /\ queue' = queue
        /\ rpc = "can" /\ rpc' \in {"idle", "decr", "try"} /\ ~final' /\ aborted' = aborted
    BY <1>27, <1>eff, <1>mode, <1>t DEF Effects, CanRecv, Return, GoUp
  <2>4. Extra' = Extra /\ ~Spare' /\ (Exact' => Exact)
    BY <2>3, <1>mode, <1>t DEF Extra, Stolen, Spare, Exact
  <2>5. rpc' \notin Dropping => rpc \notin Dropping
    BY <2>3 DEF Dropping
  <2>6. Due' = Due
    BY <2>2, <2>3, <2>4 DEF Due
  <2>7. QED
    BY <2>2, <2>3, <2>4, <2>5, <2>6, <1>even
<1>28. ASSUME due = Null, StartCancel PROVE BalanceInv'
  <2>1. UNCHANGED <<spc, sop>> /\ rpc # "gone"
    BY <1>28 DEF sender, StartCancel
  <2>2. (Over' <=> Over) /\ Uncounted' = Uncounted /\ (Open' => Open)
    BY <2>1, SenderStays DEF Open
  <2>3. /\ UNCHANGED <<cnt, steals, final, aborted>> /\ rpc = "cancel" /\ rpc' = "cancelbump"
        /\ \/ rres' = "Upgraded" /\ Len(queue') = Len(queue) - 1
           \/ rres' = "ready" /\ queue' = queue
    BY <1>28, <1>eff DEF StartCancel, TakeGoUp, Effects, PopEffect
  <2>4. (Exact' <=> Exact) /\ ~Spare' /\ rpc \notin Dropping /\ Extra = -1
        /\ Extra' = IF rres' = "Upgraded" THEN 0 ELSE -1
    BY <2>3 DEF Exact, Spare, Dropping, Extra
  <2>5. Due' = Due
    BY <2>2, <2>3, <2>4, <1>t DEF Due
  <2>6. QED
    BY <2>2, <2>3, <2>4, <2>5, <1>even
<1>29. ASSUME due = Null, StartCancelBump PROVE BalanceInv'
  <2>1. UNCHANGED <<spc, sop>> /\ rpc # "gone"
    BY <1>29 DEF sender, StartCancelBump
  <2>2. (Over' <=> Over) /\ Uncounted' = Uncounted /\ (Open' => Open)
    BY <2>1, SenderStays DEF Open
  <2>3. CASE Over
    BY <2>2, <2>3 DEF BalanceInv, Open
  <2>4. CASE ~Over
    <3>1. rpc = "cancelbump" /\ Open /\ steals = 0 /\ ~final
      BY <1>29, <2>1, <2>4, <1>mode DEF StartCancelBump, Open
    <3>2. /\ cnt' = cnt + 1 /\ UNCHANGED <<steals, final, aborted>> /\ queue' = queue
          /\ rpc' = IF rres = "Upgraded" THEN "hangup" ELSE "idle"
      BY <1>29, <3>1, <1>eff, <1>t, CountFacts, ReceiverAsserts DEF StartCancelBump, Effects
    <3>3. /\ (Exact' <=> Exact) /\ ~Spare' /\ rpc \notin Dropping /\ Extra' = 0
          /\ Extra = IF rres = "Upgraded" THEN 0 ELSE -1
      <4>0. ~final' /\ steals' = 0
        BY <3>1, <3>2
      <4>1. Stolen' = 0
        <5>1. Stolen' = steals'
          <6>1. Stolen = steals
            <7>1. steals \in Int /\ ~final
              BY <3>1, <1>t
            <7>2. QED
              BY <7>1 DEF Stolen
          <6>2. Stolen' = Stolen
            BY <3>2 DEF Stolen
          <6>3. QED
            BY <3>2, <6>1, <6>2
        <5>2. QED
          BY <5>1, <4>0
      <4>2. Extra' = 0 /\ Extra = IF rres = "Upgraded" THEN 0 ELSE -1
        BY <3>1, <3>2, <4>1 DEF Extra
      <4>3. QED
        BY <3>1, <3>2, <4>2 DEF Exact, Spare, Dropping
    <3>4. CASE rres = "Upgraded"
      <4>1. Due' = Due /\ rpc' \in Dropping
        BY <2>2, <3>2, <3>3, <3>4 DEF Due, Dropping
      <4>2. QED
        BY <2>2, <3>2, <4>1, <1>more
    <3>5. CASE rres # "Upgraded"
      <4>1. Due' = Due + 1
        BY <2>2, <3>2, <3>3, <3>5, <1>t DEF Due
      <4>2. cnt' \in Int /\ Due' \in Int /\ cnt' - Due' = cnt - Due
        BY <3>2, <4>1, <1>t
      <4>3. QED
        BY <2>2, <3>3, <4>2, <1>both
    <3>6. QED
      BY <3>4, <3>5
  <2>5. QED
    BY <2>3, <2>4
<1>30. ASSUME due = Null, AbortBump PROVE BalanceInv'
  <2>1. UNCHANGED <<spc, sop>> /\ rpc # "gone"
    BY <1>30 DEF sender, AbortBump
  <2>2. (Over' <=> Over) /\ Uncounted' = Uncounted /\ (Open' => Open)
    BY <2>1, SenderStays DEF Open
  <2>3. CASE Over
    BY <2>2, <2>3 DEF BalanceInv, Open
  <2>4. CASE ~Over
    <3>1. rpc = "abort" /\ Open
      BY <1>30, <2>1, <2>4 DEF AbortBump, Open
    <3>2. /\ cnt' = cnt + 2 /\ rpc' \in {"aborttake", "abortspin"} /\ UNCHANGED <<steals, final, aborted>>
          /\ queue' = queue
      BY <1>30, <3>1, <1>eff, <1>t, <1>mode, CountFacts, ReceiverAsserts DEF Effects,
           AbortBump
    <3>3. Extra' = Extra + 2 /\ ~Spare' /\ (Exact' <=> Exact) /\ rpc \notin Dropping
      BY <3>1, <3>2, <1>t, <1>mode DEF Extra, Stolen, Spare, Exact, Dropping
    <3>4. 2 \in Int /\ cnt' = cnt + (2) /\ Due' = Due + (2)
      BY <2>2, <3>2, <3>3, <1>t DEF Due
    <3>5. cnt' \in Int /\ Due' \in Int /\ cnt' - Due' = cnt - Due
      BY <3>4, <1>t
    <3>6. QED
      BY <2>2, <3>3, <3>5, <1>both
  <2>5. QED
    BY <2>3, <2>4
<1>31. ASSUME due = Null, AbortDisc PROVE BalanceInv'
  <2>1. UNCHANGED <<spc, sop>> /\ rpc # "gone"
    BY <1>31 DEF sender, AbortDisc
  <2>2. (Over' <=> Over) /\ Uncounted' = Uncounted /\ (Open' => Open)
    BY <2>1, SenderStays DEF Open
  <2>3. Over
    BY <1>31 DEF AbortDisc, IInv, OverInv, Mid
  <2>4. QED
    BY <2>2, <2>3 DEF BalanceInv, Open
<1>32. ASSUME due = Null, AbortTake PROVE BalanceInv'
  <2>1. UNCHANGED <<spc, sop>> /\ rpc # "gone"
    BY <1>32 DEF sender, AbortTake
  <2>2. (Over' <=> Over) /\ Uncounted' = Uncounted /\ (Open' => Open)
    BY <2>1, SenderStays DEF Open
  <2>3. /\ UNCHANGED <<cnt, aborted>> /\ queue' = queue /\ rpc = "aborttake" /\ steals' = 1 /\ ~final
        /\ \/ rpc' = "try" /\ final' /\ rmode = "timeout"
           \/ rpc' = "idle" /\ ~final'
    BY <1>32, <1>eff, <1>mode, ReceiverAsserts DEF AbortTake, Effects, Return
  <2>4. (Exact' <=> Exact) /\ rpc \notin Dropping /\ Extra = 1 /\ Extra' = IF final' THEN 0 ELSE 1
    BY <2>3 DEF Exact, Dropping, Extra, Stolen
  <2>5. CASE ~final'
    <3>1. Due' = Due /\ ~Spare'
      BY <2>2, <2>3, <2>4, <2>5 DEF Due, Spare
    <3>2. QED
      BY <2>2, <2>3, <2>4, <3>1, <1>even
  <2>6. CASE final'
    <3>1. Due' = Due + (-1) /\ ~Exact
      BY <2>2, <2>3, <2>4, <2>6, <1>t, <1>mode DEF Due
    <3>2. QED
      BY <2>2, <2>3, <2>4, <3>1, <1>less
  <2>7. QED
    BY <2>3, <2>5, <2>6
<1>33. ASSUME due = Null, AbortSpin PROVE BalanceInv'
  <2>1. UNCHANGED <<spc, sop>> /\ rpc # "gone"
    BY <1>33 DEF sender, AbortSpin
  <2>2. (Over' <=> Over) /\ Uncounted' = Uncounted /\ (Open' => Open)
    BY <2>1, SenderStays DEF Open
  <2>3. /\ UNCHANGED <<cnt, aborted, final>> /\ queue' = queue /\ rpc = "abortspin" /\ steals' = 1 /\ ~final
        /\ rpc' = "abortpeek"
    BY <1>33, <1>eff, <1>mode, ReceiverAsserts DEF AbortSpin, Effects
  <2>4. (Exact' <=> Exact) /\ rpc \notin Dropping /\ Extra = 1 /\ Extra' = 1 /\ ~Spare'
    BY <2>3 DEF Exact, Dropping, Extra, Stolen, Spare
  <2>5. Due' = Due
    BY <2>2, <2>3, <2>4 DEF Due
  <2>6. QED
    BY <2>2, <2>3, <2>4, <2>5, <1>even
<1>34. ASSUME due = Null, AbortPeek PROVE BalanceInv'
  <2>1. UNCHANGED <<spc, sop>> /\ rpc # "gone"
    BY <1>34 DEF sender, AbortPeek
  <2>2. (Over' <=> Over) /\ Uncounted' = Uncounted /\ (Open' => Open)
    BY <2>1, SenderStays DEF Open
  <2>3. /\ UNCHANGED <<cnt, aborted, steals>> /\ rpc = "abortpeek" /\ ~final
        /\ \/ rpc' = "hangup" /\ Len(queue') = Len(queue) - 1 /\ ~final'
           \/ rpc' = "try" /\ final' /\ rmode = "timeout" /\ queue' = queue
           \/ rpc' = "idle" /\ ~final' /\ queue' = queue
    BY <1>34, <1>eff, <1>mode DEF AbortPeek, TakeGoUp, Effects, PopEffect
  <2>4. /\ (Exact' <=> Exact) /\ rpc \notin Dropping /\ Extra = steals
        /\ rmode = "timeout" => ~Exact
        /\ Extra' = IF final' THEN steals - 1 ELSE steals
    <3>1. Stolen = steals /\ Stolen' = (IF final' THEN steals - 1 ELSE steals)
      <4>1. Stolen = steals
        BY <2>3, <1>t DEF Stolen
      <4>2. CASE final'
        BY <2>3, <4>1, <4>2 DEF Stolen
      <4>3. CASE ~final'
        BY <2>3, <1>t, <4>1, <4>3 DEF Stolen
      <4>4. QED
        BY <4>1, <4>2, <4>3
    <3>2. Extra = Stolen /\ Extra' = Stolen'
      BY <2>3 DEF Extra
    <3>3. (Exact' <=> Exact) /\ rpc \notin Dropping
      BY <2>3 DEF Exact, Dropping
    <3>4. QED
      BY <2>3, <3>1, <3>2, <3>3, <1>mode
  <2>5. CASE rpc' = "idle"
    <3>1. Due' = Due /\ ~Spare'
      BY <2>2, <2>3, <2>4, <2>5, <1>t DEF Due, Spare
    <3>2. QED
      BY <2>2, <2>3, <2>4, <3>1, <1>even
  <2>6. CASE rpc' # "idle"
    <3>1. Due' = Due + (-1)
      <4>1. CASE rpc' = "hangup"
        <5>1. Len(queue') = Len(queue) - 1 /\ Extra' = steals
          BY <2>3, <2>4, <4>1
        <5>2. QED
          BY <2>2, <2>4, <5>1, <1>t DEF Due
      <4>2. CASE rpc' = "try"
        <5>1. Len(queue') = Len(queue) /\ Extra' = steals - 1
          BY <2>3, <2>4, <4>2
        <5>2. QED
          BY <2>2, <2>4, <5>1, <1>t DEF Due
      <4>3. QED
        BY <2>3, <2>6, <4>1, <4>2
    <3>2. Exact' => rpc' \in Dropping
      BY <2>3, <2>4, <2>6, <1>mode DEF Dropping
    <3>3. QED
      BY <2>2, <2>3, <3>1, <3>2, <1>less
  <2>7. QED
    BY <2>5, <2>6
<1>35. ASSUME due = Null, DropPort PROVE BalanceInv'
  <2>1. UNCHANGED <<spc, sop>> /\ rpc # "gone"
    BY <1>35 DEF sender, DropPort
  <2>2. (Over' <=> Over) /\ Uncounted' = Uncounted /\ (Open' => Open)
    BY <2>1, SenderStays DEF Open
  <2>3. /\ UNCHANGED <<cnt, steals>> /\ queue' = queue
        /\ rpc \in {"idle", "hangup"} /\ rpc' = "dropcas" /\ local' = steals /\ aborted' = aborted
    BY <1>35, <1>eff, <1>mode, <1>t DEF Effects, DropPort
  <2>4. Extra' = Extra /\ ~Spare' /\ (Exact' => Exact)
    BY <2>3, <1>mode, <1>t DEF Extra, Stolen, Spare, Exact
  <2>5. rpc' \notin Dropping => rpc \notin Dropping
    BY <2>3 DEF Dropping
  <2>6. Due' = Due
    BY <2>2, <2>3, <2>4 DEF Due
  <2>7. QED
    BY <2>2, <2>3, <2>4, <2>5, <2>6, <1>even
<1>36. ASSUME due = Null, DropCas PROVE BalanceInv'
  <2>1. UNCHANGED <<spc, sop>> /\ rpc # "gone"
    BY <1>36 DEF sender, DropCas
  <2>2. (Over' <=> Over) /\ Uncounted' = Uncounted /\ (Open' => Open)
    BY <2>1, SenderStays DEF Open
  <2>3. CASE rpc' = "gone"
    BY <2>3 DEF BalanceInv, Open
  <2>4. CASE rpc' # "gone"
    <3>1. UNCHANGED <<cnt, local, aborted>> /\ queue' = queue /\ rpc = "dropcas" /\ rpc' = "dropdrain"
      BY <1>36, <2>4, <1>eff DEF DropCas, MustDrain, Effects
    <3>2. Extra' = Extra /\ ~Spare' /\ rpc' \in Dropping
      BY <3>1 DEF Extra, Spare, Dropping
    <3>3. Due' = Due
      BY <2>2, <3>1, <3>2 DEF Due
    <3>4. QED
      BY <2>2, <3>1, <3>2, <3>3, <1>even
  <2>5. QED
    BY <2>3, <2>4
<1>37. ASSUME due = Null, DropDrain PROVE BalanceInv'
  <2>1. UNCHANGED <<spc, sop>> /\ rpc # "gone"
    BY <1>37 DEF sender, DropDrain
  <2>2. (Over' <=> Over) /\ Uncounted' = Uncounted /\ (Open' => Open)
    BY <2>1, SenderStays DEF Open
  <2>3. /\ UNCHANGED <<cnt, aborted>> /\ rpc = "dropdrain" /\ rpc' \in {"dropcas", "dropdrain"}
        /\ \/ Len(queue') = Len(queue) - 1 /\ local' = local + 1
           \/ Len(queue') = Len(queue) /\ local' = local
    <3>0. UNCHANGED <<cnt, aborted>> /\ rpc = "dropdrain" /\ rpc' \in {"dropcas", "dropdrain"}
      BY <1>37 DEF DropDrain
    <3>1. CASE HasData
      <4>1. Pop /\ local' = local + 1
        BY <1>37, <3>1 DEF DropDrain, CountDrained
      <4>2. Len(queue') = Len(queue) - 1
        BY <3>1, <4>1, <1>37, <1>eff DEF Effects, PopEffect
      <4>3. QED
        BY <3>0, <4>1, <4>2
    <3>2. CASE ~HasData
      <4>1. UNCHANGED spsc /\ local' = local
        BY <1>37, <3>2 DEF DropDrain
      <4>2. Len(queue') = Len(queue)
        BY <4>1, <1>eff DEF Effects
      <4>3. QED
        BY <3>0, <4>1, <4>2
    <3>3. QED
      BY <3>1, <3>2
  <2>4. Extra = local /\ Extra' = local' /\ ~Spare' /\ rpc' \in Dropping
    BY <2>3 DEF Extra, Spare, Dropping
  <2>5. Due' = Due
    <3>1. Len(queue') + local' = Len(queue) + local /\ Len(queue') \in Int /\ local' \in Int
      <4>1. CASE Len(queue') = Len(queue) - 1 /\ local' = local + 1
        BY <4>1, <1>t
      <4>2. CASE Len(queue') = Len(queue) /\ local' = local
        BY <4>2, <1>t
      <4>3. QED
        BY <2>3, <4>1, <4>2
    <3>2. Due' = Len(queue') - Uncounted + local' /\ Due = Len(queue) - Uncounted + local
      BY <2>2, <2>4 DEF Due
    <3>3. Uncounted \in Int /\ Len(queue) \in Int /\ local \in Int
      BY <1>t
    <3>4. QED
      BY <3>1, <3>2, <3>3
  <2>6. QED
    BY <2>2, <2>3, <2>4, <2>5, <1>even
<1>38. CASE Terminated
  BY <1>38, <1>same, <1>eff DEF Terminated, vars, sender, receiver, Effects
<1>39. QED
  BY <1>1, <1>2, <1>3, <1>4, <1>5, <1>6, <1>7, <1>8, <1>9, <1>10, <1>11, <1>12, <1>13,
       <1>14, <1>15, <1>16, <1>17, <1>18, <1>19, <1>20, <1>21, <1>22, <1>23, <1>24, <1>25,
       <1>26, <1>27, <1>28, <1>29, <1>30, <1>31, <1>32, <1>33, <1>34, <1>35, <1>36, <1>37,
       <1>38 DEF Next, SenderStep, ReceiverStep

-----------------------------------------------------------------------------
(* The bound of the count                                                  *)

\* The parts of Limit and LimitInv.
Upgrades == IF Finished THEN 1 ELSE 0
Down == IF rpc \in {"wait", "abort", "unwake", "cancel", "cancelbump"} THEN 2
        ELSE IF rpc = "sub" THEN 1 ELSE 0
Reached == cnt + (IF rpc = "foldbump" THEN local ELSE 0)

\* The count stays below the messages, the upgrade and the waits there have been.
LEMMA LimitInvStep ==
  ASSUME IInv, Next
  PROVE  LimitInv'
<1>eff. Effects
  BY QueueEffects
<1>t. /\ cnt \in Int /\ local \in Int /\ steals \in Int /\ final \in BOOLEAN
      /\ accepted \in Nat /\ blocks \in Nat
      /\ Uncounted \in {0, 1} /\ Stolen \in Int /\ Len(queue) \in Nat /\ Due \in Int
      /\ sop \in {"send", "clone", "drop"}
      /\ Upgrades \in {0, 1} /\ Down \in {0, 1, 2} /\ Reached \in Int /\ Limit \in Int
  <2>1. Upgrades \in {0, 1} /\ Down \in {0, 1, 2}
    BY DEF Upgrades, Down
  <2>2. Reached \in Int
    BY Types DEF Reached
  <2>3. QED
    BY <2>1, <2>2, Types DEF IInv, TypeInv, CallTypes
<1>is. /\ Limit = accepted + Upgrades - Uncounted + blocks - Down
       /\ Limit' = accepted' + Upgrades' - Uncounted' + blocks' - Down'
  BY DEF Limit, Upgrades, Down
<1>int. /\ accepted \in Int /\ blocks \in Int /\ Upgrades \in Int /\ Uncounted \in Int /\ Down \in Int
        /\ Reached \in Int /\ Limit \in Int
  BY <1>t
<1>inv. /\ (LimitInv <=> (Open => Reached <= Limit))
        /\ (LimitInv' <=> (Open' => Reached' <= Limit'))
  BY DEF Reached, LimitInv
<1>lim. LimitInv
  BY DEF IInv
<1>step. ASSUME UNCHANGED <<accepted, blocks>>, Upgrades' = Upgrades, Uncounted' = Uncounted,
                Down' <= Down, Down' \in Int, Reached' = Reached, Open' => Open
         PROVE  LimitInv'
  <2>1. Limit <= Limit' /\ Limit' \in Int
    <3>1. PICK d \in Int : d = Down' /\ d <= Down
      BY <1>step
    <3>2. Limit' = accepted + Upgrades - Uncounted + blocks - d
      BY <3>1, <1>step, <1>is
    <3>3. d <= Down /\ Limit = accepted + Upgrades - Uncounted + blocks - Down
      BY <3>1, <1>is
    <3>4. QED
      BY <3>2, <3>3, <1>int
  <2>2. ASSUME Open' PROVE Reached' <= Limit'
    <3>1. Reached <= Limit /\ Reached' = Reached
      BY <2>2, <1>step, <1>inv, <1>lim
    <3>2. QED
      BY <2>1, <3>1, <1>int
  <2>3. QED
    BY <2>2, <1>inv
<1>kept. ASSUME UNCHANGED <<rpc, cnt, local, accepted, blocks>>, Uncounted' = Uncounted
         PROVE  LimitInv'
  <2>1. (Open' => Open) /\ Upgrades' \in {0, 1} /\ Upgrades <= Upgrades'
    BY <1>kept, SenderMoves DEF Open, Upgrades
  <2>2. Down' = Down /\ Reached' = Reached
    BY <1>kept DEF Down, Reached
  <2>3. Limit <= Limit' /\ Limit' \in Int
    <3>1. PICK u \in Int : u = Upgrades' /\ Upgrades <= u
      BY <2>1
    <3>2. Limit' = accepted + u - Uncounted + blocks - Down
      BY <3>1, <1>kept, <2>2, <1>is
    <3>3. Upgrades <= u /\ Limit = accepted + Upgrades - Uncounted + blocks - Down
      BY <3>1, <1>is
    <3>4. QED
      BY <3>2, <3>3, <1>int
  <2>4. ASSUME Open' PROVE Reached' <= Limit'
    <3>1. Reached <= Limit /\ Reached' = Reached
      BY <2>1, <2>2, <2>4, <1>inv, <1>lim
    <3>2. QED
      BY <2>3, <3>1, <1>int
  <2>5. QED
    BY <2>4, <1>inv
<1>same. ASSUME UNCHANGED <<spc, sop, rpc, cnt, local, accepted, blocks>> PROVE LimitInv'
  BY <1>same, <1>lim DEF LimitInv, Limit, Open, Over, Finished, Uncounted
<1>1. ASSUME
       EndPop
       PROVE  LimitInv'
  BY <1>1, <1>same DEF EndPop, sender, receiver
<1>2. ASSUME SenderCall PROVE LimitInv'
  <2>1. UNCHANGED <<rpc, cnt, local, accepted, blocks>> /\ Uncounted' = Uncounted
    BY <1>2 DEF Uncounted, AfterSend, SenderCall, receiver
  <2>2. QED
    BY <2>1, <1>kept
<1>3. ASSUME SendCheck PROVE LimitInv'
  <2>1. UNCHANGED <<rpc, cnt, local, accepted, blocks>> /\ Uncounted' = Uncounted
    BY <1>3 DEF Uncounted, AfterSend, SendCheck, receiver
  <2>2. QED
    BY <2>1, <1>kept
<1>4. ASSUME SendPush PROVE LimitInv'
  <2>1. UNCHANGED <<rpc, cnt, local, accepted, blocks>> /\ Uncounted' = Uncounted
    BY <1>4 DEF Uncounted, AfterSend, SendPush, receiver
  <2>2. QED
    BY <2>1, <1>kept
<1>5. ASSUME SendLink PROVE LimitInv'
  <2>1. UNCHANGED <<rpc, cnt, local, blocks, sop>> /\ spc = "link" /\ spc' = "add"
        /\ accepted' = accepted + (IF sop = "send" THEN 1 ELSE 0)
    BY <1>5 DEF SendLink, receiver
  <2>2. Uncounted = 0 /\ Uncounted' = 1 /\ Open' = Open
    BY <2>1 DEF Uncounted, Open, Over
  <2>3. accepted' + Upgrades' = accepted + Upgrades + 1
    <3>1. sop \in {"send", "clone"}
      BY <2>1, <1>t DEF IInv, OpInv
    <3>2. Upgrades = 0 /\ Upgrades' = IF sop = "send" THEN 0 ELSE 1
      BY <2>1, <3>1 DEF Upgrades, Finished
    <3>3. QED
      BY <2>1, <3>1, <3>2, <1>t
  <2>4. Down' = Down /\ Reached' = Reached
    BY <2>1 DEF Down, Reached
  <2>5. accepted' \in Nat /\ Upgrades' \in {0, 1}
    BY <2>1, <1>t DEF Upgrades
  <2>6. Limit' = Limit
    <3>1. PICK u \in Int, k \in Int : u = Upgrades' /\ k = accepted' /\ k + u = accepted + Upgrades + 1
      BY <2>3, <2>5
    <3>2. Limit' = k + u - 1 + blocks - Down /\ Limit = accepted + Upgrades - 0 + blocks - Down
      BY <2>1, <2>2, <2>4, <3>1, <1>is
    <3>3. k + u = accepted + Upgrades + 1
      BY <3>1
    <3>4. QED
      BY <3>2, <3>3, <1>int
  <2>7. QED
    BY <2>2, <2>4, <2>6, <1>lim, <1>inv
<1>6. ASSUME SendAdd PROVE LimitInv'
  <2>1. UNCHANGED <<rpc, local, accepted, blocks>> /\ spc = "add" /\ spc' # "add"
    BY <1>6, <1>t, SenderAsserts DEF SendAdd, AfterSend, receiver
  <2>2. Uncounted = 1 /\ Uncounted' = 0
    BY <2>1 DEF Uncounted
  <2>3. (Open' => Open) /\ (Open => cnt' = cnt + 1)
    BY <1>6, <2>1, CountFacts, SenderMoves DEF SendAdd, Open
  <2>4. Open => Reached' = Reached + 1
    BY <2>1, <2>3, <1>t DEF Reached
  <2>5. Down' = Down /\ Upgrades' \in {0, 1} /\ Upgrades <= Upgrades'
    BY <2>1, SenderMoves DEF Down, Upgrades
  <2>6. QED
    BY <2>1, <2>2, <2>3, <2>4, <2>5, <1>t, <1>lim, <1>is, <1>inv
<1>7. ASSUME SendDisconnected PROVE LimitInv'
  <2>1. ~Open'
    BY <1>7 DEF SendDisconnected, receiver, Open, IInv, GoneInv
  <2>2. QED
    BY <2>1 DEF LimitInv
<1>8. ASSUME SendDrain PROVE LimitInv'
  <2>1. UNCHANGED <<rpc, cnt, local, accepted, blocks>> /\ Uncounted' = Uncounted
    BY <1>8 DEF Uncounted, AfterSend, SendDrain, receiver
  <2>2. QED
    BY <2>1, <1>kept
<1>9. ASSUME TakeLoad PROVE LimitInv'
  <2>1. UNCHANGED <<rpc, cnt, local, accepted, blocks>> /\ Uncounted' = Uncounted
    BY <1>9 DEF Uncounted, AfterSend, TakeLoad, receiver
  <2>2. QED
    BY <2>1, <1>kept
<1>10. ASSUME TakeClear PROVE LimitInv'
  <2>1. UNCHANGED <<rpc, cnt, local, accepted, blocks>> /\ Uncounted' = Uncounted
    BY <1>10 DEF Uncounted, AfterSend, TakeClear, receiver
  <2>2. QED
    BY <2>1, <1>kept
<1>11. ASSUME Signal PROVE LimitInv'
  <2>1. UNCHANGED <<rpc, cnt, local, accepted, blocks>> /\ Uncounted' = Uncounted
    BY <1>11 DEF Uncounted, AfterSend, Signal, receiver
  <2>2. QED
    BY <2>1, <1>kept
<1>12. ASSUME DropChan PROVE LimitInv'
  <2>1. Over'
    BY <1>12, <1>t, SenderAsserts DEF DropChan, Over
  <2>2. QED
    BY <2>1 DEF LimitInv, Open
<1>13. ASSUME due = Null, RecvCall PROVE LimitInv'
  <2>1. UNCHANGED <<spc, sop, accepted>> /\ rpc # "gone"
    BY <1>13 DEF sender, RecvCall
  <2>2. (Over' <=> Over) /\ Uncounted' = Uncounted /\ Upgrades' = Upgrades /\ (Open' => Open)
    BY <2>1, SenderStays DEF Open, Upgrades
  <2>3. UNCHANGED <<cnt, blocks>> /\ rpc \in {"idle"} /\ rpc' \in {"can", "try"}
    BY <1>13 DEF RecvCall, sender
  <2>4. Down' <= Down /\ Down' \in Int
    BY <2>3 DEF Down
  <2>5. Reached' = Reached
    BY <2>3 DEF Reached
  <2>6. QED
    BY <2>1, <2>2, <2>3, <2>4, <2>5, <1>step
<1>14. ASSUME due = Null, TryPop PROVE LimitInv'
  <2>1. UNCHANGED <<spc, sop, accepted>> /\ rpc # "gone"
    BY <1>14 DEF sender, TryPop
  <2>2. (Over' <=> Over) /\ Uncounted' = Uncounted /\ Upgrades' = Upgrades /\ (Open' => Open)
    BY <2>1, SenderStays DEF Open, Upgrades
  <2>3. UNCHANGED <<cnt, blocks>> /\ rpc \in {"try"} /\ rpc' \in {"look", "fold", "idle", "hangup"}
    BY <1>14 DEF TryPop, Found, FoldDue, Return, Offset, GoUp, sender
  <2>4. Down' <= Down /\ Down' \in Int
    BY <2>3 DEF Down
  <2>5. Reached' = Reached
    BY <2>3 DEF Reached
  <2>6. QED
    BY <2>1, <2>2, <2>3, <2>4, <2>5, <1>step
<1>15. ASSUME due = Null, FoldSwap PROVE LimitInv'
  <2>1. UNCHANGED <<spc, sop, accepted>> /\ rpc # "gone"
    BY <1>15 DEF sender, FoldSwap
  <2>2. (Over' <=> Over) /\ Uncounted' = Uncounted /\ Upgrades' = Upgrades /\ (Open' => Open)
    BY <2>1, SenderStays DEF Open, Upgrades
  <2>3. CASE Over
    BY <2>2, <2>3 DEF LimitInv, Open
  <2>4. CASE ~Over
    <3>1. rpc = "fold" /\ Open
      BY <1>15, <2>1, <2>4 DEF FoldSwap, Open
    <3>2. cnt' = 0 /\ rpc' = "foldbump" /\ local' = cnt - Foldable(cnt) /\ blocks' = blocks
      BY <1>15, <3>1, <1>t, CountFacts, ReceiverAsserts DEF Folding, FoldSwap, AddBack
    <3>f. local' \in Int /\ local' <= cnt
      <4>1. steals > MAX_STEALS
        BY <3>1 DEF IInv, StealsInv
      <4>2. steals >= 1
        BY <4>1, <1>t, Bounds
      <4>3. cnt >= Due /\ (final => cnt > Due)
        BY <3>1 DEF IInv, BalanceInv, Spare
      <4>4. Due = Len(queue) - Uncounted + Stolen + 1
        BY <3>1, <1>t DEF Due, Extra
      <4>5. cnt >= 0
        BY <4>2, <4>3, <4>4, <1>t DEF Stolen
      <4>6. PICK k \in Int : k = Foldable(cnt) /\ k >= 0
        BY <4>2, <4>5, <1>t DEF Foldable
      <4>7. QED
        BY <3>2, <4>6, <1>t
    <3>3. Down = 0 /\ Down' = 0 /\ Reached' <= Reached /\ Reached' \in Int
      BY <3>1, <3>2, <1>t, <3>f DEF Down, Reached
    <3>4. Reached <= Limit
      BY <3>1, <1>lim, <1>is, <1>inv
    <3>5. QED
      BY <2>1, <2>2, <3>2, <3>3, <3>4, <1>t, <1>is, <1>inv, <3>f
  <2>5. QED
    BY <2>3, <2>4
<1>16. ASSUME due = Null, FoldBump PROVE LimitInv'
  <2>1. UNCHANGED <<spc, sop, accepted>> /\ rpc # "gone"
    BY <1>16 DEF sender, FoldBump
  <2>2. (Over' <=> Over) /\ Uncounted' = Uncounted /\ Upgrades' = Upgrades /\ (Open' => Open)
    BY <2>1, SenderStays DEF Open, Upgrades
  <2>3. CASE Over
    BY <2>2, <2>3 DEF LimitInv, Open
  <2>4. CASE ~Over
    <3>1. rpc = "foldbump" /\ Open
      BY <1>16, <2>1, <2>4 DEF FoldBump, Open
    <3>2. cnt' = cnt + local /\ rpc' = "folded" /\ blocks' = blocks
      BY <1>16, <3>1, <1>t, CountFacts, ReceiverAsserts DEF Folding, FoldBump
    <3>3. Down = 0 /\ Down' = 0 /\ Reached' = Reached
      BY <3>1, <3>2, <1>t DEF Down, Reached
    <3>4. Reached <= Limit
      BY <3>1, <1>lim, <1>is, <1>inv
    <3>5. QED
      BY <2>1, <2>2, <3>2, <3>3, <3>4, <1>t, <1>is, <1>inv
  <2>5. QED
    BY <2>3, <2>4
<1>17. ASSUME due = Null, FoldStore PROVE LimitInv'
  <2>1. UNCHANGED <<spc, sop, accepted>> /\ rpc # "gone"
    BY <1>17 DEF sender, FoldStore
  <2>2. (Over' <=> Over) /\ Uncounted' = Uncounted /\ Upgrades' = Upgrades /\ (Open' => Open)
    BY <2>1, SenderStays DEF Open, Upgrades
  <2>3. Over
    BY <1>17 DEF FoldStore, IInv, OverInv, Mid
  <2>4. QED
    BY <2>2, <2>3 DEF LimitInv, Open
<1>18. ASSUME due = Null, Folded PROVE LimitInv'
  <2>1. UNCHANGED <<spc, sop, accepted>> /\ rpc # "gone"
    BY <1>18 DEF sender, Folded
  <2>2. (Over' <=> Over) /\ Uncounted' = Uncounted /\ Upgrades' = Upgrades /\ (Open' => Open)
    BY <2>1, SenderStays DEF Open, Upgrades
  <2>3. UNCHANGED <<cnt, blocks>> /\ rpc \in {"folded"} /\ rpc' \in {"idle", "hangup"}
    BY <1>18 DEF Folded, Found, Return, Offset, GoUp, sender
  <2>4. Down' <= Down /\ Down' \in Int
    BY <2>3 DEF Down
  <2>5. Reached' = Reached
    BY <2>3 DEF Reached
  <2>6. QED
    BY <2>1, <2>2, <2>3, <2>4, <2>5, <1>step
<1>19. ASSUME due = Null, TryLook PROVE LimitInv'
  <2>1. UNCHANGED <<spc, sop, accepted>> /\ rpc # "gone"
    BY <1>19 DEF sender, TryLook
  <2>2. (Over' <=> Over) /\ Uncounted' = Uncounted /\ Upgrades' = Upgrades /\ (Open' => Open)
    BY <2>1, SenderStays DEF Open, Upgrades
  <2>3. UNCHANGED <<cnt, blocks>> /\ rpc \in {"look"} /\ rpc' \in {"again", "decr", "panic_empty", "idle"}
    BY <1>19 DEF TryLook, Nothing, Return, sender
  <2>4. Down' <= Down /\ Down' \in Int
    BY <2>3 DEF Down
  <2>5. Reached' = Reached
    BY <2>3 DEF Reached
  <2>6. QED
    BY <2>1, <2>2, <2>3, <2>4, <2>5, <1>step
<1>20. ASSUME due = Null, TryAgain PROVE LimitInv'
  <2>1. UNCHANGED <<spc, sop, accepted>> /\ rpc # "gone"
    BY <1>20 DEF sender, TryAgain
  <2>2. (Over' <=> Over) /\ Uncounted' = Uncounted /\ Upgrades' = Upgrades /\ (Open' => Open)
    BY <2>1, SenderStays DEF Open, Upgrades
  <2>3. UNCHANGED <<cnt, blocks>> /\ rpc \in {"again"} /\ rpc' \in {"idle", "hangup"}
    BY <1>20 DEF TryAgain, Return, Found, Offset, GoUp, sender
  <2>4. Down' <= Down /\ Down' \in Int
    BY <2>3 DEF Down
  <2>5. Reached' = Reached
    BY <2>3 DEF Reached
  <2>6. QED
    BY <2>1, <2>2, <2>3, <2>4, <2>5, <1>step
<1>21. ASSUME due = Null, Decrement PROVE LimitInv'
  <2>1. UNCHANGED <<spc, sop, accepted>> /\ rpc # "gone"
    BY <1>21 DEF sender, Decrement
  <2>2. (Over' <=> Over) /\ Uncounted' = Uncounted /\ Upgrades' = Upgrades /\ (Open' => Open)
    BY <2>1, SenderStays DEF Open, Upgrades
  <2>3. UNCHANGED <<cnt, accepted>> /\ rpc = "decr" /\ rpc' = "sub" /\ blocks' = blocks + 1
    BY <1>21, ReceiverAsserts DEF Decrement, sender
  <2>4. Down = 0 /\ Down' = 1 /\ Reached' = Reached
    BY <2>3 DEF Down, Reached
  <2>5. Limit' = Limit
    BY <2>1, <2>2, <2>3, <2>4, <1>t, <1>is
  <2>6. QED
    BY <2>2, <2>4, <2>5, <1>lim, <1>is, <1>inv
<1>22. ASSUME due = Null, DecrementSub PROVE LimitInv'
  <2>1. UNCHANGED <<spc, sop, accepted>> /\ rpc # "gone"
    BY <1>22 DEF sender, DecrementSub
  <2>2. (Over' <=> Over) /\ Uncounted' = Uncounted /\ Upgrades' = Upgrades /\ (Open' => Open)
    BY <2>1, SenderStays DEF Open, Upgrades
  <2>3. CASE Over
    BY <2>2, <2>3 DEF LimitInv, Open
  <2>4. CASE ~Over
    <3>1. rpc = "sub" /\ Open
      BY <1>22, <2>1, <2>4 DEF DecrementSub, Open
    <3>2. cnt' = cnt - (1 + local) /\ rpc' \in {"wait", "unwake"} /\ local' = local /\ blocks' = blocks
      BY <1>22, <3>1, <1>t, CountFacts, ReceiverAsserts DEF Folding, DecrementSub
    <3>f. local >= 0
      BY <2>4, <3>1 DEF IInv, StealsInv
    <3>3. Down = 1 /\ Down' = 2 /\ Reached' <= Reached - 1 /\ Reached' \in Int
      BY <3>1, <3>2, <1>t, <3>f DEF Down, Reached
    <3>4. Reached <= Limit
      BY <3>1, <1>lim, <1>is, <1>inv
    <3>5. QED
      BY <2>1, <2>2, <3>2, <3>3, <3>4, <1>t, <1>is, <1>inv, <3>f
  <2>5. QED
    BY <2>3, <2>4
<1>23. ASSUME due = Null, DecrementDisc PROVE LimitInv'
  <2>1. UNCHANGED <<spc, sop, accepted>> /\ rpc # "gone"
    BY <1>23 DEF sender, DecrementDisc
  <2>2. (Over' <=> Over) /\ Uncounted' = Uncounted /\ Upgrades' = Upgrades /\ (Open' => Open)
    BY <2>1, SenderStays DEF Open, Upgrades
  <2>3. Over
    BY <1>23 DEF DecrementDisc, IInv, OverInv, Mid
  <2>4. QED
    BY <2>2, <2>3 DEF LimitInv, Open
<1>24. ASSUME due = Null, DecrementFailed PROVE LimitInv'
  <2>1. UNCHANGED <<spc, sop, accepted>> /\ rpc # "gone"
    BY <1>24 DEF sender, DecrementFailed
  <2>2. (Over' <=> Over) /\ Uncounted' = Uncounted /\ Upgrades' = Upgrades /\ (Open' => Open)
    BY <2>1, SenderStays DEF Open, Upgrades
  <2>3. UNCHANGED <<cnt, blocks>> /\ rpc \in {"unwake"} /\ rpc' \in {"cancel", "try"}
    BY <1>24 DEF DecrementFailed, Unannounced, NoToken, sender
  <2>4. Down' <= Down /\ Down' \in Int
    BY <2>3 DEF Down
  <2>5. Reached' = Reached
    BY <2>3 DEF Reached
  <2>6. QED
    BY <2>1, <2>2, <2>3, <2>4, <2>5, <1>step
<1>25. ASSUME due = Null, WaitDone PROVE LimitInv'
  <2>1. UNCHANGED <<spc, sop, accepted>> /\ rpc # "gone"
    BY <1>25 DEF sender, WaitDone
  <2>2. (Over' <=> Over) /\ Uncounted' = Uncounted /\ Upgrades' = Upgrades /\ (Open' => Open)
    BY <2>1, SenderStays DEF Open, Upgrades
  <2>3. UNCHANGED <<cnt, blocks>> /\ rpc \in {"wait"} /\ rpc' \in {"abort", "try"}
    BY <1>25 DEF WaitDone, NoToken, sender
  <2>4. Down' <= Down /\ Down' \in Int
    BY <2>3 DEF Down
  <2>5. Reached' = Reached
    BY <2>3 DEF Reached
  <2>6. QED
    BY <2>1, <2>2, <2>3, <2>4, <2>5, <1>step
<1>26. ASSUME due = Null, WaitAborted PROVE LimitInv'
  <2>1. UNCHANGED <<spc, sop, accepted>> /\ rpc # "gone"
    BY <1>26 DEF sender, WaitAborted
  <2>2. (Over' <=> Over) /\ Uncounted' = Uncounted /\ Upgrades' = Upgrades /\ (Open' => Open)
    BY <2>1, SenderStays DEF Open, Upgrades
  <2>3. UNCHANGED <<cnt, blocks>> /\ rpc \in {"wait"} /\ rpc' \in {"abort"}
    BY <1>26 DEF WaitAborted, sender
  <2>4. Down' <= Down /\ Down' \in Int
    BY <2>3 DEF Down
  <2>5. Reached' = Reached
    BY <2>3 DEF Reached
  <2>6. QED
    BY <2>1, <2>2, <2>3, <2>4, <2>5, <1>step
<1>27. ASSUME due = Null, CanRecv PROVE LimitInv'
  <2>1. UNCHANGED <<spc, sop, accepted>> /\ rpc # "gone"
    BY <1>27 DEF sender, CanRecv
  <2>2. (Over' <=> Over) /\ Uncounted' = Uncounted /\ Upgrades' = Upgrades /\ (Open' => Open)
    BY <2>1, SenderStays DEF Open, Upgrades
  <2>3. UNCHANGED <<cnt, blocks>> /\ rpc \in {"can"} /\ rpc' \in {"idle", "decr", "try"}
    BY <1>27 DEF CanRecv, Return, GoUp, sender
  <2>4. Down' <= Down /\ Down' \in Int
    BY <2>3 DEF Down
  <2>5. Reached' = Reached
    BY <2>3 DEF Reached
  <2>6. QED
    BY <2>1, <2>2, <2>3, <2>4, <2>5, <1>step
<1>28. ASSUME due = Null, StartCancel PROVE LimitInv'
  <2>1. UNCHANGED <<spc, sop, accepted>> /\ rpc # "gone"
    BY <1>28 DEF sender, StartCancel
  <2>2. (Over' <=> Over) /\ Uncounted' = Uncounted /\ Upgrades' = Upgrades /\ (Open' => Open)
    BY <2>1, SenderStays DEF Open, Upgrades
  <2>3. UNCHANGED <<cnt, blocks>> /\ rpc \in {"cancel"} /\ rpc' \in {"cancelbump"}
    BY <1>28 DEF StartCancel, TakeGoUp, GoUp, sender
  <2>4. Down' <= Down /\ Down' \in Int
    BY <2>3 DEF Down
  <2>5. Reached' = Reached
    BY <2>3 DEF Reached
  <2>6. QED
    BY <2>1, <2>2, <2>3, <2>4, <2>5, <1>step
<1>29. ASSUME due = Null, StartCancelBump PROVE LimitInv'
  <2>1. UNCHANGED <<spc, sop, accepted>> /\ rpc # "gone"
    BY <1>29 DEF sender, StartCancelBump
  <2>2. (Over' <=> Over) /\ Uncounted' = Uncounted /\ Upgrades' = Upgrades /\ (Open' => Open)
    BY <2>1, SenderStays DEF Open, Upgrades
  <2>3. CASE Over
    BY <2>2, <2>3 DEF LimitInv, Open
  <2>4. CASE ~Over
    <3>1. rpc = "cancelbump" /\ Open
      BY <1>29, <2>1, <2>4 DEF StartCancelBump, Open
    <3>2. cnt' = cnt + 1 /\ rpc' \in {"idle", "hangup"} /\ blocks' = blocks
      BY <1>29, <3>1, <1>t, CountFacts, ReceiverAsserts DEF Folding, StartCancelBump
    <3>3. Down = 2 /\ Down' = 0 /\ Reached' = Reached + 1
      BY <3>1, <3>2, <1>t DEF Down, Reached
    <3>4. Reached <= Limit
      BY <3>1, <1>lim, <1>is, <1>inv
    <3>5. QED
      BY <2>1, <2>2, <3>2, <3>3, <3>4, <1>t, <1>is, <1>inv
  <2>5. QED
    BY <2>3, <2>4
<1>30. ASSUME due = Null, AbortBump PROVE LimitInv'
  <2>1. UNCHANGED <<spc, sop, accepted>> /\ rpc # "gone"
    BY <1>30 DEF sender, AbortBump
  <2>2. (Over' <=> Over) /\ Uncounted' = Uncounted /\ Upgrades' = Upgrades /\ (Open' => Open)
    BY <2>1, SenderStays DEF Open, Upgrades
  <2>3. CASE Over
    BY <2>2, <2>3 DEF LimitInv, Open
  <2>4. CASE ~Over
    <3>1. rpc = "abort" /\ Open
      BY <1>30, <2>1, <2>4 DEF AbortBump, Open
    <3>2. cnt' = cnt + 2 /\ rpc' \in {"aborttake", "abortspin"} /\ blocks' = blocks
      BY <1>30, <3>1, <1>t, CountFacts, ReceiverAsserts DEF Folding, AbortBump
    <3>3. Down = 2 /\ Down' = 0 /\ Reached' = Reached + 2
      BY <3>1, <3>2, <1>t DEF Down, Reached
    <3>4. Reached <= Limit
      BY <3>1, <1>lim, <1>is, <1>inv
    <3>5. QED
      BY <2>1, <2>2, <3>2, <3>3, <3>4, <1>t, <1>is, <1>inv
  <2>5. QED
    BY <2>3, <2>4
<1>31. ASSUME due = Null, AbortDisc PROVE LimitInv'
  <2>1. UNCHANGED <<spc, sop, accepted>> /\ rpc # "gone"
    BY <1>31 DEF sender, AbortDisc
  <2>2. (Over' <=> Over) /\ Uncounted' = Uncounted /\ Upgrades' = Upgrades /\ (Open' => Open)
    BY <2>1, SenderStays DEF Open, Upgrades
  <2>3. Over
    BY <1>31 DEF AbortDisc, IInv, OverInv, Mid
  <2>4. QED
    BY <2>2, <2>3 DEF LimitInv, Open
<1>32. ASSUME due = Null, AbortTake PROVE LimitInv'
  <2>1. UNCHANGED <<spc, sop, accepted>> /\ rpc # "gone"
    BY <1>32 DEF sender, AbortTake
  <2>2. (Over' <=> Over) /\ Uncounted' = Uncounted /\ Upgrades' = Upgrades /\ (Open' => Open)
    BY <2>1, SenderStays DEF Open, Upgrades
  <2>3. UNCHANGED <<cnt, blocks>> /\ rpc \in {"aborttake"} /\ rpc' \in {"idle", "try", "panic_steals"}
    BY <1>32 DEF AbortTake, Return, DropTaken, NoToken, sender
  <2>4. Down' <= Down /\ Down' \in Int
    BY <2>3 DEF Down
  <2>5. Reached' = Reached
    BY <2>3 DEF Reached
  <2>6. QED
    BY <2>1, <2>2, <2>3, <2>4, <2>5, <1>step
<1>33. ASSUME due = Null, AbortSpin PROVE LimitInv'
  <2>1. UNCHANGED <<spc, sop, accepted>> /\ rpc # "gone"
    BY <1>33 DEF sender, AbortSpin
  <2>2. (Over' <=> Over) /\ Uncounted' = Uncounted /\ Upgrades' = Upgrades /\ (Open' => Open)
    BY <2>1, SenderStays DEF Open, Upgrades
  <2>3. UNCHANGED <<cnt, blocks>> /\ rpc \in {"abortspin"} /\ rpc' \in {"abortpeek", "panic_steals"}
    BY <1>33 DEF AbortSpin, NoToken, sender
  <2>4. Down' <= Down /\ Down' \in Int
    BY <2>3 DEF Down
  <2>5. Reached' = Reached
    BY <2>3 DEF Reached
  <2>6. QED
    BY <2>1, <2>2, <2>3, <2>4, <2>5, <1>step
<1>34. ASSUME due = Null, AbortPeek PROVE LimitInv'
  <2>1. UNCHANGED <<spc, sop, accepted>> /\ rpc # "gone"
    BY <1>34 DEF sender, AbortPeek
  <2>2. (Over' <=> Over) /\ Uncounted' = Uncounted /\ Upgrades' = Upgrades /\ (Open' => Open)
    BY <2>1, SenderStays DEF Open, Upgrades
  <2>3. UNCHANGED <<cnt, blocks>> /\ rpc \in {"abortpeek"} /\ rpc' \in {"idle", "try", "hangup"}
    BY <1>34 DEF AbortPeek, TakeGoUp, GoUp, sender
  <2>4. Down' <= Down /\ Down' \in Int
    BY <2>3 DEF Down
  <2>5. Reached' = Reached
    BY <2>3 DEF Reached
  <2>6. QED
    BY <2>1, <2>2, <2>3, <2>4, <2>5, <1>step
<1>35. ASSUME due = Null, DropPort PROVE LimitInv'
  <2>1. UNCHANGED <<spc, sop, accepted>> /\ rpc # "gone"
    BY <1>35 DEF sender, DropPort
  <2>2. (Over' <=> Over) /\ Uncounted' = Uncounted /\ Upgrades' = Upgrades /\ (Open' => Open)
    BY <2>1, SenderStays DEF Open, Upgrades
  <2>3. UNCHANGED <<cnt, blocks>> /\ rpc \in {"idle", "hangup"} /\ rpc' \in {"dropcas"}
    BY <1>35 DEF DropPort, sender
  <2>4. Down' <= Down /\ Down' \in Int
    BY <2>3 DEF Down
  <2>5. Reached' = Reached
    BY <2>3 DEF Reached
  <2>6. QED
    BY <2>1, <2>2, <2>3, <2>4, <2>5, <1>step
<1>36. ASSUME due = Null, DropCas PROVE LimitInv'
  <2>1. UNCHANGED <<spc, sop, accepted>> /\ rpc # "gone"
    BY <1>36 DEF sender, DropCas
  <2>2. (Over' <=> Over) /\ Uncounted' = Uncounted /\ Upgrades' = Upgrades /\ (Open' => Open)
    BY <2>1, SenderStays DEF Open, Upgrades
  <2>3. CASE rpc' = "gone"
    BY <2>3 DEF LimitInv, Open
  <2>4. CASE rpc' # "gone"
    <3>1. UNCHANGED <<cnt, blocks>> /\ rpc = "dropcas" /\ rpc' = "dropdrain"
      BY <1>36, <2>4 DEF DropCas, MustDrain
    <3>2. Down = 0 /\ Down' = 0 /\ Reached' = Reached
      BY <3>1 DEF Down, Reached
    <3>3. QED
      BY <2>1, <2>2, <3>1, <3>2, <1>step
  <2>5. QED
    BY <2>3, <2>4
<1>37. ASSUME due = Null, DropDrain PROVE LimitInv'
  <2>1. UNCHANGED <<spc, sop, accepted>> /\ rpc # "gone"
    BY <1>37 DEF sender, DropDrain
  <2>2. (Over' <=> Over) /\ Uncounted' = Uncounted /\ Upgrades' = Upgrades /\ (Open' => Open)
    BY <2>1, SenderStays DEF Open, Upgrades
  <2>3. UNCHANGED <<cnt, blocks>> /\ rpc \in {"dropdrain"} /\ rpc' \in {"dropcas", "dropdrain"}
    BY <1>37 DEF DropDrain, CountDrained, sender
  <2>4. Down' <= Down /\ Down' \in Int
    BY <2>3 DEF Down
  <2>5. Reached' = Reached
    BY <2>3 DEF Reached
  <2>6. QED
    BY <2>1, <2>2, <2>3, <2>4, <2>5, <1>step
<1>38. CASE Terminated
  BY <1>38, <1>same DEF Terminated, vars, sender, receiver
<1>39. QED
  BY <1>1, <1>2, <1>3, <1>4, <1>5, <1>6, <1>7, <1>8, <1>9, <1>10, <1>11, <1>12, <1>13,
       <1>14, <1>15, <1>16, <1>17, <1>18, <1>19, <1>20, <1>21, <1>22, <1>23, <1>24, <1>25,
       <1>26, <1>27, <1>28, <1>29, <1>30, <1>31, <1>32, <1>33, <1>34, <1>35, <1>36, <1>37,
       <1>38 DEF Next, SenderStep, ReceiverStep

-----------------------------------------------------------------------------
(* The messages on the queue                                               *)

\* The messages on the queue are the last ones accepted, in order.
Lined == Msgs <= accepted /\ \A i \in 1..Msgs : queue[i] = Popped + i
\* The others were received, are in hand or were destroyed.
Settled ==
  /\ \A i \in 1..Len(received) : received[i] = i
  /\ Len(received) + Held <= Popped
  /\ destroyed \ {GoUp} = (Len(received) + Held + 1)..Popped
  /\ Held = 1 => hand = Len(received) + 1 /\ hand = Popped

\* The two parts of OrderInv.
LEMMA OrderParts == (OrderInv <=> Lined /\ Settled) /\ (OrderInv' <=> Lined' /\ Settled')
BY DEF OrderInv, Lined, Settled

\* What OrderInv says of the first element, and of what was popped.
LEMMA Shape ==
  ASSUME IInv
  PROVE  /\ Msgs \in Nat /\ Popped \in Nat /\ Held \in {0, 1} /\ Len(received) \in Nat
         /\ accepted \in Nat /\ Popped = accepted - Msgs
         /\ rpc \notin Dropping => destroyed = {} /\ Popped = Len(received) + Held
         /\ rpc \notin Folding => Held = 0 /\ hand = None
         /\ Len(queue) = 0 => ~UpInQueue /\ Msgs = 0 /\ Popped = accepted
         /\ Len(queue) > 0 /\ queue[1] = GoUp =>
              Len(queue) = 1 /\ UpInQueue /\ Msgs = 0 /\ Popped = accepted /\ Finished
         /\ Len(queue) > 0 /\ queue[1] # GoUp =>
              Msgs > 0 /\ queue[1] = Popped + 1 /\ queue[1] \in Nat
<1>t. Len(queue) \in Nat /\ accepted \in Nat /\ hand \in Int /\ received \in Seq(Nat)
  BY Types DEF IInv, TypeInv, QueueTypes
<1>inv. Lined /\ Settled /\ UpInv /\ DestroyedInv
  BY OrderParts DEF IInv
<1>1. Msgs \in Nat /\ Msgs <= accepted /\ Popped = accepted - Msgs
  <2>1. Msgs \in Nat
    BY <1>t DEF Msgs, UpInQueue
  <2>2. QED
    BY <2>1, <1>inv DEF Lined, Popped
<1>2. Popped \in Nat /\ Held \in {0, 1} /\ Len(received) \in Nat
  BY <1>1, <1>t DEF Held
<1>3. ASSUME rpc \notin Dropping PROVE destroyed = {} /\ Popped = Len(received) + Held
  <2>1. destroyed = {}
    BY <1>3, <1>inv DEF DestroyedInv
  <2>2. Len(received) + Held <= Popped /\ (Len(received) + Held + 1)..Popped = {}
    BY <2>1, <1>inv DEF Settled
  <2>3. ~(Len(received) + Held + 1 <= Popped)
    BY <2>2, <1>2
  <2>4. QED
    BY <2>1, <2>2, <2>3, <1>2
<1>4. rpc \notin Folding => Held = 0 /\ hand = None
  BY <1>inv DEF UpInv, Held
<1>5. Len(queue) = 0 => ~UpInQueue /\ Msgs = 0 /\ Popped = accepted
  BY <1>1, <1>t DEF UpInQueue, Msgs
<1>6. ASSUME Len(queue) > 0, queue[1] = GoUp
      PROVE  Len(queue) = 1 /\ UpInQueue /\ Msgs = 0 /\ Popped = accepted /\ Finished
  <2>1. Msgs = 0
    <3>1. SUFFICES ASSUME Msgs > 0 PROVE FALSE
      BY <1>1
    <3>2. 1 \in 1..Msgs
      BY <3>1, <1>1
    <3>3. queue[1] = Popped + 1
      BY <3>2, <1>inv DEF Lined
    <3>4. QED
      BY <3>3, <1>6, <1>2 DEF GoUp
  <2>2. UpInQueue
    BY <2>1, <1>6, <1>t DEF Msgs
  <2>3. Len(queue) = 1
    BY <2>1, <2>2, <1>t DEF Msgs
  <2>4. QED
    BY <2>1, <2>2, <2>3, <1>1, <1>t, <1>inv DEF UpInv
<1>7. ASSUME Len(queue) > 0, queue[1] # GoUp
      PROVE  Msgs > 0 /\ queue[1] = Popped + 1 /\ queue[1] \in Nat
  <2>1. Msgs > 0
    <3>1. CASE UpInQueue
      <4>1. Len(queue) # 1
        BY <3>1, <1>7 DEF UpInQueue
      <4>2. QED
        <5>1. Msgs = Len(queue) - 1
          BY <3>1 DEF Msgs
        <5>2. Len(queue) \in Nat /\ Len(queue) > 0 /\ Len(queue) # 1
          BY <4>1, <1>7, <1>t
        <5>3. QED
          BY <5>1, <5>2
    <3>2. CASE ~UpInQueue
      BY <3>2, <1>7, <1>t DEF Msgs
    <3>3. QED
      BY <3>1, <3>2
  <2>2. 1 \in 1..Msgs
    BY <2>1, <1>1
  <2>3. queue[1] = Popped + 1
    BY <2>2, <1>inv DEF Lined
  <2>4. QED
    BY <2>1, <2>3, <1>2
<1>8. QED
  BY <1>t, <1>1, <1>2, <1>3, <1>4, <1>5, <1>6, <1>7

\* Nothing happens to the queue.
LEMMA ShapeSame ==
  ASSUME IInv, queue' = queue, accepted' = accepted
  PROVE  Lined' /\ (UpInQueue' <=> UpInQueue) /\ Msgs' = Msgs /\ Popped' = Popped
<1>1. (UpInQueue' <=> UpInQueue) /\ Msgs' = Msgs /\ Popped' = Popped
  BY DEF UpInQueue, Msgs, Popped
<1>2. Lined
  BY OrderParts DEF IInv
<1>3. QED
  BY <1>1, <1>2 DEF Lined

\* An upgrade or a message is taken off it.
LEMMA ShapePop ==
  ASSUME IInv, Effects, PopEffect, Len(queue) > 0, accepted' = accepted
  PROVE  /\ Lined'
         /\ queue[1] = GoUp => Len(queue') = 0 /\ ~UpInQueue' /\ Popped' = Popped
         /\ queue[1] # GoUp => (UpInQueue' <=> UpInQueue) /\ Popped' = Popped + 1
<1>t. /\ Len(queue) \in Nat /\ Len(queue') \in Nat /\ Len(queue') = Len(queue) - 1
      /\ \A i \in 1..Len(queue') : queue'[i] = queue[i + 1]
  BY DEF Effects, Elements, PopEffect
<1>m. Msgs \in Nat /\ Popped \in Nat /\ accepted \in Nat /\ Popped = accepted - Msgs /\ Msgs <= accepted
  BY Shape, OrderParts DEF IInv, Lined
<1>1. CASE queue[1] = GoUp
  <2>1. Len(queue') = 0 /\ Popped = accepted
    <3>1. Len(queue) = 1 /\ Popped = accepted
      BY <1>1, Shape
    <3>2. Len(queue') = 1 - 1
      BY <3>1, <1>t
    <3>3. QED
      BY <3>1, <3>2
  <2>2. ~UpInQueue'
    BY <2>1 DEF UpInQueue
  <2>3. Msgs' = 0
    <3>1. Msgs' = Len(queue') - 0
      BY <2>2 DEF Msgs
    <3>2. QED
      BY <2>1, <3>1
  <2>4. Popped' = Popped
    BY <2>1, <2>3, <1>m DEF Popped
  <2>5. Lined'
    BY <2>3, <1>m DEF Lined
  <2>6. QED
    BY <1>1, <2>1, <2>2, <2>4, <2>5
<1>2. CASE queue[1] # GoUp
  <2>1. UpInQueue' <=> UpInQueue
    <3>1. CASE Len(queue') = 0
      <4>1. Len(queue) = 1
        BY <3>1, <1>t
      <4>2. QED
        BY <3>1, <4>1, <1>2 DEF UpInQueue
    <3>2. CASE Len(queue') > 0
      <4>1. Len(queue') \in 1..Len(queue') /\ Len(queue') + 1 = Len(queue)
        BY <3>2, <1>t
      <4>2. queue'[Len(queue')] = queue[Len(queue)]
        BY <4>1, <1>t
      <4>3. QED
        BY <3>2, <4>2 DEF UpInQueue
    <3>3. QED
      BY <3>1, <3>2, <1>t
  <2>2. PICK m \in Nat : m = Msgs' /\ m = Msgs - 1
    <3>1. PICK u \in {0, 1} : u = IF UpInQueue THEN 1 ELSE 0
      OBVIOUS
    <3>2. Msgs > 0 /\ Msgs = Len(queue) - u
      BY <1>2, <3>1, Shape DEF Msgs
    <3>3. Msgs' = Len(queue') - u
      BY <2>1, <3>1 DEF Msgs
    <3>4. Len(queue') - u = Msgs - 1
      BY <3>2, <1>t
    <3>5. Msgs - 1 \in Nat
      BY <3>2, <1>m
    <3>6. QED
      BY <3>3, <3>4, <3>5
  <2>3. PICK p \in Nat : p = Popped' /\ p = Popped + 1
    <3>1. Popped' = accepted - m
      BY <2>2 DEF Popped
    <3>2. QED
      BY <3>1, <2>2, <1>m
  <2>4. \A i \in 1..m : queue'[i] = p + i
    <3>1. SUFFICES ASSUME NEW i \in 1..m PROVE queue'[i] = p + i
      OBVIOUS
    <3>2. Msgs <= Len(queue)
      BY <1>t DEF Msgs
    <3>3. i \in 1..Len(queue') /\ i + 1 \in 1..Msgs
      BY <2>2, <3>2, <1>t, <1>m
    <3>4. queue'[i] = queue[i + 1] /\ queue[i + 1] = Popped + (i + 1)
      BY <3>3, <1>t, OrderParts DEF IInv, Lined
    <3>5. QED
      BY <3>4, <2>3, <1>m
  <2>5. Lined'
    <3>1. m <= accepted
      BY <2>2, <1>m
    <3>2. QED
      BY <2>2, <2>3, <2>4, <3>1 DEF Lined
  <2>6. QED
    BY <1>2, <2>1, <2>3, <2>5
<1>3. QED
  BY <1>1, <1>2

\* A message or an upgrade is put on it.
LEMMA ShapeLink ==
  ASSUME IInv, Effects, SendLink
  PROVE  /\ Lined' /\ Popped' = Popped /\ ~Finished /\ ~UpInQueue
         /\ UpInQueue' <=> sop = "clone"
         /\ Len(queue') > 0 /\ (UpInQueue' => Finished')
<1>t. /\ Len(queue) \in Nat /\ Len(queue') = Len(queue) + 1 /\ queue'[Len(queue')] = Item
      /\ \A i \in 1..Len(queue) : queue'[i] = queue[i]
  BY DEF Effects, Elements
<1>m. Msgs \in Nat /\ Popped \in Nat /\ accepted \in Nat /\ Popped = accepted - Msgs /\ Msgs <= accepted
  BY Shape, OrderParts DEF IInv, Lined
<1>s. /\ spc = "link" /\ spc' = "add" /\ sop' = sop /\ sop \in {"send", "clone"}
      /\ accepted' = accepted + (IF sop = "send" THEN 1 ELSE 0)
  BY DEF SendLink, IInv, OpInv, TypeInv, CallTypes
<1>1. ~Finished /\ (sop = "clone" => Finished')
  BY <1>s DEF Finished
<1>2. ~UpInQueue
  BY <1>1 DEF IInv, UpInv
<1>3. Msgs = Len(queue)
  BY <1>2, <1>t DEF Msgs
<1>4. UpInQueue' <=> sop = "clone"
  <2>1. Len(queue') > 0
    BY <1>t
  <2>2. queue'[Len(queue')] = IF sop = "send" THEN accepted + 1 ELSE GoUp
    BY <1>t DEF Item
  <2>3. QED
    BY <2>1, <2>2, <1>s, <1>m DEF UpInQueue, GoUp
<1>5. CASE sop = "send"
  <2>1. Msgs' = Msgs + 1 /\ accepted' = accepted + 1
    BY <1>5, <1>s, <1>4, <1>3, <1>t, <1>m DEF Msgs
  <2>2. Popped' = Popped
    BY <2>1, <1>m DEF Popped
  <2>3. \A i \in 1..(Msgs + 1) : queue'[i] = Popped + i
    <3>1. SUFFICES ASSUME NEW i \in 1..(Msgs + 1) PROVE queue'[i] = Popped + i
      OBVIOUS
    <3>2. CASE i = Len(queue')
      BY <3>2, <1>5, <1>t, <1>3, <1>m DEF Item
    <3>3. CASE i # Len(queue')
      <4>1. i \in 1..Msgs
        BY <3>3, <1>t, <1>3
      <4>2. QED
        BY <4>1, <1>3, <1>t, OrderParts DEF IInv, Lined
    <3>4. QED
      BY <3>2, <3>3
  <2>4. Lined'
    <3>1. Msgs + 1 <= accepted + 1
      BY <1>m
    <3>2. QED
      BY <2>1, <2>2, <2>3, <3>1 DEF Lined
  <2>5. QED
    BY <1>5, <1>1, <1>2, <1>4, <2>2, <2>4, <1>t
<1>6. CASE sop = "clone"
  <2>1. Msgs' = Msgs /\ accepted' = accepted
    BY <1>6, <1>s, <1>4, <1>3, <1>t, <1>m DEF Msgs
  <2>2. Popped' = Popped
    BY <2>1 DEF Popped
  <2>3. \A i \in 1..Msgs : queue'[i] = Popped + i
    BY <1>3, <1>t, OrderParts DEF IInv, Lined
  <2>4. Lined'
    BY <2>1, <2>2, <2>3, <1>m DEF Lined
  <2>5. QED
    BY <1>6, <1>1, <1>2, <1>4, <2>2, <2>4, <1>t
<1>7. QED
  BY <1>5, <1>6, <1>s

-----------------------------------------------------------------------------
(* The upgrade and the end of the channel                                  *)

\* Nothing is destroyed before the port is dropped.
LEMMA DestroyedInvStep ==
  ASSUME IInv, Next
  PROVE  DestroyedInv'
<1>eff. Effects
  BY QueueEffects
<1>inv. DestroyedInv
  BY DEF IInv
<1>same. ASSUME UNCHANGED <<rpc, destroyed>> PROVE DestroyedInv'
  BY <1>same, <1>inv DEF DestroyedInv
<1>1. ASSUME
       SenderCall \/ SendCheck \/ SendPush \/ SendLink \/ SendAdd \/ SendDisconnected \/
       TakeLoad \/ TakeClear \/ Signal \/ DropChan \/ EndPop
       PROVE  DestroyedInv'
  BY <1>1, <1>same DEF SenderCall, receiver, SendCheck, SendPush, SendLink, SendAdd,
       SendDisconnected, TakeLoad, TakeClear, Signal, DropChan, EndPop, sender
<1>2. ASSUME SendDrain PROVE DestroyedInv'
  <2>1. rpc' \in Dropping
    BY <1>2 DEF SendDrain, receiver, Dropping, IInv, GoneInv
  <2>2. QED
    BY <2>1 DEF DestroyedInv
<1>3. ASSUME due = Null, RecvCall PROVE DestroyedInv'
  <2>1. destroyed' = destroyed /\ rpc \notin Dropping
    BY <1>3 DEF RecvCall, Dropping
  <2>2. QED
    BY <2>1, <1>inv DEF DestroyedInv
<1>4. ASSUME due = Null, TryPop PROVE DestroyedInv'
  <2>1. destroyed' = destroyed /\ rpc \notin Dropping
    BY <1>4 DEF TryPop, Dropping
  <2>2. QED
    BY <2>1, <1>inv DEF DestroyedInv
<1>5. ASSUME due = Null, FoldSwap PROVE DestroyedInv'
  <2>1. destroyed' = destroyed /\ rpc \notin Dropping
    BY <1>5 DEF FoldSwap, Dropping
  <2>2. QED
    BY <2>1, <1>inv DEF DestroyedInv
<1>6. ASSUME due = Null, FoldBump PROVE DestroyedInv'
  <2>1. destroyed' = destroyed /\ rpc \notin Dropping
    BY <1>6 DEF FoldBump, Dropping
  <2>2. QED
    BY <2>1, <1>inv DEF DestroyedInv
<1>7. ASSUME due = Null, FoldStore PROVE DestroyedInv'
  <2>1. destroyed' = destroyed /\ rpc \notin Dropping
    BY <1>7 DEF FoldStore, Dropping
  <2>2. QED
    BY <2>1, <1>inv DEF DestroyedInv
<1>8. ASSUME due = Null, Folded PROVE DestroyedInv'
  <2>1. destroyed' = destroyed /\ rpc \notin Dropping
    BY <1>8 DEF Folded, Dropping
  <2>2. QED
    BY <2>1, <1>inv DEF DestroyedInv
<1>9. ASSUME due = Null, TryLook PROVE DestroyedInv'
  <2>1. destroyed' = destroyed /\ rpc \notin Dropping
    BY <1>9 DEF TryLook, Dropping
  <2>2. QED
    BY <2>1, <1>inv DEF DestroyedInv
<1>10. ASSUME due = Null, TryAgain PROVE DestroyedInv'
  <2>1. destroyed' = destroyed /\ rpc \notin Dropping
    BY <1>10 DEF TryAgain, Dropping
  <2>2. QED
    BY <2>1, <1>inv DEF DestroyedInv
<1>11. ASSUME due = Null, Decrement PROVE DestroyedInv'
  <2>1. destroyed' = destroyed /\ rpc \notin Dropping
    BY <1>11 DEF Decrement, Dropping
  <2>2. QED
    BY <2>1, <1>inv DEF DestroyedInv
<1>12. ASSUME due = Null, DecrementSub PROVE DestroyedInv'
  <2>1. destroyed' = destroyed /\ rpc \notin Dropping
    BY <1>12 DEF DecrementSub, Dropping
  <2>2. QED
    BY <2>1, <1>inv DEF DestroyedInv
<1>13. ASSUME due = Null, DecrementDisc PROVE DestroyedInv'
  <2>1. destroyed' = destroyed /\ rpc \notin Dropping
    BY <1>13 DEF DecrementDisc, Dropping
  <2>2. QED
    BY <2>1, <1>inv DEF DestroyedInv
<1>14. ASSUME due = Null, DecrementFailed PROVE DestroyedInv'
  <2>1. destroyed' = destroyed /\ rpc \notin Dropping
    BY <1>14 DEF DecrementFailed, Dropping
  <2>2. QED
    BY <2>1, <1>inv DEF DestroyedInv
<1>15. ASSUME due = Null, WaitDone PROVE DestroyedInv'
  <2>1. destroyed' = destroyed /\ rpc \notin Dropping
    BY <1>15 DEF WaitDone, Dropping
  <2>2. QED
    BY <2>1, <1>inv DEF DestroyedInv
<1>16. ASSUME due = Null, WaitAborted PROVE DestroyedInv'
  <2>1. destroyed' = destroyed /\ rpc \notin Dropping
    BY <1>16 DEF WaitAborted, Dropping
  <2>2. QED
    BY <2>1, <1>inv DEF DestroyedInv
<1>17. ASSUME due = Null, CanRecv PROVE DestroyedInv'
  <2>1. destroyed' = destroyed /\ rpc \notin Dropping
    BY <1>17 DEF CanRecv, Dropping
  <2>2. QED
    BY <2>1, <1>inv DEF DestroyedInv
<1>18. ASSUME due = Null, StartCancel PROVE DestroyedInv'
  <2>1. destroyed' = destroyed /\ rpc \notin Dropping
    BY <1>18 DEF StartCancel, Dropping
  <2>2. QED
    BY <2>1, <1>inv DEF DestroyedInv
<1>19. ASSUME due = Null, StartCancelBump PROVE DestroyedInv'
  <2>1. destroyed' = destroyed /\ rpc \notin Dropping
    BY <1>19 DEF StartCancelBump, Dropping
  <2>2. QED
    BY <2>1, <1>inv DEF DestroyedInv
<1>20. ASSUME due = Null, AbortBump PROVE DestroyedInv'
  <2>1. destroyed' = destroyed /\ rpc \notin Dropping
    BY <1>20 DEF AbortBump, Dropping
  <2>2. QED
    BY <2>1, <1>inv DEF DestroyedInv
<1>21. ASSUME due = Null, AbortDisc PROVE DestroyedInv'
  <2>1. destroyed' = destroyed /\ rpc \notin Dropping
    BY <1>21 DEF AbortDisc, Dropping
  <2>2. QED
    BY <2>1, <1>inv DEF DestroyedInv
<1>22. ASSUME due = Null, AbortTake PROVE DestroyedInv'
  <2>1. destroyed' = destroyed /\ rpc \notin Dropping
    BY <1>22 DEF AbortTake, Dropping
  <2>2. QED
    BY <2>1, <1>inv DEF DestroyedInv
<1>23. ASSUME due = Null, AbortSpin PROVE DestroyedInv'
  <2>1. destroyed' = destroyed /\ rpc \notin Dropping
    BY <1>23 DEF AbortSpin, Dropping
  <2>2. QED
    BY <2>1, <1>inv DEF DestroyedInv
<1>24. ASSUME due = Null, AbortPeek PROVE DestroyedInv'
  <2>1. destroyed' = destroyed /\ rpc \notin Dropping
    BY <1>24 DEF AbortPeek, Dropping
  <2>2. QED
    BY <2>1, <1>inv DEF DestroyedInv
<1>25. ASSUME due = Null, DropPort PROVE DestroyedInv'
  <2>1. rpc' \in Dropping
    BY <1>25 DEF DropPort, Dropping
  <2>2. QED
    BY <2>1 DEF DestroyedInv
<1>26. ASSUME due = Null, DropCas PROVE DestroyedInv'
  <2>1. rpc' \in Dropping
    BY <1>26 DEF DropCas, Dropping
  <2>2. QED
    BY <2>1 DEF DestroyedInv
<1>27. ASSUME due = Null, DropDrain PROVE DestroyedInv'
  <2>1. rpc' \in Dropping
    BY <1>27 DEF DropDrain, Dropping
  <2>2. QED
    BY <2>1 DEF DestroyedInv
<1>28. CASE Terminated
  BY <1>28, <1>same DEF Terminated, vars, sender, receiver
<1>29. QED
  BY <1>1, <1>2, <1>3, <1>4, <1>5, <1>6, <1>7, <1>8, <1>9, <1>10, <1>11, <1>12, <1>13,
       <1>14, <1>15, <1>16, <1>17, <1>18, <1>19, <1>20, <1>21, <1>22, <1>23, <1>24, <1>25,
       <1>26, <1>27, <1>28 DEF Next, SenderStep, ReceiverStep

\* An upgrade is on the queue, in hand or was received, and nothing comes after it.
LEMMA UpInvStep ==
  ASSUME IInv, Next
  PROVE  UpInv'
<1>eff. Effects
  BY QueueEffects
<1>inv. UpInv
  BY DEF IInv
<1>t. sop \in {"send", "clone", "drop"} /\ cnt \in Int
  BY Types DEF IInv, TypeInv, CallTypes
<1>stok. spc \in {"idle", "check", "push", "link", "add", "disc", "drain1", "drain2"} => stok = NoToken
  BY DEF IInv, HolderInv
<1>res. /\ rres = "Upgraded" => rpc \in Dropping \cup {"cancelbump"}
        /\ rpc = "cancelbump" /\ rres # "ready" => rres = "Upgraded"
  BY DEF IInv, ResultInv
<1>same. ASSUME UNCHANGED <<spc, sop, stok, rpc, rres, hand, queue, received, accepted>> PROVE UpInv'
  BY <1>same, <1>inv DEF UpInv, UpInQueue, Finished, Linked
<1>1. ASSUME
       EndPop
       PROVE  UpInv'
  BY <1>1, <1>same, <1>eff DEF EndPop, sender, receiver, Effects
<1>2. ASSUME SenderCall PROVE UpInv'
  <2>1. UNCHANGED <<rpc, rres, hand, received, accepted>> /\ queue' = queue
    BY <1>2, <1>eff DEF Effects, SenderCall, receiver
  <2>2. Linked' => Linked
    BY <1>2, <1>t, <1>stok, SenderAsserts DEF Linked, AfterSend, SeesWaiter, SenderCall
  <2>3. (UpInQueue' <=> UpInQueue) /\ (Finished => Finished')
    BY <2>1, ShapeSame, SenderMoves
  <2>4. QED
    BY <2>1, <2>2, <2>3, <1>inv DEF UpInv
<1>3. ASSUME SendCheck PROVE UpInv'
  <2>1. UNCHANGED <<rpc, rres, hand, received, accepted>> /\ queue' = queue
    BY <1>3, <1>eff DEF Effects, SendCheck, receiver
  <2>2. Linked' => Linked
    BY <1>3, <1>t, <1>stok, SenderAsserts DEF Linked, AfterSend, SeesWaiter, SendCheck
  <2>3. (UpInQueue' <=> UpInQueue) /\ (Finished => Finished')
    BY <2>1, ShapeSame, SenderMoves
  <2>4. QED
    BY <2>1, <2>2, <2>3, <1>inv DEF UpInv
<1>4. ASSUME SendPush PROVE UpInv'
  <2>1. UNCHANGED <<rpc, rres, hand, received, accepted>> /\ queue' = queue
    BY <1>4, <1>eff DEF Effects, SendPush, receiver
  <2>2. Linked' => Linked
    BY <1>4, <1>t, <1>stok, SenderAsserts DEF Linked, AfterSend, SeesWaiter, SendPush
  <2>3. (UpInQueue' <=> UpInQueue) /\ (Finished => Finished')
    BY <2>1, ShapeSame, SenderMoves
  <2>4. QED
    BY <2>1, <2>2, <2>3, <1>inv DEF UpInv
<1>5. ASSUME SendLink PROVE UpInv'
  <2>1. UNCHANGED <<rpc, rres, hand>> /\ spc' = "add" /\ sop' = sop
    BY <1>5 DEF SendLink, receiver
  <2>2. ~Finished /\ (UpInQueue' => Finished') /\ (UpInQueue' <=> sop = "clone")
    BY <1>5, <1>eff, ShapeLink
  <2>3. hand' # GoUp /\ (hand' # None <=> rpc' \in Folding)
    BY <2>1, <2>2, <1>inv DEF UpInv
  <2>4. Linked' => UpInQueue'
    BY <2>1, <2>2 DEF Linked
  <2>5. QED
    BY <2>2, <2>3, <2>4 DEF UpInv
<1>6. ASSUME SendAdd PROVE UpInv'
  <2>1. UNCHANGED <<rpc, rres, hand, received, accepted>> /\ queue' = queue
    BY <1>6, <1>eff DEF Effects, SendAdd, receiver
  <2>2. Linked' => Linked
    BY <1>6, <1>t, <1>stok, SenderAsserts DEF Linked, AfterSend, SeesWaiter, SendAdd
  <2>3. (UpInQueue' <=> UpInQueue) /\ (Finished => Finished')
    BY <2>1, ShapeSame, SenderMoves
  <2>4. QED
    BY <2>1, <2>2, <2>3, <1>inv DEF UpInv
<1>7. ASSUME SendDisconnected PROVE UpInv'
  <2>1. UNCHANGED <<rpc, rres, hand, received, accepted>> /\ queue' = queue
    BY <1>7, <1>eff DEF Effects, SendDisconnected, receiver
  <2>2. Linked' => Linked
    BY <1>7, <1>t, <1>stok, SenderAsserts DEF Linked, AfterSend, SeesWaiter, SendDisconnected
  <2>3. (UpInQueue' <=> UpInQueue) /\ (Finished => Finished')
    BY <2>1, ShapeSame, SenderMoves
  <2>4. QED
    BY <2>1, <2>2, <2>3, <1>inv DEF UpInv
<1>8. ASSUME SendDrain PROVE UpInv'
  <2>1. UNCHANGED <<rpc, hand, accepted>> /\ rpc = "gone"
    BY <1>8 DEF SendDrain, receiver, IInv, GoneInv
  <2>2. rpc' \in Dropping /\ rpc' \notin Folding /\ hand' = None /\ hand' # GoUp
    BY <2>1, <1>inv DEF Dropping, Folding, UpInv, None, GoUp
  <2>3. UpInQueue' => UpInQueue
    <3>1. CASE HasData
      <4>1. PopEffect /\ Len(queue) > 0
        BY <1>8, <3>1, <1>eff DEF SendDrain, Effects, Elements
      <4>2. QED
        BY <2>1, <4>1, <1>eff, ShapePop
    <3>2. CASE ~HasData
      <4>1. queue' = queue
        BY <1>8, <3>2, <1>eff DEF SendDrain, Effects
      <4>2. QED
        BY <2>1, <4>1, ShapeSame
    <3>3. QED
      BY <3>1, <3>2
  <2>4. QED
    BY <2>2, <2>3, <1>inv, SenderMoves DEF UpInv
<1>9. ASSUME TakeLoad PROVE UpInv'
  <2>1. UNCHANGED <<rpc, rres, hand, received, accepted>> /\ queue' = queue
    BY <1>9, <1>eff DEF Effects, TakeLoad, receiver
  <2>2. Linked' => Linked
    BY <1>9, <1>t, <1>stok, SenderAsserts DEF Linked, AfterSend, SeesWaiter, TakeLoad
  <2>3. (UpInQueue' <=> UpInQueue) /\ (Finished => Finished')
    BY <2>1, ShapeSame, SenderMoves
  <2>4. QED
    BY <2>1, <2>2, <2>3, <1>inv DEF UpInv
<1>10. ASSUME TakeClear PROVE UpInv'
  <2>1. UNCHANGED <<rpc, rres, hand, received, accepted>> /\ queue' = queue
    BY <1>10, <1>eff DEF Effects, TakeClear, receiver
  <2>2. Linked' => Linked
    BY <1>10, <1>t, <1>stok, SenderAsserts DEF Linked, AfterSend, SeesWaiter, TakeClear
  <2>3. (UpInQueue' <=> UpInQueue) /\ (Finished => Finished')
    BY <2>1, ShapeSame, SenderMoves
  <2>4. QED
    BY <2>1, <2>2, <2>3, <1>inv DEF UpInv
<1>11. ASSUME Signal PROVE UpInv'
  <2>1. UNCHANGED <<rpc, rres, hand, received, accepted>> /\ queue' = queue
    BY <1>11, <1>eff DEF Effects, Signal, receiver
  <2>2. Linked' => Linked
    BY <1>11, <1>t, <1>stok, SenderAsserts DEF Linked, AfterSend, SeesWaiter, Signal
  <2>3. (UpInQueue' <=> UpInQueue) /\ (Finished => Finished')
    BY <2>1, ShapeSame, SenderMoves
  <2>4. QED
    BY <2>1, <2>2, <2>3, <1>inv DEF UpInv
<1>12. ASSUME DropChan PROVE UpInv'
  <2>1. UNCHANGED <<rpc, rres, hand, received, accepted>> /\ queue' = queue
    BY <1>12, <1>eff DEF Effects, DropChan, receiver
  <2>2. Linked' => Linked
    BY <1>12, <1>t, <1>stok, SenderAsserts DEF Linked, AfterSend, SeesWaiter, DropChan
  <2>3. (UpInQueue' <=> UpInQueue) /\ (Finished => Finished')
    BY <2>1, ShapeSame, SenderMoves
  <2>4. QED
    BY <2>1, <2>2, <2>3, <1>inv DEF UpInv
<1>13. ASSUME due = Null, RecvCall PROVE UpInv'
  <2>1. UNCHANGED <<spc, sop, stok, accepted>>
    BY <1>13 DEF sender, RecvCall
  <2>2. (Finished' <=> Finished) /\ (Linked' <=> Linked)
    BY <2>1, SenderStays DEF Linked
  <2>3. /\ UNCHANGED <<hand, received>> /\ queue' = queue /\ (rpc' \in Folding <=> rpc \in Folding)
        /\ rres = "Upgraded" \/ rpc \in Dropping => rpc' \in Dropping
    BY <1>13, <1>eff, <1>res, <1>t, ReceiverAsserts DEF Effects, Folding, Dropping,
         RecvCall
  <2>4. UpInQueue' <=> UpInQueue
    BY <2>1, <2>3, ShapeSame
  <2>5. QED
    BY <2>1, <2>2, <2>3, <2>4, <1>inv DEF UpInv
<1>14. ASSUME due = Null, TryPop PROVE UpInv'
  <2>1. UNCHANGED <<spc, sop, stok, accepted>>
    BY <1>14 DEF sender, TryPop
  <2>2. (Finished' <=> Finished) /\ (Linked' <=> Linked)
    BY <2>1, SenderStays DEF Linked
  <2>3. rpc = "try" /\ rpc \notin Dropping /\ rpc \notin Folding /\ hand = None
    BY <1>14, Shape DEF TryPop, Dropping, Folding
  <2>4. rres # "Upgraded" /\ (Linked => UpInQueue)
    BY <2>3, <1>res, <1>inv DEF UpInv, None, GoUp
  <2>5. CASE ~HasData
    <3>1. queue' = queue /\ hand' = hand /\ rpc' = "look"
      BY <1>14, <2>5, <1>eff DEF TryPop, Effects
    <3>2. UpInQueue' <=> UpInQueue
      BY <2>1, <3>1, ShapeSame
    <3>3. QED
      BY <2>2, <2>3, <2>4, <3>1, <3>2, <1>inv DEF UpInv, Folding, None, GoUp
  <2>6. CASE HasData
    <3>1. PopEffect /\ Len(queue) > 0 /\ FrontValue = queue[1] /\ queue[1] # None
      BY <1>14, <2>6, <1>eff DEF TryPop, Effects, Elements
    <3>2. /\ queue[1] = GoUp => Len(queue') = 0 /\ ~UpInQueue' /\ Finished /\ Popped = accepted
          /\ queue[1] # GoUp => (UpInQueue' <=> UpInQueue)
      BY <2>1, <3>1, <1>eff, ShapePop, Shape
    <3>3. UpInQueue' => Finished'
      BY <2>2, <3>2, <1>inv DEF UpInv
    <3>4. CASE FoldDue
      <4>1. hand' = queue[1] /\ rpc' = "fold" /\ received' = received
        BY <1>14, <2>6, <3>1, <3>4 DEF TryPop
      <4>2. rpc' \in Folding /\ hand' # None
        BY <3>1, <4>1 DEF Folding
      <4>3. hand' = GoUp => Finished' /\ Len(queue') = 0 /\ Len(received') = accepted'
        BY <2>1, <2>2, <2>3, <3>2, <4>1, Shape
      <4>4. Linked' => UpInQueue' \/ hand' = GoUp
        BY <2>2, <2>4, <3>2, <4>1
      <4>5. QED
        BY <3>3, <4>2, <4>3, <4>4 DEF UpInv
    <3>5. CASE ~FoldDue
      <4>1. hand' = None /\ rpc' = IF queue[1] = GoUp THEN "hangup" ELSE "idle"
        BY <1>14, <2>3, <2>6, <3>1, <3>5 DEF TryPop, Found, Return
      <4>2. rpc' \notin Folding /\ hand' # GoUp /\ (queue[1] = GoUp => rpc' \in Dropping)
        BY <4>1 DEF Folding, Dropping, None, GoUp
      <4>3. QED
        BY <2>2, <2>4, <3>2, <3>3, <4>1, <4>2 DEF UpInv
    <3>6. QED
      BY <3>4, <3>5
  <2>7. QED
    BY <2>5, <2>6
<1>15. ASSUME due = Null, FoldSwap PROVE UpInv'
  <2>1. UNCHANGED <<spc, sop, stok, accepted>>
    BY <1>15 DEF sender, FoldSwap
  <2>2. (Finished' <=> Finished) /\ (Linked' <=> Linked)
    BY <2>1, SenderStays DEF Linked
  <2>3. /\ UNCHANGED <<hand, received>> /\ queue' = queue /\ (rpc' \in Folding <=> rpc \in Folding)
        /\ rres = "Upgraded" \/ rpc \in Dropping => rpc' \in Dropping
    BY <1>15, <1>eff, <1>res, <1>t, ReceiverAsserts DEF Effects, Folding, Dropping,
         FoldSwap
  <2>4. UpInQueue' <=> UpInQueue
    BY <2>1, <2>3, ShapeSame
  <2>5. QED
    BY <2>1, <2>2, <2>3, <2>4, <1>inv DEF UpInv
<1>16. ASSUME due = Null, FoldBump PROVE UpInv'
  <2>1. UNCHANGED <<spc, sop, stok, accepted>>
    BY <1>16 DEF sender, FoldBump
  <2>2. (Finished' <=> Finished) /\ (Linked' <=> Linked)
    BY <2>1, SenderStays DEF Linked
  <2>3. /\ UNCHANGED <<hand, received>> /\ queue' = queue /\ (rpc' \in Folding <=> rpc \in Folding)
        /\ rres = "Upgraded" \/ rpc \in Dropping => rpc' \in Dropping
    BY <1>16, <1>eff, <1>res, <1>t, ReceiverAsserts DEF Effects, Folding, Dropping,
         FoldBump
  <2>4. UpInQueue' <=> UpInQueue
    BY <2>1, <2>3, ShapeSame
  <2>5. QED
    BY <2>1, <2>2, <2>3, <2>4, <1>inv DEF UpInv
<1>17. ASSUME due = Null, FoldStore PROVE UpInv'
  <2>1. UNCHANGED <<spc, sop, stok, accepted>>
    BY <1>17 DEF sender, FoldStore
  <2>2. (Finished' <=> Finished) /\ (Linked' <=> Linked)
    BY <2>1, SenderStays DEF Linked
  <2>3. /\ UNCHANGED <<hand, received>> /\ queue' = queue /\ (rpc' \in Folding <=> rpc \in Folding)
        /\ rres = "Upgraded" \/ rpc \in Dropping => rpc' \in Dropping
    BY <1>17, <1>eff, <1>res, <1>t, ReceiverAsserts DEF Effects, Folding, Dropping,
         FoldStore
  <2>4. UpInQueue' <=> UpInQueue
    BY <2>1, <2>3, ShapeSame
  <2>5. QED
    BY <2>1, <2>2, <2>3, <2>4, <1>inv DEF UpInv
<1>18. ASSUME due = Null, Folded PROVE UpInv'
  <2>1. UNCHANGED <<spc, sop, stok, accepted>>
    BY <1>18 DEF sender, Folded
  <2>2. (Finished' <=> Finished) /\ (Linked' <=> Linked)
    BY <2>1, SenderStays DEF Linked
  <2>3. /\ queue' = queue /\ hand' = None /\ rpc = "folded"
        /\ rpc' = IF hand = GoUp THEN "hangup" ELSE "idle"
    BY <1>18, <1>eff DEF Folded, Found, Return, Effects
  <2>4. UpInQueue' <=> UpInQueue
    BY <2>1, <2>3, ShapeSame
  <2>5. /\ rpc' \notin Folding /\ hand' # GoUp /\ (hand = GoUp => rpc' \in Dropping)
        /\ rpc \notin Dropping /\ rres # "Upgraded"
    BY <2>3, <1>res DEF Folding, Dropping, None, GoUp
  <2>6. QED
    BY <2>2, <2>3, <2>4, <2>5, <1>inv DEF UpInv
<1>19. ASSUME due = Null, TryLook PROVE UpInv'
  <2>1. UNCHANGED <<spc, sop, stok, accepted>>
    BY <1>19 DEF sender, TryLook
  <2>2. (Finished' <=> Finished) /\ (Linked' <=> Linked)
    BY <2>1, SenderStays DEF Linked
  <2>3. /\ UNCHANGED <<hand, received>> /\ queue' = queue /\ (rpc' \in Folding <=> rpc \in Folding)
        /\ rres = "Upgraded" \/ rpc \in Dropping => rpc' \in Dropping
    BY <1>19, <1>eff, <1>res, <1>t, ReceiverAsserts DEF Effects, Folding, Dropping,
         TryLook, Nothing, Return
  <2>4. UpInQueue' <=> UpInQueue
    BY <2>1, <2>3, ShapeSame
  <2>5. QED
    BY <2>1, <2>2, <2>3, <2>4, <1>inv DEF UpInv
<1>20. ASSUME due = Null, TryAgain PROVE UpInv'
  <2>1. UNCHANGED <<spc, sop, stok, accepted>>
    BY <1>20 DEF sender, TryAgain
  <2>2. (Finished' <=> Finished) /\ (Linked' <=> Linked)
    BY <2>1, SenderStays DEF Linked
  <2>3. rpc = "again" /\ rpc \notin Dropping /\ rpc \notin Folding /\ hand = None /\ hand' = hand
    BY <1>20, Shape DEF TryAgain, Dropping, Folding
  <2>4. rres # "Upgraded" /\ (Linked => UpInQueue)
    BY <2>3, <1>res, <1>inv DEF UpInv, None, GoUp
  <2>5. CASE ~HasData
    <3>1. queue' = queue /\ rpc' = "idle"
      BY <1>20, <2>5, <1>eff DEF TryAgain, Return, Effects
    <3>2. UpInQueue' <=> UpInQueue
      BY <2>1, <3>1, ShapeSame
    <3>3. QED
      BY <2>2, <2>3, <2>4, <3>1, <3>2, <1>inv DEF UpInv, Folding, None, GoUp
  <2>6. CASE HasData
    <3>1. PopEffect /\ Len(queue) > 0 /\ FrontValue = queue[1]
      BY <1>20, <2>6, <1>eff DEF TryAgain, Effects, Elements
    <3>2. /\ queue[1] = GoUp => ~UpInQueue' /\ Finished
          /\ queue[1] # GoUp => (UpInQueue' <=> UpInQueue)
      BY <2>1, <3>1, <1>eff, ShapePop, Shape
    <3>3. UpInQueue' => Finished'
      BY <2>2, <3>2, <1>inv DEF UpInv
    <3>4. rpc' = IF queue[1] = GoUp THEN "hangup" ELSE "idle"
      BY <1>20, <2>6, <3>1 DEF TryAgain, Found, Return
    <3>5. /\ rpc' \notin Folding /\ hand' = None /\ hand' # GoUp
          /\ queue[1] = GoUp => rpc' \in Dropping
      BY <2>3, <3>4 DEF Folding, Dropping, None, GoUp
    <3>6. QED
      BY <2>2, <2>4, <3>2, <3>3, <3>5 DEF UpInv
  <2>7. QED
    BY <2>5, <2>6
<1>21. ASSUME due = Null, Decrement PROVE UpInv'
  <2>1. UNCHANGED <<spc, sop, stok, accepted>>
    BY <1>21 DEF sender, Decrement
  <2>2. (Finished' <=> Finished) /\ (Linked' <=> Linked)
    BY <2>1, SenderStays DEF Linked
  <2>3. /\ UNCHANGED <<hand, received>> /\ queue' = queue /\ (rpc' \in Folding <=> rpc \in Folding)
        /\ rres = "Upgraded" \/ rpc \in Dropping => rpc' \in Dropping
    BY <1>21, <1>eff, <1>res, <1>t, ReceiverAsserts DEF Effects, Folding, Dropping,
         Decrement
  <2>4. UpInQueue' <=> UpInQueue
    BY <2>1, <2>3, ShapeSame
  <2>5. QED
    BY <2>1, <2>2, <2>3, <2>4, <1>inv DEF UpInv
<1>22. ASSUME due = Null, DecrementSub PROVE UpInv'
  <2>1. UNCHANGED <<spc, sop, stok, accepted>>
    BY <1>22 DEF sender, DecrementSub
  <2>2. (Finished' <=> Finished) /\ (Linked' <=> Linked)
    BY <2>1, SenderStays DEF Linked
  <2>3. /\ UNCHANGED <<hand, received>> /\ queue' = queue /\ (rpc' \in Folding <=> rpc \in Folding)
        /\ rres = "Upgraded" \/ rpc \in Dropping => rpc' \in Dropping
    BY <1>22, <1>eff, <1>res, <1>t, ReceiverAsserts DEF Effects, Folding, Dropping,
         DecrementSub
  <2>4. UpInQueue' <=> UpInQueue
    BY <2>1, <2>3, ShapeSame
  <2>5. QED
    BY <2>1, <2>2, <2>3, <2>4, <1>inv DEF UpInv
<1>23. ASSUME due = Null, DecrementDisc PROVE UpInv'
  <2>1. UNCHANGED <<spc, sop, stok, accepted>>
    BY <1>23 DEF sender, DecrementDisc
  <2>2. (Finished' <=> Finished) /\ (Linked' <=> Linked)
    BY <2>1, SenderStays DEF Linked
  <2>3. /\ UNCHANGED <<hand, received>> /\ queue' = queue /\ (rpc' \in Folding <=> rpc \in Folding)
        /\ rres = "Upgraded" \/ rpc \in Dropping => rpc' \in Dropping
    BY <1>23, <1>eff, <1>res, <1>t, ReceiverAsserts DEF Effects, Folding, Dropping,
         DecrementDisc
  <2>4. UpInQueue' <=> UpInQueue
    BY <2>1, <2>3, ShapeSame
  <2>5. QED
    BY <2>1, <2>2, <2>3, <2>4, <1>inv DEF UpInv
<1>24. ASSUME due = Null, DecrementFailed PROVE UpInv'
  <2>1. UNCHANGED <<spc, sop, stok, accepted>>
    BY <1>24 DEF sender, DecrementFailed
  <2>2. (Finished' <=> Finished) /\ (Linked' <=> Linked)
    BY <2>1, SenderStays DEF Linked
  <2>3. /\ UNCHANGED <<hand, received>> /\ queue' = queue /\ (rpc' \in Folding <=> rpc \in Folding)
        /\ rres = "Upgraded" \/ rpc \in Dropping => rpc' \in Dropping
    BY <1>24, <1>eff, <1>res, <1>t, ReceiverAsserts DEF Effects, Folding, Dropping,
         DecrementFailed
  <2>4. UpInQueue' <=> UpInQueue
    BY <2>1, <2>3, ShapeSame
  <2>5. QED
    BY <2>1, <2>2, <2>3, <2>4, <1>inv DEF UpInv
<1>25. ASSUME due = Null, WaitDone PROVE UpInv'
  <2>1. UNCHANGED <<spc, sop, stok, accepted>>
    BY <1>25 DEF sender, WaitDone
  <2>2. (Finished' <=> Finished) /\ (Linked' <=> Linked)
    BY <2>1, SenderStays DEF Linked
  <2>3. /\ UNCHANGED <<hand, received>> /\ queue' = queue /\ (rpc' \in Folding <=> rpc \in Folding)
        /\ rres = "Upgraded" \/ rpc \in Dropping => rpc' \in Dropping
    BY <1>25, <1>eff, <1>res, <1>t, ReceiverAsserts DEF Effects, Folding, Dropping,
         WaitDone
  <2>4. UpInQueue' <=> UpInQueue
    BY <2>1, <2>3, ShapeSame
  <2>5. QED
    BY <2>1, <2>2, <2>3, <2>4, <1>inv DEF UpInv
<1>26. ASSUME due = Null, WaitAborted PROVE UpInv'
  <2>1. UNCHANGED <<spc, sop, stok, accepted>>
    BY <1>26 DEF sender, WaitAborted
  <2>2. (Finished' <=> Finished) /\ (Linked' <=> Linked)
    BY <2>1, SenderStays DEF Linked
  <2>3. /\ UNCHANGED <<hand, received>> /\ queue' = queue /\ (rpc' \in Folding <=> rpc \in Folding)
        /\ rres = "Upgraded" \/ rpc \in Dropping => rpc' \in Dropping
    BY <1>26, <1>eff, <1>res, <1>t, ReceiverAsserts DEF Effects, Folding, Dropping,
         WaitAborted
  <2>4. UpInQueue' <=> UpInQueue
    BY <2>1, <2>3, ShapeSame
  <2>5. QED
    BY <2>1, <2>2, <2>3, <2>4, <1>inv DEF UpInv
<1>27. ASSUME due = Null, CanRecv PROVE UpInv'
  <2>1. UNCHANGED <<spc, sop, stok, accepted>>
    BY <1>27 DEF sender, CanRecv
  <2>2. (Finished' <=> Finished) /\ (Linked' <=> Linked)
    BY <2>1, SenderStays DEF Linked
  <2>3. /\ UNCHANGED <<hand, received>> /\ queue' = queue /\ (rpc' \in Folding <=> rpc \in Folding)
        /\ rres = "Upgraded" \/ rpc \in Dropping => rpc' \in Dropping
    BY <1>27, <1>eff, <1>res, <1>t, ReceiverAsserts DEF Effects, Folding, Dropping,
         CanRecv, Return
  <2>4. UpInQueue' <=> UpInQueue
    BY <2>1, <2>3, ShapeSame
  <2>5. QED
    BY <2>1, <2>2, <2>3, <2>4, <1>inv DEF UpInv
<1>28. ASSUME due = Null, StartCancel PROVE UpInv'
  <2>1. UNCHANGED <<spc, sop, stok, accepted>>
    BY <1>28 DEF sender, StartCancel
  <2>2. (Finished' <=> Finished) /\ (Linked' <=> Linked)
    BY <2>1, SenderStays DEF Linked
  <2>3. rpc = "cancel" /\ rpc \notin Dropping /\ rpc \notin Folding /\ hand = None /\ hand' = hand
    BY <1>28, Shape DEF StartCancel, Dropping, Folding
  <2>4. rres # "Upgraded" /\ (Linked => UpInQueue) /\ rpc' \notin Folding /\ hand' # GoUp
    BY <1>28, <2>3, <1>res, <1>inv DEF UpInv, None, GoUp, StartCancel, Folding
  <2>5. CASE HasData /\ FrontValue = GoUp
    <3>1. PopEffect /\ Len(queue) > 0 /\ queue[1] = GoUp /\ rres' = "Upgraded"
      BY <1>28, <2>5, <1>eff DEF StartCancel, TakeGoUp, Effects, Elements
    <3>2. ~UpInQueue'
      BY <2>1, <3>1, <1>eff, ShapePop
    <3>3. QED
      BY <2>3, <2>4, <3>1, <3>2 DEF UpInv
  <2>6. CASE ~(HasData /\ FrontValue = GoUp)
    <3>1. queue' = queue
      BY <1>28, <2>6, <1>eff DEF StartCancel, TakeGoUp, Effects
    <3>2. UpInQueue' <=> UpInQueue
      BY <2>1, <3>1, ShapeSame
    <3>3. QED
      BY <2>2, <2>3, <2>4, <3>2, <1>inv DEF UpInv
  <2>7. QED
    BY <2>5, <2>6
<1>29. ASSUME due = Null, StartCancelBump PROVE UpInv'
  <2>1. UNCHANGED <<spc, sop, stok, accepted>>
    BY <1>29 DEF sender, StartCancelBump
  <2>2. (Finished' <=> Finished) /\ (Linked' <=> Linked)
    BY <2>1, SenderStays DEF Linked
  <2>3. /\ UNCHANGED <<hand, received>> /\ queue' = queue /\ (rpc' \in Folding <=> rpc \in Folding)
        /\ rres = "Upgraded" \/ rpc \in Dropping => rpc' \in Dropping
    BY <1>29, <1>eff, <1>res, <1>t, ReceiverAsserts DEF Effects, Folding, Dropping,
         StartCancelBump
  <2>4. UpInQueue' <=> UpInQueue
    BY <2>1, <2>3, ShapeSame
  <2>5. QED
    BY <2>1, <2>2, <2>3, <2>4, <1>inv DEF UpInv
<1>30. ASSUME due = Null, AbortBump PROVE UpInv'
  <2>1. UNCHANGED <<spc, sop, stok, accepted>>
    BY <1>30 DEF sender, AbortBump
  <2>2. (Finished' <=> Finished) /\ (Linked' <=> Linked)
    BY <2>1, SenderStays DEF Linked
  <2>3. /\ UNCHANGED <<hand, received>> /\ queue' = queue /\ (rpc' \in Folding <=> rpc \in Folding)
        /\ rres = "Upgraded" \/ rpc \in Dropping => rpc' \in Dropping
    BY <1>30, <1>eff, <1>res, <1>t, ReceiverAsserts DEF Effects, Folding, Dropping,
         AbortBump
  <2>4. UpInQueue' <=> UpInQueue
    BY <2>1, <2>3, ShapeSame
  <2>5. QED
    BY <2>1, <2>2, <2>3, <2>4, <1>inv DEF UpInv
<1>31. ASSUME due = Null, AbortDisc PROVE UpInv'
  <2>1. UNCHANGED <<spc, sop, stok, accepted>>
    BY <1>31 DEF sender, AbortDisc
  <2>2. (Finished' <=> Finished) /\ (Linked' <=> Linked)
    BY <2>1, SenderStays DEF Linked
  <2>3. /\ UNCHANGED <<hand, received>> /\ queue' = queue /\ (rpc' \in Folding <=> rpc \in Folding)
        /\ rres = "Upgraded" \/ rpc \in Dropping => rpc' \in Dropping
    BY <1>31, <1>eff, <1>res, <1>t, ReceiverAsserts DEF Effects, Folding, Dropping,
         AbortDisc
  <2>4. UpInQueue' <=> UpInQueue
    BY <2>1, <2>3, ShapeSame
  <2>5. QED
    BY <2>1, <2>2, <2>3, <2>4, <1>inv DEF UpInv
<1>32. ASSUME due = Null, AbortTake PROVE UpInv'
  <2>1. UNCHANGED <<spc, sop, stok, accepted>>
    BY <1>32 DEF sender, AbortTake
  <2>2. (Finished' <=> Finished) /\ (Linked' <=> Linked)
    BY <2>1, SenderStays DEF Linked
  <2>3. /\ UNCHANGED <<hand, received>> /\ queue' = queue /\ (rpc' \in Folding <=> rpc \in Folding)
        /\ rres = "Upgraded" \/ rpc \in Dropping => rpc' \in Dropping
    BY <1>32, <1>eff, <1>res, <1>t, ReceiverAsserts DEF Effects, Folding, Dropping,
         AbortTake, Return
  <2>4. UpInQueue' <=> UpInQueue
    BY <2>1, <2>3, ShapeSame
  <2>5. QED
    BY <2>1, <2>2, <2>3, <2>4, <1>inv DEF UpInv
<1>33. ASSUME due = Null, AbortSpin PROVE UpInv'
  <2>1. UNCHANGED <<spc, sop, stok, accepted>>
    BY <1>33 DEF sender, AbortSpin
  <2>2. (Finished' <=> Finished) /\ (Linked' <=> Linked)
    BY <2>1, SenderStays DEF Linked
  <2>3. /\ UNCHANGED <<hand, received>> /\ queue' = queue /\ (rpc' \in Folding <=> rpc \in Folding)
        /\ rres = "Upgraded" \/ rpc \in Dropping => rpc' \in Dropping
    BY <1>33, <1>eff, <1>res, <1>t, ReceiverAsserts DEF Effects, Folding, Dropping,
         AbortSpin
  <2>4. UpInQueue' <=> UpInQueue
    BY <2>1, <2>3, ShapeSame
  <2>5. QED
    BY <2>1, <2>2, <2>3, <2>4, <1>inv DEF UpInv
<1>34. ASSUME due = Null, AbortPeek PROVE UpInv'
  <2>1. UNCHANGED <<spc, sop, stok, accepted>>
    BY <1>34 DEF sender, AbortPeek
  <2>2. (Finished' <=> Finished) /\ (Linked' <=> Linked)
    BY <2>1, SenderStays DEF Linked
  <2>3. rpc = "abortpeek" /\ rpc \notin Dropping /\ rpc \notin Folding /\ hand = None /\ hand' = hand
    BY <1>34, Shape DEF AbortPeek, Dropping, Folding
  <2>4. rres # "Upgraded" /\ (Linked => UpInQueue) /\ rpc' \notin Folding /\ hand' # GoUp
    BY <1>34, <2>3, <1>res, <1>inv DEF UpInv, None, GoUp, AbortPeek, Folding
  <2>5. CASE HasData /\ FrontValue = GoUp
    <3>1. PopEffect /\ Len(queue) > 0 /\ queue[1] = GoUp /\ rres' = "Upgraded"
      BY <1>34, <2>5, <1>eff DEF AbortPeek, TakeGoUp, Effects, Elements
    <3>2. ~UpInQueue'
      BY <2>1, <3>1, <1>eff, ShapePop
    <3>3. QED
      BY <2>3, <2>4, <3>1, <3>2 DEF UpInv
  <2>6. CASE ~(HasData /\ FrontValue = GoUp)
    <3>1. queue' = queue
      BY <1>34, <2>6, <1>eff DEF AbortPeek, TakeGoUp, Effects
    <3>2. UpInQueue' <=> UpInQueue
      BY <2>1, <3>1, ShapeSame
    <3>3. QED
      BY <2>2, <2>3, <2>4, <3>2, <1>inv DEF UpInv
  <2>7. QED
    BY <2>5, <2>6
<1>35. ASSUME due = Null, DropPort PROVE UpInv'
  <2>1. UNCHANGED <<spc, sop, stok, accepted>>
    BY <1>35 DEF sender, DropPort
  <2>2. (Finished' <=> Finished) /\ (Linked' <=> Linked)
    BY <2>1, SenderStays DEF Linked
  <2>3. /\ UNCHANGED <<hand, received>> /\ queue' = queue /\ (rpc' \in Folding <=> rpc \in Folding)
        /\ rres = "Upgraded" \/ rpc \in Dropping => rpc' \in Dropping
    BY <1>35, <1>eff, <1>res, <1>t, ReceiverAsserts DEF Effects, Folding, Dropping,
         DropPort
  <2>4. UpInQueue' <=> UpInQueue
    BY <2>1, <2>3, ShapeSame
  <2>5. QED
    BY <2>1, <2>2, <2>3, <2>4, <1>inv DEF UpInv
<1>36. ASSUME due = Null, DropCas PROVE UpInv'
  <2>1. UNCHANGED <<spc, sop, stok, accepted>>
    BY <1>36 DEF sender, DropCas
  <2>2. (Finished' <=> Finished) /\ (Linked' <=> Linked)
    BY <2>1, SenderStays DEF Linked
  <2>3. /\ UNCHANGED <<hand, received>> /\ queue' = queue /\ (rpc' \in Folding <=> rpc \in Folding)
        /\ rres = "Upgraded" \/ rpc \in Dropping => rpc' \in Dropping
    BY <1>36, <1>eff, <1>res, <1>t, ReceiverAsserts DEF Effects, Folding, Dropping, DropCas
  <2>4. UpInQueue' <=> UpInQueue
    BY <2>1, <2>3, ShapeSame
  <2>5. QED
    BY <2>1, <2>2, <2>3, <2>4, <1>inv DEF UpInv
<1>37. ASSUME due = Null, DropDrain PROVE UpInv'
  <2>1. UNCHANGED <<spc, sop, stok, accepted>>
    BY <1>37 DEF sender, DropDrain
  <2>2. (Finished' <=> Finished) /\ (Linked' <=> Linked)
    BY <2>1, SenderStays DEF Linked
  <2>3. rpc = "dropdrain" /\ hand' = hand /\ rpc' \in {"dropcas", "dropdrain"}
    BY <1>37 DEF DropDrain
  <2>4. rpc' \in Dropping /\ rpc' \notin Folding /\ hand' = None /\ hand' # GoUp
    BY <2>3, <1>inv DEF Dropping, Folding, UpInv, None, GoUp
  <2>5. UpInQueue' => UpInQueue
    <3>1. CASE HasData
      <4>1. PopEffect /\ Len(queue) > 0
        BY <1>37, <3>1, <1>eff DEF DropDrain, Effects, Elements
      <4>2. QED
        BY <2>1, <4>1, <1>eff, ShapePop
    <3>2. CASE ~HasData
      <4>1. queue' = queue
        BY <1>37, <3>2, <1>eff DEF DropDrain, Effects
      <4>2. QED
        BY <2>1, <4>1, ShapeSame
    <3>3. QED
      BY <3>1, <3>2
  <2>6. QED
    BY <2>2, <2>4, <2>5, <1>inv DEF UpInv
<1>38. CASE Terminated
  BY <1>38, <1>same, <1>eff DEF Terminated, vars, sender, receiver, Effects
<1>39. QED
  BY <1>1, <1>2, <1>3, <1>4, <1>5, <1>6, <1>7, <1>8, <1>9, <1>10, <1>11, <1>12, <1>13,
       <1>14, <1>15, <1>16, <1>17, <1>18, <1>19, <1>20, <1>21, <1>22, <1>23, <1>24, <1>25,
       <1>26, <1>27, <1>28, <1>29, <1>30, <1>31, <1>32, <1>33, <1>34, <1>35, <1>36, <1>37,
       <1>38 DEF Next, SenderStep, ReceiverStep

\* A receiver told of the end, or handed the upgrade, has received everything.
LEMMA EndInvStep ==
  ASSUME IInv, Next
  PROVE  EndInv'
<1>eff. Effects
  BY QueueEffects
<1>inv. EndInv
  BY DEF IInv
<1>t. Len(queue) \in Nat
  BY Types
<1>op. (spc \in {"inherited", "gone"} => sop = "drop")
  BY DEF IInv, OpInv
<1>res. rpc \in TryLocs \cup Block \cup {"can", "decr", "cancel", "abortpeek"} => rres \in {"none", "ready"}
  BY DEF IInv, ResultInv
<1>same. ASSUME UNCHANGED <<spc, sop, rpc, rres, queue, destroyed, received, accepted>> PROVE EndInv'
  BY <1>same, <1>inv DEF EndInv, Finished
<1>1. ASSUME
       EndPop
       PROVE  EndInv'
  BY <1>1, <1>same, <1>eff DEF EndPop, sender, receiver, Effects
<1>2. ASSUME SenderCall PROVE EndInv'
  <2>1. UNCHANGED <<rpc, rres, received, accepted, destroyed>> /\ queue' = queue
    BY <1>2, <1>eff DEF Effects, SenderCall, receiver
  <2>2. QED
    BY <2>1, <1>inv, SenderMoves DEF EndInv
<1>3. ASSUME SendCheck PROVE EndInv'
  <2>1. UNCHANGED <<rpc, rres, received, accepted, destroyed>> /\ queue' = queue
    BY <1>3, <1>eff DEF Effects, SendCheck, receiver
  <2>2. QED
    BY <2>1, <1>inv, SenderMoves DEF EndInv
<1>4. ASSUME SendPush PROVE EndInv'
  <2>1. UNCHANGED <<rpc, rres, received, accepted, destroyed>> /\ queue' = queue
    BY <1>4, <1>eff DEF Effects, SendPush, receiver
  <2>2. QED
    BY <2>1, <1>inv, SenderMoves DEF EndInv
<1>5. ASSUME SendLink PROVE EndInv'
  <2>1. rres' = rres /\ ~Finished
    BY <1>5, <1>eff, ShapeLink DEF SendLink, receiver
  <2>2. QED
    BY <2>1, <1>inv DEF EndInv
<1>6. ASSUME SendAdd PROVE EndInv'
  <2>1. UNCHANGED <<rpc, rres, received, accepted, destroyed>> /\ queue' = queue
    BY <1>6, <1>eff DEF Effects, SendAdd, receiver
  <2>2. QED
    BY <2>1, <1>inv, SenderMoves DEF EndInv
<1>7. ASSUME SendDisconnected PROVE EndInv'
  <2>1. UNCHANGED <<rpc, rres, received, accepted, destroyed>> /\ queue' = queue
    BY <1>7, <1>eff DEF Effects, SendDisconnected, receiver
  <2>2. QED
    BY <2>1, <1>inv, SenderMoves DEF EndInv
<1>8. ASSUME SendDrain PROVE EndInv'
  <2>1. CASE HasData
    <3>1. rres' = rres /\ Len(queue) > 0
      BY <1>8, <2>1, <1>eff DEF SendDrain, receiver, Effects, Elements
    <3>2. QED
      BY <3>1, <1>inv, <1>t DEF EndInv
  <2>2. CASE ~HasData
    <3>1. UNCHANGED <<rres, received, accepted, destroyed>> /\ queue' = queue /\ rpc' \notin Folding
      BY <1>8, <2>2, <1>eff DEF SendDrain, sender, receiver, Effects, Folding, IInv, GoneInv
    <3>2. QED
      BY <3>1, <1>inv, SenderMoves DEF EndInv
  <2>3. QED
    BY <2>1, <2>2
<1>9. ASSUME TakeLoad PROVE EndInv'
  <2>1. UNCHANGED <<rpc, rres, received, accepted, destroyed>> /\ queue' = queue
    BY <1>9, <1>eff DEF Effects, TakeLoad, receiver
  <2>2. QED
    BY <2>1, <1>inv, SenderMoves DEF EndInv
<1>10. ASSUME TakeClear PROVE EndInv'
  <2>1. UNCHANGED <<rpc, rres, received, accepted, destroyed>> /\ queue' = queue
    BY <1>10, <1>eff DEF Effects, TakeClear, receiver
  <2>2. QED
    BY <2>1, <1>inv, SenderMoves DEF EndInv
<1>11. ASSUME Signal PROVE EndInv'
  <2>1. UNCHANGED <<rpc, rres, received, accepted, destroyed>> /\ queue' = queue
    BY <1>11, <1>eff DEF Effects, Signal, receiver
  <2>2. QED
    BY <2>1, <1>inv, SenderMoves DEF EndInv
<1>12. ASSUME DropChan PROVE EndInv'
  <2>1. UNCHANGED <<rpc, rres, received, accepted, destroyed>> /\ queue' = queue
    BY <1>12, <1>eff DEF Effects, DropChan, receiver
  <2>2. QED
    BY <2>1, <1>inv, SenderMoves DEF EndInv
<1>13. ASSUME due = Null, RecvCall PROVE EndInv'
  <2>1. rres' \notin {"Disconnected", "Upgraded"}
    BY <1>13, <1>res DEF RecvCall, TryLocs, Folding, Block, AbortLocs
  <2>2. QED
    BY <2>1 DEF EndInv
<1>14. ASSUME due = Null, TryPop PROVE EndInv'
  <2>1. UNCHANGED <<spc, sop, accepted, destroyed>> /\ rpc = "try" /\ rpc \notin Dropping
    BY <1>14 DEF TryPop, sender, Dropping
  <2>2. (Finished' <=> Finished) /\ destroyed' = {} /\ Popped = Len(received) + Held
    BY <2>1, SenderStays, Shape
  <2>3. Held = 0 /\ Len(received) = Popped
    BY <2>1, <2>2, Shape DEF Folding
  <2>4. CASE HasData /\ FrontValue = GoUp /\ ~FoldDue
    <3>1. PopEffect /\ Len(queue) > 0 /\ queue[1] = GoUp /\ received' = received /\ rpc' = "hangup"
      BY <1>14, <2>4, <1>eff DEF TryPop, Effects, Elements, Found, Return
    <3>2. Len(queue') = 0 /\ Finished /\ Popped = accepted
      BY <2>1, <3>1, <1>eff, ShapePop, Shape
    <3>3. QED
      BY <2>1, <2>2, <2>3, <3>1, <3>2 DEF EndInv, Folding
  <2>5. CASE ~(HasData /\ FrontValue = GoUp /\ ~FoldDue)
    <3>1. rres' \notin {"Disconnected", "Upgraded"}
      BY <1>14, <2>1, <2>5, <1>res DEF TryPop, Found, Return, TryLocs
    <3>2. QED
      BY <3>1 DEF EndInv
  <2>6. QED
    BY <2>4, <2>5
<1>15. ASSUME due = Null, FoldSwap PROVE EndInv'
  <2>1. rres' \notin {"Disconnected", "Upgraded"}
    BY <1>15, <1>res DEF FoldSwap, TryLocs, Folding, Block, AbortLocs
  <2>2. QED
    BY <2>1 DEF EndInv
<1>16. ASSUME due = Null, FoldBump PROVE EndInv'
  <2>1. rres' \notin {"Disconnected", "Upgraded"}
    BY <1>16, <1>res DEF FoldBump, TryLocs, Folding, Block, AbortLocs
  <2>2. QED
    BY <2>1 DEF EndInv
<1>17. ASSUME due = Null, FoldStore PROVE EndInv'
  <2>1. rres' \notin {"Disconnected", "Upgraded"}
    BY <1>17, <1>res DEF FoldStore, TryLocs, Folding, Block, AbortLocs
  <2>2. QED
    BY <2>1 DEF EndInv
<1>18. ASSUME due = Null, Folded PROVE EndInv'
  <2>1. UNCHANGED <<spc, sop, accepted, destroyed>> /\ rpc = "folded" /\ rpc \notin Dropping
    BY <1>18 DEF Folded, sender, Dropping
  <2>2. (Finished' <=> Finished) /\ destroyed' = {} /\ Popped = Len(received) + Held
    BY <2>1, SenderStays, Shape
  <2>3. CASE hand = GoUp
    <3>1. Finished /\ Len(queue) = 0 /\ Len(received) = accepted
      BY <2>3 DEF IInv, UpInv
    <3>2. queue' = queue /\ received' = received /\ rpc' = "hangup"
      BY <1>18, <2>3, <1>eff DEF Folded, Found, Return, Effects
    <3>3. QED
      BY <2>1, <2>2, <3>1, <3>2 DEF EndInv, Folding
  <2>4. CASE hand # GoUp
    <3>1. rres' = "Ok"
      BY <1>18, <2>4 DEF Folded, Found, Return
    <3>2. QED
      BY <3>1 DEF EndInv
  <2>5. QED
    BY <2>3, <2>4
<1>19. ASSUME due = Null, TryLook PROVE EndInv'
  <2>1. rres' \notin {"Disconnected", "Upgraded"}
    BY <1>19, <1>res DEF TryLook, Nothing, Return, TryLocs, Folding, Block, AbortLocs
  <2>2. QED
    BY <2>1 DEF EndInv
<1>20. ASSUME due = Null, TryAgain PROVE EndInv'
  <2>1. UNCHANGED <<spc, sop, accepted, destroyed>> /\ rpc = "again" /\ rpc \notin Dropping
    BY <1>20 DEF TryAgain, sender, Dropping
  <2>2. (Finished' <=> Finished) /\ destroyed' = {} /\ Popped = Len(received) + Held
    BY <2>1, SenderStays, Shape
  <2>3. Held = 0 /\ Len(received) = Popped
    BY <2>1, <2>2, Shape DEF Folding
  <2>4. CASE HasData /\ FrontValue = GoUp
    <3>1. PopEffect /\ Len(queue) > 0 /\ queue[1] = GoUp /\ received' = received /\ rpc' = "hangup"
      BY <1>20, <2>4, <1>eff DEF TryAgain, Effects, Elements, Found, Return
    <3>2. Len(queue') = 0 /\ Finished /\ Popped = accepted
      BY <2>1, <3>1, <1>eff, ShapePop, Shape
    <3>3. QED
      BY <2>1, <2>2, <2>3, <3>1, <3>2 DEF EndInv, Folding
  <2>5. CASE HasData /\ FrontValue # GoUp
    <3>1. rres' = "Ok"
      BY <1>20, <2>5 DEF TryAgain, Found, Return
    <3>2. QED
      BY <3>1 DEF EndInv
  <2>6. CASE ~HasData
    <3>1. queue' = queue /\ received' = received /\ rpc' = "idle" /\ Len(queue) = 0
      BY <1>20, <2>6, <1>eff DEF TryAgain, Return, Effects, Elements
    <3>2. Finished
      <4>1. Over
        BY <2>1 DEF IInv, OverInv
      <4>2. QED
        BY <4>1, <1>op DEF Over, Finished
    <3>3. Popped = accepted
      BY <3>1, Shape
    <3>4. QED
      BY <2>1, <2>2, <2>3, <3>1, <3>2, <3>3 DEF EndInv, Folding
  <2>7. QED
    BY <2>4, <2>5, <2>6
<1>21. ASSUME due = Null, Decrement PROVE EndInv'
  <2>1. rres' \notin {"Disconnected", "Upgraded"}
    BY <1>21, <1>res DEF Decrement, TryLocs, Folding, Block, AbortLocs
  <2>2. QED
    BY <2>1 DEF EndInv
<1>22. ASSUME due = Null, DecrementSub PROVE EndInv'
  <2>1. rres' \notin {"Disconnected", "Upgraded"}
    BY <1>22, <1>res DEF DecrementSub, TryLocs, Folding, Block, AbortLocs
  <2>2. QED
    BY <2>1 DEF EndInv
<1>23. ASSUME due = Null, DecrementDisc PROVE EndInv'
  <2>1. rres' \notin {"Disconnected", "Upgraded"}
    BY <1>23, <1>res DEF DecrementDisc, TryLocs, Folding, Block, AbortLocs
  <2>2. QED
    BY <2>1 DEF EndInv
<1>24. ASSUME due = Null, DecrementFailed PROVE EndInv'
  <2>1. rres' \notin {"Disconnected", "Upgraded"}
    BY <1>24, <1>res DEF DecrementFailed, TryLocs, Folding, Block, AbortLocs
  <2>2. QED
    BY <2>1 DEF EndInv
<1>25. ASSUME due = Null, WaitDone PROVE EndInv'
  <2>1. rres' \notin {"Disconnected", "Upgraded"}
    BY <1>25, <1>res DEF WaitDone, TryLocs, Folding, Block, AbortLocs
  <2>2. QED
    BY <2>1 DEF EndInv
<1>26. ASSUME due = Null, WaitAborted PROVE EndInv'
  <2>1. rres' \notin {"Disconnected", "Upgraded"}
    BY <1>26, <1>res DEF WaitAborted, TryLocs, Folding, Block, AbortLocs
  <2>2. QED
    BY <2>1 DEF EndInv
<1>27. ASSUME due = Null, CanRecv PROVE EndInv'
  <2>1. rres' \notin {"Disconnected", "Upgraded"}
    BY <1>27, <1>res DEF CanRecv, Return, TryLocs, Folding, Block, AbortLocs
  <2>2. QED
    BY <2>1 DEF EndInv
<1>28. ASSUME due = Null, StartCancel PROVE EndInv'
  <2>1. UNCHANGED <<spc, sop, accepted, destroyed>> /\ rpc = "cancel" /\ rpc \notin Dropping
    BY <1>28 DEF StartCancel, sender, Dropping
  <2>2. (Finished' <=> Finished) /\ destroyed' = {} /\ Popped = Len(received) + Held
    BY <2>1, SenderStays, Shape
  <2>3. Held = 0 /\ Len(received) = Popped
    BY <2>1, <2>2, Shape DEF Folding
  <2>4. CASE HasData /\ FrontValue = GoUp
    <3>1. PopEffect /\ Len(queue) > 0 /\ queue[1] = GoUp /\ received' = received /\ rpc' \in {"hangup", "cancelbump"}
      BY <1>28, <2>4, <1>eff DEF StartCancel, Effects, Elements, TakeGoUp
    <3>2. Len(queue') = 0 /\ Finished /\ Popped = accepted
      BY <2>1, <3>1, <1>eff, ShapePop, Shape
    <3>3. QED
      BY <2>1, <2>2, <2>3, <3>1, <3>2 DEF EndInv, Folding
  <2>5. CASE ~(HasData /\ FrontValue = GoUp)
    <3>1. rres' = "ready"
      BY <1>28, <2>5 DEF StartCancel, TakeGoUp
    <3>2. QED
      BY <3>1 DEF EndInv
  <2>6. QED
    BY <2>4, <2>5
<1>29. ASSUME due = Null, StartCancelBump PROVE EndInv'
  <2>1. UNCHANGED <<rres, received, accepted, destroyed>> /\ queue' = queue /\ rpc' \notin Folding
    BY <1>29, <1>eff DEF Effects, Folding, sender, StartCancelBump
  <2>2. QED
    BY <2>1, <1>inv, SenderMoves DEF EndInv
<1>30. ASSUME due = Null, AbortBump PROVE EndInv'
  <2>1. rres' \notin {"Disconnected", "Upgraded"}
    BY <1>30, <1>res DEF AbortBump, TryLocs, Folding, Block, AbortLocs
  <2>2. QED
    BY <2>1 DEF EndInv
<1>31. ASSUME due = Null, AbortDisc PROVE EndInv'
  <2>1. rres' \notin {"Disconnected", "Upgraded"}
    BY <1>31, <1>res DEF AbortDisc, TryLocs, Folding, Block, AbortLocs
  <2>2. QED
    BY <2>1 DEF EndInv
<1>32. ASSUME due = Null, AbortTake PROVE EndInv'
  <2>1. rres' \notin {"Disconnected", "Upgraded"}
    BY <1>32, <1>res DEF AbortTake, Return, TryLocs, Folding, Block, AbortLocs
  <2>2. QED
    BY <2>1 DEF EndInv
<1>33. ASSUME due = Null, AbortSpin PROVE EndInv'
  <2>1. rres' \notin {"Disconnected", "Upgraded"}
    BY <1>33, <1>res DEF AbortSpin, TryLocs, Folding, Block, AbortLocs
  <2>2. QED
    BY <2>1 DEF EndInv
<1>34. ASSUME due = Null, AbortPeek PROVE EndInv'
  <2>1. UNCHANGED <<spc, sop, accepted, destroyed>> /\ rpc = "abortpeek" /\ rpc \notin Dropping
    BY <1>34 DEF AbortPeek, sender, Dropping
  <2>2. (Finished' <=> Finished) /\ destroyed' = {} /\ Popped = Len(received) + Held
    BY <2>1, SenderStays, Shape
  <2>3. Held = 0 /\ Len(received) = Popped
    BY <2>1, <2>2, Shape DEF Folding
  <2>4. CASE HasData /\ FrontValue = GoUp
    <3>1. PopEffect /\ Len(queue) > 0 /\ queue[1] = GoUp /\ received' = received /\ rpc' \in {"hangup", "cancelbump"}
      BY <1>34, <2>4, <1>eff DEF AbortPeek, Effects, Elements, TakeGoUp
    <3>2. Len(queue') = 0 /\ Finished /\ Popped = accepted
      BY <2>1, <3>1, <1>eff, ShapePop, Shape
    <3>3. QED
      BY <2>1, <2>2, <2>3, <3>1, <3>2 DEF EndInv, Folding
  <2>5. CASE ~(HasData /\ FrontValue = GoUp)
    <3>1. rres' = "ready"
      BY <1>34, <2>5 DEF AbortPeek, TakeGoUp
    <3>2. QED
      BY <3>1 DEF EndInv
  <2>6. QED
    BY <2>4, <2>5
<1>35. ASSUME due = Null, DropPort PROVE EndInv'
  <2>1. UNCHANGED <<rres, received, accepted, destroyed>> /\ queue' = queue /\ rpc' \notin Folding
    BY <1>35, <1>eff DEF Effects, Folding, sender, DropPort
  <2>2. QED
    BY <2>1, <1>inv, SenderMoves DEF EndInv
<1>36. ASSUME due = Null, DropCas PROVE EndInv'
  <2>1. UNCHANGED <<rres, received, accepted, destroyed>> /\ queue' = queue /\ rpc' \notin Folding
    BY <1>36, <1>eff DEF Effects, Folding, sender, DropCas
  <2>2. QED
    BY <2>1, <1>inv, SenderMoves DEF EndInv
<1>37. ASSUME due = Null, DropDrain PROVE EndInv'
  <2>1. CASE HasData
    <3>1. rres' = rres /\ Len(queue) > 0
      BY <1>37, <2>1, <1>eff DEF DropDrain, receiver, Effects, Elements
    <3>2. QED
      BY <3>1, <1>inv, <1>t DEF EndInv
  <2>2. CASE ~HasData
    <3>1. UNCHANGED <<rres, received, accepted, destroyed>> /\ queue' = queue /\ rpc' \notin Folding
      BY <1>37, <2>2, <1>eff DEF DropDrain, sender, receiver, Effects, Folding, IInv, GoneInv
    <3>2. QED
      BY <3>1, <1>inv, SenderMoves DEF EndInv
  <2>3. QED
    BY <2>1, <2>2
<1>38. CASE Terminated
  BY <1>38, <1>same, <1>eff DEF Terminated, vars, sender, receiver, Effects
<1>39. QED
  BY <1>1, <1>2, <1>3, <1>4, <1>5, <1>6, <1>7, <1>8, <1>9, <1>10, <1>11, <1>12, <1>13,
       <1>14, <1>15, <1>16, <1>17, <1>18, <1>19, <1>20, <1>21, <1>22, <1>23, <1>24, <1>25,
       <1>26, <1>27, <1>28, <1>29, <1>30, <1>31, <1>32, <1>33, <1>34, <1>35, <1>36, <1>37,
       <1>38 DEF Next, SenderStep, ReceiverStep

-----------------------------------------------------------------------------
(* The order of the messages                                               *)

\* What becomes of a message.
LEMMA Fates ==
  ASSUME IInv
  PROVE  /\ UNCHANGED <<received, hand>> /\ destroyed' \ {GoUp} = destroyed \ {GoUp} /\ Popped' = Popped
              => Settled'
         /\ UNCHANGED <<received, destroyed>> /\ hand = GoUp /\ hand' = None /\ Popped' = Popped => Settled'
         /\ UNCHANGED <<received, destroyed>> /\ Held = 0 /\ hand' = GoUp /\ Popped' = Popped => Settled'
         /\ UNCHANGED <<received, hand>> /\ Held = 0 /\
              destroyed' = destroyed \cup {Popped + 1} /\ Popped' = Popped + 1
              => Settled'
         /\ UNCHANGED <<received, destroyed>> /\ rpc \notin Dropping /\ Held = 0 /\
              hand' = Popped + 1 /\ Popped' = Popped + 1
              => Settled'
         /\ UNCHANGED <<hand, destroyed>> /\ rpc \notin Dropping /\ Held = 0 /\
              received' = Append(received, Popped + 1) /\ Popped' = Popped + 1
              => Settled'
         /\ UNCHANGED destroyed /\ rpc \notin Dropping /\ Held = 1 /\ hand' = None /\
              received' = Append(received, hand) /\ Popped' = Popped
              => Settled'
<1>t. /\ Popped \in Nat /\ Held \in {0, 1} /\ Len(received) \in Nat /\ received \in Seq(Nat)
      /\ destroyed \subseteq Nat /\ hand \in Int
      /\ rpc \notin Dropping => destroyed = {} /\ Popped = Len(received) + Held
  BY Shape DEF IInv, TypeInv, QueueTypes
<1>inv. Settled
  BY OrderParts DEF IInv
<1>1. ASSUME UNCHANGED <<received, hand>>, destroyed' \ {GoUp} = destroyed \ {GoUp}, Popped' = Popped
      PROVE  Settled'
  <2>1. Held' = Held
    BY <1>1 DEF Held
  <2>2. QED
    BY <1>1, <2>1, <1>inv DEF Settled
<1>2. ASSUME UNCHANGED <<received, destroyed>>, hand = GoUp, hand' = None, Popped' = Popped
      PROVE  Settled'
  <2>1. Held' = 0 /\ Held = 0
    BY <1>2 DEF Held
  <2>2. QED
    BY <1>2, <2>1, <1>inv DEF Settled
<1>3. ASSUME UNCHANGED <<received, destroyed>>, Held = 0, hand' = GoUp, Popped' = Popped
      PROVE  Settled'
  <2>1. Held' = 0
    BY <1>3 DEF Held
  <2>2. QED
    BY <1>3, <2>1, <1>inv DEF Settled
<1>4. ASSUME UNCHANGED <<received, hand>>, Held = 0,
             destroyed' = destroyed \cup {Popped + 1}, Popped' = Popped + 1
      PROVE  Settled'
  <2>1. Held' = 0
    BY <1>4 DEF Held
  <2>2. Len(received) + 0 <= Popped /\ destroyed \ {GoUp} = (Len(received) + 0 + 1)..Popped
    BY <1>4, <1>inv DEF Settled
  <2>3. destroyed' \ {GoUp} = (destroyed \ {GoUp}) \cup {Popped + 1}
    BY <1>4, <1>t DEF GoUp
  <2>4. ((Len(received) + 0 + 1)..Popped) \cup {Popped + 1} = (Len(received) + 0 + 1)..(Popped + 1)
    BY <2>2, <1>t
  <2>5. destroyed' \ {GoUp} = (Len(received) + 0 + 1)..(Popped + 1)
    BY <2>2, <2>3, <2>4
  <2>6. Len(received) + 0 <= Popped + 1
    BY <2>2, <1>t
  <2>7. QED
    BY <1>4, <2>1, <2>5, <2>6, <1>inv DEF Settled
<1>5. ASSUME UNCHANGED <<received, destroyed>>, rpc \notin Dropping, Held = 0,
             hand' = Popped + 1, Popped' = Popped + 1
      PROVE  Settled'
  <2>1. Held' = 1
    BY <1>5, <1>t DEF Held, None, GoUp
  <2>2. Popped = Len(received) /\ destroyed = {}
    BY <1>5, <1>t
  <2>3. (Len(received) + 1 + 1)..(Popped + 1) = {}
    BY <2>2, <1>t
  <2>4. destroyed' \ {GoUp} = (Len(received) + 1 + 1)..(Popped + 1)
    BY <1>5, <2>2, <2>3
  <2>5. Len(received) + 1 <= Popped + 1
    BY <2>2, <1>t
  <2>6. QED
    BY <1>5, <2>1, <2>2, <2>4, <2>5, <1>inv DEF Settled
<1>app. ASSUME NEW x \in Nat, received' = Append(received, x), x = Len(received) + 1
        PROVE  Len(received') = x /\ \A i \in 1..Len(received') : received'[i] = i
  <2>1. /\ Len(Append(received, x)) = Len(received) + 1 /\ Append(received, x)[Len(received) + 1] = x
        /\ \A i \in 1..Len(received) : Append(received, x)[i] = received[i]
    BY <1>t, <1>app
  <2>2. \A i \in 1..Len(received) : received[i] = i
    BY <1>inv DEF Settled
  <2>3. QED
    BY <2>1, <2>2, <1>t, <1>app
<1>6. ASSUME UNCHANGED <<hand, destroyed>>, rpc \notin Dropping, Held = 0,
             received' = Append(received, Popped + 1), Popped' = Popped + 1
      PROVE  Settled'
  <2>1. Held' = 0
    BY <1>6 DEF Held
  <2>2. Popped = Len(received) /\ destroyed = {} /\ Popped + 1 \in Nat
    BY <1>6, <1>t
  <2>3. Len(received') = Popped + 1 /\ \A i \in 1..Len(received') : received'[i] = i
    BY <1>6, <2>2, <1>app
  <2>4. (Popped + 1 + 0 + 1)..(Popped + 1) = {} /\ Popped + 1 + 0 <= Popped + 1
    BY <1>t
  <2>5. destroyed' \ {GoUp} = (Len(received') + 0 + 1)..(Popped + 1)
    BY <1>6, <2>2, <2>3, <2>4
  <2>6. QED
    BY <1>6, <2>1, <2>3, <2>4, <2>5 DEF Settled
<1>7. ASSUME UNCHANGED destroyed, rpc \notin Dropping, Held = 1, hand' = None,
             received' = Append(received, hand), Popped' = Popped
      PROVE  Settled'
  <2>1. Held' = 0
    BY <1>7 DEF Held
  <2>2. Popped = Len(received) + 1 /\ destroyed = {} /\ hand = Popped /\ hand = Len(received) + 1
    BY <1>7, <1>t, <1>inv DEF Settled
  <2>3. Len(received') = Popped /\ \A i \in 1..Len(received') : received'[i] = i
    BY <1>7, <2>2, <1>t, <1>app
  <2>4. (Popped + 0 + 1)..Popped = {} /\ Popped + 0 <= Popped
    BY <1>t
  <2>5. destroyed' \ {GoUp} = (Len(received') + 0 + 1)..Popped
    BY <1>7, <2>2, <2>3, <2>4
  <2>6. QED
    BY <1>7, <2>1, <2>3, <2>4, <2>5 DEF Settled
<1>11. UNCHANGED <<received, hand>> /\ destroyed' \ {GoUp} = destroyed \ {GoUp} /\ Popped' = Popped
      => Settled'
  BY <1>1
<1>12. UNCHANGED <<received, destroyed>> /\ hand = GoUp /\ hand' = None /\ Popped' = Popped => Settled'
  BY <1>2
<1>13. UNCHANGED <<received, destroyed>> /\ Held = 0 /\ hand' = GoUp /\ Popped' = Popped => Settled'
  BY <1>3
<1>14. UNCHANGED <<received, hand>> /\ Held = 0 /\
      destroyed' = destroyed \cup {Popped + 1} /\ Popped' = Popped + 1
      => Settled'
  BY <1>4
<1>15. UNCHANGED <<received, destroyed>> /\ rpc \notin Dropping /\ Held = 0 /\
      hand' = Popped + 1 /\ Popped' = Popped + 1
      => Settled'
  BY <1>5
<1>16. UNCHANGED <<hand, destroyed>> /\ rpc \notin Dropping /\ Held = 0 /\
      received' = Append(received, Popped + 1) /\ Popped' = Popped + 1
      => Settled'
  BY <1>6
<1>17. UNCHANGED destroyed /\ rpc \notin Dropping /\ Held = 1 /\ hand' = None /\
      received' = Append(received, hand) /\ Popped' = Popped
      => Settled'
  BY <1>7
<1>8. QED
  BY <1>11, <1>12, <1>13, <1>14, <1>15, <1>16, <1>17

\* Messages are taken off in the order they were sent, and none is lost.
LEMMA OrderInvStep ==
  ASSUME IInv, Next
  PROVE  OrderInv'
<1>eff. Effects
  BY QueueEffects
<1>kept. ASSUME UNCHANGED <<received, hand, accepted, destroyed>>, queue' = queue
         PROVE  OrderInv'
  <2>1. Lined' /\ Popped' = Popped
    BY <1>kept, ShapeSame
  <2>2. Settled'
    BY <1>kept, <2>1, Fates
  <2>3. QED
    BY <2>1, <2>2, OrderParts
<1>up. UpInv
  BY DEF IInv
<1>same. ASSUME UNCHANGED <<received, hand, destroyed, accepted, queue>> PROVE OrderInv'
  BY <1>same, <1>kept DEF OrderInv
<1>1. ASSUME
       SenderCall \/ SendCheck \/ SendPush \/ SendAdd \/ SendDisconnected \/ TakeLoad \/
       TakeClear \/ Signal \/ DropChan \/ EndPop
       PROVE  OrderInv'
  BY <1>1, <1>same, <1>eff DEF SenderCall, receiver, SendCheck, SendPush, SendAdd,
       SendDisconnected, TakeLoad, TakeClear, Signal, DropChan, EndPop, sender, Effects
<1>2. ASSUME SendLink PROVE OrderInv'
  <2>1. UNCHANGED <<received, hand, destroyed>>
    BY <1>2 DEF SendLink, receiver
  <2>2. Lined' /\ Popped' = Popped
    BY <1>2, <1>eff, ShapeLink
  <2>3. QED
    BY <2>1, <2>2, Fates, OrderParts
<1>3. ASSUME SendDrain PROVE OrderInv'
  <2>1. UNCHANGED <<received, hand, accepted>> /\ rpc \notin Folding
    BY <1>3 DEF SendDrain, receiver, sender, Folding, IInv, GoneInv
  <2>2. CASE HasData
    <3>1. PopEffect /\ Len(queue) > 0 /\ FrontValue = queue[1] /\ accepted' = accepted
      BY <1>3, <2>2, <1>eff DEF SendDrain, Effects, Elements, sender
    <3>2. /\ Lined' /\ (queue[1] = GoUp => Popped' = Popped)
          /\ queue[1] # GoUp => Popped' = Popped + 1 /\ queue[1] = Popped + 1
      BY <3>1, <1>eff, ShapePop, Shape
    <3>3. destroyed' = destroyed \cup {queue[1]} /\ Held = 0
      BY <1>3, <2>1, <2>2, <3>1, Shape DEF SendDrain
    <3>4. queue[1] = GoUp => destroyed' \ {GoUp} = destroyed \ {GoUp}
      BY <3>3
    <3>5. QED
      BY <2>1, <3>2, <3>3, <3>4, Fates, OrderParts
  <2>3. CASE ~HasData
    <3>1. queue' = queue /\ destroyed' = destroyed
      BY <1>3, <2>3, <1>eff DEF SendDrain, Effects
    <3>2. QED
      BY <2>1, <3>1, <1>kept
  <2>4. QED
    BY <2>2, <2>3
<1>4. ASSUME
       RecvCall \/ FoldSwap \/ FoldBump \/ FoldStore \/ TryLook \/ Decrement \/
       DecrementSub \/ DecrementDisc \/ DecrementFailed \/ WaitDone \/ WaitAborted \/
       CanRecv \/ StartCancelBump \/ AbortBump \/ AbortDisc \/ AbortTake \/ AbortSpin \/
       DropPort \/ DropCas
       PROVE  OrderInv'
  BY <1>4, <1>same, <1>eff DEF RecvCall, sender, FoldSwap, FoldBump, FoldStore, TryLook,
       Decrement, DecrementSub, DecrementDisc, DecrementFailed, WaitDone, WaitAborted,
       CanRecv, StartCancelBump, AbortBump, AbortDisc, AbortTake, AbortSpin, DropPort,
       DropCas, Effects
<1>5. ASSUME due = Null, TryPop PROVE OrderInv'
  <2>1. destroyed' = destroyed /\ rpc \notin Folding /\ rpc \notin Dropping
    BY <1>5 DEF TryPop, Folding, Dropping
  <2>2. CASE ~HasData
    <3>1. queue' = queue /\ UNCHANGED <<received, hand, accepted>>
      BY <1>5, <2>2, <1>eff DEF TryPop, Effects, sender
    <3>2. QED
      BY <2>1, <3>1, <1>kept
  <2>3. CASE HasData
    <3>1. PopEffect /\ Len(queue) > 0 /\ FrontValue = queue[1] /\ accepted' = accepted
      BY <1>5, <2>3, <1>eff DEF TryPop, Effects, Elements, sender
    <3>2. /\ Lined' /\ (queue[1] = GoUp => Popped' = Popped)
          /\ queue[1] # GoUp => Popped' = Popped + 1 /\ queue[1] = Popped + 1
      BY <3>1, <1>eff, ShapePop, Shape
    <3>3. Held = 0
      BY <2>1, Shape
    <3>4. CASE FoldDue
      <4>1. received' = received /\ hand' = queue[1]
        BY <1>5, <2>3, <3>1, <3>4 DEF TryPop
      <4>2. Settled'
        <5>1. CASE queue[1] = GoUp
          BY <2>1, <3>2, <3>3, <4>1, <5>1, Fates
        <5>2. CASE queue[1] # GoUp
          BY <2>1, <3>2, <3>3, <4>1, <5>2, Fates
        <5>3. QED
          BY <5>1, <5>2
      <4>3. QED
        BY <3>2, <4>2, OrderParts
    <3>5. CASE ~FoldDue
      <4>1. hand' = hand /\ received' = IF queue[1] = GoUp THEN received ELSE Append(received, queue[1])
        BY <1>5, <2>3, <3>1, <3>5 DEF TryPop, Found
      <4>2. Settled'
        <5>1. CASE queue[1] = GoUp
          BY <2>1, <3>2, <3>3, <4>1, <5>1, Fates
        <5>2. CASE queue[1] # GoUp
          BY <2>1, <3>2, <3>3, <4>1, <5>2, Fates
        <5>3. QED
          BY <5>1, <5>2
      <4>3. QED
        BY <3>2, <4>2, OrderParts
    <3>6. QED
      BY <3>4, <3>5
  <2>4. QED
    BY <2>2, <2>3
<1>6. ASSUME due = Null, Folded PROVE OrderInv'
  <2>1. /\ UNCHANGED <<destroyed, accepted>> /\ queue' = queue /\ hand' = None /\ rpc = "folded"
        /\ received' = IF hand = GoUp THEN received ELSE Append(received, hand)
    BY <1>6, <1>eff DEF Folded, Found, Effects, sender
  <2>2. Lined' /\ Popped' = Popped
    BY <2>1, ShapeSame
  <2>3. rpc \notin Dropping /\ hand # None /\ (hand # GoUp => Held = 1)
    BY <2>1, <1>up DEF Dropping, Folding, UpInv, Held
  <2>4. Settled'
    <3>1. CASE hand = GoUp
      BY <2>1, <2>2, <3>1, Fates
    <3>2. CASE hand # GoUp
      BY <2>1, <2>2, <2>3, <3>2, Fates
    <3>3. QED
      BY <3>1, <3>2
  <2>5. QED
    BY <2>2, <2>4, OrderParts
<1>7. ASSUME due = Null, TryAgain PROVE OrderInv'
  <2>1. UNCHANGED <<destroyed, hand>> /\ rpc \notin Folding /\ rpc \notin Dropping
    BY <1>7 DEF TryAgain, Folding, Dropping
  <2>2. CASE ~HasData
    <3>1. queue' = queue /\ UNCHANGED <<received, accepted>>
      BY <1>7, <2>2, <1>eff DEF TryAgain, Effects, sender
    <3>2. QED
      BY <2>1, <3>1, <1>kept
  <2>3. CASE HasData
    <3>1. PopEffect /\ Len(queue) > 0 /\ FrontValue = queue[1] /\ accepted' = accepted
      BY <1>7, <2>3, <1>eff DEF TryAgain, Effects, Elements, sender
    <3>2. /\ Lined' /\ (queue[1] = GoUp => Popped' = Popped)
          /\ queue[1] # GoUp => Popped' = Popped + 1 /\ queue[1] = Popped + 1
      BY <3>1, <1>eff, ShapePop, Shape
    <3>3. Held = 0
      BY <2>1, Shape
    <3>4. received' = IF queue[1] = GoUp THEN received ELSE Append(received, queue[1])
      BY <1>7, <2>3, <3>1 DEF TryAgain, Found
    <3>5. Settled'
      <4>1. CASE queue[1] = GoUp
        BY <2>1, <3>2, <3>3, <3>4, <4>1, Fates
      <4>2. CASE queue[1] # GoUp
        BY <2>1, <3>2, <3>3, <3>4, <4>2, Fates
      <4>3. QED
        BY <4>1, <4>2
    <3>6. QED
      BY <3>2, <3>5, OrderParts
  <2>4. QED
    BY <2>2, <2>3
<1>8. ASSUME due = Null, StartCancel PROVE OrderInv'
  <2>1. UNCHANGED <<received, hand, accepted, destroyed>>
    BY <1>8 DEF sender, StartCancel
  <2>2. CASE HasData /\ FrontValue = GoUp
    <3>1. PopEffect /\ Len(queue) > 0 /\ FrontValue = queue[1] /\ accepted' = accepted
      BY <1>8, <2>2, <1>eff DEF StartCancel, Effects, Elements, sender, TakeGoUp
    <3>2. /\ Lined' /\ (queue[1] = GoUp => Popped' = Popped)
          /\ queue[1] # GoUp => Popped' = Popped + 1 /\ queue[1] = Popped + 1
      BY <3>1, <1>eff, ShapePop, Shape
    <3>3. QED
      BY <2>1, <2>2, <3>1, <3>2, Fates, OrderParts
  <2>3. CASE ~(HasData /\ FrontValue = GoUp)
    <3>1. queue' = queue
      BY <1>8, <2>3, <1>eff DEF StartCancel, TakeGoUp, Effects
    <3>2. QED
      BY <2>1, <3>1, <1>kept
  <2>4. QED
    BY <2>2, <2>3
<1>9. ASSUME due = Null, AbortPeek PROVE OrderInv'
  <2>1. UNCHANGED <<received, hand, accepted, destroyed>>
    BY <1>9 DEF sender, AbortPeek
  <2>2. CASE HasData /\ FrontValue = GoUp
    <3>1. PopEffect /\ Len(queue) > 0 /\ FrontValue = queue[1] /\ accepted' = accepted
      BY <1>9, <2>2, <1>eff DEF AbortPeek, Effects, Elements, sender, TakeGoUp
    <3>2. /\ Lined' /\ (queue[1] = GoUp => Popped' = Popped)
          /\ queue[1] # GoUp => Popped' = Popped + 1 /\ queue[1] = Popped + 1
      BY <3>1, <1>eff, ShapePop, Shape
    <3>3. QED
      BY <2>1, <2>2, <3>1, <3>2, Fates, OrderParts
  <2>3. CASE ~(HasData /\ FrontValue = GoUp)
    <3>1. queue' = queue
      BY <1>9, <2>3, <1>eff DEF AbortPeek, TakeGoUp, Effects
    <3>2. QED
      BY <2>1, <3>1, <1>kept
  <2>4. QED
    BY <2>2, <2>3
<1>10. ASSUME due = Null, DropDrain PROVE OrderInv'
  <2>1. UNCHANGED <<received, hand, accepted>> /\ rpc \notin Folding
    BY <1>10 DEF DropDrain, receiver, sender, Folding, IInv, GoneInv
  <2>2. CASE HasData
    <3>1. PopEffect /\ Len(queue) > 0 /\ FrontValue = queue[1] /\ accepted' = accepted
      BY <1>10, <2>2, <1>eff DEF DropDrain, Effects, Elements, sender
    <3>2. /\ Lined' /\ (queue[1] = GoUp => Popped' = Popped)
          /\ queue[1] # GoUp => Popped' = Popped + 1 /\ queue[1] = Popped + 1
      BY <3>1, <1>eff, ShapePop, Shape
    <3>3. destroyed' = destroyed \cup {queue[1]} /\ Held = 0
      BY <1>10, <2>1, <2>2, <3>1, Shape DEF DropDrain
    <3>4. queue[1] = GoUp => destroyed' \ {GoUp} = destroyed \ {GoUp}
      BY <3>3
    <3>5. QED
      BY <2>1, <3>2, <3>3, <3>4, Fates, OrderParts
  <2>3. CASE ~HasData
    <3>1. queue' = queue /\ destroyed' = destroyed
      BY <1>10, <2>3, <1>eff DEF DropDrain, Effects
    <3>2. QED
      BY <2>1, <3>1, <1>kept
  <2>4. QED
    BY <2>2, <2>3
<1>11. CASE Terminated
  BY <1>11, <1>same, <1>eff DEF Terminated, vars, sender, receiver, Effects
<1>12. QED
  BY <1>1, <1>2, <1>3, <1>4, <1>5, <1>6, <1>7, <1>8, <1>9, <1>10, <1>11 DEF Next,
       SenderStep, ReceiverStep

-----------------------------------------------------------------------------
(* The invariant, and the properties that follow                           *)

\* A new packet is empty, and nobody is anywhere.
LEMMA InitIInv == Init => IInv
<1>1. SUFFICES ASSUME Init PROVE IInv
  OBVIOUS
<1>2. SpscInv /\ queue = <<>> /\ fresh = Null
  BY <1>1, QueueInit DEF Init
<1>3. /\ cnt = 0 /\ toWake = 0 /\ steals = 0 /\ woken = {} /\ freed = [t \in Tokens |-> 0]
      /\ spc = "idle" /\ sop = "send" /\ stok = 0 /\ rpc = "idle" /\ rmode = "try" /\ rtok = 0
      /\ hand = None /\ local = 0 /\ rres = "none" /\ aborted = "none" /\ sent = 0 /\ blocks = 0
      /\ accepted = 0 /\ received = <<>> /\ destroyed = {}
  BY <1>1 DEF Init, NoToken
<1>f. ~final /\ final \in BOOLEAN /\ portDropped \in BOOLEAN
  BY <1>1, Zenon DEF Init
<1>q. Len(queue) = 0 /\ Len(received) = 0 /\ received \in Seq(Nat)
  BY <1>2, <1>3
<1>4. TypeInv
  <2>1. QueueTypes /\ TokenTypes
    BY <1>3, <1>q DEF QueueTypes, TokenTypes, None
  <2>2. CountTypes
    <3>1. cnt \in DISCONNECTED..ISIZE_MAX /\ steals \in Int /\ local \in Int
      BY <1>3, Bounds
    <3>2. QED
      BY <3>1, <1>f DEF CountTypes
  <2>3. CallTypes
    <3>1. /\ rmode \in {"recv", "timeout", "try", "select"} /\ aborted \in {"none", "select", "timeout"}
          /\ sop \in {"send", "clone", "drop"}
          /\ rres \in {"none", "Ok", "Empty", "Disconnected", "Upgraded", "ready", "unready"}
      BY <1>3
    <3>2. QED
      BY <3>1, <1>f DEF CallTypes
  <2>4. LocTypes
    BY <1>3 DEF LocTypes, SenderLocs, ReceiverLocs
  <2>5. QED
    BY <2>1, <2>2, <2>3, <2>4 DEF TypeInv
<1>5. PushInv /\ OpInv
  BY <1>2, <1>3 DEF PushInv, OpInv
<1>o. ~Over /\ ~Finished /\ Uncounted = 0 /\ ~UpInQueue /\ Held = 0 /\ Msgs = 0
  <2>1. ~Over /\ ~Finished /\ Uncounted = 0 /\ ~UpInQueue /\ Held = 0
    BY <1>3, <1>q DEF Over, Finished, Uncounted, UpInQueue, Held
  <2>2. Msgs = Len(queue) - 0
    BY <2>1 DEF Msgs
  <2>3. QED
    BY <2>1, <2>2, <1>q
<1>6. OrderInv
  <2>1. Popped = 0
    BY <1>3, <1>o DEF Popped
  <2>2. (0 + 0 + 1)..0 = {} /\ \A i \in 1..0 : FALSE
    OBVIOUS
  <2>3. QED
    BY <2>1, <2>2, <1>3, <1>o, <1>q DEF OrderInv
<1>7. UpInv /\ DestroyedInv /\ EndInv /\ ResultInv
  BY <1>3, <1>o, <1>q DEF UpInv, DestroyedInv, EndInv, ResultInv, Folding, Linked, NoToken, None, GoUp,
     TryLocs, Block, AbortLocs, Dropping
<1>8. OverInv /\ GoneInv
  BY <1>3, <1>o DEF OverInv, GoneInv, Mid
<1>9. BalanceInv
  <2>1. Stolen = 0
    <3>1. Stolen = steals - 0
      BY <1>f DEF Stolen
    <3>2. QED
      BY <3>1, <1>3
  <2>2. Extra = 0
    BY <2>1, <1>3 DEF Extra
  <2>3. Due = 0 /\ ~Spare
    BY <2>2, <1>o, <1>q, <1>f DEF Due, Spare
  <2>4. QED
    BY <2>3, <1>3 DEF BalanceInv
<1>10. LimitInv
  <2>1. Limit = 0
    BY <1>3, <1>o DEF Limit
  <2>2. QED
    BY <2>1, <1>3 DEF LimitInv
<1>11. SendsInv /\ BlocksInv
  BY <1>3, Bounds DEF SendsInv, BlocksInv, TryLocs, Folding
<1>12. StealsInv
  BY <1>3, <1>f, Bounds DEF StealsInv, Block, AbortLocs, Folding
<1>13. FreedInv
  <2>1. \A t \in Tokens : freed[t] = 0
    BY <1>3
  <2>2. \A t \in 1..blocks : FALSE
    BY <1>3
  <2>3. QED
    BY <2>1, <2>2, <1>3 DEF FreedInv, NoToken
<1>14. HolderInv /\ TakerInv /\ ArmedInv
  BY <1>3 DEF HolderInv, TakerInv, ArmedInv, NoToken
<1>15. ToWakeInv /\ CloneInv
  BY <1>3 DEF ToWakeInv, CloneInv, Cloning, Block, AbortLocs, NoToken
<1>16. SeenInv /\ ModeInv
  BY <1>3, <1>f DEF SeenInv, ModeInv, AbortLocs
<1>17. QED
  BY <1>2, <1>4, <1>5, <1>6, <1>7, <1>8, <1>9, <1>10, <1>11, <1>12, <1>13, <1>14, <1>15, <1>16 DEF IInv

\* Every step of the sender and of the receiver keeps the invariant.
LEMMA NextIInv == IInv /\ Next => IInv'
<1>1. SUFFICES ASSUME IInv, Next PROVE IInv'
  OBVIOUS
<1>2. TypeInv'
  BY <1>1, QueueTypesStep, CountTypesStep, TokenTypesStep, CallTypesStep, LocTypesStep DEF TypeInv
<1>3. SpscInv' /\ PushInv' /\ OpInv' /\ OrderInv' /\ UpInv' /\ DestroyedInv' /\ EndInv'
  BY <1>1, QueueStep, OpInvStep, OrderInvStep, UpInvStep, DestroyedInvStep, EndInvStep
<1>4. ResultInv' /\ OverInv' /\ GoneInv' /\ BalanceInv' /\ LimitInv' /\ SendsInv' /\ BlocksInv'
  BY <1>1, ResultInvStep, OverInvStep, GoneInvStep, BalanceInvStep, LimitInvStep, SendsInvStep,
     BlocksInvStep
<1>5. StealsInv' /\ FreedInv' /\ HolderInv' /\ TakerInv' /\ ArmedInv' /\ ToWakeInv'
  BY <1>1, StealsInvStep, FreedInvStep, HolderInvStep, TakerInvStep, ArmedInvStep, ToWakeInvStep
<1>6. CloneInv' /\ SeenInv' /\ ModeInv'
  BY <1>1, CloneInvStep, SeenInvStep, ModeInvStep
<1>7. QED
  BY <1>2, <1>3, <1>4, <1>5, <1>6 DEF IInv

\* The inductive invariant holds for any number of sends and blocking calls that
\* the assumption on the constants admits.
THEOREM Invariance == Spec => []IInv
<1>1. Init => IInv
  BY InitIInv
<1>2. IInv /\ [Next]_vars => IInv'
  <2>1. SUFFICES ASSUME IInv, [Next]_vars PROVE IInv'
    OBVIOUS
  <2>2. CASE Next
    BY <2>1, <2>2, NextIInv
  <2>3. CASE UNCHANGED vars
    <3>1. /\ UNCHANGED spsc /\ UNCHANGED <<cnt, toWake, portDropped, woken, freed, destroyed>>
          /\ UNCHANGED <<spc, sop, stok, sent, accepted>>
          /\ UNCHANGED <<rpc, rmode, rtok, final, hand, local, rres, aborted, blocks, received, steals>>
      BY <2>3 DEF vars, sender, receiver
    <3>2. queue' = queue /\ SpscInv' /\ nodes' = nodes /\ fresh' = fresh
      BY <2>1, <3>1, QueueSame DEF IInv
    <3>3. /\ (Over' <=> Over) /\ (Open' <=> Open) /\ (Exact' <=> Exact) /\ (Finished' <=> Finished)
          /\ (Spare' <=> Spare) /\ (UpInQueue' <=> UpInQueue) /\ (Linked' <=> Linked)
          /\ (Cloning' <=> Cloning)
      BY <3>1, <3>2 DEF Over, Open, Exact, Finished, Spare, UpInQueue, Linked, Cloning
    <3>4. Uncounted' = Uncounted /\ Extra' = Extra /\ Held' = Held /\ Msgs' = Msgs /\ Item' = Item
      BY <3>1, <3>2, <3>3 DEF Uncounted, Extra, Stolen, Held, Msgs, Item
    <3>5. Due' = Due /\ Limit' = Limit /\ Popped' = Popped
      BY <3>1, <3>2, <3>3, <3>4 DEF Due, Limit, Popped
    <3>6. TypeInv'
      BY <2>1, <3>1 DEF IInv, TypeInv, QueueTypes, CountTypes, TokenTypes, CallTypes, LocTypes
    <3>7. PushInv' /\ OpInv' /\ OrderInv' /\ UpInv' /\ DestroyedInv' /\ EndInv' /\ ResultInv'
      BY <2>1, <3>1, <3>2, <3>3, <3>4, <3>5
         DEF IInv, PushInv, OpInv, OrderInv, UpInv, DestroyedInv, EndInv, ResultInv
    <3>8. OverInv' /\ GoneInv' /\ BalanceInv' /\ LimitInv' /\ SendsInv' /\ BlocksInv'
      BY <2>1, <3>1, <3>2, <3>3, <3>4, <3>5
         DEF IInv, OverInv, GoneInv, BalanceInv, LimitInv, SendsInv, BlocksInv
    <3>9. StealsInv' /\ FreedInv' /\ HolderInv' /\ TakerInv' /\ ArmedInv' /\ ToWakeInv'
      BY <2>1, <3>1, <3>3
         DEF IInv, StealsInv, FreedInv, HolderInv, TakerInv, ArmedInv, ToWakeInv
    <3>10. CloneInv' /\ SeenInv' /\ ModeInv'
      BY <2>1, <3>1, <3>2, <3>3 DEF IInv, CloneInv, SeenInv, ModeInv
    <3>11. QED
      BY <3>2, <3>6, <3>7, <3>8, <3>9, <3>10 DEF IInv
  <2>4. QED
    BY <2>1, <2>2, <2>3
<1>3. QED
  BY <1>1, <1>2, PTL DEF Spec

\* spsc_queue.rs: the list owns every node once, and neither end touches a node the
\* other may be looking at.
THEOREM NodesAreOwned == Spec => []NodesOwned
<1>1. IInv => NodesOwned
  BY ListIsOwned DEF IInv
<1>2. QED
  BY <1>1, Invariance, PTL

\* The assertions, unwraps and unreachable!()s of the flavour hold, but for those that
\* a blocking call aborted before them can trip.
THEOREM NeverPanics == Spec => []NoPanic
<1>1. IInv => NoPanic
  <2>1. SUFFICES ASSUME IInv PROVE NoPanic
    OBVIOUS
  <2>2. LocTypes
    BY <2>1 DEF IInv, TypeInv
  <2>3. spc \notin Panics
    BY <2>2 DEF LocTypes, Panics, SenderLocs
  <2>4. /\ aborted = "none" => rpc \notin Panics
        /\ aborted = "select" => rpc \notin Panics \ {"panic_aborted"}
    BY <2>2 DEF LocTypes, Panics, ReceiverLocs, TryLocs, Folding, Block, AbortLocs, Dropping
  <2>5. spc = "gone" /\ rpc = "gone" => cnt = DISCONNECTED /\ toWake = NoToken
    BY <2>1 DEF IInv, GoneInv, ToWakeInv, Block, AbortLocs
  <2>6. QED
    BY <2>3, <2>4, <2>5 DEF NoPanic
<1>2. QED
  BY <1>1, Invariance, PTL

\* What the nodes hold is a message, the upgrade or nothing.
LEMMA NodeValues ==
  ASSUME IInv
  PROVE  /\ nodes \in Seq([value : None..MaxSends, next : Nat])
         /\ {head, first, tailCopy, tail, tailPrev} \subseteq 1..Len(nodes)
         /\ {fresh, due} \subseteq 0..Len(nodes)
<1>t. /\ accepted \in Nat /\ accepted <= sent /\ sent <= MaxSends /\ MaxSends \in Nat /\ sent \in Nat
      /\ spc = "link" /\ sop = "send" => accepted + 1 <= MaxSends
  <2>1. accepted \in Nat /\ sent \in Nat /\ MaxSends \in Nat /\ SendsInv
    BY Types, Bounds DEF IInv
  <2>2. QED
    BY <2>1 DEF SendsInv
<1>1. PICK a \in Seq(Nat), t \in Nat : Listed(a, t) /\ HandedOver(a, t)
  BY DEF IInv, SpscInv
<1>2. Len(a) \in Nat /\ t \in 2..Len(a) /\ Len(nodes) \in Nat /\ NodesType
  <2>1. Len(a) \in Nat /\ NodesType
    BY DEF IInv, SpscInv
  <2>2. Len(nodes) \in Nat
    BY <2>1 DEF NodesType
  <2>3. QED
    BY <1>1, <2>1, <2>2 DEF Listed
<1>3. /\ a[1] = first /\ a[Len(a)] = head /\ a[t] = tail
      /\ \A i \in 1..Len(a) : a[i] \in 1..Len(nodes)
      /\ \A i \in 1..Len(a) : nodes[a[i]].value = None <=> i <= t
      /\ \A n \in 1..Len(nodes) : n = fresh \/ \E i \in 1..Len(a) : a[i] = n
  BY <1>1 DEF Listed, IsChain, Numbers
<1>4. {head, first, tailCopy, tail, tailPrev} \subseteq 1..Len(nodes) /\ due \in 0..Len(nodes)
  <2>1. PICK c \in 1..Len(a), p \in 1..Len(a) :
          /\ c <= p /\ a[c] = tailCopy /\ a[p] = tailPrev
          /\ IF due = Null THEN p + 1 = t ELSE p + 2 = t /\ due = a[t - 1]
    BY <1>1 DEF HandedOver
  <2>2. 1 \in 1..Len(a) /\ Len(a) \in 1..Len(a) /\ t \in 1..Len(a) /\ t - 1 \in 1..Len(a)
    BY <1>2
  <2>3. a[t - 1] \in 1..Len(nodes) /\ tailCopy \in 1..Len(nodes) /\ tailPrev \in 1..Len(nodes)
    BY <1>3, <2>1, <2>2
  <2>4. head \in 1..Len(nodes) /\ first \in 1..Len(nodes) /\ tail \in 1..Len(nodes)
    BY <1>3, <2>2
  <2>5. due = 0 \/ due = a[t - 1]
    BY <2>1 DEF Null
  <2>6. due \in 0..Len(nodes)
    BY <2>3, <2>5, <1>2
  <2>7. QED
    BY <2>3, <2>4, <2>6
<1>5. fresh \in 0..Len(nodes)
  <2>1. fresh = 0 \/ fresh \in 1..Len(nodes)
    BY DEF IInv, SpscInv, Numbers, Null
  <2>2. QED
    BY <2>1, <1>2
<1>6. queue = [i \in 1..(Len(a) - t) |-> nodes[a[t + i]].value]
  BY <1>1, <1>2, QueueOfList DEF QueueFact
<1>7. ASSUME NEW i \in 1..Len(queue) PROVE queue[i] \in 0..MaxSends
  <2>1. Msgs \in Nat /\ Popped \in Nat /\ Popped = accepted - Msgs /\ Len(queue) \in Nat
    BY Shape, Types
  <2>2. CASE i \in 1..Msgs
    <3>1. queue[i] = Popped + i
      BY <2>2, OrderParts DEF IInv, Lined
    <3>2. QED
      BY <2>1, <2>2, <3>1, <1>t
  <2>3. CASE i \notin 1..Msgs
    <3>1. UpInQueue /\ i = Len(queue)
      <4>1. UpInQueue
        BY <2>1, <2>3 DEF Msgs
      <4>2. Msgs = Len(queue) - 1
        BY <4>1 DEF Msgs
      <4>3. QED
        BY <4>1, <4>2, <2>1, <2>3
    <3>2. queue[i] = 0
      BY <3>1 DEF UpInQueue, GoUp
    <3>3. QED
      BY <3>2, <1>t
  <2>4. QED
    BY <2>2, <2>3
<1>8. ASSUME NEW n \in 1..Len(nodes) PROVE nodes[n].value \in None..MaxSends
  <2>1. CASE n = fresh
    <3>1. spc = "link" /\ nodes[n].value = Item
      BY <2>1, <1>2 DEF IInv, PushInv, Null
    <3>2. Item \in 0..MaxSends
      BY <3>1, <1>t DEF Item, GoUp
    <3>3. QED
      BY <3>1, <3>2, <1>t DEF None
  <2>2. CASE n # fresh
    <3>1. PICK i \in 1..Len(a) : a[i] = n
      BY <2>2, <1>3
    <3>2. CASE i <= t
      BY <3>1, <3>2, <1>3, <1>t DEF None
    <3>3. CASE ~(i <= t)
      <4>1. i - t \in 1..(Len(a) - t) /\ t + (i - t) = i /\ Len(a) - t \in Nat
        BY <3>3, <1>2
      <4>2. queue[i - t] = nodes[n].value
        BY <4>1, <3>1, <1>6
      <4>3. Len(queue) = Len(a) - t
        <5>1. \A j \in 1..(Len(a) - t) : nodes[a[t + j]].value \in Int
          <6>1. TAKE j \in 1..(Len(a) - t)
          <6>2. t + j \in 1..Len(a)
            BY <1>2
          <6>3. a[t + j] \in 1..Len(nodes)
            BY <6>2, <1>3
          <6>4. QED
            <7>1. nodes[a[t + j]] \in [value : Int, next : Nat]
              BY <6>3, <1>2, ElementOfSeq DEF NodesType
            <7>2. QED
              BY <7>1
        <5>2. queue \in [1..(Len(a) - t) -> Int]
          BY <5>1, <1>6
        <5>3. QED
          BY <4>1, <5>2, SeqOfLength
      <4>4. nodes[n].value \in 0..MaxSends
        BY <4>1, <4>2, <4>3, <1>7
      <4>5. QED
        BY <4>4, <1>t DEF None
    <3>4. QED
      BY <3>2, <3>3
  <2>3. QED
    BY <2>1, <2>2
<1>9. nodes \in Seq([value : None..MaxSends, next : Nat])
  <2> DEFINE V == [value : None..MaxSends, next : Nat]
  <2>1. ASSUME NEW n \in 1..Len(nodes) PROVE nodes[n] \in V
    <3>1. nodes[n] \in [value : Int, next : Nat]
      BY <1>2, ElementOfSeq DEF NodesType
    <3>2. nodes[n].value \in None..MaxSends
      BY <1>8
    <3>3. QED
      BY <3>1, <3>2
  <2>2. nodes = [n \in 1..Len(nodes) |-> nodes[n]]
    BY <1>2 DEF NodesType
  <2>3. nodes \in [1..Len(nodes) -> V]
    <3> HIDE DEF V
    <3>1. QED
      BY <2>1, <2>2
  <2>4. nodes \in Seq(V)
    <3> HIDE DEF V
    <3>1. QED
      BY <2>3, <1>2, SeqOfLength
  <2>5. QED
    BY <2>4
<1>10. QED
  BY <1>4, <1>5, <1>9

\* Every variable keeps its type.
LEMMA TypesHold == IInv => TypeOK
<1>1. SUFFICES ASSUME IInv PROVE TypeOK
  OBVIOUS
<1>t. /\ accepted \in Nat /\ accepted <= MaxSends /\ sent \in 0..MaxSends /\ MaxSends \in Nat
      /\ blocks \in 0..MaxBlocks /\ MaxBlocks \in Nat
  <2>1. accepted \in Nat /\ sent \in Nat /\ blocks \in Nat /\ MaxSends \in Nat /\ MaxBlocks \in Nat
        /\ SendsInv /\ BlocksInv
    BY <1>1, Types, Bounds DEF IInv
  <2>2. QED
    BY <2>1 DEF SendsInv, BlocksInv
<1>s. /\ Msgs \in Nat /\ Popped \in Nat /\ Popped = accepted - Msgs /\ Held \in {0, 1}
      /\ Len(received) \in Nat /\ Settled
  BY <1>1, Shape, OrderParts DEF IInv
<1>p. Popped <= MaxSends /\ Len(received) <= MaxSends
  <2>1. Len(received) + Held <= Popped
    BY <1>s DEF Settled
  <2>2. QED
    BY <2>1, <1>s, <1>t
<1>2. hand \in None..MaxSends
  <2>1. Held = 1 => hand = Popped
    BY <1>s DEF Settled
  <2>2. Held = 0 => hand \in {None, GoUp}
    BY DEF Held
  <2>3. QED
    BY <2>1, <2>2, <1>s, <1>p, <1>t DEF None, GoUp
<1>3. received \in Seq(1..MaxSends)
  <2>1. received \in Seq(Nat)
    BY <1>1 DEF IInv, TypeInv, QueueTypes
  <2>2. \A i \in 1..Len(received) : received[i] \in 1..MaxSends
    <3>1. TAKE i \in 1..Len(received)
    <3>2. received[i] = i
      BY <1>s DEF Settled
    <3>3. QED
      BY <3>2, <1>s, <1>p, <1>t
  <2>3. received \in [1..Len(received) -> 1..MaxSends]
    BY <2>1, <2>2
  <2>4. QED
    BY <2>3, <1>s, SeqOfLength
<1>4. destroyed \subseteq 0..MaxSends
  <2>1. destroyed \ {GoUp} = (Len(received) + Held + 1)..Popped
    BY <1>s DEF Settled
  <2>2. (Len(received) + Held + 1)..Popped \subseteq 0..MaxSends
    BY <1>s, <1>p, <1>t
  <2>3. GoUp \in 0..MaxSends
    BY <1>t DEF GoUp
  <2>4. QED
    BY <2>1, <2>2, <2>3
<1>5. /\ toWake \in 0..MaxBlocks /\ stok \in 0..MaxBlocks /\ rtok \in 0..MaxBlocks
      /\ woken \subseteq Tokens /\ freed \in [Tokens -> Nat]
  <2>1. /\ toWake \in Nat /\ stok \in Nat /\ rtok \in Nat /\ toWake <= blocks /\ stok <= blocks
        /\ rtok <= blocks /\ freed \in [Tokens -> Nat] /\ \A t \in woken : t \in 1..blocks
    BY <1>1 DEF IInv, TypeInv, TokenTypes, HolderInv, BlocksInv, FreedInv
  <2>2. 1..blocks \subseteq Tokens
    BY <1>t DEF Tokens
  <2>3. QED
    BY <2>1, <2>2, <1>t
<1>6. /\ spc \in {"idle", "check", "push", "link", "add", "disc", "drain1", "drain2", "take",
                  "clear", "signal", "inherited", "drop", "gone"} \cup Panics
      /\ rpc \in {"idle", "can", "try", "look", "again", "fold", "foldbump", "foldstore",
                  "folded", "decr", "sub", "subdisc", "unwake", "wait", "cancel",
                  "cancelbump", "abort", "abortdisc", "aborttake", "abortspin",
                  "abortpeek", "hangup", "dropcas", "dropdrain", "gone"} \cup Panics
  BY <1>1 DEF IInv, TypeInv, LocTypes, SenderLocs, ReceiverLocs, TryLocs, Folding, Block, AbortLocs,
     Dropping, Panics
<1>7. /\ sop \in {"send", "clone", "drop"} /\ rmode \in {"recv", "timeout", "try", "select"}
      /\ rres \in {"none", "Ok", "Empty", "Disconnected", "Upgraded", "ready", "unready"}
      /\ final \in BOOLEAN /\ portDropped \in BOOLEAN /\ local \in Int /\ steals \in Int
      /\ cnt \in DISCONNECTED..ISIZE_MAX
  BY <1>1 DEF IInv, TypeInv, CallTypes, CountTypes
<1>8. accepted \in 0..MaxSends
  BY <1>t
<1>9. QED
  BY <1>1, <1>2, <1>3, <1>4, <1>5, <1>6, <1>7, <1>8, <1>t, NodeValues DEF TypeOK

\* The count less the steals is what is on the queue, whatever the interleaving of
\* sends, waits and aborted selections, and the steals stay bounded.
THEOREM CountIsExact == Spec => []CountExact
<1>1. IInv => CountExact
  <2>1. SUFFICES ASSUME IInv PROVE CountExact
    OBVIOUS
  <2>2. ASSUME rpc = "idle", cnt # DISCONNECTED
        PROVE  /\ steals <= MAX_STEALS + 1
               /\ aborted # "timeout" =>
                    cnt - steals = Len(queue) - (IF spc = "add" THEN 1 ELSE 0)
    <3>1. ~Over /\ Open
      BY <2>1, <2>2 DEF Open, IInv, OverInv, Mid
    <3>2. steals <= MAX_STEALS + 1
      BY <2>1, <3>1 DEF IInv, StealsInv
    <3>3. ~final
      BY <2>1, <2>2 DEF IInv, ModeInv, TryLocs, Folding
    <3>4. ASSUME aborted # "timeout"
          PROVE  cnt - steals = Len(queue) - (IF spc = "add" THEN 1 ELSE 0)
      <4>1. Exact /\ rpc \notin Dropping
        BY <2>1, <2>2, <3>4 DEF Exact, Dropping, IInv, TypeInv, CallTypes
      <4>2. cnt = Due
        BY <2>1, <3>1, <4>1 DEF IInv, BalanceInv
      <4>3. Extra = Stolen /\ Stolen = steals - 0
        BY <2>2, <3>3 DEF Extra, Stolen
      <4>4. steals \in Int /\ cnt \in Int /\ Len(queue) \in Nat /\ Uncounted \in {0, 1}
        BY <2>1, Types
      <4>5. cnt - steals = Len(queue) - Uncounted
        BY <4>2, <4>3, <4>4 DEF Due
      <4>6. QED
        BY <4>5 DEF Uncounted
    <3>5. QED
      BY <3>2, <3>4
  <2>3. QED
    BY <2>1, <2>2, TypesHold DEF CountExact
<1>2. QED
  BY <1>1, Invariance, PTL

\* Messages are received in order and none is lost: each is received, in hand, on the
\* queue or destroyed; and a port that is gone leaves nothing on the queue behind.
THEOREM DeliveryHolds == Spec => []Delivery
<1>1. IInv => MessageConservation
  <2>1. SUFFICES ASSUME IInv PROVE MessageConservation
    OBVIOUS
  <2> DEFINE onQueue == {queue[i] : i \in 1..Len(queue)} \ {GoUp}
             got == {received[i] : i \in 1..Len(received)}
             lost == destroyed \ {GoUp}
             held == {hand} \ {None, GoUp}
             n == Len(received)
             h == Held
             p == Popped
  <2>2. /\ n \in Nat /\ p \in Nat /\ Msgs \in Nat /\ accepted \in Nat /\ h \in {0, 1}
        /\ p = accepted - Msgs /\ n + h <= p /\ p <= accepted
        /\ \A i \in 1..Msgs : queue[i] = p + i
        /\ \A i \in 1..n : received[i] = i
        /\ lost = (n + h + 1)..p /\ Len(queue) \in Nat
        /\ h = 1 => hand = n + 1
    <3>1. /\ n \in Nat /\ p \in Nat /\ Msgs \in Nat /\ accepted \in Nat /\ h \in {0, 1}
          /\ p = accepted - Msgs /\ Len(queue) \in Nat
      BY <2>1, Shape, Types
    <3>2. p <= accepted
      BY <3>1
    <3>3. /\ n + h <= p /\ \A i \in 1..n : received[i] = i
          /\ lost = (n + h + 1)..p /\ (h = 1 => hand = n + 1)
      BY <2>1, OrderParts DEF IInv, Settled
    <3>4. \A i \in 1..Msgs : queue[i] = p + i
      BY <2>1, OrderParts DEF IInv, Lined
    <3>5. QED
      BY <3>1, <3>2, <3>3, <3>4
  <2>3. onQueue = (p + 1)..accepted
    <3>1. ASSUME NEW m \in onQueue PROVE m \in (p + 1)..accepted
      <4>1. PICK i \in 1..Len(queue) : m = queue[i]
        OBVIOUS
      <4>2. i \in 1..Msgs
        <5>1. CASE UpInQueue
          <6>1. i # Len(queue) /\ Msgs = Len(queue) - 1
            BY <3>1, <4>1, <5>1 DEF UpInQueue, Msgs
          <6>2. QED
            BY <6>1, <2>2
        <5>2. CASE ~UpInQueue
          <6>1. Msgs = Len(queue)
            BY <5>2, <2>2 DEF Msgs
          <6>2. QED
            BY <6>1
        <5>3. QED
          BY <5>1, <5>2
      <4>3. m = p + i
        BY <4>1, <4>2, <2>2
      <4>4. QED
        BY <4>2, <4>3, <2>2
    <3>2. ASSUME NEW m \in (p + 1)..accepted PROVE m \in onQueue
      <4>1. m - p \in 1..Msgs /\ p + (m - p) = m /\ m # GoUp
        BY <2>2 DEF GoUp
      <4>2. queue[m - p] = m
        BY <4>1, <2>2
      <4>3. m - p \in 1..Len(queue)
        <5>1. Msgs <= Len(queue)
          BY <2>2 DEF Msgs
        <5>2. QED
          BY <4>1, <5>1, <2>2
      <4>4. QED
        BY <4>1, <4>2, <4>3
    <3>3. QED
      BY <3>1, <3>2
  <2>4. got = 1..n /\ received = [i \in 1..n |-> i]
    <3>1. received \in Seq(Nat)
      BY <2>1 DEF IInv, TypeInv, QueueTypes
    <3>2. QED
      BY <2>2, <3>1
  <2>5. held = (n + 1)..(n + h)
    <3>1. CASE h = 1
      <4>1. hand = n + 1 /\ held = {hand}
        BY <3>1, <2>2 DEF None, GoUp
      <4>2. (n + 1)..(n + 1) = {n + 1}
        BY <2>2
      <4>3. QED
        BY <3>1, <4>1, <4>2
    <3>2. CASE h = 0
      <4>1. hand \in {None, GoUp}
        BY <3>2 DEF Held
      <4>2. held = {}
        BY <4>1
      <4>3. (n + 1)..(n + 0) = {}
        BY <2>2
      <4>4. QED
        BY <3>2, <4>2, <4>3
    <3>3. QED
      BY <3>1, <3>2, <2>2
  <2>6. rres \in {"Disconnected", "Upgraded"} => n = accepted
    BY <2>1 DEF IInv, EndInv
  <2>i. ASSUME NEW a \in Nat, NEW b \in Nat, NEW c \in Nat, NEW d \in Nat, a <= b, b <= c, c <= d
        PROVE  1..d = ((c + 1)..d) \cup (1..a) \cup ((b + 1)..c) \cup ((a + 1)..b)
    BY <2>i
  <2>7. 1..accepted = onQueue \cup got \cup lost \cup held
    <3> HIDE DEF onQueue, got, lost, held, n, h, p
    <3>1. n + h \in Nat /\ n <= n + h
      BY <2>2
    <3>2. 1..accepted = ((p + 1)..accepted) \cup (1..n) \cup (((n + h) + 1)..p) \cup ((n + 1)..(n + h))
      BY <2>2, <3>1, <2>i
    <3>3. QED
      BY <2>2, <2>3, <2>4, <2>5, <3>2
  <2>8. Cardinality(onQueue) + n + Cardinality(lost) + Cardinality(held) = accepted
    <3> HIDE DEF onQueue, got, lost, held, n, h, p
    <3>c. ASSUME NEW a \in Nat, NEW b \in Nat, a <= b PROVE Cardinality((a + 1)..b) = b - a
      <4>1. Cardinality((a + 1)..b) = IF a + 1 > b THEN 0 ELSE b - (a + 1) + 1
        BY FS_Interval
      <4>2. QED
        BY <3>c, <4>1
    <3>1. Cardinality(onQueue) = accepted - p
      BY <2>2, <2>3, <3>c
    <3>2. n + h \in Nat
      BY <2>2
    <3>3. Cardinality(lost) = p - (n + h)
      BY <2>2, <3>2, <3>c
    <3>4. Cardinality(held) = (n + h) - n
      BY <2>2, <2>5, <3>2, <3>c
    <3>5. QED
      BY <2>2, <3>1, <3>3, <3>4
  <2>9. QED
    BY <2>4, <2>6, <2>7, <2>8 DEF MessageConservation
<1>2. IInv => HangupClean
  <2>1. SUFFICES ASSUME IInv PROVE HangupClean
    OBVIOUS
  <2>2. ASSUME rpc = "gone", spc = "idle" PROVE queue = <<>>
    <3>1. ~Over
      BY <2>1, <2>2, WhileOpen
    <3>2. Len(queue) = 0
      BY <2>1, <2>2, <3>1, Types DEF IInv, GoneInv
    <3>3. QED
      BY <2>1, <3>2, ElementsFact DEF IInv, Elements
  <2>3. spc \in {"drain1", "drain2"} => rpc \in {"gone"} \cup Panics
    BY <2>1 DEF IInv, GoneInv
  <2>4. QED
    BY <2>2, <2>3 DEF HangupClean
<1>3. QED
  BY <1>1, <1>2, Invariance, PTL DEF Delivery

\* Every token has one owner from its birth until it is cast back, once; a receiver
\* that sleeps can be woken by it.
THEOREM TokensOwned == Spec => []TokenOwnership
<1>1. IInv => TokenOwnership
  <2>1. SUFFICES ASSUME IInv PROVE TokenOwnership
    OBVIOUS
  <2>inv. FreedInv /\ HolderInv /\ ToWakeInv
    BY <2>1 DEF IInv
  <2>types. stok \in Nat /\ toWake \in Nat /\ blocks \in Nat /\ MaxBlocks \in Nat /\ blocks <= MaxBlocks
    BY <2>1, Types, Bounds DEF IInv, BlocksInv
  <2>2. ASSUME NEW t \in 1..blocks
        PROVE  freed[t] + (IF toWake = t /\ spc # "clear" THEN 1 ELSE 0)
                        + (IF stok = t THEN 1 ELSE 0) = 1
    <3>1. t \in Tokens /\ t # NoToken /\ freed[t] \in {0, 1}
      BY <2>inv, <2>types DEF FreedInv, Tokens, NoToken
    <3>2. CASE freed[t] = 1
      <4>1. toWake # t /\ stok # t
        BY <3>1, <3>2, <2>inv DEF FreedInv
      <4>2. QED
        BY <3>2, <4>1
    <3>3. CASE freed[t] = 0 /\ stok = t
      <4>1. toWake = t => spc = "clear"
        BY <3>1, <3>3, <2>inv DEF HolderInv
      <4>2. QED
        BY <3>3, <4>1
    <3>4. CASE freed[t] = 0 /\ stok # t
      <4>1. toWake = t
        BY <3>4, <2>inv DEF FreedInv
      <4>2. spc # "clear"
        BY <3>4, <4>1, <2>inv DEF HolderInv
      <4>3. QED
        BY <3>4, <4>1, <4>2
    <3>5. QED
      BY <3>1, <3>2, <3>3, <3>4
  <2>3. rpc = "wait" /\ rtok \notin woken => toWake = rtok \/ stok = rtok
    <3>1. SUFFICES ASSUME rpc = "wait", rtok \notin woken PROVE toWake = rtok \/ stok = rtok
      OBVIOUS
    <3>2. rtok \in 1..blocks /\ rtok \in Tokens
      BY <3>1, <2>inv, <2>types DEF ToWakeInv, Block, Tokens
    <3>3. freed[rtok] = 0
      BY <3>1, <3>2, <2>inv DEF FreedInv
    <3>4. QED
      BY <3>2, <3>3, <2>inv DEF FreedInv
  <2>4. rpc \in {"idle", "can", "try", "decr", "gone"} => toWake = NoToken
    BY <2>inv DEF ToWakeInv, Block, AbortLocs
  <2>5. QED
    BY <2>2, <2>3, <2>4 DEF TokenOwnership
<1>2. QED
  BY <1>1, Invariance, PTL
=============================================================================
