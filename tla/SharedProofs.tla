------------------------------ MODULE SharedProofs ------------------------------
(***************************************************************************)
(* Proofs about the shared packet for any senders, sends, clones and       *)
(* blocking calls.  IInv is an inductive invariant: who holds the lock,    *)
(* the handles and the tokens, what the count stands for at every location *)
(* of the receiver, and which messages are where.                          *)
(***************************************************************************)
EXTENDS Shared, FiniteSetTheorems, SequenceTheorems, TLAPS

-----------------------------------------------------------------------------
(* The inductive invariant                                                 *)

SenderLocs == {"unborn", "inherit", "inheritcnt", "inheritsteals", "unlock", "idle",
               "check", "checkcnt", "push", "link", "add", "take", "clear", "signal",
               "disc", "enter", "drain", "drainhead", "leave", "dropswap", "gone",
               "panic_count", "panic_inherit", "panic_take"}
TryLocs == {"try", "tryhead", "spin", "spinhead", "fold", "foldbump", "foldstore",
            "folded", "look", "again", "againhead", "panic_empty"}
AbortLocs == {"abort", "abortbump", "abortdisc", "aborttake", "abortspin"}
\* A blocking call has made its token and not forgotten it yet.
Block == {"old", "sub", "subdisc", "unwake", "wait", "panic_aborted"} \cup AbortLocs
ReceiverLocs == TryLocs \cup Block \cup
                {"idle", "can", "decr", "cancelbump", "dropcas", "dropdrain", "gone",
                 "panic_count", "panic_steals", "panic_to_wake", "panic_inconsistent"}
Modes == {"recv", "timeout", "try", "select"}
Aborts == {"none", "select", "timeout", "upgrade"}

QueueTypes ==
  /\ queue \in Seq(Nat) /\ received \in Seq(Nat) /\ unlinked \subseteq Nat /\ destroyed \subseteq Nat
  /\ accepted \in Nat /\ smsg \in [Senders -> Nat]
CountTypes ==
  /\ cnt \in Int /\ steals \in Int /\ local \in Int /\ channels \in Int /\ drain \in Int
  /\ portDropped \in BOOLEAN /\ locked \in BOOLEAN
TokenTypes ==
  /\ woken \subseteq Nat /\ freed \in [Tokens -> Nat] /\ stok \in [Senders -> Nat]
  /\ toWake \in Nat /\ rtok \in Nat /\ blocks \in Nat
CallTypes ==
  /\ rmode \in Modes /\ final \in BOOLEAN /\ aborted \in Aborts
  /\ rres \in {"none", "Ok", "Empty", "Disconnected", "ready", "unready"}
  /\ sent \in Nat /\ clones \in Nat
LocTypes == spc \in [Senders -> SenderLocs] /\ rpc \in ReceiverLocs
TypeInv == QueueTypes /\ CountTypes /\ TokenTypes /\ CallTypes /\ LocTypes

Count(f, L) == Cardinality({s \in Senders : f[s] \in L})
HowMany(L) == Count(spc, L)
\* The last handle was dropped and has left DISCONNECTED in the count.
Over == channels = 0 /\ \A s \in Senders : spc[s] # "dropswap"
Open == ~Over /\ rpc # "gone"

\* What may have panicked, and after which abort.
PanicInv ==
  /\ \A s \in Senders :
       /\ spc[s] \notin {"panic_count", "panic_take"}
       /\ spc[s] = "panic_inherit" => aborted = "upgrade"
  /\ rpc \notin {"panic_count", "panic_steals", "panic_inconsistent"}
  /\ rpc = "panic_empty" => aborted \in {"timeout", "upgrade"}
  /\ rpc = "panic_to_wake" => aborted = "upgrade"
  /\ rpc = "panic_aborted" => aborted # "none"

\* The queue holds the last messages pushed, in order; those before them were
\* received first and destroyed then.
Popped == accepted - Len(queue)
OrderInv ==
  /\ Len(queue) <= accepted
  /\ \A i \in 1..Len(queue) : queue[i] = Popped + i
  /\ Len(received) <= Popped
  /\ \A i \in 1..Len(received) : received[i] = i
  /\ destroyed = (Len(received) + 1)..Popped
\* The receiver destroys what it did not receive, or a sender after it has gone.
DestroyedInv == destroyed # {} => rpc \in {"dropcas", "dropdrain", "gone"}
\* A message that is not linked has its sender.
LinkInv == \A m \in unlinked : \E s \in Senders : spc[s] = "link" /\ smsg[s] = m
EndInv == rres = "Disconnected" => Over /\ queue = <<>> /\ destroyed = {}

\* `channels' counts the handles; the last one's drop is alone.
HandleInv ==
  /\ channels >= 0
  /\ channels > 0 => /\ HowMany({"gone"}) + channels = Cardinality(Senders)
                     /\ \A s \in Senders : spc[s] # "dropswap"
  /\ channels = 0 => /\ \A s \in Senders : spc[s] \in {"gone", "dropswap", "take", "clear", "signal"}
                     /\ \A s, t \in Senders : spc[s] # "gone" /\ spc[t] # "gone" => s = t

\* Until the creator frees the lock no handle is in use.
Birth == {"inherit", "inheritcnt", "inheritsteals"}
Inherited == spc[Creator] \notin Birth
LockInv ==
  /\ locked <=> spc[Creator] \in Birth \cup {"unlock", "panic_inherit"}
  /\ \A s \in Senders \ {Creator} : spc[s] \notin Birth \cup {"unlock", "panic_inherit"}
  /\ locked => /\ spc[Child] = "unborn" /\ channels = 2 /\ accepted = 0 /\ sent = 0
               /\ \A s \in Senders \ {Creator, Child} : spc[s] = "gone"
  /\ \A s \in Senders : spc[s] = "unborn" => s = Child /\ locked

\* While the blocker is handed over the receiver sleeps, was woken by another port,
\* or its deadline has passed and it uses this packet already.
BirthInv ==
  /\ ~Inherited => steals = 0 /\ ~final
  /\ spc[Creator] = "inherit" =>
       /\ stok[Creator] = 1
       /\ toWake = NoToken => /\ cnt = 0 /\ rpc \in {"old", "abort", "try", "tryhead", "look", "decr"}
                              /\ rpc \in {"old", "abort"} => rtok = 1
       /\ toWake # NoToken => /\ toWake = rtok /\ aborted = "upgrade"
                              /\ \/ rpc = "sub" /\ cnt = 0 /\ local = 0
                                 \/ rpc \in {"wait", "abort"} /\ cnt = -1
  /\ spc[Creator] \in {"inheritcnt", "inheritsteals"} =>
       /\ toWake = 1 /\ cnt = IF spc[Creator] = "inheritcnt" THEN 0 ELSE -1
       /\ rpc \in {"old", "abort", "try", "tryhead", "look", "decr", "panic_to_wake"}
       /\ rpc \in {"old", "abort"} => rtok = 1
       /\ rpc \notin {"old", "abort"} => aborted = "upgrade"
  /\ ~Inherited /\ rpc \in {"try", "tryhead", "look", "decr"} =>
       rmode = "timeout" /\ aborted = "upgrade" /\ blocks = 1
  /\ ~Inherited /\ rpc = "abort" /\ rtok = 1 => rmode = "select"

\* The count and the steals: at each location of the receiver the count exceeds the
\* messages counted for by this much.
Stolen == steals - (IF final THEN 1 ELSE 0)
Extra == IF rpc \in {"wait", "abort", "abortbump", "unwake", "cancelbump"} THEN -1
         ELSE IF rpc \in {"sub", "aborttake", "abortspin", "dropcas", "dropdrain"} THEN local
         ELSE IF rpc = "foldbump" THEN Stolen - local
         ELSE Stolen
Exact == aborted \in {"none", "select"}
Mid == {"foldstore", "subdisc", "abortdisc"}
Due == Len(queue) - Uncounted + Extra

\* An upper bound of the count, to rule out that it overflows.
Limit == accepted - Uncounted + blocks
         - (IF rpc \in {"sub", "unwake", "wait", "abort", "cancelbump", "old"} THEN 1 ELSE 0)
Reached == cnt + (IF rpc = "foldbump" THEN local
                  ELSE IF rpc = "abortbump" THEN local + 1 ELSE 0)

\* When the last handle is gone the count is DISCONNECTED, but for the moments
\* before it is stored again.
OverInv ==
  /\ rpc \in Mid \cup {"again", "againhead", "panic_aborted"} => Over
  /\ Over /\ rpc \notin Mid \cup {"gone"} => cnt = DISCONNECTED
\* Senders that count on a port that is gone do not get past the fudge.
GoneInv ==
  /\ rpc = "gone" => cnt \in DISCONNECTED..(DISCONNECTED + HowMany({"disc"}))
  /\ \A s \in Senders : spc[s] \in {"disc", "enter", "drain", "drainhead", "leave"} => rpc = "gone"
\* A receiver that looked for what it was woken for and found nothing has been
\* through an abort, which has put one too many in the count.
Spare == final /\ (rpc = "look" \/ (rpc \in {"try", "tryhead"} /\ steals > 0))
BalanceInv ==
  Open /\ Inherited => /\ cnt >= Due /\ (Exact => cnt = Due)
                       /\ Spare => cnt > Due
LimitInv == Open => Reached <= Limit

\* The calls made bound the pushes and the tokens.
SendsInv ==
  /\ Uncounted <= accepted
  /\ accepted + HowMany({"check", "checkcnt", "push"}) <= sent /\ sent <= MaxSends
BlocksInv ==
  /\ blocks <= MaxBlocks
  /\ rpc \in {"can", "decr"} \/ (rpc \in TryLocs /\ rmode # "try" /\ ~final) => blocks < MaxBlocks

\* How far the steals can be off.
StealsInv ==
  /\ steals >= -1
  /\ rpc \in {"sub", "subdisc", "unwake", "wait", "cancelbump"} => steals = 0
  /\ rpc \in AbortLocs => steals \in {0, -1} /\ (rmode = "timeout" => steals = 0)
  /\ final => steals >= 0 /\ (Exact /\ ~Over => steals = 0)
  /\ rpc \in {"sub", "dropcas", "dropdrain"} => local >= -1
  /\ rpc \in {"aborttake", "abortspin", "abortbump", "foldbump"} => local >= 0
  /\ rpc = "abortbump" /\ ~Over => cnt + local >= 0
  /\ rpc = "foldbump" /\ ~Over => cnt >= 0
  /\ rpc = "fold" => steals > MAX_STEALS
  /\ rpc \in {"foldbump", "foldstore", "folded"} => steals >= 0
  /\ rpc = "old" /\ Inherited => steals = -1

\* A token has one owner: the senders hold one each, `to_wake' another, unless its
\* taker is about to clear it.
FreedInv ==
  /\ \A t \in Tokens : freed[t] \in {0, 1} /\ (t > blocks => freed[t] = 0)
  /\ toWake # NoToken => freed[toWake] = 0
  /\ \A s \in Senders : stok[s] # NoToken => freed[stok[s]] = 0
  /\ \A t \in 1..blocks : freed[t] = 0 => toWake = t \/ \E s \in Senders : stok[s] = t
  /\ \A t \in woken : t \in 1..blocks /\ freed[t] = 1
  /\ rpc \in {"old", "wait"} /\ freed[rtok] = 1 => rtok \in woken
HolderInv ==
  /\ toWake <= blocks /\ \A s \in Senders : stok[s] <= blocks
  /\ \A s, t \in Senders : stok[s] # NoToken /\ stok[s] = stok[t] => s = t
  /\ \A s \in Senders :
       /\ stok[s] # NoToken <=> spc[s] \in {"inherit", "clear", "signal", "panic_inherit"}
       /\ stok[s] # NoToken /\ toWake = stok[s] => spc[s] = "clear"
       /\ spc[s] = "clear" => stok[s] = toWake

\* One sender at most was told to take the token, and not while the receiver owns
\* it.  A count below zero is there to be seen: nobody was told yet.
TakerInv ==
  /\ \A s, t \in Senders : spc[s] \in {"take", "clear"} /\ spc[t] \in {"take", "clear"} => s = t
  /\ \A s \in Senders : spc[s] \in {"take", "clear"} =>
       toWake # NoToken /\ rpc \notin {"sub", "subdisc", "unwake", "aborttake"}
ArmedInv ==
  Open /\ cnt < 0 =>
    /\ toWake # NoToken
    /\ \A s \in Senders : spc[s] \notin {"take", "clear"}
    /\ rpc \in {"old", "wait", "abort", "abortbump"} \/ (rpc \notin Block \cup {"cancelbump"} /\ aborted = "upgrade")
\* `to_wake' is empty or holds the token of the wait, or that of a wait on the old
\* packet whose deadline passed during the upgrade.
ToWakeInv ==
  /\ rpc \in Block => toWake \in {NoToken, rtok} /\ rtok \in 1..blocks
  /\ rpc \notin Block => toWake = NoToken \/ (aborted = "upgrade" /\ toWake = 1)
  /\ rpc \in {"sub", "unwake", "subdisc", "aborttake"} => toWake = rtok
  /\ final => toWake = NoToken
  /\ aborted = "upgrade" => (rpc \in Block => rtok >= 2) /\ blocks >= 1

\* What the receiver has seen stays so: a message that can be popped, the end, an
\* empty queue without senders.
SeenInv ==
  /\ rpc \in {"spin", "spinhead"} => queue # <<>>
  /\ rpc \in {"fold", "foldbump", "foldstore", "folded"} => Poppable
  /\ rpc = "againhead" => queue = <<>>
  /\ rpc = "look" /\ final /\ Exact => Over
\* The receiver's location and its call.
ModeInv ==
  /\ final => rpc \in TryLocs
  /\ rpc \in AbortLocs => /\ rmode \in {"timeout", "select"}
                          /\ rmode = "timeout" => ~Exact
                          /\ aborted = "none" => rtok \in woken
  /\ rpc \in {"can", "cancelbump"} => rmode = "select"
  /\ rpc \in {"decr", "sub", "subdisc", "unwake", "wait"} => rmode # "try"
  /\ rpc = "old" => aborted = "none" /\ blocks = 1 /\ rtok = 1 /\ ~final /\ rmode # "try"

\* sender_drain: one drains, and who pushed after the drop of the port has come.
Drainers == {"drain", "drainhead", "leave"}
DrainInv ==
  /\ drain >= 0
  /\ \A s, t \in Senders : spc[s] \in Drainers /\ spc[t] \in Drainers => s = t
  /\ drain >= 1 <=> \E s \in Senders : spc[s] \in Drainers
LeftInv ==
  rpc = "gone" /\ channels > 0 /\ queue # <<>> =>
    \E s \in Senders : \/ spc[s] \in {"link", "add", "disc", "enter", "drain", "drainhead"}
                       \/ spc[s] = "leave" /\ drain > 1

IInv ==
  /\ TypeInv /\ PanicInv /\ OrderInv /\ DestroyedInv /\ LinkInv /\ EndInv /\ HandleInv
  /\ LockInv /\ BirthInv /\ OverInv /\ GoneInv /\ BalanceInv /\ LimitInv /\ SendsInv
  /\ BlocksInv /\ StealsInv /\ FreedInv /\ HolderInv /\ TakerInv /\ ArmedInv /\ ToWakeInv
  /\ SeenInv /\ ModeInv /\ DrainInv /\ LeftInv

\* A step takes one sender from one of these locations to one of those.
Move(s, from, to) ==
  spc[s] \in from /\ spc'[s] \in to /\ spc' = [spc EXCEPT ![s] = spc'[s]]

-----------------------------------------------------------------------------
(* Counting senders, and the arithmetic of the count                        *)

\* One sender moves: each number of senders follows.
LEMMA CountMoves ==
  ASSUME NEW f, NEW g, NEW L, DOMAIN f = Senders,
         NEW s \in Senders, g = [f EXCEPT ![s] = g[s]]
  PROVE  Count(g, L) = Count(f, L) - (IF f[s] \in L THEN 1 ELSE 0)
                                   + (IF g[s] \in L THEN 1 ELSE 0)
<1> DEFINE S == {t \in Senders : f[t] \in L}
           T == {t \in Senders : g[t] \in L}
<1>g. \A t \in Senders : t # s => g[t] = f[t]
  OBVIOUS
<1>1. IsFiniteSet(S) /\ IsFiniteSet(T) /\ Cardinality(S) \in Nat /\ Cardinality(T) \in Nat
  BY FS_Subset, FS_CardinalityType, SharedAssumption
<1>2. CASE f[s] \in L /\ g[s] \in L
  <2>1. S = T
    BY <1>2, <1>g
  <2>2. Cardinality(S) = Cardinality(T)
    BY <2>1, Zenon
  <2>3. QED
    BY <1>1, <1>2, <2>2 DEF Count
<1>3. CASE f[s] \in L /\ g[s] \notin L
  <2>1. T = S \ {s} /\ s \in S
    BY <1>3, <1>g
  <2>2. Cardinality(T) = Cardinality(S) - 1
    BY <1>1, <2>1, FS_RemoveElement
  <2>3. QED
    BY <1>1, <1>3, <2>2 DEF Count
<1>4. CASE f[s] \notin L /\ g[s] \in L
  <2>1. T = S \cup {s} /\ s \notin S
    BY <1>4, <1>g
  <2>2. Cardinality(T) = Cardinality(S) + 1
    BY <1>1, <2>1, FS_AddElement
  <2>3. QED
    BY <1>1, <1>4, <2>2 DEF Count
<1>5. CASE f[s] \notin L /\ g[s] \notin L
  <2>1. S = T
    BY <1>5, <1>g
  <2>2. Cardinality(S) = Cardinality(T)
    BY <2>1, Zenon
  <2>3. QED
    BY <1>1, <1>5, <2>2 DEF Count
<1>6. QED
  BY <1>2, <1>3, <1>4, <1>5

\* How many senders there can be at some locations.
LEMMA CountBounds ==
  ASSUME NEW f, NEW L
  PROVE  /\ Count(f, L) \in Nat /\ Cardinality(Senders) \in Nat
         /\ Count(f, L) <= Cardinality(Senders)
         /\ \A s \in Senders : f[s] \in L => Count(f, L) >= 1
         /\ \A s \in Senders : f[s] \notin L => Count(f, L) <= Cardinality(Senders) - 1
         /\ \A s, t \in Senders : s # t /\ f[s] \notin L /\ f[t] \notin L =>
              Count(f, L) <= Cardinality(Senders) - 2
         /\ Count(f, L) > 0 => \E s \in Senders : f[s] \in L
<1> DEFINE S == {t \in Senders : f[t] \in L}
<1>1. IsFiniteSet(S) /\ Cardinality(S) <= Cardinality(Senders)
  BY FS_Subset, SharedAssumption
<1>2. Cardinality(S) \in Nat /\ Cardinality(Senders) \in Nat
  BY <1>1, FS_CardinalityType, SharedAssumption
<1>3. Cardinality(S) = 0 <=> S = {}
  BY <1>1, FS_EmptySet
<1>4. ASSUME NEW s \in Senders, f[s] \notin L PROVE Cardinality(S) <= Cardinality(Senders) - 1
  <2>1. S \subseteq Senders \ {s} /\ IsFiniteSet(Senders \ {s})
        /\ Cardinality(Senders \ {s}) = Cardinality(Senders) - 1
    BY <1>4, FS_RemoveElement, SharedAssumption
  <2>2. Cardinality(S) <= Cardinality(Senders \ {s})
    BY <2>1, FS_Subset
  <2>3. QED
    BY <2>1, <2>2
<1>5. ASSUME NEW s \in Senders, NEW t \in Senders, s # t, f[s] \notin L, f[t] \notin L
      PROVE  Cardinality(S) <= Cardinality(Senders) - 2
  <2>1. IsFiniteSet(Senders \ {s}) /\ Cardinality(Senders \ {s}) = Cardinality(Senders) - 1
    BY FS_RemoveElement, SharedAssumption
  <2>2. IsFiniteSet((Senders \ {s}) \ {t})
        /\ Cardinality((Senders \ {s}) \ {t}) = Cardinality(Senders \ {s}) - 1
    BY <1>5, <2>1, FS_RemoveElement
  <2>3. S \subseteq (Senders \ {s}) \ {t}
    BY <1>5
  <2>4. Cardinality(S) <= Cardinality((Senders \ {s}) \ {t})
    BY <2>2, <2>3, FS_Subset
  <2>5. QED
    BY <1>2, <2>1, <2>2, <2>4
<1>6. QED
  BY <1>1, <1>2, <1>3, <1>4, <1>5 DEF Count

\* The constants as numbers.
LEMMA Numbers ==
  /\ MaxSends \in Nat /\ MaxClones \in Nat /\ MaxBlocks \in Nat /\ MaxBlocks >= 2
  /\ MAX_STEALS \in Nat /\ FUDGE \in Nat /\ ISIZE_MAX \in Nat
  /\ Cardinality(Senders) \in Nat /\ Cardinality(Senders) < FUDGE
  /\ ISIZE_MAX > 2 * MaxSends + 2 * MaxBlocks + 2 * MAX_STEALS + 2 * FUDGE
  /\ DISCONNECTED \in Int /\ DISCONNECTED = -ISIZE_MAX - 1
BY FS_CardinalityType, SharedAssumption DEF DISCONNECTED

\* No overflow where there is room.
LEMMA NoWrap ==
  ASSUME NEW x \in Int, DISCONNECTED <= x, x <= ISIZE_MAX
  PROVE  Wrap(x) = x
<1> DEFINE n == 2 * (ISIZE_MAX + 1)
           y == x + ISIZE_MAX + 1
<1>1. n \in Nat \ {0} /\ y \in Nat /\ y < n
  BY Numbers
<1>2. ASSUME NEW k \in Nat, NEW m \in Nat \ {0}, k < m PROVE k % m = k
  BY <1>2
<1>3. y % n = y
  BY <1>1, <1>2
<1>4. QED
  BY <1>1, <1>3, Numbers DEF Wrap

\* Wrapping a number gives a number.
LEMMA WrapType == \A x \in Int : Wrap(x) \in Int
<1>1. 2 * (ISIZE_MAX + 1) \in Nat \ {0}
  BY Numbers
<1>2. \A y \in Int : \A n \in Nat \ {0} : y % n \in Int
  OBVIOUS
<1>3. QED
  BY <1>1, <1>2, Numbers DEF Wrap

\* The pushes not counted yet, as a number of senders.
LEMMA UncountedIs == Uncounted = Count(spc, {"link", "add"})
BY DEF Uncounted, Count

\* What a pop does to a sequence of messages.
LEMMA PopsHead ==
  ASSUME NEW q \in Seq(Nat), q # <<>>
  PROVE  /\ Head(q) \in Nat /\ Head(q) = q[1] /\ Tail(q) \in Seq(Nat)
         /\ Len(q) \in Nat /\ Len(q) >= 1 /\ Len(Tail(q)) = Len(q) - 1
         /\ \A i \in 1..(Len(q) - 1) : Tail(q)[i] = q[i + 1]
<1>1. Head(q) \in Nat /\ Head(q) = q[1] /\ Tail(q) \in Seq(Nat) /\ Len(Tail(q)) = Len(q) - 1
      /\ \A i \in 1..Len(Tail(q)) : Tail(q)[i] = q[i + 1]
  BY HeadTailProperties
<1>2. Len(q) \in Nat /\ Len(q) >= 1
  OBVIOUS
<1>3. QED
  BY <1>1, <1>2

\* What a push does to a sequence of messages.
LEMMA PushesLast ==
  ASSUME NEW q \in Seq(Nat), NEW n \in Nat
  PROVE  /\ Append(q, n) \in Seq(Nat) /\ Len(q) \in Nat /\ Len(Append(q, n)) = Len(q) + 1
         /\ \A i \in 1..Len(q) : Append(q, n)[i] = q[i]
         /\ Append(q, n)[Len(q) + 1] = n
BY AppendProperties

\* What Free leaves; a token that is none has no count.
LEMMA FreeType ==
  ASSUME NEW t, freed \in [Tokens -> Nat], Free(t)
  PROVE  freed' \in [Tokens -> Nat]
<1>1. freed' = [u \in Tokens |-> IF u = t THEN freed[u] + 1 ELSE freed[u]]
  BY DEF Free
<1>2. QED
  BY <1>1

-----------------------------------------------------------------------------
(* Types                                                                   *)

\* Every step keeps the queue and the histories sequences and sets of messages.
LEMMA QueueTypesStep ==
  ASSUME IInv, Next
  PROVE  QueueTypes'
<1>types. QueueTypes
  BY DEF IInv, TypeInv
<1>popfold. rpc = "folded" => queue # <<>>
  BY DEF IInv, SeenInv, Poppable
<1>same. ASSUME UNCHANGED <<queue, received, unlinked, destroyed, accepted, smsg>> PROVE QueueTypes'
  BY <1>same, <1>types DEF QueueTypes
<1>1. ASSUME NEW s \in Senders,
       Inherit(s) \/ InheritCnt(s) \/ InheritSteals(s) \/ InheritUnlock(s) \/ SendCall(s) \/
       CloneChan(s) \/ DropChan(s) \/ DropSwap(s) \/ SendCheck(s) \/ SendAdd(s) \/ TakeLoad(s) \/
       TakeClear(s) \/ Signal(s) \/ SendDisconnected(s) \/ DrainEnter(s) \/ DrainHead(s) \/
       DrainLeave(s)
       PROVE  QueueTypes'
  BY <1>1, <1>same DEF Inherit, tokens, receiver, control, InheritCnt, InheritSteals, packet,
       InheritUnlock, SendCall, CloneChan, DropChan, DropSwap, SendCheck, SendAdd, TakeLoad,
       TakeClear, Signal, SendDisconnected, DrainEnter, DrainHead, DrainLeave
<1>2. ASSUME NEW s \in Senders, PushSwap(s) PROVE QueueTypes'
  BY <1>2, <1>types DEF QueueTypes, PushSwap, At, tokens, receiver, control
<1>3. ASSUME NEW s \in Senders, PushLink(s) PROVE QueueTypes'
  BY <1>3, <1>types DEF QueueTypes, PushLink, At, NoMsg, tokens, receiver, control
<1>4. ASSUME NEW s \in Senders, DrainPop(s) PROVE QueueTypes'
  <2>1. CASE queue' = Tail(queue) /\ queue # <<>> /\ UNCHANGED received /\ Destroy
                /\ UNCHANGED <<unlinked, accepted, smsg>>
    <3>1. Head(queue) \in Nat /\ Tail(queue) \in Seq(Nat)
      BY <1>types, <2>1, PopsHead DEF QueueTypes
    <3>3. QED
      BY <1>types, <2>1, <3>1 DEF QueueTypes, Destroy
  <2>2. CASE UNCHANGED <<queue, received, destroyed>>
    BY <1>4, <1>types, <2>2 DEF QueueTypes, DrainPop, tokens, receiver, control
  <2>3. QED
    BY <1>4, <1>types, <2>1, <2>2 DEF DrainPop, At, Poppable, Destroy, tokens, receiver, control
<1>5. ASSUME
       OldWoken \/ OldAborted \/ RecvCall \/ TryHead \/ FoldSwap \/ Fold \/ TryLook \/ TryAgainHead
       \/ Decrement \/ DecrementSub \/ DecrementDisc \/ DecrementFailed \/ WaitDone \/ WaitAborted
       \/ CanRecv \/ StartCancelBump \/ AbortLoad \/ AbortBump \/ AbortDisc \/ AbortFinish \/
       DropPort \/ DropCas
       PROVE  QueueTypes'
  BY <1>5, <1>same DEF OldWoken, packet, tokens, sender, OldAborted, RecvCall, TryHead, FoldSwap,
       Fold, TryLook, TryAgainHead, Decrement, DecrementSub, DecrementDisc, DecrementFailed,
       WaitDone, WaitAborted, CanRecv, StartCancelBump, AbortLoad, AbortBump, AbortDisc,
       AbortFinish, DropPort, DropCas
<1>6. ASSUME TryPop PROVE QueueTypes'
  <2>1. CASE queue' = Tail(queue) /\ queue # <<>> /\ UNCHANGED destroyed /\ received' = Append(received, Head(queue))
                /\ UNCHANGED <<unlinked, accepted, smsg>>
    <3>1. Head(queue) \in Nat /\ Tail(queue) \in Seq(Nat)
      BY <1>types, <2>1, PopsHead DEF QueueTypes
    <3>3. QED
      BY <1>types, <2>1, <3>1, PushesLast DEF QueueTypes
  <2>2. CASE UNCHANGED <<queue, received, destroyed>>
    BY <1>6, <1>types, <2>2 DEF QueueTypes, TryPop, tokens, sender
  <2>3. QED
    BY <1>6, <1>types, <2>1, <2>2 DEF TryPop, Found, FoldDue, Poppable, Return, tokens, sender
<1>7. ASSUME Folded PROVE QueueTypes'
  <2>1. CASE queue' = Tail(queue) /\ queue # <<>> /\ UNCHANGED destroyed /\ received' = Append(received, Head(queue))
                /\ UNCHANGED <<unlinked, accepted, smsg>>
    <3>1. Head(queue) \in Nat /\ Tail(queue) \in Seq(Nat)
      BY <1>types, <2>1, PopsHead DEF QueueTypes
    <3>3. QED
      BY <1>types, <2>1, <3>1, PushesLast DEF QueueTypes
  <2>2. CASE UNCHANGED <<queue, received, destroyed>>
    BY <1>7, <1>types, <2>2 DEF QueueTypes, Folded, tokens, sender
  <2>3. QED
    BY <1>7, <1>types, <2>1, <2>2, <1>popfold DEF Folded, Found, Return, tokens, sender
<1>8. ASSUME TryAgain PROVE QueueTypes'
  <2>1. CASE queue' = Tail(queue) /\ queue # <<>> /\ UNCHANGED destroyed /\ received' = Append(received, Head(queue))
                /\ UNCHANGED <<unlinked, accepted, smsg>>
    <3>1. Head(queue) \in Nat /\ Tail(queue) \in Seq(Nat)
      BY <1>types, <2>1, PopsHead DEF QueueTypes
    <3>3. QED
      BY <1>types, <2>1, <3>1, PushesLast DEF QueueTypes
  <2>2. CASE UNCHANGED <<queue, received, destroyed>>
    BY <1>8, <1>types, <2>2 DEF QueueTypes, TryAgain, tokens, sender
  <2>3. QED
    BY <1>8, <1>types, <2>1, <2>2 DEF TryAgain, Found, Poppable, Return, tokens, sender
<1>9. ASSUME DropDrain PROVE QueueTypes'
  <2>1. CASE queue' = Tail(queue) /\ queue # <<>> /\ UNCHANGED received /\ Destroy
                /\ UNCHANGED <<unlinked, accepted, smsg>>
    <3>1. Head(queue) \in Nat /\ Tail(queue) \in Seq(Nat)
      BY <1>types, <2>1, PopsHead DEF QueueTypes
    <3>3. QED
      BY <1>types, <2>1, <3>1 DEF QueueTypes, Destroy
  <2>2. CASE UNCHANGED <<queue, received, destroyed>>
    BY <1>9, <1>types, <2>2 DEF QueueTypes, DropDrain, tokens, sender
  <2>3. QED
    BY <1>9, <1>types, <2>1, <2>2 DEF DropDrain, Poppable, Destroy, tokens, sender
<1>10. CASE Terminated
  BY <1>10, <1>same DEF Terminated, vars, packet, tokens, sender, receiver, control
<1>11. QED
  BY <1>1, <1>2, <1>3, <1>4, <1>5, <1>6, <1>7, <1>8, <1>9, <1>10 DEF Next, SenderStep, ReceiverStep

\* Every step keeps the counters integers, wrapped additions included.
LEMMA CountTypesStep ==
  ASSUME IInv, Next
  PROVE  CountTypes'
<1>types. CountTypes
  BY DEF IInv, TypeInv
<1>same. ASSUME UNCHANGED <<cnt, steals, local, channels, drain, portDropped, locked>> PROVE CountTypes'
  BY <1>same, <1>types DEF CountTypes
<1>1. ASSUME NEW s \in Senders,
       Inherit(s) \/ SendCall(s) \/ SendCheck(s) \/ PushSwap(s) \/ PushLink(s) \/ TakeLoad(s) \/
       TakeClear(s) \/ Signal(s) \/ DrainPop(s) \/ DrainHead(s)
       PROVE  CountTypes'
  BY <1>1, <1>same DEF Inherit, tokens, receiver, control, SendCall, packet, SendCheck, PushSwap,
       PushLink, TakeLoad, TakeClear, Signal, DrainPop, DrainHead
<1>2. ASSUME NEW s \in Senders, InheritCnt(s) PROVE CountTypes'
  BY <1>2, <1>types, Numbers, WrapType DEF CountTypes, InheritCnt, At, tokens, receiver, control
<1>3. ASSUME NEW s \in Senders, InheritSteals(s) PROVE CountTypes'
  BY <1>3, <1>types, Numbers, WrapType DEF CountTypes, InheritSteals, At, InheritedSteals, packet,
       tokens, control
<1>4. ASSUME NEW s \in Senders, InheritUnlock(s) PROVE CountTypes'
  BY <1>4, <1>types, Numbers, WrapType DEF CountTypes, InheritUnlock, tokens, receiver, control
<1>5. ASSUME NEW s \in Senders, CloneChan(s) PROVE CountTypes'
  BY <1>5, <1>types, Numbers, WrapType DEF CountTypes, CloneChan, At, tokens, receiver, control
<1>6. ASSUME NEW s \in Senders, DropChan(s) PROVE CountTypes'
  BY <1>6, <1>types, Numbers, WrapType DEF CountTypes, DropChan, At, tokens, receiver, control
<1>7. ASSUME NEW s \in Senders, DropSwap(s) PROVE CountTypes'
  BY <1>7, <1>types, Numbers, WrapType DEF CountTypes, DropSwap, At, tokens, receiver, control
<1>8. ASSUME NEW s \in Senders, SendAdd(s) PROVE CountTypes'
  BY <1>8, <1>types, Numbers, WrapType DEF CountTypes, SendAdd, At, SeesWaiter, Disconnected,
       tokens, receiver, control
<1>9. ASSUME NEW s \in Senders, SendDisconnected(s) PROVE CountTypes'
  BY <1>9, <1>types, Numbers, WrapType DEF CountTypes, SendDisconnected, At, tokens, receiver,
       control
<1>10. ASSUME NEW s \in Senders, DrainEnter(s) PROVE CountTypes'
  BY <1>10, <1>types, Numbers, WrapType DEF CountTypes, DrainEnter, At, tokens, receiver, control
<1>11. ASSUME NEW s \in Senders, DrainLeave(s) PROVE CountTypes'
  BY <1>11, <1>types, Numbers, WrapType DEF CountTypes, DrainLeave, At, LastDrainer, tokens,
       receiver, control
<1>12. ASSUME
       OldWoken \/ OldAborted \/ RecvCall \/ TryHead \/ TryLook \/ TryAgainHead \/ WaitDone \/
       WaitAborted \/ CanRecv
       PROVE  CountTypes'
  BY <1>12, <1>same DEF OldWoken, packet, tokens, sender, OldAborted, RecvCall, TryHead, TryLook,
       TryAgainHead, WaitDone, WaitAborted, CanRecv
<1>13. ASSUME TryPop PROVE CountTypes'
  <2>1. UNCHANGED <<cnt, local, channels, drain, portDropped, locked>> /\ steals' \in Int
    BY <1>13, <1>types DEF CountTypes, TryPop, Found
  <2>2. QED
    BY <1>types, <2>1 DEF CountTypes
<1>14. ASSUME FoldSwap PROVE CountTypes'
  BY <1>14, <1>types, Numbers, WrapType DEF CountTypes, FoldSwap, Foldable, AddBack, tokens, sender
<1>15. ASSUME Fold PROVE CountTypes'
  BY <1>15, <1>types, Numbers, WrapType DEF CountTypes, Fold, tokens, sender
<1>16. ASSUME Folded PROVE CountTypes'
  BY <1>16, <1>types, Numbers, WrapType DEF CountTypes, Folded, Found, Return, tokens, sender
<1>17. ASSUME TryAgain PROVE CountTypes'
  <2>1. UNCHANGED <<cnt, local, channels, drain, portDropped, locked>> /\ steals' \in Int
    BY <1>17, <1>types DEF CountTypes, TryAgain, Found, tokens, sender
  <2>2. QED
    BY <1>types, <2>1 DEF CountTypes
<1>18. ASSUME Decrement PROVE CountTypes'
  BY <1>18, <1>types, Numbers, WrapType DEF CountTypes, Decrement, NoToken, tokens, sender
<1>19. ASSUME DecrementSub PROVE CountTypes'
  BY <1>19, <1>types, Numbers, WrapType DEF CountTypes, DecrementSub, tokens, sender
<1>20. ASSUME DecrementDisc PROVE CountTypes'
  BY <1>20, <1>types, Numbers, WrapType DEF CountTypes, DecrementDisc, tokens, sender
<1>21. ASSUME DecrementFailed PROVE CountTypes'
  BY <1>21, <1>types, Numbers, WrapType DEF CountTypes, DecrementFailed, Free, NoToken, sender
<1>22. ASSUME StartCancelBump PROVE CountTypes'
  BY <1>22, <1>types, Numbers, WrapType DEF CountTypes, StartCancelBump, Return, tokens, sender
<1>23. ASSUME AbortLoad PROVE CountTypes'
  BY <1>23, <1>types, Numbers, WrapType DEF CountTypes, AbortLoad, UpgradeDone, packet, tokens,
       sender
<1>24. ASSUME AbortBump PROVE CountTypes'
  BY <1>24, <1>types, Numbers, WrapType DEF CountTypes, AbortBump, tokens, sender
<1>25. ASSUME AbortDisc PROVE CountTypes'
  BY <1>25, <1>types, Numbers, WrapType DEF CountTypes, AbortDisc, AbortReturn, NoToken, Return,
       tokens, sender
<1>26. ASSUME AbortFinish PROVE CountTypes'
  BY <1>26, <1>types, Numbers, WrapType DEF CountTypes, AbortFinish, Free, AbortReturn, NoToken,
       Return, sender
<1>27. ASSUME DropPort PROVE CountTypes'
  BY <1>27, <1>types, Numbers, WrapType DEF CountTypes, DropPort, tokens, sender
<1>28. ASSUME DropCas PROVE CountTypes'
  BY <1>28, <1>types, Numbers, WrapType DEF CountTypes, DropCas, tokens, sender
<1>29. ASSUME DropDrain PROVE CountTypes'
  <2>1. UNCHANGED <<cnt, steals, channels, drain, portDropped, locked>> /\ local' \in Int
    BY <1>29, <1>types DEF CountTypes, DropDrain
  <2>2. QED
    BY <1>types, <2>1 DEF CountTypes
<1>30. CASE Terminated
  BY <1>30, <1>same DEF Terminated, vars, packet, tokens, sender, receiver, control
<1>31. QED
  BY <1>1, <1>2, <1>3, <1>4, <1>5, <1>6, <1>7, <1>8, <1>9, <1>10, <1>11, <1>12, <1>13, <1>14, <1>15,
       <1>16, <1>17, <1>18, <1>19, <1>20, <1>21, <1>22, <1>23, <1>24, <1>25, <1>26, <1>27, <1>28,
       <1>29, <1>30 DEF Next, SenderStep, ReceiverStep

\* Every step keeps tokens numbers, and casts back none that was never made.
LEMMA TokenTypesStep ==
  ASSUME IInv, Next
  PROVE  TokenTypes'
<1>types. TokenTypes
  BY DEF IInv, TypeInv
<1>same. ASSUME UNCHANGED <<woken, freed, stok, toWake, rtok, blocks>> PROVE TokenTypes'
  BY <1>same, <1>types DEF TokenTypes
<1>1. ASSUME NEW s \in Senders,
       InheritCnt(s) \/ InheritSteals(s) \/ InheritUnlock(s) \/ SendCall(s) \/ CloneChan(s) \/
       DropChan(s) \/ DropSwap(s) \/ SendCheck(s) \/ PushSwap(s) \/ PushLink(s) \/ SendAdd(s) \/
       SendDisconnected(s) \/ DrainEnter(s) \/ DrainPop(s) \/ DrainHead(s) \/ DrainLeave(s)
       PROVE  TokenTypes'
  BY <1>1, <1>same DEF InheritCnt, tokens, receiver, control, InheritSteals, packet, InheritUnlock,
       SendCall, CloneChan, DropChan, DropSwap, SendCheck, PushSwap, PushLink, SendAdd,
       SendDisconnected, DrainEnter, DrainPop, DrainHead, DrainLeave
<1>2. ASSUME NEW s \in Senders, Inherit(s) PROVE TokenTypes'
  BY <1>2, <1>types DEF TokenTypes, Inherit, At, NoToken, tokens, receiver, control
<1>3. ASSUME NEW s \in Senders, TakeLoad(s) PROVE TokenTypes'
  BY <1>3, <1>types DEF TokenTypes, TakeLoad, At, NoToken, packet, tokens, receiver, control
<1>4. ASSUME NEW s \in Senders, TakeClear(s) PROVE TokenTypes'
  BY <1>4, <1>types DEF TokenTypes, TakeClear, At, NoToken, tokens, receiver, control
<1>5. ASSUME NEW s \in Senders, Signal(s) PROVE TokenTypes'
  <2>1. Free(stok[s])
    BY <1>5 DEF Signal
  <2>2. freed' \in [Tokens -> Nat]
    BY <1>types, <2>1, FreeType DEF TokenTypes
  <2>3. QED
    BY <1>5, <1>types, <2>2 DEF TokenTypes, Signal, At, NoToken, packet, receiver, control
<1>6. ASSUME
       RecvCall \/ TryPop \/ TryHead \/ FoldSwap \/ Fold \/ Folded \/ TryLook \/ TryAgain \/
       TryAgainHead \/ DecrementSub \/ DecrementDisc \/ WaitAborted \/ CanRecv \/ StartCancelBump \/
       AbortLoad \/ AbortBump \/ DropPort \/ DropCas \/ DropDrain
       PROVE  TokenTypes'
  BY <1>6, <1>same DEF RecvCall, packet, tokens, sender, TryPop, TryHead, FoldSwap, Fold, Folded,
       TryLook, TryAgain, TryAgainHead, DecrementSub, DecrementDisc, WaitAborted, CanRecv,
       StartCancelBump, AbortLoad, AbortBump, DropPort, DropCas, DropDrain
<1>7. ASSUME OldWoken PROVE TokenTypes'
  BY <1>7, <1>types DEF TokenTypes, OldWoken, NoToken, packet, tokens, sender
<1>8. ASSUME OldAborted PROVE TokenTypes'
  BY <1>8, <1>types DEF TokenTypes, OldAborted, NoToken, packet, tokens, sender
<1>9. ASSUME Decrement PROVE TokenTypes'
  BY <1>9, <1>types DEF TokenTypes, Decrement, NoToken, tokens, sender
<1>10. ASSUME DecrementFailed PROVE TokenTypes'
  <2>1. Free(rtok)
    BY <1>10 DEF DecrementFailed
  <2>2. freed' \in [Tokens -> Nat]
    BY <1>types, <2>1, FreeType DEF TokenTypes
  <2>3. QED
    BY <1>10, <1>types, <2>2 DEF TokenTypes, DecrementFailed, NoToken, sender
<1>11. ASSUME WaitDone PROVE TokenTypes'
  BY <1>11, <1>types DEF TokenTypes, WaitDone, NoToken, packet, tokens, sender
<1>12. ASSUME AbortDisc PROVE TokenTypes'
  BY <1>12, <1>types DEF TokenTypes, AbortDisc, AbortReturn, NoToken, Return, tokens, sender
<1>13. ASSUME AbortFinish PROVE TokenTypes'
  BY <1>13, <1>types DEF TokenTypes, AbortFinish, Free, AbortReturn, NoToken, Return, sender
<1>14. CASE Terminated
  BY <1>14, <1>same DEF Terminated, vars, packet, tokens, sender, receiver, control
<1>15. QED
  BY <1>1, <1>2, <1>3, <1>4, <1>5, <1>6, <1>7, <1>8, <1>9, <1>10, <1>11, <1>12, <1>13, <1>14 DEF
       Next, SenderStep, ReceiverStep

\* Every step leaves the receiver in a known call with a known result.
LEMMA CallTypesStep ==
  ASSUME IInv, Next
  PROVE  CallTypes'
<1>types. CallTypes
  BY DEF IInv, TypeInv
<1>same. ASSUME UNCHANGED <<rmode, final, aborted, rres, sent, clones>> PROVE CallTypes'
  BY <1>same, <1>types DEF CallTypes, Modes, Aborts
<1>1. ASSUME NEW s \in Senders,
       Inherit(s) \/ InheritCnt(s) \/ InheritSteals(s) \/ InheritUnlock(s) \/ DropChan(s) \/
       DropSwap(s) \/ SendCheck(s) \/ PushSwap(s) \/ PushLink(s) \/ SendAdd(s) \/ TakeLoad(s) \/
       TakeClear(s) \/ Signal(s) \/ SendDisconnected(s) \/ DrainEnter(s) \/ DrainPop(s) \/
       DrainHead(s) \/ DrainLeave(s)
       PROVE  CallTypes'
  BY <1>1, <1>same DEF Inherit, tokens, receiver, control, InheritCnt, InheritSteals, packet,
       InheritUnlock, DropChan, DropSwap, SendCheck, PushSwap, PushLink, SendAdd, TakeLoad,
       TakeClear, Signal, SendDisconnected, DrainEnter, DrainPop, DrainHead, DrainLeave
<1>2. ASSUME NEW s \in Senders, SendCall(s) PROVE CallTypes'
  BY <1>2, <1>types, SharedAssumption DEF CallTypes, Modes, Aborts, SendCall, At, packet, tokens,
       receiver, control
<1>3. ASSUME NEW s \in Senders, CloneChan(s) PROVE CallTypes'
  BY <1>3, <1>types, SharedAssumption DEF CallTypes, Modes, Aborts, CloneChan, At, tokens, receiver,
       control
<1>4. ASSUME
       OldWoken \/ TryHead \/ FoldSwap \/ Fold \/ Decrement \/ DecrementSub \/ DecrementDisc \/
       AbortLoad \/ AbortBump \/ DropPort \/ DropCas \/ DropDrain
       PROVE  CallTypes'
  BY <1>4, <1>same DEF OldWoken, packet, tokens, sender, TryHead, FoldSwap, Fold, Decrement,
       DecrementSub, DecrementDisc, AbortLoad, AbortBump, DropPort, DropCas, DropDrain
<1>5. ASSUME OldAborted PROVE CallTypes'
  BY <1>5, <1>types, SharedAssumption DEF CallTypes, Modes, Aborts, OldAborted, NoToken, packet,
       tokens, sender
<1>6. ASSUME RecvCall PROVE CallTypes'
  BY <1>6, <1>types, SharedAssumption DEF CallTypes, Modes, Aborts, RecvCall, packet, tokens, sender
<1>7. ASSUME TryPop PROVE CallTypes'
  BY <1>7, <1>types, SharedAssumption DEF CallTypes, Modes, Aborts, TryPop, Found, FoldDue,
       Poppable, Return, tokens, sender
<1>8. ASSUME Folded PROVE CallTypes'
  BY <1>8, <1>types, SharedAssumption DEF CallTypes, Modes, Aborts, Folded, Found, Return, tokens,
       sender
<1>9. ASSUME TryLook PROVE CallTypes'
  BY <1>9, <1>types, SharedAssumption DEF CallTypes, Modes, Aborts, TryLook, Return, SawHangup,
       packet, tokens, sender
<1>10. ASSUME TryAgain PROVE CallTypes'
  BY <1>10, <1>types, SharedAssumption DEF CallTypes, Modes, Aborts, TryAgain, Found, Poppable,
       Return, tokens, sender
<1>11. ASSUME TryAgainHead PROVE CallTypes'
  BY <1>11, <1>types, SharedAssumption DEF CallTypes, Modes, Aborts, TryAgainHead, Return, IsEmpty,
       Disconnected, packet, tokens, sender
<1>12. ASSUME DecrementFailed PROVE CallTypes'
  BY <1>12, <1>types, SharedAssumption DEF CallTypes, Modes, Aborts, DecrementFailed, Free, NoToken,
       sender
<1>13. ASSUME WaitDone PROVE CallTypes'
  BY <1>13, <1>types, SharedAssumption DEF CallTypes, Modes, Aborts, WaitDone, NoToken, packet,
       tokens, sender
<1>14. ASSUME WaitAborted PROVE CallTypes'
  BY <1>14, <1>types, SharedAssumption DEF CallTypes, Modes, Aborts, WaitAborted, packet, tokens,
       sender
<1>15. ASSUME CanRecv PROVE CallTypes'
  BY <1>15, <1>types, SharedAssumption DEF CallTypes, Modes, Aborts, CanRecv, Return, packet,
       tokens, sender
<1>16. ASSUME StartCancelBump PROVE CallTypes'
  BY <1>16, <1>types, SharedAssumption DEF CallTypes, Modes, Aborts, StartCancelBump, Return,
       tokens, sender
<1>17. ASSUME AbortDisc PROVE CallTypes'
  BY <1>17, <1>types, SharedAssumption DEF CallTypes, Modes, Aborts, AbortDisc, AbortReturn,
       NoToken, Return, tokens, sender
<1>18. ASSUME AbortFinish PROVE CallTypes'
  BY <1>18, <1>types, SharedAssumption DEF CallTypes, Modes, Aborts, AbortFinish, Free, AbortReturn,
       NoToken, Return, sender
<1>19. CASE Terminated
  BY <1>19, <1>same DEF Terminated, vars, packet, tokens, sender, receiver, control
<1>20. QED
  BY <1>1, <1>2, <1>3, <1>4, <1>5, <1>6, <1>7, <1>8, <1>9, <1>10, <1>11, <1>12, <1>13, <1>14, <1>15,
       <1>16, <1>17, <1>18, <1>19 DEF Next, SenderStep, ReceiverStep

\* Every step takes senders and receiver to a known location.
LEMMA LocTypesStep ==
  ASSUME IInv, Next
  PROVE  LocTypes'
<1>types. LocTypes
  BY DEF IInv, TypeInv
<1>same. ASSUME UNCHANGED <<spc, rpc>> PROVE LocTypes'
  BY <1>same, <1>types DEF LocTypes
<1>1. ASSUME NEW s \in Senders, Inherit(s) PROVE LocTypes'
  BY <1>1, <1>types DEF LocTypes, SenderLocs, ReceiverLocs, TryLocs, AbortLocs, Block, Inherit, At,
       NoToken, tokens, receiver, control
<1>2. ASSUME NEW s \in Senders, InheritCnt(s) PROVE LocTypes'
  BY <1>2, <1>types DEF LocTypes, SenderLocs, ReceiverLocs, TryLocs, AbortLocs, Block, InheritCnt,
       At, tokens, receiver, control
<1>3. ASSUME NEW s \in Senders, InheritSteals(s) PROVE LocTypes'
  BY <1>3, <1>types DEF LocTypes, SenderLocs, ReceiverLocs, TryLocs, AbortLocs, Block,
       InheritSteals, At, InheritedSteals, packet, tokens, control
<1>4. ASSUME NEW s \in Senders, InheritUnlock(s) PROVE LocTypes'
  BY <1>4, <1>types DEF LocTypes, SenderLocs, ReceiverLocs, TryLocs, AbortLocs, Block,
       InheritUnlock, tokens, receiver, control
<1>5. ASSUME NEW s \in Senders, SendCall(s) PROVE LocTypes'
  BY <1>5, <1>types DEF LocTypes, SenderLocs, ReceiverLocs, TryLocs, AbortLocs, Block, SendCall, At,
       packet, tokens, receiver, control
<1>6. ASSUME NEW s \in Senders, CloneChan(s) PROVE LocTypes'
  BY <1>6, <1>types DEF LocTypes, SenderLocs, ReceiverLocs, TryLocs, AbortLocs, Block, CloneChan,
       At, tokens, receiver, control
<1>7. ASSUME NEW s \in Senders, DropChan(s) PROVE LocTypes'
  BY <1>7, <1>types DEF LocTypes, SenderLocs, ReceiverLocs, TryLocs, AbortLocs, Block, DropChan, At,
       tokens, receiver, control
<1>8. ASSUME NEW s \in Senders, DropSwap(s) PROVE LocTypes'
  BY <1>8, <1>types DEF LocTypes, SenderLocs, ReceiverLocs, TryLocs, AbortLocs, Block, DropSwap, At,
       tokens, receiver, control
<1>9. ASSUME NEW s \in Senders, SendCheck(s) PROVE LocTypes'
  BY <1>9, <1>types DEF LocTypes, SenderLocs, ReceiverLocs, TryLocs, AbortLocs, Block, SendCheck,
       At, packet, tokens, receiver, control
<1>10. ASSUME NEW s \in Senders, PushSwap(s) PROVE LocTypes'
  BY <1>10, <1>types DEF LocTypes, SenderLocs, ReceiverLocs, TryLocs, AbortLocs, Block, PushSwap,
       At, tokens, receiver, control
<1>11. ASSUME NEW s \in Senders, PushLink(s) PROVE LocTypes'
  BY <1>11, <1>types DEF LocTypes, SenderLocs, ReceiverLocs, TryLocs, AbortLocs, Block, PushLink,
       At, NoMsg, tokens, receiver, control
<1>12. ASSUME NEW s \in Senders, SendAdd(s) PROVE LocTypes'
  BY <1>12, <1>types DEF LocTypes, SenderLocs, ReceiverLocs, TryLocs, AbortLocs, Block, SendAdd, At,
       SeesWaiter, Disconnected, tokens, receiver, control
<1>13. ASSUME NEW s \in Senders, TakeLoad(s) PROVE LocTypes'
  BY <1>13, <1>types DEF LocTypes, SenderLocs, ReceiverLocs, TryLocs, AbortLocs, Block, TakeLoad,
       At, NoToken, packet, tokens, receiver, control
<1>14. ASSUME NEW s \in Senders, TakeClear(s) PROVE LocTypes'
  BY <1>14, <1>types DEF LocTypes, SenderLocs, ReceiverLocs, TryLocs, AbortLocs, Block, TakeClear,
       At, NoToken, tokens, receiver, control
<1>15. ASSUME NEW s \in Senders, Signal(s) PROVE LocTypes'
  BY <1>15, <1>types DEF LocTypes, SenderLocs, ReceiverLocs, TryLocs, AbortLocs, Block, Signal, At,
       Free, NoToken, packet, receiver, control
<1>16. ASSUME NEW s \in Senders, SendDisconnected(s) PROVE LocTypes'
  BY <1>16, <1>types DEF LocTypes, SenderLocs, ReceiverLocs, TryLocs, AbortLocs, Block,
       SendDisconnected, At, tokens, receiver, control
<1>17. ASSUME NEW s \in Senders, DrainEnter(s) PROVE LocTypes'
  BY <1>17, <1>types DEF LocTypes, SenderLocs, ReceiverLocs, TryLocs, AbortLocs, Block, DrainEnter,
       At, tokens, receiver, control
<1>18. ASSUME NEW s \in Senders, DrainPop(s) PROVE LocTypes'
  BY <1>18, <1>types DEF LocTypes, SenderLocs, ReceiverLocs, TryLocs, AbortLocs, Block, DrainPop,
       At, Poppable, Destroy, tokens, receiver, control
<1>19. ASSUME NEW s \in Senders, DrainHead(s) PROVE LocTypes'
  BY <1>19, <1>types DEF LocTypes, SenderLocs, ReceiverLocs, TryLocs, AbortLocs, Block, DrainHead,
       At, packet, tokens, receiver, control
<1>20. ASSUME NEW s \in Senders, DrainLeave(s) PROVE LocTypes'
  BY <1>20, <1>types DEF LocTypes, SenderLocs, ReceiverLocs, TryLocs, AbortLocs, Block, DrainLeave,
       At, LastDrainer, tokens, receiver, control
<1>21. ASSUME OldWoken PROVE LocTypes'
  BY <1>21, <1>types DEF LocTypes, SenderLocs, ReceiverLocs, TryLocs, AbortLocs, Block, OldWoken,
       NoToken, packet, tokens, sender
<1>22. ASSUME OldAborted PROVE LocTypes'
  BY <1>22, <1>types DEF LocTypes, SenderLocs, ReceiverLocs, TryLocs, AbortLocs, Block, OldAborted,
       NoToken, packet, tokens, sender
<1>23. ASSUME RecvCall PROVE LocTypes'
  BY <1>23, <1>types DEF LocTypes, SenderLocs, ReceiverLocs, TryLocs, AbortLocs, Block, RecvCall,
       packet, tokens, sender
<1>24. ASSUME TryPop PROVE LocTypes'
  BY <1>24, <1>types DEF LocTypes, SenderLocs, ReceiverLocs, TryLocs, AbortLocs, Block, TryPop,
       Found, FoldDue, Poppable, Return, tokens, sender
<1>25. ASSUME TryHead PROVE LocTypes'
  BY <1>25, <1>types DEF LocTypes, SenderLocs, ReceiverLocs, TryLocs, AbortLocs, Block, TryHead,
       IsEmpty, packet, tokens, sender
<1>26. ASSUME FoldSwap PROVE LocTypes'
  BY <1>26, <1>types DEF LocTypes, SenderLocs, ReceiverLocs, TryLocs, AbortLocs, Block, FoldSwap,
       Foldable, AddBack, tokens, sender
<1>27. ASSUME Fold PROVE LocTypes'
  BY <1>27, <1>types DEF LocTypes, SenderLocs, ReceiverLocs, TryLocs, AbortLocs, Block, Fold,
       tokens, sender
<1>28. ASSUME Folded PROVE LocTypes'
  BY <1>28, <1>types DEF LocTypes, SenderLocs, ReceiverLocs, TryLocs, AbortLocs, Block, Folded,
       Found, Return, tokens, sender
<1>29. ASSUME TryLook PROVE LocTypes'
  BY <1>29, <1>types DEF LocTypes, SenderLocs, ReceiverLocs, TryLocs, AbortLocs, Block, TryLook,
       Return, SawHangup, packet, tokens, sender
<1>30. ASSUME TryAgain PROVE LocTypes'
  BY <1>30, <1>types DEF LocTypes, SenderLocs, ReceiverLocs, TryLocs, AbortLocs, Block, TryAgain,
       Found, Poppable, Return, tokens, sender
<1>31. ASSUME TryAgainHead PROVE LocTypes'
  BY <1>31, <1>types DEF LocTypes, SenderLocs, ReceiverLocs, TryLocs, AbortLocs, Block,
       TryAgainHead, Return, IsEmpty, Disconnected, packet, tokens, sender
<1>32. ASSUME Decrement PROVE LocTypes'
  BY <1>32, <1>types DEF LocTypes, SenderLocs, ReceiverLocs, TryLocs, AbortLocs, Block, Decrement,
       NoToken, tokens, sender
<1>33. ASSUME DecrementSub PROVE LocTypes'
  BY <1>33, <1>types DEF LocTypes, SenderLocs, ReceiverLocs, TryLocs, AbortLocs, Block,
       DecrementSub, tokens, sender
<1>34. ASSUME DecrementDisc PROVE LocTypes'
  BY <1>34, <1>types DEF LocTypes, SenderLocs, ReceiverLocs, TryLocs, AbortLocs, Block,
       DecrementDisc, tokens, sender
<1>35. ASSUME DecrementFailed PROVE LocTypes'
  BY <1>35, <1>types DEF LocTypes, SenderLocs, ReceiverLocs, TryLocs, AbortLocs, Block,
       DecrementFailed, Free, NoToken, sender
<1>36. ASSUME WaitDone PROVE LocTypes'
  BY <1>36, <1>types DEF LocTypes, SenderLocs, ReceiverLocs, TryLocs, AbortLocs, Block, WaitDone,
       NoToken, packet, tokens, sender
<1>37. ASSUME WaitAborted PROVE LocTypes'
  BY <1>37, <1>types DEF LocTypes, SenderLocs, ReceiverLocs, TryLocs, AbortLocs, Block, WaitAborted,
       packet, tokens, sender
<1>38. ASSUME CanRecv PROVE LocTypes'
  BY <1>38, <1>types DEF LocTypes, SenderLocs, ReceiverLocs, TryLocs, AbortLocs, Block, CanRecv,
       Return, packet, tokens, sender
<1>39. ASSUME StartCancelBump PROVE LocTypes'
  BY <1>39, <1>types DEF LocTypes, SenderLocs, ReceiverLocs, TryLocs, AbortLocs, Block,
       StartCancelBump, Return, tokens, sender
<1>40. ASSUME AbortLoad PROVE LocTypes'
  BY <1>40, <1>types DEF LocTypes, SenderLocs, ReceiverLocs, TryLocs, AbortLocs, Block, AbortLoad,
       UpgradeDone, packet, tokens, sender
<1>41. ASSUME AbortBump PROVE LocTypes'
  BY <1>41, <1>types DEF LocTypes, SenderLocs, ReceiverLocs, TryLocs, AbortLocs, Block, AbortBump,
       tokens, sender
<1>42. ASSUME AbortDisc PROVE LocTypes'
  BY <1>42, <1>types DEF LocTypes, SenderLocs, ReceiverLocs, TryLocs, AbortLocs, Block, AbortDisc,
       AbortReturn, NoToken, Return, tokens, sender
<1>43. ASSUME AbortFinish PROVE LocTypes'
  BY <1>43, <1>types DEF LocTypes, SenderLocs, ReceiverLocs, TryLocs, AbortLocs, Block, AbortFinish,
       Free, AbortReturn, NoToken, Return, sender
<1>44. ASSUME DropPort PROVE LocTypes'
  BY <1>44, <1>types DEF LocTypes, SenderLocs, ReceiverLocs, TryLocs, AbortLocs, Block, DropPort,
       tokens, sender
<1>45. ASSUME DropCas PROVE LocTypes'
  BY <1>45, <1>types DEF LocTypes, SenderLocs, ReceiverLocs, TryLocs, AbortLocs, Block, DropCas,
       tokens, sender
<1>46. ASSUME DropDrain PROVE LocTypes'
  BY <1>46, <1>types DEF LocTypes, SenderLocs, ReceiverLocs, TryLocs, AbortLocs, Block, DropDrain,
       Poppable, Destroy, tokens, sender
<1>47. CASE Terminated
  BY <1>47, <1>same DEF Terminated, vars, packet, tokens, sender, receiver, control
<1>48. QED
  BY <1>1, <1>2, <1>3, <1>4, <1>5, <1>6, <1>7, <1>8, <1>9, <1>10, <1>11, <1>12, <1>13, <1>14, <1>15,
       <1>16, <1>17, <1>18, <1>19, <1>20, <1>21, <1>22, <1>23, <1>24, <1>25, <1>26, <1>27, <1>28,
       <1>29, <1>30, <1>31, <1>32, <1>33, <1>34, <1>35, <1>36, <1>37, <1>38, <1>39, <1>40, <1>41,
       <1>42, <1>43, <1>44, <1>45, <1>46, <1>47 DEF Next, SenderStep, ReceiverStep

-----------------------------------------------------------------------------
(* The range of the count                                                  *)

\* A handle that is in use keeps the channel open, and the last one's drop as well.
LEMMA OpenWhile ==
  ASSUME IInv
  PROVE  /\ \A s \in Senders : spc[s] \notin {"gone", "take", "clear", "signal"} => ~Over
         /\ \A s \in Senders :
              spc[s] \notin {"gone", "dropswap", "take", "clear", "signal"} => channels > 0
         /\ locked => ~Over
<1>1. HandleInv /\ LockInv /\ LocTypes /\ CountTypes
  BY DEF IInv, TypeInv
<1>2. QED
  BY <1>1 DEF Over, HandleInv, LockInv, LocTypes, CountTypes

\* While the port is open the count is far from both ends.
LEMMA CountRange ==
  ASSUME IInv, Open
  PROVE  /\ cnt \in Int /\ local \in Int /\ cnt >= -Cardinality(Senders) - 1
         /\ cnt <= MaxSends + MaxBlocks /\ Reached <= MaxSends + MaxBlocks
         /\ Inherited => cnt >= -Uncounted - 1
         /\ rpc = "sub" => local <= cnt + Cardinality(Senders)
<1>types. /\ cnt \in Int /\ local \in Int /\ steals \in Int /\ final \in BOOLEAN
          /\ accepted \in Nat /\ sent \in Nat /\ blocks \in Nat /\ Len(queue) \in Nat
  BY DEF IInv, TypeInv, CountTypes, CallTypes, QueueTypes, TokenTypes
<1>u. Uncounted \in Nat /\ Uncounted <= Cardinality(Senders) /\ Cardinality(Senders) \in Nat
  BY UncountedIs, CountBounds
<1>sent. accepted <= MaxSends /\ blocks <= MaxBlocks
  <2>1. HowMany({"check", "checkcnt", "push"}) \in Nat
    BY CountBounds DEF HowMany
  <2>2. QED
    BY <1>types, <2>1, Numbers DEF IInv, SendsInv, BlocksInv
<1>over. ~Over /\ rpc # "gone"
  BY DEF Open
<1>1. Limit \in Int /\ Limit <= MaxSends + MaxBlocks
  BY <1>types, <1>u, <1>sent, Numbers DEF Limit
<1>2. Reached <= Limit
  BY DEF IInv, LimitInv
<1>3. rpc \in {"foldbump", "abortbump"} => local >= 0
  BY DEF IInv, StealsInv
<1>4. Reached \in Int /\ cnt <= Reached
  BY <1>types, <1>3 DEF Reached
<1>5. cnt <= MaxSends + MaxBlocks /\ Reached <= MaxSends + MaxBlocks
  BY <1>types, <1>1, <1>2, <1>4, Numbers
<1>6. ASSUME Inherited
      PROVE  /\ cnt >= -Uncounted - 1
             /\ rpc = "sub" => local <= cnt + Cardinality(Senders)
  <2>1. cnt >= Due
    BY <1>6 DEF IInv, BalanceInv
  <2>2. StealsInv
    BY DEF IInv
  <2>3. Stolen \in Int /\ Stolen >= -1
    BY <1>types, <2>2, <1>over DEF Stolen, StealsInv
  <2>4. rpc = "foldbump" => cnt >= 0
    BY <2>2, <1>over DEF StealsInv
  <2>5. rpc \in {"sub", "aborttake", "abortspin", "dropcas", "dropdrain"} => local >= -1
    BY <2>2, <1>types DEF StealsInv
  <2>6. CASE rpc = "foldbump"
    BY <2>4, <2>6, <1>u, <1>types
  <2>7. CASE rpc # "foldbump"
    <3>1. Extra \in Int /\ Extra >= -1
      BY <2>3, <2>5, <2>7, <1>types DEF Extra
    <3>2. rpc = "sub" => Extra = local
      BY DEF Extra
    <3>3. QED
      BY <2>1, <3>1, <3>2, <1>types, <1>u DEF Due
  <2>8. QED
    BY <2>6, <2>7
<1>7. ASSUME ~Inherited PROVE cnt \in {0, -1} /\ (rpc = "sub" => local = 0 /\ cnt = 0)
  BY <1>7 DEF IInv, BirthInv, Inherited, Birth
<1>8. CASE Inherited
  <2>1. cnt >= -Uncounted - 1
    BY <1>6, <1>8
  <2>2. rpc = "sub" => local <= cnt + Cardinality(Senders)
    BY <1>6, <1>8
  <2>3. cnt >= -Cardinality(Senders) - 1
    BY <1>types, <1>u, <2>1
  <2>4. QED
    BY <1>types, <1>5, <2>1, <2>2, <2>3
<1>9. CASE ~Inherited
  BY <1>types, <1>u, <1>5, <1>7, <1>9
<1>10. QED
  BY <1>8, <1>9

\* Hence nothing overflows, an open port's count is not taken for a disconnected
\* one, and that of a port which is gone is.
LEMMA CountFacts ==
  ASSUME IInv
  PROVE  /\ Open => /\ cnt # DISCONNECTED /\ ~Disconnected(cnt) /\ Wrap(cnt + 1) = cnt + 1
                    /\ rpc = "sub" => Wrap(cnt - (1 + local)) = cnt - (1 + local)
                    /\ rpc = "abortbump" => Wrap(cnt + local + 1) = cnt + local + 1
                    /\ rpc = "foldbump" => Wrap(cnt + local) = cnt + local
         /\ rpc = "gone" => \A s \in Senders : spc[s] = "add" =>
              /\ Disconnected(cnt) /\ cnt < -1 /\ Wrap(cnt + 1) = cnt + 1
<1>n. Cardinality(Senders) \in Nat
  BY Numbers
<1>1. ASSUME Open
      PROVE  /\ cnt # DISCONNECTED /\ ~Disconnected(cnt) /\ Wrap(cnt + 1) = cnt + 1
             /\ rpc = "sub" => Wrap(cnt - (1 + local)) = cnt - (1 + local)
             /\ rpc = "abortbump" => Wrap(cnt + local + 1) = cnt + local + 1
             /\ rpc = "foldbump" => Wrap(cnt + local) = cnt + local
  <2>1. /\ cnt \in Int /\ local \in Int /\ cnt >= -Cardinality(Senders) - 1
        /\ cnt <= MaxSends + MaxBlocks /\ Reached <= MaxSends + MaxBlocks
        /\ rpc = "sub" => local <= cnt + Cardinality(Senders)
    BY <1>1, CountRange
  <2>2. cnt # DISCONNECTED /\ ~Disconnected(cnt)
    BY <2>1, Numbers DEF Disconnected
  <2>3. cnt + 1 \in Int /\ DISCONNECTED <= cnt + 1 /\ cnt + 1 <= ISIZE_MAX
    BY <2>1, Numbers
  <2>4. ASSUME rpc = "sub"
        PROVE  /\ cnt - (1 + local) \in Int /\ DISCONNECTED <= cnt - (1 + local)
               /\ cnt - (1 + local) <= ISIZE_MAX
    <3>1. local >= -1
      BY <2>4 DEF IInv, StealsInv
    <3>2. QED
      BY <2>1, <2>4, <3>1, Numbers
  <2>5. ASSUME rpc \in {"abortbump", "foldbump"}
        PROVE  /\ local >= 0 /\ cnt + local \in Int /\ cnt + local + 1 \in Int
               /\ DISCONNECTED <= cnt + local /\ DISCONNECTED <= cnt + local + 1
               /\ rpc = "abortbump" => cnt + local + 1 <= ISIZE_MAX
               /\ rpc = "foldbump" => cnt + local <= ISIZE_MAX
    <3>1. local >= 0
      BY <2>5 DEF IInv, StealsInv
    <3>2. (rpc = "abortbump" => Reached = cnt + local + 1)
          /\ (rpc = "foldbump" => Reached = cnt + local)
      BY <2>1 DEF Reached
    <3>3. QED
      BY <2>1, <2>5, <3>1, <3>2, Numbers
  <2>6. Wrap(cnt + 1) = cnt + 1
    BY <2>3, NoWrap
  <2>7. rpc = "sub" => Wrap(cnt - (1 + local)) = cnt - (1 + local)
    BY <2>4, NoWrap
  <2>8. rpc = "abortbump" => Wrap(cnt + local + 1) = cnt + local + 1
    BY <2>5, NoWrap
  <2>9. rpc = "foldbump" => Wrap(cnt + local) = cnt + local
    BY <2>5, NoWrap
  <2>10. QED
    BY <2>2, <2>6, <2>7, <2>8, <2>9
<1>2. ASSUME rpc = "gone", NEW s \in Senders, spc[s] = "add"
      PROVE  Disconnected(cnt) /\ cnt < -1 /\ Wrap(cnt + 1) = cnt + 1
  <2>1. HowMany({"disc"}) \in Nat /\ HowMany({"disc"}) <= Cardinality(Senders) - 1
    BY <1>2, CountBounds DEF HowMany
  <2>2. cnt \in Int /\ DISCONNECTED <= cnt /\ cnt <= DISCONNECTED + HowMany({"disc"})
    BY <1>2, Numbers, <2>1 DEF IInv, GoneInv
  <2>3. Disconnected(cnt) /\ cnt < -1 /\ cnt + 1 <= ISIZE_MAX
    BY <2>1, <2>2, Numbers DEF Disconnected
  <2>4. Wrap(cnt + 1) = cnt + 1
    BY <2>2, <2>3, Numbers, NoWrap
  <2>5. QED
    BY <2>3, <2>4
<1>3. QED
  BY <1>1, <1>2

\* The creator frees the lock when nothing else has begun.
LEMMA AtUnlock ==
  ASSUME IInv, NEW s \in Senders, spc[s] = "unlock"
  PROVE  /\ s = Creator /\ locked /\ s # Child /\ Child \in Senders /\ spc[Child] = "unborn"
         /\ channels = 2 /\ accepted = 0 /\ sent = 0
         /\ \A t \in Senders \ {Creator, Child} : spc[t] = "gone"
BY SharedAssumption DEF IInv, LockInv, Birth

-----------------------------------------------------------------------------
(* The senders' moves                                                      *)

\* The assertions of senders hold, but for inherit_blocker's.
LEMMA SendersAssert ==
  ASSUME IInv, NEW s \in Senders
  PROVE  /\ spc[s] = "dropswap" => cnt = -1 \/ cnt = DISCONNECTED \/ cnt >= 0
         /\ spc[s] = "take" => toWake # NoToken
         /\ spc[s] = "inherit" => (cnt = 0 /\ toWake = NoToken) \/ aborted = "upgrade"
<1>1. ASSUME spc[s] = "dropswap" PROVE cnt = -1 \/ cnt = DISCONNECTED \/ cnt >= 0
  <2>1. ~Over
    BY <1>1 DEF Over
  <2>2. HandleInv /\ CountTypes
    BY DEF IInv, TypeInv
  <2>3. \A t \in Senders : spc[t] \in {"gone", "dropswap", "take", "clear", "signal"}
    BY <1>1, <2>2 DEF HandleInv, CountTypes
  <2>4. Inherited
    BY <2>3, SharedAssumption DEF Inherited, Birth
  <2>5. CASE rpc = "gone"
    <3>1. HowMany({"disc"}) = 0
      BY <2>3, CountBounds DEF HowMany
    <3>2. cnt = DISCONNECTED
      BY <2>5, <3>1, Numbers DEF IInv, GoneInv
    <3>3. QED
      BY <3>2
  <2>6. CASE rpc # "gone"
    <3>1. Open
      BY <2>1, <2>6 DEF Open
    <3>2. Uncounted = 0
      BY <2>3, UncountedIs, CountBounds
    <3>3. cnt \in Int /\ cnt >= -1
      BY <2>4, <3>1, <3>2, CountRange
    <3>4. QED
      BY <3>3
  <2>7. QED
    BY <2>5, <2>6
<1>2. spc[s] = "take" => toWake # NoToken
  BY DEF IInv, TakerInv
<1>3. spc[s] = "inherit" => (cnt = 0 /\ toWake = NoToken) \/ aborted = "upgrade"
  <2>1. spc[s] = "inherit" => s = Creator
    BY DEF IInv, LockInv, Birth
  <2>2. QED
    BY <2>1 DEF IInv, BirthInv
<1>4. QED
  BY <1>1, <1>2, <1>3

\* Where each action takes its sender.
LEMMA Moves ==
  ASSUME IInv, NEW s \in Senders
  PROVE  /\ Inherit(s) => Move(s, {"inherit"}, {"inheritcnt", "panic_inherit"})
         /\ InheritCnt(s) => Move(s, {"inheritcnt"}, {"inheritsteals"})
         /\ InheritSteals(s) => Move(s, {"inheritsteals"}, {"unlock"})
         /\ SendCall(s) => Move(s, {"idle"}, {"check"})
         /\ DropChan(s) => Move(s, {"idle"}, {"dropswap", "gone"})
         /\ DropSwap(s) => Move(s, {"dropswap"}, {"take", "gone"})
         /\ SendCheck(s) => Move(s, {"check", "checkcnt"}, {"idle", "checkcnt", "push"})
         /\ PushSwap(s) => Move(s, {"push"}, {"link"})
         /\ PushLink(s) => Move(s, {"link"}, {"add"})
         /\ SendAdd(s) => Move(s, {"add"}, {"take", "disc", "idle"})
         /\ TakeLoad(s) => Move(s, {"take"}, {"clear"})
         /\ TakeClear(s) => Move(s, {"clear"}, {"signal"})
         /\ Signal(s) => Move(s, {"signal"}, {"gone", "idle"})
         /\ SendDisconnected(s) => Move(s, {"disc"}, {"enter"})
         /\ DrainEnter(s) => Move(s, {"enter"}, {"drain", "idle"})
         /\ DrainPop(s) => Move(s, {"drain"}, {"drain", "drainhead"})
         /\ DrainHead(s) => Move(s, {"drainhead"}, {"leave", "drain"})
         /\ DrainLeave(s) => Move(s, {"leave"}, {"idle", "drain"})
<1>types. spc \in [Senders -> SenderLocs]
  BY DEF IInv, TypeInv, LocTypes
<1>1. \A l : spc' = [spc EXCEPT ![s] = l] => spc'[s] = l /\ spc' = [spc EXCEPT ![s] = spc'[s]]
  BY <1>types
<1>2. spc' = spc => spc'[s] = spc[s] /\ spc' = [spc EXCEPT ![s] = spc'[s]]
  BY <1>types
<1>3. Inherit(s) => Move(s, {"inherit"}, {"inheritcnt", "panic_inherit"})
  BY <1>1 DEF Inherit, At, Move
<1>4. InheritCnt(s) => Move(s, {"inheritcnt"}, {"inheritsteals"})
  BY <1>1 DEF InheritCnt, At, Move
<1>5. InheritSteals(s) => Move(s, {"inheritsteals"}, {"unlock"})
  BY <1>1 DEF InheritSteals, At, Move
<1>6. SendCall(s) => Move(s, {"idle"}, {"check"})
  BY <1>1 DEF SendCall, At, Move
<1>7. DropChan(s) => Move(s, {"idle"}, {"dropswap", "gone"})
  BY <1>1 DEF DropChan, At, Move
<1>8. DropSwap(s) => Move(s, {"dropswap"}, {"take", "gone"})
  BY <1>1, SendersAssert DEF DropSwap, At, Move
<1>9. SendCheck(s) => Move(s, {"check", "checkcnt"}, {"idle", "checkcnt", "push"})
  BY <1>1 DEF SendCheck, At, Move
<1>10. PushSwap(s) => Move(s, {"push"}, {"link"})
  BY <1>1 DEF PushSwap, At, Move
<1>11. PushLink(s) => Move(s, {"link"}, {"add"})
  BY <1>1 DEF PushLink, At, Move
<1>12. SendAdd(s) => Move(s, {"add"}, {"take", "disc", "idle"})
  BY <1>1 DEF SendAdd, At, Move
<1>13. TakeLoad(s) => Move(s, {"take"}, {"clear"})
  BY <1>1, SendersAssert DEF TakeLoad, At, Move
<1>14. TakeClear(s) => Move(s, {"clear"}, {"signal"})
  BY <1>1 DEF TakeClear, At, Move
<1>15. Signal(s) => Move(s, {"signal"}, {"gone", "idle"})
  BY <1>1 DEF Signal, At, Move
<1>16. SendDisconnected(s) => Move(s, {"disc"}, {"enter"})
  BY <1>1 DEF SendDisconnected, At, Move
<1>17. DrainEnter(s) => Move(s, {"enter"}, {"drain", "idle"})
  BY <1>1 DEF DrainEnter, At, Move
<1>18. DrainPop(s) => Move(s, {"drain"}, {"drain", "drainhead"})
  BY <1>1, <1>2 DEF DrainPop, At, Move
<1>19. DrainHead(s) => Move(s, {"drainhead"}, {"leave", "drain"})
  BY <1>1 DEF DrainHead, At, Move
<1>20. DrainLeave(s) => Move(s, {"leave"}, {"idle", "drain"})
  BY <1>1 DEF DrainLeave, At, Move
<1>21. QED
  BY <1>3, <1>4, <1>5, <1>6, <1>7, <1>8, <1>9, <1>10, <1>11, <1>12, <1>13, <1>14, <1>15, <1>16,
     <1>17, <1>18, <1>19, <1>20

\* How many senders are somewhere after a move.
LEMMA MoveCounts ==
  ASSUME IInv, NEW s \in Senders, spc' = [spc EXCEPT ![s] = spc'[s]], NEW L
  PROVE  /\ Count(spc', L) = Count(spc, L) - (IF spc[s] \in L THEN 1 ELSE 0)
                                           + (IF spc'[s] \in L THEN 1 ELSE 0)
         /\ Count(spc, L) \in Nat /\ Count(spc', L) \in Nat
<1>1. DOMAIN spc = Senders
  BY DEF IInv, TypeInv, LocTypes
<1>2. Count(spc', L) = Count(spc, L) - (IF spc[s] \in L THEN 1 ELSE 0)
                                     + (IF spc'[s] \in L THEN 1 ELSE 0)
  BY <1>1, CountMoves
<1>3. Count(spc, L) \in Nat /\ Count(spc', L) \in Nat
  BY CountBounds
<1>4. QED
  BY <1>2, <1>3

-----------------------------------------------------------------------------
(* The messages                                                            *)

\* Who pops the head of the queue receives it or destroys it, next in order.
LEMMA PopOrder ==
  ASSUME IInv, queue # <<>>, queue' = Tail(queue), accepted' = accepted,
         \/ received' = Append(received, Head(queue)) /\ destroyed' = destroyed /\ destroyed = {}
         \/ received' = received /\ Destroy
  PROVE  OrderInv'
<1>types. queue \in Seq(Nat) /\ received \in Seq(Nat) /\ accepted \in Nat
  BY DEF IInv, TypeInv, QueueTypes
<1>inv. OrderInv
  BY DEF IInv
<1>1. /\ Head(queue) = queue[1] /\ Len(queue) \in Nat /\ Len(queue) >= 1
      /\ Len(queue') = Len(queue) - 1 /\ Head(queue) \in Nat
      /\ \A i \in 1..(Len(queue) - 1) : queue'[i] = queue[i + 1]
  BY <1>types, PopsHead
<1>2. Len(received) \in Nat /\ queue[1] = Popped + 1 /\ Popped \in Nat
      /\ Len(queue) <= accepted /\ Popped = accepted - Len(queue)
  BY <1>types, <1>inv, <1>1 DEF OrderInv, Popped
<1>3. Popped' = Popped + 1
  BY <1>types, <1>1 DEF Popped
<1>4. \A i \in 1..Len(queue') : queue'[i] = Popped' + i
  <2>1. ASSUME NEW i \in 1..Len(queue') PROVE queue'[i] = Popped' + i
    <3>1. i \in 1..(Len(queue) - 1) /\ i + 1 \in 1..Len(queue) /\ i \in Int
      BY <1>1
    <3>2. queue'[i] = queue[i + 1] /\ queue[i + 1] = Popped + (i + 1)
      BY <1>1, <1>inv, <3>1 DEF OrderInv
    <3>3. QED
      BY <1>2, <1>3, <3>1, <3>2
  <2>2. QED
    BY <2>1
<1>5. CASE received' = Append(received, Head(queue)) /\ destroyed' = destroyed /\ destroyed = {}
  <2>1. /\ Len(received') = Len(received) + 1
        /\ \A i \in 1..Len(received) : received'[i] = received[i]
        /\ received'[Len(received) + 1] = Popped + 1
    BY <1>types, <1>1, <1>2, <1>5, PushesLast
  <2>2. Len(received) = Popped
    <3>1. ~(Len(received) < Popped)
      <4>1. SUFFICES ASSUME Len(received) < Popped PROVE FALSE
        OBVIOUS
      <4>2. Popped \in (Len(received) + 1)..Popped
        BY <4>1, <1>2
      <4>3. QED
        BY <4>2, <1>5, <1>inv DEF OrderInv
    <3>2. QED
      BY <3>1, <1>2, <1>inv DEF OrderInv
  <2>3. \A i \in 1..Len(received') : received'[i] = i
    BY <2>1, <2>2, <1>2, <1>inv DEF OrderInv
  <2>4. (Len(received') + 1)..Popped' = {}
    BY <2>1, <2>2, <1>2, <1>3
  <2>5. QED
    BY <1>1, <1>2, <1>3, <1>4, <1>5, <1>types, <2>1, <2>2, <2>3, <2>4 DEF OrderInv
<1>6. CASE received' = received /\ Destroy
  <2>1. destroyed' = (Len(received) + 1)..(Popped + 1)
    BY <1>6, <1>1, <1>2, <1>inv DEF Destroy, OrderInv
  <2>2. QED
    BY <1>1, <1>2, <1>3, <1>4, <1>6, <1>inv, <1>types, <2>1 DEF OrderInv
<1>7. QED
  BY <1>5, <1>6

\* No step breaks the order of the messages or drops one.
LEMMA OrderInvStep ==
  ASSUME IInv, Next
  PROVE  OrderInv'
<1>inv. OrderInv
  BY DEF IInv
<1>empty. rpc \notin {"dropcas", "dropdrain", "gone"} => destroyed = {}
  BY DEF IInv, DestroyedInv
<1>popfold. rpc = "folded" => queue # <<>>
  BY DEF IInv, SeenInv, Poppable
<1>same. ASSUME UNCHANGED <<queue, accepted, received, destroyed>> PROVE OrderInv'
  BY <1>same, <1>inv DEF OrderInv, Popped
<1>1. ASSUME NEW s \in Senders,
       Inherit(s) \/ InheritCnt(s) \/ InheritSteals(s) \/ InheritUnlock(s) \/ SendCall(s) \/
       CloneChan(s) \/ DropChan(s) \/ DropSwap(s) \/ SendCheck(s) \/ PushLink(s) \/ SendAdd(s) \/
       TakeLoad(s) \/ TakeClear(s) \/ Signal(s) \/ SendDisconnected(s) \/ DrainEnter(s) \/
       DrainHead(s) \/ DrainLeave(s)
       PROVE  OrderInv'
  BY <1>1, <1>same DEF Inherit, tokens, receiver, control, InheritCnt, InheritSteals, packet,
       InheritUnlock, SendCall, CloneChan, DropChan, DropSwap, SendCheck, PushLink, SendAdd,
       TakeLoad, TakeClear, Signal, SendDisconnected, DrainEnter, DrainHead, DrainLeave
<1>2. ASSUME NEW s \in Senders, PushSwap(s) PROVE OrderInv'
  <2>types. queue \in Seq(Nat) /\ accepted \in Nat /\ Len(queue) \in Nat
    BY DEF IInv, TypeInv, QueueTypes
  <2>1. /\ Len(queue') = Len(queue) + 1 /\ accepted' = accepted + 1
        /\ \A i \in 1..Len(queue) : queue'[i] = queue[i]
        /\ queue'[Len(queue) + 1] = accepted + 1
    BY <1>2, <2>types, PushesLast DEF PushSwap
  <2>2. Popped' = Popped /\ Popped = accepted - Len(queue)
    BY <2>1, <2>types DEF Popped
  <2>3. UNCHANGED <<received, destroyed>>
    BY <1>2 DEF PushSwap, receiver
  <2>4. ASSUME NEW i \in 1..Len(queue') PROVE queue'[i] = Popped' + i
    <3>1. i \in 1..Len(queue) \/ i = Len(queue) + 1
      BY <2>1, <2>types
    <3>2. i \in 1..Len(queue) => queue'[i] = queue[i] /\ queue[i] = Popped + i
      BY <2>1, <1>inv DEF OrderInv
    <3>3. QED
      BY <3>1, <3>2, <2>1, <2>2, <2>types
  <2>5. QED
    BY <2>1, <2>2, <2>3, <2>4, <2>types, <1>inv DEF OrderInv
<1>3. ASSUME NEW s \in Senders, DrainPop(s) PROVE OrderInv'
  <2>1. CASE queue # <<>> /\ queue' = Tail(queue) /\ accepted' = accepted
             /\ received' = received /\ Destroy
    BY <2>1, PopOrder
  <2>2. CASE UNCHANGED <<queue, accepted, received, destroyed>>
    BY <1>same, <2>2
  <2>3. QED
    BY <1>3, <2>1, <2>2 DEF DrainPop, At, Poppable, Destroy, tokens, receiver, control
<1>4. ASSUME
       OldWoken \/ OldAborted \/ RecvCall \/ TryHead \/ FoldSwap \/ Fold \/ TryLook \/ TryAgainHead
       \/ Decrement \/ DecrementSub \/ DecrementDisc \/ DecrementFailed \/ WaitDone \/ WaitAborted
       \/ CanRecv \/ StartCancelBump \/ AbortLoad \/ AbortBump \/ AbortDisc \/ AbortFinish \/
       DropPort \/ DropCas
       PROVE  OrderInv'
  BY <1>4, <1>same DEF OldWoken, packet, tokens, sender, OldAborted, RecvCall, TryHead, FoldSwap,
       Fold, TryLook, TryAgainHead, Decrement, DecrementSub, DecrementDisc, DecrementFailed,
       WaitDone, WaitAborted, CanRecv, StartCancelBump, AbortLoad, AbortBump, AbortDisc,
       AbortFinish, DropPort, DropCas
<1>5. ASSUME TryPop PROVE OrderInv'
  <2>1. CASE queue # <<>> /\ queue' = Tail(queue) /\ accepted' = accepted
             /\ received' = Append(received, Head(queue)) /\ destroyed' = destroyed
    BY <2>1, <1>empty, <1>5, PopOrder DEF TryPop
  <2>2. CASE UNCHANGED <<queue, accepted, received, destroyed>>
    BY <1>same, <2>2
  <2>3. QED
    BY <1>5, <2>1, <2>2 DEF TryPop, Found, FoldDue, Poppable, Return, tokens, sender
<1>6. ASSUME Folded PROVE OrderInv'
  <2>1. CASE queue # <<>> /\ queue' = Tail(queue) /\ accepted' = accepted
             /\ received' = Append(received, Head(queue)) /\ destroyed' = destroyed
    BY <2>1, <1>empty, <1>6, PopOrder DEF Folded
  <2>2. CASE UNCHANGED <<queue, accepted, received, destroyed>>
    BY <1>same, <2>2
  <2>3. QED
    BY <1>6, <2>1, <2>2, <1>popfold DEF Folded, Found, Return, tokens, sender
<1>7. ASSUME TryAgain PROVE OrderInv'
  <2>1. CASE queue # <<>> /\ queue' = Tail(queue) /\ accepted' = accepted
             /\ received' = Append(received, Head(queue)) /\ destroyed' = destroyed
    BY <2>1, <1>empty, <1>7, PopOrder DEF TryAgain
  <2>2. CASE UNCHANGED <<queue, accepted, received, destroyed>>
    BY <1>same, <2>2
  <2>3. QED
    BY <1>7, <2>1, <2>2 DEF TryAgain, Found, Poppable, Return, tokens, sender
<1>8. ASSUME DropDrain PROVE OrderInv'
  <2>1. CASE queue # <<>> /\ queue' = Tail(queue) /\ accepted' = accepted
             /\ received' = received /\ Destroy
    BY <2>1, PopOrder
  <2>2. CASE UNCHANGED <<queue, accepted, received, destroyed>>
    BY <1>same, <2>2
  <2>3. QED
    BY <1>8, <2>1, <2>2 DEF DropDrain, Poppable, Destroy, tokens, sender
<1>9. CASE Terminated
  BY <1>9, <1>same DEF Terminated, vars, packet, tokens, sender, receiver, control
<1>10. QED
  BY <1>1, <1>2, <1>3, <1>4, <1>5, <1>6, <1>7, <1>8, <1>9 DEF Next, SenderStep, ReceiverStep

\* Messages are destroyed by a port being dropped, and after it.
LEMMA DestroyedInvStep ==
  ASSUME IInv, Next
  PROVE  DestroyedInv'
<1>inv. DestroyedInv
  BY DEF IInv
<1>gone. \A s \in Senders : spc[s] = "drain" => rpc = "gone"
  BY DEF IInv, GoneInv
<1>same. ASSUME UNCHANGED <<destroyed, rpc>> PROVE DestroyedInv'
  BY <1>same, <1>inv DEF DestroyedInv
<1>1. ASSUME NEW s \in Senders,
       Inherit(s) \/ InheritCnt(s) \/ InheritSteals(s) \/ InheritUnlock(s) \/ SendCall(s) \/
       CloneChan(s) \/ DropChan(s) \/ DropSwap(s) \/ SendCheck(s) \/ PushSwap(s) \/ PushLink(s) \/
       SendAdd(s) \/ TakeLoad(s) \/ TakeClear(s) \/ Signal(s) \/ SendDisconnected(s) \/
       DrainEnter(s) \/ DrainHead(s) \/ DrainLeave(s)
       PROVE  DestroyedInv'
  BY <1>1, <1>same DEF Inherit, tokens, receiver, control, InheritCnt, InheritSteals, packet,
       InheritUnlock, SendCall, CloneChan, DropChan, DropSwap, SendCheck, PushSwap, PushLink,
       SendAdd, TakeLoad, TakeClear, Signal, SendDisconnected, DrainEnter, DrainHead, DrainLeave
<1>2. ASSUME NEW s \in Senders, DrainPop(s) PROVE DestroyedInv'
  BY <1>2, <1>inv, <1>gone DEF DestroyedInv, DrainPop, At, Poppable, Destroy, tokens, receiver,
       control
<1>3. ASSUME OldWoken PROVE DestroyedInv'
  BY <1>3, <1>inv, <1>gone DEF DestroyedInv, OldWoken, NoToken, packet, tokens, sender
<1>4. ASSUME OldAborted PROVE DestroyedInv'
  BY <1>4, <1>inv, <1>gone DEF DestroyedInv, OldAborted, NoToken, packet, tokens, sender
<1>5. ASSUME RecvCall PROVE DestroyedInv'
  BY <1>5, <1>inv, <1>gone DEF DestroyedInv, RecvCall, packet, tokens, sender
<1>6. ASSUME TryPop PROVE DestroyedInv'
  BY <1>6, <1>inv, <1>gone DEF DestroyedInv, TryPop, Found, FoldDue, Poppable, Return, tokens,
       sender
<1>7. ASSUME TryHead PROVE DestroyedInv'
  BY <1>7, <1>inv, <1>gone DEF DestroyedInv, TryHead, IsEmpty, packet, tokens, sender
<1>8. ASSUME FoldSwap PROVE DestroyedInv'
  BY <1>8, <1>inv, <1>gone DEF DestroyedInv, FoldSwap, Foldable, AddBack, tokens, sender
<1>9. ASSUME Fold PROVE DestroyedInv'
  BY <1>9, <1>inv, <1>gone DEF DestroyedInv, Fold, tokens, sender
<1>10. ASSUME Folded PROVE DestroyedInv'
  BY <1>10, <1>inv, <1>gone DEF DestroyedInv, Folded, Found, Return, tokens, sender
<1>11. ASSUME TryLook PROVE DestroyedInv'
  BY <1>11, <1>inv, <1>gone DEF DestroyedInv, TryLook, Return, SawHangup, packet, tokens, sender
<1>12. ASSUME TryAgain PROVE DestroyedInv'
  BY <1>12, <1>inv, <1>gone DEF DestroyedInv, TryAgain, Found, Poppable, Return, tokens, sender
<1>13. ASSUME TryAgainHead PROVE DestroyedInv'
  BY <1>13, <1>inv, <1>gone DEF DestroyedInv, TryAgainHead, Return, IsEmpty, Disconnected, packet,
       tokens, sender
<1>14. ASSUME Decrement PROVE DestroyedInv'
  BY <1>14, <1>inv, <1>gone DEF DestroyedInv, Decrement, NoToken, tokens, sender
<1>15. ASSUME DecrementSub PROVE DestroyedInv'
  BY <1>15, <1>inv, <1>gone DEF DestroyedInv, DecrementSub, tokens, sender
<1>16. ASSUME DecrementDisc PROVE DestroyedInv'
  BY <1>16, <1>inv, <1>gone DEF DestroyedInv, DecrementDisc, tokens, sender
<1>17. ASSUME DecrementFailed PROVE DestroyedInv'
  BY <1>17, <1>inv, <1>gone DEF DestroyedInv, DecrementFailed, Free, NoToken, sender
<1>18. ASSUME WaitDone PROVE DestroyedInv'
  BY <1>18, <1>inv, <1>gone DEF DestroyedInv, WaitDone, NoToken, packet, tokens, sender
<1>19. ASSUME WaitAborted PROVE DestroyedInv'
  BY <1>19, <1>inv, <1>gone DEF DestroyedInv, WaitAborted, packet, tokens, sender
<1>20. ASSUME CanRecv PROVE DestroyedInv'
  BY <1>20, <1>inv, <1>gone DEF DestroyedInv, CanRecv, Return, packet, tokens, sender
<1>21. ASSUME StartCancelBump PROVE DestroyedInv'
  BY <1>21, <1>inv, <1>gone DEF DestroyedInv, StartCancelBump, Return, tokens, sender
<1>22. ASSUME AbortLoad PROVE DestroyedInv'
  BY <1>22, <1>inv, <1>gone DEF DestroyedInv, AbortLoad, UpgradeDone, packet, tokens, sender
<1>23. ASSUME AbortBump PROVE DestroyedInv'
  BY <1>23, <1>inv, <1>gone DEF DestroyedInv, AbortBump, tokens, sender
<1>24. ASSUME AbortDisc PROVE DestroyedInv'
  BY <1>24, <1>inv, <1>gone DEF DestroyedInv, AbortDisc, AbortReturn, NoToken, Return, tokens,
       sender
<1>25. ASSUME AbortFinish PROVE DestroyedInv'
  BY <1>25, <1>inv, <1>gone DEF DestroyedInv, AbortFinish, Free, AbortReturn, NoToken, Return,
       sender
<1>26. ASSUME DropPort PROVE DestroyedInv'
  BY <1>26, <1>inv, <1>gone DEF DestroyedInv, DropPort, tokens, sender
<1>27. ASSUME DropCas PROVE DestroyedInv'
  BY <1>27, <1>inv, <1>gone DEF DestroyedInv, DropCas, tokens, sender
<1>28. ASSUME DropDrain PROVE DestroyedInv'
  BY <1>28, <1>inv, <1>gone DEF DestroyedInv, DropDrain, Poppable, Destroy, tokens, sender
<1>29. CASE Terminated
  BY <1>29, <1>same DEF Terminated, vars, packet, tokens, sender, receiver, control
<1>30. QED
  BY <1>1, <1>2, <1>3, <1>4, <1>5, <1>6, <1>7, <1>8, <1>9, <1>10, <1>11, <1>12, <1>13, <1>14, <1>15,
       <1>16, <1>17, <1>18, <1>19, <1>20, <1>21, <1>22, <1>23, <1>24, <1>25, <1>26, <1>27, <1>28,
       <1>29 DEF Next, SenderStep, ReceiverStep

\* A message that is not linked has a sender about to link it.
LEMMA LinkInvStep ==
  ASSUME IInv, Next
  PROVE  LinkInv'
<1>inv. LinkInv
  BY DEF IInv
<1>types. spc \in [Senders -> SenderLocs] /\ smsg \in [Senders -> Nat]
  BY DEF IInv, TypeInv, LocTypes, QueueTypes
<1>same. ASSUME UNCHANGED <<unlinked, spc, smsg>> PROVE LinkInv'
  BY <1>same, <1>inv DEF LinkInv
<1>1. ASSUME NEW s \in Senders, Inherit(s) PROVE LinkInv'
  BY <1>1, <1>inv, <1>types DEF LinkInv, Inherit, At, NoToken, tokens, receiver, control
<1>2. ASSUME NEW s \in Senders, InheritCnt(s) PROVE LinkInv'
  BY <1>2, <1>inv, <1>types DEF LinkInv, InheritCnt, At, tokens, receiver, control
<1>3. ASSUME NEW s \in Senders, InheritSteals(s) PROVE LinkInv'
  BY <1>3, <1>inv, <1>types DEF LinkInv, InheritSteals, At, InheritedSteals, packet, tokens, control
<1>4. ASSUME NEW s \in Senders, InheritUnlock(s) PROVE LinkInv'
  BY <1>4, <1>inv, <1>types, AtUnlock DEF LinkInv, InheritUnlock, tokens, receiver, control
<1>5. ASSUME NEW s \in Senders, SendCall(s) PROVE LinkInv'
  BY <1>5, <1>inv, <1>types DEF LinkInv, SendCall, At, packet, tokens, receiver, control
<1>6. ASSUME NEW s \in Senders, CloneChan(s) PROVE LinkInv'
  BY <1>6, <1>inv, <1>types DEF LinkInv, CloneChan, At, tokens, receiver, control
<1>7. ASSUME NEW s \in Senders, DropChan(s) PROVE LinkInv'
  BY <1>7, <1>inv, <1>types DEF LinkInv, DropChan, At, tokens, receiver, control
<1>8. ASSUME NEW s \in Senders, DropSwap(s) PROVE LinkInv'
  BY <1>8, <1>inv, <1>types DEF LinkInv, DropSwap, At, tokens, receiver, control
<1>9. ASSUME NEW s \in Senders, SendCheck(s) PROVE LinkInv'
  BY <1>9, <1>inv, <1>types DEF LinkInv, SendCheck, At, packet, tokens, receiver, control
<1>10. ASSUME NEW s \in Senders, PushSwap(s) PROVE LinkInv'
  BY <1>10, <1>inv, <1>types DEF LinkInv, PushSwap, At, tokens, receiver, control
<1>11. ASSUME NEW s \in Senders, PushLink(s) PROVE LinkInv'
  BY <1>11, <1>inv, <1>types DEF LinkInv, PushLink, At, NoMsg, tokens, receiver, control
<1>12. ASSUME NEW s \in Senders, SendAdd(s) PROVE LinkInv'
  BY <1>12, <1>inv, <1>types DEF LinkInv, SendAdd, At, SeesWaiter, Disconnected, tokens, receiver,
       control
<1>13. ASSUME NEW s \in Senders, TakeLoad(s) PROVE LinkInv'
  BY <1>13, <1>inv, <1>types DEF LinkInv, TakeLoad, At, NoToken, packet, tokens, receiver, control
<1>14. ASSUME NEW s \in Senders, TakeClear(s) PROVE LinkInv'
  BY <1>14, <1>inv, <1>types DEF LinkInv, TakeClear, At, NoToken, tokens, receiver, control
<1>15. ASSUME NEW s \in Senders, Signal(s) PROVE LinkInv'
  BY <1>15, <1>inv, <1>types DEF LinkInv, Signal, At, Free, NoToken, packet, receiver, control
<1>16. ASSUME NEW s \in Senders, SendDisconnected(s) PROVE LinkInv'
  BY <1>16, <1>inv, <1>types DEF LinkInv, SendDisconnected, At, tokens, receiver, control
<1>17. ASSUME NEW s \in Senders, DrainEnter(s) PROVE LinkInv'
  BY <1>17, <1>inv, <1>types DEF LinkInv, DrainEnter, At, tokens, receiver, control
<1>18. ASSUME NEW s \in Senders, DrainPop(s) PROVE LinkInv'
  BY <1>18, <1>inv, <1>types DEF LinkInv, DrainPop, At, Poppable, Destroy, tokens, receiver, control
<1>19. ASSUME NEW s \in Senders, DrainHead(s) PROVE LinkInv'
  BY <1>19, <1>inv, <1>types DEF LinkInv, DrainHead, At, packet, tokens, receiver, control
<1>20. ASSUME NEW s \in Senders, DrainLeave(s) PROVE LinkInv'
  BY <1>20, <1>inv, <1>types DEF LinkInv, DrainLeave, At, LastDrainer, tokens, receiver, control
<1>21. ASSUME
       OldWoken \/ OldAborted \/ RecvCall \/ TryPop \/ TryHead \/ FoldSwap \/ Fold \/ Folded \/
       TryLook \/ TryAgain \/ TryAgainHead \/ Decrement \/ DecrementSub \/ DecrementDisc \/
       DecrementFailed \/ WaitDone \/ WaitAborted \/ CanRecv \/ StartCancelBump \/ AbortLoad \/
       AbortBump \/ AbortDisc \/ AbortFinish \/ DropPort \/ DropCas \/ DropDrain
       PROVE  LinkInv'
  BY <1>21, <1>same DEF OldWoken, packet, tokens, sender, OldAborted, RecvCall, TryPop, TryHead,
       FoldSwap, Fold, Folded, TryLook, TryAgain, TryAgainHead, Decrement, DecrementSub,
       DecrementDisc, DecrementFailed, WaitDone, WaitAborted, CanRecv, StartCancelBump, AbortLoad,
       AbortBump, AbortDisc, AbortFinish, DropPort, DropCas, DropDrain
<1>22. CASE Terminated
  BY <1>22, <1>same DEF Terminated, vars, packet, tokens, sender, receiver, control
<1>23. QED
  BY <1>1, <1>2, <1>3, <1>4, <1>5, <1>6, <1>7, <1>8, <1>9, <1>10, <1>11, <1>12, <1>13, <1>14, <1>15,
       <1>16, <1>17, <1>18, <1>19, <1>20, <1>21, <1>22 DEF Next, SenderStep, ReceiverStep

\* Once the receiver was told of the end nothing is sent any more.
LEMMA EndInvStep ==
  ASSUME IInv, Next
  PROVE  EndInv'
<1>inv. EndInv
  BY DEF IInv
<1>types. spc \in [Senders -> SenderLocs]
  BY DEF IInv, TypeInv, LocTypes
<1>over. /\ rpc = "againhead" => Over
         /\ rpc \notin {"dropcas", "dropdrain", "gone"} => destroyed = {}
  BY DEF IInv, OverInv, DestroyedInv
<1>open. \A s \in Senders :
           spc[s] \notin {"gone", "dropswap", "take", "clear", "signal"} => channels > 0
  BY OpenWhile
<1>same. ASSUME UNCHANGED <<rres, channels, spc, queue, destroyed>> PROVE EndInv'
  BY <1>same, <1>inv DEF EndInv, Over
<1>1. ASSUME NEW s \in Senders, Inherit(s) PROVE EndInv'
  BY <1>1, <1>inv, <1>types, <1>over, <1>open DEF EndInv, Over, Inherit, At, NoToken, tokens,
       receiver, control
<1>2. ASSUME NEW s \in Senders, InheritCnt(s) PROVE EndInv'
  BY <1>2, <1>inv, <1>types, <1>over, <1>open DEF EndInv, Over, InheritCnt, At, tokens, receiver,
       control
<1>3. ASSUME NEW s \in Senders, InheritSteals(s) PROVE EndInv'
  BY <1>3, <1>inv, <1>types, <1>over, <1>open DEF EndInv, Over, InheritSteals, At, InheritedSteals,
       packet, tokens, control
<1>4. ASSUME NEW s \in Senders, InheritUnlock(s) PROVE EndInv'
  BY <1>4, <1>inv, <1>types, <1>over, <1>open DEF EndInv, Over, InheritUnlock, tokens, receiver,
       control
<1>5. ASSUME NEW s \in Senders, SendCall(s) PROVE EndInv'
  BY <1>5, <1>inv, <1>types, <1>over, <1>open DEF EndInv, Over, SendCall, At, packet, tokens,
       receiver, control
<1>6. ASSUME NEW s \in Senders, CloneChan(s) PROVE EndInv'
  BY <1>6, <1>inv, <1>types, <1>over, <1>open DEF EndInv, Over, CloneChan, At, tokens, receiver,
       control
<1>7. ASSUME NEW s \in Senders, DropChan(s) PROVE EndInv'
  BY <1>7, <1>inv, <1>types, <1>over, <1>open DEF EndInv, Over, DropChan, At, tokens, receiver,
       control
<1>8. ASSUME NEW s \in Senders, DropSwap(s) PROVE EndInv'
  BY <1>8, <1>inv, <1>types, <1>over, <1>open DEF EndInv, Over, DropSwap, At, tokens, receiver,
       control
<1>9. ASSUME NEW s \in Senders, SendCheck(s) PROVE EndInv'
  BY <1>9, <1>inv, <1>types, <1>over, <1>open DEF EndInv, Over, SendCheck, At, packet, tokens,
       receiver, control
<1>10. ASSUME NEW s \in Senders, PushSwap(s) PROVE EndInv'
  BY <1>10, <1>inv, <1>types, <1>over, <1>open DEF EndInv, Over, PushSwap, At, tokens, receiver,
       control
<1>11. ASSUME NEW s \in Senders, PushLink(s) PROVE EndInv'
  BY <1>11, <1>inv, <1>types, <1>over, <1>open DEF EndInv, Over, PushLink, At, NoMsg, tokens,
       receiver, control
<1>12. ASSUME NEW s \in Senders, SendAdd(s) PROVE EndInv'
  BY <1>12, <1>inv, <1>types, <1>over, <1>open DEF EndInv, Over, SendAdd, At, SeesWaiter,
       Disconnected, tokens, receiver, control
<1>13. ASSUME NEW s \in Senders, TakeLoad(s) PROVE EndInv'
  BY <1>13, <1>inv, <1>types, <1>over, <1>open DEF EndInv, Over, TakeLoad, At, NoToken, packet,
       tokens, receiver, control
<1>14. ASSUME NEW s \in Senders, TakeClear(s) PROVE EndInv'
  BY <1>14, <1>inv, <1>types, <1>over, <1>open DEF EndInv, Over, TakeClear, At, NoToken, tokens,
       receiver, control
<1>15. ASSUME NEW s \in Senders, Signal(s) PROVE EndInv'
  BY <1>15, <1>inv, <1>types, <1>over, <1>open DEF EndInv, Over, Signal, At, Free, NoToken, packet,
       receiver, control
<1>16. ASSUME NEW s \in Senders, SendDisconnected(s) PROVE EndInv'
  BY <1>16, <1>inv, <1>types, <1>over, <1>open DEF EndInv, Over, SendDisconnected, At, tokens,
       receiver, control
<1>17. ASSUME NEW s \in Senders, DrainEnter(s) PROVE EndInv'
  BY <1>17, <1>inv, <1>types, <1>over, <1>open DEF EndInv, Over, DrainEnter, At, tokens, receiver,
       control
<1>18. ASSUME NEW s \in Senders, DrainPop(s) PROVE EndInv'
  BY <1>18, <1>inv, <1>types, <1>over, <1>open DEF EndInv, Over, DrainPop, At, Poppable, Destroy,
       tokens, receiver, control
<1>19. ASSUME NEW s \in Senders, DrainHead(s) PROVE EndInv'
  BY <1>19, <1>inv, <1>types, <1>over, <1>open DEF EndInv, Over, DrainHead, At, packet, tokens,
       receiver, control
<1>20. ASSUME NEW s \in Senders, DrainLeave(s) PROVE EndInv'
  BY <1>20, <1>inv, <1>types, <1>over, <1>open DEF EndInv, Over, DrainLeave, At, LastDrainer,
       tokens, receiver, control
<1>21. ASSUME
       OldWoken \/ OldAborted \/ TryHead \/ FoldSwap \/ Fold \/ Decrement \/ DecrementSub \/
       DecrementDisc \/ DecrementFailed \/ WaitDone \/ WaitAborted \/ AbortLoad \/ AbortBump \/
       DropPort \/ DropCas
       PROVE  EndInv'
  BY <1>21, <1>same DEF OldWoken, packet, tokens, sender, OldAborted, TryHead, FoldSwap, Fold,
       Decrement, DecrementSub, DecrementDisc, DecrementFailed, WaitDone, WaitAborted, AbortLoad,
       AbortBump, DropPort, DropCas
<1>22. ASSUME RecvCall PROVE EndInv'
  BY <1>22, <1>inv, <1>types, <1>over, <1>open DEF EndInv, Over, RecvCall, packet, tokens, sender
<1>23. ASSUME TryPop PROVE EndInv'
  BY <1>23, <1>inv, <1>types, <1>over, <1>open DEF EndInv, Over, TryPop, Found, FoldDue, Poppable,
       Return, tokens, sender
<1>24. ASSUME Folded PROVE EndInv'
  BY <1>24, <1>inv, <1>types, <1>over, <1>open DEF EndInv, Over, Folded, Found, Return, tokens,
       sender
<1>25. ASSUME TryLook PROVE EndInv'
  BY <1>25, <1>inv, <1>types, <1>over, <1>open DEF EndInv, Over, TryLook, Return, SawHangup, packet,
       tokens, sender
<1>26. ASSUME TryAgain PROVE EndInv'
  BY <1>26, <1>inv, <1>types, <1>over, <1>open DEF EndInv, Over, TryAgain, Found, Poppable, Return,
       tokens, sender
<1>27. ASSUME TryAgainHead PROVE EndInv'
  BY <1>27, <1>inv, <1>types, <1>over, <1>open DEF EndInv, Over, TryAgainHead, Return, IsEmpty,
       Disconnected, packet, tokens, sender
<1>28. ASSUME CanRecv PROVE EndInv'
  BY <1>28, <1>inv, <1>types, <1>over, <1>open DEF EndInv, Over, CanRecv, Return, packet, tokens,
       sender
<1>29. ASSUME StartCancelBump PROVE EndInv'
  BY <1>29, <1>inv, <1>types, <1>over, <1>open DEF EndInv, Over, StartCancelBump, Return, tokens,
       sender
<1>30. ASSUME AbortDisc PROVE EndInv'
  BY <1>30, <1>inv, <1>types, <1>over, <1>open DEF EndInv, Over, AbortDisc, AbortReturn, NoToken,
       Return, tokens, sender
<1>31. ASSUME AbortFinish PROVE EndInv'
  BY <1>31, <1>inv, <1>types, <1>over, <1>open DEF EndInv, Over, AbortFinish, Free, AbortReturn,
       NoToken, Return, sender
<1>32. ASSUME DropDrain PROVE EndInv'
  BY <1>32, <1>inv, <1>types, <1>over, <1>open DEF EndInv, Over, DropDrain, Poppable, Destroy,
       tokens, sender
<1>33. CASE Terminated
  BY <1>33, <1>same DEF Terminated, vars, packet, tokens, sender, receiver, control
<1>34. QED
  BY <1>1, <1>2, <1>3, <1>4, <1>5, <1>6, <1>7, <1>8, <1>9, <1>10, <1>11, <1>12, <1>13, <1>14, <1>15,
       <1>16, <1>17, <1>18, <1>19, <1>20, <1>21, <1>22, <1>23, <1>24, <1>25, <1>26, <1>27, <1>28,
       <1>29, <1>30, <1>31, <1>32, <1>33 DEF Next, SenderStep, ReceiverStep

-----------------------------------------------------------------------------
(* Handles, the lock and the drain                                         *)

\* A move that gives no handle up leaves the count of them.
LEMMA HandlesKept ==
  ASSUME IInv, NEW s \in Senders, spc' = [spc EXCEPT ![s] = spc'[s]], channels' = channels,
         spc[s] # "gone", channels > 0 => spc'[s] \notin {"gone", "dropswap"},
         channels = 0 => spc'[s] \in {"gone", "take", "clear", "signal"}
  PROVE  HandleInv'
<1>inv. HandleInv /\ channels \in Int /\ spc \in [Senders -> SenderLocs]
  BY DEF IInv, TypeInv, CountTypes, LocTypes
<1>1. CASE channels = 0
  BY <1>inv, <1>1 DEF HandleInv
<1>2. CASE channels > 0
  <2>1. HowMany({"gone"})' = HowMany({"gone"})
    BY <1>2, MoveCounts DEF HowMany
  <2>2. QED
    BY <1>inv, <1>2, <2>1 DEF HandleInv
<1>3. QED
  BY <1>inv, <1>1, <1>2 DEF HandleInv

\* Moves of handles that are in use leave the lock alone.
LEMMA LockKept ==
  ASSUME IInv, NEW s \in Senders, spc' = [spc EXCEPT ![s] = spc'[s]], locked' = locked,
         spc[s] \notin Birth \cup {"unborn", "unlock", "panic_inherit", "gone"},
         spc'[s] \notin Birth \cup {"unborn", "unlock", "panic_inherit"}
  PROVE  LockInv'
<1>inv. LockInv /\ spc \in [Senders -> SenderLocs]
  BY DEF IInv, TypeInv, LocTypes
<1>1. ~locked
  <2>1. SUFFICES ASSUME locked PROVE FALSE
    OBVIOUS
  <2>2. spc[Creator] \in Birth \cup {"unlock", "panic_inherit"} /\ spc[Child] = "unborn"
        /\ \A t \in Senders \ {Creator, Child} : spc[t] = "gone"
    BY <1>inv, <2>1 DEF LockInv
  <2>3. QED
    BY <2>2
<1>2. \A t \in Senders : t # s => spc'[t] = spc[t]
  BY <1>inv
<1>3. Creator \in Senders
  BY SharedAssumption
<1>4. \A t \in Senders : spc'[t] \notin Birth \cup {"unborn", "unlock", "panic_inherit"}
  BY <1>inv, <1>1, <1>2, <1>3 DEF LockInv
<1>5. QED
  BY <1>1, <1>3, <1>4 DEF LockInv

\* Clones and drops keep `channels' the number of handles in use.
LEMMA HandleInvStep ==
  ASSUME IInv, Next
  PROVE  HandleInv'
<1>inv. HandleInv
  BY DEF IInv
<1>types. spc \in [Senders -> SenderLocs] /\ channels \in Int /\ drain \in Int
  BY DEF IInv, TypeInv, LocTypes, CountTypes
<1>same. ASSUME UNCHANGED <<channels, spc>> PROVE HandleInv'
  BY <1>same, <1>inv DEF HandleInv, HowMany
<1>1. ASSUME NEW s \in Senders, Inherit(s) PROVE HandleInv'
  BY <1>1, <1>inv, Moves, HandlesKept, OpenWhile DEF Move, HandleInv, Inherit
<1>2. ASSUME NEW s \in Senders, InheritCnt(s) PROVE HandleInv'
  BY <1>2, <1>inv, Moves, HandlesKept, OpenWhile DEF Move, HandleInv, InheritCnt
<1>3. ASSUME NEW s \in Senders, InheritSteals(s) PROVE HandleInv'
  BY <1>3, <1>inv, Moves, HandlesKept, OpenWhile DEF Move, HandleInv, InheritSteals, packet
<1>4. ASSUME NEW s \in Senders, InheritUnlock(s) PROVE HandleInv'
  <2>1. /\ spc[s] = "unlock" /\ spc[Child] = "unborn" /\ s # Child /\ channels = 2
        /\ channels' = channels /\ spc' = [spc EXCEPT ![s] = "idle", ![Child] = "idle"]
    BY <1>4, AtUnlock DEF InheritUnlock
  <2>2. {t \in Senders : spc'[t] \in {"gone"}} = {t \in Senders : spc[t] \in {"gone"}}
    BY <2>1, <1>types
  <2>3. HowMany({"gone"})' = HowMany({"gone"})
    BY <2>2 DEF HowMany, Count
  <2>4. QED
    BY <2>1, <2>3, <1>inv, <1>types DEF HandleInv
<1>5. ASSUME NEW s \in Senders, SendCall(s) PROVE HandleInv'
  BY <1>5, <1>inv, Moves, HandlesKept, OpenWhile DEF Move, HandleInv, SendCall, packet
<1>6. ASSUME NEW s \in Senders, CloneChan(s) PROVE HandleInv'
  <2>1. PICK t \in Senders : spc[t] = "gone" /\ At(t, "idle")
    BY <1>6 DEF CloneChan
  <2>2. /\ spc[s] = "idle" /\ channels' = channels + 1 /\ spc'[t] = "idle"
        /\ spc' = [spc EXCEPT ![t] = spc'[t]]
    BY <1>6, <2>1, <1>types DEF CloneChan, At
  <2>3. channels > 0
    BY <2>2, OpenWhile
  <2>4. HowMany({"gone"})' = HowMany({"gone"}) - 1 /\ HowMany({"gone"}) \in Nat
    BY <2>1, <2>2, MoveCounts DEF HowMany
  <2>5. \A u \in Senders : spc'[u] # "dropswap"
    BY <1>inv, <1>types, <2>1, <2>2, <2>3 DEF HandleInv
  <2>6. QED
    BY <1>inv, <1>types, <2>2, <2>3, <2>4, <2>5, Numbers DEF HandleInv
<1>7. ASSUME NEW s \in Senders, DropChan(s) PROVE HandleInv'
  <2>1. /\ spc[s] = "idle" /\ spc' = [spc EXCEPT ![s] = spc'[s]] /\ channels' = channels - 1
        /\ spc'[s] = IF channels = 1 THEN "dropswap" ELSE "gone"
    BY <1>7, <1>types DEF DropChan, At
  <2>2. channels > 0 /\ HowMany({"gone"}) + channels = Cardinality(Senders)
    BY <2>1, <1>inv, OpenWhile DEF HandleInv
  <2>3. CASE channels = 1
    <3>1. \A t \in Senders : t # s => spc[t] = "gone"
      BY <2>1, <2>2, <2>3, CountBounds DEF HowMany
    <3>2. QED
      BY <2>1, <2>3, <3>1, <1>types DEF HandleInv
  <2>4. CASE channels > 1
    <3>1. HowMany({"gone"})' = HowMany({"gone"}) + 1 /\ HowMany({"gone"}) \in Nat
      BY <2>1, <2>4, MoveCounts DEF HowMany
    <3>2. \A t \in Senders : spc'[t] # "dropswap"
      BY <1>inv, <1>types, <2>1, <2>2, <2>4 DEF HandleInv
    <3>3. QED
      BY <2>1, <2>2, <2>4, <3>1, <3>2, <1>types, Numbers DEF HandleInv
  <2>5. QED
    BY <2>2, <2>3, <2>4, <1>types
<1>8. ASSUME NEW s \in Senders, DropSwap(s) PROVE HandleInv'
  BY <1>8, <1>inv, Moves, HandlesKept, OpenWhile DEF Move, HandleInv, DropSwap
<1>9. ASSUME NEW s \in Senders, SendCheck(s) PROVE HandleInv'
  BY <1>9, <1>inv, Moves, HandlesKept, OpenWhile DEF Move, HandleInv, SendCheck, packet
<1>10. ASSUME NEW s \in Senders, PushSwap(s) PROVE HandleInv'
  BY <1>10, <1>inv, Moves, HandlesKept, OpenWhile DEF Move, HandleInv, PushSwap
<1>11. ASSUME NEW s \in Senders, PushLink(s) PROVE HandleInv'
  BY <1>11, <1>inv, Moves, HandlesKept, OpenWhile DEF Move, HandleInv, PushLink
<1>12. ASSUME NEW s \in Senders, SendAdd(s) PROVE HandleInv'
  BY <1>12, <1>inv, Moves, HandlesKept, OpenWhile DEF Move, HandleInv, SendAdd
<1>13. ASSUME NEW s \in Senders, TakeLoad(s) PROVE HandleInv'
  BY <1>13, <1>inv, Moves, HandlesKept, OpenWhile DEF Move, HandleInv, TakeLoad, packet
<1>14. ASSUME NEW s \in Senders, TakeClear(s) PROVE HandleInv'
  BY <1>14, <1>inv, Moves, HandlesKept, OpenWhile DEF Move, HandleInv, TakeClear
<1>15. ASSUME NEW s \in Senders, Signal(s) PROVE HandleInv'
  <2>1. /\ spc[s] = "signal" /\ spc' = [spc EXCEPT ![s] = spc'[s]] /\ channels' = channels
        /\ spc'[s] = IF channels = 0 THEN "gone" ELSE "idle"
    BY <1>15, <1>types DEF Signal, At, packet
  <2>2. QED
    BY <2>1, HandlesKept
<1>16. ASSUME NEW s \in Senders, SendDisconnected(s) PROVE HandleInv'
  BY <1>16, <1>inv, Moves, HandlesKept, OpenWhile DEF Move, HandleInv, SendDisconnected
<1>17. ASSUME NEW s \in Senders, DrainEnter(s) PROVE HandleInv'
  BY <1>17, <1>inv, Moves, HandlesKept, OpenWhile DEF Move, HandleInv, DrainEnter
<1>18. ASSUME NEW s \in Senders, DrainPop(s) PROVE HandleInv'
  BY <1>18, <1>inv, Moves, HandlesKept, OpenWhile DEF Move, HandleInv, DrainPop
<1>19. ASSUME NEW s \in Senders, DrainHead(s) PROVE HandleInv'
  BY <1>19, <1>inv, Moves, HandlesKept, OpenWhile DEF Move, HandleInv, DrainHead, packet
<1>20. ASSUME NEW s \in Senders, DrainLeave(s) PROVE HandleInv'
  BY <1>20, <1>inv, Moves, HandlesKept, OpenWhile DEF Move, HandleInv, DrainLeave
<1>21. ASSUME
       OldWoken \/ OldAborted \/ RecvCall \/ TryPop \/ TryHead \/ FoldSwap \/ Fold \/ Folded \/
       TryLook \/ TryAgain \/ TryAgainHead \/ Decrement \/ DecrementSub \/ DecrementDisc \/
       DecrementFailed \/ WaitDone \/ WaitAborted \/ CanRecv \/ StartCancelBump \/ AbortLoad \/
       AbortBump \/ AbortDisc \/ AbortFinish \/ DropPort \/ DropCas \/ DropDrain
       PROVE  HandleInv'
  BY <1>21, <1>same DEF OldWoken, packet, tokens, sender, OldAborted, RecvCall, TryPop, TryHead,
       FoldSwap, Fold, Folded, TryLook, TryAgain, TryAgainHead, Decrement, DecrementSub,
       DecrementDisc, DecrementFailed, WaitDone, WaitAborted, CanRecv, StartCancelBump, AbortLoad,
       AbortBump, AbortDisc, AbortFinish, DropPort, DropCas, DropDrain
<1>22. CASE Terminated
  BY <1>22, <1>same DEF Terminated, vars, packet, tokens, sender, receiver, control
<1>23. QED
  BY <1>1, <1>2, <1>3, <1>4, <1>5, <1>6, <1>7, <1>8, <1>9, <1>10, <1>11, <1>12, <1>13, <1>14, <1>15,
       <1>16, <1>17, <1>18, <1>19, <1>20, <1>21, <1>22 DEF Next, SenderStep, ReceiverStep

\* The select lock is the creator's until its clone returns.
LEMMA LockInvStep ==
  ASSUME IInv, Next
  PROVE  LockInv'
<1>inv. LockInv
  BY DEF IInv
<1>types. spc \in [Senders -> SenderLocs] /\ channels \in Int /\ drain \in Int
  BY DEF IInv, TypeInv, LocTypes, CountTypes
<1>same. ASSUME UNCHANGED <<locked, spc, channels, accepted, sent>> PROVE LockInv'
  BY <1>same, <1>inv DEF LockInv, Birth
<1>1. ASSUME NEW s \in Senders, Inherit(s) PROVE LockInv'
  <2>1. spc'[s] \in {"inheritcnt", "panic_inherit", "inheritsteals", "unlock"}
        /\ spc[s] \in Birth /\ spc' = [spc EXCEPT ![s] = spc'[s]]
        /\ UNCHANGED <<locked, channels, accepted, sent>>
    BY <1>1, Moves DEF Move, Birth, Inherit, receiver, control
  <2>2. s = Creator /\ Child # Creator
    BY <2>1, <1>inv, SharedAssumption DEF LockInv
  <2>3. \A t \in Senders \ {Creator} : spc'[t] = spc[t]
    BY <2>1, <2>2, <1>types
  <2>4. locked
    BY <2>1, <2>2, <1>inv DEF LockInv
  <2>5. spc'[Creator] \in Birth \cup {"unlock", "panic_inherit"} /\ spc'[Creator] # "unborn"
    BY <2>1, <2>2 DEF Birth
  <2>6. /\ locked' <=> spc'[Creator] \in Birth \cup {"unlock", "panic_inherit"}
        /\ \A t \in Senders \ {Creator} : spc'[t] \notin Birth \cup {"unlock", "panic_inherit"}
    BY <2>1, <2>3, <2>4, <2>5, <1>inv, Zenon DEF LockInv
  <2>7. /\ locked' => /\ spc'[Child] = "unborn" /\ channels' = 2 /\ accepted' = 0 /\ sent' = 0
                     /\ \A t \in Senders \ {Creator, Child} : spc'[t] = "gone"
        /\ \A t \in Senders : spc'[t] = "unborn" => t = Child /\ locked'
    BY <2>1, <2>2, <2>3, <2>4, <2>5, <1>inv, SharedAssumption, Zenon DEF LockInv
  <2>8. QED
    BY <2>6, <2>7 DEF LockInv
<1>2. ASSUME NEW s \in Senders, InheritCnt(s) PROVE LockInv'
  <2>1. spc'[s] \in {"inheritcnt", "panic_inherit", "inheritsteals", "unlock"}
        /\ spc[s] \in Birth /\ spc' = [spc EXCEPT ![s] = spc'[s]]
        /\ UNCHANGED <<locked, channels, accepted, sent>>
    BY <1>2, Moves DEF Move, Birth, InheritCnt, receiver, control
  <2>2. s = Creator /\ Child # Creator
    BY <2>1, <1>inv, SharedAssumption DEF LockInv
  <2>3. \A t \in Senders \ {Creator} : spc'[t] = spc[t]
    BY <2>1, <2>2, <1>types
  <2>4. locked
    BY <2>1, <2>2, <1>inv DEF LockInv
  <2>5. spc'[Creator] \in Birth \cup {"unlock", "panic_inherit"} /\ spc'[Creator] # "unborn"
    BY <2>1, <2>2 DEF Birth
  <2>6. /\ locked' <=> spc'[Creator] \in Birth \cup {"unlock", "panic_inherit"}
        /\ \A t \in Senders \ {Creator} : spc'[t] \notin Birth \cup {"unlock", "panic_inherit"}
    BY <2>1, <2>3, <2>4, <2>5, <1>inv, Zenon DEF LockInv
  <2>7. /\ locked' => /\ spc'[Child] = "unborn" /\ channels' = 2 /\ accepted' = 0 /\ sent' = 0
                     /\ \A t \in Senders \ {Creator, Child} : spc'[t] = "gone"
        /\ \A t \in Senders : spc'[t] = "unborn" => t = Child /\ locked'
    BY <2>1, <2>2, <2>3, <2>4, <2>5, <1>inv, SharedAssumption, Zenon DEF LockInv
  <2>8. QED
    BY <2>6, <2>7 DEF LockInv
<1>3. ASSUME NEW s \in Senders, InheritSteals(s) PROVE LockInv'
  <2>1. spc'[s] \in {"inheritcnt", "panic_inherit", "inheritsteals", "unlock"}
        /\ spc[s] \in Birth /\ spc' = [spc EXCEPT ![s] = spc'[s]]
        /\ UNCHANGED <<locked, channels, accepted, sent>>
    BY <1>3, Moves DEF Move, Birth, InheritSteals, packet, control
  <2>2. s = Creator /\ Child # Creator
    BY <2>1, <1>inv, SharedAssumption DEF LockInv
  <2>3. \A t \in Senders \ {Creator} : spc'[t] = spc[t]
    BY <2>1, <2>2, <1>types
  <2>4. locked
    BY <2>1, <2>2, <1>inv DEF LockInv
  <2>5. spc'[Creator] \in Birth \cup {"unlock", "panic_inherit"} /\ spc'[Creator] # "unborn"
    BY <2>1, <2>2 DEF Birth
  <2>6. /\ locked' <=> spc'[Creator] \in Birth \cup {"unlock", "panic_inherit"}
        /\ \A t \in Senders \ {Creator} : spc'[t] \notin Birth \cup {"unlock", "panic_inherit"}
    BY <2>1, <2>3, <2>4, <2>5, <1>inv, Zenon DEF LockInv
  <2>7. /\ locked' => /\ spc'[Child] = "unborn" /\ channels' = 2 /\ accepted' = 0 /\ sent' = 0
                     /\ \A t \in Senders \ {Creator, Child} : spc'[t] = "gone"
        /\ \A t \in Senders : spc'[t] = "unborn" => t = Child /\ locked'
    BY <2>1, <2>2, <2>3, <2>4, <2>5, <1>inv, SharedAssumption, Zenon DEF LockInv
  <2>8. QED
    BY <2>6, <2>7 DEF LockInv
<1>4. ASSUME NEW s \in Senders, InheritUnlock(s) PROVE LockInv'
  BY <1>4, <1>inv, <1>types DEF LockInv, Birth, InheritUnlock, tokens, receiver, control
<1>5. ASSUME NEW s \in Senders, SendCall(s) PROVE LockInv'
  BY <1>5, Moves, LockKept DEF Move, Birth, SendCall, packet
<1>6. ASSUME NEW s \in Senders, CloneChan(s) PROVE LockInv'
  BY <1>6, <1>inv, <1>types DEF LockInv, Birth, CloneChan, At, tokens, receiver, control
<1>7. ASSUME NEW s \in Senders, DropChan(s) PROVE LockInv'
  BY <1>7, Moves, LockKept DEF Move, Birth, DropChan
<1>8. ASSUME NEW s \in Senders, DropSwap(s) PROVE LockInv'
  BY <1>8, Moves, LockKept DEF Move, Birth, DropSwap
<1>9. ASSUME NEW s \in Senders, SendCheck(s) PROVE LockInv'
  BY <1>9, Moves, LockKept DEF Move, Birth, SendCheck, packet
<1>10. ASSUME NEW s \in Senders, PushSwap(s) PROVE LockInv'
  BY <1>10, Moves, LockKept DEF Move, Birth, PushSwap
<1>11. ASSUME NEW s \in Senders, PushLink(s) PROVE LockInv'
  BY <1>11, Moves, LockKept DEF Move, Birth, PushLink
<1>12. ASSUME NEW s \in Senders, SendAdd(s) PROVE LockInv'
  BY <1>12, Moves, LockKept DEF Move, Birth, SendAdd
<1>13. ASSUME NEW s \in Senders, TakeLoad(s) PROVE LockInv'
  BY <1>13, Moves, LockKept DEF Move, Birth, TakeLoad, packet
<1>14. ASSUME NEW s \in Senders, TakeClear(s) PROVE LockInv'
  BY <1>14, Moves, LockKept DEF Move, Birth, TakeClear
<1>15. ASSUME NEW s \in Senders, Signal(s) PROVE LockInv'
  BY <1>15, Moves, LockKept DEF Move, Birth, Signal, packet
<1>16. ASSUME NEW s \in Senders, SendDisconnected(s) PROVE LockInv'
  BY <1>16, Moves, LockKept DEF Move, Birth, SendDisconnected
<1>17. ASSUME NEW s \in Senders, DrainEnter(s) PROVE LockInv'
  BY <1>17, Moves, LockKept DEF Move, Birth, DrainEnter
<1>18. ASSUME NEW s \in Senders, DrainPop(s) PROVE LockInv'
  BY <1>18, Moves, LockKept DEF Move, Birth, DrainPop
<1>19. ASSUME NEW s \in Senders, DrainHead(s) PROVE LockInv'
  BY <1>19, Moves, LockKept DEF Move, Birth, DrainHead, packet
<1>20. ASSUME NEW s \in Senders, DrainLeave(s) PROVE LockInv'
  BY <1>20, Moves, LockKept DEF Move, Birth, DrainLeave
<1>21. ASSUME
       OldWoken \/ OldAborted \/ RecvCall \/ TryPop \/ TryHead \/ FoldSwap \/ Fold \/ Folded \/
       TryLook \/ TryAgain \/ TryAgainHead \/ Decrement \/ DecrementSub \/ DecrementDisc \/
       DecrementFailed \/ WaitDone \/ WaitAborted \/ CanRecv \/ StartCancelBump \/ AbortLoad \/
       AbortBump \/ AbortDisc \/ AbortFinish \/ DropPort \/ DropCas \/ DropDrain
       PROVE  LockInv'
  BY <1>21, <1>same DEF OldWoken, packet, tokens, sender, OldAborted, RecvCall, TryPop, TryHead,
       FoldSwap, Fold, Folded, TryLook, TryAgain, TryAgainHead, Decrement, DecrementSub,
       DecrementDisc, DecrementFailed, WaitDone, WaitAborted, CanRecv, StartCancelBump, AbortLoad,
       AbortBump, AbortDisc, AbortFinish, DropPort, DropCas, DropDrain
<1>22. CASE Terminated
  BY <1>22, <1>same DEF Terminated, vars, packet, tokens, sender, receiver, control
<1>23. QED
  BY <1>1, <1>2, <1>3, <1>4, <1>5, <1>6, <1>7, <1>8, <1>9, <1>10, <1>11, <1>12, <1>13, <1>14, <1>15,
       <1>16, <1>17, <1>18, <1>19, <1>20, <1>21, <1>22 DEF Next, SenderStep, ReceiverStep

\* One sender at most drains the queue, and it has counted itself in.
LEMMA DrainInvStep ==
  ASSUME IInv, Next
  PROVE  DrainInv'
<1>inv. DrainInv
  BY DEF IInv
<1>types. spc \in [Senders -> SenderLocs] /\ channels \in Int /\ drain \in Int
  BY DEF IInv, TypeInv, LocTypes, CountTypes
<1>same. ASSUME UNCHANGED <<drain, spc>> PROVE DrainInv'
  BY <1>same, <1>inv DEF DrainInv, Drainers
<1>1. ASSUME NEW s \in Senders, Inherit(s) PROVE DrainInv'
  BY <1>1, <1>inv, <1>types DEF DrainInv, Drainers, Inherit, At, NoToken, tokens, receiver, control
<1>2. ASSUME NEW s \in Senders, InheritCnt(s) PROVE DrainInv'
  BY <1>2, <1>inv, <1>types DEF DrainInv, Drainers, InheritCnt, At, tokens, receiver, control
<1>3. ASSUME NEW s \in Senders, InheritSteals(s) PROVE DrainInv'
  BY <1>3, <1>inv, <1>types DEF DrainInv, Drainers, InheritSteals, At, InheritedSteals, packet,
       tokens, control
<1>4. ASSUME NEW s \in Senders, InheritUnlock(s) PROVE DrainInv'
  BY <1>4, <1>inv, <1>types, AtUnlock DEF DrainInv, Drainers, InheritUnlock
<1>5. ASSUME NEW s \in Senders, SendCall(s) PROVE DrainInv'
  BY <1>5, <1>inv, <1>types DEF DrainInv, Drainers, SendCall, At, packet, tokens, receiver, control
<1>6. ASSUME NEW s \in Senders, CloneChan(s) PROVE DrainInv'
  BY <1>6, <1>inv, <1>types DEF DrainInv, Drainers, CloneChan, At, tokens, receiver, control
<1>7. ASSUME NEW s \in Senders, DropChan(s) PROVE DrainInv'
  BY <1>7, <1>inv, <1>types DEF DrainInv, Drainers, DropChan, At, tokens, receiver, control
<1>8. ASSUME NEW s \in Senders, DropSwap(s) PROVE DrainInv'
  BY <1>8, <1>inv, <1>types DEF DrainInv, Drainers, DropSwap, At, tokens, receiver, control
<1>9. ASSUME NEW s \in Senders, SendCheck(s) PROVE DrainInv'
  BY <1>9, <1>inv, <1>types DEF DrainInv, Drainers, SendCheck, At, packet, tokens, receiver, control
<1>10. ASSUME NEW s \in Senders, PushSwap(s) PROVE DrainInv'
  BY <1>10, <1>inv, <1>types DEF DrainInv, Drainers, PushSwap, At, tokens, receiver, control
<1>11. ASSUME NEW s \in Senders, PushLink(s) PROVE DrainInv'
  BY <1>11, <1>inv, <1>types DEF DrainInv, Drainers, PushLink, At, NoMsg, tokens, receiver, control
<1>12. ASSUME NEW s \in Senders, SendAdd(s) PROVE DrainInv'
  BY <1>12, <1>inv, <1>types DEF DrainInv, Drainers, SendAdd, At, SeesWaiter, Disconnected, tokens,
       receiver, control
<1>13. ASSUME NEW s \in Senders, TakeLoad(s) PROVE DrainInv'
  BY <1>13, <1>inv, <1>types DEF DrainInv, Drainers, TakeLoad, At, NoToken, packet, tokens,
       receiver, control
<1>14. ASSUME NEW s \in Senders, TakeClear(s) PROVE DrainInv'
  BY <1>14, <1>inv, <1>types DEF DrainInv, Drainers, TakeClear, At, NoToken, tokens, receiver,
       control
<1>15. ASSUME NEW s \in Senders, Signal(s) PROVE DrainInv'
  BY <1>15, <1>inv, <1>types DEF DrainInv, Drainers, Signal, At, Free, NoToken, packet, receiver,
       control
<1>16. ASSUME NEW s \in Senders, SendDisconnected(s) PROVE DrainInv'
  BY <1>16, <1>inv, <1>types DEF DrainInv, Drainers, SendDisconnected, At, tokens, receiver, control
<1>17. ASSUME NEW s \in Senders, DrainEnter(s) PROVE DrainInv'
  BY <1>17, <1>inv, <1>types DEF DrainInv, Drainers, DrainEnter, At, tokens, receiver, control
<1>18. ASSUME NEW s \in Senders, DrainPop(s) PROVE DrainInv'
  BY <1>18, <1>inv, <1>types DEF DrainInv, Drainers, DrainPop, At, Poppable, Destroy, tokens,
       receiver, control
<1>19. ASSUME NEW s \in Senders, DrainHead(s) PROVE DrainInv'
  BY <1>19, <1>inv, <1>types DEF DrainInv, Drainers, DrainHead, At, packet, tokens, receiver,
       control
<1>20. ASSUME NEW s \in Senders, DrainLeave(s) PROVE DrainInv'
  BY <1>20, <1>inv, <1>types DEF DrainInv, Drainers, DrainLeave, At, LastDrainer, tokens, receiver,
       control
<1>21. ASSUME
       OldWoken \/ OldAborted \/ RecvCall \/ TryPop \/ TryHead \/ FoldSwap \/ Fold \/ Folded \/
       TryLook \/ TryAgain \/ TryAgainHead \/ Decrement \/ DecrementSub \/ DecrementDisc \/
       DecrementFailed \/ WaitDone \/ WaitAborted \/ CanRecv \/ StartCancelBump \/ AbortLoad \/
       AbortBump \/ AbortDisc \/ AbortFinish \/ DropPort \/ DropCas \/ DropDrain
       PROVE  DrainInv'
  BY <1>21, <1>same DEF OldWoken, packet, tokens, sender, OldAborted, RecvCall, TryPop, TryHead,
       FoldSwap, Fold, Folded, TryLook, TryAgain, TryAgainHead, Decrement, DecrementSub,
       DecrementDisc, DecrementFailed, WaitDone, WaitAborted, CanRecv, StartCancelBump, AbortLoad,
       AbortBump, AbortDisc, AbortFinish, DropPort, DropCas, DropDrain
<1>22. CASE Terminated
  BY <1>22, <1>same DEF Terminated, vars, packet, tokens, sender, receiver, control
<1>23. QED
  BY <1>1, <1>2, <1>3, <1>4, <1>5, <1>6, <1>7, <1>8, <1>9, <1>10, <1>11, <1>12, <1>13, <1>14, <1>15,
       <1>16, <1>17, <1>18, <1>19, <1>20, <1>21, <1>22 DEF Next, SenderStep, ReceiverStep

-----------------------------------------------------------------------------
(* The receiver's calls                                                    *)

\* The assertions of the receiver hold where it gets to them, and a receiver that
\* was woken finds a message or the end.
LEMMA ReceiverAsserts ==
  ASSUME IInv
  PROVE  /\ rpc \in {"sub", "cancelbump"} => cnt = DISCONNECTED \/ cnt >= 0
         /\ rpc = "abortbump" => cnt = DISCONNECTED \/ cnt + local + 1 >= 0
         /\ rpc \in {"foldbump", "foldstore"} => steals >= 0
         /\ rpc \in {"aborttake", "abortspin"} => steals \in {0, -1}
         /\ rpc = "aborttake" => toWake # NoToken
         /\ rpc = "abortdisc" /\ aborted = "none" => toWake = NoToken
         /\ rpc = "decr" /\ aborted # "upgrade" => toWake = NoToken
         /\ rpc = "look" /\ final /\ Exact => cnt = DISCONNECTED
<1>types. /\ cnt \in Int /\ local \in Int /\ steals \in Int
  BY DEF IInv, TypeInv, CountTypes
<1>inv. OverInv /\ ArmedInv /\ StealsInv /\ ToWakeInv /\ SeenInv /\ ModeInv /\ FreedInv
  BY DEF IInv
<1>1. rpc \notin Mid \cup {"gone"} => cnt = DISCONNECTED \/ Open
  BY <1>inv DEF OverInv, Open
<1>2. rpc \in {"sub", "cancelbump"} => cnt = DISCONNECTED \/ cnt >= 0
  <2>1. ASSUME rpc \in {"sub", "cancelbump"}, Open PROVE ~(cnt < 0)
    BY <1>inv, <2>1 DEF ArmedInv, Block, AbortLocs
  <2>2. QED
    BY <1>1, <2>1, <1>types DEF Mid
<1>3. rpc = "abortbump" => cnt = DISCONNECTED \/ cnt + local + 1 >= 0
  BY <1>1, <1>inv, <1>types DEF StealsInv, Open, Mid
<1>4. /\ rpc \in {"foldbump", "foldstore"} => steals >= 0
      /\ rpc \in {"aborttake", "abortspin"} => steals \in {0, -1}
  BY <1>inv DEF StealsInv, AbortLocs
<1>5. rpc = "aborttake" => toWake # NoToken
  BY <1>inv DEF ToWakeInv, Block, AbortLocs, NoToken
<1>6. rpc = "abortdisc" /\ aborted = "none" => toWake = NoToken
  BY <1>inv DEF ToWakeInv, SeenInv, ModeInv, FreedInv, Block, AbortLocs
<1>7. rpc = "decr" /\ aborted # "upgrade" => toWake = NoToken
  BY <1>inv DEF ToWakeInv, Block, AbortLocs
<1>8. rpc = "look" /\ final /\ Exact => cnt = DISCONNECTED
  BY <1>inv DEF SeenInv, ModeInv, OverInv, Mid
<1>9. QED
  BY <1>2, <1>3, <1>4, <1>5, <1>6, <1>7, <1>8

\* No step panics but after the aborts that PanicInv names.
LEMMA PanicInvStep ==
  ASSUME IInv, Next
  PROVE  PanicInv'
<1>inv. PanicInv
  BY DEF IInv
<1>types. spc \in [Senders -> SenderLocs] /\ aborted \in Aborts /\ rmode \in Modes /\ final \in BOOLEAN
         /\ cnt \in Int /\ local \in Int
  BY DEF IInv, TypeInv, LocTypes, CallTypes, CountTypes
<1>recv. SeenInv /\ ModeInv
  BY DEF IInv
<1>same. ASSUME UNCHANGED <<spc, rpc, aborted>> PROVE PanicInv'
  BY <1>same, <1>inv DEF PanicInv
<1>1. ASSUME NEW s \in Senders, Inherit(s) PROVE PanicInv'
  BY <1>1, <1>inv, <1>types, Moves, SendersAssert DEF PanicInv, Move, At, Inherit, receiver, control
<1>2. ASSUME NEW s \in Senders, InheritCnt(s) PROVE PanicInv'
  BY <1>2, <1>inv, <1>types, Moves DEF PanicInv, Move, InheritCnt, receiver, control
<1>3. ASSUME NEW s \in Senders, InheritSteals(s) PROVE PanicInv'
  BY <1>3, <1>inv, <1>types, Moves DEF PanicInv, Move, InheritSteals, receiver, control
<1>4. ASSUME NEW s \in Senders, InheritUnlock(s) PROVE PanicInv'
  BY <1>4, <1>inv, <1>types DEF PanicInv, InheritUnlock, tokens, receiver, control
<1>5. ASSUME NEW s \in Senders, SendCall(s) PROVE PanicInv'
  BY <1>5, <1>inv, <1>types, Moves DEF PanicInv, Move, SendCall, receiver, control
<1>6. ASSUME NEW s \in Senders, CloneChan(s) PROVE PanicInv'
  BY <1>6, <1>inv, <1>types DEF PanicInv, CloneChan, At, tokens, receiver, control
<1>7. ASSUME NEW s \in Senders, DropChan(s) PROVE PanicInv'
  BY <1>7, <1>inv, <1>types, Moves DEF PanicInv, Move, DropChan, receiver, control
<1>8. ASSUME NEW s \in Senders, DropSwap(s) PROVE PanicInv'
  BY <1>8, <1>inv, <1>types, Moves DEF PanicInv, Move, DropSwap, receiver, control
<1>9. ASSUME NEW s \in Senders, SendCheck(s) PROVE PanicInv'
  BY <1>9, <1>inv, <1>types, Moves DEF PanicInv, Move, SendCheck, receiver, control
<1>10. ASSUME NEW s \in Senders, PushSwap(s) PROVE PanicInv'
  BY <1>10, <1>inv, <1>types, Moves DEF PanicInv, Move, PushSwap, receiver, control
<1>11. ASSUME NEW s \in Senders, PushLink(s) PROVE PanicInv'
  BY <1>11, <1>inv, <1>types, Moves DEF PanicInv, Move, PushLink, receiver, control
<1>12. ASSUME NEW s \in Senders, SendAdd(s) PROVE PanicInv'
  BY <1>12, <1>inv, <1>types, Moves DEF PanicInv, Move, SendAdd, receiver, control
<1>13. ASSUME NEW s \in Senders, TakeLoad(s) PROVE PanicInv'
  BY <1>13, <1>inv, <1>types, Moves DEF PanicInv, Move, TakeLoad, receiver, control
<1>14. ASSUME NEW s \in Senders, TakeClear(s) PROVE PanicInv'
  BY <1>14, <1>inv, <1>types, Moves DEF PanicInv, Move, TakeClear, receiver, control
<1>15. ASSUME NEW s \in Senders, Signal(s) PROVE PanicInv'
  BY <1>15, <1>inv, <1>types, Moves DEF PanicInv, Move, Signal, receiver, control
<1>16. ASSUME NEW s \in Senders, SendDisconnected(s) PROVE PanicInv'
  BY <1>16, <1>inv, <1>types, Moves DEF PanicInv, Move, SendDisconnected, receiver, control
<1>17. ASSUME NEW s \in Senders, DrainEnter(s) PROVE PanicInv'
  BY <1>17, <1>inv, <1>types, Moves DEF PanicInv, Move, DrainEnter, receiver, control
<1>18. ASSUME NEW s \in Senders, DrainPop(s) PROVE PanicInv'
  BY <1>18, <1>inv, <1>types, Moves DEF PanicInv, Move, DrainPop, receiver, control
<1>19. ASSUME NEW s \in Senders, DrainHead(s) PROVE PanicInv'
  BY <1>19, <1>inv, <1>types, Moves DEF PanicInv, Move, DrainHead, receiver, control
<1>20. ASSUME NEW s \in Senders, DrainLeave(s) PROVE PanicInv'
  BY <1>20, <1>inv, <1>types, Moves DEF PanicInv, Move, DrainLeave, receiver, control
<1>21. ASSUME OldWoken PROVE PanicInv'
  BY <1>21, <1>inv, <1>types DEF PanicInv, OldWoken, NoToken, packet, tokens, sender
<1>22. ASSUME OldAborted PROVE PanicInv'
  BY <1>22, <1>inv, <1>types, <1>recv DEF PanicInv, SeenInv, ModeInv, OldAborted, NoToken, packet,
       tokens, sender
<1>23. ASSUME RecvCall PROVE PanicInv'
  BY <1>23, <1>inv, <1>types DEF PanicInv, RecvCall, packet, tokens, sender
<1>24. ASSUME TryPop PROVE PanicInv'
  BY <1>24, <1>inv, <1>types DEF PanicInv, TryPop, Found, FoldDue, Poppable, Return, tokens, sender
<1>25. ASSUME TryHead PROVE PanicInv'
  BY <1>25, <1>inv, <1>recv DEF PanicInv, SeenInv, ModeInv, TryHead, IsEmpty, packet, tokens, sender
<1>26. ASSUME FoldSwap PROVE PanicInv'
  BY <1>26, <1>inv, <1>types DEF PanicInv, FoldSwap, Foldable, AddBack, tokens, sender
<1>27. ASSUME Fold PROVE PanicInv'
  BY <1>27, <1>inv, <1>types, ReceiverAsserts DEF PanicInv, Exact, Fold, tokens, sender
<1>28. ASSUME Folded PROVE PanicInv'
  BY <1>28, <1>inv, <1>types DEF PanicInv, Folded, Found, Return, tokens, sender
<1>29. ASSUME TryLook PROVE PanicInv'
  BY <1>29, <1>inv, <1>types, ReceiverAsserts DEF PanicInv, Exact, Modes, Aborts, TryLook, Return,
       SawHangup, packet, tokens, sender
<1>30. ASSUME TryAgain PROVE PanicInv'
  BY <1>30, <1>inv, <1>types DEF PanicInv, TryAgain, Found, Poppable, Return, tokens, sender
<1>31. ASSUME TryAgainHead PROVE PanicInv'
  BY <1>31, <1>inv, <1>recv DEF PanicInv, SeenInv, ModeInv, TryAgainHead, Return, IsEmpty,
       Disconnected, packet, tokens, sender
<1>32. ASSUME Decrement PROVE PanicInv'
  BY <1>32, <1>inv, <1>types, ReceiverAsserts DEF PanicInv, Exact, Decrement, NoToken, tokens, sender
<1>33. ASSUME DecrementSub PROVE PanicInv'
  BY <1>33, <1>inv, <1>types, ReceiverAsserts DEF PanicInv, Exact, DecrementSub, tokens, sender
<1>34. ASSUME DecrementDisc PROVE PanicInv'
  BY <1>34, <1>inv, <1>types DEF PanicInv, DecrementDisc, tokens, sender
<1>35. ASSUME DecrementFailed PROVE PanicInv'
  BY <1>35, <1>inv, <1>types DEF PanicInv, DecrementFailed, Free, NoToken, sender
<1>36. ASSUME WaitDone PROVE PanicInv'
  BY <1>36, <1>inv, <1>types DEF PanicInv, WaitDone, NoToken, packet, tokens, sender
<1>37. ASSUME WaitAborted PROVE PanicInv'
  BY <1>37, <1>inv, <1>types DEF PanicInv, WaitAborted, packet, tokens, sender
<1>38. ASSUME CanRecv PROVE PanicInv'
  BY <1>38, <1>inv, <1>types DEF PanicInv, CanRecv, Return, packet, tokens, sender
<1>39. ASSUME StartCancelBump PROVE PanicInv'
  BY <1>39, <1>inv, <1>types, ReceiverAsserts DEF PanicInv, Exact, StartCancelBump, Return, tokens,
       sender
<1>40. ASSUME AbortLoad PROVE PanicInv'
  BY <1>40, <1>inv, <1>types DEF PanicInv, AbortLoad, UpgradeDone, packet, tokens, sender
<1>41. ASSUME AbortBump PROVE PanicInv'
  BY <1>41, <1>inv, <1>types, ReceiverAsserts DEF PanicInv, Exact, AbortBump, tokens, sender
<1>42. ASSUME AbortDisc PROVE PanicInv'
  BY <1>42, <1>inv, <1>types, ReceiverAsserts DEF PanicInv, Exact, AbortDisc, AbortReturn, NoToken,
       Return, tokens, sender
<1>43. ASSUME AbortFinish PROVE PanicInv'
  BY <1>43, <1>inv, <1>types, ReceiverAsserts DEF PanicInv, Exact, AbortFinish, Free, AbortReturn,
       NoToken, Return, sender
<1>44. ASSUME DropPort PROVE PanicInv'
  BY <1>44, <1>inv, <1>types DEF PanicInv, DropPort, tokens, sender
<1>45. ASSUME DropCas PROVE PanicInv'
  BY <1>45, <1>inv, <1>types DEF PanicInv, DropCas, tokens, sender
<1>46. ASSUME DropDrain PROVE PanicInv'
  BY <1>46, <1>inv, <1>types DEF PanicInv, DropDrain, Poppable, Destroy, tokens, sender
<1>47. CASE Terminated
  BY <1>47, <1>same DEF Terminated, vars, packet, tokens, sender, receiver, control
<1>48. QED
  BY <1>1, <1>2, <1>3, <1>4, <1>5, <1>6, <1>7, <1>8, <1>9, <1>10, <1>11, <1>12, <1>13, <1>14, <1>15,
       <1>16, <1>17, <1>18, <1>19, <1>20, <1>21, <1>22, <1>23, <1>24, <1>25, <1>26, <1>27, <1>28,
       <1>29, <1>30, <1>31, <1>32, <1>33, <1>34, <1>35, <1>36, <1>37, <1>38, <1>39, <1>40, <1>41,
       <1>42, <1>43, <1>44, <1>45, <1>46, <1>47 DEF Next, SenderStep, ReceiverStep

\* A receiver that may block has a token left to make.
LEMMA BlocksInvStep ==
  ASSUME IInv, Next
  PROVE  BlocksInv'
<1>inv. BlocksInv
  BY DEF IInv
<1>types. blocks \in Nat /\ rmode \in Modes /\ final \in BOOLEAN /\ MaxBlocks \in Nat /\ MaxBlocks >= 2
  BY Numbers DEF IInv, TypeInv, TokenTypes, CallTypes
<1>recv. /\ rpc = "old" => blocks = 1 /\ rmode # "try" /\ ~final
         /\ rpc = "cancelbump" => rmode = "select"
  BY DEF IInv, ModeInv
<1>same. ASSUME UNCHANGED <<blocks, rpc, rmode, final>> PROVE BlocksInv'
  BY <1>same, <1>inv DEF BlocksInv, TryLocs
<1>1. ASSUME NEW s \in Senders,
       Inherit(s) \/ InheritCnt(s) \/ InheritSteals(s) \/ InheritUnlock(s) \/ SendCall(s) \/
       CloneChan(s) \/ DropChan(s) \/ DropSwap(s) \/ SendCheck(s) \/ PushSwap(s) \/ PushLink(s) \/
       SendAdd(s) \/ TakeLoad(s) \/ TakeClear(s) \/ Signal(s) \/ SendDisconnected(s) \/
       DrainEnter(s) \/ DrainPop(s) \/ DrainHead(s) \/ DrainLeave(s)
       PROVE  BlocksInv'
  BY <1>1, <1>same DEF Inherit, tokens, receiver, control, InheritCnt, InheritSteals, packet,
       InheritUnlock, SendCall, CloneChan, DropChan, DropSwap, SendCheck, PushSwap, PushLink,
       SendAdd, TakeLoad, TakeClear, Signal, SendDisconnected, DrainEnter, DrainPop, DrainHead,
       DrainLeave
<1>2. ASSUME OldWoken PROVE BlocksInv'
  BY <1>2, <1>inv, <1>types, <1>recv DEF BlocksInv, TryLocs, OldWoken, NoToken, packet, tokens,
       sender
<1>3. ASSUME OldAborted PROVE BlocksInv'
  BY <1>3, <1>inv, <1>types, <1>recv DEF BlocksInv, TryLocs, OldAborted, NoToken, packet, tokens,
       sender
<1>4. ASSUME RecvCall PROVE BlocksInv'
  BY <1>4, <1>inv, <1>types, <1>recv DEF BlocksInv, TryLocs, RecvCall, packet, tokens, sender
<1>5. ASSUME TryPop PROVE BlocksInv'
  BY <1>5, <1>inv, <1>types, <1>recv DEF BlocksInv, TryLocs, TryPop, Found, FoldDue, Poppable,
       Return, tokens, sender
<1>6. ASSUME TryHead PROVE BlocksInv'
  BY <1>6, <1>inv, <1>types, <1>recv DEF BlocksInv, TryLocs, TryHead, IsEmpty, packet, tokens,
       sender
<1>7. ASSUME FoldSwap PROVE BlocksInv'
  BY <1>7, <1>inv, <1>types, <1>recv DEF BlocksInv, TryLocs, FoldSwap, Foldable, AddBack, tokens,
       sender
<1>8. ASSUME Fold PROVE BlocksInv'
  BY <1>8, <1>inv, <1>types, <1>recv DEF BlocksInv, TryLocs, Fold, tokens, sender
<1>9. ASSUME Folded PROVE BlocksInv'
  BY <1>9, <1>inv, <1>types, <1>recv DEF BlocksInv, TryLocs, Folded, Found, Return, tokens, sender
<1>10. ASSUME TryLook PROVE BlocksInv'
  BY <1>10, <1>inv, <1>types, <1>recv DEF BlocksInv, TryLocs, TryLook, Return, SawHangup, packet,
       tokens, sender
<1>11. ASSUME TryAgain PROVE BlocksInv'
  BY <1>11, <1>inv, <1>types, <1>recv DEF BlocksInv, TryLocs, TryAgain, Found, Poppable, Return,
       tokens, sender
<1>12. ASSUME TryAgainHead PROVE BlocksInv'
  BY <1>12, <1>inv, <1>types, <1>recv DEF BlocksInv, TryLocs, TryAgainHead, Return, IsEmpty,
       Disconnected, packet, tokens, sender
<1>13. ASSUME Decrement PROVE BlocksInv'
  BY <1>13, <1>inv, <1>types, <1>recv DEF BlocksInv, TryLocs, Decrement, NoToken, tokens, sender
<1>14. ASSUME DecrementSub PROVE BlocksInv'
  BY <1>14, <1>inv, <1>types, <1>recv DEF BlocksInv, TryLocs, DecrementSub, tokens, sender
<1>15. ASSUME DecrementDisc PROVE BlocksInv'
  BY <1>15, <1>inv, <1>types, <1>recv DEF BlocksInv, TryLocs, DecrementDisc, tokens, sender
<1>16. ASSUME DecrementFailed PROVE BlocksInv'
  BY <1>16, <1>inv, <1>types, <1>recv DEF BlocksInv, TryLocs, DecrementFailed, Free, NoToken, sender
<1>17. ASSUME WaitDone PROVE BlocksInv'
  BY <1>17, <1>inv, <1>types, <1>recv DEF BlocksInv, TryLocs, WaitDone, NoToken, packet, tokens,
       sender
<1>18. ASSUME WaitAborted PROVE BlocksInv'
  BY <1>18, <1>inv, <1>types, <1>recv DEF BlocksInv, TryLocs, WaitAborted, packet, tokens, sender
<1>19. ASSUME CanRecv PROVE BlocksInv'
  BY <1>19, <1>inv, <1>types, <1>recv DEF BlocksInv, TryLocs, CanRecv, Return, packet, tokens,
       sender
<1>20. ASSUME StartCancelBump PROVE BlocksInv'
  BY <1>20, <1>inv, <1>types, <1>recv DEF BlocksInv, TryLocs, StartCancelBump, Return, tokens,
       sender
<1>21. ASSUME AbortLoad PROVE BlocksInv'
  BY <1>21, <1>inv, <1>types, <1>recv DEF BlocksInv, TryLocs, AbortLoad, UpgradeDone, packet,
       tokens, sender
<1>22. ASSUME AbortBump PROVE BlocksInv'
  BY <1>22, <1>inv, <1>types, <1>recv DEF BlocksInv, TryLocs, AbortBump, tokens, sender
<1>23. ASSUME AbortDisc PROVE BlocksInv'
  BY <1>23, <1>inv, <1>types, <1>recv DEF BlocksInv, TryLocs, AbortDisc, AbortReturn, NoToken,
       Return, tokens, sender
<1>24. ASSUME AbortFinish PROVE BlocksInv'
  BY <1>24, <1>inv, <1>types, <1>recv DEF BlocksInv, TryLocs, AbortFinish, Free, AbortReturn,
       NoToken, Return, sender
<1>25. ASSUME DropPort PROVE BlocksInv'
  BY <1>25, <1>inv, <1>types, <1>recv DEF BlocksInv, TryLocs, DropPort, tokens, sender
<1>26. ASSUME DropCas PROVE BlocksInv'
  BY <1>26, <1>inv, <1>types, <1>recv DEF BlocksInv, TryLocs, DropCas, tokens, sender
<1>27. ASSUME DropDrain PROVE BlocksInv'
  BY <1>27, <1>inv, <1>types, <1>recv DEF BlocksInv, TryLocs, DropDrain, Poppable, Destroy, tokens,
       sender
<1>28. CASE Terminated
  BY <1>28, <1>same DEF Terminated, vars, packet, tokens, sender, receiver, control
<1>29. QED
  BY <1>1, <1>2, <1>3, <1>4, <1>5, <1>6, <1>7, <1>8, <1>9, <1>10, <1>11, <1>12, <1>13, <1>14, <1>15,
       <1>16, <1>17, <1>18, <1>19, <1>20, <1>21, <1>22, <1>23, <1>24, <1>25, <1>26, <1>27, <1>28 DEF
       Next, SenderStep, ReceiverStep

\* `to_wake' is empty or holds the token of the wait under way.
LEMMA ToWakeInvStep ==
  ASSUME IInv, Next
  PROVE  ToWakeInv'
<1>inv. ToWakeInv
  BY DEF IInv
<1>types. /\ blocks \in Nat /\ rtok \in Nat /\ toWake \in Nat
          /\ cnt \in Int /\ local \in Int
  BY DEF IInv, TypeInv, TokenTypes, CountTypes
<1>tok. TakerInv /\ FreedInv
  BY DEF IInv
<1>recv. /\ rpc = "old" => aborted = "none" /\ blocks = 1 /\ rtok = 1 /\ ~final /\ rmode # "try"
         /\ rpc = "decr" => ~final
  BY DEF IInv, ModeInv, TryLocs
<1>same. ASSUME UNCHANGED <<rpc, toWake, rtok, blocks, aborted, final>> PROVE ToWakeInv'
  BY <1>same, <1>inv DEF ToWakeInv, Block, AbortLocs, NoToken
<1>1. ASSUME NEW s \in Senders,
       InheritCnt(s) \/ InheritSteals(s) \/ InheritUnlock(s) \/ SendCall(s) \/ CloneChan(s) \/
       DropChan(s) \/ DropSwap(s) \/ SendCheck(s) \/ PushSwap(s) \/ PushLink(s) \/ SendAdd(s) \/
       TakeLoad(s) \/ Signal(s) \/ SendDisconnected(s) \/ DrainEnter(s) \/ DrainPop(s) \/
       DrainHead(s) \/ DrainLeave(s)
       PROVE  ToWakeInv'
  BY <1>1, <1>same DEF InheritCnt, tokens, receiver, control, InheritSteals, packet, InheritUnlock,
       SendCall, CloneChan, DropChan, DropSwap, SendCheck, PushSwap, PushLink, SendAdd, TakeLoad,
       Signal, SendDisconnected, DrainEnter, DrainPop, DrainHead, DrainLeave
<1>2. ASSUME NEW s \in Senders, Inherit(s) PROVE ToWakeInv'
  <2>1. /\ toWake' = toWake /\ UNCHANGED <<rpc, rtok, blocks, aborted, final>>
        \/ /\ toWake = NoToken /\ toWake' = stok[s] /\ spc[s] = "inherit"
           /\ UNCHANGED <<rpc, rtok, blocks, aborted, final>>
    BY <1>2 DEF Inherit, receiver, control
  <2>2. ASSUME spc[s] = "inherit", toWake = NoToken
        PROVE  /\ stok[s] = 1 /\ rpc \in {"old", "abort", "try", "tryhead", "look", "decr"}
               /\ rpc \in {"old", "abort"} => rtok = 1
               /\ rpc \notin {"old", "abort"} => aborted = "upgrade"
               /\ ~final
    <3>1. s = Creator
      BY <2>2 DEF IInv, LockInv, Birth
    <3>2. QED
      BY <2>2, <3>1 DEF IInv, BirthInv, Inherited, Birth
  <2>3. QED
    BY <2>1, <2>2, <1>same, <1>inv, <1>types DEF ToWakeInv, Block, AbortLocs, NoToken
<1>3. ASSUME NEW s \in Senders, TakeClear(s) PROVE ToWakeInv'
  BY <1>3, <1>inv, <1>types, <1>tok DEF ToWakeInv, Block, AbortLocs, TakerInv, TakeClear, receiver,
       control
<1>4. ASSUME OldWoken PROVE ToWakeInv'
  BY <1>4, <1>inv, <1>types, <1>recv, <1>tok DEF ToWakeInv, Block, AbortLocs, FreedInv, OldWoken,
       NoToken, packet, tokens, sender
<1>5. ASSUME OldAborted PROVE ToWakeInv'
  BY <1>5, <1>inv, <1>types, <1>recv DEF ToWakeInv, Block, AbortLocs, NoToken, OldAborted, packet,
       tokens, sender
<1>6. ASSUME RecvCall PROVE ToWakeInv'
  BY <1>6, <1>inv, <1>types, <1>recv DEF ToWakeInv, Block, AbortLocs, NoToken, RecvCall, packet,
       tokens, sender
<1>7. ASSUME TryPop PROVE ToWakeInv'
  BY <1>7, <1>inv, <1>types, <1>recv DEF ToWakeInv, Block, AbortLocs, NoToken, TryPop, Found,
       FoldDue, Poppable, Return, tokens, sender
<1>8. ASSUME TryHead PROVE ToWakeInv'
  BY <1>8, <1>inv, <1>types, <1>recv DEF ToWakeInv, Block, AbortLocs, NoToken, TryHead, IsEmpty,
       packet, tokens, sender
<1>9. ASSUME FoldSwap PROVE ToWakeInv'
  BY <1>9, <1>inv, <1>types, <1>recv DEF ToWakeInv, Block, AbortLocs, NoToken, FoldSwap, Foldable,
       AddBack, tokens, sender
<1>10. ASSUME Fold PROVE ToWakeInv'
  BY <1>10, <1>inv, <1>types, <1>recv DEF ToWakeInv, Block, AbortLocs, NoToken, Fold, tokens, sender
<1>11. ASSUME Folded PROVE ToWakeInv'
  BY <1>11, <1>inv, <1>types, <1>recv DEF ToWakeInv, Block, AbortLocs, NoToken, Folded, Found,
       Return, tokens, sender
<1>12. ASSUME TryLook PROVE ToWakeInv'
  BY <1>12, <1>inv, <1>types, <1>recv DEF ToWakeInv, Block, AbortLocs, NoToken, TryLook, Return,
       SawHangup, packet, tokens, sender
<1>13. ASSUME TryAgain PROVE ToWakeInv'
  BY <1>13, <1>inv, <1>types, <1>recv DEF ToWakeInv, Block, AbortLocs, NoToken, TryAgain, Found,
       Poppable, Return, tokens, sender
<1>14. ASSUME TryAgainHead PROVE ToWakeInv'
  BY <1>14, <1>inv, <1>types, <1>recv DEF ToWakeInv, Block, AbortLocs, NoToken, TryAgainHead,
       Return, IsEmpty, Disconnected, packet, tokens, sender
<1>15. ASSUME Decrement PROVE ToWakeInv'
  BY <1>15, <1>inv, <1>types, <1>recv DEF ToWakeInv, Block, AbortLocs, NoToken, Decrement, tokens,
       sender
<1>16. ASSUME DecrementSub PROVE ToWakeInv'
  BY <1>16, <1>inv, <1>types, ReceiverAsserts DEF ToWakeInv, Block, AbortLocs, DecrementSub, tokens,
       sender
<1>17. ASSUME DecrementDisc PROVE ToWakeInv'
  BY <1>17, <1>inv, <1>types, <1>recv DEF ToWakeInv, Block, AbortLocs, NoToken, DecrementDisc,
       tokens, sender
<1>18. ASSUME DecrementFailed PROVE ToWakeInv'
  BY <1>18, <1>inv, <1>types, <1>recv DEF ToWakeInv, Block, AbortLocs, NoToken, DecrementFailed,
       Free, sender
<1>19. ASSUME WaitDone PROVE ToWakeInv'
  BY <1>19, <1>inv, <1>types, <1>recv, <1>tok DEF ToWakeInv, Block, AbortLocs, FreedInv, WaitDone,
       NoToken, packet, tokens, sender
<1>20. ASSUME WaitAborted PROVE ToWakeInv'
  BY <1>20, <1>inv, <1>types, <1>recv DEF ToWakeInv, Block, AbortLocs, NoToken, WaitAborted, packet,
       tokens, sender
<1>21. ASSUME CanRecv PROVE ToWakeInv'
  BY <1>21, <1>inv, <1>types, <1>recv DEF ToWakeInv, Block, AbortLocs, NoToken, CanRecv, Return,
       packet, tokens, sender
<1>22. ASSUME StartCancelBump PROVE ToWakeInv'
  BY <1>22, <1>inv, <1>types, <1>recv DEF ToWakeInv, Block, AbortLocs, NoToken, StartCancelBump,
       Return, tokens, sender
<1>23. ASSUME AbortLoad PROVE ToWakeInv'
  BY <1>23, <1>inv, <1>types, <1>recv DEF ToWakeInv, Block, AbortLocs, NoToken, AbortLoad,
       UpgradeDone, packet, tokens, sender
<1>24. ASSUME AbortBump PROVE ToWakeInv'
  <2>1. rpc = "abortbump" /\ rpc' \in {"abortdisc", "aborttake", "abortspin"}
        /\ UNCHANGED <<toWake, rtok, blocks, aborted, final>>
    BY <1>24, <1>types, ReceiverAsserts DEF AbortBump, tokens, sender
  <2>2. ASSUME rpc' = "aborttake" PROVE toWake = rtok
    <3>1. cnt < 0 /\ cnt # DISCONNECTED
      BY <1>24, <2>2, ReceiverAsserts, <1>types DEF AbortBump
    <3>2. Open
      BY <2>1, <3>1 DEF Open, IInv, OverInv, Mid
    <3>3. toWake # NoToken
      BY <3>1, <3>2 DEF IInv, ArmedInv
    <3>4. QED
      BY <2>1, <3>3, <1>inv DEF ToWakeInv, Block, AbortLocs
  <2>3. QED
    BY <2>1, <2>2, <1>inv DEF ToWakeInv, Block, AbortLocs
<1>25. ASSUME AbortDisc PROVE ToWakeInv'
  BY <1>25, <1>inv, <1>types, <1>recv DEF ToWakeInv, Block, AbortLocs, NoToken, AbortDisc,
       AbortReturn, Return, tokens, sender
<1>26. ASSUME AbortFinish PROVE ToWakeInv'
  BY <1>26, <1>inv, <1>types, <1>recv DEF ToWakeInv, Block, AbortLocs, NoToken, AbortFinish, Free,
       AbortReturn, Return, sender
<1>27. ASSUME DropPort PROVE ToWakeInv'
  BY <1>27, <1>inv, <1>types, <1>recv DEF ToWakeInv, Block, AbortLocs, NoToken, DropPort, tokens,
       sender
<1>28. ASSUME DropCas PROVE ToWakeInv'
  BY <1>28, <1>inv, <1>types, <1>recv DEF ToWakeInv, Block, AbortLocs, NoToken, DropCas, tokens,
       sender
<1>29. ASSUME DropDrain PROVE ToWakeInv'
  BY <1>29, <1>inv, <1>types, <1>recv DEF ToWakeInv, Block, AbortLocs, NoToken, DropDrain, Poppable,
       Destroy, tokens, sender
<1>30. CASE Terminated
  BY <1>30, <1>same DEF Terminated, vars, packet, tokens, sender, receiver, control
<1>31. QED
  BY <1>1, <1>2, <1>3, <1>4, <1>5, <1>6, <1>7, <1>8, <1>9, <1>10, <1>11, <1>12, <1>13, <1>14, <1>15,
       <1>16, <1>17, <1>18, <1>19, <1>20, <1>21, <1>22, <1>23, <1>24, <1>25, <1>26, <1>27, <1>28,
       <1>29, <1>30 DEF Next, SenderStep, ReceiverStep

-----------------------------------------------------------------------------
(* The end of the channel, and the steals                                  *)

\* Only the last handle's swap ends the channel, and the end is final.
LEMMA SenderOver ==
  ASSUME IInv, NEW s \in Senders, SenderStep(s) \/ SendCall(s) \/ CloneChan(s) \/ DropChan(s)
  PROVE  /\ Over => Over'
         /\ ~DropSwap(s) => (Over' => Over)
<1>types. spc \in [Senders -> SenderLocs] /\ channels \in Int /\ channels >= 0
  BY DEF IInv, TypeInv, LocTypes, CountTypes, HandleInv
<1>1. ASSUME spc' = [spc EXCEPT ![s] = spc'[s]], channels' = channels,
             spc[s] # "dropswap", spc'[s] # "dropswap"
      PROVE  Over' <=> Over
  <2>1. \A t \in Senders : spc'[t] = "dropswap" <=> spc[t] = "dropswap"
    BY <1>1, <1>types
  <2>2. QED
    BY <1>1, <2>1 DEF Over
<1>2. CASE Inherit(s)
  BY <1>2, <1>1, Moves DEF Move, Inherit
<1>3. CASE InheritCnt(s)
  BY <1>3, <1>1, Moves DEF Move, InheritCnt
<1>4. CASE InheritSteals(s)
  BY <1>4, <1>1, Moves DEF Move, InheritSteals, packet
<1>5. CASE SendCall(s)
  BY <1>5, <1>1, Moves DEF Move, SendCall, packet
<1>6. CASE SendCheck(s)
  BY <1>6, <1>1, Moves DEF Move, SendCheck, packet
<1>7. CASE PushSwap(s)
  BY <1>7, <1>1, Moves DEF Move, PushSwap
<1>8. CASE PushLink(s)
  BY <1>8, <1>1, Moves DEF Move, PushLink
<1>9. CASE SendAdd(s)
  BY <1>9, <1>1, Moves DEF Move, SendAdd
<1>10. CASE TakeLoad(s)
  BY <1>10, <1>1, Moves DEF Move, TakeLoad, packet
<1>11. CASE TakeClear(s)
  BY <1>11, <1>1, Moves DEF Move, TakeClear
<1>12. CASE Signal(s)
  BY <1>12, <1>1, Moves DEF Move, Signal, packet
<1>13. CASE SendDisconnected(s)
  BY <1>13, <1>1, Moves DEF Move, SendDisconnected
<1>14. CASE DrainEnter(s)
  BY <1>14, <1>1, Moves DEF Move, DrainEnter
<1>15. CASE DrainPop(s)
  BY <1>15, <1>1, Moves DEF Move, DrainPop
<1>16. CASE DrainHead(s)
  BY <1>16, <1>1, Moves DEF Move, DrainHead, packet
<1>17. CASE DrainLeave(s)
  BY <1>17, <1>1, Moves DEF Move, DrainLeave
<1>30. CASE InheritUnlock(s)
  <2>1. channels = 2 /\ channels' = channels
    BY <1>30, AtUnlock DEF InheritUnlock
  <2>2. QED
    BY <2>1 DEF Over
<1>31. CASE CloneChan(s)
  <2>1. channels > 0 /\ channels' = channels + 1
    BY <1>31, OpenWhile DEF CloneChan
  <2>2. QED
    BY <2>1, <1>types DEF Over
<1>32. CASE DropChan(s)
  <2>1. channels > 0 /\ channels' = channels - 1 /\ (channels = 1 => spc'[s] = "dropswap")
    BY <1>32, <1>types, OpenWhile DEF DropChan, At
  <2>2. QED
    BY <2>1, <1>types DEF Over
<1>33. CASE DropSwap(s)
  <2>1. spc[s] = "dropswap"
    BY <1>33 DEF DropSwap
  <2>2. QED
    BY <1>33, <2>1 DEF Over
<1>40. QED
  BY <1>2, <1>3, <1>4, <1>5, <1>6, <1>7, <1>8, <1>9, <1>10, <1>11, <1>12, <1>13, <1>14, <1>15,
       <1>16, <1>17, <1>30, <1>31, <1>32, <1>33 DEF SenderStep

\* The receiver does not end the channel.
LEMMA ReceiverOver ==
  ASSUME IInv, UNCHANGED <<spc, channels>>
  PROVE  Over' <=> Over
BY DEF Over

\* Only the creator's birth steps hand the blocker over.
LEMMA SenderInherited ==
  ASSUME IInv, NEW s \in Senders, SenderStep(s) \/ SendCall(s) \/ CloneChan(s) \/ DropChan(s),
         spc[s] \notin Birth
  PROVE  Inherited' <=> Inherited
<1>types. spc \in [Senders -> SenderLocs] /\ Creator \in Senders /\ Child # Creator
  BY SharedAssumption DEF IInv, TypeInv, LocTypes
<1>1. ASSUME spc' = [spc EXCEPT ![s] = spc'[s]], spc'[s] \notin Birth
      PROVE  Inherited' <=> Inherited
  <2>1. CASE s = Creator
    BY <1>1, <2>1 DEF Inherited
  <2>2. CASE s # Creator
    <3>1. spc'[Creator] = spc[Creator]
      BY <1>1, <1>types, <2>2
    <3>2. QED
      BY <3>1 DEF Inherited
  <2>3. QED
    BY <2>1, <2>2
<1>2. CASE SendCall(s)
  BY <1>2, <1>1, Moves DEF Move, Birth
<1>3. CASE DropChan(s)
  BY <1>3, <1>1, Moves DEF Move, Birth
<1>4. CASE DropSwap(s)
  BY <1>4, <1>1, Moves DEF Move, Birth
<1>5. CASE SendCheck(s)
  BY <1>5, <1>1, Moves DEF Move, Birth
<1>6. CASE PushSwap(s)
  BY <1>6, <1>1, Moves DEF Move, Birth
<1>7. CASE PushLink(s)
  BY <1>7, <1>1, Moves DEF Move, Birth
<1>8. CASE SendAdd(s)
  BY <1>8, <1>1, Moves DEF Move, Birth
<1>9. CASE TakeLoad(s)
  BY <1>9, <1>1, Moves DEF Move, Birth
<1>10. CASE TakeClear(s)
  BY <1>10, <1>1, Moves DEF Move, Birth
<1>11. CASE Signal(s)
  BY <1>11, <1>1, Moves DEF Move, Birth
<1>12. CASE SendDisconnected(s)
  BY <1>12, <1>1, Moves DEF Move, Birth
<1>13. CASE DrainEnter(s)
  BY <1>13, <1>1, Moves DEF Move, Birth
<1>14. CASE DrainPop(s)
  BY <1>14, <1>1, Moves DEF Move, Birth
<1>15. CASE DrainHead(s)
  BY <1>15, <1>1, Moves DEF Move, Birth
<1>16. CASE DrainLeave(s)
  BY <1>16, <1>1, Moves DEF Move, Birth
<1>30. CASE InheritUnlock(s)
  <2>1. /\ spc[s] = "unlock" /\ s = Creator /\ spc' = [spc EXCEPT ![s] = "idle", ![Child] = "idle"]
    BY <1>30, AtUnlock DEF InheritUnlock
  <2>2. spc'[Creator] = "idle" /\ spc[Creator] = "unlock"
    BY <2>1, <1>types
  <2>3. QED
    BY <2>2 DEF Inherited, Birth
<1>31. CASE CloneChan(s)
  <2>1. PICK t \in Senders : spc[t] = "gone" /\ spc' = [spc EXCEPT ![t] = "idle"]
    BY <1>31 DEF CloneChan, At
  <2>2. QED
    BY <2>1, <1>types DEF Inherited, Birth
<1>32. CASE Inherit(s) \/ InheritCnt(s) \/ InheritSteals(s)
  BY <1>32 DEF Inherit, InheritCnt, InheritSteals, Birth
<1>40. QED
  BY <1>2, <1>3, <1>4, <1>5, <1>6, <1>7, <1>8, <1>9, <1>10, <1>11, <1>12, <1>13, <1>14, <1>15,
       <1>16, <1>30, <1>31, <1>32 DEF SenderStep

\* The count is DISCONNECTED from the last handle's swap on.
LEMMA OverInvStep ==
  ASSUME IInv, Next
  PROVE  OverInv'
<1>inv. OverInv
  BY DEF IInv
<1>types. /\ cnt \in Int /\ local \in Int /\ steals \in Int /\ spc \in [Senders -> SenderLocs]
          /\ final \in BOOLEAN
  BY DEF IInv, TypeInv, CountTypes, LocTypes, CallTypes
<1>open. rpc # "gone" /\ cnt = DISCONNECTED => Over
  BY CountFacts DEF Open
<1>nodrop. \A s \in Senders : spc[s] # "dropswap" => ~DropSwap(s)
  BY DEF DropSwap
<1>kept. ASSUME Over' <=> Over, UNCHANGED <<rpc, cnt>> PROVE OverInv'
  BY <1>kept, <1>inv DEF OverInv
<1>same. ASSUME UNCHANGED <<rpc, cnt, channels, spc>> PROVE OverInv'
  BY <1>same, <1>inv DEF OverInv, Over
<1>1. ASSUME NEW s \in Senders, Inherit(s) PROVE OverInv'
  BY <1>1, <1>kept, SenderOver, <1>nodrop DEF SenderStep, Inherit, tokens, receiver, control
<1>2. ASSUME NEW s \in Senders, InheritCnt(s) PROVE OverInv'
  <2>1. ~Over
    BY <1>2, OpenWhile DEF InheritCnt
  <2>2. ~Over' /\ UNCHANGED rpc
    BY <1>2, <2>1, SenderOver, <1>nodrop DEF SenderStep, InheritCnt, receiver, control
  <2>3. QED
    BY <2>1, <2>2, <1>inv DEF OverInv
<1>3. ASSUME NEW s \in Senders, InheritSteals(s) PROVE OverInv'
  BY <1>3, <1>kept, SenderOver, <1>nodrop DEF SenderStep, InheritSteals, packet, tokens, control
<1>4. ASSUME NEW s \in Senders, InheritUnlock(s) PROVE OverInv'
  BY <1>4, <1>kept, SenderOver, <1>nodrop DEF SenderStep, InheritUnlock, tokens, receiver, control
<1>5. ASSUME NEW s \in Senders, SendCall(s) PROVE OverInv'
  BY <1>5, <1>kept, SenderOver, <1>nodrop DEF SenderStep, SendCall, packet, tokens, receiver,
       control
<1>6. ASSUME NEW s \in Senders, CloneChan(s) PROVE OverInv'
  BY <1>6, <1>kept, SenderOver, <1>nodrop DEF SenderStep, CloneChan, tokens, receiver, control
<1>7. ASSUME NEW s \in Senders, DropChan(s) PROVE OverInv'
  BY <1>7, <1>kept, SenderOver, <1>nodrop DEF SenderStep, DropChan, tokens, receiver, control
<1>8. ASSUME NEW s \in Senders, DropSwap(s) PROVE OverInv'
  <2>1. Over => Over'
    BY <1>8, SenderOver DEF SenderStep
  <2>2. UNCHANGED rpc /\ cnt' = DISCONNECTED
    BY <1>8 DEF DropSwap, receiver, control
  <2>3. QED
    BY <2>1, <2>2, <1>inv DEF OverInv
<1>9. ASSUME NEW s \in Senders, SendCheck(s) PROVE OverInv'
  BY <1>9, <1>kept, SenderOver, <1>nodrop DEF SenderStep, SendCheck, packet, tokens, receiver,
       control
<1>10. ASSUME NEW s \in Senders, PushSwap(s) PROVE OverInv'
  BY <1>10, <1>kept, SenderOver, <1>nodrop DEF SenderStep, PushSwap, tokens, receiver, control
<1>11. ASSUME NEW s \in Senders, PushLink(s) PROVE OverInv'
  BY <1>11, <1>kept, SenderOver, <1>nodrop DEF SenderStep, PushLink, tokens, receiver, control
<1>12. ASSUME NEW s \in Senders, SendAdd(s) PROVE OverInv'
  <2>1. ~Over
    BY <1>12, OpenWhile DEF SendAdd
  <2>2. ~Over' /\ UNCHANGED rpc
    BY <1>12, <2>1, SenderOver, <1>nodrop DEF SenderStep, SendAdd, receiver, control
  <2>3. QED
    BY <2>1, <2>2, <1>inv DEF OverInv
<1>13. ASSUME NEW s \in Senders, TakeLoad(s) PROVE OverInv'
  BY <1>13, <1>kept, SenderOver, <1>nodrop DEF SenderStep, TakeLoad, packet, tokens, receiver,
       control
<1>14. ASSUME NEW s \in Senders, TakeClear(s) PROVE OverInv'
  BY <1>14, <1>kept, SenderOver, <1>nodrop DEF SenderStep, TakeClear, tokens, receiver, control
<1>15. ASSUME NEW s \in Senders, Signal(s) PROVE OverInv'
  BY <1>15, <1>kept, SenderOver, <1>nodrop DEF SenderStep, Signal, packet, receiver, control
<1>16. ASSUME NEW s \in Senders, SendDisconnected(s) PROVE OverInv'
  <2>1. ~Over
    BY <1>16, OpenWhile DEF SendDisconnected
  <2>2. ~Over' /\ UNCHANGED rpc
    BY <1>16, <2>1, SenderOver, <1>nodrop DEF SenderStep, SendDisconnected, receiver, control
  <2>3. QED
    BY <2>1, <2>2, <1>inv DEF OverInv
<1>17. ASSUME NEW s \in Senders, DrainEnter(s) PROVE OverInv'
  BY <1>17, <1>kept, SenderOver, <1>nodrop DEF SenderStep, DrainEnter, tokens, receiver, control
<1>18. ASSUME NEW s \in Senders, DrainPop(s) PROVE OverInv'
  BY <1>18, <1>kept, SenderOver, <1>nodrop DEF SenderStep, DrainPop, tokens, receiver, control
<1>19. ASSUME NEW s \in Senders, DrainHead(s) PROVE OverInv'
  BY <1>19, <1>kept, SenderOver, <1>nodrop DEF SenderStep, DrainHead, packet, tokens, receiver,
       control
<1>20. ASSUME NEW s \in Senders, DrainLeave(s) PROVE OverInv'
  BY <1>20, <1>kept, SenderOver, <1>nodrop DEF SenderStep, DrainLeave, tokens, receiver, control
<1>21. ASSUME OldWoken PROVE OverInv'
  BY <1>21, <1>inv, <1>types, <1>open, ReceiverOver DEF OverInv, Mid, OldWoken, NoToken, packet,
       tokens, sender
<1>22. ASSUME OldAborted PROVE OverInv'
  BY <1>22, <1>inv, <1>types, <1>open, ReceiverOver DEF OverInv, Mid, OldAborted, NoToken, packet,
       tokens, sender
<1>23. ASSUME RecvCall PROVE OverInv'
  BY <1>23, <1>inv, <1>types, <1>open, ReceiverOver DEF OverInv, Mid, RecvCall, packet, tokens,
       sender
<1>24. ASSUME TryPop PROVE OverInv'
  BY <1>24, <1>inv, <1>types, <1>open, ReceiverOver DEF OverInv, Mid, TryPop, Found, FoldDue,
       Poppable, Return, tokens, sender
<1>25. ASSUME TryHead PROVE OverInv'
  BY <1>25, <1>inv, <1>types, <1>open, ReceiverOver DEF OverInv, Mid, TryHead, IsEmpty, packet,
       tokens, sender
<1>26. ASSUME FoldSwap PROVE OverInv'
  BY <1>26, <1>inv, <1>types, <1>open, ReceiverOver DEF OverInv, Mid, FoldSwap, Foldable, AddBack,
       tokens, sender
<1>27. ASSUME Fold PROVE OverInv'
  BY <1>27, <1>inv, <1>types, <1>open, ReceiverOver DEF OverInv, Mid, Fold, tokens, sender
<1>28. ASSUME Folded PROVE OverInv'
  BY <1>28, <1>inv, <1>types, <1>open, ReceiverOver DEF OverInv, Mid, Folded, Found, Return, tokens,
       sender
<1>29. ASSUME TryLook PROVE OverInv'
  BY <1>29, <1>inv, <1>types, <1>open, ReceiverOver DEF OverInv, Mid, TryLook, Return, SawHangup,
       packet, tokens, sender
<1>30. ASSUME TryAgain PROVE OverInv'
  BY <1>30, <1>inv, <1>types, <1>open, ReceiverOver DEF OverInv, Mid, TryAgain, Found, Poppable,
       Return, tokens, sender
<1>31. ASSUME TryAgainHead PROVE OverInv'
  BY <1>31, <1>inv, <1>types, <1>open, ReceiverOver DEF OverInv, Mid, TryAgainHead, Return, IsEmpty,
       Disconnected, packet, tokens, sender
<1>32. ASSUME Decrement PROVE OverInv'
  BY <1>32, <1>inv, <1>types, <1>open, ReceiverOver DEF OverInv, Mid, Decrement, NoToken, tokens,
       sender
<1>33. ASSUME DecrementSub PROVE OverInv'
  BY <1>33, <1>inv, <1>types, <1>open, ReceiverOver DEF OverInv, Mid, DecrementSub, tokens, sender
<1>34. ASSUME DecrementDisc PROVE OverInv'
  BY <1>34, <1>inv, <1>types, <1>open, ReceiverOver DEF OverInv, Mid, DecrementDisc, tokens, sender
<1>35. ASSUME DecrementFailed PROVE OverInv'
  BY <1>35, <1>inv, <1>types, <1>open, ReceiverOver DEF OverInv, Mid, DecrementFailed, Free, NoToken,
       sender
<1>36. ASSUME WaitDone PROVE OverInv'
  BY <1>36, <1>inv, <1>types, <1>open, ReceiverOver DEF OverInv, Mid, WaitDone, NoToken, packet,
       tokens, sender
<1>37. ASSUME WaitAborted PROVE OverInv'
  BY <1>37, <1>inv, <1>types, <1>open, ReceiverOver DEF OverInv, Mid, WaitAborted, packet, tokens,
       sender
<1>38. ASSUME CanRecv PROVE OverInv'
  BY <1>38, <1>inv, <1>types, <1>open, ReceiverOver DEF OverInv, Mid, CanRecv, Return, packet,
       tokens, sender
<1>39. ASSUME StartCancelBump PROVE OverInv'
  BY <1>39, <1>inv, <1>types, <1>open, ReceiverOver DEF OverInv, Mid, StartCancelBump, Return,
       tokens, sender
<1>40. ASSUME AbortLoad PROVE OverInv'
  BY <1>40, <1>inv, <1>types, <1>open, ReceiverOver DEF OverInv, Mid, AbortLoad, UpgradeDone, packet,
       tokens, sender
<1>41. ASSUME AbortBump PROVE OverInv'
  BY <1>41, <1>inv, <1>types, <1>open, ReceiverOver DEF OverInv, Mid, AbortBump, tokens, sender
<1>42. ASSUME AbortDisc PROVE OverInv'
  BY <1>42, <1>inv, <1>types, <1>open, ReceiverOver DEF OverInv, Mid, AbortDisc, AbortReturn,
       NoToken, Return, tokens, sender
<1>43. ASSUME AbortFinish PROVE OverInv'
  BY <1>43, <1>inv, <1>types, <1>open, ReceiverOver DEF OverInv, Mid, AbortFinish, Free, AbortReturn,
       NoToken, Return, sender
<1>44. ASSUME DropPort PROVE OverInv'
  BY <1>44, <1>inv, <1>types, <1>open, ReceiverOver DEF OverInv, Mid, DropPort, tokens, sender
<1>45. ASSUME DropCas PROVE OverInv'
  BY <1>45, <1>inv, <1>types, <1>open, ReceiverOver DEF OverInv, Mid, DropCas, tokens, sender
<1>46. ASSUME DropDrain PROVE OverInv'
  BY <1>46, <1>inv, <1>types, <1>open, ReceiverOver DEF OverInv, Mid, DropDrain, Poppable, Destroy,
       tokens, sender
<1>47. CASE Terminated
  BY <1>47, <1>same DEF Terminated, vars, packet, tokens, sender, receiver, control
<1>48. QED
  BY <1>1, <1>2, <1>3, <1>4, <1>5, <1>6, <1>7, <1>8, <1>9, <1>10, <1>11, <1>12, <1>13, <1>14, <1>15,
       <1>16, <1>17, <1>18, <1>19, <1>20, <1>21, <1>22, <1>23, <1>24, <1>25, <1>26, <1>27, <1>28,
       <1>29, <1>30, <1>31, <1>32, <1>33, <1>34, <1>35, <1>36, <1>37, <1>38, <1>39, <1>40, <1>41,
       <1>42, <1>43, <1>44, <1>45, <1>46, <1>47 DEF Next, SenderStep, ReceiverStep

\* The steals are as far off as the receiver's location allows.
LEMMA StealsInvStep ==
  ASSUME IInv, Next
  PROVE  StealsInv'
<1>inv. StealsInv
  BY DEF IInv
<1>types. /\ cnt \in Int /\ local \in Int /\ steals \in Int /\ spc \in [Senders -> SenderLocs]
          /\ final \in BOOLEAN /\ rmode \in Modes
  BY DEF IInv, TypeInv, CountTypes, LocTypes, CallTypes
<1>mode. ModeInv
  BY DEF IInv
<1>old. rpc = "old" => aborted = "none" /\ rmode # "try" /\ steals \in {0, -1} /\ ~final
  BY DEF IInv, ModeInv, BirthInv, StealsInv
<1>over. UNCHANGED <<spc, channels>> => (Over' <=> Over) /\ (Inherited' <=> Inherited)
  BY DEF Over, Inherited
<1>kept. ASSUME UNCHANGED <<steals, rpc, final, local, aborted, rmode, cnt>>, Over => Over',
                Inherited' => Inherited
         PROVE  StealsInv'
  BY <1>kept, <1>inv DEF StealsInv, Exact
<1>same. ASSUME UNCHANGED <<steals, rpc, final, cnt, local, aborted, rmode, channels, spc>> PROVE StealsInv'
  BY <1>same, <1>inv DEF StealsInv, Inherited, Over, Exact
<1>1. ASSUME NEW s \in Senders, Inherit(s) PROVE StealsInv'
  <2>1. Over => Over'
    BY <1>1, SenderOver DEF SenderStep
  <2>2. UNCHANGED <<steals, rpc, final, local, aborted, rmode, cnt>>
    BY <1>1 DEF Inherit, tokens, receiver, control
  <2>3. rpc = "old" => ~Inherited'
    <3>1. rpc = "old" => aborted = "none"
      BY DEF IInv, ModeInv
    <3>2. s = Creator /\ spc[s] = "inherit"
      BY <1>1 DEF Inherit, IInv, LockInv, Birth
    <3>3. rpc = "old" => spc'[s] = "inheritcnt"
      BY <1>1, <1>types, <3>1, <3>2, SendersAssert DEF Inherit, At
    <3>4. QED
      BY <3>2, <3>3 DEF Inherited, Birth
  <2>4. QED
    <3>1. Exact' <=> Exact
      BY <2>2 DEF Exact
    <3>2. QED
      BY <1>inv, <2>1, <2>2, <2>3, <3>1 DEF StealsInv
<1>2. ASSUME NEW s \in Senders, InheritCnt(s) PROVE StealsInv'
  <2>1. UNCHANGED <<steals, rpc, final, local, aborted, rmode>> /\ spc[Creator] = "inheritcnt"
    BY <1>2 DEF InheritCnt, receiver, control, IInv, LockInv, Birth
  <2>2. ~Inherited' /\ ~Inherited
    BY <1>2, <2>1, <1>types DEF InheritCnt, At, Inherited, Birth
  <2>3. rpc \notin {"foldbump", "abortbump"} /\ ~final
    BY <2>1, <2>2 DEF IInv, BirthInv
  <2>4. QED
    BY <2>1, <2>2, <2>3, <1>inv DEF StealsInv
<1>3. ASSUME NEW s \in Senders, InheritSteals(s) PROVE StealsInv'
  <2>1. UNCHANGED <<rpc, final, local, aborted, rmode>> /\ steals' = -1
    BY <1>3 DEF InheritSteals, control, InheritedSteals
  <2>2. spc[Creator] = "inheritsteals"
    BY <1>3 DEF InheritSteals, IInv, LockInv, Birth
  <2>3. /\ rpc \in {"old", "abort", "try", "tryhead", "look", "decr", "panic_to_wake"} /\ ~final
        /\ rpc = "abort" /\ rmode = "timeout" => FALSE
    <3>1. rpc \in {"old", "abort", "try", "tryhead", "look", "decr", "panic_to_wake"} /\ ~final
      BY <2>2 DEF IInv, BirthInv, Inherited, Birth
    <3>2. ASSUME rpc = "abort", rmode = "timeout" PROVE FALSE
      <4>1. rtok = 1
        BY <2>2, <3>2 DEF IInv, BirthInv
      <4>2. QED
        BY <2>2, <3>2, <4>1 DEF IInv, BirthInv, Inherited, Birth
    <3>3. QED
      BY <3>1, <3>2
  <2>4. QED
    BY <2>1, <2>3, <1>inv DEF StealsInv, AbortLocs
<1>4. ASSUME NEW s \in Senders, InheritUnlock(s) PROVE StealsInv'
  <2>1. Over => Over'
    BY <1>4, SenderOver DEF SenderStep
  <2>2. UNCHANGED <<steals, rpc, final, local, aborted, rmode, cnt>>
    BY <1>4 DEF InheritUnlock, tokens, receiver, control
  <2>3. Inherited' => Inherited
    BY <1>4, SenderInherited DEF Birth, SenderStep, InheritUnlock
  <2>4. QED
    BY <1>kept, <2>1, <2>2, <2>3
<1>5. ASSUME NEW s \in Senders, SendCall(s) PROVE StealsInv'
  <2>1. Over => Over'
    BY <1>5, SenderOver DEF SenderStep
  <2>2. UNCHANGED <<steals, rpc, final, local, aborted, rmode, cnt>>
    BY <1>5 DEF SendCall, packet, tokens, receiver, control
  <2>3. Inherited' => Inherited
    BY <1>5, SenderInherited DEF Birth, SenderStep, SendCall
  <2>4. QED
    BY <1>kept, <2>1, <2>2, <2>3
<1>6. ASSUME NEW s \in Senders, CloneChan(s) PROVE StealsInv'
  <2>1. Over => Over'
    BY <1>6, SenderOver DEF SenderStep
  <2>2. UNCHANGED <<steals, rpc, final, local, aborted, rmode, cnt>>
    BY <1>6 DEF CloneChan, tokens, receiver, control
  <2>3. Inherited' => Inherited
    BY <1>6, SenderInherited DEF Birth, SenderStep, CloneChan
  <2>4. QED
    BY <1>kept, <2>1, <2>2, <2>3
<1>7. ASSUME NEW s \in Senders, DropChan(s) PROVE StealsInv'
  <2>1. Over => Over'
    BY <1>7, SenderOver DEF SenderStep
  <2>2. UNCHANGED <<steals, rpc, final, local, aborted, rmode, cnt>>
    BY <1>7 DEF DropChan, tokens, receiver, control
  <2>3. Inherited' => Inherited
    BY <1>7, SenderInherited DEF Birth, SenderStep, DropChan
  <2>4. QED
    BY <1>kept, <2>1, <2>2, <2>3
<1>8. ASSUME NEW s \in Senders, DropSwap(s) PROVE StealsInv'
  <2>1. UNCHANGED <<steals, rpc, final, local, aborted, rmode>> /\ spc[s] = "dropswap"
    BY <1>8 DEF DropSwap, receiver, control
  <2>2. Over'
    <3>1. channels = 0 /\ channels' = channels
      BY <1>8, <2>1 DEF DropSwap, IInv, HandleInv, TypeInv, CountTypes
    <3>2. \A t \in Senders : spc[t] = "dropswap" => t = s
      BY <2>1, <3>1 DEF IInv, HandleInv
    <3>3. spc' = [spc EXCEPT ![s] = spc'[s]] /\ spc'[s] # "dropswap"
      BY <1>8, Moves DEF Move
    <3>4. QED
      BY <3>1, <3>2, <3>3, <1>types DEF Over
  <2>3. spc[Creator] \notin Birth
    BY <2>1 DEF IInv, LockInv, Birth
  <2>4. QED
    BY <2>1, <2>2, <2>3, <1>inv DEF StealsInv, Inherited
<1>9. ASSUME NEW s \in Senders, SendCheck(s) PROVE StealsInv'
  <2>1. Over => Over'
    BY <1>9, SenderOver DEF SenderStep
  <2>2. UNCHANGED <<steals, rpc, final, local, aborted, rmode, cnt>>
    BY <1>9 DEF SendCheck, packet, tokens, receiver, control
  <2>3. Inherited' => Inherited
    BY <1>9, SenderInherited DEF Birth, SenderStep, SendCheck
  <2>4. QED
    BY <1>kept, <2>1, <2>2, <2>3
<1>10. ASSUME NEW s \in Senders, PushSwap(s) PROVE StealsInv'
  <2>1. Over => Over'
    BY <1>10, SenderOver DEF SenderStep
  <2>2. UNCHANGED <<steals, rpc, final, local, aborted, rmode, cnt>>
    BY <1>10 DEF PushSwap, tokens, receiver, control
  <2>3. Inherited' => Inherited
    BY <1>10, SenderInherited DEF Birth, SenderStep, PushSwap
  <2>4. QED
    BY <1>kept, <2>1, <2>2, <2>3
<1>11. ASSUME NEW s \in Senders, PushLink(s) PROVE StealsInv'
  <2>1. Over => Over'
    BY <1>11, SenderOver DEF SenderStep
  <2>2. UNCHANGED <<steals, rpc, final, local, aborted, rmode, cnt>>
    BY <1>11 DEF PushLink, tokens, receiver, control
  <2>3. Inherited' => Inherited
    BY <1>11, SenderInherited DEF Birth, SenderStep, PushLink
  <2>4. QED
    BY <1>kept, <2>1, <2>2, <2>3
<1>12. ASSUME NEW s \in Senders, SendAdd(s) PROVE StealsInv'
  <2>1. UNCHANGED <<steals, rpc, final, local, aborted, rmode>> /\ spc[s] = "add"
    BY <1>12 DEF SendAdd, receiver, control
  <2>2. ~Over
    BY <2>1, OpenWhile
  <2>3. rpc # "gone" => cnt' = cnt + 1
    BY <1>12, <2>2, CountFacts DEF SendAdd, Open
  <2>4. Inherited
    <3>1. SUFFICES ASSUME ~Inherited PROVE FALSE
      OBVIOUS
    <3>2. spc[Creator] # "add" /\ locked
      BY <3>1 DEF IInv, LockInv, Inherited, Birth
    <3>3. QED
      BY <2>1, <3>2 DEF IInv, LockInv
  <2>5. Exact' <=> Exact
    BY <2>1 DEF Exact
  <2>6. rpc \in {"abortbump", "foldbump"} => cnt' = cnt + 1
    BY <2>3
  <2>7. QED
    BY <2>1, <2>2, <2>4, <2>5, <2>6, <1>inv, <1>types DEF StealsInv
<1>13. ASSUME NEW s \in Senders, TakeLoad(s) PROVE StealsInv'
  <2>1. Over => Over'
    BY <1>13, SenderOver DEF SenderStep
  <2>2. UNCHANGED <<steals, rpc, final, local, aborted, rmode, cnt>>
    BY <1>13 DEF TakeLoad, packet, tokens, receiver, control
  <2>3. Inherited' => Inherited
    BY <1>13, SenderInherited DEF Birth, SenderStep, TakeLoad
  <2>4. QED
    BY <1>kept, <2>1, <2>2, <2>3
<1>14. ASSUME NEW s \in Senders, TakeClear(s) PROVE StealsInv'
  <2>1. Over => Over'
    BY <1>14, SenderOver DEF SenderStep
  <2>2. UNCHANGED <<steals, rpc, final, local, aborted, rmode, cnt>>
    BY <1>14 DEF TakeClear, tokens, receiver, control
  <2>3. Inherited' => Inherited
    BY <1>14, SenderInherited DEF Birth, SenderStep, TakeClear
  <2>4. QED
    BY <1>kept, <2>1, <2>2, <2>3
<1>15. ASSUME NEW s \in Senders, Signal(s) PROVE StealsInv'
  <2>1. Over => Over'
    BY <1>15, SenderOver DEF SenderStep
  <2>2. UNCHANGED <<steals, rpc, final, local, aborted, rmode, cnt>>
    BY <1>15 DEF Signal, packet, receiver, control
  <2>3. Inherited' => Inherited
    BY <1>15, SenderInherited DEF Birth, SenderStep, Signal
  <2>4. QED
    BY <1>kept, <2>1, <2>2, <2>3
<1>16. ASSUME NEW s \in Senders, SendDisconnected(s) PROVE StealsInv'
  <2>1. UNCHANGED <<steals, rpc, final, local, aborted, rmode>> /\ spc[s] = "disc"
    BY <1>16 DEF SendDisconnected, receiver, control
  <2>2. ~Over /\ rpc = "gone"
    BY <2>1, OpenWhile DEF IInv, GoneInv
  <2>3. rpc \notin AbortLocs \cup TryLocs /\ rpc # "old"
    BY <2>2 DEF AbortLocs, TryLocs
  <2>4. ~final
    BY <2>3, <1>mode DEF ModeInv
  <2>5. QED
    BY <2>1, <2>2, <2>3, <2>4, <1>inv DEF StealsInv, AbortLocs
<1>17. ASSUME NEW s \in Senders, DrainEnter(s) PROVE StealsInv'
  <2>1. Over => Over'
    BY <1>17, SenderOver DEF SenderStep
  <2>2. UNCHANGED <<steals, rpc, final, local, aborted, rmode, cnt>>
    BY <1>17 DEF DrainEnter, tokens, receiver, control
  <2>3. Inherited' => Inherited
    BY <1>17, SenderInherited DEF Birth, SenderStep, DrainEnter
  <2>4. QED
    BY <1>kept, <2>1, <2>2, <2>3
<1>18. ASSUME NEW s \in Senders, DrainPop(s) PROVE StealsInv'
  <2>1. Over => Over'
    BY <1>18, SenderOver DEF SenderStep
  <2>2. UNCHANGED <<steals, rpc, final, local, aborted, rmode, cnt>>
    BY <1>18 DEF DrainPop, tokens, receiver, control
  <2>3. Inherited' => Inherited
    BY <1>18, SenderInherited DEF Birth, SenderStep, DrainPop
  <2>4. QED
    BY <1>kept, <2>1, <2>2, <2>3
<1>19. ASSUME NEW s \in Senders, DrainHead(s) PROVE StealsInv'
  <2>1. Over => Over'
    BY <1>19, SenderOver DEF SenderStep
  <2>2. UNCHANGED <<steals, rpc, final, local, aborted, rmode, cnt>>
    BY <1>19 DEF DrainHead, packet, tokens, receiver, control
  <2>3. Inherited' => Inherited
    BY <1>19, SenderInherited DEF Birth, SenderStep, DrainHead
  <2>4. QED
    BY <1>kept, <2>1, <2>2, <2>3
<1>20. ASSUME NEW s \in Senders, DrainLeave(s) PROVE StealsInv'
  <2>1. Over => Over'
    BY <1>20, SenderOver DEF SenderStep
  <2>2. UNCHANGED <<steals, rpc, final, local, aborted, rmode, cnt>>
    BY <1>20 DEF DrainLeave, tokens, receiver, control
  <2>3. Inherited' => Inherited
    BY <1>20, SenderInherited DEF Birth, SenderStep, DrainLeave
  <2>4. QED
    BY <1>kept, <2>1, <2>2, <2>3
<1>21. ASSUME OldWoken PROVE StealsInv'
  <2>1. (Over' <=> Over) /\ (Inherited' <=> Inherited) /\ (Exact' <=> Exact)
    BY <1>21, <1>over DEF Exact, OldWoken, packet, sender
  <2>2. QED
    BY <1>21, <2>1, <1>inv, <1>types, <1>mode, <1>old, Numbers DEF StealsInv, AbortLocs, OldWoken,
         NoToken, packet, tokens, sender
<1>22. ASSUME OldAborted PROVE StealsInv'
  BY <1>22, <1>inv, <1>types, <1>mode, <1>over, <1>old DEF StealsInv, AbortLocs, OldAborted, NoToken,
       packet, tokens, sender
<1>23. ASSUME RecvCall PROVE StealsInv'
  <2>1. (Over' <=> Over) /\ (Inherited' <=> Inherited) /\ (Exact' <=> Exact)
    BY <1>23, <1>over DEF Exact, RecvCall, packet, sender
  <2>2. QED
    BY <1>23, <2>1, <1>inv, <1>types, <1>mode, <1>old, Numbers DEF StealsInv, AbortLocs, RecvCall,
         packet, tokens, sender
<1>24. ASSUME TryPop PROVE StealsInv'
  <2>1. (Over' <=> Over) /\ (Inherited' <=> Inherited) /\ (Exact' <=> Exact)
    BY <1>24, <1>over DEF Exact, TryPop, Found, Return, sender
  <2>2. QED
    BY <1>24, <2>1, <1>inv, <1>types, <1>mode, <1>old, Numbers DEF StealsInv, AbortLocs, TryPop,
         Found, FoldDue, Poppable, Return, tokens, sender
<1>25. ASSUME TryHead PROVE StealsInv'
  <2>1. (Over' <=> Over) /\ (Inherited' <=> Inherited) /\ (Exact' <=> Exact)
    BY <1>25, <1>over DEF Exact, TryHead, packet, sender
  <2>2. QED
    BY <1>25, <2>1, <1>inv, <1>types, <1>mode, <1>old, Numbers DEF StealsInv, AbortLocs, TryHead,
         IsEmpty, packet, tokens, sender
<1>26. ASSUME FoldSwap PROVE StealsInv'
  <2>1. (Over' <=> Over) /\ (Inherited' <=> Inherited) /\ (Exact' <=> Exact)
    BY <1>26, <1>over DEF Exact, FoldSwap, sender
  <2>2. QED
    BY <1>26, <2>1, <1>inv, <1>types, <1>mode, <1>old, Numbers DEF StealsInv, AbortLocs, FoldSwap,
         Foldable, AddBack, tokens, sender
<1>27. ASSUME Fold PROVE StealsInv'
  <2>1. (Over' <=> Over) /\ (Inherited' <=> Inherited) /\ (Exact' <=> Exact)
    BY <1>27, <1>over DEF Exact, Fold, sender
  <2>2. QED
    BY <1>27, <2>1, <1>inv, <1>types, <1>mode, <1>old, Numbers DEF StealsInv, AbortLocs, Fold,
         tokens, sender
<1>28. ASSUME Folded PROVE StealsInv'
  <2>1. (Over' <=> Over) /\ (Inherited' <=> Inherited) /\ (Exact' <=> Exact)
    BY <1>28, <1>over DEF Exact, Folded, Found, Return, sender
  <2>2. QED
    BY <1>28, <2>1, <1>inv, <1>types, <1>mode, <1>old, Numbers DEF StealsInv, AbortLocs, Folded,
         Found, Return, tokens, sender
<1>29. ASSUME TryLook PROVE StealsInv'
  <2>1. (Over' <=> Over) /\ (Inherited' <=> Inherited) /\ (Exact' <=> Exact)
    BY <1>29, <1>over DEF Exact, TryLook, Return, packet, sender
  <2>2. QED
    BY <1>29, <2>1, <1>inv, <1>types, <1>mode, <1>old, Numbers DEF StealsInv, AbortLocs, TryLook,
         Return, SawHangup, packet, tokens, sender
<1>30. ASSUME TryAgain PROVE StealsInv'
  <2>1. (Over' <=> Over) /\ (Inherited' <=> Inherited) /\ (Exact' <=> Exact)
    BY <1>30, <1>over DEF Exact, TryAgain, Found, Return, sender
  <2>2. QED
    BY <1>30, <2>1, <1>inv, <1>types, <1>mode, <1>old, Numbers DEF StealsInv, AbortLocs, TryAgain,
         Found, Poppable, Return, tokens, sender
<1>31. ASSUME TryAgainHead PROVE StealsInv'
  <2>1. (Over' <=> Over) /\ (Inherited' <=> Inherited) /\ (Exact' <=> Exact)
    BY <1>31, <1>over DEF Exact, TryAgainHead, Return, packet, sender
  <2>2. QED
    BY <1>31, <2>1, <1>inv, <1>types, <1>mode, <1>old, Numbers DEF StealsInv, AbortLocs,
         TryAgainHead, Return, IsEmpty, Disconnected, packet, tokens, sender
<1>32. ASSUME Decrement PROVE StealsInv'
  <2>1. (Over' <=> Over) /\ (Inherited' <=> Inherited) /\ (Exact' <=> Exact)
    BY <1>32, <1>over DEF Exact, Decrement, sender
  <2>2. QED
    BY <1>32, <2>1, <1>inv, <1>types, <1>mode, <1>old, Numbers DEF StealsInv, AbortLocs, Decrement,
         NoToken, tokens, sender
<1>33. ASSUME DecrementSub PROVE StealsInv'
  <2>1. (Over' <=> Over) /\ (Inherited' <=> Inherited) /\ (Exact' <=> Exact)
    BY <1>33, <1>over DEF Exact, DecrementSub, sender
  <2>2. QED
    BY <1>33, <2>1, <1>inv, <1>types, <1>mode, <1>old, Numbers DEF StealsInv, AbortLocs,
         DecrementSub, tokens, sender
<1>34. ASSUME DecrementDisc PROVE StealsInv'
  <2>1. (Over' <=> Over) /\ (Inherited' <=> Inherited) /\ (Exact' <=> Exact)
    BY <1>34, <1>over DEF Exact, DecrementDisc, sender
  <2>2. QED
    BY <1>34, <2>1, <1>inv, <1>types, <1>mode, <1>old, Numbers DEF StealsInv, AbortLocs,
         DecrementDisc, tokens, sender
<1>35. ASSUME DecrementFailed PROVE StealsInv'
  <2>1. (Over' <=> Over) /\ (Inherited' <=> Inherited) /\ (Exact' <=> Exact)
    BY <1>35, <1>over DEF Exact, DecrementFailed, sender
  <2>2. QED
    BY <1>35, <2>1, <1>inv, <1>types, <1>mode, <1>old, Numbers DEF StealsInv, AbortLocs,
         DecrementFailed, Free, NoToken, sender
<1>36. ASSUME WaitDone PROVE StealsInv'
  <2>1. (Over' <=> Over) /\ (Inherited' <=> Inherited) /\ (Exact' <=> Exact)
    BY <1>36, <1>over DEF Exact, WaitDone, packet, sender
  <2>2. QED
    BY <1>36, <2>1, <1>inv, <1>types, <1>mode, <1>old, Numbers DEF StealsInv, AbortLocs, WaitDone,
         NoToken, packet, tokens, sender
<1>37. ASSUME WaitAborted PROVE StealsInv'
  BY <1>37, <1>inv, <1>types, <1>mode, <1>over, <1>old DEF StealsInv, AbortLocs, WaitAborted, packet,
       tokens, sender
<1>38. ASSUME CanRecv PROVE StealsInv'
  <2>1. (Over' <=> Over) /\ (Inherited' <=> Inherited) /\ (Exact' <=> Exact)
    BY <1>38, <1>over DEF Exact, CanRecv, Return, packet, sender
  <2>2. QED
    BY <1>38, <2>1, <1>inv, <1>types, <1>mode, <1>old, Numbers DEF StealsInv, AbortLocs, CanRecv,
         Return, packet, tokens, sender
<1>39. ASSUME StartCancelBump PROVE StealsInv'
  <2>1. (Over' <=> Over) /\ (Inherited' <=> Inherited) /\ (Exact' <=> Exact)
    BY <1>39, <1>over DEF Exact, StartCancelBump, Return, sender
  <2>2. QED
    BY <1>39, <2>1, <1>inv, <1>types, <1>mode, <1>old, Numbers DEF StealsInv, AbortLocs,
         StartCancelBump, Return, tokens, sender
<1>40. ASSUME AbortLoad PROVE StealsInv'
  <2>1. /\ rpc = "abort" /\ rpc' = "abortbump" /\ UNCHANGED <<steals, final, aborted, rmode, cnt>>
        /\ local' = IF cnt < 0 /\ cnt # DISCONNECTED THEN -cnt ELSE 0
    BY <1>40 DEF AbortLoad, packet
  <2>2. Over' <=> Over
    BY <1>40, <1>over DEF AbortLoad, packet, sender
  <2>3. cnt = DISCONNECTED => Over
    BY <2>1, CountFacts DEF Open
  <2>4. local' >= 0 /\ (~Over => cnt + local' >= 0)
    BY <2>1, <2>3, <1>types
  <2>5. ~final
    BY <2>1, <1>mode DEF ModeInv, TryLocs
  <2>6. QED
    BY <2>1, <2>2, <2>4, <2>5, <1>inv DEF StealsInv, AbortLocs
<1>41. ASSUME AbortBump PROVE StealsInv'
  <2>1. (Over' <=> Over) /\ (Inherited' <=> Inherited) /\ (Exact' <=> Exact)
    BY <1>41, <1>over DEF Exact, AbortBump, sender
  <2>2. QED
    BY <1>41, <2>1, <1>inv, <1>types, <1>mode, <1>old, Numbers DEF StealsInv, AbortLocs, AbortBump,
         tokens, sender
<1>42. ASSUME AbortDisc PROVE StealsInv'
  <2>1. (Over' <=> Over) /\ (Inherited' <=> Inherited) /\ (Exact' <=> Exact)
    BY <1>42, <1>over DEF Exact, AbortDisc, AbortReturn, Return, sender
  <2>2. QED
    BY <1>42, <2>1, <1>inv, <1>types, <1>mode, <1>old, Numbers DEF StealsInv, AbortLocs, AbortDisc,
         AbortReturn, NoToken, Return, tokens, sender
<1>43. ASSUME AbortFinish PROVE StealsInv'
  <2>1. /\ rpc \in {"aborttake", "abortspin"} /\ steals' = local /\ local >= 0
        /\ \/ rpc' = "try" /\ final' /\ rmode = "timeout" /\ local' = 0
           \/ rpc' = "idle" /\ ~final' /\ local' = 0
           \/ rpc' = "panic_steals" /\ final' = final
        /\ UNCHANGED <<aborted, rmode, cnt>>
    BY <1>43, <1>inv DEF AbortFinish, AbortReturn, Return, StealsInv, sender
  <2>2. ~final /\ (rmode = "timeout" => ~Exact)
    BY <2>1, <1>mode DEF ModeInv, TryLocs, AbortLocs
  <2>3. Exact' <=> Exact
    BY <2>1 DEF Exact
  <2>4. QED
    BY <2>1, <2>2, <2>3, <1>types DEF StealsInv, AbortLocs
<1>44. ASSUME DropPort PROVE StealsInv'
  <2>1. (Over' <=> Over) /\ (Inherited' <=> Inherited) /\ (Exact' <=> Exact)
    BY <1>44, <1>over DEF Exact, DropPort, sender
  <2>2. QED
    BY <1>44, <2>1, <1>inv, <1>types, <1>mode, <1>old, Numbers DEF StealsInv, AbortLocs, DropPort,
         tokens, sender
<1>45. ASSUME DropCas PROVE StealsInv'
  <2>1. (Over' <=> Over) /\ (Inherited' <=> Inherited) /\ (Exact' <=> Exact)
    BY <1>45, <1>over DEF Exact, DropCas, sender
  <2>2. QED
    BY <1>45, <2>1, <1>inv, <1>types, <1>mode, <1>old, Numbers DEF StealsInv, AbortLocs, DropCas,
         tokens, sender
<1>46. ASSUME DropDrain PROVE StealsInv'
  <2>1. (Over' <=> Over) /\ (Inherited' <=> Inherited) /\ (Exact' <=> Exact)
    BY <1>46, <1>over DEF Exact, DropDrain, sender
  <2>2. QED
    BY <1>46, <2>1, <1>inv, <1>types, <1>mode, <1>old, Numbers DEF StealsInv, AbortLocs, DropDrain,
         Poppable, Destroy, tokens, sender
<1>47. CASE Terminated
  BY <1>47, <1>same DEF Terminated, vars, packet, tokens, sender, receiver, control
<1>48. QED
  BY <1>1, <1>2, <1>3, <1>4, <1>5, <1>6, <1>7, <1>8, <1>9, <1>10, <1>11, <1>12, <1>13, <1>14, <1>15,
       <1>16, <1>17, <1>18, <1>19, <1>20, <1>21, <1>22, <1>23, <1>24, <1>25, <1>26, <1>27, <1>28,
       <1>29, <1>30, <1>31, <1>32, <1>33, <1>34, <1>35, <1>36, <1>37, <1>38, <1>39, <1>40, <1>41,
       <1>42, <1>43, <1>44, <1>45, <1>46, <1>47 DEF Next, SenderStep, ReceiverStep

\* What the receiver has seen of the queue and of the end stays true.
LEMMA SeenInvStep ==
  ASSUME IInv, Next
  PROVE  SeenInv'
<1>inv. SeenInv
  BY DEF IInv
<1>mode. ModeInv
  BY DEF IInv
<1>over. UNCHANGED <<spc, channels>> => (Over' <=> Over)
  BY DEF Over
<1>pop. UNCHANGED <<queue, unlinked>> => (Poppable' <=> Poppable)
  BY DEF Poppable
<1>kept. ASSUME UNCHANGED <<rpc, queue, unlinked, final, aborted>>, Over => Over'
         PROVE  SeenInv'
  BY <1>kept, <1>inv DEF SeenInv, Exact, Poppable
<1>same. ASSUME UNCHANGED <<rpc, queue, unlinked, final, aborted, channels, spc>> PROVE SeenInv'
  BY <1>same, <1>inv DEF SeenInv, Over, Exact, Poppable
<1>1. ASSUME NEW s \in Senders, Inherit(s) PROVE SeenInv'
  BY <1>1, <1>kept, SenderOver DEF SenderStep, Inherit, tokens, receiver, control
<1>2. ASSUME NEW s \in Senders, InheritCnt(s) PROVE SeenInv'
  BY <1>2, <1>kept, SenderOver DEF SenderStep, InheritCnt, tokens, receiver, control
<1>3. ASSUME NEW s \in Senders, InheritSteals(s) PROVE SeenInv'
  BY <1>3, <1>kept, SenderOver DEF SenderStep, InheritSteals, packet, tokens, control
<1>4. ASSUME NEW s \in Senders, InheritUnlock(s) PROVE SeenInv'
  BY <1>4, <1>kept, SenderOver DEF SenderStep, InheritUnlock, tokens, receiver, control
<1>5. ASSUME NEW s \in Senders, SendCall(s) PROVE SeenInv'
  BY <1>5, <1>kept, SenderOver DEF SenderStep, SendCall, packet, tokens, receiver, control
<1>6. ASSUME NEW s \in Senders, CloneChan(s) PROVE SeenInv'
  BY <1>6, <1>kept, SenderOver DEF SenderStep, CloneChan, tokens, receiver, control
<1>7. ASSUME NEW s \in Senders, DropChan(s) PROVE SeenInv'
  BY <1>7, <1>kept, SenderOver DEF SenderStep, DropChan, tokens, receiver, control
<1>8. ASSUME NEW s \in Senders, DropSwap(s) PROVE SeenInv'
  BY <1>8, <1>kept, SenderOver DEF SenderStep, DropSwap, tokens, receiver, control
<1>9. ASSUME NEW s \in Senders, SendCheck(s) PROVE SeenInv'
  BY <1>9, <1>kept, SenderOver DEF SenderStep, SendCheck, packet, tokens, receiver, control
<1>10. ASSUME NEW s \in Senders, PushSwap(s) PROVE SeenInv'
  <2>types. queue \in Seq(Nat) /\ accepted \in Nat
    BY DEF IInv, TypeInv, QueueTypes
  <2>1. /\ UNCHANGED <<rpc, final, aborted>> /\ spc[s] = "push"
        /\ queue' = Append(queue, accepted + 1) /\ unlinked' = unlinked \cup {accepted + 1}
    BY <1>10 DEF PushSwap, receiver, control
  <2>2. ~Over
    BY <2>1, OpenWhile
  <2>3. rpc # "againhead"
    BY <2>2 DEF IInv, OverInv
  <2>4. /\ Len(queue') = Len(queue) + 1 /\ queue' \in Seq(Nat) /\ Len(queue) \in Nat
        /\ \A i \in 1..Len(queue) : queue'[i] = queue[i]
    BY <2>1, <2>types, PushesLast
  <2>5. queue' # <<>>
    BY <2>4
  <2>6. ASSUME Poppable PROVE Poppable'
    <3>1. queue # <<>> /\ Len(queue) >= 1 /\ Head(queue) = queue[1]
      BY <2>6, <2>types, PopsHead DEF Poppable
    <3>2. queue[1] = Popped + 1 /\ Len(queue) <= accepted /\ Popped = accepted - Len(queue)
      BY <3>1, <2>4 DEF IInv, OrderInv, Popped
    <3>3. queue[1] # accepted + 1 /\ queue'[1] = queue[1]
      BY <3>1, <3>2, <2>4, <2>types
    <3>4. Head(queue') = queue'[1]
      BY <2>4, <2>5, PopsHead
    <3>5. QED
      BY <2>1, <2>5, <2>6, <3>1, <3>3, <3>4 DEF Poppable
  <2>7. Exact' <=> Exact
    BY <2>1 DEF Exact
  <2>8. QED
    BY <2>1, <2>2, <2>3, <2>5, <2>6, <2>7, <1>inv DEF SeenInv
<1>11. ASSUME NEW s \in Senders, PushLink(s) PROVE SeenInv'
  <2>1. UNCHANGED <<rpc, queue, final, aborted>> /\ unlinked' \subseteq unlinked
    BY <1>11 DEF PushLink, receiver, control
  <2>2. Over => Over'
    BY <1>11, SenderOver DEF SenderStep
  <2>3. Poppable => Poppable'
    BY <2>1 DEF Poppable
  <2>4. Exact' <=> Exact
    BY <2>1 DEF Exact
  <2>5. QED
    BY <2>1, <2>2, <2>3, <2>4, <1>inv DEF SeenInv
<1>12. ASSUME NEW s \in Senders, SendAdd(s) PROVE SeenInv'
  BY <1>12, <1>kept, SenderOver DEF SenderStep, SendAdd, tokens, receiver, control
<1>13. ASSUME NEW s \in Senders, TakeLoad(s) PROVE SeenInv'
  BY <1>13, <1>kept, SenderOver DEF SenderStep, TakeLoad, packet, tokens, receiver, control
<1>14. ASSUME NEW s \in Senders, TakeClear(s) PROVE SeenInv'
  BY <1>14, <1>kept, SenderOver DEF SenderStep, TakeClear, tokens, receiver, control
<1>15. ASSUME NEW s \in Senders, Signal(s) PROVE SeenInv'
  BY <1>15, <1>kept, SenderOver DEF SenderStep, Signal, packet, receiver, control
<1>16. ASSUME NEW s \in Senders, SendDisconnected(s) PROVE SeenInv'
  BY <1>16, <1>kept, SenderOver DEF SenderStep, SendDisconnected, tokens, receiver, control
<1>17. ASSUME NEW s \in Senders, DrainEnter(s) PROVE SeenInv'
  BY <1>17, <1>kept, SenderOver DEF SenderStep, DrainEnter, tokens, receiver, control
<1>18. ASSUME NEW s \in Senders, DrainPop(s) PROVE SeenInv'
  <2>1. rpc = "gone" /\ rpc' = rpc
    BY <1>18 DEF DrainPop, receiver, control, IInv, GoneInv
  <2>2. QED
    BY <2>1 DEF SeenInv
<1>19. ASSUME NEW s \in Senders, DrainHead(s) PROVE SeenInv'
  BY <1>19, <1>kept, SenderOver DEF SenderStep, DrainHead, packet, tokens, receiver, control
<1>20. ASSUME NEW s \in Senders, DrainLeave(s) PROVE SeenInv'
  BY <1>20, <1>kept, SenderOver DEF SenderStep, DrainLeave, tokens, receiver, control
<1>21. ASSUME OldWoken PROVE SeenInv'
  BY <1>21, <1>inv, <1>mode, <1>over DEF SeenInv, OldWoken, NoToken, packet, tokens, sender
<1>22. ASSUME OldAborted PROVE SeenInv'
  BY <1>22, <1>inv, <1>mode, <1>over DEF SeenInv, ModeInv, TryLocs, OldAborted, NoToken, packet,
       tokens, sender
<1>23. ASSUME RecvCall PROVE SeenInv'
  BY <1>23, <1>inv, <1>mode, <1>over DEF SeenInv, RecvCall, packet, tokens, sender
<1>24. ASSUME TryPop PROVE SeenInv'
  BY <1>24, <1>inv, <1>mode, <1>over DEF SeenInv, TryPop, Found, FoldDue, Poppable, Return, tokens,
       sender
<1>25. ASSUME TryHead PROVE SeenInv'
  <2>1. /\ rpc \in {"tryhead", "spinhead"} /\ UNCHANGED <<queue, unlinked, final, aborted, channels, spc>>
        /\ rpc' = IF queue # <<>> THEN "spin" ELSE IF rpc = "tryhead" THEN "look" ELSE "panic_inconsistent"
    BY <1>25 DEF TryHead, IsEmpty, packet, sender
  <2>2. ASSUME rpc = "tryhead", queue = <<>>, final, Exact PROVE Over
    <3>1. SUFFICES ASSUME ~Over PROVE FALSE
      OBVIOUS
    <3>2. Open /\ Inherited
      BY <2>2, <3>1 DEF Open, IInv, BirthInv
    <3>3. cnt = Due /\ steals = 0
      BY <2>2, <3>1, <3>2 DEF IInv, BalanceInv, StealsInv
    <3>4. Uncounted \in Nat
      BY UncountedIs, CountBounds
    <3>5. Len(queue) = 0
      BY <2>2
    <3>6. Extra = -1
      BY <2>2, <3>3 DEF Extra, Stolen
    <3>7. cnt < 0
      BY <3>3, <3>4, <3>5, <3>6 DEF Due
    <3>8. QED
      BY <2>2, <3>2, <3>7 DEF IInv, ArmedInv, Exact
  <2>3. (Over' <=> Over) /\ (Exact' <=> Exact)
    BY <2>1 DEF Over, Exact
  <2>4. QED
    BY <2>1, <2>2, <2>3, <1>inv DEF SeenInv
<1>26. ASSUME FoldSwap PROVE SeenInv'
  BY <1>26, <1>inv, <1>mode, <1>over, <1>pop DEF SeenInv, FoldSwap, Foldable, AddBack, tokens, sender
<1>27. ASSUME Fold PROVE SeenInv'
  BY <1>27, <1>inv, <1>mode, <1>over, <1>pop DEF SeenInv, Fold, tokens, sender
<1>28. ASSUME Folded PROVE SeenInv'
  BY <1>28, <1>inv, <1>mode, <1>over DEF SeenInv, Folded, Found, Return, tokens, sender
<1>29. ASSUME TryLook PROVE SeenInv'
  BY <1>29, <1>inv, <1>mode, <1>over DEF SeenInv, TryLook, Return, SawHangup, packet, tokens, sender
<1>30. ASSUME TryAgain PROVE SeenInv'
  <2>1. rpc = "again" /\ rpc' \in {"againhead", "idle"}
    BY <1>30 DEF TryAgain, Found, Return
  <2>2. ASSUME rpc' = "againhead" PROVE queue' = <<>>
    <3>1. ~Poppable /\ queue' = queue
      BY <1>30, <2>2 DEF TryAgain, Found, Return
    <3>2. channels = 0
      BY <2>1 DEF IInv, OverInv, Over
    <3>3. unlinked = {}
      BY <3>2 DEF IInv, LinkInv, HandleInv
    <3>4. QED
      BY <3>1, <3>3 DEF Poppable
  <2>3. QED
    BY <2>1, <2>2 DEF SeenInv
<1>31. ASSUME TryAgainHead PROVE SeenInv'
  BY <1>31, <1>inv, <1>mode, <1>over DEF SeenInv, TryAgainHead, Return, IsEmpty, Disconnected,
       packet, tokens, sender
<1>32. ASSUME Decrement PROVE SeenInv'
  BY <1>32, <1>inv, <1>mode, <1>over DEF SeenInv, Decrement, NoToken, tokens, sender
<1>33. ASSUME DecrementSub PROVE SeenInv'
  BY <1>33, <1>inv, <1>mode, <1>over DEF SeenInv, DecrementSub, tokens, sender
<1>34. ASSUME DecrementDisc PROVE SeenInv'
  BY <1>34, <1>inv, <1>mode, <1>over DEF SeenInv, DecrementDisc, tokens, sender
<1>35. ASSUME DecrementFailed PROVE SeenInv'
  BY <1>35, <1>inv, <1>mode, <1>over DEF SeenInv, DecrementFailed, Free, NoToken, sender
<1>36. ASSUME WaitDone PROVE SeenInv'
  BY <1>36, <1>inv, <1>mode, <1>over DEF SeenInv, WaitDone, NoToken, packet, tokens, sender
<1>37. ASSUME WaitAborted PROVE SeenInv'
  BY <1>37, <1>inv, <1>mode, <1>over DEF SeenInv, WaitAborted, packet, tokens, sender
<1>38. ASSUME CanRecv PROVE SeenInv'
  BY <1>38, <1>inv, <1>mode, <1>over DEF SeenInv, CanRecv, Return, packet, tokens, sender
<1>39. ASSUME StartCancelBump PROVE SeenInv'
  BY <1>39, <1>inv, <1>mode, <1>over DEF SeenInv, StartCancelBump, Return, tokens, sender
<1>40. ASSUME AbortLoad PROVE SeenInv'
  BY <1>40, <1>inv, <1>mode, <1>over DEF SeenInv, AbortLoad, UpgradeDone, packet, tokens, sender
<1>41. ASSUME AbortBump PROVE SeenInv'
  BY <1>41, <1>inv, <1>mode, <1>over DEF SeenInv, AbortBump, tokens, sender
<1>42. ASSUME AbortDisc PROVE SeenInv'
  BY <1>42, <1>inv, <1>mode, <1>over DEF SeenInv, AbortDisc, AbortReturn, NoToken, Return, tokens,
       sender
<1>43. ASSUME AbortFinish PROVE SeenInv'
  BY <1>43, <1>inv, <1>mode, <1>over DEF SeenInv, AbortFinish, Free, AbortReturn, NoToken, Return,
       sender
<1>44. ASSUME DropPort PROVE SeenInv'
  BY <1>44, <1>inv, <1>mode, <1>over DEF SeenInv, DropPort, tokens, sender
<1>45. ASSUME DropCas PROVE SeenInv'
  BY <1>45, <1>inv, <1>mode, <1>over DEF SeenInv, DropCas, tokens, sender
<1>46. ASSUME DropDrain PROVE SeenInv'
  BY <1>46, <1>inv, <1>mode, <1>over DEF SeenInv, DropDrain, Poppable, Destroy, tokens, sender
<1>47. CASE Terminated
  BY <1>47, <1>same DEF Terminated, vars, packet, tokens, sender, receiver, control
<1>48. QED
  BY <1>1, <1>2, <1>3, <1>4, <1>5, <1>6, <1>7, <1>8, <1>9, <1>10, <1>11, <1>12, <1>13, <1>14, <1>15,
       <1>16, <1>17, <1>18, <1>19, <1>20, <1>21, <1>22, <1>23, <1>24, <1>25, <1>26, <1>27, <1>28,
       <1>29, <1>30, <1>31, <1>32, <1>33, <1>34, <1>35, <1>36, <1>37, <1>38, <1>39, <1>40, <1>41,
       <1>42, <1>43, <1>44, <1>45, <1>46, <1>47 DEF Next, SenderStep, ReceiverStep

\* The receiver is at the locations of the call it has made.
LEMMA ModeInvStep ==
  ASSUME IInv, Next
  PROVE  ModeInv'
<1>inv. ModeInv
  BY DEF IInv
<1>seen. SeenInv
  BY DEF IInv
<1>types. final \in BOOLEAN /\ rmode \in Modes /\ aborted \in Aborts
  BY DEF IInv, TypeInv, CallTypes
<1>same. ASSUME UNCHANGED <<final, rpc, rmode, rtok, aborted, woken, blocks>> PROVE ModeInv'
  BY <1>same, <1>inv DEF ModeInv, Exact
<1>1. ASSUME NEW s \in Senders,
       Inherit(s) \/ InheritCnt(s) \/ InheritSteals(s) \/ InheritUnlock(s) \/ SendCall(s) \/
       CloneChan(s) \/ DropChan(s) \/ DropSwap(s) \/ SendCheck(s) \/ PushSwap(s) \/ PushLink(s) \/
       SendAdd(s) \/ TakeLoad(s) \/ TakeClear(s) \/ SendDisconnected(s) \/ DrainEnter(s) \/
       DrainPop(s) \/ DrainHead(s) \/ DrainLeave(s)
       PROVE  ModeInv'
  BY <1>1, <1>same DEF Inherit, tokens, receiver, control, InheritCnt, InheritSteals, packet,
       InheritUnlock, SendCall, CloneChan, DropChan, DropSwap, SendCheck, PushSwap, PushLink,
       SendAdd, TakeLoad, TakeClear, SendDisconnected, DrainEnter, DrainPop, DrainHead, DrainLeave
<1>2. ASSUME NEW s \in Senders, Signal(s) PROVE ModeInv'
  <2>1. woken \subseteq woken' /\ UNCHANGED <<final, rpc, rmode, rtok, aborted, blocks>>
    BY <1>2 DEF Signal, receiver, control
  <2>2. QED
    BY <2>1, <1>inv DEF ModeInv, Exact
<1>3. ASSUME OldWoken PROVE ModeInv'
  BY <1>3, <1>inv, <1>types DEF ModeInv, TryLocs, AbortLocs, Exact, OldWoken, NoToken, packet,
       tokens, sender
<1>4. ASSUME OldAborted PROVE ModeInv'
  BY <1>4, <1>inv, <1>types DEF ModeInv, TryLocs, AbortLocs, Exact, OldAborted, NoToken, packet,
       tokens, sender
<1>5. ASSUME RecvCall PROVE ModeInv'
  BY <1>5, <1>inv, <1>types DEF ModeInv, TryLocs, AbortLocs, Exact, RecvCall, packet, tokens, sender
<1>6. ASSUME TryPop PROVE ModeInv'
  BY <1>6, <1>inv, <1>types DEF ModeInv, TryLocs, AbortLocs, Exact, TryPop, Found, FoldDue,
       Poppable, Return, tokens, sender
<1>7. ASSUME TryHead PROVE ModeInv'
  BY <1>7, <1>inv, <1>types, <1>seen, ReceiverAsserts DEF ModeInv, TryLocs, AbortLocs, Exact,
       SeenInv, TryHead, IsEmpty, packet, tokens, sender
<1>8. ASSUME FoldSwap PROVE ModeInv'
  BY <1>8, <1>inv, <1>types DEF ModeInv, TryLocs, AbortLocs, Exact, FoldSwap, Foldable, AddBack,
       tokens, sender
<1>9. ASSUME Fold PROVE ModeInv'
  BY <1>9, <1>inv, <1>types, <1>seen, ReceiverAsserts DEF ModeInv, TryLocs, AbortLocs, Exact,
       SeenInv, Fold, tokens, sender
<1>10. ASSUME Folded PROVE ModeInv'
  BY <1>10, <1>inv, <1>types DEF ModeInv, TryLocs, AbortLocs, Exact, Folded, Found, Return, tokens,
       sender
<1>11. ASSUME TryLook PROVE ModeInv'
  BY <1>11, <1>inv, <1>types DEF ModeInv, TryLocs, AbortLocs, Exact, TryLook, Return, SawHangup,
       packet, tokens, sender
<1>12. ASSUME TryAgain PROVE ModeInv'
  BY <1>12, <1>inv, <1>types DEF ModeInv, TryLocs, AbortLocs, Exact, TryAgain, Found, Poppable,
       Return, tokens, sender
<1>13. ASSUME TryAgainHead PROVE ModeInv'
  BY <1>13, <1>inv, <1>types, <1>seen, ReceiverAsserts DEF ModeInv, TryLocs, AbortLocs, Exact,
       SeenInv, TryAgainHead, Return, IsEmpty, Disconnected, packet, tokens, sender
<1>14. ASSUME Decrement PROVE ModeInv'
  BY <1>14, <1>inv, <1>types DEF ModeInv, TryLocs, AbortLocs, Exact, Decrement, NoToken, tokens,
       sender
<1>15. ASSUME DecrementSub PROVE ModeInv'
  BY <1>15, <1>inv, <1>types DEF ModeInv, TryLocs, AbortLocs, Exact, DecrementSub, tokens, sender
<1>16. ASSUME DecrementDisc PROVE ModeInv'
  BY <1>16, <1>inv, <1>types DEF ModeInv, TryLocs, AbortLocs, Exact, DecrementDisc, tokens, sender
<1>17. ASSUME DecrementFailed PROVE ModeInv'
  BY <1>17, <1>inv, <1>types DEF ModeInv, TryLocs, AbortLocs, Exact, DecrementFailed, Free, NoToken,
       sender
<1>18. ASSUME WaitDone PROVE ModeInv'
  BY <1>18, <1>inv, <1>types DEF ModeInv, TryLocs, AbortLocs, Exact, WaitDone, NoToken, packet,
       tokens, sender
<1>19. ASSUME WaitAborted PROVE ModeInv'
  BY <1>19, <1>inv, <1>types DEF ModeInv, TryLocs, AbortLocs, Exact, WaitAborted, packet, tokens,
       sender
<1>20. ASSUME CanRecv PROVE ModeInv'
  BY <1>20, <1>inv, <1>types DEF ModeInv, TryLocs, AbortLocs, Exact, CanRecv, Return, packet, tokens,
       sender
<1>21. ASSUME StartCancelBump PROVE ModeInv'
  BY <1>21, <1>inv, <1>types DEF ModeInv, TryLocs, AbortLocs, Exact, StartCancelBump, Return, tokens,
       sender
<1>22. ASSUME AbortLoad PROVE ModeInv'
  BY <1>22, <1>inv, <1>types DEF ModeInv, TryLocs, AbortLocs, Exact, AbortLoad, UpgradeDone, packet,
       tokens, sender
<1>23. ASSUME AbortBump PROVE ModeInv'
  BY <1>23, <1>inv, <1>types DEF ModeInv, TryLocs, AbortLocs, Exact, AbortBump, tokens, sender
<1>24. ASSUME AbortDisc PROVE ModeInv'
  BY <1>24, <1>inv, <1>types DEF ModeInv, TryLocs, AbortLocs, Exact, AbortDisc, AbortReturn, NoToken,
       Return, tokens, sender
<1>25. ASSUME AbortFinish PROVE ModeInv'
  BY <1>25, <1>inv, <1>types DEF ModeInv, TryLocs, AbortLocs, Exact, AbortFinish, Free, AbortReturn,
       NoToken, Return, sender
<1>26. ASSUME DropPort PROVE ModeInv'
  BY <1>26, <1>inv, <1>types DEF ModeInv, TryLocs, AbortLocs, Exact, DropPort, tokens, sender
<1>27. ASSUME DropCas PROVE ModeInv'
  BY <1>27, <1>inv, <1>types DEF ModeInv, TryLocs, AbortLocs, Exact, DropCas, tokens, sender
<1>28. ASSUME DropDrain PROVE ModeInv'
  BY <1>28, <1>inv, <1>types DEF ModeInv, TryLocs, AbortLocs, Exact, DropDrain, Poppable, Destroy,
       tokens, sender
<1>29. CASE Terminated
  BY <1>29, <1>same DEF Terminated, vars, packet, tokens, sender, receiver, control
<1>30. QED
  BY <1>1, <1>2, <1>3, <1>4, <1>5, <1>6, <1>7, <1>8, <1>9, <1>10, <1>11, <1>12, <1>13, <1>14, <1>15,
       <1>16, <1>17, <1>18, <1>19, <1>20, <1>21, <1>22, <1>23, <1>24, <1>25, <1>26, <1>27, <1>28,
       <1>29 DEF Next, SenderStep, ReceiverStep

-----------------------------------------------------------------------------
(* The tokens                                                              *)

\* Each token is held by one sender, or behind `to_wake', or by nobody.
LEMMA HolderInvStep ==
  ASSUME IInv, Next
  PROVE  HolderInv'
<1>inv. HolderInv
  BY DEF IInv
<1>types. /\ spc \in [Senders -> SenderLocs] /\ stok \in [Senders -> Nat] /\ freed \in [Tokens -> Nat]
          /\ toWake \in Nat /\ rtok \in Nat /\ blocks \in Nat /\ woken \subseteq Nat
          /\ cnt \in Int /\ local \in Int
  BY DEF IInv, TypeInv, LocTypes, TokenTypes, CountTypes
<1>tok. TakerInv /\ ArmedInv /\ HolderInv /\ FreedInv /\ ToWakeInv
  BY DEF IInv
<1>kept. ASSUME NEW s \in Senders, spc' = [spc EXCEPT ![s] = spc'[s]], UNCHANGED <<toWake, stok, blocks>>,
                spc[s] \notin {"inherit", "clear", "signal", "panic_inherit"},
                spc'[s] \notin {"inherit", "clear", "signal", "panic_inherit"}
         PROVE  HolderInv'
  <2>1. \A t \in Senders : t # s => spc'[t] = spc[t]
    BY <1>kept, <1>types
  <2>2. QED
    BY <1>kept, <2>1, <1>inv DEF HolderInv
<1>same. ASSUME UNCHANGED <<toWake, stok, blocks, spc>> PROVE HolderInv'
  BY <1>same, <1>inv DEF HolderInv
<1>1. ASSUME NEW s \in Senders, Inherit(s) PROVE HolderInv'
  <2>1. s = Creator /\ spc[s] = "inherit"
    BY <1>1 DEF Inherit, IInv, LockInv, Birth
  <2>2. \A t \in Senders : t # s => stok[t] = NoToken
    <3>1. \A t \in Senders : t # s => spc[t] \in {"gone", "unborn"}
      BY <2>1 DEF IInv, LockInv, Birth
    <3>2. QED
      BY <3>1, <1>inv DEF HolderInv
  <2>3. \/ UNCHANGED <<toWake, stok, blocks>> /\ spc' = [spc EXCEPT ![s] = "panic_inherit"]
        \/ /\ toWake' = stok[s] /\ stok' = [stok EXCEPT ![s] = NoToken] /\ blocks' = blocks
           /\ spc' = [spc EXCEPT ![s] = "inheritcnt"] /\ toWake = NoToken
    BY <1>1 DEF Inherit, At, receiver, control
  <2>4. CASE UNCHANGED <<toWake, stok, blocks>> /\ spc' = [spc EXCEPT ![s] = "panic_inherit"]
    BY <2>1, <2>2, <2>4, <1>inv, <1>types DEF HolderInv, NoToken
  <2>5. CASE /\ toWake' = stok[s] /\ stok' = [stok EXCEPT ![s] = NoToken] /\ blocks' = blocks
             /\ spc' = [spc EXCEPT ![s] = "inheritcnt"] /\ toWake = NoToken
    <3>1. \A t \in Senders : stok'[t] = NoToken
      BY <2>2, <2>5, <1>types
    <3>2. \A t \in Senders : spc'[t] \notin {"inherit", "clear", "signal", "panic_inherit"}
      BY <2>1, <2>2, <2>5, <1>inv, <1>types DEF HolderInv
    <3>3. toWake' <= blocks' /\ blocks' \in Nat
      BY <2>5, <1>inv, <1>types DEF HolderInv
    <3>4. QED
      BY <3>1, <3>2, <3>3 DEF HolderInv, NoToken
  <2>6. QED
    BY <2>3, <2>4, <2>5
<1>2. ASSUME NEW s \in Senders, InheritCnt(s) PROVE HolderInv'
  BY <1>2, <1>kept, Moves DEF Move, InheritCnt, tokens, receiver, control
<1>3. ASSUME NEW s \in Senders, InheritSteals(s) PROVE HolderInv'
  BY <1>3, <1>kept, Moves DEF Move, InheritSteals, packet, tokens, control
<1>4. ASSUME NEW s \in Senders, InheritUnlock(s) PROVE HolderInv'
  BY <1>4, <1>inv, <1>types, AtUnlock DEF HolderInv, NoToken, InheritUnlock, tokens, receiver,
       control
<1>5. ASSUME NEW s \in Senders, SendCall(s) PROVE HolderInv'
  BY <1>5, <1>kept, Moves DEF Move, SendCall, packet, tokens, receiver, control
<1>6. ASSUME NEW s \in Senders, CloneChan(s) PROVE HolderInv'
  BY <1>6, <1>inv, <1>types, AtUnlock DEF HolderInv, NoToken, CloneChan, At, tokens, receiver,
       control
<1>7. ASSUME NEW s \in Senders, DropChan(s) PROVE HolderInv'
  BY <1>7, <1>kept, Moves DEF Move, DropChan, tokens, receiver, control
<1>8. ASSUME NEW s \in Senders, DropSwap(s) PROVE HolderInv'
  BY <1>8, <1>kept, Moves DEF Move, DropSwap, tokens, receiver, control
<1>9. ASSUME NEW s \in Senders, SendCheck(s) PROVE HolderInv'
  BY <1>9, <1>kept, Moves DEF Move, SendCheck, packet, tokens, receiver, control
<1>10. ASSUME NEW s \in Senders, PushSwap(s) PROVE HolderInv'
  BY <1>10, <1>kept, Moves DEF Move, PushSwap, tokens, receiver, control
<1>11. ASSUME NEW s \in Senders, PushLink(s) PROVE HolderInv'
  BY <1>11, <1>kept, Moves DEF Move, PushLink, tokens, receiver, control
<1>12. ASSUME NEW s \in Senders, SendAdd(s) PROVE HolderInv'
  BY <1>12, <1>kept, Moves DEF Move, SendAdd, tokens, receiver, control
<1>13. ASSUME NEW s \in Senders, TakeLoad(s) PROVE HolderInv'
  <2>1. /\ spc[s] = "take" /\ toWake # NoToken /\ spc' = [spc EXCEPT ![s] = "clear"]
        /\ stok' = [stok EXCEPT ![s] = toWake] /\ UNCHANGED <<toWake, blocks>>
    BY <1>13, SendersAssert DEF TakeLoad, At, packet, receiver, control
  <2>2. \A t \in Senders : t # s => spc[t] \notin {"take", "clear"}
    BY <2>1, <1>tok DEF TakerInv
  <2>3. \A t \in Senders : t # s => stok[t] # toWake
    BY <2>1, <2>2, <1>inv DEF HolderInv
  <2>4. \A t \in Senders : stok'[t] = (IF t = s THEN toWake ELSE stok[t])
                          /\ spc'[t] = (IF t = s THEN "clear" ELSE spc[t])
    BY <2>1, <1>types
  <2>5. QED
    BY <2>1, <2>2, <2>3, <2>4, <1>inv DEF HolderInv
<1>14. ASSUME NEW s \in Senders, TakeClear(s) PROVE HolderInv'
  <2>1. /\ spc[s] = "clear" /\ toWake' = NoToken /\ spc' = [spc EXCEPT ![s] = "signal"]
        /\ UNCHANGED <<stok, blocks>>
    BY <1>14 DEF TakeClear, At, receiver, control
  <2>2. \A t \in Senders : t # s => spc[t] \notin {"take", "clear"}
    BY <2>1, <1>tok DEF TakerInv
  <2>3. \A t \in Senders : spc'[t] = (IF t = s THEN "signal" ELSE spc[t])
    BY <2>1, <1>types
  <2>4. QED
    BY <2>1, <2>2, <2>3, <1>inv, <1>types DEF HolderInv, NoToken
<1>15. ASSUME NEW s \in Senders, Signal(s) PROVE HolderInv'
  <2>1. /\ spc[s] = "signal" /\ stok' = [stok EXCEPT ![s] = NoToken] /\ UNCHANGED <<toWake, blocks>>
        /\ spc' = [spc EXCEPT ![s] = spc'[s]] /\ spc'[s] \in {"gone", "idle"}
    BY <1>15, Moves DEF Signal, Move, packet, receiver, control
  <2>2. \A t \in Senders : /\ stok'[t] = (IF t = s THEN NoToken ELSE stok[t])
                          /\ t # s => spc'[t] = spc[t]
    BY <2>1, <1>types
  <2>3. QED
    BY <2>1, <2>2, <1>inv, <1>types DEF HolderInv, NoToken
<1>16. ASSUME NEW s \in Senders, SendDisconnected(s) PROVE HolderInv'
  BY <1>16, <1>kept, Moves DEF Move, SendDisconnected, tokens, receiver, control
<1>17. ASSUME NEW s \in Senders, DrainEnter(s) PROVE HolderInv'
  BY <1>17, <1>kept, Moves DEF Move, DrainEnter, tokens, receiver, control
<1>18. ASSUME NEW s \in Senders, DrainPop(s) PROVE HolderInv'
  BY <1>18, <1>kept, Moves DEF Move, DrainPop, tokens, receiver, control
<1>19. ASSUME NEW s \in Senders, DrainHead(s) PROVE HolderInv'
  BY <1>19, <1>kept, Moves DEF Move, DrainHead, packet, tokens, receiver, control
<1>20. ASSUME NEW s \in Senders, DrainLeave(s) PROVE HolderInv'
  BY <1>20, <1>kept, Moves DEF Move, DrainLeave, tokens, receiver, control
<1>21. ASSUME
       OldWoken \/ OldAborted \/ RecvCall \/ TryPop \/ TryHead \/ FoldSwap \/ Fold \/ Folded \/
       TryLook \/ TryAgain \/ TryAgainHead \/ DecrementSub \/ DecrementDisc \/ WaitDone \/
       WaitAborted \/ CanRecv \/ StartCancelBump \/ AbortLoad \/ AbortBump \/ AbortDisc \/ DropPort
       \/ DropCas \/ DropDrain
       PROVE  HolderInv'
  BY <1>21, <1>same DEF OldWoken, packet, tokens, sender, OldAborted, RecvCall, TryPop, TryHead,
       FoldSwap, Fold, Folded, TryLook, TryAgain, TryAgainHead, DecrementSub, DecrementDisc,
       WaitDone, WaitAborted, CanRecv, StartCancelBump, AbortLoad, AbortBump, AbortDisc, DropPort,
       DropCas, DropDrain
<1>22. ASSUME Decrement PROVE HolderInv'
  BY <1>22, <1>inv, <1>types DEF HolderInv, NoToken, Decrement, tokens, sender
<1>23. ASSUME DecrementFailed PROVE HolderInv'
  <2>1. rpc = "unwake" /\ toWake' = NoToken /\ UNCHANGED <<stok, spc, blocks>>
    BY <1>23 DEF DecrementFailed, sender
  <2>2. \A s \in Senders : spc[s] # "clear"
    BY <2>1, <1>tok DEF TakerInv
  <2>3. QED
    BY <2>1, <2>2, <1>inv, <1>types DEF HolderInv, NoToken
<1>24. ASSUME AbortFinish PROVE HolderInv'
  <2>1. \/ rpc = "aborttake" /\ toWake' = NoToken /\ UNCHANGED <<stok, spc, blocks>>
        \/ UNCHANGED <<toWake, stok, spc, blocks>>
    BY <1>24 DEF AbortFinish, sender
  <2>2. rpc = "aborttake" => \A s \in Senders : spc[s] # "clear"
    BY <1>tok DEF TakerInv
  <2>3. QED
    BY <2>1, <2>2, <1>same, <1>inv, <1>types DEF HolderInv, NoToken
<1>25. CASE Terminated
  BY <1>25, <1>same DEF Terminated, vars, packet, tokens, sender, receiver, control
<1>26. QED
  BY <1>1, <1>2, <1>3, <1>4, <1>5, <1>6, <1>7, <1>8, <1>9, <1>10, <1>11, <1>12, <1>13, <1>14, <1>15,
       <1>16, <1>17, <1>18, <1>19, <1>20, <1>21, <1>22, <1>23, <1>24, <1>25 DEF Next, SenderStep,
       ReceiverStep

\* One sender at most was told to take the token, and finds it.
LEMMA TakerInvStep ==
  ASSUME IInv, Next
  PROVE  TakerInv'
<1>inv. TakerInv
  BY DEF IInv
<1>types. /\ spc \in [Senders -> SenderLocs] /\ stok \in [Senders -> Nat] /\ freed \in [Tokens -> Nat]
          /\ toWake \in Nat /\ rtok \in Nat /\ blocks \in Nat /\ woken \subseteq Nat
          /\ cnt \in Int /\ local \in Int
  BY DEF IInv, TypeInv, LocTypes, TokenTypes, CountTypes
<1>tok. TakerInv /\ ArmedInv /\ HolderInv /\ FreedInv /\ ToWakeInv
  BY DEF IInv
<1>kept. ASSUME NEW s \in Senders, spc' = [spc EXCEPT ![s] = spc'[s]], UNCHANGED <<toWake, rpc>>,
                spc'[s] \notin {"take", "clear"}
         PROVE  TakerInv'
  BY <1>kept, <1>inv, <1>types DEF TakerInv
<1>same. ASSUME UNCHANGED <<toWake, spc, rpc>> PROVE TakerInv'
  BY <1>same, <1>inv DEF TakerInv
<1>1. ASSUME NEW s \in Senders, Inherit(s) PROVE TakerInv'
  <2>1. spc[s] = "inherit" /\ s = Creator
    BY <1>1 DEF Inherit, IInv, LockInv, Birth
  <2>2. \A t \in Senders : spc[t] \notin {"take", "clear"}
    BY <2>1 DEF IInv, LockInv, Birth
  <2>3. spc' = [spc EXCEPT ![s] = spc'[s]] /\ spc'[s] \notin {"take", "clear"}
    BY <1>1, Moves DEF Move
  <2>4. QED
    BY <2>2, <2>3, <1>types DEF TakerInv
<1>2. ASSUME NEW s \in Senders, InheritCnt(s) PROVE TakerInv'
  BY <1>2, <1>kept, Moves DEF Move, InheritCnt, tokens, receiver, control
<1>3. ASSUME NEW s \in Senders, InheritSteals(s) PROVE TakerInv'
  BY <1>3, <1>kept, Moves DEF Move, InheritSteals, packet, tokens, control
<1>4. ASSUME NEW s \in Senders, InheritUnlock(s) PROVE TakerInv'
  BY <1>4, <1>inv, <1>types, AtUnlock DEF TakerInv, InheritUnlock, tokens, receiver, control
<1>5. ASSUME NEW s \in Senders, SendCall(s) PROVE TakerInv'
  BY <1>5, <1>kept, Moves DEF Move, SendCall, packet, tokens, receiver, control
<1>6. ASSUME NEW s \in Senders, CloneChan(s) PROVE TakerInv'
  BY <1>6, <1>inv, <1>types, AtUnlock DEF TakerInv, CloneChan, At, tokens, receiver, control
<1>7. ASSUME NEW s \in Senders, DropChan(s) PROVE TakerInv'
  BY <1>7, <1>kept, Moves DEF Move, DropChan, tokens, receiver, control
<1>8. ASSUME NEW s \in Senders, DropSwap(s) PROVE TakerInv'
  <2>1. /\ spc[s] = "dropswap" /\ UNCHANGED <<toWake, rpc>> /\ spc' = [spc EXCEPT ![s] = spc'[s]]
        /\ spc'[s] \in {"take", "gone"}
    BY <1>8, Moves DEF Move, DropSwap, receiver, control
  <2>2. CASE spc'[s] # "take"
    BY <2>1, <2>2, <1>kept
  <2>3. CASE spc'[s] = "take"
    <3>1. cnt = -1
      BY <1>8, <2>3, <1>types DEF DropSwap, At
    <3>2. Open
      <4>1. rpc = "gone" => HowMany({"disc"}) \in Nat /\ HowMany({"disc"}) <= Cardinality(Senders)
        BY CountBounds DEF HowMany
      <4>2. rpc = "gone" => cnt < -1
        BY <4>1, <1>types, Numbers DEF IInv, GoneInv
      <4>3. QED
        BY <2>1, <3>1, <4>2, OpenWhile DEF Open
    <3>3. /\ toWake # NoToken /\ rpc \notin {"sub", "subdisc", "unwake", "aborttake"}
          /\ \A t \in Senders : spc[t] \notin {"take", "clear"}
      BY <3>1, <3>2, <1>tok DEF ArmedInv, Block, AbortLocs
    <3>4. QED
      BY <2>1, <3>3, <1>types DEF TakerInv
  <2>4. QED
    BY <2>2, <2>3
<1>9. ASSUME NEW s \in Senders, SendCheck(s) PROVE TakerInv'
  BY <1>9, <1>kept, Moves DEF Move, SendCheck, packet, tokens, receiver, control
<1>10. ASSUME NEW s \in Senders, PushSwap(s) PROVE TakerInv'
  BY <1>10, <1>kept, Moves DEF Move, PushSwap, tokens, receiver, control
<1>11. ASSUME NEW s \in Senders, PushLink(s) PROVE TakerInv'
  BY <1>11, <1>kept, Moves DEF Move, PushLink, tokens, receiver, control
<1>12. ASSUME NEW s \in Senders, SendAdd(s) PROVE TakerInv'
  <2>1. /\ spc[s] = "add" /\ UNCHANGED <<toWake, rpc>> /\ spc' = [spc EXCEPT ![s] = spc'[s]]
        /\ spc'[s] \in {"take", "disc", "idle"}
    BY <1>12, Moves DEF Move, SendAdd, receiver, control
  <2>2. CASE spc'[s] # "take"
    BY <2>1, <2>2, <1>kept
  <2>3. CASE spc'[s] = "take"
    <3>1. cnt = -1
      BY <1>12, <2>3, <1>types DEF SendAdd, At, SeesWaiter
    <3>2. Open
      BY <2>1, <3>1, CountFacts, OpenWhile DEF Open
    <3>3. /\ toWake # NoToken /\ rpc \notin {"sub", "subdisc", "unwake", "aborttake"}
          /\ \A t \in Senders : spc[t] \notin {"take", "clear"}
      BY <3>1, <3>2, <1>tok DEF ArmedInv, Block, AbortLocs
    <3>4. QED
      BY <2>1, <3>3, <1>types DEF TakerInv
  <2>4. QED
    BY <2>2, <2>3
<1>13. ASSUME NEW s \in Senders, TakeLoad(s) PROVE TakerInv'
  <2>1. /\ spc[s] = "take" /\ spc' = [spc EXCEPT ![s] = "clear"] /\ UNCHANGED <<toWake, rpc>>
    BY <1>13, SendersAssert DEF TakeLoad, At, packet, receiver, control
  <2>2. \A t \in Senders : t # s => spc'[t] = spc[t]
    BY <2>1, <1>types
  <2>3. QED
    BY <2>1, <2>2, <1>inv DEF TakerInv
<1>14. ASSUME NEW s \in Senders, TakeClear(s) PROVE TakerInv'
  <2>1. spc[s] = "clear" /\ spc' = [spc EXCEPT ![s] = "signal"]
    BY <1>14 DEF TakeClear, At
  <2>2. \A t \in Senders : spc'[t] \notin {"take", "clear"}
    BY <2>1, <1>types, <1>inv DEF TakerInv
  <2>3. QED
    BY <2>2 DEF TakerInv
<1>15. ASSUME NEW s \in Senders, Signal(s) PROVE TakerInv'
  BY <1>15, <1>kept, Moves DEF Move, Signal, packet, receiver, control
<1>16. ASSUME NEW s \in Senders, SendDisconnected(s) PROVE TakerInv'
  BY <1>16, <1>kept, Moves DEF Move, SendDisconnected, tokens, receiver, control
<1>17. ASSUME NEW s \in Senders, DrainEnter(s) PROVE TakerInv'
  BY <1>17, <1>kept, Moves DEF Move, DrainEnter, tokens, receiver, control
<1>18. ASSUME NEW s \in Senders, DrainPop(s) PROVE TakerInv'
  BY <1>18, <1>kept, Moves DEF Move, DrainPop, tokens, receiver, control
<1>19. ASSUME NEW s \in Senders, DrainHead(s) PROVE TakerInv'
  BY <1>19, <1>kept, Moves DEF Move, DrainHead, packet, tokens, receiver, control
<1>20. ASSUME NEW s \in Senders, DrainLeave(s) PROVE TakerInv'
  BY <1>20, <1>kept, Moves DEF Move, DrainLeave, tokens, receiver, control
<1>21. ASSUME OldWoken PROVE TakerInv'
  BY <1>21, <1>inv, <1>types DEF TakerInv, OldWoken, NoToken, packet, tokens, sender
<1>22. ASSUME OldAborted PROVE TakerInv'
  BY <1>22, <1>inv, <1>types DEF TakerInv, OldAborted, NoToken, packet, tokens, sender
<1>23. ASSUME RecvCall PROVE TakerInv'
  BY <1>23, <1>inv, <1>types DEF TakerInv, RecvCall, packet, tokens, sender
<1>24. ASSUME TryPop PROVE TakerInv'
  BY <1>24, <1>inv, <1>types DEF TakerInv, TryPop, Found, FoldDue, Poppable, Return, tokens, sender
<1>25. ASSUME TryHead PROVE TakerInv'
  BY <1>25, <1>inv, <1>types DEF TakerInv, TryHead, IsEmpty, packet, tokens, sender
<1>26. ASSUME FoldSwap PROVE TakerInv'
  BY <1>26, <1>inv, <1>types DEF TakerInv, FoldSwap, Foldable, AddBack, tokens, sender
<1>27. ASSUME Fold PROVE TakerInv'
  BY <1>27, <1>inv, <1>types DEF TakerInv, Fold, tokens, sender
<1>28. ASSUME Folded PROVE TakerInv'
  BY <1>28, <1>inv, <1>types DEF TakerInv, Folded, Found, Return, tokens, sender
<1>29. ASSUME TryLook PROVE TakerInv'
  BY <1>29, <1>inv, <1>types DEF TakerInv, TryLook, Return, SawHangup, packet, tokens, sender
<1>30. ASSUME TryAgain PROVE TakerInv'
  BY <1>30, <1>inv, <1>types DEF TakerInv, TryAgain, Found, Poppable, Return, tokens, sender
<1>31. ASSUME TryAgainHead PROVE TakerInv'
  BY <1>31, <1>inv, <1>types DEF TakerInv, TryAgainHead, Return, IsEmpty, Disconnected, packet,
       tokens, sender
<1>32. ASSUME Decrement PROVE TakerInv'
  BY <1>32, <1>inv, <1>types, ReceiverAsserts DEF TakerInv, Decrement, NoToken, tokens, sender
<1>33. ASSUME DecrementSub PROVE TakerInv'
  BY <1>33, <1>inv, <1>types, ReceiverAsserts DEF TakerInv, DecrementSub, tokens, sender
<1>34. ASSUME DecrementDisc PROVE TakerInv'
  BY <1>34, <1>inv, <1>types, ReceiverAsserts DEF TakerInv, DecrementDisc, tokens, sender
<1>35. ASSUME DecrementFailed PROVE TakerInv'
  BY <1>35, <1>inv, <1>types, ReceiverAsserts DEF TakerInv, DecrementFailed, Free, NoToken, sender
<1>36. ASSUME WaitDone PROVE TakerInv'
  BY <1>36, <1>inv, <1>types DEF TakerInv, WaitDone, NoToken, packet, tokens, sender
<1>37. ASSUME WaitAborted PROVE TakerInv'
  BY <1>37, <1>inv, <1>types DEF TakerInv, WaitAborted, packet, tokens, sender
<1>38. ASSUME CanRecv PROVE TakerInv'
  BY <1>38, <1>inv, <1>types DEF TakerInv, CanRecv, Return, packet, tokens, sender
<1>39. ASSUME StartCancelBump PROVE TakerInv'
  BY <1>39, <1>inv, <1>types DEF TakerInv, StartCancelBump, Return, tokens, sender
<1>40. ASSUME AbortLoad PROVE TakerInv'
  BY <1>40, <1>inv, <1>types DEF TakerInv, AbortLoad, UpgradeDone, packet, tokens, sender
<1>41. ASSUME AbortBump PROVE TakerInv'
  <2>1. rpc = "abortbump" /\ UNCHANGED <<spc, toWake>> /\ rpc' \in {"abortdisc", "aborttake", "abortspin"}
        /\ (rpc' = "aborttake" => cnt < 0 /\ cnt # DISCONNECTED)
    BY <1>41, <1>types, ReceiverAsserts DEF AbortBump, sender
  <2>2. rpc' = "aborttake" => Open
    BY <2>1 DEF Open, IInv, OverInv, Mid
  <2>3. QED
    BY <2>1, <2>2, <1>inv, <1>tok DEF TakerInv, ArmedInv
<1>42. ASSUME AbortDisc PROVE TakerInv'
  BY <1>42, <1>inv, <1>types DEF TakerInv, AbortDisc, AbortReturn, NoToken, Return, tokens, sender
<1>43. ASSUME AbortFinish PROVE TakerInv'
  BY <1>43, <1>inv, <1>types, ReceiverAsserts DEF TakerInv, AbortFinish, Free, AbortReturn, NoToken,
       Return, sender
<1>44. ASSUME DropPort PROVE TakerInv'
  BY <1>44, <1>inv, <1>types DEF TakerInv, DropPort, tokens, sender
<1>45. ASSUME DropCas PROVE TakerInv'
  BY <1>45, <1>inv, <1>types DEF TakerInv, DropCas, tokens, sender
<1>46. ASSUME DropDrain PROVE TakerInv'
  BY <1>46, <1>inv, <1>types DEF TakerInv, DropDrain, Poppable, Destroy, tokens, sender
<1>47. CASE Terminated
  BY <1>47, <1>same DEF Terminated, vars, packet, tokens, sender, receiver, control
<1>48. QED
  BY <1>1, <1>2, <1>3, <1>4, <1>5, <1>6, <1>7, <1>8, <1>9, <1>10, <1>11, <1>12, <1>13, <1>14, <1>15,
       <1>16, <1>17, <1>18, <1>19, <1>20, <1>21, <1>22, <1>23, <1>24, <1>25, <1>26, <1>27, <1>28,
       <1>29, <1>30, <1>31, <1>32, <1>33, <1>34, <1>35, <1>36, <1>37, <1>38, <1>39, <1>40, <1>41,
       <1>42, <1>43, <1>44, <1>45, <1>46, <1>47 DEF Next, SenderStep, ReceiverStep

\* Casting back a token that the senders and to_wake no longer hold.
LEMMA FreeStep ==
  ASSUME IInv, NEW t \in 1..blocks, freed[t] = 0, Free(t), blocks' = blocks,
         \A u \in Tokens : freed[u] = 0 /\ u # t =>
           ((toWake = u \/ \E s \in Senders : stok[s] = u) =>
              (toWake' = u \/ \E s \in Senders : stok'[s] = u)),
         toWake' # NoToken => toWake' = toWake, toWake' # t,
         \A s \in Senders : stok'[s] # NoToken => stok'[s] = stok[s] /\ stok'[s] # t,
         woken' \subseteq woken \cup {t},
         woken \subseteq woken',
         rpc' \in {"old", "wait"} => rpc' = rpc /\ rtok' = rtok /\ t \in woken'
  PROVE  FreedInv'
<1>types. /\ freed \in [Tokens -> Nat] /\ blocks \in Nat /\ blocks <= MaxBlocks /\ MaxBlocks \in Nat
          /\ woken \subseteq Nat /\ rtok \in Nat /\ toWake \in Nat /\ stok \in [Senders -> Nat]
  BY Numbers DEF IInv, TypeInv, TokenTypes, BlocksInv
<1>inv. FreedInv /\ HolderInv /\ ToWakeInv
  BY DEF IInv
<1>1. t \in Tokens /\ 1..blocks \subseteq Tokens
  BY <1>types DEF Tokens
<1>2. \A u \in Tokens : freed'[u] = IF u = t THEN 1 ELSE freed[u]
  BY <1>1, <1>types DEF Free
<1>3. \A u \in Tokens : freed'[u] \in {0, 1} /\ (u > blocks' => freed'[u] = 0)
  BY <1>1, <1>2, <1>inv, <1>types DEF FreedInv
<1>4. toWake' # NoToken => freed'[toWake'] = 0
  <2>1. toWake # NoToken => toWake \in Tokens
    BY <1>inv, <1>types, <1>1 DEF HolderInv, NoToken
  <2>2. QED
    BY <1>2, <1>inv, <2>1 DEF FreedInv
<1>5. \A s \in Senders : stok'[s] # NoToken => freed'[stok'[s]] = 0
  <2>1. \A s \in Senders : stok[s] # NoToken => stok[s] \in Tokens
    BY <1>inv, <1>types, <1>1 DEF HolderInv, NoToken
  <2>2. QED
    BY <1>2, <1>inv, <2>1 DEF FreedInv
<1>6. \A u \in 1..blocks' : freed'[u] = 0 => toWake' = u \/ \E s \in Senders : stok'[s] = u
  BY <1>1, <1>2, <1>inv DEF FreedInv
<1>7. \A u \in woken' : u \in 1..blocks' /\ freed'[u] = 1
  BY <1>1, <1>2, <1>inv DEF FreedInv
<1>8. rpc' \in {"old", "wait"} /\ freed'[rtok'] = 1 => rtok' \in woken'
  <2>1. rpc' \in {"old", "wait"} => rtok \in 1..blocks
    BY <1>inv DEF ToWakeInv, Block
  <2>2. QED
    BY <1>1, <1>2, <1>inv, <2>1 DEF FreedInv
<1>9. QED
  BY <1>3, <1>4, <1>5, <1>6, <1>7, <1>8 DEF FreedInv

\* Each token is cast back once, and not while somebody holds it.
LEMMA FreedInvStep ==
  ASSUME IInv, Next
  PROVE  FreedInv'
<1>inv. FreedInv
  BY DEF IInv
<1>types. /\ spc \in [Senders -> SenderLocs] /\ stok \in [Senders -> Nat] /\ freed \in [Tokens -> Nat]
          /\ toWake \in Nat /\ rtok \in Nat /\ blocks \in Nat /\ woken \subseteq Nat
          /\ cnt \in Int /\ local \in Int /\ MaxBlocks \in Nat
  BY Numbers DEF IInv, TypeInv, LocTypes, TokenTypes, CountTypes
<1>tok. TakerInv /\ ArmedInv /\ HolderInv /\ ToWakeInv /\ ModeInv
  BY DEF IInv
<1>max. blocks <= MaxBlocks /\ (rpc = "decr" => blocks < MaxBlocks)
  BY DEF IInv, BlocksInv
<1>rest. ASSUME UNCHANGED <<freed, blocks, toWake, stok, woken>>, rpc' \notin {"old", "wait"}
         PROVE  FreedInv'
  BY <1>rest, <1>inv DEF FreedInv
<1>same. ASSUME UNCHANGED <<freed, blocks, toWake, stok, woken, rpc, rtok>> PROVE FreedInv'
  BY <1>same, <1>inv DEF FreedInv
<1>1. ASSUME NEW s \in Senders,
       InheritCnt(s) \/ InheritSteals(s) \/ InheritUnlock(s) \/ SendCall(s) \/ CloneChan(s) \/
       DropChan(s) \/ DropSwap(s) \/ SendCheck(s) \/ PushSwap(s) \/ PushLink(s) \/ SendAdd(s) \/
       SendDisconnected(s) \/ DrainEnter(s) \/ DrainPop(s) \/ DrainHead(s) \/ DrainLeave(s)
       PROVE  FreedInv'
  BY <1>1, <1>same DEF InheritCnt, tokens, receiver, control, InheritSteals, packet, InheritUnlock,
       SendCall, CloneChan, DropChan, DropSwap, SendCheck, PushSwap, PushLink, SendAdd,
       SendDisconnected, DrainEnter, DrainPop, DrainHead, DrainLeave
<1>2. ASSUME NEW s \in Senders, Inherit(s) PROVE FreedInv'
  <2>1. spc[s] = "inherit" /\ UNCHANGED <<freed, blocks, woken, rpc, rtok>>
    BY <1>2 DEF Inherit, tokens, receiver, control
  <2>2. stok[s] # NoToken /\ freed[stok[s]] = 0
    BY <2>1, <1>inv, <1>tok DEF HolderInv, FreedInv
  <2>3. CASE UNCHANGED <<toWake, stok>>
    BY <2>1, <2>3, <1>same
  <2>4. CASE toWake = NoToken /\ toWake' = stok[s] /\ stok' = [stok EXCEPT ![s] = NoToken]
    <3>1. \A u \in Senders : stok'[u] = IF u = s THEN NoToken ELSE stok[u]
      BY <2>4, <1>types
    <3>2. QED
      BY <2>1, <2>2, <2>4, <3>1, <1>inv, <1>types DEF FreedInv, NoToken
  <2>5. QED
    BY <1>2, <2>3, <2>4 DEF Inherit
<1>3. ASSUME NEW s \in Senders, TakeLoad(s) PROVE FreedInv'
  <2>1. /\ spc[s] = "take" /\ toWake # NoToken /\ stok' = [stok EXCEPT ![s] = toWake]
        /\ UNCHANGED <<freed, blocks, woken, rpc, rtok, toWake>>
    BY <1>3, SendersAssert DEF TakeLoad, tokens, packet, receiver, control
  <2>2. stok[s] = NoToken /\ freed[toWake] = 0
    BY <2>1, <1>inv, <1>tok DEF HolderInv, FreedInv
  <2>3. \A u \in Senders : stok'[u] = IF u = s THEN toWake ELSE stok[u]
    BY <2>1, <1>types
  <2>4. QED
    BY <2>1, <2>2, <2>3, <1>inv, <1>types DEF FreedInv, NoToken
<1>4. ASSUME NEW s \in Senders, TakeClear(s) PROVE FreedInv'
  <2>1. spc[s] = "clear" /\ toWake' = NoToken /\ UNCHANGED <<stok, freed, blocks, woken, rpc, rtok>>
    BY <1>4 DEF TakeClear, tokens, receiver, control
  <2>2. stok[s] = toWake
    BY <2>1, <1>tok DEF HolderInv
  <2>3. QED
    BY <2>1, <2>2, <1>inv, <1>types DEF FreedInv, NoToken
<1>5. ASSUME NEW s \in Senders, Signal(s) PROVE FreedInv'
  <2>1. /\ spc[s] = "signal" /\ Free(stok[s]) /\ woken' = woken \cup {stok[s]}
        /\ stok' = [stok EXCEPT ![s] = NoToken] /\ UNCHANGED <<toWake, blocks, rpc, rtok>>
    BY <1>5 DEF Signal, packet, receiver, control
  <2>2. /\ stok[s] \in 1..blocks /\ freed[stok[s]] = 0 /\ toWake # stok[s]
        /\ \A u \in Senders : u # s => stok[u] # stok[s]
    BY <2>1, <1>inv, <1>tok, <1>types DEF HolderInv, FreedInv, NoToken
  <2>3. \A u \in Senders : stok'[u] = IF u = s THEN NoToken ELSE stok[u]
    BY <2>1, <1>types
  <2>4. \A u \in Tokens : u # NoToken
    BY <1>types DEF Tokens, NoToken
  <2>5. QED
    BY <2>1, <2>2, <2>3, <2>4, FreeStep
<1>6. ASSUME OldWoken PROVE FreedInv'
  BY <1>6, <1>rest DEF OldWoken, NoToken, packet, tokens, sender
<1>7. ASSUME OldAborted PROVE FreedInv'
  BY <1>7, <1>rest DEF OldAborted, NoToken, packet, tokens, sender
<1>8. ASSUME RecvCall PROVE FreedInv'
  BY <1>8, <1>rest DEF RecvCall, packet, tokens, sender
<1>9. ASSUME TryPop PROVE FreedInv'
  BY <1>9, <1>rest DEF TryPop, Found, FoldDue, Poppable, Return, tokens, sender
<1>10. ASSUME TryHead PROVE FreedInv'
  BY <1>10, <1>rest DEF TryHead, IsEmpty, packet, tokens, sender
<1>11. ASSUME FoldSwap PROVE FreedInv'
  BY <1>11, <1>rest DEF FoldSwap, Foldable, AddBack, tokens, sender
<1>12. ASSUME Fold PROVE FreedInv'
  BY <1>12, <1>rest DEF Fold, tokens, sender
<1>13. ASSUME Folded PROVE FreedInv'
  BY <1>13, <1>rest DEF Folded, Found, Return, tokens, sender
<1>14. ASSUME TryLook PROVE FreedInv'
  BY <1>14, <1>rest DEF TryLook, Return, SawHangup, packet, tokens, sender
<1>15. ASSUME TryAgain PROVE FreedInv'
  BY <1>15, <1>rest DEF TryAgain, Found, Poppable, Return, tokens, sender
<1>16. ASSUME TryAgainHead PROVE FreedInv'
  BY <1>16, <1>rest DEF TryAgainHead, Return, IsEmpty, Disconnected, packet, tokens, sender
<1>17. ASSUME Decrement PROVE FreedInv'
  <2>1. CASE /\ toWake = NoToken /\ rpc = "decr" /\ rpc' = "sub" /\ UNCHANGED <<stok, freed, woken>>
             /\ blocks' = blocks + 1 /\ rtok' = blocks + 1 /\ toWake' = blocks + 1
    <3>1. blocks + 1 \in Tokens /\ freed[blocks + 1] = 0
      BY <2>1, <1>inv, <1>types, <1>max DEF FreedInv, Tokens
    <3>2. \A t \in Tokens : freed[t] \in {0, 1} /\ (t > blocks + 1 => freed[t] = 0)
      <4>1. ASSUME NEW t \in Tokens PROVE freed[t] \in {0, 1} /\ (t > blocks + 1 => freed[t] = 0)
        BY <1>inv, <1>types DEF FreedInv, Tokens
      <4>2. QED
        BY <4>1
    <3>3. \A t \in 1..(blocks + 1) : freed[t] = 0 => toWake' = t \/ \E s \in Senders : stok[s] = t
      <4>1. \A t \in 1..(blocks + 1) : t \in 1..blocks \/ t = toWake'
        BY <2>1, <1>types
      <4>2. \A t \in 1..blocks : t # NoToken
        BY <1>types DEF NoToken
      <4>3. QED
        BY <2>1, <4>1, <4>2, <1>inv DEF FreedInv
    <3>4. \A t \in woken : t \in 1..(blocks + 1) /\ freed[t] = 1
      BY <1>inv, <1>types DEF FreedInv
    <3>5. QED
      BY <2>1, <3>1, <3>2, <3>3, <3>4, <1>inv DEF FreedInv
  <2>2. CASE UNCHANGED <<stok, freed, woken, blocks, toWake>> /\ rpc' = "panic_to_wake"
    BY <2>2, <1>inv DEF FreedInv
  <2>3. QED
    BY <1>17, <2>1, <2>2 DEF Decrement, tokens, sender
<1>18. ASSUME DecrementSub PROVE FreedInv'
  <2>1. rpc = "sub" /\ UNCHANGED <<freed, blocks, toWake, stok, woken, rtok>>
    BY <1>18 DEF DecrementSub, tokens, sender
  <2>2. toWake = rtok /\ rtok \in 1..blocks
    BY <2>1, <1>tok DEF ToWakeInv, Block
  <2>3. freed[rtok] = 0
    BY <2>2, <1>inv, <1>types DEF FreedInv, NoToken
  <2>4. QED
    BY <2>1, <2>3, <1>inv DEF FreedInv
<1>19. ASSUME DecrementDisc PROVE FreedInv'
  BY <1>19, <1>rest DEF DecrementDisc, tokens, sender
<1>20. ASSUME DecrementFailed PROVE FreedInv'
  <2>1. CASE rpc = "unwake" /\ toWake = rtok
    <3>1. /\ Free(rtok) /\ toWake' = NoToken /\ UNCHANGED <<stok, blocks, woken>>
          /\ rpc' \notin {"old", "wait"}
      BY <1>20, <2>1, <1>tok DEF DecrementFailed, sender
    <3>2. rtok \in 1..blocks
      BY <2>1, <1>tok DEF ToWakeInv, Block, AbortLocs
    <3>3. toWake # NoToken /\ toWake = rtok
      BY <2>1, <3>2, <1>types DEF NoToken
    <3>4. freed[rtok] = 0 /\ \A s \in Senders : stok[s] # rtok
      <4>1. \A s \in Senders : spc[s] # "clear"
        BY <2>1, <1>tok DEF TakerInv
      <4>2. QED
        BY <3>3, <4>1, <1>inv, <1>tok DEF FreedInv, HolderInv
    <3>5. rtok # NoToken
      BY <3>3
    <3>6. QED
      BY <3>1, <3>2, <3>3, <3>4, <3>5, FreeStep
  <2>2. rpc = "unwake" /\ toWake = rtok
    BY <1>20, <1>tok DEF DecrementFailed, ToWakeInv
  <2>3. QED
    BY <2>1, <2>2
<1>21. ASSUME WaitDone PROVE FreedInv'
  BY <1>21, <1>rest DEF WaitDone, NoToken, packet, tokens, sender
<1>22. ASSUME WaitAborted PROVE FreedInv'
  BY <1>22, <1>rest DEF WaitAborted, packet, tokens, sender
<1>23. ASSUME CanRecv PROVE FreedInv'
  BY <1>23, <1>rest DEF CanRecv, Return, packet, tokens, sender
<1>24. ASSUME StartCancelBump PROVE FreedInv'
  BY <1>24, <1>rest DEF StartCancelBump, Return, tokens, sender
<1>25. ASSUME AbortLoad PROVE FreedInv'
  BY <1>25, <1>rest DEF AbortLoad, UpgradeDone, packet, tokens, sender
<1>26. ASSUME AbortBump PROVE FreedInv'
  BY <1>26, <1>rest DEF AbortBump, tokens, sender
<1>27. ASSUME AbortDisc PROVE FreedInv'
  BY <1>27, <1>rest DEF AbortDisc, AbortReturn, NoToken, Return, tokens, sender
<1>28. ASSUME AbortFinish PROVE FreedInv'
  <2>1. CASE rpc = "aborttake" /\ toWake = rtok
    <3>1. /\ Free(rtok) /\ toWake' = NoToken /\ UNCHANGED <<stok, blocks, woken>>
          /\ rpc' \notin {"old", "wait"}
      BY <1>28, <2>1, <1>tok DEF AbortFinish, sender, AbortReturn, Return, ToWakeInv, Block, AbortLocs, NoToken
    <3>2. rtok \in 1..blocks
      BY <2>1, <1>tok DEF ToWakeInv, Block, AbortLocs
    <3>3. toWake # NoToken /\ toWake = rtok
      BY <2>1, <3>2, <1>types DEF NoToken
    <3>4. freed[rtok] = 0 /\ \A s \in Senders : stok[s] # rtok
      <4>1. \A s \in Senders : spc[s] # "clear"
        BY <2>1, <1>tok DEF TakerInv
      <4>2. QED
        BY <3>3, <4>1, <1>inv, <1>tok DEF FreedInv, HolderInv
    <3>5. rtok # NoToken
      BY <3>3
    <3>6. QED
      BY <3>1, <3>2, <3>3, <3>4, <3>5, FreeStep
  <2>2. CASE rpc # "aborttake"
    <3>1. UNCHANGED <<toWake, stok, freed, blocks, woken>> /\ rpc' \notin {"old", "wait"}
      BY <1>28, <2>2 DEF AbortFinish, AbortReturn, Return, sender
    <3>2. QED
      BY <3>1, <1>inv DEF FreedInv
  <2>3. rpc = "aborttake" => toWake = rtok
    BY <1>tok DEF ToWakeInv
  <2>4. QED
    BY <2>1, <2>2, <2>3
<1>29. ASSUME DropPort PROVE FreedInv'
  BY <1>29, <1>rest DEF DropPort, tokens, sender
<1>30. ASSUME DropCas PROVE FreedInv'
  BY <1>30, <1>rest DEF DropCas, tokens, sender
<1>31. ASSUME DropDrain PROVE FreedInv'
  BY <1>31, <1>rest DEF DropDrain, Poppable, Destroy, tokens, sender
<1>32. CASE Terminated
  BY <1>32, <1>same DEF Terminated, vars, packet, tokens, sender, receiver, control
<1>33. QED
  BY <1>1, <1>2, <1>3, <1>4, <1>5, <1>6, <1>7, <1>8, <1>9, <1>10, <1>11, <1>12, <1>13, <1>14, <1>15,
       <1>16, <1>17, <1>18, <1>19, <1>20, <1>21, <1>22, <1>23, <1>24, <1>25, <1>26, <1>27, <1>28,
       <1>29, <1>30, <1>31, <1>32 DEF Next, SenderStep, ReceiverStep

\* While the count is below zero the waiter's token is there to be taken.
LEMMA ArmedInvStep ==
  ASSUME IInv, Next
  PROVE  ArmedInv'
<1>inv. ArmedInv
  BY DEF IInv
<1>types. /\ spc \in [Senders -> SenderLocs] /\ stok \in [Senders -> Nat] /\ freed \in [Tokens -> Nat]
          /\ toWake \in Nat /\ rtok \in Nat /\ blocks \in Nat /\ woken \subseteq Nat
          /\ cnt \in Int /\ local \in Int /\ MaxBlocks \in Nat
  BY Numbers DEF IInv, TypeInv, LocTypes, TokenTypes, CountTypes
<1>tok. TakerInv /\ ArmedInv /\ HolderInv /\ ToWakeInv /\ ModeInv
  BY DEF IInv
<1>max. blocks <= MaxBlocks /\ (rpc = "decr" => blocks < MaxBlocks)
  BY DEF IInv, BlocksInv
<1>move. ASSUME NEW s \in Senders, spc' = [spc EXCEPT ![s] = spc'[s]], spc'[s] \notin {"take", "clear"},
                UNCHANGED <<cnt, toWake, rpc, aborted>>, Over => Over'
         PROVE  ArmedInv'
  BY <1>move, <1>inv, <1>types DEF ArmedInv, Open
<1>nodrop. \A s \in Senders : spc[s] # "dropswap" => ~DropSwap(s)
  BY DEF DropSwap
<1>over. /\ UNCHANGED <<spc, channels>> => (Over' <=> Over)
         /\ OverInv
  BY DEF Over, IInv
<1>old. rpc \in {"old", "wait"} /\ rtok \in woken => toWake = NoToken
  BY <1>tok DEF IInv, FreedInv, ToWakeInv, Block
<1>facts. ASSUME Open
          PROVE  /\ cnt # DISCONNECTED /\ Wrap(cnt + 1) = cnt + 1
                 /\ rpc = "sub" => Wrap(cnt - (1 + local)) = cnt - (1 + local)
                 /\ rpc = "abortbump" => Wrap(cnt + local + 1) = cnt + local + 1
                 /\ rpc = "foldbump" => Wrap(cnt + local) = cnt + local
  BY <1>facts, CountFacts
<1>steals. rpc = "foldbump" /\ ~Over => cnt >= 0 /\ local >= 0
  BY DEF IInv, StealsInv
<1>same. ASSUME UNCHANGED <<cnt, toWake, spc, rpc, aborted, channels>> PROVE ArmedInv'
  BY <1>same, <1>inv DEF ArmedInv, Open, Over
<1>1. ASSUME NEW s \in Senders, Inherit(s) PROVE ArmedInv'
  <2>1. UNCHANGED <<cnt, rpc, aborted>> /\ spc[s] = "inherit" /\ s = Creator
    BY <1>1 DEF Inherit, receiver, control, IInv, LockInv, Birth
  <2>2. (Over => Over') /\ spc' = [spc EXCEPT ![s] = spc'[s]] /\ spc'[s] \notin {"take", "clear"}
    BY <1>1, SenderOver, Moves DEF SenderStep, Move
  <2>3. \/ cnt = 0
        \/ toWake' = toWake
    BY <1>1 DEF Inherit
  <2>4. QED
    BY <2>1, <2>2, <2>3, <1>inv, <1>types DEF ArmedInv, Open
<1>2. ASSUME NEW s \in Senders, InheritCnt(s) PROVE ArmedInv'
  <2>1. UNCHANGED <<toWake, rpc, aborted>> /\ spc[s] = "inheritcnt" /\ s = Creator
    BY <1>2 DEF InheritCnt, receiver, control, IInv, LockInv, Birth
  <2>2. /\ toWake = 1 /\ rpc \in {"old", "abort", "try", "tryhead", "look", "decr", "panic_to_wake"}
        /\ rpc \notin {"old", "abort"} => aborted = "upgrade"
    BY <2>1 DEF IInv, BirthInv
  <2>3. \A t \in Senders : spc[t] \notin {"take", "clear"}
    BY <2>1 DEF IInv, LockInv, Birth
  <2>4. \A t \in Senders : spc'[t] \notin {"take", "clear"}
    BY <1>2, <2>3, <1>types DEF InheritCnt, At
  <2>5. QED
    BY <2>1, <2>2, <2>4 DEF ArmedInv, Block, AbortLocs, NoToken
<1>3. ASSUME NEW s \in Senders, InheritSteals(s) PROVE ArmedInv'
  BY <1>3, <1>move, SenderOver, <1>nodrop, Moves DEF Move, SenderStep, InheritSteals, packet,
       tokens, control
<1>4. ASSUME NEW s \in Senders, InheritUnlock(s) PROVE ArmedInv'
  <2>1. UNCHANGED <<cnt, toWake, rpc, aborted>> /\ (Over => Over')
    BY <1>4, SenderOver DEF SenderStep, InheritUnlock, tokens, receiver, control
  <2>2. \A t \in Senders : spc'[t] \in {"take", "clear"} => spc[t] \in {"take", "clear"}
    BY <1>4, <1>types DEF InheritUnlock
  <2>3. QED
    BY <2>1, <2>2, <1>inv DEF ArmedInv, Open
<1>5. ASSUME NEW s \in Senders, SendCall(s) PROVE ArmedInv'
  BY <1>5, <1>move, SenderOver, <1>nodrop, Moves DEF Move, SenderStep, SendCall, packet, tokens,
       receiver, control
<1>6. ASSUME NEW s \in Senders, CloneChan(s) PROVE ArmedInv'
  <2>1. UNCHANGED <<cnt, toWake, rpc, aborted>> /\ (Over => Over')
    BY <1>6, SenderOver DEF SenderStep, CloneChan, tokens, receiver, control
  <2>2. \A t \in Senders : spc'[t] \in {"take", "clear"} => spc[t] \in {"take", "clear"}
    BY <1>6, <1>types DEF CloneChan, At
  <2>3. QED
    BY <2>1, <2>2, <1>inv DEF ArmedInv, Open
<1>7. ASSUME NEW s \in Senders, DropChan(s) PROVE ArmedInv'
  BY <1>7, <1>move, SenderOver, <1>nodrop, Moves DEF Move, SenderStep, DropChan, tokens, receiver,
       control
<1>8. ASSUME NEW s \in Senders, DropSwap(s) PROVE ArmedInv'
  <2>1. Over'
    <3>1. spc[s] = "dropswap" /\ channels' = channels
      BY <1>8 DEF DropSwap
    <3>2. channels = 0
      BY <3>1 DEF IInv, HandleInv, TypeInv, CountTypes
    <3>3. \A t \in Senders : spc[t] = "dropswap" => t = s
      BY <3>1, <3>2 DEF IInv, HandleInv
    <3>4. spc' = [spc EXCEPT ![s] = spc'[s]] /\ spc'[s] # "dropswap"
      BY <1>8, Moves DEF Move
    <3>5. QED
      BY <3>1, <3>2, <3>3, <3>4, <1>types DEF Over
  <2>2. QED
    BY <2>1 DEF ArmedInv, Open
<1>9. ASSUME NEW s \in Senders, SendCheck(s) PROVE ArmedInv'
  BY <1>9, <1>move, SenderOver, <1>nodrop, Moves DEF Move, SenderStep, SendCheck, packet, tokens,
       receiver, control
<1>10. ASSUME NEW s \in Senders, PushSwap(s) PROVE ArmedInv'
  BY <1>10, <1>move, SenderOver, <1>nodrop, Moves DEF Move, SenderStep, PushSwap, tokens, receiver,
       control
<1>11. ASSUME NEW s \in Senders, PushLink(s) PROVE ArmedInv'
  BY <1>11, <1>move, SenderOver, <1>nodrop, Moves DEF Move, SenderStep, PushLink, tokens, receiver,
       control
<1>12. ASSUME NEW s \in Senders, SendAdd(s) PROVE ArmedInv'
  <2>1. UNCHANGED <<toWake, rpc, aborted>> /\ spc[s] = "add"
    BY <1>12 DEF SendAdd, receiver, control
  <2>2. ~Over
    BY <2>1, OpenWhile
  <2>3. CASE rpc = "gone"
    BY <2>1, <2>3 DEF ArmedInv, Open
  <2>4. CASE rpc # "gone"
    <3>1. Open /\ cnt' = cnt + 1
      BY <1>12, <2>2, <2>4, CountFacts DEF Open, SendAdd
    <3>2. ASSUME cnt + 1 < 0 PROVE spc' = [spc EXCEPT ![s] = spc'[s]] /\ spc'[s] \notin {"take", "clear"}
      BY <1>12, <3>2, <1>types DEF SendAdd, At, SeesWaiter
    <3>3. QED
      BY <2>1, <3>1, <3>2, <1>inv, <1>types DEF ArmedInv
  <2>5. QED
    BY <2>3, <2>4
<1>13. ASSUME NEW s \in Senders, TakeLoad(s) PROVE ArmedInv'
  <2>1. spc[s] = "take" /\ UNCHANGED <<cnt, rpc, aborted>>
    BY <1>13 DEF TakeLoad, packet, receiver, control
  <2>2. Over => Over'
    BY <1>13, SenderOver DEF SenderStep
  <2>3. QED
    BY <2>1, <2>2, <1>inv DEF ArmedInv, Open
<1>14. ASSUME NEW s \in Senders, TakeClear(s) PROVE ArmedInv'
  <2>1. spc[s] = "clear" /\ UNCHANGED <<cnt, rpc, aborted>>
    BY <1>14 DEF TakeClear, receiver, control
  <2>2. Over => Over'
    BY <1>14, SenderOver DEF SenderStep
  <2>3. QED
    BY <2>1, <2>2, <1>inv DEF ArmedInv, Open
<1>15. ASSUME NEW s \in Senders, Signal(s) PROVE ArmedInv'
  BY <1>15, <1>move, SenderOver, <1>nodrop, Moves DEF Move, SenderStep, Signal, packet, receiver,
       control
<1>16. ASSUME NEW s \in Senders, SendDisconnected(s) PROVE ArmedInv'
  <2>1. rpc = "gone" /\ rpc' = rpc
    BY <1>16 DEF SendDisconnected, receiver, control, IInv, GoneInv
  <2>2. QED
    BY <2>1 DEF ArmedInv, Open
<1>17. ASSUME NEW s \in Senders, DrainEnter(s) PROVE ArmedInv'
  BY <1>17, <1>move, SenderOver, <1>nodrop, Moves DEF Move, SenderStep, DrainEnter, tokens, receiver,
       control
<1>18. ASSUME NEW s \in Senders, DrainPop(s) PROVE ArmedInv'
  BY <1>18, <1>move, SenderOver, <1>nodrop, Moves DEF Move, SenderStep, DrainPop, tokens, receiver,
       control
<1>19. ASSUME NEW s \in Senders, DrainHead(s) PROVE ArmedInv'
  BY <1>19, <1>move, SenderOver, <1>nodrop, Moves DEF Move, SenderStep, DrainHead, packet, tokens,
       receiver, control
<1>20. ASSUME NEW s \in Senders, DrainLeave(s) PROVE ArmedInv'
  BY <1>20, <1>move, SenderOver, <1>nodrop, Moves DEF Move, SenderStep, DrainLeave, tokens, receiver,
       control
<1>21. ASSUME OldWoken PROVE ArmedInv'
  <2>1. UNCHANGED <<cnt, toWake, spc, channels>>
    BY <1>21 DEF OldWoken, packet, sender
  <2>2. QED
    BY <1>21, <2>1, <1>inv, <1>over, <1>tok, <1>old DEF ArmedInv, Open, Block, AbortLocs, OldWoken,
         NoToken, packet, tokens, sender
<1>22. ASSUME OldAborted PROVE ArmedInv'
  <2>1. UNCHANGED <<cnt, toWake, spc, channels>>
    BY <1>22 DEF OldAborted, packet, sender
  <2>2. QED
    BY <1>22, <2>1, <1>inv, <1>over, <1>tok, <1>old DEF ArmedInv, Open, Block, AbortLocs, OldAborted,
         NoToken, packet, tokens, sender
<1>23. ASSUME RecvCall PROVE ArmedInv'
  <2>1. UNCHANGED <<cnt, toWake, spc, channels>>
    BY <1>23 DEF RecvCall, packet, sender
  <2>2. QED
    BY <1>23, <2>1, <1>inv, <1>over, <1>tok, <1>old DEF ArmedInv, Open, Block, AbortLocs, RecvCall,
         packet, tokens, sender
<1>24. ASSUME TryPop PROVE ArmedInv'
  <2>1. UNCHANGED <<cnt, toWake, spc, channels>>
    BY <1>24 DEF TryPop, Found, Return, sender
  <2>2. QED
    BY <1>24, <2>1, <1>inv, <1>over, <1>tok, <1>old DEF ArmedInv, Open, Block, AbortLocs, TryPop,
         Found, FoldDue, Poppable, Return, tokens, sender
<1>25. ASSUME TryHead PROVE ArmedInv'
  <2>1. UNCHANGED <<cnt, toWake, spc, channels>>
    BY <1>25 DEF TryHead, packet, sender
  <2>2. QED
    BY <1>25, <2>1, <1>inv, <1>over, <1>tok, <1>old DEF ArmedInv, Open, Block, AbortLocs, TryHead,
         IsEmpty, packet, tokens, sender
<1>26. ASSUME FoldSwap PROVE ArmedInv'
  <2>1. cnt' = 0
    BY <1>26 DEF FoldSwap
  <2>2. QED
    BY <2>1 DEF ArmedInv
<1>27. ASSUME Fold PROVE ArmedInv'
  <2>1. rpc \in {"foldbump", "foldstore"} /\ UNCHANGED <<spc, channels>>
    BY <1>27 DEF Fold, sender
  <2>2. CASE Over
    BY <2>1, <2>2, <1>over DEF ArmedInv, Open
  <2>3. CASE ~Over
    <3>1. Open /\ rpc = "foldbump"
      BY <2>1, <2>3, <1>over DEF Open, OverInv, Mid
    <3>2. cnt' = cnt + local
      BY <1>27, <3>1, <1>facts DEF Fold
    <3>3. QED
      BY <2>3, <3>1, <3>2, <1>steals, <1>types DEF ArmedInv
  <2>4. QED
    BY <2>2, <2>3
<1>28. ASSUME Folded PROVE ArmedInv'
  <2>1. UNCHANGED <<cnt, toWake, spc, channels>>
    BY <1>28 DEF Folded, Found, Return, sender
  <2>2. QED
    BY <1>28, <2>1, <1>inv, <1>over, <1>tok, <1>old DEF ArmedInv, Open, Block, AbortLocs, Folded,
         Found, Return, tokens, sender
<1>29. ASSUME TryLook PROVE ArmedInv'
  <2>1. UNCHANGED <<cnt, toWake, spc, channels>>
    BY <1>29 DEF TryLook, Return, packet, sender
  <2>2. QED
    BY <1>29, <2>1, <1>inv, <1>over, <1>tok, <1>old DEF ArmedInv, Open, Block, AbortLocs, TryLook,
         Return, SawHangup, packet, tokens, sender
<1>30. ASSUME TryAgain PROVE ArmedInv'
  <2>1. UNCHANGED <<cnt, toWake, spc, channels>>
    BY <1>30 DEF TryAgain, Found, Return, sender
  <2>2. QED
    BY <1>30, <2>1, <1>inv, <1>over, <1>tok, <1>old DEF ArmedInv, Open, Block, AbortLocs, TryAgain,
         Found, Poppable, Return, tokens, sender
<1>31. ASSUME TryAgainHead PROVE ArmedInv'
  <2>1. UNCHANGED <<cnt, toWake, spc, channels>>
    BY <1>31 DEF TryAgainHead, Return, packet, sender
  <2>2. QED
    BY <1>31, <2>1, <1>inv, <1>over, <1>tok, <1>old DEF ArmedInv, Open, Block, AbortLocs,
         TryAgainHead, Return, IsEmpty, Disconnected, packet, tokens, sender
<1>32. ASSUME Decrement PROVE ArmedInv'
  BY <1>32, <1>inv, <1>over, <1>tok, <1>old, ReceiverAsserts DEF ArmedInv, Open, Block, AbortLocs,
       Decrement, NoToken, tokens, sender
<1>33. ASSUME DecrementSub PROVE ArmedInv'
  <2>1. rpc = "sub" /\ UNCHANGED <<spc, channels, aborted, toWake>>
    BY <1>33 DEF DecrementSub, sender
  <2>2. CASE Over
    BY <2>1, <2>2, <1>over DEF ArmedInv, Open
  <2>3. CASE ~Over
    <3>1. Open
      BY <2>1, <2>3 DEF Open
    <3>2. cnt' = cnt - (1 + local) /\ cnt # DISCONNECTED
      BY <1>33, <2>1, <3>1, <1>facts DEF DecrementSub
    <3>3. cnt >= 0
      BY <2>1, <3>2, ReceiverAsserts
    <3>4. cnt' < 0 => rpc' = "wait"
      BY <1>33, <3>2, <3>3, <1>types DEF DecrementSub
    <3>5. toWake # NoToken /\ \A s \in Senders : spc[s] \notin {"take", "clear"}
      BY <2>1, <1>tok, <1>types DEF ToWakeInv, TakerInv, Block, NoToken
    <3>6. QED
      BY <2>1, <3>4, <3>5 DEF ArmedInv
  <2>4. QED
    BY <2>2, <2>3
<1>34. ASSUME DecrementDisc PROVE ArmedInv'
  <2>1. rpc = "subdisc" /\ UNCHANGED <<spc, channels>>
    BY <1>34 DEF DecrementDisc, sender
  <2>2. Over'
    BY <2>1, <1>over DEF IInv, OverInv, Mid
  <2>3. QED
    BY <2>2 DEF ArmedInv, Open
<1>35. ASSUME DecrementFailed PROVE ArmedInv'
  <2>1. UNCHANGED <<spc, channels, aborted>>
    BY <1>35 DEF DecrementFailed, sender
  <2>2. QED
    BY <1>35, <2>1, <1>inv, <1>over, <1>tok, <1>types, <1>facts, <1>steals, ReceiverAsserts DEF
         ArmedInv, Open, Block, AbortLocs, OverInv, Mid, DecrementFailed, Free, NoToken, sender
<1>36. ASSUME WaitDone PROVE ArmedInv'
  <2>1. UNCHANGED <<cnt, toWake, spc, channels>>
    BY <1>36 DEF WaitDone, packet, sender
  <2>2. QED
    BY <1>36, <2>1, <1>inv, <1>over, <1>tok, <1>old DEF ArmedInv, Open, Block, AbortLocs, WaitDone,
         NoToken, packet, tokens, sender
<1>37. ASSUME WaitAborted PROVE ArmedInv'
  <2>1. UNCHANGED <<cnt, toWake, spc, channels>>
    BY <1>37 DEF WaitAborted, packet, sender
  <2>2. QED
    BY <1>37, <2>1, <1>inv, <1>over, <1>tok, <1>old DEF ArmedInv, Open, Block, AbortLocs,
         WaitAborted, packet, tokens, sender
<1>38. ASSUME CanRecv PROVE ArmedInv'
  <2>1. UNCHANGED <<cnt, toWake, spc, channels>>
    BY <1>38 DEF CanRecv, Return, packet, sender
  <2>2. QED
    BY <1>38, <2>1, <1>inv, <1>over, <1>tok, <1>old DEF ArmedInv, Open, Block, AbortLocs, CanRecv,
         Return, packet, tokens, sender
<1>39. ASSUME StartCancelBump PROVE ArmedInv'
  <2>1. rpc = "cancelbump" /\ UNCHANGED <<spc, channels>>
    BY <1>39 DEF StartCancelBump, sender
  <2>2. CASE Over
    BY <2>1, <2>2, <1>over DEF ArmedInv, Open
  <2>3. CASE ~Over
    <3>1. Open
      BY <2>1, <2>3 DEF Open
    <3>2. cnt' = cnt + 1 /\ cnt # DISCONNECTED
      BY <1>39, <3>1, <1>facts DEF StartCancelBump
    <3>3. cnt >= 0
      BY <2>1, <3>2, ReceiverAsserts
    <3>4. QED
      BY <3>2, <3>3, <1>types DEF ArmedInv
  <2>4. QED
    BY <2>2, <2>3
<1>40. ASSUME AbortLoad PROVE ArmedInv'
  <2>1. UNCHANGED <<cnt, toWake, spc, channels>>
    BY <1>40 DEF AbortLoad, packet, sender
  <2>2. QED
    BY <1>40, <2>1, <1>inv, <1>over, <1>tok, <1>old DEF ArmedInv, Open, Block, AbortLocs, AbortLoad,
         UpgradeDone, packet, tokens, sender
<1>41. ASSUME AbortBump PROVE ArmedInv'
  <2>1. rpc = "abortbump" /\ UNCHANGED <<spc, channels>>
    BY <1>41 DEF AbortBump, sender
  <2>2. CASE Over
    BY <2>1, <2>2, <1>over DEF ArmedInv, Open
  <2>3. CASE ~Over
    <3>1. Open
      BY <2>1, <2>3 DEF Open
    <3>2. cnt' = cnt + local + 1 /\ cnt # DISCONNECTED
      BY <1>41, <2>1, <3>1, <1>facts DEF AbortBump
    <3>3. cnt + local + 1 >= 0
      BY <2>1, <3>2, ReceiverAsserts
    <3>4. QED
      BY <3>2, <3>3, <1>types DEF ArmedInv
  <2>4. QED
    BY <2>2, <2>3
<1>42. ASSUME AbortDisc PROVE ArmedInv'
  <2>1. rpc = "abortdisc" /\ UNCHANGED <<spc, channels>>
    BY <1>42 DEF AbortDisc, sender
  <2>2. Over'
    BY <2>1, <1>over DEF IInv, OverInv, Mid
  <2>3. QED
    BY <2>2 DEF ArmedInv, Open
<1>43. ASSUME AbortFinish PROVE ArmedInv'
  <2>1. UNCHANGED <<spc, channels, aborted>>
    BY <1>43 DEF AbortFinish, AbortReturn, Return, sender
  <2>2. QED
    BY <1>43, <2>1, <1>inv, <1>over, <1>tok, <1>types, <1>facts, <1>steals, ReceiverAsserts DEF
         ArmedInv, Open, Block, AbortLocs, OverInv, Mid, AbortFinish, Free, AbortReturn, NoToken,
         Return, sender
<1>44. ASSUME DropPort PROVE ArmedInv'
  <2>1. UNCHANGED <<cnt, toWake, spc, channels>>
    BY <1>44 DEF DropPort, sender
  <2>2. QED
    BY <1>44, <2>1, <1>inv, <1>over, <1>tok, <1>old DEF ArmedInv, Open, Block, AbortLocs, DropPort,
         tokens, sender
<1>45. ASSUME DropCas PROVE ArmedInv'
  <2>1. UNCHANGED <<spc, channels, aborted>>
    BY <1>45 DEF DropCas, sender
  <2>2. QED
    BY <1>45, <2>1, <1>inv, <1>over, <1>tok, <1>types, <1>facts, <1>steals, ReceiverAsserts DEF
         ArmedInv, Open, Block, AbortLocs, OverInv, Mid, DropCas, tokens, sender
<1>46. ASSUME DropDrain PROVE ArmedInv'
  <2>1. UNCHANGED <<cnt, toWake, spc, channels>>
    BY <1>46 DEF DropDrain, sender
  <2>2. QED
    BY <1>46, <2>1, <1>inv, <1>over, <1>tok, <1>old DEF ArmedInv, Open, Block, AbortLocs, DropDrain,
         Poppable, Destroy, tokens, sender
<1>47. CASE Terminated
  BY <1>47, <1>same DEF Terminated, vars, packet, tokens, sender, receiver, control
<1>48. QED
  BY <1>1, <1>2, <1>3, <1>4, <1>5, <1>6, <1>7, <1>8, <1>9, <1>10, <1>11, <1>12, <1>13, <1>14, <1>15,
       <1>16, <1>17, <1>18, <1>19, <1>20, <1>21, <1>22, <1>23, <1>24, <1>25, <1>26, <1>27, <1>28,
       <1>29, <1>30, <1>31, <1>32, <1>33, <1>34, <1>35, <1>36, <1>37, <1>38, <1>39, <1>40, <1>41,
       <1>42, <1>43, <1>44, <1>45, <1>46, <1>47 DEF Next, SenderStep, ReceiverStep

-----------------------------------------------------------------------------
(* The birth of the packet                                                 *)

\* While the blocker is handed over no other sender moves; afterwards it stays
\* handed over.
LEMMA Born ==
  ASSUME IInv, NEW s \in Senders, SenderStep(s) \/ SendCall(s) \/ CloneChan(s) \/ DropChan(s),
         spc[s] \notin Birth
  PROVE  Inherited /\ Inherited'
<1>1. spc[s] \notin {"gone", "unborn"}
  <2>1. CASE Inherit(s)
    BY <2>1, Moves DEF Move
  <2>2. CASE InheritCnt(s)
    BY <2>2, Moves DEF Move
  <2>3. CASE InheritSteals(s)
    BY <2>3, Moves DEF Move
  <2>4. CASE InheritUnlock(s)
    BY <2>4 DEF InheritUnlock
  <2>5. CASE SendCall(s)
    BY <2>5, Moves DEF Move
  <2>6. CASE CloneChan(s)
    BY <2>6 DEF CloneChan
  <2>7. CASE DropChan(s)
    BY <2>7, Moves DEF Move
  <2>8. CASE DropSwap(s)
    BY <2>8, Moves DEF Move
  <2>9. CASE SendCheck(s)
    BY <2>9, Moves DEF Move
  <2>10. CASE PushSwap(s)
    BY <2>10, Moves DEF Move
  <2>11. CASE PushLink(s)
    BY <2>11, Moves DEF Move
  <2>12. CASE SendAdd(s)
    BY <2>12, Moves DEF Move
  <2>13. CASE TakeLoad(s)
    BY <2>13, Moves DEF Move
  <2>14. CASE TakeClear(s)
    BY <2>14, Moves DEF Move
  <2>15. CASE Signal(s)
    BY <2>15, Moves DEF Move
  <2>16. CASE SendDisconnected(s)
    BY <2>16, Moves DEF Move
  <2>17. CASE DrainEnter(s)
    BY <2>17, Moves DEF Move
  <2>18. CASE DrainPop(s)
    BY <2>18, Moves DEF Move
  <2>19. CASE DrainHead(s)
    BY <2>19, Moves DEF Move
  <2>20. CASE DrainLeave(s)
    BY <2>20, Moves DEF Move
  <2>21. QED
    BY <2>1, <2>2, <2>3, <2>4, <2>5, <2>6, <2>7, <2>8, <2>9, <2>10, <2>11, <2>12, <2>13, <2>14,
         <2>15, <2>16, <2>17, <2>18, <2>19, <2>20 DEF SenderStep
<1>2. Inherited
  <2>1. SUFFICES ASSUME ~Inherited PROVE FALSE
    OBVIOUS
  <2>2. s # Creator /\ locked
    BY <2>1 DEF Inherited, IInv, LockInv, Birth
  <2>3. QED
    BY <2>2, <1>1 DEF IInv, LockInv
<1>3. QED
  BY <1>2, SenderInherited

\* What the receiver can be doing while the blocker is handed over.
LEMMA Unborn ==
  ASSUME IInv, ~Inherited
  PROVE  /\ rpc \in {"old", "abort", "try", "tryhead", "look", "decr", "sub", "wait", "panic_to_wake"}
         /\ queue = <<>> /\ locked /\ cnt \in {0, -1} /\ cnt # DISCONNECTED /\ steals = 0 /\ ~final
         /\ rpc \in {"old", "wait"} => rtok \notin woken
         /\ rpc = "sub" => cnt = 0 /\ local = 0 /\ Wrap(cnt - (1 + local)) = -1
<1>inv. BirthInv /\ LockInv /\ FreedInv /\ OrderInv /\ HolderInv
  BY DEF IInv
<1>1. spc[Creator] \in Birth /\ locked /\ accepted = 0 /\ Creator \in Senders
  BY <1>inv, SharedAssumption DEF Inherited, LockInv
<1>2. queue = <<>>
  <2>1. queue \in Seq(Nat) /\ Len(queue) <= 0
    BY <1>1, <1>inv DEF OrderInv, IInv, TypeInv, QueueTypes
  <2>2. QED
    BY <2>1
<1>3. /\ rpc \in {"old", "abort", "try", "tryhead", "look", "decr", "sub", "wait", "panic_to_wake"}
      /\ cnt \in {0, -1} /\ steals = 0 /\ ~final
      /\ rpc = "sub" => cnt = 0 /\ local = 0
  BY <1>1, <1>inv DEF BirthInv, Birth
<1>4. cnt # DISCONNECTED /\ Wrap(-1) = -1
  <2>1. -1 \in Int /\ DISCONNECTED <= -1 /\ -1 <= ISIZE_MAX
    BY Numbers
  <2>2. QED
    BY <1>3, <2>1, Numbers, NoWrap
<1>5. rpc \in {"old", "wait"} => rtok \notin woken
  <2>1. CASE spc[Creator] = "inherit"
    <3>1. /\ stok[Creator] = 1
          /\ rpc = "old" => rtok = 1
          /\ rpc = "wait" => toWake = rtok /\ toWake # NoToken
      <4>1. rpc = "old" => rtok = 1
        BY DEF IInv, ModeInv
      <4>2. QED
        BY <2>1, <1>inv, <4>1 DEF BirthInv
    <3>2. freed[1] = 0
      BY <3>1, <1>1, <1>inv DEF FreedInv, NoToken
    <3>3. QED
      BY <3>1, <3>2, <1>inv DEF FreedInv
  <2>2. CASE spc[Creator] \in {"inheritcnt", "inheritsteals"}
    <3>1. toWake = 1 /\ rpc # "wait" /\ (rpc = "old" => rtok = 1)
      BY <2>2, <1>inv DEF BirthInv
    <3>2. QED
      BY <3>1, <1>inv DEF FreedInv, NoToken
  <2>3. QED
    BY <1>1, <2>1, <2>2 DEF Birth
<1>6. rpc = "sub" => Wrap(cnt - (1 + local)) = -1
  BY <1>3, <1>4
<1>7. QED
  BY <1>1, <1>2, <1>3, <1>4, <1>5, <1>6

\* The blocker is handed over undisturbed, or the deadline of its wait has passed.
LEMMA BirthInvStep ==
  ASSUME IInv, Next
  PROVE  BirthInv'
<1>inv. BirthInv
  BY DEF IInv
<1>types. /\ spc \in [Senders -> SenderLocs] /\ stok \in [Senders -> Nat] /\ Creator \in Senders
          /\ cnt \in Int /\ local \in Int /\ toWake \in Nat /\ rtok \in Nat /\ blocks \in Nat
  BY SharedAssumption DEF IInv, TypeInv, LocTypes, TokenTypes, CountTypes
<1>tok. /\ rpc = "old" => aborted = "none" /\ blocks = 1 /\ rtok = 1 /\ ~final /\ rmode # "try"
        /\ aborted = "upgrade" => (rpc \in {"wait", "abort"} => rtok >= 2)
  BY DEF IInv, ModeInv, ToWakeInv, Block, AbortLocs
<1>done. ASSUME Inherited' PROVE BirthInv'
  BY <1>done DEF BirthInv, Inherited, Birth
<1>still. ASSUME Inherited, spc' = spc PROVE BirthInv'
  BY <1>still, <1>done DEF Inherited
<1>find. ASSUME ~Inherited
         PROVE  /\ rpc \in {"old", "abort", "try", "tryhead", "look", "decr", "sub", "wait", "panic_to_wake"}
                /\ queue = <<>> /\ locked /\ cnt \in {0, -1} /\ cnt # DISCONNECTED /\ steals = 0 /\ ~final
                /\ rpc \in {"old", "wait"} => rtok \notin woken
                /\ rpc = "sub" => cnt = 0 /\ local = 0 /\ Wrap(cnt - (1 + local)) = -1
  BY <1>find, Unborn
<1>same. ASSUME UNCHANGED <<spc, stok, toWake, cnt, rpc, rtok, aborted, local, steals, final, rmode, blocks>> PROVE BirthInv'
  BY <1>same, <1>inv DEF BirthInv, Inherited, Birth
<1>1. ASSUME NEW s \in Senders, Inherit(s) PROVE BirthInv'
  <2>1. spc[s] = "inherit" /\ s = Creator /\ UNCHANGED <<cnt, rpc, rtok, aborted, local, steals, final, rmode, blocks>>
    BY <1>1 DEF Inherit, IInv, LockInv, Birth, receiver, control
  <2>2. CASE spc' = [spc EXCEPT ![s] = "panic_inherit"]
    <3>1. spc'[Creator] = "panic_inherit"
      BY <2>1, <2>2, <1>types
    <3>2. QED
      BY <3>1, <1>done DEF Inherited, Birth
  <2>3. CASE /\ cnt = 0 /\ toWake = NoToken /\ toWake' = stok[s]
             /\ spc' = [spc EXCEPT ![s] = "inheritcnt"]
    <3>1. spc'[Creator] = "inheritcnt" /\ ~Inherited
      BY <2>1, <2>3, <1>types DEF Inherited, Birth
    <3>2. /\ stok[s] = 1 /\ rpc \in {"old", "abort", "try", "tryhead", "look", "decr"}
          /\ rpc \in {"old", "abort"} => rtok = 1
      BY <2>1, <2>3, <1>inv DEF BirthInv
    <3>3. /\ steals = 0 /\ ~final
          /\ rpc \in {"try", "tryhead", "look", "decr"} => rmode = "timeout" /\ aborted = "upgrade" /\ blocks = 1
          /\ rpc = "abort" /\ rtok = 1 => rmode = "select"
      BY <3>1, <1>inv DEF BirthInv
    <3>4. QED
      BY <2>1, <2>3, <3>1, <3>2, <3>3 DEF BirthInv
  <2>4. QED
    BY <1>1, <2>2, <2>3 DEF Inherit, At
<1>2. ASSUME NEW s \in Senders, InheritCnt(s) PROVE BirthInv'
  <2>1. /\ spc[Creator] = "inheritcnt" /\ s = Creator /\ cnt' = -1
        /\ UNCHANGED <<toWake, rpc, rtok, aborted, local, steals, final, rmode, blocks>>
    BY <1>2 DEF InheritCnt, IInv, LockInv, Birth, receiver, control
  <2>2. spc'[Creator] = "inheritsteals"
    BY <1>2, <2>1, <1>types DEF InheritCnt, At
  <2>3. ~Inherited
    BY <2>1 DEF Inherited, Birth
  <2>4. QED
    BY <2>1, <2>2, <2>3, <1>inv DEF BirthInv
<1>3. ASSUME NEW s \in Senders, InheritSteals(s) PROVE BirthInv'
  <2>1. s = Creator
    BY <1>3 DEF InheritSteals, IInv, LockInv, Birth
  <2>2. spc'[Creator] = "unlock"
    BY <1>3, <2>1, <1>types DEF InheritSteals, At
  <2>3. QED
    BY <2>2, <1>done DEF Inherited, Birth
<1>4. ASSUME NEW s \in Senders, InheritUnlock(s) PROVE BirthInv'
  <2>1. spc[s] \notin Birth
    BY <1>4 DEF InheritUnlock, Birth
  <2>2. QED
    BY <1>4, <2>1, <1>done, Born DEF SenderStep
<1>5. ASSUME NEW s \in Senders, SendCall(s) PROVE BirthInv'
  <2>1. spc[s] \notin Birth
    BY <1>5 DEF SendCall, Birth
  <2>2. QED
    BY <1>5, <2>1, <1>done, Born DEF SenderStep
<1>6. ASSUME NEW s \in Senders, CloneChan(s) PROVE BirthInv'
  <2>1. spc[s] \notin Birth
    BY <1>6 DEF CloneChan, Birth
  <2>2. QED
    BY <1>6, <2>1, <1>done, Born DEF SenderStep
<1>7. ASSUME NEW s \in Senders, DropChan(s) PROVE BirthInv'
  <2>1. spc[s] \notin Birth
    BY <1>7 DEF DropChan, Birth
  <2>2. QED
    BY <1>7, <2>1, <1>done, Born DEF SenderStep
<1>8. ASSUME NEW s \in Senders, DropSwap(s) PROVE BirthInv'
  <2>1. spc[s] \notin Birth
    BY <1>8 DEF DropSwap, Birth
  <2>2. QED
    BY <1>8, <2>1, <1>done, Born DEF SenderStep
<1>9. ASSUME NEW s \in Senders, SendCheck(s) PROVE BirthInv'
  <2>1. spc[s] \notin Birth
    BY <1>9 DEF SendCheck, Birth
  <2>2. QED
    BY <1>9, <2>1, <1>done, Born DEF SenderStep
<1>10. ASSUME NEW s \in Senders, PushSwap(s) PROVE BirthInv'
  <2>1. spc[s] \notin Birth
    BY <1>10 DEF PushSwap, Birth
  <2>2. QED
    BY <1>10, <2>1, <1>done, Born DEF SenderStep
<1>11. ASSUME NEW s \in Senders, PushLink(s) PROVE BirthInv'
  <2>1. spc[s] \notin Birth
    BY <1>11 DEF PushLink, Birth
  <2>2. QED
    BY <1>11, <2>1, <1>done, Born DEF SenderStep
<1>12. ASSUME NEW s \in Senders, SendAdd(s) PROVE BirthInv'
  <2>1. spc[s] \notin Birth
    BY <1>12 DEF SendAdd, Birth
  <2>2. QED
    BY <1>12, <2>1, <1>done, Born DEF SenderStep
<1>13. ASSUME NEW s \in Senders, TakeLoad(s) PROVE BirthInv'
  <2>1. spc[s] \notin Birth
    BY <1>13 DEF TakeLoad, Birth
  <2>2. QED
    BY <1>13, <2>1, <1>done, Born DEF SenderStep
<1>14. ASSUME NEW s \in Senders, TakeClear(s) PROVE BirthInv'
  <2>1. spc[s] \notin Birth
    BY <1>14 DEF TakeClear, Birth
  <2>2. QED
    BY <1>14, <2>1, <1>done, Born DEF SenderStep
<1>15. ASSUME NEW s \in Senders, Signal(s) PROVE BirthInv'
  <2>1. spc[s] \notin Birth
    BY <1>15 DEF Signal, Birth
  <2>2. QED
    BY <1>15, <2>1, <1>done, Born DEF SenderStep
<1>16. ASSUME NEW s \in Senders, SendDisconnected(s) PROVE BirthInv'
  <2>1. spc[s] \notin Birth
    BY <1>16 DEF SendDisconnected, Birth
  <2>2. QED
    BY <1>16, <2>1, <1>done, Born DEF SenderStep
<1>17. ASSUME NEW s \in Senders, DrainEnter(s) PROVE BirthInv'
  <2>1. spc[s] \notin Birth
    BY <1>17 DEF DrainEnter, Birth
  <2>2. QED
    BY <1>17, <2>1, <1>done, Born DEF SenderStep
<1>18. ASSUME NEW s \in Senders, DrainPop(s) PROVE BirthInv'
  <2>1. spc[s] \notin Birth
    BY <1>18 DEF DrainPop, Birth
  <2>2. QED
    BY <1>18, <2>1, <1>done, Born DEF SenderStep
<1>19. ASSUME NEW s \in Senders, DrainHead(s) PROVE BirthInv'
  <2>1. spc[s] \notin Birth
    BY <1>19 DEF DrainHead, Birth
  <2>2. QED
    BY <1>19, <2>1, <1>done, Born DEF SenderStep
<1>20. ASSUME NEW s \in Senders, DrainLeave(s) PROVE BirthInv'
  <2>1. spc[s] \notin Birth
    BY <1>20 DEF DrainLeave, Birth
  <2>2. QED
    BY <1>20, <2>1, <1>done, Born DEF SenderStep
<1>21. ASSUME OldWoken PROVE BirthInv'
  <2>1. spc' = spc
    BY <1>21 DEF OldWoken, sender
  <2>2. SUFFICES ASSUME ~Inherited PROVE BirthInv'
    BY <2>1, <1>still
  <2>3. QED
    BY <1>21, <2>1, <2>2, <1>find, <1>inv, <1>types, <1>tok DEF BirthInv, Inherited, Birth, OldWoken,
         NoToken, packet, tokens, sender
<1>22. ASSUME OldAborted PROVE BirthInv'
  <2>1. spc' = spc
    BY <1>22 DEF OldAborted, sender
  <2>2. SUFFICES ASSUME ~Inherited PROVE BirthInv'
    BY <2>1, <1>still
  <2>3. QED
    BY <1>22, <2>1, <2>2, <1>find, <1>inv, <1>types, <1>tok DEF BirthInv, Inherited, Birth,
         OldAborted, NoToken, packet, tokens, sender
<1>23. ASSUME RecvCall PROVE BirthInv'
  <2>1. spc' = spc
    BY <1>23 DEF RecvCall, sender
  <2>2. SUFFICES ASSUME ~Inherited PROVE BirthInv'
    BY <2>1, <1>still
  <2>3. QED
    BY <1>23, <2>1, <2>2, <1>find, <1>inv, <1>types, <1>tok DEF BirthInv, Inherited, Birth, RecvCall,
         packet, tokens, sender
<1>24. ASSUME TryPop PROVE BirthInv'
  <2>1. spc' = spc
    BY <1>24 DEF TryPop, sender
  <2>2. SUFFICES ASSUME ~Inherited PROVE BirthInv'
    BY <2>1, <1>still
  <2>3. QED
    BY <1>24, <2>1, <2>2, <1>find, <1>inv, <1>types, <1>tok DEF BirthInv, Inherited, Birth, TryPop,
         Found, FoldDue, Poppable, Return, tokens, sender
<1>25. ASSUME TryHead PROVE BirthInv'
  <2>1. spc' = spc
    BY <1>25 DEF TryHead, sender
  <2>2. SUFFICES ASSUME ~Inherited PROVE BirthInv'
    BY <2>1, <1>still
  <2>3. QED
    BY <1>25, <2>1, <2>2, <1>find, <1>inv, <1>types, <1>tok DEF BirthInv, Inherited, Birth, TryHead,
         IsEmpty, packet, tokens, sender
<1>26. ASSUME FoldSwap PROVE BirthInv'
  <2>1. spc' = spc
    BY <1>26 DEF FoldSwap, sender
  <2>2. SUFFICES ASSUME ~Inherited PROVE BirthInv'
    BY <2>1, <1>still
  <2>3. QED
    BY <1>26, <2>1, <2>2, <1>find, <1>inv, <1>types, <1>tok DEF BirthInv, Inherited, Birth, FoldSwap,
         Foldable, AddBack, tokens, sender
<1>27. ASSUME Fold PROVE BirthInv'
  <2>1. spc' = spc
    BY <1>27 DEF Fold, sender
  <2>2. SUFFICES ASSUME ~Inherited PROVE BirthInv'
    BY <2>1, <1>still
  <2>3. QED
    BY <1>27, <2>1, <2>2, <1>find, <1>inv, <1>types, <1>tok DEF BirthInv, Inherited, Birth, Fold,
         tokens, sender
<1>28. ASSUME Folded PROVE BirthInv'
  <2>1. spc' = spc
    BY <1>28 DEF Folded, sender
  <2>2. SUFFICES ASSUME ~Inherited PROVE BirthInv'
    BY <2>1, <1>still
  <2>3. QED
    BY <1>28, <2>1, <2>2, <1>find, <1>inv, <1>types, <1>tok DEF BirthInv, Inherited, Birth, Folded,
         Found, Return, tokens, sender
<1>29. ASSUME TryLook PROVE BirthInv'
  <2>1. spc' = spc
    BY <1>29 DEF TryLook, sender
  <2>2. SUFFICES ASSUME ~Inherited PROVE BirthInv'
    BY <2>1, <1>still
  <2>3. QED
    BY <1>29, <2>1, <2>2, <1>find, <1>inv, <1>types, <1>tok DEF BirthInv, Inherited, Birth, TryLook,
         Return, SawHangup, packet, tokens, sender
<1>30. ASSUME TryAgain PROVE BirthInv'
  <2>1. spc' = spc
    BY <1>30 DEF TryAgain, sender
  <2>2. SUFFICES ASSUME ~Inherited PROVE BirthInv'
    BY <2>1, <1>still
  <2>3. QED
    BY <1>30, <2>1, <2>2, <1>find, <1>inv, <1>types, <1>tok DEF BirthInv, Inherited, Birth, TryAgain,
         Found, Poppable, Return, tokens, sender
<1>31. ASSUME TryAgainHead PROVE BirthInv'
  <2>1. spc' = spc
    BY <1>31 DEF TryAgainHead, sender
  <2>2. SUFFICES ASSUME ~Inherited PROVE BirthInv'
    BY <2>1, <1>still
  <2>3. QED
    BY <1>31, <2>1, <2>2, <1>find, <1>inv, <1>types, <1>tok DEF BirthInv, Inherited, Birth,
         TryAgainHead, Return, IsEmpty, Disconnected, packet, tokens, sender
<1>32. ASSUME Decrement PROVE BirthInv'
  <2>1. spc' = spc
    BY <1>32 DEF Decrement, sender
  <2>2. SUFFICES ASSUME ~Inherited PROVE BirthInv'
    BY <2>1, <1>still
  <2>3. QED
    BY <1>32, <2>1, <2>2, <1>find, <1>inv, <1>types, <1>tok DEF BirthInv, Inherited, Birth,
         Decrement, NoToken, tokens, sender
<1>33. ASSUME DecrementSub PROVE BirthInv'
  <2>1. spc' = spc
    BY <1>33 DEF DecrementSub, sender
  <2>2. SUFFICES ASSUME ~Inherited PROVE BirthInv'
    BY <2>1, <1>still
  <2>3. QED
    BY <1>33, <2>1, <2>2, <1>find, <1>inv, <1>types, <1>tok DEF BirthInv, Inherited, Birth,
         DecrementSub, tokens, sender
<1>34. ASSUME DecrementDisc PROVE BirthInv'
  <2>1. spc' = spc
    BY <1>34 DEF DecrementDisc, sender
  <2>2. SUFFICES ASSUME ~Inherited PROVE BirthInv'
    BY <2>1, <1>still
  <2>3. QED
    BY <1>34, <2>1, <2>2, <1>find, <1>inv, <1>types, <1>tok DEF BirthInv, Inherited, Birth,
         DecrementDisc, tokens, sender
<1>35. ASSUME DecrementFailed PROVE BirthInv'
  <2>1. spc' = spc
    BY <1>35 DEF DecrementFailed, sender
  <2>2. SUFFICES ASSUME ~Inherited PROVE BirthInv'
    BY <2>1, <1>still
  <2>3. QED
    BY <1>35, <2>1, <2>2, <1>find, <1>inv, <1>types, <1>tok DEF BirthInv, Inherited, Birth,
         DecrementFailed, Free, NoToken, sender
<1>36. ASSUME WaitDone PROVE BirthInv'
  <2>1. spc' = spc
    BY <1>36 DEF WaitDone, sender
  <2>2. SUFFICES ASSUME ~Inherited PROVE BirthInv'
    BY <2>1, <1>still
  <2>3. QED
    BY <1>36, <2>1, <2>2, <1>find, <1>inv, <1>types, <1>tok DEF BirthInv, Inherited, Birth, WaitDone,
         NoToken, packet, tokens, sender
<1>37. ASSUME WaitAborted PROVE BirthInv'
  <2>1. spc' = spc
    BY <1>37 DEF WaitAborted, sender
  <2>2. SUFFICES ASSUME ~Inherited PROVE BirthInv'
    BY <2>1, <1>still
  <2>3. QED
    BY <1>37, <2>1, <2>2, <1>find, <1>inv, <1>types, <1>tok DEF BirthInv, Inherited, Birth,
         WaitAborted, packet, tokens, sender
<1>38. ASSUME CanRecv PROVE BirthInv'
  <2>1. spc' = spc
    BY <1>38 DEF CanRecv, sender
  <2>2. SUFFICES ASSUME ~Inherited PROVE BirthInv'
    BY <2>1, <1>still
  <2>3. QED
    BY <1>38, <2>1, <2>2, <1>find, <1>inv, <1>types, <1>tok DEF BirthInv, Inherited, Birth, CanRecv,
         Return, packet, tokens, sender
<1>39. ASSUME StartCancelBump PROVE BirthInv'
  <2>1. spc' = spc
    BY <1>39 DEF StartCancelBump, sender
  <2>2. SUFFICES ASSUME ~Inherited PROVE BirthInv'
    BY <2>1, <1>still
  <2>3. QED
    BY <1>39, <2>1, <2>2, <1>find, <1>inv, <1>types, <1>tok DEF BirthInv, Inherited, Birth,
         StartCancelBump, Return, tokens, sender
<1>40. ASSUME AbortLoad PROVE BirthInv'
  <2>1. spc' = spc
    BY <1>40 DEF AbortLoad, sender
  <2>2. SUFFICES ASSUME ~Inherited PROVE BirthInv'
    BY <2>1, <1>still
  <2>3. QED
    BY <1>40, <2>1, <2>2, <1>find, <1>inv, <1>types, <1>tok DEF BirthInv, Inherited, Birth,
         AbortLoad, UpgradeDone, packet, tokens, sender
<1>41. ASSUME AbortBump PROVE BirthInv'
  <2>1. spc' = spc
    BY <1>41 DEF AbortBump, sender
  <2>2. SUFFICES ASSUME ~Inherited PROVE BirthInv'
    BY <2>1, <1>still
  <2>3. QED
    BY <1>41, <2>1, <2>2, <1>find, <1>inv, <1>types, <1>tok DEF BirthInv, Inherited, Birth,
         AbortBump, tokens, sender
<1>42. ASSUME AbortDisc PROVE BirthInv'
  <2>1. spc' = spc
    BY <1>42 DEF AbortDisc, sender
  <2>2. SUFFICES ASSUME ~Inherited PROVE BirthInv'
    BY <2>1, <1>still
  <2>3. QED
    BY <1>42, <2>1, <2>2, <1>find, <1>inv, <1>types, <1>tok DEF BirthInv, Inherited, Birth,
         AbortDisc, AbortReturn, NoToken, Return, tokens, sender
<1>43. ASSUME AbortFinish PROVE BirthInv'
  <2>1. spc' = spc
    BY <1>43 DEF AbortFinish, sender
  <2>2. SUFFICES ASSUME ~Inherited PROVE BirthInv'
    BY <2>1, <1>still
  <2>3. QED
    BY <1>43, <2>1, <2>2, <1>find, <1>inv, <1>types, <1>tok DEF BirthInv, Inherited, Birth,
         AbortFinish, Free, AbortReturn, NoToken, Return, sender
<1>44. ASSUME DropPort PROVE BirthInv'
  <2>1. spc' = spc
    BY <1>44 DEF DropPort, sender
  <2>2. SUFFICES ASSUME ~Inherited PROVE BirthInv'
    BY <2>1, <1>still
  <2>3. QED
    BY <1>44, <2>1, <2>2, <1>find, <1>inv, <1>types, <1>tok DEF BirthInv, Inherited, Birth, DropPort,
         tokens, sender
<1>45. ASSUME DropCas PROVE BirthInv'
  <2>1. spc' = spc
    BY <1>45 DEF DropCas, sender
  <2>2. SUFFICES ASSUME ~Inherited PROVE BirthInv'
    BY <2>1, <1>still
  <2>3. QED
    BY <1>45, <2>1, <2>2, <1>find, <1>inv, <1>types, <1>tok DEF BirthInv, Inherited, Birth, DropCas,
         tokens, sender
<1>46. ASSUME DropDrain PROVE BirthInv'
  <2>1. spc' = spc
    BY <1>46 DEF DropDrain, sender
  <2>2. SUFFICES ASSUME ~Inherited PROVE BirthInv'
    BY <2>1, <1>still
  <2>3. QED
    BY <1>46, <2>1, <2>2, <1>find, <1>inv, <1>types, <1>tok DEF BirthInv, Inherited, Birth,
         DropDrain, Poppable, Destroy, tokens, sender
<1>47. CASE Terminated
  BY <1>47, <1>same DEF Terminated, vars, packet, tokens, sender, receiver, control
<1>48. QED
  BY <1>1, <1>2, <1>3, <1>4, <1>5, <1>6, <1>7, <1>8, <1>9, <1>10, <1>11, <1>12, <1>13, <1>14, <1>15,
       <1>16, <1>17, <1>18, <1>19, <1>20, <1>21, <1>22, <1>23, <1>24, <1>25, <1>26, <1>27, <1>28,
       <1>29, <1>30, <1>31, <1>32, <1>33, <1>34, <1>35, <1>36, <1>37, <1>38, <1>39, <1>40, <1>41,
       <1>42, <1>43, <1>44, <1>45, <1>46, <1>47 DEF Next, SenderStep, ReceiverStep

-----------------------------------------------------------------------------
(* The pushes that are under way                                           *)

\* Only the two halves of a send change how many pushes are not counted yet.
LEMMA UncountedSteps ==
  ASSUME IInv, NEW s \in Senders, SenderStep(s) \/ SendCall(s) \/ CloneChan(s) \/ DropChan(s)
  PROVE  /\ Uncounted \in Nat /\ Uncounted' \in Nat
         /\ PushSwap(s) => Uncounted' = Uncounted + 1
         /\ SendAdd(s) => Uncounted' = Uncounted - 1
         /\ ~PushSwap(s) /\ ~SendAdd(s) => Uncounted' = Uncounted
<1>types. spc \in [Senders -> SenderLocs]
  BY DEF IInv, TypeInv, LocTypes
<1>1. Uncounted = Count(spc, {"link", "add"}) /\ Uncounted' = Count(spc', {"link", "add"})
  BY DEF Uncounted, Count
<1>2. Uncounted \in Nat /\ Uncounted' \in Nat
  BY <1>1, CountBounds
<1>3. ASSUME spc' = [spc EXCEPT ![s] = spc'[s]]
      PROVE  Uncounted' = Uncounted - (IF spc[s] \in {"link", "add"} THEN 1 ELSE 0)
                                    + (IF spc'[s] \in {"link", "add"} THEN 1 ELSE 0)
  BY <1>1, <1>3, MoveCounts
<1>4. Inherit(s) => Uncounted' = Uncounted
  BY <1>2, <1>3, Moves DEF Move
<1>5. InheritCnt(s) => Uncounted' = Uncounted
  BY <1>2, <1>3, Moves DEF Move
<1>6. InheritSteals(s) => Uncounted' = Uncounted
  BY <1>2, <1>3, Moves DEF Move
<1>7. SendCall(s) => Uncounted' = Uncounted
  BY <1>2, <1>3, Moves DEF Move
<1>8. DropChan(s) => Uncounted' = Uncounted
  BY <1>2, <1>3, Moves DEF Move
<1>9. DropSwap(s) => Uncounted' = Uncounted
  BY <1>2, <1>3, Moves DEF Move
<1>10. SendCheck(s) => Uncounted' = Uncounted
  BY <1>2, <1>3, Moves DEF Move
<1>11. PushSwap(s) => Uncounted' = Uncounted + 1
  BY <1>2, <1>3, Moves DEF Move
<1>12. PushLink(s) => Uncounted' = Uncounted
  BY <1>2, <1>3, Moves DEF Move
<1>13. SendAdd(s) => Uncounted' = Uncounted - 1
  BY <1>2, <1>3, Moves DEF Move
<1>14. TakeLoad(s) => Uncounted' = Uncounted
  BY <1>2, <1>3, Moves DEF Move
<1>15. TakeClear(s) => Uncounted' = Uncounted
  BY <1>2, <1>3, Moves DEF Move
<1>16. Signal(s) => Uncounted' = Uncounted
  BY <1>2, <1>3, Moves DEF Move
<1>17. SendDisconnected(s) => Uncounted' = Uncounted
  BY <1>2, <1>3, Moves DEF Move
<1>18. DrainEnter(s) => Uncounted' = Uncounted
  BY <1>2, <1>3, Moves DEF Move
<1>19. DrainPop(s) => Uncounted' = Uncounted
  BY <1>2, <1>3, Moves DEF Move
<1>20. DrainHead(s) => Uncounted' = Uncounted
  BY <1>2, <1>3, Moves DEF Move
<1>21. DrainLeave(s) => Uncounted' = Uncounted
  BY <1>2, <1>3, Moves DEF Move
<1>30. InheritUnlock(s) => Uncounted' = Uncounted
  <2>1. SUFFICES ASSUME InheritUnlock(s) PROVE Uncounted' = Uncounted
    OBVIOUS
  <2>2. /\ spc[s] = "unlock" /\ spc[Child] = "unborn" /\ s # Child
        /\ spc' = [spc EXCEPT ![s] = "idle", ![Child] = "idle"]
    BY <2>1, AtUnlock DEF InheritUnlock
  <2>3. {t \in Senders : spc'[t] \in {"link", "add"}} = {t \in Senders : spc[t] \in {"link", "add"}}
    BY <2>2, <1>types
  <2>4. QED
    BY <2>3 DEF Uncounted
<1>31. CloneChan(s) => Uncounted' = Uncounted
  <2>1. SUFFICES ASSUME CloneChan(s) PROVE Uncounted' = Uncounted
    OBVIOUS
  <2>2. PICK t \in Senders : spc[t] = "gone" /\ spc' = [spc EXCEPT ![t] = "idle"]
    BY <2>1 DEF CloneChan, At
  <2>3. {u \in Senders : spc'[u] \in {"link", "add"}} = {u \in Senders : spc[u] \in {"link", "add"}}
    BY <2>2, <1>types
  <2>4. QED
    BY <2>3 DEF Uncounted
<1>40. QED
  BY <1>2, <1>4, <1>5, <1>6, <1>7, <1>8, <1>9, <1>10, <1>11, <1>12, <1>13, <1>14, <1>15, <1>16,
       <1>17, <1>18, <1>19, <1>20, <1>21, <1>30, <1>31 DEF SenderStep

\* The pushes are bounded by the send calls.
LEMMA SendsInvStep ==
  ASSUME IInv, Next
  PROVE  SendsInv'
<1>inv. SendsInv
  BY DEF IInv
<1>types. /\ spc \in [Senders -> SenderLocs] /\ accepted \in Nat /\ sent \in Nat /\ MaxSends \in Nat
          /\ Uncounted \in Nat /\ HowMany({"check", "checkcnt", "push"}) \in Nat
          /\ HowMany({"disc"}) \in Nat /\ cnt \in Int
  BY Numbers, UncountedIs, CountBounds DEF HowMany, IInv, TypeInv, LocTypes, QueueTypes, CallTypes, CountTypes
<1>same. ASSUME UNCHANGED <<accepted, sent, spc>> PROVE SendsInv'
  BY <1>same, <1>inv DEF SendsInv, HowMany, Uncounted
<1>1. ASSUME NEW s \in Senders, Inherit(s) PROVE SendsInv'
  <2>1. spc' = [spc EXCEPT ![s] = spc'[s]] /\ spc[s] \notin {"check", "checkcnt", "push"} /\ spc'[s] \notin {"check", "checkcnt", "push"}
    BY <1>1, Moves DEF Move
  <2>2. UNCHANGED <<accepted, sent>>
    BY <1>1 DEF Inherit, tokens, receiver, control
  <2>3. Uncounted' = Uncounted
    BY <1>1, UncountedSteps DEF SenderStep, SendCall, PushSwap, SendAdd, Inherit
  <2>4. HowMany({"check", "checkcnt", "push"})' = HowMany({"check", "checkcnt", "push"})
    BY <2>1, MoveCounts DEF HowMany
  <2>5. QED
    BY <2>2, <2>3, <2>4, <1>inv, <1>types DEF SendsInv
<1>2. ASSUME NEW s \in Senders, InheritCnt(s) PROVE SendsInv'
  <2>1. spc' = [spc EXCEPT ![s] = spc'[s]] /\ spc[s] \notin {"check", "checkcnt", "push"} /\ spc'[s] \notin {"check", "checkcnt", "push"}
    BY <1>2, Moves DEF Move
  <2>2. UNCHANGED <<accepted, sent>>
    BY <1>2 DEF InheritCnt, tokens, receiver, control
  <2>3. Uncounted' = Uncounted
    BY <1>2, UncountedSteps DEF SenderStep, SendCall, PushSwap, SendAdd, InheritCnt
  <2>4. HowMany({"check", "checkcnt", "push"})' = HowMany({"check", "checkcnt", "push"})
    BY <2>1, MoveCounts DEF HowMany
  <2>5. QED
    BY <2>2, <2>3, <2>4, <1>inv, <1>types DEF SendsInv
<1>3. ASSUME NEW s \in Senders, InheritSteals(s) PROVE SendsInv'
  <2>1. spc' = [spc EXCEPT ![s] = spc'[s]] /\ spc[s] \notin {"check", "checkcnt", "push"} /\ spc'[s] \notin {"check", "checkcnt", "push"}
    BY <1>3, Moves DEF Move
  <2>2. UNCHANGED <<accepted, sent>>
    BY <1>3 DEF InheritSteals, packet, tokens, control
  <2>3. Uncounted' = Uncounted
    BY <1>3, UncountedSteps DEF SenderStep, SendCall, PushSwap, SendAdd, InheritSteals
  <2>4. HowMany({"check", "checkcnt", "push"})' = HowMany({"check", "checkcnt", "push"})
    BY <2>1, MoveCounts DEF HowMany
  <2>5. QED
    BY <2>2, <2>3, <2>4, <1>inv, <1>types DEF SendsInv
<1>4. ASSUME NEW s \in Senders, InheritUnlock(s) PROVE SendsInv'
  <2>1. UNCHANGED <<accepted, sent>>
    BY <1>4 DEF InheritUnlock, tokens, receiver, control
  <2>2. Uncounted' = Uncounted
    BY <1>4, UncountedSteps DEF SenderStep, InheritUnlock, PushSwap, SendAdd
  <2>3. HowMany({"check", "checkcnt", "push"})' = HowMany({"check", "checkcnt", "push"})
    <3>1. /\ spc[s] = "unlock" /\ spc[Child] = "unborn" /\ s # Child
          /\ spc' = [spc EXCEPT ![s] = "idle", ![Child] = "idle"]
      BY <1>4, AtUnlock DEF InheritUnlock
    <3>2. {t \in Senders : spc'[t] \in {"check", "checkcnt", "push"}} = {t \in Senders : spc[t] \in {"check", "checkcnt", "push"}}
      BY <3>1, <1>types
    <3>3. QED
      BY <3>2 DEF HowMany, Count
  <2>4. QED
    BY <2>1, <2>2, <2>3, <1>inv DEF SendsInv
<1>5. ASSUME NEW s \in Senders, SendCall(s) PROVE SendsInv'
  <2>1. spc' = [spc EXCEPT ![s] = spc'[s]] /\ spc[s] = "idle" /\ spc'[s] = "check"
    BY <1>5, Moves DEF Move
  <2>2. sent' = sent + 1 /\ sent < MaxSends /\ accepted' = accepted
    BY <1>5 DEF SendCall, packet, tokens, receiver, control
  <2>3. Uncounted' = Uncounted
    BY <1>5, UncountedSteps DEF SenderStep, SendCall, PushSwap, SendAdd
  <2>4. HowMany({"check", "checkcnt", "push"})' = HowMany({"check", "checkcnt", "push"}) + 1
    BY <2>1, MoveCounts DEF HowMany
  <2>5. QED
    BY <2>2, <2>3, <2>4, <1>inv, <1>types DEF SendsInv
<1>6. ASSUME NEW s \in Senders, CloneChan(s) PROVE SendsInv'
  <2>1. UNCHANGED <<accepted, sent>>
    BY <1>6 DEF CloneChan, tokens, receiver, control
  <2>2. Uncounted' = Uncounted
    BY <1>6, UncountedSteps DEF SenderStep, CloneChan, PushSwap, SendAdd
  <2>3. HowMany({"check", "checkcnt", "push"})' = HowMany({"check", "checkcnt", "push"})
    <3>1. PICK t \in Senders : spc[t] = "gone" /\ spc' = [spc EXCEPT ![t] = "idle"]
      BY <1>6 DEF CloneChan, At
    <3>2. {u \in Senders : spc'[u] \in {"check", "checkcnt", "push"}} = {u \in Senders : spc[u] \in {"check", "checkcnt", "push"}}
      BY <3>1, <1>types
    <3>3. QED
      BY <3>2 DEF HowMany, Count
  <2>4. QED
    BY <2>1, <2>2, <2>3, <1>inv DEF SendsInv
<1>7. ASSUME NEW s \in Senders, DropChan(s) PROVE SendsInv'
  <2>1. spc' = [spc EXCEPT ![s] = spc'[s]] /\ spc[s] \notin {"check", "checkcnt", "push"} /\ spc'[s] \notin {"check", "checkcnt", "push"}
    BY <1>7, Moves DEF Move
  <2>2. UNCHANGED <<accepted, sent>>
    BY <1>7 DEF DropChan, tokens, receiver, control
  <2>3. Uncounted' = Uncounted
    BY <1>7, UncountedSteps DEF SenderStep, SendCall, PushSwap, SendAdd, DropChan
  <2>4. HowMany({"check", "checkcnt", "push"})' = HowMany({"check", "checkcnt", "push"})
    BY <2>1, MoveCounts DEF HowMany
  <2>5. QED
    BY <2>2, <2>3, <2>4, <1>inv, <1>types DEF SendsInv
<1>8. ASSUME NEW s \in Senders, DropSwap(s) PROVE SendsInv'
  <2>1. spc' = [spc EXCEPT ![s] = spc'[s]] /\ spc[s] \notin {"check", "checkcnt", "push"} /\ spc'[s] \notin {"check", "checkcnt", "push"}
    BY <1>8, Moves DEF Move
  <2>2. UNCHANGED <<accepted, sent>>
    BY <1>8 DEF DropSwap, tokens, receiver, control
  <2>3. Uncounted' = Uncounted
    BY <1>8, UncountedSteps DEF SenderStep, SendCall, PushSwap, SendAdd, DropSwap
  <2>4. HowMany({"check", "checkcnt", "push"})' = HowMany({"check", "checkcnt", "push"})
    BY <2>1, MoveCounts DEF HowMany
  <2>5. QED
    BY <2>2, <2>3, <2>4, <1>inv, <1>types DEF SendsInv
<1>9. ASSUME NEW s \in Senders, SendCheck(s) PROVE SendsInv'
  <2>1. spc' = [spc EXCEPT ![s] = spc'[s]] /\ spc[s] \in {"check", "checkcnt"}
    BY <1>9, Moves DEF Move
  <2>2. UNCHANGED <<accepted, sent>>
    BY <1>9 DEF SendCheck, packet, tokens, receiver, control
  <2>3. Uncounted' = Uncounted
    BY <1>9, UncountedSteps DEF SenderStep, SendCall, PushSwap, SendAdd, SendCheck
  <2>4. HowMany({"check", "checkcnt", "push"})' \in Nat
        /\ HowMany({"check", "checkcnt", "push"})' <= HowMany({"check", "checkcnt", "push"})
    BY <2>1, MoveCounts DEF HowMany
  <2>5. QED
    BY <2>2, <2>3, <2>4, <1>inv, <1>types DEF SendsInv
<1>10. ASSUME NEW s \in Senders, PushSwap(s) PROVE SendsInv'
  <2>1. spc' = [spc EXCEPT ![s] = spc'[s]] /\ spc[s] = "push" /\ spc'[s] = "link"
    BY <1>10, Moves DEF Move
  <2>2. accepted' = accepted + 1 /\ sent' = sent
    BY <1>10 DEF PushSwap, tokens, receiver, control
  <2>3. Uncounted' = Uncounted + 1
    BY <1>10, UncountedSteps DEF SenderStep, SendCall, PushSwap, SendAdd
  <2>4. HowMany({"check", "checkcnt", "push"})' = HowMany({"check", "checkcnt", "push"}) - 1
    BY <2>1, MoveCounts DEF HowMany
  <2>5. QED
    BY <2>2, <2>3, <2>4, <1>inv, <1>types DEF SendsInv
<1>11. ASSUME NEW s \in Senders, PushLink(s) PROVE SendsInv'
  <2>1. spc' = [spc EXCEPT ![s] = spc'[s]] /\ spc[s] \notin {"check", "checkcnt", "push"} /\ spc'[s] \notin {"check", "checkcnt", "push"}
    BY <1>11, Moves DEF Move
  <2>2. UNCHANGED <<accepted, sent>>
    BY <1>11 DEF PushLink, tokens, receiver, control
  <2>3. Uncounted' = Uncounted
    BY <1>11, UncountedSteps DEF SenderStep, SendCall, PushSwap, SendAdd, PushLink
  <2>4. HowMany({"check", "checkcnt", "push"})' = HowMany({"check", "checkcnt", "push"})
    BY <2>1, MoveCounts DEF HowMany
  <2>5. QED
    BY <2>2, <2>3, <2>4, <1>inv, <1>types DEF SendsInv
<1>12. ASSUME NEW s \in Senders, SendAdd(s) PROVE SendsInv'
  <2>1. spc' = [spc EXCEPT ![s] = spc'[s]] /\ spc[s] = "add" /\ spc'[s] \in {"take", "disc", "idle"}
    BY <1>12, Moves DEF Move
  <2>2. UNCHANGED <<accepted, sent>>
    BY <1>12 DEF SendAdd, tokens, receiver, control
  <2>3. Uncounted' = Uncounted - 1
    BY <1>12, UncountedSteps DEF SenderStep, SendCall, PushSwap, SendAdd
  <2>4. HowMany({"check", "checkcnt", "push"})' = HowMany({"check", "checkcnt", "push"})
    BY <2>1, MoveCounts DEF HowMany
  <2>5. QED
    BY <2>2, <2>3, <2>4, <1>inv, <1>types DEF SendsInv
<1>13. ASSUME NEW s \in Senders, TakeLoad(s) PROVE SendsInv'
  <2>1. spc' = [spc EXCEPT ![s] = spc'[s]] /\ spc[s] \notin {"check", "checkcnt", "push"} /\ spc'[s] \notin {"check", "checkcnt", "push"}
    BY <1>13, Moves DEF Move
  <2>2. UNCHANGED <<accepted, sent>>
    BY <1>13 DEF TakeLoad, packet, tokens, receiver, control
  <2>3. Uncounted' = Uncounted
    BY <1>13, UncountedSteps DEF SenderStep, SendCall, PushSwap, SendAdd, TakeLoad
  <2>4. HowMany({"check", "checkcnt", "push"})' = HowMany({"check", "checkcnt", "push"})
    BY <2>1, MoveCounts DEF HowMany
  <2>5. QED
    BY <2>2, <2>3, <2>4, <1>inv, <1>types DEF SendsInv
<1>14. ASSUME NEW s \in Senders, TakeClear(s) PROVE SendsInv'
  <2>1. spc' = [spc EXCEPT ![s] = spc'[s]] /\ spc[s] \notin {"check", "checkcnt", "push"} /\ spc'[s] \notin {"check", "checkcnt", "push"}
    BY <1>14, Moves DEF Move
  <2>2. UNCHANGED <<accepted, sent>>
    BY <1>14 DEF TakeClear, tokens, receiver, control
  <2>3. Uncounted' = Uncounted
    BY <1>14, UncountedSteps DEF SenderStep, SendCall, PushSwap, SendAdd, TakeClear
  <2>4. HowMany({"check", "checkcnt", "push"})' = HowMany({"check", "checkcnt", "push"})
    BY <2>1, MoveCounts DEF HowMany
  <2>5. QED
    BY <2>2, <2>3, <2>4, <1>inv, <1>types DEF SendsInv
<1>15. ASSUME NEW s \in Senders, Signal(s) PROVE SendsInv'
  <2>1. spc' = [spc EXCEPT ![s] = spc'[s]] /\ spc[s] \notin {"check", "checkcnt", "push"} /\ spc'[s] \notin {"check", "checkcnt", "push"}
    BY <1>15, Moves DEF Move
  <2>2. UNCHANGED <<accepted, sent>>
    BY <1>15 DEF Signal, packet, receiver, control
  <2>3. Uncounted' = Uncounted
    BY <1>15, UncountedSteps DEF SenderStep, SendCall, PushSwap, SendAdd, Signal
  <2>4. HowMany({"check", "checkcnt", "push"})' = HowMany({"check", "checkcnt", "push"})
    BY <2>1, MoveCounts DEF HowMany
  <2>5. QED
    BY <2>2, <2>3, <2>4, <1>inv, <1>types DEF SendsInv
<1>16. ASSUME NEW s \in Senders, SendDisconnected(s) PROVE SendsInv'
  <2>1. spc' = [spc EXCEPT ![s] = spc'[s]] /\ spc[s] \notin {"check", "checkcnt", "push"} /\ spc'[s] \notin {"check", "checkcnt", "push"}
    BY <1>16, Moves DEF Move
  <2>2. UNCHANGED <<accepted, sent>>
    BY <1>16 DEF SendDisconnected, tokens, receiver, control
  <2>3. Uncounted' = Uncounted
    BY <1>16, UncountedSteps DEF SenderStep, SendCall, PushSwap, SendAdd, SendDisconnected
  <2>4. HowMany({"check", "checkcnt", "push"})' = HowMany({"check", "checkcnt", "push"})
    BY <2>1, MoveCounts DEF HowMany
  <2>5. QED
    BY <2>2, <2>3, <2>4, <1>inv, <1>types DEF SendsInv
<1>17. ASSUME NEW s \in Senders, DrainEnter(s) PROVE SendsInv'
  <2>1. spc' = [spc EXCEPT ![s] = spc'[s]] /\ spc[s] \notin {"check", "checkcnt", "push"} /\ spc'[s] \notin {"check", "checkcnt", "push"}
    BY <1>17, Moves DEF Move
  <2>2. UNCHANGED <<accepted, sent>>
    BY <1>17 DEF DrainEnter, tokens, receiver, control
  <2>3. Uncounted' = Uncounted
    BY <1>17, UncountedSteps DEF SenderStep, SendCall, PushSwap, SendAdd, DrainEnter
  <2>4. HowMany({"check", "checkcnt", "push"})' = HowMany({"check", "checkcnt", "push"})
    BY <2>1, MoveCounts DEF HowMany
  <2>5. QED
    BY <2>2, <2>3, <2>4, <1>inv, <1>types DEF SendsInv
<1>18. ASSUME NEW s \in Senders, DrainPop(s) PROVE SendsInv'
  <2>1. spc' = [spc EXCEPT ![s] = spc'[s]] /\ spc[s] \notin {"check", "checkcnt", "push"} /\ spc'[s] \notin {"check", "checkcnt", "push"}
    BY <1>18, Moves DEF Move
  <2>2. UNCHANGED <<accepted, sent>>
    BY <1>18 DEF DrainPop, tokens, receiver, control
  <2>3. Uncounted' = Uncounted
    BY <1>18, UncountedSteps DEF SenderStep, SendCall, PushSwap, SendAdd, DrainPop
  <2>4. HowMany({"check", "checkcnt", "push"})' = HowMany({"check", "checkcnt", "push"})
    BY <2>1, MoveCounts DEF HowMany
  <2>5. QED
    BY <2>2, <2>3, <2>4, <1>inv, <1>types DEF SendsInv
<1>19. ASSUME NEW s \in Senders, DrainHead(s) PROVE SendsInv'
  <2>1. spc' = [spc EXCEPT ![s] = spc'[s]] /\ spc[s] \notin {"check", "checkcnt", "push"} /\ spc'[s] \notin {"check", "checkcnt", "push"}
    BY <1>19, Moves DEF Move
  <2>2. UNCHANGED <<accepted, sent>>
    BY <1>19 DEF DrainHead, packet, tokens, receiver, control
  <2>3. Uncounted' = Uncounted
    BY <1>19, UncountedSteps DEF SenderStep, SendCall, PushSwap, SendAdd, DrainHead
  <2>4. HowMany({"check", "checkcnt", "push"})' = HowMany({"check", "checkcnt", "push"})
    BY <2>1, MoveCounts DEF HowMany
  <2>5. QED
    BY <2>2, <2>3, <2>4, <1>inv, <1>types DEF SendsInv
<1>20. ASSUME NEW s \in Senders, DrainLeave(s) PROVE SendsInv'
  <2>1. spc' = [spc EXCEPT ![s] = spc'[s]] /\ spc[s] \notin {"check", "checkcnt", "push"} /\ spc'[s] \notin {"check", "checkcnt", "push"}
    BY <1>20, Moves DEF Move
  <2>2. UNCHANGED <<accepted, sent>>
    BY <1>20 DEF DrainLeave, tokens, receiver, control
  <2>3. Uncounted' = Uncounted
    BY <1>20, UncountedSteps DEF SenderStep, SendCall, PushSwap, SendAdd, DrainLeave
  <2>4. HowMany({"check", "checkcnt", "push"})' = HowMany({"check", "checkcnt", "push"})
    BY <2>1, MoveCounts DEF HowMany
  <2>5. QED
    BY <2>2, <2>3, <2>4, <1>inv, <1>types DEF SendsInv
<1>21. ASSUME
       OldWoken \/ OldAborted \/ RecvCall \/ TryPop \/ TryHead \/ FoldSwap \/ Fold \/ Folded \/
       TryLook \/ TryAgain \/ TryAgainHead \/ Decrement \/ DecrementSub \/ DecrementDisc \/
       DecrementFailed \/ WaitDone \/ WaitAborted \/ CanRecv \/ StartCancelBump \/ AbortLoad \/
       AbortBump \/ AbortDisc \/ AbortFinish \/ DropPort \/ DropCas \/ DropDrain
       PROVE  SendsInv'
  BY <1>21, <1>same DEF OldWoken, packet, tokens, sender, OldAborted, RecvCall, TryPop, TryHead,
       FoldSwap, Fold, Folded, TryLook, TryAgain, TryAgainHead, Decrement, DecrementSub,
       DecrementDisc, DecrementFailed, WaitDone, WaitAborted, CanRecv, StartCancelBump, AbortLoad,
       AbortBump, AbortDisc, AbortFinish, DropPort, DropCas, DropDrain
<1>22. CASE Terminated
  BY <1>22, <1>same DEF Terminated, vars, packet, tokens, sender, receiver, control
<1>23. QED
  BY <1>1, <1>2, <1>3, <1>4, <1>5, <1>6, <1>7, <1>8, <1>9, <1>10, <1>11, <1>12, <1>13, <1>14, <1>15,
       <1>16, <1>17, <1>18, <1>19, <1>20, <1>21, <1>22 DEF Next, SenderStep, ReceiverStep

\* Senders that count on a port that is gone find it disconnected.
LEMMA GoneInvStep ==
  ASSUME IInv, Next
  PROVE  GoneInv'
<1>inv. GoneInv
  BY DEF IInv
<1>types. /\ spc \in [Senders -> SenderLocs] /\ accepted \in Nat /\ sent \in Nat /\ MaxSends \in Nat
          /\ Uncounted \in Nat /\ HowMany({"check", "checkcnt", "push"}) \in Nat
          /\ HowMany({"disc"}) \in Nat /\ cnt \in Int
  BY Numbers, UncountedIs, CountBounds DEF HowMany, IInv, TypeInv, LocTypes, QueueTypes, CallTypes, CountTypes
<1>kept. ASSUME NEW s \in Senders, spc' = [spc EXCEPT ![s] = spc'[s]], spc[s] # "disc", spc'[s] # "disc",
                spc'[s] \in {"enter", "drain", "drainhead", "leave"} =>
                  spc[s] \in {"enter", "drain", "drainhead", "leave"},
                UNCHANGED <<rpc, cnt>>
         PROVE  GoneInv'
  <2>1. HowMany({"disc"})' = HowMany({"disc"})
    BY <1>kept, MoveCounts DEF HowMany
  <2>2. QED
    BY <2>1, <1>kept, <1>inv, <1>types DEF GoneInv
<1>same. ASSUME UNCHANGED <<rpc, cnt, spc>> PROVE GoneInv'
  BY <1>same, <1>inv DEF GoneInv, HowMany
<1>1. ASSUME NEW s \in Senders, Inherit(s) PROVE GoneInv'
  <2>1. /\ spc' = [spc EXCEPT ![s] = spc'[s]] /\ spc[s] # "disc" /\ spc'[s] # "disc"
        /\ spc'[s] \in {"enter", "drain", "drainhead", "leave"} =>
             spc[s] \in {"enter", "drain", "drainhead", "leave"}
    BY <1>1, Moves DEF Move
  <2>2. UNCHANGED <<rpc, cnt>>
    BY <1>1 DEF Inherit, tokens, receiver, control
  <2>3. QED
    BY <2>1, <2>2, <1>kept
<1>2. ASSUME NEW s \in Senders, InheritCnt(s) PROVE GoneInv'
  <2>1. spc' = [spc EXCEPT ![s] = spc'[s]] /\ spc'[s] \notin {"disc", "enter", "drain", "drainhead", "leave"}
    BY <1>2, Moves DEF Move
  <2>2. rpc' = rpc /\ spc[Creator] = "inheritcnt"
    BY <1>2 DEF InheritCnt, receiver, control, IInv, LockInv, Birth
  <2>3. rpc # "gone"
    BY <2>2 DEF IInv, BirthInv
  <2>4. QED
    BY <2>1, <2>2, <2>3, <1>inv, <1>types DEF GoneInv
<1>3. ASSUME NEW s \in Senders, InheritSteals(s) PROVE GoneInv'
  <2>1. /\ spc' = [spc EXCEPT ![s] = spc'[s]] /\ spc[s] # "disc" /\ spc'[s] # "disc"
        /\ spc'[s] \in {"enter", "drain", "drainhead", "leave"} =>
             spc[s] \in {"enter", "drain", "drainhead", "leave"}
    BY <1>3, Moves DEF Move
  <2>2. UNCHANGED <<rpc, cnt>>
    BY <1>3 DEF InheritSteals, packet, tokens, control
  <2>3. QED
    BY <2>1, <2>2, <1>kept
<1>4. ASSUME NEW s \in Senders, InheritUnlock(s) PROVE GoneInv'
  <2>1. UNCHANGED <<rpc, cnt>>
    BY <1>4 DEF InheritUnlock, tokens, receiver, control
  <2>2. HowMany({"disc"})' = HowMany({"disc"})
    <3>1. /\ spc[s] = "unlock" /\ spc[Child] = "unborn" /\ s # Child
          /\ spc' = [spc EXCEPT ![s] = "idle", ![Child] = "idle"]
      BY <1>4, AtUnlock DEF InheritUnlock
    <3>2. {t \in Senders : spc'[t] \in {"disc"}} = {t \in Senders : spc[t] \in {"disc"}}
      BY <3>1, <1>types
    <3>3. QED
      BY <3>2 DEF HowMany, Count
  <2>3. \A t \in Senders : spc'[t] \in {"disc", "enter", "drain", "drainhead", "leave"} => spc'[t] = spc[t]
    BY <1>4, <1>types DEF InheritUnlock, At
  <2>4. QED
    BY <2>1, <2>2, <2>3, <1>inv DEF GoneInv
<1>5. ASSUME NEW s \in Senders, SendCall(s) PROVE GoneInv'
  <2>1. /\ spc' = [spc EXCEPT ![s] = spc'[s]] /\ spc[s] # "disc" /\ spc'[s] # "disc"
        /\ spc'[s] \in {"enter", "drain", "drainhead", "leave"} =>
             spc[s] \in {"enter", "drain", "drainhead", "leave"}
    BY <1>5, Moves DEF Move
  <2>2. UNCHANGED <<rpc, cnt>>
    BY <1>5 DEF SendCall, packet, tokens, receiver, control
  <2>3. QED
    BY <2>1, <2>2, <1>kept
<1>6. ASSUME NEW s \in Senders, CloneChan(s) PROVE GoneInv'
  <2>1. UNCHANGED <<rpc, cnt>>
    BY <1>6 DEF CloneChan, tokens, receiver, control
  <2>2. HowMany({"disc"})' = HowMany({"disc"})
    <3>1. PICK t \in Senders : spc[t] = "gone" /\ spc' = [spc EXCEPT ![t] = "idle"]
      BY <1>6 DEF CloneChan, At
    <3>2. {u \in Senders : spc'[u] \in {"disc"}} = {u \in Senders : spc[u] \in {"disc"}}
      BY <3>1, <1>types
    <3>3. QED
      BY <3>2 DEF HowMany, Count
  <2>3. \A t \in Senders : spc'[t] \in {"disc", "enter", "drain", "drainhead", "leave"} => spc'[t] = spc[t]
    BY <1>6, <1>types DEF CloneChan, At
  <2>4. QED
    BY <2>1, <2>2, <2>3, <1>inv DEF GoneInv
<1>7. ASSUME NEW s \in Senders, DropChan(s) PROVE GoneInv'
  <2>1. /\ spc' = [spc EXCEPT ![s] = spc'[s]] /\ spc[s] # "disc" /\ spc'[s] # "disc"
        /\ spc'[s] \in {"enter", "drain", "drainhead", "leave"} =>
             spc[s] \in {"enter", "drain", "drainhead", "leave"}
    BY <1>7, Moves DEF Move
  <2>2. UNCHANGED <<rpc, cnt>>
    BY <1>7 DEF DropChan, tokens, receiver, control
  <2>3. QED
    BY <2>1, <2>2, <1>kept
<1>8. ASSUME NEW s \in Senders, DropSwap(s) PROVE GoneInv'
  <2>1. spc' = [spc EXCEPT ![s] = spc'[s]] /\ spc'[s] \notin {"disc", "enter", "drain", "drainhead", "leave"}
    BY <1>8, Moves DEF Move
  <2>2. rpc' = rpc /\ cnt' = DISCONNECTED
    BY <1>8 DEF DropSwap, receiver, control
  <2>3. HowMany({"disc"})' \in Nat
    BY <2>1, MoveCounts DEF HowMany
  <2>4. QED
    BY <2>1, <2>2, <2>3, <1>inv, <1>types, Numbers DEF GoneInv
<1>9. ASSUME NEW s \in Senders, SendCheck(s) PROVE GoneInv'
  <2>1. /\ spc' = [spc EXCEPT ![s] = spc'[s]] /\ spc[s] # "disc" /\ spc'[s] # "disc"
        /\ spc'[s] \in {"enter", "drain", "drainhead", "leave"} =>
             spc[s] \in {"enter", "drain", "drainhead", "leave"}
    BY <1>9, Moves DEF Move
  <2>2. UNCHANGED <<rpc, cnt>>
    BY <1>9 DEF SendCheck, packet, tokens, receiver, control
  <2>3. QED
    BY <2>1, <2>2, <1>kept
<1>10. ASSUME NEW s \in Senders, PushSwap(s) PROVE GoneInv'
  <2>1. /\ spc' = [spc EXCEPT ![s] = spc'[s]] /\ spc[s] # "disc" /\ spc'[s] # "disc"
        /\ spc'[s] \in {"enter", "drain", "drainhead", "leave"} =>
             spc[s] \in {"enter", "drain", "drainhead", "leave"}
    BY <1>10, Moves DEF Move
  <2>2. UNCHANGED <<rpc, cnt>>
    BY <1>10 DEF PushSwap, tokens, receiver, control
  <2>3. QED
    BY <2>1, <2>2, <1>kept
<1>11. ASSUME NEW s \in Senders, PushLink(s) PROVE GoneInv'
  <2>1. /\ spc' = [spc EXCEPT ![s] = spc'[s]] /\ spc[s] # "disc" /\ spc'[s] # "disc"
        /\ spc'[s] \in {"enter", "drain", "drainhead", "leave"} =>
             spc[s] \in {"enter", "drain", "drainhead", "leave"}
    BY <1>11, Moves DEF Move
  <2>2. UNCHANGED <<rpc, cnt>>
    BY <1>11 DEF PushLink, tokens, receiver, control
  <2>3. QED
    BY <2>1, <2>2, <1>kept
<1>12. ASSUME NEW s \in Senders, SendAdd(s) PROVE GoneInv'
  <2>1. /\ spc' = [spc EXCEPT ![s] = spc'[s]] /\ spc[s] = "add"
        /\ spc'[s] \in {"take", "disc", "idle"}
    BY <1>12, Moves DEF Move
  <2>2. rpc' = rpc
    BY <1>12 DEF SendAdd, receiver, control
  <2>3. CASE rpc = "gone"
    <3>1. Disconnected(cnt) /\ cnt < -1 /\ cnt' = cnt + 1
      BY <1>12, <2>1, <2>3, CountFacts DEF SendAdd
    <3>2. spc'[s] = "disc"
      BY <1>12, <3>1, <1>types DEF SendAdd, At, SeesWaiter
    <3>3. HowMany({"disc"})' = HowMany({"disc"}) + 1
      BY <2>1, <3>2, MoveCounts DEF HowMany
    <3>4. QED
      BY <2>2, <2>3, <3>1, <3>3, <1>inv, <1>types, Numbers DEF GoneInv
  <2>4. CASE rpc # "gone"
    <3>1. ~Disconnected(cnt)
      BY <2>1, <2>4, CountFacts, OpenWhile DEF Open
    <3>2. spc'[s] # "disc"
      BY <1>12, <3>1, <1>types DEF SendAdd, At
    <3>3. QED
      BY <2>1, <2>2, <2>4, <3>2, <1>inv, <1>types DEF GoneInv
  <2>5. QED
    BY <2>3, <2>4
<1>13. ASSUME NEW s \in Senders, TakeLoad(s) PROVE GoneInv'
  <2>1. /\ spc' = [spc EXCEPT ![s] = spc'[s]] /\ spc[s] # "disc" /\ spc'[s] # "disc"
        /\ spc'[s] \in {"enter", "drain", "drainhead", "leave"} =>
             spc[s] \in {"enter", "drain", "drainhead", "leave"}
    BY <1>13, Moves DEF Move
  <2>2. UNCHANGED <<rpc, cnt>>
    BY <1>13 DEF TakeLoad, packet, tokens, receiver, control
  <2>3. QED
    BY <2>1, <2>2, <1>kept
<1>14. ASSUME NEW s \in Senders, TakeClear(s) PROVE GoneInv'
  <2>1. /\ spc' = [spc EXCEPT ![s] = spc'[s]] /\ spc[s] # "disc" /\ spc'[s] # "disc"
        /\ spc'[s] \in {"enter", "drain", "drainhead", "leave"} =>
             spc[s] \in {"enter", "drain", "drainhead", "leave"}
    BY <1>14, Moves DEF Move
  <2>2. UNCHANGED <<rpc, cnt>>
    BY <1>14 DEF TakeClear, tokens, receiver, control
  <2>3. QED
    BY <2>1, <2>2, <1>kept
<1>15. ASSUME NEW s \in Senders, Signal(s) PROVE GoneInv'
  <2>1. /\ spc' = [spc EXCEPT ![s] = spc'[s]] /\ spc[s] # "disc" /\ spc'[s] # "disc"
        /\ spc'[s] \in {"enter", "drain", "drainhead", "leave"} =>
             spc[s] \in {"enter", "drain", "drainhead", "leave"}
    BY <1>15, Moves DEF Move
  <2>2. UNCHANGED <<rpc, cnt>>
    BY <1>15 DEF Signal, packet, receiver, control
  <2>3. QED
    BY <2>1, <2>2, <1>kept
<1>16. ASSUME NEW s \in Senders, SendDisconnected(s) PROVE GoneInv'
  <2>1. spc' = [spc EXCEPT ![s] = spc'[s]] /\ spc[s] = "disc"
    BY <1>16, Moves DEF Move
  <2>2. rpc' = rpc /\ cnt' = DISCONNECTED /\ rpc = "gone"
    BY <1>16, <2>1, <1>inv DEF SendDisconnected, receiver, control, GoneInv
  <2>3. HowMany({"disc"})' \in Nat
    BY <2>1, MoveCounts DEF HowMany
  <2>4. QED
    BY <2>2, <2>3, Numbers DEF GoneInv
<1>17. ASSUME NEW s \in Senders, DrainEnter(s) PROVE GoneInv'
  <2>1. /\ spc' = [spc EXCEPT ![s] = spc'[s]] /\ spc[s] # "disc" /\ spc'[s] # "disc"
        /\ spc'[s] \in {"enter", "drain", "drainhead", "leave"} =>
             spc[s] \in {"enter", "drain", "drainhead", "leave"}
    BY <1>17, Moves DEF Move
  <2>2. UNCHANGED <<rpc, cnt>>
    BY <1>17 DEF DrainEnter, tokens, receiver, control
  <2>3. QED
    BY <2>1, <2>2, <1>kept
<1>18. ASSUME NEW s \in Senders, DrainPop(s) PROVE GoneInv'
  <2>1. /\ spc' = [spc EXCEPT ![s] = spc'[s]] /\ spc[s] # "disc" /\ spc'[s] # "disc"
        /\ spc'[s] \in {"enter", "drain", "drainhead", "leave"} =>
             spc[s] \in {"enter", "drain", "drainhead", "leave"}
    BY <1>18, Moves DEF Move
  <2>2. UNCHANGED <<rpc, cnt>>
    BY <1>18 DEF DrainPop, tokens, receiver, control
  <2>3. QED
    BY <2>1, <2>2, <1>kept
<1>19. ASSUME NEW s \in Senders, DrainHead(s) PROVE GoneInv'
  <2>1. /\ spc' = [spc EXCEPT ![s] = spc'[s]] /\ spc[s] # "disc" /\ spc'[s] # "disc"
        /\ spc'[s] \in {"enter", "drain", "drainhead", "leave"} =>
             spc[s] \in {"enter", "drain", "drainhead", "leave"}
    BY <1>19, Moves DEF Move
  <2>2. UNCHANGED <<rpc, cnt>>
    BY <1>19 DEF DrainHead, packet, tokens, receiver, control
  <2>3. QED
    BY <2>1, <2>2, <1>kept
<1>20. ASSUME NEW s \in Senders, DrainLeave(s) PROVE GoneInv'
  <2>1. /\ spc' = [spc EXCEPT ![s] = spc'[s]] /\ spc[s] # "disc" /\ spc'[s] # "disc"
        /\ spc'[s] \in {"enter", "drain", "drainhead", "leave"} =>
             spc[s] \in {"enter", "drain", "drainhead", "leave"}
    BY <1>20, Moves DEF Move
  <2>2. UNCHANGED <<rpc, cnt>>
    BY <1>20 DEF DrainLeave, tokens, receiver, control
  <2>3. QED
    BY <2>1, <2>2, <1>kept
<1>21. ASSUME OldWoken PROVE GoneInv'
  <2>1. spc' = spc /\ rpc # "gone" /\ rpc' # "gone"
    BY <1>21 DEF OldWoken, sender
  <2>2. QED
    BY <2>1, <1>inv DEF GoneInv
<1>22. ASSUME OldAborted PROVE GoneInv'
  <2>1. spc' = spc /\ rpc # "gone" /\ rpc' # "gone"
    BY <1>22 DEF OldAborted, sender
  <2>2. QED
    BY <2>1, <1>inv DEF GoneInv
<1>23. ASSUME RecvCall PROVE GoneInv'
  <2>1. spc' = spc /\ rpc # "gone" /\ rpc' # "gone"
    BY <1>23 DEF RecvCall, sender
  <2>2. QED
    BY <2>1, <1>inv DEF GoneInv
<1>24. ASSUME TryPop PROVE GoneInv'
  <2>1. spc' = spc /\ rpc # "gone" /\ rpc' # "gone"
    BY <1>24 DEF TryPop, Found, Return, sender
  <2>2. QED
    BY <2>1, <1>inv DEF GoneInv
<1>25. ASSUME TryHead PROVE GoneInv'
  <2>1. spc' = spc /\ rpc # "gone" /\ rpc' # "gone"
    BY <1>25 DEF TryHead, sender
  <2>2. QED
    BY <2>1, <1>inv DEF GoneInv
<1>26. ASSUME FoldSwap PROVE GoneInv'
  <2>1. spc' = spc /\ rpc # "gone" /\ rpc' # "gone"
    BY <1>26 DEF FoldSwap, sender
  <2>2. QED
    BY <2>1, <1>inv DEF GoneInv
<1>27. ASSUME Fold PROVE GoneInv'
  <2>1. spc' = spc /\ rpc # "gone" /\ rpc' # "gone"
    BY <1>27 DEF Fold, sender
  <2>2. QED
    BY <2>1, <1>inv DEF GoneInv
<1>28. ASSUME Folded PROVE GoneInv'
  <2>1. spc' = spc /\ rpc # "gone" /\ rpc' # "gone"
    BY <1>28 DEF Folded, Found, Return, sender
  <2>2. QED
    BY <2>1, <1>inv DEF GoneInv
<1>29. ASSUME TryLook PROVE GoneInv'
  <2>1. spc' = spc /\ rpc # "gone" /\ rpc' # "gone"
    BY <1>29 DEF TryLook, Return, SawHangup, sender
  <2>2. QED
    BY <2>1, <1>inv DEF GoneInv
<1>30. ASSUME TryAgain PROVE GoneInv'
  <2>1. spc' = spc /\ rpc # "gone" /\ rpc' # "gone"
    BY <1>30 DEF TryAgain, Found, Return, sender
  <2>2. QED
    BY <2>1, <1>inv DEF GoneInv
<1>31. ASSUME TryAgainHead PROVE GoneInv'
  <2>1. spc' = spc /\ rpc # "gone" /\ rpc' # "gone"
    BY <1>31 DEF TryAgainHead, Return, sender
  <2>2. QED
    BY <2>1, <1>inv DEF GoneInv
<1>32. ASSUME Decrement PROVE GoneInv'
  <2>1. spc' = spc /\ rpc # "gone" /\ rpc' # "gone"
    BY <1>32 DEF Decrement, sender
  <2>2. QED
    BY <2>1, <1>inv DEF GoneInv
<1>33. ASSUME DecrementSub PROVE GoneInv'
  <2>1. spc' = spc /\ rpc # "gone" /\ rpc' # "gone"
    BY <1>33 DEF DecrementSub, sender
  <2>2. QED
    BY <2>1, <1>inv DEF GoneInv
<1>34. ASSUME DecrementDisc PROVE GoneInv'
  <2>1. spc' = spc /\ rpc # "gone" /\ rpc' # "gone"
    BY <1>34 DEF DecrementDisc, sender
  <2>2. QED
    BY <2>1, <1>inv DEF GoneInv
<1>35. ASSUME DecrementFailed PROVE GoneInv'
  <2>1. spc' = spc /\ rpc # "gone" /\ rpc' # "gone"
    BY <1>35 DEF DecrementFailed, sender
  <2>2. QED
    BY <2>1, <1>inv DEF GoneInv
<1>36. ASSUME WaitDone PROVE GoneInv'
  <2>1. spc' = spc /\ rpc # "gone" /\ rpc' # "gone"
    BY <1>36 DEF WaitDone, sender
  <2>2. QED
    BY <2>1, <1>inv DEF GoneInv
<1>37. ASSUME WaitAborted PROVE GoneInv'
  <2>1. spc' = spc /\ rpc # "gone" /\ rpc' # "gone"
    BY <1>37 DEF WaitAborted, sender
  <2>2. QED
    BY <2>1, <1>inv DEF GoneInv
<1>38. ASSUME CanRecv PROVE GoneInv'
  <2>1. spc' = spc /\ rpc # "gone" /\ rpc' # "gone"
    BY <1>38 DEF CanRecv, Return, sender
  <2>2. QED
    BY <2>1, <1>inv DEF GoneInv
<1>39. ASSUME StartCancelBump PROVE GoneInv'
  <2>1. spc' = spc /\ rpc # "gone" /\ rpc' # "gone"
    BY <1>39 DEF StartCancelBump, Return, sender
  <2>2. QED
    BY <2>1, <1>inv DEF GoneInv
<1>40. ASSUME AbortLoad PROVE GoneInv'
  <2>1. spc' = spc /\ rpc # "gone" /\ rpc' # "gone"
    BY <1>40 DEF AbortLoad, sender
  <2>2. QED
    BY <2>1, <1>inv DEF GoneInv
<1>41. ASSUME AbortBump PROVE GoneInv'
  <2>1. spc' = spc /\ rpc # "gone" /\ rpc' # "gone"
    BY <1>41 DEF AbortBump, sender
  <2>2. QED
    BY <2>1, <1>inv DEF GoneInv
<1>42. ASSUME AbortDisc PROVE GoneInv'
  <2>1. spc' = spc /\ rpc # "gone" /\ rpc' # "gone"
    BY <1>42 DEF AbortDisc, AbortReturn, Return, sender
  <2>2. QED
    BY <2>1, <1>inv DEF GoneInv
<1>43. ASSUME AbortFinish PROVE GoneInv'
  <2>1. spc' = spc /\ rpc # "gone" /\ rpc' # "gone"
    BY <1>43 DEF AbortFinish, AbortReturn, Return, sender
  <2>2. QED
    BY <2>1, <1>inv DEF GoneInv
<1>44. ASSUME DropPort PROVE GoneInv'
  <2>1. spc' = spc /\ rpc # "gone" /\ rpc' # "gone"
    BY <1>44 DEF DropPort, sender
  <2>2. QED
    BY <2>1, <1>inv DEF GoneInv
<1>45. ASSUME DropCas PROVE GoneInv'
  <2>1. /\ spc' = spc /\ rpc = "dropcas"
        /\ rpc' = "gone" => cnt' = DISCONNECTED
    BY <1>45 DEF DropCas, sender
  <2>2. QED
    BY <2>1, <1>inv, <1>types, Numbers DEF GoneInv, HowMany
<1>46. ASSUME DropDrain PROVE GoneInv'
  <2>1. spc' = spc /\ rpc # "gone" /\ rpc' # "gone"
    BY <1>46 DEF DropDrain, sender
  <2>2. QED
    BY <2>1, <1>inv DEF GoneInv
<1>47. CASE Terminated
  BY <1>47, <1>same DEF Terminated, vars, packet, tokens, sender, receiver, control
<1>48. QED
  BY <1>1, <1>2, <1>3, <1>4, <1>5, <1>6, <1>7, <1>8, <1>9, <1>10, <1>11, <1>12, <1>13, <1>14, <1>15,
       <1>16, <1>17, <1>18, <1>19, <1>20, <1>21, <1>22, <1>23, <1>24, <1>25, <1>26, <1>27, <1>28,
       <1>29, <1>30, <1>31, <1>32, <1>33, <1>34, <1>35, <1>36, <1>37, <1>38, <1>39, <1>40, <1>41,
       <1>42, <1>43, <1>44, <1>45, <1>46, <1>47 DEF Next, SenderStep, ReceiverStep

-----------------------------------------------------------------------------
(* The balance of the count                                                *)

\* The count follows what is due, step by step.
LEMMA BalanceInvStep ==
  ASSUME IInv, Next
  PROVE  BalanceInv'
<1>types. /\ cnt \in Int /\ local \in Int /\ steals \in Int /\ queue \in Seq(Nat) /\ Len(queue) \in Nat
          /\ spc \in [Senders -> SenderLocs] /\ final \in BOOLEAN /\ accepted \in Nat
          /\ Uncounted \in Nat /\ Extra \in Int /\ Creator \in Senders
  <2>1. /\ cnt \in Int /\ local \in Int /\ steals \in Int /\ queue \in Seq(Nat) /\ Len(queue) \in Nat
        /\ spc \in [Senders -> SenderLocs] /\ final \in BOOLEAN /\ accepted \in Nat
    BY DEF IInv, TypeInv, CountTypes, LocTypes, CallTypes, QueueTypes
  <2>2. Uncounted \in Nat
    BY UncountedIs, CountBounds
  <2>3. QED
    BY <2>1, <2>2, SharedAssumption DEF Extra, Stolen
<1>inv. StealsInv
  BY DEF IInv
<1>aborts. aborted \in Aborts
  BY DEF IInv, TypeInv, CallTypes
<1>mode. /\ ModeInv
         /\ rpc \in {"idle", "can", "old", "decr", "dropcas", "dropdrain"} => ~final
         /\ rpc = "old" => rmode # "try" /\ aborted = "none"
         /\ rpc = "old" /\ Inherited => steals = -1
         /\ rpc = "wait" => steals = 0
  BY DEF IInv, ModeInv, TryLocs, StealsInv
<1>over. ASSUME spc' = spc, channels' = channels
         PROVE  (Over' <=> Over) /\ (Inherited' <=> Inherited) /\ Uncounted' = Uncounted
  BY <1>over DEF Over, Inherited, Uncounted
<1>born. ~Inherited => Len(queue) = 0 /\ Uncounted = 0
  <2>1. ~Inherited => queue = <<>>
    BY Unborn
  <2>2. ~Inherited => accepted = 0
    BY DEF Inherited, IInv, LockInv, Birth
  <2>3. Uncounted <= accepted
    BY DEF IInv, SendsInv
  <2>4. QED
    BY <2>1, <2>2, <2>3, <1>types
<1>kept. ASSUME UNCHANGED <<rpc, steals, final, local, aborted, cnt, queue>>, Uncounted' = Uncounted,
                Open' => Open, Inherited' => Inherited
         PROVE  BalanceInv'
  <2>1. Extra' = Extra /\ (Exact' <=> Exact) /\ (Spare' <=> Spare)
    BY <1>kept DEF Extra, Stolen, Exact, Spare
  <2>2. Due' = Due
    BY <1>kept, <2>1 DEF Due
  <2>3. QED
    BY <1>kept, <2>1, <2>2 DEF IInv, BalanceInv
<1>rec. ASSUME UNCHANGED <<cnt, queue>>, Open' => Open, Inherited' => Inherited, Uncounted' = Uncounted,
               Exact' => Exact, Open' /\ Open /\ Inherited => Extra' = Extra,
               Open' /\ Open /\ Inherited /\ Spare' => Spare \/ cnt' > Due'
        PROVE  BalanceInv'
  <2>1. Open' /\ Open /\ Inherited => Due' = Due
    BY <1>rec DEF Due
  <2>2. QED
    BY <1>rec, <2>1 DEF IInv, BalanceInv
<1>rec2. ASSUME NEW d \in Int, cnt' = cnt + d, Extra' = Extra + d, queue' = queue,
                Open' => Open, Inherited' => Inherited, Uncounted' = Uncounted, Exact' => Exact, ~Spare'
         PROVE  BalanceInv'
  <2>1. Due' = Due + d /\ cnt' = cnt + d /\ Due \in Int
    BY <1>rec2, <1>types DEF Due
  <2>2. QED
    BY <1>rec2, <2>1, <1>types DEF IInv, BalanceInv
<1>pop. ASSUME Poppable, Found(steals + 1), UNCHANGED <<cnt, aborted, local>>, rpc \in {"try", "spin", "folded"},
               Open' => Open, Inherited' => Inherited, Uncounted' = Uncounted
        PROVE  BalanceInv'
  <2>1. /\ queue # <<>> /\ queue' = Tail(queue) /\ rpc' = "idle" /\ ~final'
        /\ steals' = (steals + 1) - (IF final THEN 1 ELSE 0)
    <3>1. queue' = Tail(queue) /\ steals' = (steals + 1) - (IF final THEN 1 ELSE 0)
      BY <1>pop, <1>types DEF Found
    <3>2. rpc' = "idle" /\ ~final'
      BY <1>pop DEF Found, Return
    <3>3. queue # <<>>
      BY <1>pop DEF Poppable
    <3>4. QED
      BY <3>1, <3>2, <3>3
  <2>2. Len(queue') = Len(queue) - 1
    BY <2>1, <1>types, PopsHead
  <2>3. Extra' = Extra + 1 /\ ~Spare' /\ (Exact' <=> Exact)
    BY <1>pop, <2>1, <1>types DEF Extra, Stolen, Spare, Exact
  <2>4. Due' = Due
    BY <1>pop, <2>2, <2>3, <1>types DEF Due
  <2>5. QED
    BY <1>pop, <2>3, <2>4 DEF IInv, BalanceInv
<1>same. ASSUME UNCHANGED <<rpc, cnt, channels, spc, queue, steals, final, local, aborted>> PROVE BalanceInv'
  BY <1>same DEF IInv, BalanceInv, Due, Extra, Stolen, Spare, Exact, Open, Over, Inherited,
       Uncounted
<1>1. ASSUME NEW s \in Senders, Inherit(s) PROVE BalanceInv'
  <2>1. /\ UNCHANGED <<rpc, steals, final, local, aborted, cnt, queue>> /\ spc[s] = "inherit" /\ s = Creator
        /\ spc' = [spc EXCEPT ![s] = spc'[s]]
        /\ \/ cnt = 0 /\ toWake = NoToken /\ spc'[s] = "inheritcnt"
           \/ ~(cnt = 0 /\ toWake = NoToken)
    BY <1>1, <1>types DEF Inherit, receiver, control, IInv, LockInv, Birth, At
  <2>2. CASE spc'[s] = "inheritcnt"
    BY <2>1, <2>2 DEF BalanceInv, Inherited, Birth
  <2>3. CASE ~(cnt = 0 /\ toWake = NoToken)
    <3>1. /\ toWake # NoToken /\ aborted = "upgrade"
          /\ \/ rpc = "sub" /\ cnt = 0 /\ local = 0
             \/ rpc \in {"wait", "abort"} /\ cnt = -1
      BY <2>1, <2>3 DEF IInv, BirthInv
    <3>2. Len(queue') = 0 /\ Uncounted' = 0
      BY <2>1, <1>1, <1>born, UncountedSteps DEF SenderStep, Inherit, PushSwap, SendAdd, Inherited, Birth
    <3>3. cnt' >= Due' /\ ~Exact' /\ ~Spare'
      BY <2>1, <3>1, <3>2, <1>types DEF Due, Extra, Exact, Spare
    <3>4. QED
      BY <3>3 DEF BalanceInv
  <2>4. QED
    BY <2>1, <2>2, <2>3
<1>2. ASSUME NEW s \in Senders, InheritCnt(s) PROVE BalanceInv'
  <2>1. spc[s] = "inheritcnt" /\ s = Creator
    BY <1>2 DEF InheritCnt, IInv, LockInv, Birth
  <2>2. spc'[Creator] = "inheritsteals"
    BY <1>2, <2>1, <1>types DEF InheritCnt, At
  <2>3. QED
    BY <2>2 DEF BalanceInv, Inherited, Birth
<1>3. ASSUME NEW s \in Senders, InheritSteals(s) PROVE BalanceInv'
  <2>1. /\ UNCHANGED <<rpc, final, local, aborted, cnt, queue>> /\ spc[Creator] = "inheritsteals"
        /\ steals' = -1
    BY <1>3 DEF InheritSteals, packet, control, IInv, LockInv, Birth, InheritedSteals
  <2>2. /\ cnt = -1 /\ ~final
        /\ rpc \in {"old", "abort", "try", "tryhead", "look", "decr", "panic_to_wake"}
    BY <2>1 DEF IInv, BirthInv, Inherited, Birth
  <2>3. Len(queue') = 0 /\ Uncounted' = 0
    BY <2>1, <1>3, <1>born, UncountedSteps DEF SenderStep, InheritSteals, PushSwap, SendAdd, Inherited, Birth
  <2>4. Extra' = -1
    BY <2>1, <2>2 DEF Extra, Stolen
  <2>5. cnt' = Due' /\ ~Spare'
    BY <2>1, <2>2, <2>3, <2>4 DEF Due, Spare
  <2>6. QED
    BY <2>1, <2>2, <2>5 DEF BalanceInv
<1>4. ASSUME NEW s \in Senders, InheritUnlock(s) PROVE BalanceInv'
  <2>1. UNCHANGED <<rpc, steals, final, local, aborted>> /\ UNCHANGED <<cnt, queue>>
    BY <1>4 DEF InheritUnlock, tokens, receiver, control
  <2>2. (Open' => Open) /\ (Inherited' => Inherited)
    BY <1>4, <2>1, SenderOver, Born DEF SenderStep, Open, Birth, InheritUnlock
  <2>3. Uncounted' = Uncounted
    BY <1>4, UncountedSteps DEF SenderStep, PushSwap, SendAdd, InheritUnlock
  <2>4. QED
    BY <2>1, <2>2, <2>3, <1>kept
<1>5. ASSUME NEW s \in Senders, SendCall(s) PROVE BalanceInv'
  <2>1. UNCHANGED <<rpc, steals, final, local, aborted>> /\ UNCHANGED <<cnt, queue>>
    BY <1>5 DEF SendCall, packet, tokens, receiver, control
  <2>2. (Open' => Open) /\ (Inherited' => Inherited)
    BY <1>5, <2>1, SenderOver, Born DEF SenderStep, Open, Birth, SendCall
  <2>3. Uncounted' = Uncounted
    BY <1>5, UncountedSteps DEF SenderStep, PushSwap, SendAdd, SendCall
  <2>4. QED
    BY <2>1, <2>2, <2>3, <1>kept
<1>6. ASSUME NEW s \in Senders, CloneChan(s) PROVE BalanceInv'
  <2>1. UNCHANGED <<rpc, steals, final, local, aborted>> /\ UNCHANGED <<cnt, queue>>
    BY <1>6 DEF CloneChan, tokens, receiver, control
  <2>2. (Open' => Open) /\ (Inherited' => Inherited)
    BY <1>6, <2>1, SenderOver, Born DEF SenderStep, Open, Birth, CloneChan
  <2>3. Uncounted' = Uncounted
    BY <1>6, UncountedSteps DEF SenderStep, PushSwap, SendAdd, CloneChan
  <2>4. QED
    BY <2>1, <2>2, <2>3, <1>kept
<1>7. ASSUME NEW s \in Senders, DropChan(s) PROVE BalanceInv'
  <2>1. UNCHANGED <<rpc, steals, final, local, aborted>> /\ UNCHANGED <<cnt, queue>>
    BY <1>7 DEF DropChan, tokens, receiver, control
  <2>2. (Open' => Open) /\ (Inherited' => Inherited)
    BY <1>7, <2>1, SenderOver, Born DEF SenderStep, Open, Birth, DropChan
  <2>3. Uncounted' = Uncounted
    BY <1>7, UncountedSteps DEF SenderStep, PushSwap, SendAdd, DropChan
  <2>4. QED
    BY <2>1, <2>2, <2>3, <1>kept
<1>8. ASSUME NEW s \in Senders, DropSwap(s) PROVE BalanceInv'
  <2>1. ~Open'
    <3>1. spc[s] = "dropswap" /\ channels' = channels
      BY <1>8 DEF DropSwap
    <3>2. channels = 0
      BY <3>1 DEF IInv, HandleInv, TypeInv, CountTypes
    <3>3. \A t \in Senders : spc[t] = "dropswap" => t = s
      BY <3>1, <3>2 DEF IInv, HandleInv
    <3>4. spc' = [spc EXCEPT ![s] = spc'[s]] /\ spc'[s] # "dropswap"
      BY <1>8, Moves DEF Move
    <3>5. QED
      BY <3>1, <3>2, <3>3, <3>4, <1>types DEF Over, Open
  <2>2. QED
    BY <2>1 DEF BalanceInv
<1>9. ASSUME NEW s \in Senders, SendCheck(s) PROVE BalanceInv'
  <2>1. UNCHANGED <<rpc, steals, final, local, aborted>> /\ UNCHANGED <<cnt, queue>>
    BY <1>9 DEF SendCheck, packet, tokens, receiver, control
  <2>2. (Open' => Open) /\ (Inherited' => Inherited)
    BY <1>9, <2>1, SenderOver, Born DEF SenderStep, Open, Birth, SendCheck
  <2>3. Uncounted' = Uncounted
    BY <1>9, UncountedSteps DEF SenderStep, PushSwap, SendAdd, SendCheck
  <2>4. QED
    BY <2>1, <2>2, <2>3, <1>kept
<1>10. ASSUME NEW s \in Senders, PushSwap(s) PROVE BalanceInv'
  <2>1. UNCHANGED <<rpc, steals, final, local, aborted, cnt>>
    BY <1>10 DEF PushSwap, tokens, receiver, control
  <2>2. (Open' => Open) /\ (Inherited' => Inherited)
    BY <1>10, <2>1, SenderOver, Born DEF SenderStep, Open, Birth, PushSwap
  <2>3. Uncounted' = Uncounted + 1
    BY <1>10, UncountedSteps DEF SenderStep
  <2>4. Len(queue') = Len(queue) + 1
    BY <1>10, <2>1, <1>types, PushesLast, CountFacts DEF PushSwap
  <2>5. Extra' = Extra /\ (Exact' <=> Exact) /\ (Spare' <=> Spare)
    BY <2>1 DEF Extra, Stolen, Exact, Spare
  <2>6. Due \in Int /\ (Open => Due' = Due + 0)
    BY <2>1, <2>3, <2>4, <2>5, <1>types DEF Due
  <2>7. Open => (cnt' >= Due' <=> cnt >= Due) /\ (cnt' = Due' <=> cnt = Due) /\ (cnt' > Due' <=> cnt > Due)
    BY <2>1, <2>4, <2>6, <1>types
  <2>8. QED
    BY <2>2, <2>5, <2>7 DEF IInv, BalanceInv
<1>11. ASSUME NEW s \in Senders, PushLink(s) PROVE BalanceInv'
  <2>1. UNCHANGED <<rpc, steals, final, local, aborted>> /\ UNCHANGED <<cnt, queue>>
    BY <1>11 DEF PushLink, tokens, receiver, control
  <2>2. (Open' => Open) /\ (Inherited' => Inherited)
    BY <1>11, <2>1, SenderOver, Born DEF SenderStep, Open, Birth, PushLink
  <2>3. Uncounted' = Uncounted
    BY <1>11, UncountedSteps DEF SenderStep, PushSwap, SendAdd, PushLink
  <2>4. QED
    BY <2>1, <2>2, <2>3, <1>kept
<1>12. ASSUME NEW s \in Senders, SendAdd(s) PROVE BalanceInv'
  <2>1. UNCHANGED <<rpc, steals, final, local, aborted, queue>>
    BY <1>12 DEF SendAdd, tokens, receiver, control
  <2>2. (Open' => Open) /\ (Inherited' => Inherited)
    BY <1>12, <2>1, SenderOver, Born DEF SenderStep, Open, Birth, SendAdd
  <2>3. Uncounted' = Uncounted - 1
    BY <1>12, UncountedSteps DEF SenderStep
  <2>4. Open => cnt' = cnt + 1
    BY <1>12, <2>1, <1>types, PushesLast, CountFacts DEF SendAdd
  <2>5. Extra' = Extra /\ (Exact' <=> Exact) /\ (Spare' <=> Spare)
    BY <2>1 DEF Extra, Stolen, Exact, Spare
  <2>6. Due \in Int /\ (Open => Due' = Due + 1)
    BY <2>1, <2>3, <2>4, <2>5, <1>types DEF Due
  <2>7. Open => (cnt' >= Due' <=> cnt >= Due) /\ (cnt' = Due' <=> cnt = Due) /\ (cnt' > Due' <=> cnt > Due)
    BY <2>1, <2>4, <2>6, <1>types
  <2>8. QED
    BY <2>2, <2>5, <2>7 DEF IInv, BalanceInv
<1>13. ASSUME NEW s \in Senders, TakeLoad(s) PROVE BalanceInv'
  <2>1. UNCHANGED <<rpc, steals, final, local, aborted>> /\ UNCHANGED <<cnt, queue>>
    BY <1>13 DEF TakeLoad, packet, tokens, receiver, control
  <2>2. (Open' => Open) /\ (Inherited' => Inherited)
    BY <1>13, <2>1, SenderOver, Born DEF SenderStep, Open, Birth, TakeLoad
  <2>3. Uncounted' = Uncounted
    BY <1>13, UncountedSteps DEF SenderStep, PushSwap, SendAdd, TakeLoad
  <2>4. QED
    BY <2>1, <2>2, <2>3, <1>kept
<1>14. ASSUME NEW s \in Senders, TakeClear(s) PROVE BalanceInv'
  <2>1. UNCHANGED <<rpc, steals, final, local, aborted>> /\ UNCHANGED <<cnt, queue>>
    BY <1>14 DEF TakeClear, tokens, receiver, control
  <2>2. (Open' => Open) /\ (Inherited' => Inherited)
    BY <1>14, <2>1, SenderOver, Born DEF SenderStep, Open, Birth, TakeClear
  <2>3. Uncounted' = Uncounted
    BY <1>14, UncountedSteps DEF SenderStep, PushSwap, SendAdd, TakeClear
  <2>4. QED
    BY <2>1, <2>2, <2>3, <1>kept
<1>15. ASSUME NEW s \in Senders, Signal(s) PROVE BalanceInv'
  <2>1. UNCHANGED <<rpc, steals, final, local, aborted>> /\ UNCHANGED <<cnt, queue>>
    BY <1>15 DEF Signal, packet, receiver, control
  <2>2. (Open' => Open) /\ (Inherited' => Inherited)
    BY <1>15, <2>1, SenderOver, Born DEF SenderStep, Open, Birth, Signal
  <2>3. Uncounted' = Uncounted
    BY <1>15, UncountedSteps DEF SenderStep, PushSwap, SendAdd, Signal
  <2>4. QED
    BY <2>1, <2>2, <2>3, <1>kept
<1>16. ASSUME NEW s \in Senders, SendDisconnected(s) PROVE BalanceInv'
  <2>1. rpc = "gone" /\ rpc' = rpc
    BY <1>16 DEF SendDisconnected, receiver, control, IInv, GoneInv
  <2>2. QED
    BY <2>1 DEF BalanceInv, Open
<1>17. ASSUME NEW s \in Senders, DrainEnter(s) PROVE BalanceInv'
  <2>1. UNCHANGED <<rpc, steals, final, local, aborted>> /\ UNCHANGED <<cnt, queue>>
    BY <1>17 DEF DrainEnter, tokens, receiver, control
  <2>2. (Open' => Open) /\ (Inherited' => Inherited)
    BY <1>17, <2>1, SenderOver, Born DEF SenderStep, Open, Birth, DrainEnter
  <2>3. Uncounted' = Uncounted
    BY <1>17, UncountedSteps DEF SenderStep, PushSwap, SendAdd, DrainEnter
  <2>4. QED
    BY <2>1, <2>2, <2>3, <1>kept
<1>18. ASSUME NEW s \in Senders, DrainPop(s) PROVE BalanceInv'
  <2>1. rpc = "gone" /\ rpc' = rpc
    BY <1>18 DEF DrainPop, receiver, control, IInv, GoneInv
  <2>2. QED
    BY <2>1 DEF BalanceInv, Open
<1>19. ASSUME NEW s \in Senders, DrainHead(s) PROVE BalanceInv'
  <2>1. UNCHANGED <<rpc, steals, final, local, aborted>> /\ UNCHANGED <<cnt, queue>>
    BY <1>19 DEF DrainHead, packet, tokens, receiver, control
  <2>2. (Open' => Open) /\ (Inherited' => Inherited)
    BY <1>19, <2>1, SenderOver, Born DEF SenderStep, Open, Birth, DrainHead
  <2>3. Uncounted' = Uncounted
    BY <1>19, UncountedSteps DEF SenderStep, PushSwap, SendAdd, DrainHead
  <2>4. QED
    BY <2>1, <2>2, <2>3, <1>kept
<1>20. ASSUME NEW s \in Senders, DrainLeave(s) PROVE BalanceInv'
  <2>1. UNCHANGED <<rpc, steals, final, local, aborted>> /\ UNCHANGED <<cnt, queue>>
    BY <1>20 DEF DrainLeave, tokens, receiver, control
  <2>2. (Open' => Open) /\ (Inherited' => Inherited)
    BY <1>20, <2>1, SenderOver, Born DEF SenderStep, Open, Birth, DrainLeave
  <2>3. Uncounted' = Uncounted
    BY <1>20, UncountedSteps DEF SenderStep, PushSwap, SendAdd, DrainLeave
  <2>4. QED
    BY <2>1, <2>2, <2>3, <1>kept
<1>21. ASSUME OldWoken PROVE BalanceInv'
  <2>1. spc' = spc /\ channels' = channels
    BY <1>21 DEF OldWoken, packet, sender
  <2>2. (Open' => Open) /\ (Inherited' => Inherited) /\ Uncounted' = Uncounted
    BY <1>21, <2>1, <1>over DEF Open, OldWoken
  <2>3. /\ UNCHANGED <<cnt, queue, steals, final, aborted>> /\ rpc = "old" /\ rpc' \in {"abort", "try"}
    BY <1>21, <1>mode DEF OldWoken, NoToken, packet, tokens, sender
  <2>4. Inherited => Extra' = Extra
    BY <2>3, <1>mode, <1>types DEF Extra, Stolen
  <2>5. ~Spare' /\ (Exact' => Exact)
    BY <2>3, <1>mode DEF Spare, Exact
  <2>6. QED
    BY <2>1, <2>2, <2>3, <2>4, <2>5, <1>rec
<1>22. ASSUME OldAborted PROVE BalanceInv'
  <2>1. spc' = spc /\ channels' = channels
    BY <1>22 DEF OldAborted, packet, sender
  <2>2. (Open' => Open) /\ (Inherited' => Inherited) /\ Uncounted' = Uncounted
    BY <1>22, <2>1, <1>over DEF Open, OldAborted
  <2>3. /\ UNCHANGED <<cnt, queue, steals, final>> /\ rpc = "old" /\ rpc' \in {"abort", "try"}
    BY <1>22, <1>mode DEF OldAborted, NoToken, packet, tokens, sender
  <2>4. Inherited => Extra' = Extra
    BY <2>3, <1>mode, <1>types DEF Extra, Stolen
  <2>5. ~Spare' /\ (Exact' => Exact)
    BY <2>3, <1>mode DEF Spare, Exact
  <2>6. QED
    BY <2>1, <2>2, <2>3, <2>4, <2>5, <1>rec
<1>23. ASSUME RecvCall PROVE BalanceInv'
  <2>1. spc' = spc /\ channels' = channels
    BY <1>23 DEF RecvCall, packet, sender
  <2>2. (Open' => Open) /\ (Inherited' => Inherited) /\ Uncounted' = Uncounted
    BY <1>23, <2>1, <1>over DEF Open, RecvCall
  <2>3. /\ UNCHANGED <<cnt, queue, steals, final, aborted>> /\ rpc = "idle" /\ rpc' \in {"can", "try"}
    BY <1>23, <1>mode DEF RecvCall, packet, tokens, sender
  <2>4. Extra' = Extra
    BY <2>3, <1>mode, <1>types DEF Extra, Stolen
  <2>5. ~Spare' /\ (Exact' => Exact)
    BY <2>3, <1>mode DEF Spare, Exact
  <2>6. QED
    BY <2>1, <2>2, <2>3, <2>4, <2>5, <1>rec
<1>24. ASSUME TryPop PROVE BalanceInv'
  <2>1. spc' = spc /\ channels' = channels
    BY <1>24 DEF TryPop, Found, Return, sender
  <2>2. (Open' => Open) /\ (Inherited' => Inherited) /\ Uncounted' = Uncounted
    BY <1>24, <2>1, <1>over DEF Open, TryPop
  <2>3. CASE Poppable /\ Found(steals + 1)
    BY <1>24, <2>1, <2>2, <2>3, <1>pop DEF TryPop
  <2>4. CASE UNCHANGED <<queue, steals, final>> /\ rpc' \in {"tryhead", "spinhead", "fold"}
    <3>1. /\ rpc \in {"try", "spin"} /\ UNCHANGED <<cnt, local, aborted>>
          /\ rpc' = "tryhead" => rpc = "try"
      BY <1>24, <2>4 DEF TryPop, Found, Return
    <3>2. Extra' = Extra /\ (Spare' => Spare)
      BY <2>4, <3>1 DEF Extra, Stolen, Spare
    <3>3. QED
      BY <2>1, <2>2, <2>4, <3>1, <3>2, <1>rec DEF Exact
  <2>5. QED
    BY <1>24, <2>3, <2>4 DEF TryPop
<1>25. ASSUME TryHead PROVE BalanceInv'
  <2>1. spc' = spc /\ channels' = channels
    BY <1>25 DEF TryHead, packet, sender
  <2>2. (Open' => Open) /\ (Inherited' => Inherited) /\ Uncounted' = Uncounted
    BY <1>25, <2>1, <1>over DEF Open, TryHead
  <2>3. /\ UNCHANGED <<cnt, queue, steals, final, local, aborted>> /\ rpc \in {"tryhead", "spinhead"}
        /\ \/ rpc' = "look" /\ rpc = "tryhead" /\ queue = <<>>
           \/ rpc' \in {"spin", "panic_inconsistent"}
    BY <1>25 DEF TryHead, IsEmpty, packet
  <2>4. Extra' = Extra
    BY <2>3 DEF Extra, Stolen
  <2>5. ASSUME Open, Inherited, Spare', ~Spare PROVE cnt' > Due'
    <3>1. rpc' = "look" /\ rpc = "tryhead" /\ queue = <<>> /\ final /\ ~(steals > 0)
      BY <2>3, <2>5 DEF Spare
    <3>2. steals = 0
      BY <3>1, <1>types, <1>inv DEF StealsInv
    <3>3. cnt >= 0
      <4>1. toWake = NoToken
        BY <3>1 DEF IInv, ToWakeInv
      <4>2. QED
        BY <4>1, <2>5, <1>types DEF IInv, ArmedInv
    <3>4. Extra' = -1 /\ Len(queue') = 0
      BY <2>3, <3>1, <3>2 DEF Extra, Stolen
    <3>5. QED
      BY <2>2, <2>3, <3>3, <3>4, <1>types DEF Due
  <2>6. QED
    BY <2>1, <2>2, <2>3, <2>4, <2>5, <1>rec DEF Exact
<1>26. ASSUME FoldSwap PROVE BalanceInv'
  <2>1. spc' = spc /\ channels' = channels
    BY <1>26 DEF FoldSwap, sender
  <2>2. (Open' => Open) /\ (Inherited' => Inherited) /\ Uncounted' = Uncounted
    BY <1>26, <2>1, <1>over DEF Open, FoldSwap
  <2>3. CASE Over
    BY <2>1, <2>3, <1>over DEF BalanceInv, Open
  <2>4. CASE ~Over
    <3>1. rpc = "fold" /\ Open
      BY <1>26, <2>4 DEF FoldSwap, Open
    <3>2. /\ cnt' = 0 /\ steals' = steals - Foldable(cnt) /\ local' = cnt - Foldable(cnt)
          /\ rpc' = "foldbump" /\ UNCHANGED <<queue, final, aborted>>
      BY <1>26, <3>1, CountFacts DEF FoldSwap, AddBack
    <3>3. Foldable(cnt) \in Int
      BY <1>types DEF Foldable
    <3>4. Extra' = Extra + (-cnt) /\ ~Spare'
      <4>1. Stolen' = Stolen - Foldable(cnt) /\ Stolen \in Int
        BY <3>2, <3>3, <1>types DEF Stolen
      <4>2. Extra' = Stolen' - local' /\ Extra = Stolen /\ ~Spare'
        BY <3>1, <3>2 DEF Extra, Spare
      <4>3. QED
        BY <3>2, <3>3, <4>1, <4>2, <1>types
    <3>5. cnt' = cnt + (-cnt) /\ -cnt \in Int
      BY <3>2, <1>types
    <3>6. QED
      BY <2>1, <2>2, <3>2, <3>4, <3>5, <1>rec2 DEF Exact
  <2>5. QED
    BY <2>3, <2>4
<1>27. ASSUME Fold PROVE BalanceInv'
  <2>1. spc' = spc /\ channels' = channels
    BY <1>27 DEF Fold, sender
  <2>2. (Open' => Open) /\ (Inherited' => Inherited) /\ Uncounted' = Uncounted
    BY <1>27, <2>1, <1>over DEF Open, Fold
  <2>3. CASE Over
    BY <2>1, <2>3, <1>over DEF BalanceInv, Open
  <2>4. CASE ~Over
    <3>1. rpc = "foldbump" /\ Open
      BY <1>27, <2>4 DEF Fold, Open, IInv, OverInv, Mid
    <3>2. /\ cnt' = cnt + local /\ rpc' \in {"folded", "panic_steals"}
          /\ UNCHANGED <<queue, steals, final, aborted>>
      BY <1>27, <3>1, CountFacts DEF Fold
    <3>3. Extra' = Extra + local /\ ~Spare'
      BY <3>1, <3>2, <1>types DEF Extra, Stolen, Spare
    <3>4. QED
      BY <2>1, <2>2, <3>2, <3>3, <1>types, <1>rec2 DEF Exact
  <2>5. QED
    BY <2>3, <2>4
<1>28. ASSUME Folded PROVE BalanceInv'
  <2>1. spc' = spc /\ channels' = channels
    BY <1>28 DEF Folded, Found, Return, sender
  <2>2. (Open' => Open) /\ (Inherited' => Inherited) /\ Uncounted' = Uncounted
    BY <1>28, <2>1, <1>over DEF Open, Folded
  <2>3. Poppable
    BY <1>28 DEF Folded, IInv, SeenInv
  <2>4. QED
    BY <1>28, <2>1, <2>2, <2>3, <1>pop DEF Folded
<1>29. ASSUME TryLook PROVE BalanceInv'
  <2>1. spc' = spc /\ channels' = channels
    BY <1>29 DEF TryLook, Return, SawHangup, packet, sender
  <2>2. (Open' => Open) /\ (Inherited' => Inherited) /\ Uncounted' = Uncounted
    BY <1>29, <2>1, <1>over DEF Open, TryLook
  <2>3. CASE Over
    BY <2>1, <2>3, <1>over DEF BalanceInv, Open
  <2>4. CASE ~Over
    <3>1. /\ rpc = "look" /\ Open /\ UNCHANGED <<cnt, queue, steals, aborted, local>>
          /\ \/ rpc' \in {"decr", "panic_empty"} /\ final' = final
             \/ rpc' = "idle" /\ ~final'
      BY <1>29, <2>4, CountFacts DEF TryLook, Open, Return, packet
    <3>2. CASE final' = final \/ (~final /\ ~final')
      <4>1. Extra' = Extra /\ ~Spare'
        BY <3>1, <3>2 DEF Extra, Stolen, Spare
      <4>2. QED
        BY <2>1, <2>2, <3>1, <4>1, <1>rec DEF Exact
    <3>3. CASE ~final' /\ final
      <4>1. Spare
        BY <3>1, <3>3 DEF Spare
      <4>2. Exact' <=> Exact
        BY <3>1 DEF Exact
      <4>3. ~Exact
        BY <2>4, <3>1, <3>3 DEF IInv, SeenInv
      <4>4. Extra' = Extra + 1 /\ ~Spare'
        <5>1. Stolen' = steals /\ Stolen = steals - 1
          BY <3>1, <3>3, <1>types DEF Stolen
        <5>2. Extra' = Stolen' /\ Extra = Stolen /\ ~Spare'
          BY <3>1, <3>3 DEF Extra, Spare
        <5>3. QED
          BY <5>1, <5>2, <1>types
      <4>5. Due' = Due + 1 /\ Due \in Int
        BY <2>2, <3>1, <4>4, <1>types DEF Due
      <4>6. Inherited => cnt > Due
        BY <3>1, <4>1 DEF IInv, BalanceInv
      <4>7. QED
        BY <2>2, <3>1, <4>2, <4>3, <4>4, <4>5, <4>6, <1>types DEF BalanceInv
    <3>4. QED
      BY <3>1, <3>2, <3>3, <1>types
  <2>5. QED
    BY <2>3, <2>4
<1>30. ASSUME TryAgain PROVE BalanceInv'
  <2>1. spc' = spc /\ channels' = channels
    BY <1>30 DEF TryAgain, Found, Return, sender
  <2>2. (Open' => Open) /\ (Inherited' => Inherited) /\ Uncounted' = Uncounted
    BY <1>30, <2>1, <1>over DEF Open, TryAgain
  <2>3. Over
    BY <1>30 DEF TryAgain, IInv, OverInv, Mid
  <2>4. QED
    BY <2>1, <2>3, <1>over DEF BalanceInv, Open
<1>31. ASSUME TryAgainHead PROVE BalanceInv'
  <2>1. spc' = spc /\ channels' = channels
    BY <1>31 DEF TryAgainHead, Return, packet, sender
  <2>2. (Open' => Open) /\ (Inherited' => Inherited) /\ Uncounted' = Uncounted
    BY <1>31, <2>1, <1>over DEF Open, TryAgainHead
  <2>3. Over
    BY <1>31 DEF TryAgainHead, IInv, OverInv, Mid
  <2>4. QED
    BY <2>1, <2>3, <1>over DEF BalanceInv, Open
<1>32. ASSUME Decrement PROVE BalanceInv'
  <2>1. spc' = spc /\ channels' = channels
    BY <1>32 DEF Decrement, sender
  <2>2. (Open' => Open) /\ (Inherited' => Inherited) /\ Uncounted' = Uncounted
    BY <1>32, <2>1, <1>over DEF Open, Decrement
  <2>3. /\ UNCHANGED <<cnt, queue, final, aborted>> /\ rpc = "decr" /\ ~final
        /\ \/ local' = steals /\ steals' = 0 /\ rpc' = "sub"
           \/ rpc' = "panic_to_wake" /\ steals' = steals
    BY <1>32, <1>mode DEF Decrement, TryLocs
  <2>4. Extra' = Extra /\ ~Spare'
    BY <2>3, <1>types DEF Extra, Stolen, Spare
  <2>5. QED
    BY <2>1, <2>2, <2>3, <2>4, <1>rec DEF Exact
<1>33. ASSUME DecrementSub PROVE BalanceInv'
  <2>1. spc' = spc /\ channels' = channels
    BY <1>33 DEF DecrementSub, sender
  <2>2. (Open' => Open) /\ (Inherited' => Inherited) /\ Uncounted' = Uncounted
    BY <1>33, <2>1, <1>over DEF Open, DecrementSub
  <2>3. CASE Over
    BY <2>1, <2>3, <1>over DEF BalanceInv, Open
  <2>4. CASE ~Over
    <3>1. rpc = "sub" /\ Open
      BY <1>33, <2>4 DEF DecrementSub, Open
    <3>2. /\ cnt' = cnt - (1 + local) /\ rpc' \in {"wait", "unwake"}
          /\ UNCHANGED <<queue, steals, final, aborted, local>>
      BY <1>33, <3>1, CountFacts, ReceiverAsserts, <1>types DEF DecrementSub
    <3>3. Extra' = Extra + (-1 - local) /\ ~Spare'
      BY <3>1, <3>2, <1>types DEF Extra, Spare
    <3>4. cnt' = cnt + (-1 - local) /\ -1 - local \in Int
      BY <3>2, <1>types
    <3>5. QED
      BY <2>1, <2>2, <3>2, <3>3, <3>4, <1>rec2 DEF Exact
  <2>5. QED
    BY <2>3, <2>4
<1>34. ASSUME DecrementDisc PROVE BalanceInv'
  <2>1. spc' = spc /\ channels' = channels
    BY <1>34 DEF DecrementDisc, sender
  <2>2. (Open' => Open) /\ (Inherited' => Inherited) /\ Uncounted' = Uncounted
    BY <1>34, <2>1, <1>over DEF Open, DecrementDisc
  <2>3. Over
    BY <1>34 DEF DecrementDisc, IInv, OverInv, Mid
  <2>4. QED
    BY <2>1, <2>3, <1>over DEF BalanceInv, Open
<1>35. ASSUME DecrementFailed PROVE BalanceInv'
  <2>1. spc' = spc /\ channels' = channels
    BY <1>35 DEF DecrementFailed, sender
  <2>2. (Open' => Open) /\ (Inherited' => Inherited) /\ Uncounted' = Uncounted
    BY <1>35, <2>1, <1>over DEF Open, DecrementFailed
  <2>3. /\ UNCHANGED <<cnt, queue, steals, aborted>> /\ rpc = "unwake" /\ steals = 0
        /\ \/ rpc' = "cancelbump" /\ final' = final
           \/ rpc' = "try" /\ final'
    BY <1>35, <1>inv DEF DecrementFailed, StealsInv
  <2>4. Extra' = Extra /\ ~Spare'
    BY <2>3 DEF Extra, Stolen, Spare
  <2>5. QED
    BY <2>1, <2>2, <2>3, <2>4, <1>rec DEF Exact
<1>36. ASSUME WaitDone PROVE BalanceInv'
  <2>1. spc' = spc /\ channels' = channels
    BY <1>36 DEF WaitDone, packet, sender
  <2>2. (Open' => Open) /\ (Inherited' => Inherited) /\ Uncounted' = Uncounted
    BY <1>36, <2>1, <1>over DEF Open, WaitDone
  <2>3. /\ UNCHANGED <<cnt, queue, steals, aborted>> /\ rpc = "wait" /\ steals = 0
        /\ \/ rpc' = "abort"
           \/ rpc' = "try" /\ final'
    BY <1>36, <1>inv DEF WaitDone, StealsInv, packet
  <2>4. Extra' = Extra /\ ~Spare'
    BY <2>3 DEF Extra, Stolen, Spare
  <2>5. QED
    BY <2>1, <2>2, <2>3, <2>4, <1>rec DEF Exact
<1>37. ASSUME WaitAborted PROVE BalanceInv'
  <2>1. spc' = spc /\ channels' = channels
    BY <1>37 DEF WaitAborted, packet, sender
  <2>2. (Open' => Open) /\ (Inherited' => Inherited) /\ Uncounted' = Uncounted
    BY <1>37, <2>1, <1>over DEF Open, WaitAborted
  <2>3. /\ UNCHANGED <<cnt, queue, steals, final>> /\ rpc = "wait" /\ rpc' = "abort"
        /\ aborted' \in {"none", "select"} => aborted \in {"none", "select"}
    BY <1>37, <1>mode, <1>aborts DEF Aborts, WaitAborted, packet, tokens, sender
  <2>4. Extra' = Extra
    BY <2>3, <1>mode, <1>types DEF Extra, Stolen
  <2>5. ~Spare' /\ (Exact' => Exact)
    BY <2>3, <1>mode DEF Spare, Exact
  <2>6. QED
    BY <2>1, <2>2, <2>3, <2>4, <2>5, <1>rec
<1>38. ASSUME CanRecv PROVE BalanceInv'
  <2>1. spc' = spc /\ channels' = channels
    BY <1>38 DEF CanRecv, Return, packet, sender
  <2>2. (Open' => Open) /\ (Inherited' => Inherited) /\ Uncounted' = Uncounted
    BY <1>38, <2>1, <1>over DEF Open, CanRecv
  <2>3. /\ UNCHANGED <<cnt, queue, steals, aborted>> /\ rpc = "can" /\ rpc' \in {"idle", "decr"} /\ ~final'
    BY <1>38, <1>mode DEF CanRecv, Return, packet, tokens, sender
  <2>4. Extra' = Extra
    BY <2>3, <1>mode, <1>types DEF Extra, Stolen
  <2>5. ~Spare' /\ (Exact' => Exact)
    BY <2>3, <1>mode DEF Spare, Exact
  <2>6. QED
    BY <2>1, <2>2, <2>3, <2>4, <2>5, <1>rec
<1>39. ASSUME StartCancelBump PROVE BalanceInv'
  <2>1. spc' = spc /\ channels' = channels
    BY <1>39 DEF StartCancelBump, Return, sender
  <2>2. (Open' => Open) /\ (Inherited' => Inherited) /\ Uncounted' = Uncounted
    BY <1>39, <2>1, <1>over DEF Open, StartCancelBump
  <2>3. CASE Over
    BY <2>1, <2>3, <1>over DEF BalanceInv, Open
  <2>4. CASE ~Over
    <3>1. rpc = "cancelbump" /\ Open /\ steals = 0
      BY <1>39, <2>4, <1>inv DEF StartCancelBump, Open, StealsInv
    <3>2. cnt' = cnt + 1 /\ rpc' = "idle" /\ ~final' /\ UNCHANGED <<queue, steals, aborted>>
      BY <1>39, <3>1, CountFacts, ReceiverAsserts, <1>types DEF StartCancelBump, Return
    <3>3. Extra' = Extra + 1 /\ ~Spare'
      <4>1. Stolen' = steals
        BY <3>2, <1>types DEF Stolen
      <4>2. Extra' = Stolen' /\ Extra = -1 /\ ~Spare'
        BY <3>1, <3>2 DEF Extra, Spare
      <4>3. QED
        BY <3>1, <4>1, <4>2
    <3>4. QED
      BY <2>1, <2>2, <3>2, <3>3, <1>types, <1>rec2 DEF Exact
  <2>5. QED
    BY <2>3, <2>4
<1>40. ASSUME AbortLoad PROVE BalanceInv'
  <2>1. spc' = spc /\ channels' = channels
    BY <1>40 DEF AbortLoad, packet, sender
  <2>2. (Open' => Open) /\ (Inherited' => Inherited) /\ Uncounted' = Uncounted
    BY <1>40, <2>1, <1>over DEF Open, AbortLoad
  <2>3. /\ UNCHANGED <<cnt, queue, steals, final, aborted>> /\ rpc = "abort" /\ rpc' = "abortbump"
    BY <1>40, <1>mode DEF AbortLoad, UpgradeDone, packet, tokens, sender
  <2>4. Extra' = Extra
    BY <2>3, <1>mode, <1>types DEF Extra, Stolen
  <2>5. ~Spare' /\ (Exact' => Exact)
    BY <2>3, <1>mode DEF Spare, Exact
  <2>6. QED
    BY <2>1, <2>2, <2>3, <2>4, <2>5, <1>rec
<1>41. ASSUME AbortBump PROVE BalanceInv'
  <2>1. spc' = spc /\ channels' = channels
    BY <1>41 DEF AbortBump, sender
  <2>2. (Open' => Open) /\ (Inherited' => Inherited) /\ Uncounted' = Uncounted
    BY <1>41, <2>1, <1>over DEF Open, AbortBump
  <2>3. CASE Over
    BY <2>1, <2>3, <1>over DEF BalanceInv, Open
  <2>4. CASE ~Over
    <3>1. rpc = "abortbump" /\ Open
      BY <1>41, <2>4 DEF AbortBump, Open
    <3>2. /\ cnt' = cnt + (local + 1) /\ rpc' \in {"aborttake", "abortspin"}
          /\ UNCHANGED <<queue, steals, final, aborted, local>>
      BY <1>41, <3>1, CountFacts, ReceiverAsserts, <1>types DEF AbortBump
    <3>3. Extra' = Extra + (local + 1) /\ ~Spare'
      BY <3>1, <3>2, <1>types DEF Extra, Spare
    <3>4. QED
      BY <2>1, <2>2, <3>2, <3>3, <1>types, <1>rec2 DEF Exact
  <2>5. QED
    BY <2>3, <2>4
<1>42. ASSUME AbortDisc PROVE BalanceInv'
  <2>1. spc' = spc /\ channels' = channels
    BY <1>42 DEF AbortDisc, AbortReturn, Return, sender
  <2>2. (Open' => Open) /\ (Inherited' => Inherited) /\ Uncounted' = Uncounted
    BY <1>42, <2>1, <1>over DEF Open, AbortDisc
  <2>3. Over
    BY <1>42 DEF AbortDisc, IInv, OverInv, Mid
  <2>4. QED
    BY <2>1, <2>3, <1>over DEF BalanceInv, Open
<1>43. ASSUME AbortFinish PROVE BalanceInv'
  <2>1. spc' = spc /\ channels' = channels
    BY <1>43 DEF AbortFinish, AbortReturn, Return, sender
  <2>2. (Open' => Open) /\ (Inherited' => Inherited) /\ Uncounted' = Uncounted
    BY <1>43, <2>1, <1>over DEF Open, AbortFinish
  <2>3. /\ UNCHANGED <<cnt, queue, aborted>> /\ rpc \in {"aborttake", "abortspin"} /\ steals' = local
        /\ \/ rpc' = "idle" /\ ~final'
           \/ rpc' = "try" /\ final' /\ rmode = "timeout"
    BY <1>43, ReceiverAsserts DEF AbortFinish, AbortReturn, Return
  <2>4. Exact' <=> Exact
    BY <2>3 DEF Exact
  <2>5. CASE ~final'
    <3>1. Extra' = Extra /\ ~Spare'
      BY <2>3, <2>5, <1>types DEF Extra, Stolen, Spare
    <3>2. QED
      BY <2>1, <2>2, <2>3, <2>4, <3>1, <1>rec
  <2>6. CASE final'
    <3>1. ~Exact
      BY <2>3, <2>6, <1>mode DEF ModeInv, AbortLocs
    <3>2. Extra' = Extra - 1
      BY <2>3, <2>6, <1>types DEF Extra, Stolen
    <3>3. Due' = Due - 1 /\ Due \in Int
      BY <2>2, <2>3, <3>2, <1>types DEF Due
    <3>4. Open /\ Inherited => cnt >= Due
      BY DEF IInv, BalanceInv
    <3>5. QED
      BY <2>2, <2>3, <2>4, <3>1, <3>3, <3>4, <1>types DEF BalanceInv
  <2>7. QED
    BY <2>3, <2>5, <2>6
<1>44. ASSUME DropPort PROVE BalanceInv'
  <2>1. spc' = spc /\ channels' = channels
    BY <1>44 DEF DropPort, sender
  <2>2. (Open' => Open) /\ (Inherited' => Inherited) /\ Uncounted' = Uncounted
    BY <1>44, <2>1, <1>over DEF Open, DropPort
  <2>3. /\ UNCHANGED <<cnt, queue, steals, final, aborted>> /\ rpc = "idle" /\ rpc' = "dropcas" /\ local' = steals
    BY <1>44, <1>mode DEF DropPort, tokens, sender
  <2>4. Extra' = Extra
    BY <2>3, <1>mode, <1>types DEF Extra, Stolen
  <2>5. ~Spare' /\ (Exact' => Exact)
    BY <2>3, <1>mode DEF Spare, Exact
  <2>6. QED
    BY <2>1, <2>2, <2>3, <2>4, <2>5, <1>rec
<1>45. ASSUME DropCas PROVE BalanceInv'
  <2>1. spc' = spc /\ channels' = channels
    BY <1>45 DEF DropCas, sender
  <2>2. (Open' => Open) /\ (Inherited' => Inherited) /\ Uncounted' = Uncounted
    BY <1>45, <2>1, <1>over DEF Open, DropCas
  <2>3. CASE rpc' = "gone"
    BY <2>3 DEF BalanceInv, Open
  <2>4. CASE rpc' # "gone"
    <3>1. UNCHANGED <<cnt, queue, local, aborted>> /\ rpc = "dropcas" /\ rpc' = "dropdrain"
      BY <1>45, <2>4 DEF DropCas
    <3>2. Extra' = Extra /\ ~Spare'
      BY <3>1 DEF Extra, Spare
    <3>3. QED
      BY <2>1, <2>2, <3>1, <3>2, <1>rec DEF Exact
  <2>5. QED
    BY <2>3, <2>4
<1>46. ASSUME DropDrain PROVE BalanceInv'
  <2>1. spc' = spc /\ channels' = channels
    BY <1>46 DEF DropDrain, sender
  <2>2. (Open' => Open) /\ (Inherited' => Inherited) /\ Uncounted' = Uncounted
    BY <1>46, <2>1, <1>over DEF Open, DropDrain
  <2>3. CASE Poppable
    <3>1. /\ UNCHANGED <<cnt, aborted, rpc>> /\ rpc = "dropdrain" /\ local' = local + 1
          /\ queue' = Tail(queue) /\ queue # <<>>
      BY <1>46, <2>3 DEF DropDrain, Poppable
    <3>2. Len(queue') = Len(queue) - 1 /\ Len(queue') \in Nat
      BY <3>1, <1>types, PopsHead
    <3>3. Extra' = Extra + 1 /\ ~Spare'
      BY <3>1, <1>types DEF Extra, Spare
    <3>4. Due' = Due
      BY <2>2, <3>2, <3>3, <1>types DEF Due
    <3>5. QED
      BY <2>2, <3>1, <3>3, <3>4 DEF IInv, BalanceInv, Exact
  <2>4. CASE ~Poppable
    <3>1. UNCHANGED <<cnt, queue, local, aborted>> /\ rpc = "dropdrain" /\ rpc' = "dropcas"
      BY <1>46, <2>4 DEF DropDrain
    <3>2. Extra' = Extra /\ ~Spare'
      BY <3>1 DEF Extra, Spare
    <3>3. QED
      BY <2>1, <2>2, <3>1, <3>2, <1>rec DEF Exact
  <2>5. QED
    BY <2>3, <2>4
<1>47. CASE Terminated
  BY <1>47, <1>same DEF Terminated, vars, packet, tokens, sender, receiver, control
<1>48. QED
  BY <1>1, <1>2, <1>3, <1>4, <1>5, <1>6, <1>7, <1>8, <1>9, <1>10, <1>11, <1>12, <1>13, <1>14, <1>15,
       <1>16, <1>17, <1>18, <1>19, <1>20, <1>21, <1>22, <1>23, <1>24, <1>25, <1>26, <1>27, <1>28,
       <1>29, <1>30, <1>31, <1>32, <1>33, <1>34, <1>35, <1>36, <1>37, <1>38, <1>39, <1>40, <1>41,
       <1>42, <1>43, <1>44, <1>45, <1>46, <1>47 DEF Next, SenderStep, ReceiverStep

\* The count stays below the messages and the waits there have been.
LEMMA LimitInvStep ==
  ASSUME IInv, Next
  PROVE  LimitInv'
<1>types. /\ cnt \in Int /\ local \in Int /\ steals \in Int /\ accepted \in Nat /\ blocks \in Nat
          /\ spc \in [Senders -> SenderLocs] /\ Uncounted \in Nat /\ Uncounted <= accepted
          /\ Limit \in Int /\ Reached \in Int
  <2>1. /\ cnt \in Int /\ local \in Int /\ steals \in Int /\ accepted \in Nat /\ blocks \in Nat
        /\ spc \in [Senders -> SenderLocs] /\ Uncounted <= accepted
    BY DEF IInv, TypeInv, CountTypes, LocTypes, TokenTypes, QueueTypes, SendsInv
  <2>2. Uncounted \in Nat
    BY UncountedIs, CountBounds
  <2>3. QED
    BY <2>1, <2>2 DEF Limit, Reached
<1>inv. LimitInv
  BY DEF IInv
<1>over. ASSUME spc' = spc, channels' = channels
         PROVE  (Over' <=> Over) /\ Uncounted' = Uncounted
  BY <1>over DEF Over, Uncounted
<1>same. ASSUME UNCHANGED <<rpc, cnt, channels, spc, local, accepted, blocks>> PROVE LimitInv'
  BY <1>same, <1>inv DEF LimitInv, Limit, Reached, Open, Over, Uncounted
<1>1. ASSUME NEW s \in Senders, Inherit(s) PROVE LimitInv'
  <2>1. UNCHANGED <<rpc, cnt, local, accepted, blocks>>
    BY <1>1 DEF Inherit, tokens, receiver, control
  <2>2. Open' => Open
    BY <1>1, <2>1, SenderOver DEF SenderStep, Open
  <2>3. Uncounted' = Uncounted
    BY <1>1, UncountedSteps DEF SenderStep, PushSwap, SendAdd, Inherit
  <2>4. QED
    BY <2>1, <2>2, <2>3, <1>inv DEF LimitInv, Limit, Reached
<1>2. ASSUME NEW s \in Senders, InheritCnt(s) PROVE LimitInv'
  <2>1. UNCHANGED <<rpc, local, accepted, blocks>> /\ cnt' = -1 /\ spc[Creator] = "inheritcnt"
    BY <1>2 DEF InheritCnt, receiver, control, IInv, LockInv, Birth
  <2>2. cnt = 0
    BY <2>1 DEF IInv, BirthInv
  <2>3. Open' => Open
    BY <1>2, <2>1, SenderOver DEF SenderStep, Open
  <2>4. Uncounted' = Uncounted
    BY <1>2, UncountedSteps DEF SenderStep, PushSwap, SendAdd, InheritCnt
  <2>5. Limit' = Limit /\ Reached' <= Reached
    BY <2>1, <2>2, <2>4, <1>types DEF Limit, Reached
  <2>6. Reached' \in Int
    BY <2>1, <1>types DEF Reached
  <2>7. QED
    BY <2>3, <2>5, <2>6, <1>inv, <1>types DEF LimitInv
<1>3. ASSUME NEW s \in Senders, InheritSteals(s) PROVE LimitInv'
  <2>1. UNCHANGED <<rpc, cnt, local, accepted, blocks>>
    BY <1>3 DEF InheritSteals, packet, tokens, control
  <2>2. Open' => Open
    BY <1>3, <2>1, SenderOver DEF SenderStep, Open
  <2>3. Uncounted' = Uncounted
    BY <1>3, UncountedSteps DEF SenderStep, PushSwap, SendAdd, InheritSteals
  <2>4. QED
    BY <2>1, <2>2, <2>3, <1>inv DEF LimitInv, Limit, Reached
<1>4. ASSUME NEW s \in Senders, InheritUnlock(s) PROVE LimitInv'
  <2>1. UNCHANGED <<rpc, cnt, local, accepted, blocks>>
    BY <1>4 DEF InheritUnlock, tokens, receiver, control
  <2>2. Open' => Open
    BY <1>4, <2>1, SenderOver DEF SenderStep, Open
  <2>3. Uncounted' = Uncounted
    BY <1>4, UncountedSteps DEF SenderStep, PushSwap, SendAdd, InheritUnlock
  <2>4. QED
    BY <2>1, <2>2, <2>3, <1>inv DEF LimitInv, Limit, Reached
<1>5. ASSUME NEW s \in Senders, SendCall(s) PROVE LimitInv'
  <2>1. UNCHANGED <<rpc, cnt, local, accepted, blocks>>
    BY <1>5 DEF SendCall, packet, tokens, receiver, control
  <2>2. Open' => Open
    BY <1>5, <2>1, SenderOver DEF SenderStep, Open
  <2>3. Uncounted' = Uncounted
    BY <1>5, UncountedSteps DEF SenderStep, PushSwap, SendAdd, SendCall
  <2>4. QED
    BY <2>1, <2>2, <2>3, <1>inv DEF LimitInv, Limit, Reached
<1>6. ASSUME NEW s \in Senders, CloneChan(s) PROVE LimitInv'
  <2>1. UNCHANGED <<rpc, cnt, local, accepted, blocks>>
    BY <1>6 DEF CloneChan, tokens, receiver, control
  <2>2. Open' => Open
    BY <1>6, <2>1, SenderOver DEF SenderStep, Open
  <2>3. Uncounted' = Uncounted
    BY <1>6, UncountedSteps DEF SenderStep, PushSwap, SendAdd, CloneChan
  <2>4. QED
    BY <2>1, <2>2, <2>3, <1>inv DEF LimitInv, Limit, Reached
<1>7. ASSUME NEW s \in Senders, DropChan(s) PROVE LimitInv'
  <2>1. UNCHANGED <<rpc, cnt, local, accepted, blocks>>
    BY <1>7 DEF DropChan, tokens, receiver, control
  <2>2. Open' => Open
    BY <1>7, <2>1, SenderOver DEF SenderStep, Open
  <2>3. Uncounted' = Uncounted
    BY <1>7, UncountedSteps DEF SenderStep, PushSwap, SendAdd, DropChan
  <2>4. QED
    BY <2>1, <2>2, <2>3, <1>inv DEF LimitInv, Limit, Reached
<1>8. ASSUME NEW s \in Senders, DropSwap(s) PROVE LimitInv'
  <2>1. ~Open'
    <3>1. spc[s] = "dropswap" /\ channels' = channels
      BY <1>8 DEF DropSwap
    <3>2. channels = 0
      BY <3>1 DEF IInv, HandleInv, TypeInv, CountTypes
    <3>3. \A t \in Senders : spc[t] = "dropswap" => t = s
      BY <3>1, <3>2 DEF IInv, HandleInv
    <3>4. spc' = [spc EXCEPT ![s] = spc'[s]] /\ spc'[s] # "dropswap"
      BY <1>8, Moves DEF Move
    <3>5. QED
      BY <3>1, <3>2, <3>3, <3>4, <1>types DEF Over, Open
  <2>2. QED
    BY <2>1 DEF LimitInv
<1>9. ASSUME NEW s \in Senders, SendCheck(s) PROVE LimitInv'
  <2>1. UNCHANGED <<rpc, cnt, local, accepted, blocks>>
    BY <1>9 DEF SendCheck, packet, tokens, receiver, control
  <2>2. Open' => Open
    BY <1>9, <2>1, SenderOver DEF SenderStep, Open
  <2>3. Uncounted' = Uncounted
    BY <1>9, UncountedSteps DEF SenderStep, PushSwap, SendAdd, SendCheck
  <2>4. QED
    BY <2>1, <2>2, <2>3, <1>inv DEF LimitInv, Limit, Reached
<1>10. ASSUME NEW s \in Senders, PushSwap(s) PROVE LimitInv'
  <2>1. UNCHANGED <<rpc, cnt, local, blocks>> /\ accepted' = accepted + 1
    BY <1>10 DEF PushSwap, receiver, control
  <2>2. Open' => Open
    BY <1>10, <2>1, SenderOver DEF SenderStep, Open
  <2>3. Uncounted' = Uncounted + 1
    BY <1>10, UncountedSteps DEF SenderStep
  <2>4. Limit' = Limit /\ Reached' = Reached
    BY <2>1, <2>3, <1>types DEF Limit, Reached
  <2>5. QED
    BY <2>2, <2>4, <1>inv DEF LimitInv
<1>11. ASSUME NEW s \in Senders, PushLink(s) PROVE LimitInv'
  <2>1. UNCHANGED <<rpc, cnt, local, accepted, blocks>>
    BY <1>11 DEF PushLink, tokens, receiver, control
  <2>2. Open' => Open
    BY <1>11, <2>1, SenderOver DEF SenderStep, Open
  <2>3. Uncounted' = Uncounted
    BY <1>11, UncountedSteps DEF SenderStep, PushSwap, SendAdd, PushLink
  <2>4. QED
    BY <2>1, <2>2, <2>3, <1>inv DEF LimitInv, Limit, Reached
<1>12. ASSUME NEW s \in Senders, SendAdd(s) PROVE LimitInv'
  <2>1. UNCHANGED <<rpc, local, accepted, blocks>>
    BY <1>12 DEF SendAdd, receiver, control
  <2>2. (Open' => Open) /\ (Open => cnt' = cnt + 1)
    BY <1>12, <2>1, SenderOver, CountFacts DEF SenderStep, Open, SendAdd
  <2>3. Uncounted' = Uncounted - 1
    BY <1>12, UncountedSteps DEF SenderStep
  <2>4. Open => Limit' = Limit + 1 /\ Reached' = Reached + 1
    BY <2>1, <2>2, <2>3, <1>types DEF Limit, Reached
  <2>5. QED
    BY <2>2, <2>4, <1>inv, <1>types DEF LimitInv
<1>13. ASSUME NEW s \in Senders, TakeLoad(s) PROVE LimitInv'
  <2>1. UNCHANGED <<rpc, cnt, local, accepted, blocks>>
    BY <1>13 DEF TakeLoad, packet, tokens, receiver, control
  <2>2. Open' => Open
    BY <1>13, <2>1, SenderOver DEF SenderStep, Open
  <2>3. Uncounted' = Uncounted
    BY <1>13, UncountedSteps DEF SenderStep, PushSwap, SendAdd, TakeLoad
  <2>4. QED
    BY <2>1, <2>2, <2>3, <1>inv DEF LimitInv, Limit, Reached
<1>14. ASSUME NEW s \in Senders, TakeClear(s) PROVE LimitInv'
  <2>1. UNCHANGED <<rpc, cnt, local, accepted, blocks>>
    BY <1>14 DEF TakeClear, tokens, receiver, control
  <2>2. Open' => Open
    BY <1>14, <2>1, SenderOver DEF SenderStep, Open
  <2>3. Uncounted' = Uncounted
    BY <1>14, UncountedSteps DEF SenderStep, PushSwap, SendAdd, TakeClear
  <2>4. QED
    BY <2>1, <2>2, <2>3, <1>inv DEF LimitInv, Limit, Reached
<1>15. ASSUME NEW s \in Senders, Signal(s) PROVE LimitInv'
  <2>1. UNCHANGED <<rpc, cnt, local, accepted, blocks>>
    BY <1>15 DEF Signal, packet, receiver, control
  <2>2. Open' => Open
    BY <1>15, <2>1, SenderOver DEF SenderStep, Open
  <2>3. Uncounted' = Uncounted
    BY <1>15, UncountedSteps DEF SenderStep, PushSwap, SendAdd, Signal
  <2>4. QED
    BY <2>1, <2>2, <2>3, <1>inv DEF LimitInv, Limit, Reached
<1>16. ASSUME NEW s \in Senders, SendDisconnected(s) PROVE LimitInv'
  <2>1. rpc = "gone" /\ rpc' = rpc
    BY <1>16 DEF SendDisconnected, receiver, control, IInv, GoneInv
  <2>2. QED
    BY <2>1 DEF LimitInv, Open
<1>17. ASSUME NEW s \in Senders, DrainEnter(s) PROVE LimitInv'
  <2>1. UNCHANGED <<rpc, cnt, local, accepted, blocks>>
    BY <1>17 DEF DrainEnter, tokens, receiver, control
  <2>2. Open' => Open
    BY <1>17, <2>1, SenderOver DEF SenderStep, Open
  <2>3. Uncounted' = Uncounted
    BY <1>17, UncountedSteps DEF SenderStep, PushSwap, SendAdd, DrainEnter
  <2>4. QED
    BY <2>1, <2>2, <2>3, <1>inv DEF LimitInv, Limit, Reached
<1>18. ASSUME NEW s \in Senders, DrainPop(s) PROVE LimitInv'
  <2>1. UNCHANGED <<rpc, cnt, local, accepted, blocks>>
    BY <1>18 DEF DrainPop, tokens, receiver, control
  <2>2. Open' => Open
    BY <1>18, <2>1, SenderOver DEF SenderStep, Open
  <2>3. Uncounted' = Uncounted
    BY <1>18, UncountedSteps DEF SenderStep, PushSwap, SendAdd, DrainPop
  <2>4. QED
    BY <2>1, <2>2, <2>3, <1>inv DEF LimitInv, Limit, Reached
<1>19. ASSUME NEW s \in Senders, DrainHead(s) PROVE LimitInv'
  <2>1. UNCHANGED <<rpc, cnt, local, accepted, blocks>>
    BY <1>19 DEF DrainHead, packet, tokens, receiver, control
  <2>2. Open' => Open
    BY <1>19, <2>1, SenderOver DEF SenderStep, Open
  <2>3. Uncounted' = Uncounted
    BY <1>19, UncountedSteps DEF SenderStep, PushSwap, SendAdd, DrainHead
  <2>4. QED
    BY <2>1, <2>2, <2>3, <1>inv DEF LimitInv, Limit, Reached
<1>20. ASSUME NEW s \in Senders, DrainLeave(s) PROVE LimitInv'
  <2>1. UNCHANGED <<rpc, cnt, local, accepted, blocks>>
    BY <1>20 DEF DrainLeave, tokens, receiver, control
  <2>2. Open' => Open
    BY <1>20, <2>1, SenderOver DEF SenderStep, Open
  <2>3. Uncounted' = Uncounted
    BY <1>20, UncountedSteps DEF SenderStep, PushSwap, SendAdd, DrainLeave
  <2>4. QED
    BY <2>1, <2>2, <2>3, <1>inv DEF LimitInv, Limit, Reached
<1>21. ASSUME OldWoken PROVE LimitInv'
  <2>1. spc' = spc /\ channels' = channels /\ rpc # "gone"
    BY <1>21 DEF OldWoken, packet, sender
  <2>2. (Open' => Open) /\ Uncounted' = Uncounted /\ (Over' <=> Over)
    BY <2>1, <1>over DEF Open
  <2>3. UNCHANGED <<cnt, accepted, blocks>> /\ rpc \in {"old"} /\ rpc' \in {"abort", "try"}
    BY <1>21 DEF OldWoken, NoToken, packet, tokens, sender
  <2>4. Limit' >= Limit /\ Limit' \in Int /\ Reached' = Reached
    BY <2>2, <2>3, <1>types DEF Limit, Reached
  <2>5. QED
    BY <2>2, <2>4, <1>inv, <1>types DEF LimitInv
<1>22. ASSUME OldAborted PROVE LimitInv'
  <2>1. spc' = spc /\ channels' = channels /\ rpc # "gone"
    BY <1>22 DEF OldAborted, packet, sender
  <2>2. (Open' => Open) /\ Uncounted' = Uncounted /\ (Over' <=> Over)
    BY <2>1, <1>over DEF Open
  <2>3. UNCHANGED <<cnt, accepted, blocks>> /\ rpc \in {"old"} /\ rpc' \in {"abort", "try"}
    BY <1>22 DEF OldAborted, NoToken, packet, tokens, sender
  <2>4. Limit' >= Limit /\ Limit' \in Int /\ Reached' = Reached
    BY <2>2, <2>3, <1>types DEF Limit, Reached
  <2>5. QED
    BY <2>2, <2>4, <1>inv, <1>types DEF LimitInv
<1>23. ASSUME RecvCall PROVE LimitInv'
  <2>1. spc' = spc /\ channels' = channels /\ rpc # "gone"
    BY <1>23 DEF RecvCall, packet, sender
  <2>2. (Open' => Open) /\ Uncounted' = Uncounted /\ (Over' <=> Over)
    BY <2>1, <1>over DEF Open
  <2>3. UNCHANGED <<cnt, accepted, blocks>> /\ rpc \in {"idle"} /\ rpc' \in {"can", "try"}
    BY <1>23 DEF RecvCall, packet, tokens, sender
  <2>4. Limit' >= Limit /\ Limit' \in Int /\ Reached' = Reached
    BY <2>2, <2>3, <1>types DEF Limit, Reached
  <2>5. QED
    BY <2>2, <2>4, <1>inv, <1>types DEF LimitInv
<1>24. ASSUME TryPop PROVE LimitInv'
  <2>1. spc' = spc /\ channels' = channels /\ rpc # "gone"
    BY <1>24 DEF TryPop, Found, Return, sender
  <2>2. (Open' => Open) /\ Uncounted' = Uncounted /\ (Over' <=> Over)
    BY <2>1, <1>over DEF Open
  <2>3. UNCHANGED <<cnt, accepted, blocks>> /\ rpc \in {"try", "spin"} /\ rpc' \in {"tryhead", "spinhead", "fold", "idle"}
    BY <1>24 DEF TryPop, Found, FoldDue, Poppable, Return, tokens, sender
  <2>4. Limit' >= Limit /\ Limit' \in Int /\ Reached' = Reached
    BY <2>2, <2>3, <1>types DEF Limit, Reached
  <2>5. QED
    BY <2>2, <2>4, <1>inv, <1>types DEF LimitInv
<1>25. ASSUME TryHead PROVE LimitInv'
  <2>1. spc' = spc /\ channels' = channels /\ rpc # "gone"
    BY <1>25 DEF TryHead, packet, sender
  <2>2. (Open' => Open) /\ Uncounted' = Uncounted /\ (Over' <=> Over)
    BY <2>1, <1>over DEF Open
  <2>3. UNCHANGED <<cnt, accepted, blocks>> /\ rpc \in {"tryhead", "spinhead"} /\ rpc' \in {"spin", "look", "panic_inconsistent"}
    BY <1>25 DEF TryHead, IsEmpty, packet, tokens, sender
  <2>4. Limit' >= Limit /\ Limit' \in Int /\ Reached' = Reached
    BY <2>2, <2>3, <1>types DEF Limit, Reached
  <2>5. QED
    BY <2>2, <2>4, <1>inv, <1>types DEF LimitInv
<1>26. ASSUME FoldSwap PROVE LimitInv'
  <2>1. spc' = spc /\ channels' = channels /\ rpc # "gone"
    BY <1>26 DEF FoldSwap, sender
  <2>2. (Open' => Open) /\ Uncounted' = Uncounted /\ (Over' <=> Over)
    BY <2>1, <1>over DEF Open
  <2>3. CASE Over
    BY <2>2, <2>3 DEF LimitInv, Open
  <2>4. CASE ~Over
    <3>1. rpc = "fold" /\ Open
      BY <1>26, <2>4 DEF FoldSwap, Open
    <3>2. /\ cnt' = 0 /\ rpc' = "foldbump" /\ UNCHANGED <<accepted, blocks>>
          /\ local' = cnt - Foldable(cnt)
      BY <1>26, <3>1, CountFacts, ReceiverAsserts, <1>types DEF FoldSwap, sender, AddBack
    <3>3. Reached <= Limit
      BY <3>1, <1>inv DEF LimitInv
    <3>f. local' \in Int /\ (local' <= cnt \/ local' = 0)
      <4>1. steals > 0
        BY <3>1, <1>types, Numbers DEF IInv, StealsInv
      <4>2. QED
        BY <3>2, <4>1, <1>types DEF Foldable
    <3>4. Limit' \in Int /\ Reached' \in Int /\ Reached' <= Limit'
      BY <2>2, <3>1, <3>2, <3>3, <1>types, <3>f DEF Limit, Reached
    <3>5. QED
      BY <3>4 DEF LimitInv
  <2>5. QED
    BY <2>3, <2>4
<1>27. ASSUME Fold PROVE LimitInv'
  <2>1. spc' = spc /\ channels' = channels /\ rpc # "gone"
    BY <1>27 DEF Fold, sender
  <2>2. (Open' => Open) /\ Uncounted' = Uncounted /\ (Over' <=> Over)
    BY <2>1, <1>over DEF Open
  <2>3. CASE Over
    BY <2>2, <2>3 DEF LimitInv, Open
  <2>4. CASE ~Over
    <3>1. rpc = "foldbump" /\ Open
      BY <1>27, <2>4 DEF Fold, Open, IInv, OverInv, Mid
    <3>2. /\ cnt' = cnt + local /\ rpc' \in {"folded", "panic_steals"}
          /\ UNCHANGED <<accepted, blocks>>
      BY <1>27, <3>1, CountFacts, ReceiverAsserts, <1>types DEF Fold, sender
    <3>3. Reached <= Limit
      BY <3>1, <1>inv DEF LimitInv
    <3>4. Limit' \in Int /\ Reached' \in Int /\ Reached' <= Limit'
      BY <2>2, <3>1, <3>2, <3>3, <1>types DEF Limit, Reached
    <3>5. QED
      BY <3>4 DEF LimitInv
  <2>5. QED
    BY <2>3, <2>4
<1>28. ASSUME Folded PROVE LimitInv'
  <2>1. spc' = spc /\ channels' = channels /\ rpc # "gone"
    BY <1>28 DEF Folded, Found, Return, sender
  <2>2. (Open' => Open) /\ Uncounted' = Uncounted /\ (Over' <=> Over)
    BY <2>1, <1>over DEF Open
  <2>3. UNCHANGED <<cnt, accepted, blocks>> /\ rpc \in {"folded"} /\ rpc' \in {"idle"}
    BY <1>28 DEF Folded, Found, Return, tokens, sender
  <2>4. Limit' >= Limit /\ Limit' \in Int /\ Reached' = Reached
    BY <2>2, <2>3, <1>types DEF Limit, Reached
  <2>5. QED
    BY <2>2, <2>4, <1>inv, <1>types DEF LimitInv
<1>29. ASSUME TryLook PROVE LimitInv'
  <2>1. spc' = spc /\ channels' = channels /\ rpc # "gone"
    BY <1>29 DEF TryLook, Return, SawHangup, packet, sender
  <2>2. (Open' => Open) /\ Uncounted' = Uncounted /\ (Over' <=> Over)
    BY <2>1, <1>over DEF Open
  <2>3. UNCHANGED <<cnt, accepted, blocks>> /\ rpc \in {"look"} /\ rpc' \in {"again", "decr", "panic_empty", "idle"}
    BY <1>29 DEF TryLook, Return, SawHangup, packet, tokens, sender
  <2>4. Limit' >= Limit /\ Limit' \in Int /\ Reached' = Reached
    BY <2>2, <2>3, <1>types DEF Limit, Reached
  <2>5. QED
    BY <2>2, <2>4, <1>inv, <1>types DEF LimitInv
<1>30. ASSUME TryAgain PROVE LimitInv'
  <2>1. spc' = spc /\ channels' = channels /\ rpc # "gone"
    BY <1>30 DEF TryAgain, Found, Return, sender
  <2>2. (Open' => Open) /\ Uncounted' = Uncounted /\ (Over' <=> Over)
    BY <2>1, <1>over DEF Open
  <2>3. UNCHANGED <<cnt, accepted, blocks>> /\ rpc \in {"again"} /\ rpc' \in {"againhead", "idle"}
    BY <1>30 DEF TryAgain, Found, Poppable, Return, tokens, sender
  <2>4. Limit' >= Limit /\ Limit' \in Int /\ Reached' = Reached
    BY <2>2, <2>3, <1>types DEF Limit, Reached
  <2>5. QED
    BY <2>2, <2>4, <1>inv, <1>types DEF LimitInv
<1>31. ASSUME TryAgainHead PROVE LimitInv'
  <2>1. spc' = spc /\ channels' = channels /\ rpc # "gone"
    BY <1>31 DEF TryAgainHead, Return, packet, sender
  <2>2. (Open' => Open) /\ Uncounted' = Uncounted /\ (Over' <=> Over)
    BY <2>1, <1>over DEF Open
  <2>3. UNCHANGED <<cnt, accepted, blocks>> /\ rpc \in {"againhead"} /\ rpc' \in {"idle", "panic_inconsistent"}
    BY <1>31 DEF TryAgainHead, Return, IsEmpty, Disconnected, packet, tokens, sender
  <2>4. Limit' >= Limit /\ Limit' \in Int /\ Reached' = Reached
    BY <2>2, <2>3, <1>types DEF Limit, Reached
  <2>5. QED
    BY <2>2, <2>4, <1>inv, <1>types DEF LimitInv
<1>32. ASSUME Decrement PROVE LimitInv'
  <2>1. spc' = spc /\ channels' = channels /\ rpc # "gone"
    BY <1>32 DEF Decrement, sender
  <2>2. (Open' => Open) /\ Uncounted' = Uncounted /\ (Over' <=> Over)
    BY <2>1, <1>over DEF Open
  <2>3. /\ UNCHANGED <<cnt, accepted>> /\ rpc = "decr"
        /\ \/ rpc' = "sub" /\ blocks' = blocks + 1
           \/ rpc' = "panic_to_wake" /\ blocks' = blocks
    BY <1>32 DEF Decrement, sender
  <2>4. Limit' = Limit /\ Reached' = Reached
    BY <2>2, <2>3, <1>types DEF Limit, Reached
  <2>5. QED
    BY <2>2, <2>4, <1>inv DEF LimitInv
<1>33. ASSUME DecrementSub PROVE LimitInv'
  <2>1. spc' = spc /\ channels' = channels /\ rpc # "gone"
    BY <1>33 DEF DecrementSub, sender
  <2>2. (Open' => Open) /\ Uncounted' = Uncounted /\ (Over' <=> Over)
    BY <2>1, <1>over DEF Open
  <2>3. CASE Over
    BY <2>2, <2>3 DEF LimitInv, Open
  <2>4. CASE ~Over
    <3>1. rpc = "sub" /\ Open
      BY <1>33, <2>4 DEF DecrementSub, Open
    <3>2. /\ cnt' = cnt - (1 + local) /\ rpc' \in {"wait", "unwake"}
          /\ UNCHANGED <<accepted, blocks>>
      BY <1>33, <3>1, CountFacts, ReceiverAsserts, <1>types DEF DecrementSub, sender
    <3>3. Reached <= Limit
      BY <3>1, <1>inv DEF LimitInv
    <3>f. local >= -1
      BY <3>1 DEF IInv, StealsInv
    <3>4. Limit' \in Int /\ Reached' \in Int /\ Reached' <= Limit'
      BY <2>2, <3>1, <3>2, <3>3, <1>types, <3>f DEF Limit, Reached
    <3>5. QED
      BY <3>4 DEF LimitInv
  <2>5. QED
    BY <2>3, <2>4
<1>34. ASSUME DecrementDisc PROVE LimitInv'
  <2>1. spc' = spc /\ channels' = channels /\ rpc # "gone"
    BY <1>34 DEF DecrementDisc, sender
  <2>2. (Open' => Open) /\ Uncounted' = Uncounted /\ (Over' <=> Over)
    BY <2>1, <1>over DEF Open
  <2>3. Over
    BY <1>34 DEF DecrementDisc, IInv, OverInv, Mid
  <2>4. QED
    BY <2>2, <2>3 DEF LimitInv, Open
<1>35. ASSUME DecrementFailed PROVE LimitInv'
  <2>1. spc' = spc /\ channels' = channels /\ rpc # "gone"
    BY <1>35 DEF DecrementFailed, sender
  <2>2. (Open' => Open) /\ Uncounted' = Uncounted /\ (Over' <=> Over)
    BY <2>1, <1>over DEF Open
  <2>3. UNCHANGED <<cnt, accepted, blocks>> /\ rpc \in {"unwake"} /\ rpc' \in {"cancelbump", "try"}
    BY <1>35 DEF DecrementFailed, Free, NoToken, sender
  <2>4. Limit' >= Limit /\ Limit' \in Int /\ Reached' = Reached
    BY <2>2, <2>3, <1>types DEF Limit, Reached
  <2>5. QED
    BY <2>2, <2>4, <1>inv, <1>types DEF LimitInv
<1>36. ASSUME WaitDone PROVE LimitInv'
  <2>1. spc' = spc /\ channels' = channels /\ rpc # "gone"
    BY <1>36 DEF WaitDone, packet, sender
  <2>2. (Open' => Open) /\ Uncounted' = Uncounted /\ (Over' <=> Over)
    BY <2>1, <1>over DEF Open
  <2>3. UNCHANGED <<cnt, accepted, blocks>> /\ rpc \in {"wait"} /\ rpc' \in {"abort", "try"}
    BY <1>36 DEF WaitDone, NoToken, packet, tokens, sender
  <2>4. Limit' >= Limit /\ Limit' \in Int /\ Reached' = Reached
    BY <2>2, <2>3, <1>types DEF Limit, Reached
  <2>5. QED
    BY <2>2, <2>4, <1>inv, <1>types DEF LimitInv
<1>37. ASSUME WaitAborted PROVE LimitInv'
  <2>1. spc' = spc /\ channels' = channels /\ rpc # "gone"
    BY <1>37 DEF WaitAborted, packet, sender
  <2>2. (Open' => Open) /\ Uncounted' = Uncounted /\ (Over' <=> Over)
    BY <2>1, <1>over DEF Open
  <2>3. UNCHANGED <<cnt, accepted, blocks>> /\ rpc \in {"wait"} /\ rpc' \in {"abort"}
    BY <1>37 DEF WaitAborted, packet, tokens, sender
  <2>4. Limit' >= Limit /\ Limit' \in Int /\ Reached' = Reached
    BY <2>2, <2>3, <1>types DEF Limit, Reached
  <2>5. QED
    BY <2>2, <2>4, <1>inv, <1>types DEF LimitInv
<1>38. ASSUME CanRecv PROVE LimitInv'
  <2>1. spc' = spc /\ channels' = channels /\ rpc # "gone"
    BY <1>38 DEF CanRecv, Return, packet, sender
  <2>2. (Open' => Open) /\ Uncounted' = Uncounted /\ (Over' <=> Over)
    BY <2>1, <1>over DEF Open
  <2>3. UNCHANGED <<cnt, accepted, blocks>> /\ rpc \in {"can"} /\ rpc' \in {"idle", "decr"}
    BY <1>38 DEF CanRecv, Return, packet, tokens, sender
  <2>4. Limit' >= Limit /\ Limit' \in Int /\ Reached' = Reached
    BY <2>2, <2>3, <1>types DEF Limit, Reached
  <2>5. QED
    BY <2>2, <2>4, <1>inv, <1>types DEF LimitInv
<1>39. ASSUME StartCancelBump PROVE LimitInv'
  <2>1. spc' = spc /\ channels' = channels /\ rpc # "gone"
    BY <1>39 DEF StartCancelBump, Return, sender
  <2>2. (Open' => Open) /\ Uncounted' = Uncounted /\ (Over' <=> Over)
    BY <2>1, <1>over DEF Open
  <2>3. CASE Over
    BY <2>2, <2>3 DEF LimitInv, Open
  <2>4. CASE ~Over
    <3>1. rpc = "cancelbump" /\ Open
      BY <1>39, <2>4 DEF StartCancelBump, Open
    <3>2. cnt' = cnt + 1 /\ rpc' = "idle" /\ UNCHANGED <<accepted, blocks>>
      BY <1>39, <3>1, CountFacts, ReceiverAsserts, <1>types DEF StartCancelBump, sender, Return
    <3>3. Reached <= Limit
      BY <3>1, <1>inv DEF LimitInv
    <3>4. Limit' \in Int /\ Reached' \in Int /\ Reached' <= Limit'
      BY <2>2, <3>1, <3>2, <3>3, <1>types DEF Limit, Reached
    <3>5. QED
      BY <3>4 DEF LimitInv
  <2>5. QED
    BY <2>3, <2>4
<1>40. ASSUME AbortLoad PROVE LimitInv'
  <2>1. spc' = spc /\ channels' = channels /\ rpc # "gone"
    BY <1>40 DEF AbortLoad, packet, sender
  <2>2. (Open' => Open) /\ Uncounted' = Uncounted /\ (Over' <=> Over)
    BY <2>1, <1>over DEF Open
  <2>3. CASE Over
    BY <2>2, <2>3 DEF LimitInv, Open
  <2>4. CASE ~Over
    <3>1. rpc = "abort" /\ Open
      BY <1>40, <2>4 DEF AbortLoad, Open
    <3>2. /\ UNCHANGED <<cnt, accepted, blocks>> /\ rpc' = "abortbump"
          /\ local' = IF cnt < 0 THEN -cnt ELSE 0
      BY <1>40, <3>1, CountFacts, ReceiverAsserts, <1>types DEF AbortLoad, sender, packet
    <3>3. Reached <= Limit
      BY <3>1, <1>inv DEF LimitInv
    <3>f. blocks >= 1
      BY <3>1, <1>types DEF IInv, ToWakeInv, Block, AbortLocs
    <3>4. Limit' \in Int /\ Reached' \in Int /\ Reached' <= Limit'
      BY <2>2, <3>1, <3>2, <3>3, <1>types, <3>f DEF Limit, Reached
    <3>5. QED
      BY <3>4 DEF LimitInv
  <2>5. QED
    BY <2>3, <2>4
<1>41. ASSUME AbortBump PROVE LimitInv'
  <2>1. spc' = spc /\ channels' = channels /\ rpc # "gone"
    BY <1>41 DEF AbortBump, sender
  <2>2. (Open' => Open) /\ Uncounted' = Uncounted /\ (Over' <=> Over)
    BY <2>1, <1>over DEF Open
  <2>3. CASE Over
    BY <2>2, <2>3 DEF LimitInv, Open
  <2>4. CASE ~Over
    <3>1. rpc = "abortbump" /\ Open
      BY <1>41, <2>4 DEF AbortBump, Open
    <3>2. /\ cnt' = cnt + local + 1 /\ rpc' \in {"aborttake", "abortspin"}
          /\ UNCHANGED <<accepted, blocks>>
      BY <1>41, <3>1, CountFacts, ReceiverAsserts, <1>types DEF AbortBump, sender
    <3>3. Reached <= Limit
      BY <3>1, <1>inv DEF LimitInv
    <3>4. Limit' \in Int /\ Reached' \in Int /\ Reached' <= Limit'
      BY <2>2, <3>1, <3>2, <3>3, <1>types DEF Limit, Reached
    <3>5. QED
      BY <3>4 DEF LimitInv
  <2>5. QED
    BY <2>3, <2>4
<1>42. ASSUME AbortDisc PROVE LimitInv'
  <2>1. spc' = spc /\ channels' = channels /\ rpc # "gone"
    BY <1>42 DEF AbortDisc, AbortReturn, Return, sender
  <2>2. (Open' => Open) /\ Uncounted' = Uncounted /\ (Over' <=> Over)
    BY <2>1, <1>over DEF Open
  <2>3. Over
    BY <1>42 DEF AbortDisc, IInv, OverInv, Mid
  <2>4. QED
    BY <2>2, <2>3 DEF LimitInv, Open
<1>43. ASSUME AbortFinish PROVE LimitInv'
  <2>1. spc' = spc /\ channels' = channels /\ rpc # "gone"
    BY <1>43 DEF AbortFinish, AbortReturn, Return, sender
  <2>2. (Open' => Open) /\ Uncounted' = Uncounted /\ (Over' <=> Over)
    BY <2>1, <1>over DEF Open
  <2>3. UNCHANGED <<cnt, accepted, blocks>> /\ rpc \in {"aborttake", "abortspin"} /\ rpc' \in {"idle", "try", "panic_steals"}
    BY <1>43 DEF AbortFinish, Free, AbortReturn, NoToken, Return, sender
  <2>4. Limit' >= Limit /\ Limit' \in Int /\ Reached' = Reached
    BY <2>2, <2>3, <1>types DEF Limit, Reached
  <2>5. QED
    BY <2>2, <2>4, <1>inv, <1>types DEF LimitInv
<1>44. ASSUME DropPort PROVE LimitInv'
  <2>1. spc' = spc /\ channels' = channels /\ rpc # "gone"
    BY <1>44 DEF DropPort, sender
  <2>2. (Open' => Open) /\ Uncounted' = Uncounted /\ (Over' <=> Over)
    BY <2>1, <1>over DEF Open
  <2>3. UNCHANGED <<cnt, accepted, blocks>> /\ rpc \in {"idle"} /\ rpc' \in {"dropcas"}
    BY <1>44 DEF DropPort, tokens, sender
  <2>4. Limit' >= Limit /\ Limit' \in Int /\ Reached' = Reached
    BY <2>2, <2>3, <1>types DEF Limit, Reached
  <2>5. QED
    BY <2>2, <2>4, <1>inv, <1>types DEF LimitInv
<1>45. ASSUME DropCas PROVE LimitInv'
  <2>1. spc' = spc /\ channels' = channels /\ rpc # "gone"
    BY <1>45 DEF DropCas, sender
  <2>2. (Open' => Open) /\ Uncounted' = Uncounted /\ (Over' <=> Over)
    BY <2>1, <1>over DEF Open
  <2>3. CASE rpc' = "gone"
    BY <2>3 DEF LimitInv, Open
  <2>4. CASE rpc' # "gone"
    <3>1. UNCHANGED <<cnt, accepted, blocks>> /\ rpc = "dropcas" /\ rpc' = "dropdrain"
      BY <1>45, <2>4 DEF DropCas, sender
    <3>2. Limit' = Limit /\ Reached' = Reached
      BY <2>2, <3>1 DEF Limit, Reached
    <3>3. QED
      BY <2>2, <3>2, <1>inv DEF LimitInv
  <2>5. QED
    BY <2>3, <2>4
<1>46. ASSUME DropDrain PROVE LimitInv'
  <2>1. spc' = spc /\ channels' = channels /\ rpc # "gone"
    BY <1>46 DEF DropDrain, sender
  <2>2. (Open' => Open) /\ Uncounted' = Uncounted /\ (Over' <=> Over)
    BY <2>1, <1>over DEF Open
  <2>3. UNCHANGED <<cnt, accepted, blocks>> /\ rpc \in {"dropdrain"} /\ rpc' \in {"dropcas", "dropdrain"}
    BY <1>46 DEF DropDrain, Poppable, Destroy, tokens, sender
  <2>4. Limit' >= Limit /\ Limit' \in Int /\ Reached' = Reached
    BY <2>2, <2>3, <1>types DEF Limit, Reached
  <2>5. QED
    BY <2>2, <2>4, <1>inv, <1>types DEF LimitInv
<1>47. CASE Terminated
  BY <1>47, <1>same DEF Terminated, vars, packet, tokens, sender, receiver, control
<1>48. QED
  BY <1>1, <1>2, <1>3, <1>4, <1>5, <1>6, <1>7, <1>8, <1>9, <1>10, <1>11, <1>12, <1>13, <1>14, <1>15,
       <1>16, <1>17, <1>18, <1>19, <1>20, <1>21, <1>22, <1>23, <1>24, <1>25, <1>26, <1>27, <1>28,
       <1>29, <1>30, <1>31, <1>32, <1>33, <1>34, <1>35, <1>36, <1>37, <1>38, <1>39, <1>40, <1>41,
       <1>42, <1>43, <1>44, <1>45, <1>46, <1>47 DEF Next, SenderStep, ReceiverStep

\* Somebody will still empty the queue of a port that is gone.
LEMMA LeftInvStep ==
  ASSUME IInv, Next
  PROVE  LeftInv'
<1>types. /\ spc \in [Senders -> SenderLocs] /\ channels \in Int /\ drain \in Int
          /\ queue \in Seq(Nat) /\ cnt \in Int /\ local \in Int
  BY DEF IInv, TypeInv, LocTypes, CountTypes, QueueTypes
<1>inv. LeftInv
  BY DEF IInv
<1>drain. DrainInv
  BY DEF IInv
<1>kept. ASSUME UNCHANGED <<rpc, queue, drain>>, channels' > 0 => channels > 0,
                \A t \in Senders : spc[t] \in {"link", "add", "disc", "enter", "drain", "drainhead"} \cup {"leave"} =>
                  spc'[t] = spc[t]
         PROVE  LeftInv'
  BY <1>kept, <1>inv DEF LeftInv
<1>same. ASSUME UNCHANGED <<rpc, channels, queue, spc, drain>> PROVE LeftInv'
  BY <1>same, <1>inv DEF LeftInv
<1>1. ASSUME NEW s \in Senders, Inherit(s) PROVE LeftInv'
  <2>1. UNCHANGED <<rpc, queue, drain>> /\ (channels' > 0 => channels > 0)
    BY <1>1, <1>types DEF Inherit, tokens, receiver, control
  <2>2. spc' = [spc EXCEPT ![s] = spc'[s]] /\ spc[s] \notin {"link", "add", "disc", "enter", "drain", "drainhead"} \cup {"leave"}
    BY <1>1, Moves DEF Move
  <2>3. \A t \in Senders : spc[t] \in {"link", "add", "disc", "enter", "drain", "drainhead"} \cup {"leave"} => spc'[t] = spc[t]
    BY <2>2, <1>types
  <2>4. QED
    BY <2>1, <2>3, <1>kept
<1>2. ASSUME NEW s \in Senders, InheritCnt(s) PROVE LeftInv'
  <2>1. UNCHANGED <<rpc, queue, drain>> /\ (channels' > 0 => channels > 0)
    BY <1>2, <1>types DEF InheritCnt, tokens, receiver, control
  <2>2. spc' = [spc EXCEPT ![s] = spc'[s]] /\ spc[s] \notin {"link", "add", "disc", "enter", "drain", "drainhead"} \cup {"leave"}
    BY <1>2, Moves DEF Move
  <2>3. \A t \in Senders : spc[t] \in {"link", "add", "disc", "enter", "drain", "drainhead"} \cup {"leave"} => spc'[t] = spc[t]
    BY <2>2, <1>types
  <2>4. QED
    BY <2>1, <2>3, <1>kept
<1>3. ASSUME NEW s \in Senders, InheritSteals(s) PROVE LeftInv'
  <2>1. UNCHANGED <<rpc, queue, drain>> /\ (channels' > 0 => channels > 0)
    BY <1>3, <1>types DEF InheritSteals, packet, tokens, control
  <2>2. spc' = [spc EXCEPT ![s] = spc'[s]] /\ spc[s] \notin {"link", "add", "disc", "enter", "drain", "drainhead"} \cup {"leave"}
    BY <1>3, Moves DEF Move
  <2>3. \A t \in Senders : spc[t] \in {"link", "add", "disc", "enter", "drain", "drainhead"} \cup {"leave"} => spc'[t] = spc[t]
    BY <2>2, <1>types
  <2>4. QED
    BY <2>1, <2>3, <1>kept
<1>4. ASSUME NEW s \in Senders, InheritUnlock(s) PROVE LeftInv'
  <2>1. UNCHANGED <<rpc, queue, drain, channels>>
    BY <1>4 DEF InheritUnlock, receiver, control
  <2>2. \A t \in Senders : spc[t] \in {"link", "add", "disc", "enter", "drain", "drainhead"} \cup {"leave"} => spc'[t] = spc[t]
    BY <1>4, <1>types, AtUnlock DEF InheritUnlock
  <2>3. QED
    BY <2>1, <2>2, <1>kept
<1>5. ASSUME NEW s \in Senders, SendCall(s) PROVE LeftInv'
  <2>1. UNCHANGED <<rpc, queue, drain>> /\ (channels' > 0 => channels > 0)
    BY <1>5, <1>types DEF SendCall, packet, tokens, receiver, control
  <2>2. spc' = [spc EXCEPT ![s] = spc'[s]] /\ spc[s] \notin {"link", "add", "disc", "enter", "drain", "drainhead"} \cup {"leave"}
    BY <1>5, Moves DEF Move
  <2>3. \A t \in Senders : spc[t] \in {"link", "add", "disc", "enter", "drain", "drainhead"} \cup {"leave"} => spc'[t] = spc[t]
    BY <2>2, <1>types
  <2>4. QED
    BY <2>1, <2>3, <1>kept
<1>6. ASSUME NEW s \in Senders, CloneChan(s) PROVE LeftInv'
  <2>1. UNCHANGED <<rpc, queue, drain>> /\ spc[s] = "idle"
    BY <1>6 DEF CloneChan, receiver, control
  <2>2. channels > 0
    BY <2>1, OpenWhile
  <2>3. PICK t \in Senders : spc[t] = "gone" /\ spc' = [spc EXCEPT ![t] = "idle"]
    BY <1>6 DEF CloneChan, At
  <2>4. \A u \in Senders : spc[u] \in {"link", "add", "disc", "enter", "drain", "drainhead"} \cup {"leave"} => spc'[u] = spc[u]
    BY <2>3, <1>types
  <2>5. QED
    BY <2>1, <2>2, <2>4, <1>kept
<1>7. ASSUME NEW s \in Senders, DropChan(s) PROVE LeftInv'
  <2>1. UNCHANGED <<rpc, queue, drain>> /\ (channels' > 0 => channels > 0)
    BY <1>7, <1>types DEF DropChan, tokens, receiver, control
  <2>2. spc' = [spc EXCEPT ![s] = spc'[s]] /\ spc[s] \notin {"link", "add", "disc", "enter", "drain", "drainhead"} \cup {"leave"}
    BY <1>7, Moves DEF Move
  <2>3. \A t \in Senders : spc[t] \in {"link", "add", "disc", "enter", "drain", "drainhead"} \cup {"leave"} => spc'[t] = spc[t]
    BY <2>2, <1>types
  <2>4. QED
    BY <2>1, <2>3, <1>kept
<1>8. ASSUME NEW s \in Senders, DropSwap(s) PROVE LeftInv'
  <2>1. UNCHANGED <<rpc, queue, drain>> /\ (channels' > 0 => channels > 0)
    BY <1>8, <1>types DEF DropSwap, tokens, receiver, control
  <2>2. spc' = [spc EXCEPT ![s] = spc'[s]] /\ spc[s] \notin {"link", "add", "disc", "enter", "drain", "drainhead"} \cup {"leave"}
    BY <1>8, Moves DEF Move
  <2>3. \A t \in Senders : spc[t] \in {"link", "add", "disc", "enter", "drain", "drainhead"} \cup {"leave"} => spc'[t] = spc[t]
    BY <2>2, <1>types
  <2>4. QED
    BY <2>1, <2>3, <1>kept
<1>9. ASSUME NEW s \in Senders, SendCheck(s) PROVE LeftInv'
  <2>1. UNCHANGED <<rpc, queue, drain>> /\ (channels' > 0 => channels > 0)
    BY <1>9, <1>types DEF SendCheck, packet, tokens, receiver, control
  <2>2. spc' = [spc EXCEPT ![s] = spc'[s]] /\ spc[s] \notin {"link", "add", "disc", "enter", "drain", "drainhead"} \cup {"leave"}
    BY <1>9, Moves DEF Move
  <2>3. \A t \in Senders : spc[t] \in {"link", "add", "disc", "enter", "drain", "drainhead"} \cup {"leave"} => spc'[t] = spc[t]
    BY <2>2, <1>types
  <2>4. QED
    BY <2>1, <2>3, <1>kept
<1>10. ASSUME NEW s \in Senders, PushSwap(s) PROVE LeftInv'
  <2>1. spc'[s] \in {"link", "add", "disc", "enter", "drain", "drainhead"}
    BY <1>10, Moves DEF Move
  <2>2. QED
    BY <2>1 DEF LeftInv
<1>11. ASSUME NEW s \in Senders, PushLink(s) PROVE LeftInv'
  <2>1. spc'[s] \in {"link", "add", "disc", "enter", "drain", "drainhead"}
    BY <1>11, Moves DEF Move
  <2>2. QED
    BY <2>1 DEF LeftInv
<1>12. ASSUME NEW s \in Senders, SendAdd(s) PROVE LeftInv'
  <2>1. rpc' = rpc /\ spc[s] = "add"
    BY <1>12 DEF SendAdd, receiver, control
  <2>2. ASSUME rpc = "gone" PROVE spc'[s] = "disc"
    <3>1. Disconnected(cnt) /\ cnt < -1
      BY <2>1, <2>2, CountFacts
    <3>2. QED
      BY <1>12, <3>1, <1>types DEF SendAdd, At, SeesWaiter
  <2>3. QED
    BY <2>1, <2>2 DEF LeftInv
<1>13. ASSUME NEW s \in Senders, TakeLoad(s) PROVE LeftInv'
  <2>1. UNCHANGED <<rpc, queue, drain>> /\ (channels' > 0 => channels > 0)
    BY <1>13, <1>types DEF TakeLoad, packet, tokens, receiver, control
  <2>2. spc' = [spc EXCEPT ![s] = spc'[s]] /\ spc[s] \notin {"link", "add", "disc", "enter", "drain", "drainhead"} \cup {"leave"}
    BY <1>13, Moves DEF Move
  <2>3. \A t \in Senders : spc[t] \in {"link", "add", "disc", "enter", "drain", "drainhead"} \cup {"leave"} => spc'[t] = spc[t]
    BY <2>2, <1>types
  <2>4. QED
    BY <2>1, <2>3, <1>kept
<1>14. ASSUME NEW s \in Senders, TakeClear(s) PROVE LeftInv'
  <2>1. UNCHANGED <<rpc, queue, drain>> /\ (channels' > 0 => channels > 0)
    BY <1>14, <1>types DEF TakeClear, tokens, receiver, control
  <2>2. spc' = [spc EXCEPT ![s] = spc'[s]] /\ spc[s] \notin {"link", "add", "disc", "enter", "drain", "drainhead"} \cup {"leave"}
    BY <1>14, Moves DEF Move
  <2>3. \A t \in Senders : spc[t] \in {"link", "add", "disc", "enter", "drain", "drainhead"} \cup {"leave"} => spc'[t] = spc[t]
    BY <2>2, <1>types
  <2>4. QED
    BY <2>1, <2>3, <1>kept
<1>15. ASSUME NEW s \in Senders, Signal(s) PROVE LeftInv'
  <2>1. UNCHANGED <<rpc, queue, drain>> /\ (channels' > 0 => channels > 0)
    BY <1>15, <1>types DEF Signal, packet, receiver, control
  <2>2. spc' = [spc EXCEPT ![s] = spc'[s]] /\ spc[s] \notin {"link", "add", "disc", "enter", "drain", "drainhead"} \cup {"leave"}
    BY <1>15, Moves DEF Move
  <2>3. \A t \in Senders : spc[t] \in {"link", "add", "disc", "enter", "drain", "drainhead"} \cup {"leave"} => spc'[t] = spc[t]
    BY <2>2, <1>types
  <2>4. QED
    BY <2>1, <2>3, <1>kept
<1>16. ASSUME NEW s \in Senders, SendDisconnected(s) PROVE LeftInv'
  <2>1. spc'[s] \in {"link", "add", "disc", "enter", "drain", "drainhead"}
    BY <1>16, Moves DEF Move
  <2>2. QED
    BY <2>1 DEF LeftInv
<1>17. ASSUME NEW s \in Senders, DrainEnter(s) PROVE LeftInv'
  <2>1. /\ spc[s] = "enter" /\ drain' = drain + 1
        /\ spc' = [spc EXCEPT ![s] = IF drain = 0 THEN "drain" ELSE "idle"]
    BY <1>17 DEF DrainEnter, At
  <2>2. CASE drain = 0
    <3>1. spc'[s] = "drain"
      BY <2>1, <2>2, <1>types
    <3>2. QED
      BY <3>1 DEF LeftInv
  <2>3. CASE drain # 0
    <3>1. drain >= 1
      BY <2>3, <1>types, <1>drain DEF DrainInv
    <3>2. PICK d \in Senders : spc[d] \in Drainers
      BY <3>1, <1>drain DEF DrainInv
    <3>3. spc'[d] = spc[d]
      BY <2>1, <3>2, <1>types DEF Drainers
    <3>4. drain' > 1
      BY <2>1, <3>1, <1>types
    <3>5. QED
      BY <3>2, <3>3, <3>4 DEF LeftInv, Drainers
  <2>4. QED
    BY <2>2, <2>3
<1>18. ASSUME NEW s \in Senders, DrainPop(s) PROVE LeftInv'
  <2>1. spc'[s] \in {"link", "add", "disc", "enter", "drain", "drainhead"}
    BY <1>18, Moves DEF Move
  <2>2. QED
    BY <2>1 DEF LeftInv
<1>19. ASSUME NEW s \in Senders, DrainHead(s) PROVE LeftInv'
  <2>1. queue' = queue /\ spc' = [spc EXCEPT ![s] = IF queue = <<>> THEN "leave" ELSE "drain"]
    BY <1>19 DEF DrainHead, At, packet
  <2>2. queue # <<>> => spc'[s] = "drain"
    BY <2>1, <1>types
  <2>3. QED
    BY <2>1, <2>2 DEF LeftInv
<1>20. ASSUME NEW s \in Senders, DrainLeave(s) PROVE LeftInv'
  <2>1. /\ UNCHANGED <<rpc, queue, channels>> /\ spc[s] = "leave"
        /\ spc' = [spc EXCEPT ![s] = IF drain = 1 THEN "idle" ELSE "drain"]
    BY <1>20 DEF DrainLeave, At, LastDrainer, receiver, control
  <2>2. CASE drain # 1
    <3>1. spc'[s] = "drain"
      BY <2>1, <2>2, <1>types
    <3>2. QED
      BY <3>1 DEF LeftInv
  <2>3. CASE drain = 1
    <3>1. ~(drain > 1)
      BY <2>3
    <3>2. \A t \in Senders : spc[t] \in {"link", "add", "disc", "enter", "drain", "drainhead"} => spc'[t] = spc[t]
      BY <2>1, <1>types
    <3>3. QED
      BY <2>1, <3>1, <3>2, <1>inv DEF LeftInv
  <2>4. QED
    BY <2>2, <2>3
<1>21. ASSUME OldWoken PROVE LeftInv'
  <2>1. rpc' # "gone"
    BY <1>21 DEF OldWoken
  <2>2. QED
    BY <2>1 DEF LeftInv
<1>22. ASSUME OldAborted PROVE LeftInv'
  <2>1. rpc' # "gone"
    BY <1>22 DEF OldAborted
  <2>2. QED
    BY <2>1 DEF LeftInv
<1>23. ASSUME RecvCall PROVE LeftInv'
  <2>1. rpc' # "gone"
    BY <1>23 DEF RecvCall
  <2>2. QED
    BY <2>1 DEF LeftInv
<1>24. ASSUME TryPop PROVE LeftInv'
  <2>1. rpc' # "gone"
    BY <1>24 DEF TryPop, Found, Return
  <2>2. QED
    BY <2>1 DEF LeftInv
<1>25. ASSUME TryHead PROVE LeftInv'
  <2>1. rpc' # "gone"
    BY <1>25 DEF TryHead
  <2>2. QED
    BY <2>1 DEF LeftInv
<1>26. ASSUME FoldSwap PROVE LeftInv'
  <2>1. rpc' # "gone"
    BY <1>26 DEF FoldSwap
  <2>2. QED
    BY <2>1 DEF LeftInv
<1>27. ASSUME Fold PROVE LeftInv'
  <2>1. rpc' # "gone"
    BY <1>27 DEF Fold
  <2>2. QED
    BY <2>1 DEF LeftInv
<1>28. ASSUME Folded PROVE LeftInv'
  <2>1. rpc' # "gone"
    BY <1>28 DEF Folded, Found, Return
  <2>2. QED
    BY <2>1 DEF LeftInv
<1>29. ASSUME TryLook PROVE LeftInv'
  <2>1. rpc' # "gone"
    BY <1>29 DEF TryLook, Return, SawHangup
  <2>2. QED
    BY <2>1 DEF LeftInv
<1>30. ASSUME TryAgain PROVE LeftInv'
  <2>1. rpc' # "gone"
    BY <1>30 DEF TryAgain, Found, Return
  <2>2. QED
    BY <2>1 DEF LeftInv
<1>31. ASSUME TryAgainHead PROVE LeftInv'
  <2>1. rpc' # "gone"
    BY <1>31 DEF TryAgainHead, Return
  <2>2. QED
    BY <2>1 DEF LeftInv
<1>32. ASSUME Decrement PROVE LeftInv'
  <2>1. rpc' # "gone"
    BY <1>32 DEF Decrement
  <2>2. QED
    BY <2>1 DEF LeftInv
<1>33. ASSUME DecrementSub PROVE LeftInv'
  <2>1. rpc' # "gone"
    BY <1>33 DEF DecrementSub
  <2>2. QED
    BY <2>1 DEF LeftInv
<1>34. ASSUME DecrementDisc PROVE LeftInv'
  <2>1. rpc' # "gone"
    BY <1>34 DEF DecrementDisc
  <2>2. QED
    BY <2>1 DEF LeftInv
<1>35. ASSUME DecrementFailed PROVE LeftInv'
  <2>1. rpc' # "gone"
    BY <1>35 DEF DecrementFailed
  <2>2. QED
    BY <2>1 DEF LeftInv
<1>36. ASSUME WaitDone PROVE LeftInv'
  <2>1. rpc' # "gone"
    BY <1>36 DEF WaitDone
  <2>2. QED
    BY <2>1 DEF LeftInv
<1>37. ASSUME WaitAborted PROVE LeftInv'
  <2>1. rpc' # "gone"
    BY <1>37 DEF WaitAborted
  <2>2. QED
    BY <2>1 DEF LeftInv
<1>38. ASSUME CanRecv PROVE LeftInv'
  <2>1. rpc' # "gone"
    BY <1>38 DEF CanRecv, Return
  <2>2. QED
    BY <2>1 DEF LeftInv
<1>39. ASSUME StartCancelBump PROVE LeftInv'
  <2>1. rpc' # "gone"
    BY <1>39 DEF StartCancelBump, Return
  <2>2. QED
    BY <2>1 DEF LeftInv
<1>40. ASSUME AbortLoad PROVE LeftInv'
  <2>1. rpc' # "gone"
    BY <1>40 DEF AbortLoad
  <2>2. QED
    BY <2>1 DEF LeftInv
<1>41. ASSUME AbortBump PROVE LeftInv'
  <2>1. rpc' # "gone"
    BY <1>41 DEF AbortBump
  <2>2. QED
    BY <2>1 DEF LeftInv
<1>42. ASSUME AbortDisc PROVE LeftInv'
  <2>1. rpc' # "gone"
    BY <1>42 DEF AbortDisc, AbortReturn, Return
  <2>2. QED
    BY <2>1 DEF LeftInv
<1>43. ASSUME AbortFinish PROVE LeftInv'
  <2>1. rpc' # "gone"
    BY <1>43 DEF AbortFinish, AbortReturn, Return
  <2>2. QED
    BY <2>1 DEF LeftInv
<1>44. ASSUME DropPort PROVE LeftInv'
  <2>1. rpc' # "gone"
    BY <1>44 DEF DropPort
  <2>2. QED
    BY <2>1 DEF LeftInv
<1>45. ASSUME DropCas PROVE LeftInv'
  <2>1. UNCHANGED <<spc, queue, channels>> /\ rpc = "dropcas" /\ (rpc' = "gone" => cnt = DISCONNECTED \/ cnt = local)
    BY <1>45 DEF DropCas, sender
  <2>2. SUFFICES ASSUME rpc' = "gone", channels > 0, queue # <<>>
                 PROVE  \E s \in Senders : spc[s] \in {"link", "add"}
    BY <2>1 DEF LeftInv
  <2>3. Open
    BY <2>1, <2>2, <1>types DEF Open, Over
  <2>4. Inherited
    BY <2>1, Unborn
  <2>5. cnt = local
    BY <2>1, <2>2, <2>3, CountFacts
  <2>6. cnt >= Len(queue) - Uncounted + local
    BY <2>1, <2>3, <2>4 DEF IInv, BalanceInv, Due, Extra
  <2>7. Len(queue) \in Nat /\ Len(queue) > 0
    BY <2>2, <1>types
  <2>8. Uncounted \in Nat /\ Uncounted = Count(spc, {"link", "add"})
    BY UncountedIs, CountBounds
  <2>9. Count(spc, {"link", "add"}) > 0
    BY <2>5, <2>6, <2>7, <2>8, <1>types
  <2>10. QED
    BY <2>9, CountBounds
<1>46. ASSUME DropDrain PROVE LeftInv'
  <2>1. rpc' # "gone"
    BY <1>46 DEF DropDrain
  <2>2. QED
    BY <2>1 DEF LeftInv
<1>47. CASE Terminated
  BY <1>47, <1>same DEF Terminated, vars, packet, tokens, sender, receiver, control
<1>48. QED
  BY <1>1, <1>2, <1>3, <1>4, <1>5, <1>6, <1>7, <1>8, <1>9, <1>10, <1>11, <1>12, <1>13, <1>14, <1>15,
       <1>16, <1>17, <1>18, <1>19, <1>20, <1>21, <1>22, <1>23, <1>24, <1>25, <1>26, <1>27, <1>28,
       <1>29, <1>30, <1>31, <1>32, <1>33, <1>34, <1>35, <1>36, <1>37, <1>38, <1>39, <1>40, <1>41,
       <1>42, <1>43, <1>44, <1>45, <1>46, <1>47 DEF Next, SenderStep, ReceiverStep

-----------------------------------------------------------------------------
(* The invariant, and the properties that follow                           *)

\* In a new packet nobody is anywhere but the creator, with the blocker or without.
LEMMA InitIInv == Init => IInv
<1>1. SUFFICES ASSUME Init PROVE IInv
  OBVIOUS
<1>2. PICK c \in Calls :
        /\ rmode = c
        /\ rpc = IF c = "try" THEN "idle" ELSE "old"
        /\ blocks = IF c = "try" THEN 0 ELSE 1
        /\ rtok = blocks
        /\ spc = [s \in Senders |-> IF s = Child THEN "unborn"
                                    ELSE IF s # Creator THEN "gone"
                                    ELSE IF c = "try" THEN "unlock" ELSE "inherit"]
        /\ stok = [s \in Senders |-> IF s = Creator THEN blocks ELSE NoToken]
  BY <1>1 DEF Init
<1>3. /\ queue = <<>> /\ unlinked = {} /\ cnt = 0 /\ steals = 0 /\ toWake = 0
      /\ channels = 2 /\ portDropped = FALSE /\ drain = 0 /\ locked = TRUE
      /\ woken = {} /\ freed = [t \in Tokens |-> 0]
      /\ smsg = [s \in Senders |-> 0]
      /\ final = FALSE /\ local = 0 /\ rres = "none" /\ aborted = "none"
      /\ sent = 0 /\ clones = 0 /\ accepted = 0 /\ received = <<>> /\ destroyed = {}
  BY <1>1 DEF Init, NoToken, NoMsg
<1>c. c \in Modes /\ Creator \in Senders /\ Child \in Senders /\ Creator # Child
  BY SharedAssumption DEF Modes
<1>s. /\ spc[Creator] = IF c = "try" THEN "unlock" ELSE "inherit"
      /\ spc[Child] = "unborn"
      /\ \A s \in Senders \ {Creator, Child} : spc[s] = "gone"
      /\ stok[Creator] = blocks /\ \A s \in Senders \ {Creator} : stok[s] = 0
  BY <1>2, <1>c DEF NoToken
<1>b. /\ c = "try" => rpc = "idle" /\ blocks = 0 /\ rtok = 0 /\ spc[Creator] = "unlock"
      /\ c # "try" => rpc = "old" /\ blocks = 1 /\ rtok = 1 /\ spc[Creator] = "inherit"
  BY <1>2, <1>s
<1>l. \A s \in Senders : spc[s] \in {"unborn", "gone", "unlock", "inherit"}
  BY <1>s
<1>n. /\ HowMany({"check", "checkcnt", "push"}) = 0 /\ HowMany({"disc"}) = 0 /\ Uncounted = 0
  <2>1. Count(spc, {"check", "checkcnt", "push"}) = 0 /\ Count(spc, {"disc"}) = 0
        /\ Count(spc, {"link", "add"}) = 0
    BY <1>l, CountBounds
  <2>2. QED
    BY <2>1, UncountedIs DEF HowMany
<1>h. HowMany({"gone"}) + 2 = Cardinality(Senders)
  <2>1. {s \in Senders : spc[s] \in {"gone"}} = (Senders \ {Creator}) \ {Child}
    BY <1>b, <1>s
  <2>2. IsFiniteSet(Senders \ {Creator}) /\ Cardinality(Senders \ {Creator}) = Cardinality(Senders) - 1
    BY <1>c, FS_RemoveElement, SharedAssumption
  <2>3. Cardinality((Senders \ {Creator}) \ {Child}) = Cardinality(Senders \ {Creator}) - 1
    BY <1>c, <2>2, FS_RemoveElement
  <2>4. HowMany({"gone"}) = Cardinality((Senders \ {Creator}) \ {Child})
    BY <2>1 DEF HowMany, Count
  <2>5. QED
    BY <2>2, <2>3, <2>4, Numbers
<1>f. ~final /\ final \in BOOLEAN /\ portDropped \in BOOLEAN /\ locked \in BOOLEAN
  BY <1>3, Zenon
<1>t1. QueueTypes /\ CallTypes
  <2>1. QueueTypes
    BY <1>3 DEF QueueTypes
  <2>2. /\ rmode \in Modes /\ aborted \in Aborts /\ sent \in Nat /\ clones \in Nat
        /\ rres \in {"none", "Ok", "Empty", "Disconnected", "ready", "unready"}
    BY <1>2, <1>3, <1>c DEF Aborts
  <2>3. QED
    BY <2>1, <2>2, <1>f DEF CallTypes
<1>t2. CountTypes
  <2>1. cnt \in Int /\ steals \in Int /\ local \in Int /\ channels \in Int /\ drain \in Int
    BY <1>3
  <2>2. QED
    BY <2>1, <1>f DEF CountTypes
<1>t3. TokenTypes
  BY <1>2, <1>3, <1>b DEF TokenTypes, NoToken
<1>t4. LocTypes
  BY <1>2, <1>b DEF LocTypes, SenderLocs, ReceiverLocs, Block
<1>4. TypeInv
  BY <1>t1, <1>t2, <1>t3, <1>t4 DEF TypeInv
<1>5. PanicInv /\ DestroyedInv /\ LinkInv /\ EndInv
  BY <1>3, <1>b, <1>l DEF PanicInv, DestroyedInv, LinkInv, EndInv
<1>6. OrderInv
  BY <1>3 DEF OrderInv, Popped
<1>7. HandleInv
  BY <1>3, <1>h, <1>l DEF HandleInv
<1>8. LockInv
  BY <1>3, <1>b, <1>s, <1>c DEF LockInv, Birth
<1>9. BirthInv
  BY <1>3, <1>b, <1>s, <1>c DEF BirthInv, Inherited, Birth, NoToken
<1>o. ~Over /\ rpc \in {"idle", "old"}
  BY <1>3, <1>b DEF Over
<1>10. OverInv /\ GoneInv
  BY <1>o, <1>l DEF OverInv, GoneInv, Mid
<1>11. BalanceInv
  <2>1. Inherited => c = "try"
    BY <1>b DEF Inherited, Birth
  <2>2. Inherited => Extra = 0
    <3>1. Stolen = 0
      <4>1. steals = 0
        BY <1>3
      <4>2. ~final
        BY <1>f
      <4>3. Stolen = steals - 0
        BY <4>2 DEF Stolen
      <4>4. QED
        BY <4>1, <4>3
    <3>2. Inherited => rpc = "idle"
      BY <2>1, <1>b
    <3>3. QED
      BY <3>1, <3>2 DEF Extra
  <2>3. QED
    BY <2>2, <1>3, <1>n DEF BalanceInv, Due, Spare
<1>12. LimitInv
  BY <1>3, <1>b, <1>n DEF LimitInv, Limit, Reached
<1>13. SendsInv
  BY <1>3, <1>n, Numbers DEF SendsInv
<1>14. BlocksInv
  BY <1>b, Numbers DEF BlocksInv, TryLocs
<1>15. StealsInv
  BY <1>3, <1>b DEF StealsInv, AbortLocs, Inherited, Birth
<1>16. FreedInv
  <2>1. \A t \in Tokens : freed[t] = 0
    BY <1>3
  <2>2. \A s \in Senders : stok[s] # NoToken => s = Creator /\ stok[s] = 1 /\ blocks = 1
    BY <1>b, <1>s DEF NoToken
  <2>3. 1 \in Tokens
    BY Numbers DEF Tokens
  <2>4. \A t \in 1..blocks : t = 1 /\ stok[Creator] = 1
    BY <1>b, <1>s
  <2>5. QED
    BY <2>1, <2>2, <2>3, <2>4, <1>3, <1>b, <1>c DEF FreedInv, NoToken
<1>17. HolderInv
  BY <1>3, <1>b, <1>s, <1>c DEF HolderInv, NoToken
<1>18. TakerInv /\ ArmedInv
  BY <1>3, <1>l DEF TakerInv, ArmedInv
<1>19. ToWakeInv
  BY <1>3, <1>b DEF ToWakeInv, Block, AbortLocs, NoToken
<1>20. SeenInv
  BY <1>3, <1>b DEF SeenInv
<1>21. ModeInv
  BY <1>2, <1>3, <1>b DEF ModeInv, AbortLocs
<1>22. DrainInv
  BY <1>3, <1>l DEF DrainInv, Drainers
<1>23. LeftInv
  BY <1>3 DEF LeftInv
<1>24. QED
  BY <1>4, <1>5, <1>6, <1>7, <1>8, <1>9, <1>10, <1>11, <1>12, <1>13, <1>14, <1>15, <1>16, <1>17,
     <1>18, <1>19, <1>20, <1>21, <1>22, <1>23 DEF IInv

\* Every step of a sender, of the receiver and of the clock keeps the invariant.
LEMMA NextIInv == IInv /\ Next => IInv'
<1>1. SUFFICES ASSUME IInv, Next PROVE IInv'
  OBVIOUS
<1>2. TypeInv'
  BY <1>1, QueueTypesStep, CountTypesStep, TokenTypesStep, CallTypesStep, LocTypesStep DEF TypeInv
<1>3. PanicInv' /\ OrderInv' /\ DestroyedInv' /\ LinkInv' /\ EndInv' /\ HandleInv' /\ LockInv'
  BY <1>1, PanicInvStep, OrderInvStep, DestroyedInvStep, LinkInvStep, EndInvStep, HandleInvStep,
     LockInvStep
<1>4. BirthInv' /\ OverInv' /\ GoneInv' /\ BalanceInv' /\ LimitInv' /\ SendsInv' /\ BlocksInv'
  BY <1>1, BirthInvStep, OverInvStep, GoneInvStep, BalanceInvStep, LimitInvStep, SendsInvStep,
     BlocksInvStep
<1>5. StealsInv' /\ FreedInv' /\ HolderInv' /\ TakerInv' /\ ArmedInv' /\ ToWakeInv'
  BY <1>1, StealsInvStep, FreedInvStep, HolderInvStep, TakerInvStep, ArmedInvStep, ToWakeInvStep
<1>6. SeenInv' /\ ModeInv' /\ DrainInv' /\ LeftInv'
  BY <1>1, SeenInvStep, ModeInvStep, DrainInvStep, LeftInvStep
<1>7. QED
  BY <1>2, <1>3, <1>4, <1>5, <1>6 DEF IInv

\* The inductive invariant holds for any number of handles, sends, clones and
\* blocking calls that the assumption on the constants admits.
THEOREM Invariance == Spec => []IInv
<1>1. Init => IInv
  BY InitIInv
<1>2. IInv /\ [Next]_vars => IInv'
  <2>1. SUFFICES ASSUME IInv, [Next]_vars PROVE IInv'
    OBVIOUS
  <2>2. CASE Next
    BY <2>1, <2>2, NextIInv
  <2>3. CASE UNCHANGED vars
    <3>1. /\ UNCHANGED <<queue, unlinked, cnt, toWake, channels, portDropped, drain, locked, woken, freed>>
          /\ UNCHANGED <<spc, stok, smsg, sent, clones, accepted>>
          /\ UNCHANGED <<rpc, rmode, rtok, final, local, rres, aborted, blocks, steals, received, destroyed>>
      BY <2>3 DEF vars, packet, tokens, sender, receiver, control
    <3>2. /\ (Over' <=> Over) /\ (Open' <=> Open) /\ (Inherited' <=> Inherited) /\ (Exact' <=> Exact)
          /\ (Spare' <=> Spare) /\ (Poppable' <=> Poppable)
      BY <3>1 DEF Over, Open, Inherited, Exact, Spare, Poppable
    <3>3. /\ Uncounted' = Uncounted /\ HowMany({"gone"})' = HowMany({"gone"})
          /\ HowMany({"check", "checkcnt", "push"})' = HowMany({"check", "checkcnt", "push"})
          /\ HowMany({"disc"})' = HowMany({"disc"})
      BY <3>1 DEF HowMany, Uncounted
    <3>4. Extra' = Extra /\ Limit' = Limit /\ Reached' = Reached /\ Popped' = Popped
      BY <3>1, <3>3 DEF Extra, Stolen, Limit, Reached, Popped
    <3>5. Due' = Due
      BY <3>1, <3>3, <3>4 DEF Due
    <3>6. TypeInv'
      BY <2>1, <3>1 DEF IInv, TypeInv, QueueTypes, CountTypes, TokenTypes, CallTypes, LocTypes
    <3>7. PanicInv' /\ OrderInv' /\ DestroyedInv' /\ LinkInv' /\ EndInv' /\ HandleInv' /\ LockInv'
      BY <2>1, <3>1, <3>2, <3>3, <3>4
         DEF IInv, PanicInv, OrderInv, DestroyedInv, LinkInv, EndInv, HandleInv, LockInv
    <3>8. BirthInv' /\ OverInv' /\ GoneInv' /\ BalanceInv' /\ LimitInv' /\ SendsInv' /\ BlocksInv'
      BY <2>1, <3>1, <3>2, <3>3, <3>4, <3>5
         DEF IInv, BirthInv, OverInv, GoneInv, BalanceInv, LimitInv, SendsInv, BlocksInv
    <3>9. StealsInv' /\ FreedInv' /\ HolderInv' /\ TakerInv' /\ ArmedInv' /\ ToWakeInv'
      BY <2>1, <3>1, <3>2
         DEF IInv, StealsInv, FreedInv, HolderInv, TakerInv, ArmedInv, ToWakeInv
    <3>10. SeenInv' /\ ModeInv' /\ DrainInv' /\ LeftInv'
      BY <2>1, <3>1, <3>2 DEF IInv, SeenInv, ModeInv, DrainInv, LeftInv
    <3>11. QED
      BY <3>6, <3>7, <3>8, <3>9, <3>10 DEF IInv
  <2>4. QED
    BY <2>1, <2>2, <2>3
<1>3. QED
  BY <1>1, <1>2, PTL DEF Spec

\* The assertions of send, recv, select and inherit_blocker hold, but for those that
\* a blocking call aborted before them can trip.
THEOREM NeverPanics == Spec => []NoPanic
<1>1. IInv => NoPanic
  <2>1. SUFFICES ASSUME IInv PROVE NoPanic
    OBVIOUS
  <2>2. PanicInv /\ rpc \in ReceiverLocs /\ spc \in [Senders -> SenderLocs]
    BY <2>1 DEF IInv, TypeInv, LocTypes
  <2>3. aborted # "upgrade" => \A s \in Senders : spc[s] \notin Panics
    BY <2>2 DEF PanicInv, Panics, SenderLocs
  <2>4. /\ aborted = "none" => rpc \notin Panics
        /\ aborted = "select" => rpc \notin Panics \ {"panic_aborted"}
    BY <2>2 DEF PanicInv, Panics, ReceiverLocs, TryLocs, Block, AbortLocs
  <2>5. QED
    BY <2>3, <2>4 DEF NoPanic
<1>2. QED
  BY <1>1, Invariance, PTL

\* The count less the steals is what is on the queue, whatever the interleaving of
\* sends, waits, inherited blockers and aborted selections.
THEOREM CountIsExact == Spec => []CountExact
<1>1. IInv => CountExact
  <2>1. SUFFICES ASSUME IInv, rpc \in {"idle", "old"}, aborted \notin {"timeout", "upgrade"},
                        cnt # DISCONNECTED, ~locked
                 PROVE  cnt - steals = Len(queue) - Uncounted
    BY DEF CountExact
  <2>2. Inherited
    BY <2>1 DEF IInv, LockInv, Inherited
  <2>3. Open
    BY <2>1 DEF Open, IInv, OverInv, Mid
  <2>4. Exact /\ ~final
    BY <2>1 DEF Exact, IInv, TypeInv, CallTypes, Aborts, ModeInv, TryLocs
  <2>5. cnt = Due
    BY <2>2, <2>3, <2>4, <2>1 DEF IInv, BalanceInv
  <2>6. Extra = Stolen /\ Stolen = steals - 0
    BY <2>1, <2>4 DEF Extra, Stolen
  <2>7. steals \in Int /\ cnt \in Int /\ Len(queue) \in Nat /\ Uncounted \in Nat
    BY <2>1, UncountedIs, CountBounds DEF IInv, TypeInv, CountTypes, QueueTypes
  <2>8. QED
    BY <2>5, <2>6, <2>7 DEF Due
<1>2. QED
  BY <1>1, Invariance, PTL

\* Messages arrive in the order of their pushes and none is lost: each is received,
\* on the queue or destroyed; after the port is gone one sender drains, and nobody
\* leaves a message behind.
THEOREM DeliveryHolds == Spec => []Delivery
<1>1. IInv => MessageConservation
  <2>1. SUFFICES ASSUME IInv PROVE MessageConservation
    OBVIOUS
  <2> DEFINE onQueue == {queue[i] : i \in 1..Len(queue)}
             got == {received[i] : i \in 1..Len(received)}
             n == Len(received)
             p == accepted - Len(queue)
  <2>2. /\ n \in Nat /\ p \in Nat /\ n <= p /\ Len(queue) \in Nat /\ accepted \in Nat
        /\ accepted = p + Len(queue)
        /\ received \in Seq(Nat) /\ queue \in Seq(Nat)
        /\ \A i \in 1..Len(queue) : queue[i] = p + i
        /\ \A i \in 1..n : received[i] = i
        /\ destroyed = (n + 1)..p
    BY <2>1 DEF IInv, TypeInv, QueueTypes, OrderInv, Popped
  <2>3. onQueue = (p + 1)..accepted
    <3>1. \A m \in onQueue : m \in (p + 1)..accepted
      BY <2>2
    <3>2. ASSUME NEW m \in (p + 1)..accepted PROVE m \in onQueue
      <4>1. m - p \in 1..Len(queue) /\ queue[m - p] = p + (m - p) /\ p + (m - p) = m
        BY <2>2
      <4>2. QED
        BY <4>1
    <3>3. QED
      BY <3>1, <3>2
  <2>4. got = 1..n
    BY <2>2
  <2>5. received = [i \in 1..n |-> i]
    BY <2>2
  <2>6. rres = "Disconnected" => n = accepted
    <3>1. SUFFICES ASSUME rres = "Disconnected" PROVE n = accepted
      OBVIOUS
    <3>2. queue = <<>> /\ destroyed = {}
      BY <2>1, <3>1 DEF IInv, EndInv
    <3>3. ~(n < p)
      <4>1. n < p => n + 1 \in destroyed
        BY <2>2
      <4>2. QED
        BY <3>2, <4>1
    <3>4. QED
      BY <2>2, <3>2, <3>3
  <2>i. ASSUME NEW a \in Nat, NEW b \in Nat, NEW c \in Nat, a <= b, b <= c
        PROVE  /\ 1..c = ((b + 1)..c) \cup (1..a) \cup ((a + 1)..b)
               /\ (1..a) \cap ((a + 1)..b) = {} /\ (1..a) \cap ((b + 1)..c) = {}
               /\ ((b + 1)..c) \cap ((a + 1)..b) = {}
    BY <2>i
  <2>7. 1..accepted = onQueue \cup got \cup destroyed
    <3>1. p <= accepted
      BY <2>2
    <3>2. 1..accepted = ((p + 1)..accepted) \cup (1..n) \cup ((n + 1)..p)
      BY <2>2, <3>1, <2>i
    <3>3. QED
      BY <2>2, <2>3, <2>4, <3>2
  <2>8. got \cap destroyed = {} /\ got \cap onQueue = {} /\ onQueue \cap destroyed = {}
    <3>1. p <= accepted
      BY <2>2
    <3>2. /\ (1..n) \cap ((n + 1)..p) = {} /\ (1..n) \cap ((p + 1)..accepted) = {}
          /\ ((p + 1)..accepted) \cap ((n + 1)..p) = {}
      BY <2>2, <3>1, <2>i
    <3>3. QED
      BY <2>2, <2>3, <2>4, <3>2
  <2>9. QED
    BY <2>5, <2>6, <2>7, <2>8 DEF MessageConservation
<1>2. IInv => HangupClean
  <2>1. SUFFICES ASSUME IInv PROVE HangupClean
    OBVIOUS
  <2>2. ASSUME NEW s \in Senders, spc[s] \in {"drain", "drainhead"}
        PROVE  /\ rpc \in {"gone"} \cup Panics
               /\ \A t \in Senders \ {s} : spc[t] \notin {"drain", "drainhead"}
    <3>1. rpc = "gone"
      BY <2>1, <2>2 DEF IInv, GoneInv
    <3>2. \A t \in Senders \ {s} : spc[t] \notin {"drain", "drainhead"}
      BY <2>1, <2>2 DEF IInv, DrainInv, Drainers
    <3>3. QED
      BY <3>1, <3>2
  <2>3. rpc = "gone" /\ (\A s \in Senders : spc[s] \in {"idle", "gone"}) /\ channels > 0 =>
          queue = <<>>
    BY <2>1 DEF IInv, LeftInv
  <2>4. QED
    BY <2>2, <2>3 DEF HangupClean
<1>3. QED
  BY <1>1, <1>2, Invariance, PTL DEF Delivery

\* Every token has one owner from its birth until it is cast back, once; a receiver
\* that sleeps can be woken by it.
THEOREM TokensOwned == Spec => []TokenOwnership
<1>1. IInv => TokenOwnership
  <2>1. SUFFICES ASSUME IInv PROVE TokenOwnership
    OBVIOUS
  <2>inv. FreedInv /\ HolderInv /\ TakerInv /\ ToWakeInv /\ ModeInv
    BY <2>1 DEF IInv
  <2>types. /\ stok \in [Senders -> Nat] /\ toWake \in Nat /\ blocks \in Nat /\ MaxBlocks \in Nat
            /\ blocks <= MaxBlocks
    BY <2>1, Numbers DEF IInv, TypeInv, TokenTypes, BlocksInv
  <2>2. ASSUME NEW t \in 1..blocks
        PROVE  freed[t] + (IF toWake = t /\ \A s \in Senders : spc[s] # "clear" THEN 1 ELSE 0)
                        + Cardinality({s \in Senders : stok[s] = t}) = 1
    <3> DEFINE H == {s \in Senders : stok[s] = t}
    <3>1. t \in Tokens /\ t # NoToken /\ freed[t] \in {0, 1}
      BY <2>inv, <2>types DEF FreedInv, Tokens, NoToken
    <3>2. CASE freed[t] = 1
      <4>1. toWake # t /\ \A s \in Senders : stok[s] # t
        BY <3>1, <3>2, <2>inv DEF FreedInv
      <4>2. H = {}
        BY <4>1
      <4>3. Cardinality(H) = 0
        BY <4>2, FS_EmptySet
      <4>4. QED
        BY <3>2, <4>1, <4>3
    <3>3. CASE freed[t] = 0 /\ \E s \in Senders : stok[s] = t
      <4>1. PICK s \in Senders : stok[s] = t
        BY <3>3
      <4>2. H = {s}
        BY <4>1, <3>1, <2>inv DEF HolderInv
      <4>3. Cardinality(H) = 1
        BY <4>2, FS_Singleton
      <4>4. toWake = t => spc[s] = "clear"
        BY <4>1, <3>1, <2>inv DEF HolderInv
      <4>5. QED
        BY <3>3, <4>3, <4>4
    <3>4. CASE freed[t] = 0 /\ \A s \in Senders : stok[s] # t
      <4>1. toWake = t
        BY <3>4, <2>inv DEF FreedInv
      <4>2. \A s \in Senders : spc[s] # "clear"
        BY <3>4, <4>1, <2>inv DEF HolderInv
      <4>3. H = {}
        BY <3>4
      <4>4. Cardinality(H) = 0
        BY <4>3, FS_EmptySet
      <4>5. QED
        BY <3>4, <4>1, <4>2, <4>4
    <3>5. QED
      BY <3>1, <3>2, <3>3, <3>4
  <2>3. rpc \in {"old", "wait"} /\ rtok \notin woken =>
          toWake = rtok \/ \E s \in Senders : stok[s] = rtok
    <3>1. SUFFICES ASSUME rpc \in {"old", "wait"}, rtok \notin woken
                   PROVE  toWake = rtok \/ \E s \in Senders : stok[s] = rtok
      OBVIOUS
    <3>2. rtok \in 1..blocks /\ rtok \in Tokens
      BY <3>1, <2>inv, <2>types DEF ToWakeInv, Block, Tokens
    <3>3. freed[rtok] = 0
      BY <3>1, <3>2, <2>inv DEF FreedInv
    <3>4. QED
      BY <3>2, <3>3, <2>inv DEF FreedInv
  <2>4. rpc \in {"idle", "decr", "gone"} /\ aborted # "upgrade" => toWake = NoToken
    BY <2>inv DEF ToWakeInv, Block, AbortLocs
  <2>5. QED
    BY <2>2, <2>3, <2>4 DEF TokenOwnership
<1>2. QED
  BY <1>1, Invariance, PTL

=============================================================================
