------------------------- MODULE SyncChannelProofs --------------------------
(***************************************************************************)
(* Proofs about the synchronous packet for any senders, capacities and     *)
(* number of sends.  IInv is an inductive invariant: the ring buffer holds *)
(* the messages in `size' slots from `start' on, the counters and flags    *)
(* say who is left, `blocker' holds who waits, a token has one waiter, and *)
(* a message not yet sent is nowhere in the channel.                       *)
(***************************************************************************)
EXTENDS SyncChannel, FiniteSetTheorems, TLAPS

-----------------------------------------------------------------------------
(* The inductive invariant                                                 *)

Pcs == {"unborn", "idle", "lock", "try", "queued", "rendezvous", "wake", "relock",
        "drop", "dropwake", "gone", "panic"}
Slots == IF cap = 0 THEN 1 ELSE cap
Wrap(k) == IF k < Slots THEN k ELSE k - Slots

Intact ==
  /\ buf \in [0..(Slots - 1) -> 0..MaxSends]
  /\ \A j \in 0..(Slots - 1) : buf[Wrap(start + j)] # None <=> j < size

\* The slots from `start' on, `size' of them, are the full ones; the buffer is
\* given away only by the drop of the port.
RingInv ==
  /\ start \in 0..(Slots - 1) /\ size \in 0..Slots
  /\ Intact \/ (buf = <<>> /\ cap # 0 /\ disconnected /\ ~PortOpen)

Alive == {s \in Senders : spc[s] \notin {"unborn", "drop", "dropwake", "gone"}}
TxClosed == \A s \in Senders : spc[s] \in {"unborn", "dropwake", "gone"}

\* `channels' counts the handles; one sender at most drops the last of them, and
\* `disconnected' is set by it or by the port, whichever is first.
CountInv ==
  /\ channels = Cardinality(Alive)
  /\ \A s \in Senders : spc[s] \in {"drop", "dropwake"} => channels = 0
  /\ \A s, u \in Senders :
       spc[s] \in {"drop", "dropwake"} /\ spc[u] \in {"drop", "dropwake"} => s = u
  /\ disconnected <=> ~PortOpen \/ TxClosed

\* The receiver's location and its call.
CallInv ==
  /\ rpc # "panic"
  /\ rpc = "idle" <=> rmode = "none"
  /\ rpc \in {"lock", "wait", "relock"} => rmode \in {"recv", "timeout"}
  /\ rpc = "try" => rmode = "try"
  /\ rpc \in {"can_recv", "start", "selecting", "abort"} => rmode = "select"
  /\ rpc \in {"drop", "gone"} => rmode = "drop"
  /\ rpc = "signal" <=> rsig # <<>>
  /\ rpc = "signal" => rmode # "select"
  /\ waited => rpc \in {"relock", "abort", "signal"} /\ rmode # "drop"
  /\ rpc = "relock" /\ rmode = "recv" => waited
  /\ rtok # None <=> rpc \in {"wait", "selecting", "abort"}

Holding(m) == size = 1 /\ buf[start] = m
AtRendezvous(s) ==
  /\ spc[s] = "rendezvous" /\ cap = 0 /\ canceled = {s} /\ ~sflag[s] /\ Holding(smsg[s])

\* `blocker' holds the sender at the rendezvous, whose flag `canceled' points at,
\* or the receiver, for which there is nothing yet.
BlockerInv ==
  /\ blocker.by = "none" => blocker = NoneBlocked
  /\ canceled # {} => blocker.by = "sender"
  /\ blocker.by = "sender" =>
       /\ ~disconnected /\ blocker.tok \notin woken
       /\ \E s \in Senders : AtRendezvous(s) /\ stok[s] = blocker.tok
  /\ blocker.by = "receiver" =>
       /\ ~Ready /\ ~waited /\ rpc \in {"wait", "relock", "selecting", "abort"}
       /\ blocker.tok # None /\ blocker.tok \notin woken
       /\ rpc # "relock" => blocker.tok = rtok
       /\ \A s \in Senders : stok[s] # blocker.tok /\ ssig[s] # blocker.tok
  /\ rpc \in {"wait", "relock", "selecting", "abort"} /\ blocker.by # "receiver" =>
       Ready /\ blocker = NoneBlocked

\* A token has one waiter; the token about to be signalled is no other's.
TokenInv ==
  /\ \A s \in Senders :
       /\ spc[s] # "panic"
       /\ stok[s] # None <=> spc[s] \in {"queued", "rendezvous"}
       /\ ssig[s] # None <=> spc[s] \in {"wake", "dropwake"}
       /\ stok[s] # None => stok[s] # rtok
  /\ \A s, u \in Senders :
       /\ s # u /\ stok[s] # None => stok[s] # stok[u]
       /\ stok[s] # None => stok[s] # ssig[u]
  /\ \A i \in DOMAIN rsig :
       /\ rsig[i] # blocker.tok /\ rsig[i] \notin woken
       /\ \E s \in Senders : rsig[i] = stok[s]
  /\ \A i, j \in DOMAIN rsig : i # j => rsig[i] # rsig[j]

\* The queue holds senders that wait and have not been signalled.
QueueInv ==
  /\ disconnected => queue = <<>>
  /\ \A i \in DOMAIN queue :
       /\ spc[queue[i]] = "queued" /\ stok[queue[i]] \notin woken
       /\ \A j \in DOMAIN rsig : rsig[j] # stok[queue[i]]
  /\ \A i, j \in DOMAIN queue : i # j => queue[i] # queue[j]

\* A cancelled sender finds its message in the buffer; one that is acknowledged
\* was received.
FlagInv ==
  /\ \A s \in Senders : sflag[s] =>
       /\ spc[s] \in {"rendezvous", "relock"} /\ cap = 0 /\ ~PortOpen
       /\ Holding(smsg[s])
  /\ \A s, u \in Senders : sflag[s] /\ sflag[u] => s = u
  /\ \A s \in Senders :
       spc[s] \in {"rendezvous", "relock"} /\ ~sflag[s] /\ s \notin canceled =>
         \E i \in DOMAIN received : received[i] = smsg[s]

\* What a rendezvous sender may return Ok for.
Met(m) ==
  \/ m \in selected
  \/ \E i \in DOMAIN received : received[i] = m
  \/ Holding(m) /\ rpc \in {"wait", "relock"}
MetInv ==
  cap = 0 => /\ \A m \in oks : Met(m)
             /\ \A s \in Senders : spc[s] = "wake" => Met(smsg[s])

SlotInv == queue # <<>> => size + Cardinality(Retrying) >= Slots

\* Messages are numbered by the calls; one not yet accepted is nowhere else.
MessageInv ==
  /\ \A s \in Senders :
       /\ smsg[s] <= sends
       /\ smsg[s] # None <=>
            spc[s] \in {"lock", "try", "queued", "rendezvous", "wake", "relock"}
  /\ \A s, u \in Senders : s # u /\ smsg[s] # None => smsg[s] # smsg[u]
  /\ \A i \in DOMAIN buf : buf[i] <= sends
  /\ \A i \in DOMAIN received : received[i] <= sends
  /\ \A m \in returned : m <= sends
  /\ \A s \in Senders : spc[s] \in {"lock", "try", "queued"} =>
       /\ smsg[s] \notin returned
       /\ \A i \in DOMAIN buf : buf[i] # smsg[s]
       /\ \A i \in DOMAIN received : received[i] # smsg[s]

IInv ==
  /\ TypeOK /\ RingInv /\ CountInv /\ CallInv /\ BlockerInv /\ TokenInv
  /\ QueueInv /\ FlagInv /\ MetInv /\ MessageInv /\ SlotInv

-----------------------------------------------------------------------------
(* The ring buffer                                                         *)

\* Positions wrap at most once.
LEMMA ModWraps ==
  ASSUME NEW n \in Nat \ {0}, NEW k \in 0..(n - 1), NEW j \in 0..n
  PROVE  /\ (k + j) % n = IF k + j < n THEN k + j ELSE k + j - n
         /\ (k + j) % n \in 0..(n - 1)
<1>1. k + j \in Nat /\ n \in Nat /\ k + j < n + n
  OBVIOUS
<1>2. CASE k + j < n
  BY <1>1, <1>2
<1>3. CASE ~(k + j < n)
  <2>1. (k + j) % n = k + j - n
    BY <1>1, <1>3
  <2>2. QED
    BY <2>1, <1>3
<1>4. QED
  BY <1>2, <1>3

\* Buffer::cap is the number of slots.
LEMMA CapIsSlots ==
  ASSUME NEW n \in Nat \ {0}, NEW b, DOMAIN b = 0..(n - 1)
  PROVE  Cardinality(DOMAIN b) = n
  BY FS_Interval

\* Inside the ring the modulus is a wrap, and the contents are the full slots.
LEMMA RingShape ==
  ASSUME TypeOK, RingInv, Intact
  PROVE  /\ BufCap = Slots /\ Slots \in Nat \ {0}
         /\ start \in 0..(Slots - 1) /\ size \in 0..Slots
         /\ \A j \in 0..Slots : Pos(j) = Wrap(start + j) /\ Wrap(start + j) \in 0..(Slots - 1)
         /\ Content = [i \in 1..size |-> buf[Wrap(start + (i - 1))]]
         /\ Content \in Seq(Messages) /\ Len(Content) = size
<1>1. Slots \in Nat \ {0} /\ BufCap = Slots
  BY SyncAssumption, CapIsSlots DEF TypeOK, BufferTypeOK, Slots, Intact, BufCap
<1>2. start \in 0..(Slots - 1) /\ size \in 0..Slots
  BY DEF RingInv
<1>3. ASSUME NEW j \in 0..Slots
      PROVE  Pos(j) = Wrap(start + j) /\ Wrap(start + j) \in 0..(Slots - 1)
  <2>1. /\ (start + j) % Slots = IF start + j < Slots THEN start + j ELSE start + j - Slots
        /\ (start + j) % Slots \in 0..(Slots - 1)
    BY <1>1, <1>2, ModWraps, Zenon
  <2>2. Wrap(start + j) = (start + j) % Slots
    BY <2>1, <1>1, <1>2 DEF Wrap
  <2>3. QED
    BY <1>1, <2>1, <2>2 DEF Pos
<1>4. \A i \in 1..size : i - 1 \in 0..Slots /\ i - 1 \in 0..(Slots - 1) /\ i - 1 < size
  BY <1>1, <1>2
<1>5. Content = [i \in 1..size |-> buf[Wrap(start + (i - 1))]]
  <2>1. \A i \in 1..size : Pos(i - 1) = Wrap(start + (i - 1))
    BY <1>3, <1>4
  <2>2. QED
    BY <1>1, <2>1 DEF Content
<1>6. ASSUME NEW i \in 1..size PROVE buf[Wrap(start + (i - 1))] \in Messages
  <2>1. buf[Wrap(start + (i - 1))] # 0
    BY <1>4 DEF Intact, None
  <2>2. buf[Wrap(start + (i - 1))] \in 0..MaxSends
    BY <1>3, <1>4 DEF Intact
  <2>3. QED
    BY <2>1, <2>2, SyncAssumption DEF Messages
<1>7. Content \in Seq(Messages) /\ Len(Content) = size
  BY <1>2, <1>5, <1>6
<1>8. QED
  BY <1>1, <1>2, <1>3, <1>5, <1>7

\* A ring is well typed.
LEMMA RingTyped ==
  ASSUME cap \in Nat, cap' = cap, Intact', (start \in 0..(Slots - 1) /\ size \in 0..Slots)'
  PROVE  BufferTypeOK'
  BY DEF Intact, Slots, BufferTypeOK

\* Buffer::enqueue appends to the contents, in a slot that was empty.
LEMMA Enqueues ==
  ASSUME TypeOK, RingInv, Intact, size < Slots, NEW m \in Messages, Enqueue(m), cap' = cap
  PROVE  /\ EnqueueOk /\ Intact' /\ (start \in 0..(Slots - 1) /\ size \in 1..Slots)'
         /\ Content' = Append(Content, m) /\ (size = 0 => buf'[start] = m)
         /\ \A i \in DOMAIN buf' : buf'[i] = m \/ (i \in DOMAIN buf /\ buf'[i] = buf[i])
<1> DEFINE W(j) == Wrap(start + j)
<1>1. BufCap = Slots /\ Slots \in Nat \ {0} /\ Slots' = Slots /\ start' = start
      /\ size \in 0..(Slots - 1) /\ start \in 0..(Slots - 1) /\ size' = size + 1
  BY RingShape DEF Slots, Enqueue
<1>2. \A j \in 0..(Slots - 1) : Pos(j) = W(j) /\ W(j) \in 0..(Slots - 1)
  <2>1. \A j \in 0..(Slots - 1) : j \in 0..Slots
    BY <1>1
  <2>2. QED
    BY <2>1, RingShape, Zenon
<1>3. \A j \in 0..(Slots - 1) : j # size => W(j) # W(size)
  BY <1>1 DEF Wrap
<1>4. \A j \in 0..(Slots - 1) : W(j)' = W(j)
  BY <1>1 DEF Wrap
<1>5. buf' = [buf EXCEPT ![W(size)] = m]
  BY <1>1, <1>2 DEF Enqueue
<1>6. EnqueueOk
  <2>1. buf[W(size)] = 0
    BY <1>1 DEF Intact, None
  <2>2. QED
    BY <2>1, <1>1, <1>2 DEF EnqueueOk, None
<1>7. buf \in [0..(Slots - 1) -> 0..MaxSends]
      /\ \A j \in 0..(Slots - 1) : buf[W(j)] # 0 <=> j < size
  BY DEF Intact, None
<1>8. W(size) \in 0..(Slots - 1) /\ m \in 0..MaxSends /\ m # 0
  BY <1>1, <1>2 DEF Messages
<1> HIDE DEF W
<1>9. Intact'
  <2>1. buf' \in [0..(Slots - 1) -> 0..MaxSends]
    BY <1>5, <1>7, <1>8
  <2>2. ASSUME NEW j \in 0..(Slots - 1) PROVE buf'[W(j)] # 0 <=> j < size'
    <3>1. CASE j = size
      BY <3>1, <1>1, <1>5, <1>7, <1>8
    <3>2. CASE j # size
      <4>1. buf'[W(j)] = buf[W(j)]
        BY <3>2, <1>2, <1>3, <1>5, <1>7
      <4>2. QED
        BY <4>1, <3>2, <1>1, <1>7
    <3>3. QED
      BY <3>1, <3>2
  <2>3. QED
    BY <1>1, <1>4, <2>1, <2>2 DEF Intact, W, None
<1>10. BufCap' = Slots
  BY <1>1, <1>9, CapIsSlots DEF Intact, BufCap
<1>11. Content' = Append(Content, m)
  <2>1. \A i \in 1..(size + 1) : i - 1 \in 0..(Slots - 1) /\ i - 1 \in 0..Slots
    BY <1>1
  <2>2. \A i \in 1..(size + 1) : (start + (i - 1)) % Slots = W(i - 1)
    BY <1>1, <1>2, <2>1 DEF Pos
  <2>3. Content' = [i \in 1..(size + 1) |-> buf'[W(i - 1)]]
    BY <1>1, <1>10, <2>2 DEF Content, Pos
  <2>4. \A i \in 1..(size + 1) :
           buf'[W(i - 1)] = IF i = size + 1 THEN m ELSE buf[W(i - 1)]
    <3>1. \A j \in 0..(Slots - 1) : buf'[W(j)] = IF j = size THEN m ELSE buf[W(j)]
      BY <1>2, <1>3, <1>5, <1>7, <1>8
    <3>2. \A i \in 1..(size + 1) : i - 1 = size <=> i = size + 1
      BY <1>1
    <3>3. QED
      BY <2>1, <3>1, <3>2
  <2>5. Content = [i \in 1..size |-> buf[W(i - 1)]] /\ Content \in Seq(Messages)
        /\ Len(Content) = size
    BY RingShape DEF W
  <2>6. QED
    <3>1. Content' = [i \in 1..(size + 1) |-> IF i = size + 1 THEN m ELSE buf[W(i - 1)]]
      BY <2>3, <2>4
    <3>2. \A i \in 1..size : Content[i] = buf[W(i - 1)]
      BY <2>5
    <3>3. Append(Content, m)
            = [i \in 1..(size + 1) |-> IF i = size + 1 THEN m ELSE Content[i]]
      BY <2>5, <1>1
    <3>4. \A i \in 1..(size + 1) : (IF i = size + 1 THEN m ELSE Content[i])
                               = (IF i = size + 1 THEN m ELSE buf[W(i - 1)])
      BY <3>2, <1>1
    <3>5. QED
      BY <3>1, <3>3, <3>4
<1>12. \A i \in DOMAIN buf' : buf'[i] = m \/ (i \in DOMAIN buf /\ buf'[i] = buf[i])
  BY <1>5, <1>7
<1>13. size = 0 => buf'[start] = m
  <2>1. size = 0 => W(size) = start
    BY <1>1 DEF W, Wrap
  <2>2. QED
    BY <2>1, <1>5, <1>7, <1>8
<1>14. QED
  BY <1>1, <1>6, <1>9, <1>11, <1>12, <1>13

\* Buffer::dequeue takes the first of the contents, from a full slot.
LEMMA Dequeues ==
  ASSUME TypeOK, RingInv, Intact, size > 0, Dequeue, cap' = cap
  PROVE  /\ DequeueOk /\ First \in Messages
         /\ Intact' /\ (start \in 0..(Slots - 1) /\ size \in 0..(Slots - 1))'
         /\ Content # <<>> /\ First = Head(Content) /\ Content' = Tail(Content)
         /\ \A i \in DOMAIN buf' : buf'[i] = None \/ (i \in DOMAIN buf /\ buf'[i] = buf[i])
<1> DEFINE W(j) == Wrap(start + j)
<1> DEFINE V(j) == Wrap(start' + j)
<1>1. BufCap = Slots /\ Slots \in Nat \ {0} /\ Slots' = Slots
      /\ size \in 1..Slots /\ start \in 0..(Slots - 1) /\ size' = size - 1
      /\ buf' = [buf EXCEPT ![start] = 0]
  BY RingShape DEF Slots, Dequeue, None
<1>2. start' = W(1) /\ start' \in 0..(Slots - 1)
  <2>1. 1 \in 0..Slots
    BY <1>1
  <2>2. Pos(1) = W(1) /\ W(1) \in 0..(Slots - 1)
    BY <2>1, RingShape
  <2>3. QED
    BY <2>2 DEF Dequeue, Pos
<1>3. \A j \in 0..(Slots - 1) : W(j) \in 0..(Slots - 1) /\ (j # 0 => W(j) # start)
  BY <1>1 DEF Wrap
<1>4. W(0) = start
  BY <1>1 DEF Wrap
<1>5. \A j \in 0..(Slots - 1) : V(j) = IF j = Slots - 1 THEN start ELSE W(j + 1)
  BY <1>1, <1>2 DEF Wrap
<1>6. buf \in [0..(Slots - 1) -> 0..MaxSends]
      /\ \A j \in 0..(Slots - 1) : buf[W(j)] # 0 <=> j < size
  BY DEF Intact, None
<1>7. \A j \in 0..(Slots - 1) : Wrap(start + j)' = V(j)
  BY <1>1 DEF Wrap
<1>8. \A j \in 0..(Slots - 1) : (start' + j) % Slots = V(j)
  <2>1. \A j \in 0..(Slots - 1) : j \in 0..Slots
    BY <1>1
  <2>2. \A j \in 0..(Slots - 1) : (start' + j) % Slots =
          IF start' + j < Slots THEN start' + j ELSE start' + j - Slots
    BY <2>1, <1>1, <1>2, ModWraps, Zenon
  <2>3. QED
    BY <2>2, <1>1, <1>2 DEF Wrap
<1>9. Content = [i \in 1..size |-> buf[W(i - 1)]] /\ Content \in Seq(Messages)
      /\ Len(Content) = size
  BY RingShape
<1> HIDE DEF W, V
<1>10. DequeueOk /\ First \in Messages
  <2>1. 0 \in 0..(Slots - 1) /\ 0 < size
    BY <1>1
  <2>2. buf[start] # 0 /\ buf[start] \in 0..MaxSends
    BY <2>1, <1>1, <1>4, <1>6
  <2>3. QED
    BY <2>2, SyncAssumption DEF DequeueOk, First, Messages, None
<1>11. Intact'
  <2>1. buf' \in [0..(Slots - 1) -> 0..MaxSends]
    BY <1>1, <1>6, SyncAssumption
  <2>2. ASSUME NEW j \in 0..(Slots - 1) PROVE buf'[V(j)] # 0 <=> j < size'
    <3>1. CASE j = Slots - 1
      BY <3>1, <1>1, <1>5, <1>6
    <3>2. CASE j # Slots - 1
      <4>1. j + 1 \in 0..(Slots - 1) /\ j + 1 # 0
        BY <3>2, <1>1
      <4>2. V(j) = W(j + 1) /\ W(j + 1) # start /\ W(j + 1) \in 0..(Slots - 1)
        BY <3>2, <4>1, <1>3, <1>5
      <4>3. buf'[V(j)] = buf[W(j + 1)]
        BY <4>2, <1>1, <1>6
      <4>4. QED
        BY <4>1, <4>3, <1>1, <1>6
    <3>3. QED
      BY <3>1, <3>2
  <2>3. QED
    BY <1>1, <1>7, <2>1, <2>2 DEF Intact, None
<1>12. BufCap' = Slots
  BY <1>1, <1>11, CapIsSlots DEF Intact, BufCap
<1>13. Content # <<>> /\ First = Head(Content)
  <2>1. Content[1] = buf[W(0)] /\ Head(Content) = Content[1] /\ Content # <<>>
    BY <1>1, <1>9
  <2>2. QED
    BY <2>1, <1>4 DEF First
<1>14. Content' = Tail(Content)
  <2>1. \A i \in 1..(size - 1) : i - 1 \in 0..(Slots - 1) /\ i - 1 # Slots - 1
                                /\ i \in 0..(Slots - 1) /\ i # 0 /\ (i - 1) + 1 = i
                                /\ i + 1 \in 1..size /\ (i + 1) - 1 = i
    BY <1>1
  <2>2. Content' = [i \in 1..(size - 1) |-> buf'[V(i - 1)]]
    BY <1>1, <1>8, <1>12, <2>1 DEF Content, Pos
  <2>3. \A i \in 1..(size - 1) : V(i - 1) = W(i) /\ W(i) # start /\ W(i) \in 0..(Slots - 1)
    BY <2>1, <1>3, <1>5
  <2>4. \A i \in 1..(size - 1) : buf'[V(i - 1)] = buf[W(i)]
    BY <2>3, <1>1, <1>6
  <2>5. \A i \in 1..(size - 1) : buf[W(i)] = Content[i + 1]
    BY <2>1, <1>9
  <2>6. Tail(Content) = [i \in 1..(size - 1) |-> Content[i + 1]]
    BY <1>1, <1>9, <1>13
  <2>7. QED
    BY <2>2, <2>4, <2>5, <2>6
<1>15. \A i \in DOMAIN buf' : buf'[i] = None \/ (i \in DOMAIN buf /\ buf'[i] = buf[i])
  BY <1>1, <1>6 DEF None
<1>16. QED
  BY <1>1, <1>2, <1>10, <1>11, <1>13, <1>14, <1>15

-----------------------------------------------------------------------------
(* Tokens                                                                  *)

\* One more element makes a finite set larger by one at most.
LEMMA OneMore ==
  ASSUME NEW S, NEW x, IsFiniteSet(S)
  PROVE  /\ IsFiniteSet(S \cup {x}) /\ Cardinality(S \cup {x}) \in Nat
         /\ Cardinality(S) \in Nat /\ Cardinality(S \cup {x}) <= Cardinality(S) + 1
<1>1. IsFiniteSet(S \cup {x})
      /\ Cardinality(S \cup {x}) = IF x \in S THEN Cardinality(S) ELSE Cardinality(S) + 1
  BY FS_AddElement
<1>2. Cardinality(S) \in Nat /\ Cardinality(S \cup {x}) \in Nat
  BY <1>1, FS_CardinalityType
<1>3. QED
  BY <1>1, <1>2

\* There is always a token nobody refers to: each sender holds one at most.
LEMMA FreshToken ==
  ASSUME TypeOK, TokenInv
  PROVE  Fresh \in Tokens /\ Fresh \notin Held
<1> DEFINE own == [s \in Senders |-> IF stok[s] # None THEN stok[s] ELSE ssig[s]]
           Owned == {own[s] : s \in Senders}
           Busy == (Owned \cup {blocker.tok}) \cup {rtok}
<1>1. ASSUME NEW t \in Tokens, t \in Held PROVE t \in Busy
  <2>1. t # None
    BY SyncAssumption DEF Tokens, None
  <2>2. \A s \in Senders : stok[s] = t => own[s] = t
    BY <2>1
  <2>3. \A s \in Senders : ssig[s] = t => own[s] = t
    BY <2>1 DEF TokenInv, TypeOK, SenderTypeOK
  <2>4. \A i \in DOMAIN rsig : rsig[i] = t => \E s \in Senders : stok[s] = t
    BY DEF TokenInv
  <2>5. QED
    BY <1>1, <2>2, <2>3, <2>4 DEF Held
<1>2. IsFiniteSet(Owned) /\ Cardinality(Owned) <= Cardinality(Senders)
  <2>1. own \in Surjection(Senders, Owned)
    BY DEF Surjection
  <2>2. QED
    BY <2>1, FS_Surjection, SyncAssumption
<1> HIDE DEF Owned
<1>3. IsFiniteSet(Busy) /\ Cardinality(Busy) <= Cardinality(Senders) + 2
  <2>1. /\ IsFiniteSet(Owned \cup {blocker.tok})
        /\ Cardinality(Owned \cup {blocker.tok}) <= Cardinality(Owned) + 1
        /\ Cardinality(Owned) \in Nat /\ Cardinality(Owned \cup {blocker.tok}) \in Nat
    BY <1>2, OneMore
  <2>2. /\ IsFiniteSet(Busy) /\ Cardinality(Busy) \in Nat
        /\ Cardinality(Busy) <= Cardinality(Owned \cup {blocker.tok}) + 1
    BY <2>1, OneMore
  <2>3. Cardinality(Senders) \in Nat
    BY FS_CardinalityType, SyncAssumption
  <2>4. QED
    BY <1>2, <2>1, <2>2, <2>3
<1>4. Cardinality(Senders) \in Nat \ {0} /\ Cardinality(Tokens) = MaxTokens
  <2>1. Cardinality(Senders) \in Nat /\ Cardinality(Senders) # 0
    BY FS_CardinalityType, FS_EmptySet, SyncAssumption
  <2>2. Cardinality(Tokens) = MaxTokens
    BY FS_Interval, SyncAssumption DEF Tokens
  <2>3. QED
    BY <2>1, <2>2
<1>5. ~(Tokens \subseteq Busy)
  <2>1. SUFFICES ASSUME Tokens \subseteq Busy PROVE FALSE
    OBVIOUS
  <2>2. Cardinality(Tokens) <= Cardinality(Busy) /\ Cardinality(Busy) \in Nat
    BY <2>1, <1>3, FS_Subset, FS_CardinalityType
  <2>3. QED
    BY <2>2, <1>3, <1>4, SyncAssumption
<1>6. \E t \in Tokens : t \notin Held
  BY <1>1, <1>5
<1>7. QED
  BY <1>6, Zenon DEF Fresh

\* A set of senders loses or gains one, and its size follows.
LEMMA SenderSets ==
  ASSUME NEW S \in SUBSET Senders, NEW s \in Senders
  PROVE  /\ IsFiniteSet(S) /\ Cardinality(S) \in 0..Cardinality(Senders)
         /\ Cardinality(Senders) \in Nat
         /\ Cardinality(S) = 0 <=> S = {}
         /\ s \in S => Cardinality(S \ {s}) = Cardinality(S) - 1 /\ Cardinality(S) >= 1
         /\ s \notin S => Cardinality(S \cup {s}) = Cardinality(S) + 1
<1>1. IsFiniteSet(S) /\ Cardinality(S) <= Cardinality(Senders)
  BY FS_Subset, SyncAssumption
<1>2. Cardinality(S) \in Nat /\ Cardinality(Senders) \in Nat
  BY <1>1, FS_CardinalityType, SyncAssumption
<1>3. Cardinality(S) = 0 <=> S = {}
  BY <1>1, FS_EmptySet
<1>4. s \notin S => Cardinality(S \cup {s}) = Cardinality(S) + 1
  BY <1>1, FS_AddElement
<1>5. s \in S => Cardinality(S \ {s}) = Cardinality(S) - 1
  BY <1>1, FS_RemoveElement
<1>6. s \in S => Cardinality(S) >= 1
  BY <1>2, <1>3
<1>7. QED
  BY <1>1, <1>2, <1>3, <1>4, <1>5, <1>6

-----------------------------------------------------------------------------
(* Every step preserves the invariant                                      *)

\* Every step of send, try_send, clone and drop preserves IInv.
LEMMA SenderPreserves ==
  ASSUME IInv, NEW s \in Senders,
         SendCall(s) \/ CloneChan(s) \/ DropChan(s) \/ SenderStep(s)
  PROVE  IInv'
<1> TypeOK /\ RingInv /\ CountInv /\ CallInv /\ BlockerInv /\ TokenInv
    /\ QueueInv /\ FlagInv /\ MetInv /\ MessageInv /\ SlotInv
  BY DEF IInv
<1>types. TypeOK
  OBVIOUS
<1>smsg. smsg \in [Senders -> 0..MaxSends]
  BY DEF TypeOK, SenderTypeOK
<1>spc. spc \in [Senders -> Pcs]
  BY DEF TypeOK, SenderTypeOK, Pcs
<1>stok. stok \in [Senders -> 0..MaxTokens]
  BY DEF TypeOK, SenderTypeOK
<1>ssig. ssig \in [Senders -> 0..MaxTokens]
  BY DEF TypeOK, SenderTypeOK
<1>sflag. sflag \in [Senders -> BOOLEAN]
  BY DEF TypeOK, SenderTypeOK
<1>sends. sends \in 0..MaxSends /\ MaxSends \in Nat
  BY SyncAssumption DEF TypeOK, SenderTypeOK
<1>size. size \in Nat /\ start \in Nat /\ Slots \in Nat \ {0}
  BY SyncAssumption DEF TypeOK, BufferTypeOK, Slots
<1>slots. cap \in Nat /\ Slots \in 1..(cap + 1)
  BY SyncAssumption DEF TypeOK, BufferTypeOK, Slots
<1>oks. oks \subseteq Messages
  BY DEF TypeOK, SenderTypeOK
<1>returned. returned \subseteq Messages
  BY DEF TypeOK, SenderTypeOK
<1>selected. selected \subseteq Messages
  BY DEF TypeOK, SenderTypeOK
<1>woken. woken \subseteq Tokens
  BY DEF TypeOK, WaitersTypeOK
<1>queue. queue \in Seq(Senders)
  BY DEF TypeOK, WaitersTypeOK
<1>channels. channels \in 0..Cardinality(Senders) /\ Cardinality(Senders) \in Nat
  BY FS_CardinalityType, SyncAssumption DEF TypeOK, WaitersTypeOK
<1>canceled. canceled \subseteq Senders
  BY DEF TypeOK, WaitersTypeOK
<1>blocker. blocker \in [by : {"none", "sender", "receiver"}, tok : 0..MaxTokens]
  BY DEF TypeOK, WaitersTypeOK
<1>rsig. rsig \in Seq(Tokens)
  BY DEF TypeOK, ReceiverTypeOK
<1>received. received \in Seq(Messages)
  BY DEF TypeOK, ReceiverTypeOK
<1>waited. waited \in BOOLEAN
  BY DEF TypeOK, ReceiverTypeOK
<1>rtok. rtok \in 0..MaxTokens
  BY DEF TypeOK, ReceiverTypeOK
<1> /\ DOMAIN spc = Senders /\ DOMAIN smsg = Senders /\ DOMAIN stok = Senders
    /\ DOMAIN ssig = Senders /\ DOMAIN sflag = Senders
  BY <1>spc, <1>smsg, <1>stok, <1>ssig, <1>sflag
<1> \A i \in DOMAIN queue : queue[i] \in Senders
  BY <1>queue
<1>cards. \A S \in SUBSET Senders : Cardinality(S) \in Nat
  BY FS_Subset, FS_CardinalityType, SyncAssumption
<1>toks. \A i \in DOMAIN rsig : rsig[i] \in Tokens /\ rsig[i] # None
  BY <1>rsig, SyncAssumption DEF Tokens, None
<1>nums. /\ sends \in Nat /\ \A u \in Senders : smsg[u] \in Nat
         /\ \A u \in Senders : smsg[u] # None => smsg[u] \in Messages
         /\ \A i \in DOMAIN buf : buf[i] \in Nat
         /\ \A i \in DOMAIN received : received[i] \in Nat
         /\ \A m \in returned : m \in Nat
  <2>1. \A i \in DOMAIN buf : buf[i] \in Nat
    BY SyncAssumption DEF TypeOK, BufferTypeOK
  <2>2. \A i \in DOMAIN received : received[i] \in Nat
    BY SyncAssumption, <1>received DEF Messages
  <2>3. QED
    BY <2>1, <2>2, <1>sends, <1>smsg, <1>returned, SyncAssumption DEF Messages, None
<1>1. ASSUME SendCall(s) PROVE IInv'
  <2>1. /\ spc[s] = "idle" /\ sends < MaxSends /\ sends' = sends + 1
        /\ smsg' = [smsg EXCEPT ![s] = sends + 1]
        /\ spc' = [spc EXCEPT ![s] = "lock"] \/ spc' = [spc EXCEPT ![s] = "try"]
        /\ UNCHANGED <<cap, buf, start, size, disconnected, queue, blocker, canceled,
                        channels, woken, stok, sflag, ssig, rpc, rmode, rtok,
                        waited, rsig, rres, oks, returned, received, selected>>
    BY <1>1 DEF SendCall, Goto, state, sender, receiver
  <2>2. TypeOK'
    <3>1. BufferTypeOK'
      BY <2>1 DEF TypeOK, BufferTypeOK
    <3>2. WaitersTypeOK'
      BY <2>1 DEF TypeOK, WaitersTypeOK
    <3>3. SenderTypeOK'
      <4>1. spc' \in [Senders -> Pcs]
        BY <2>1, <1>spc DEF Pcs
      <4>2. smsg' \in [Senders -> 0..MaxSends]
        BY <2>1, <1>smsg, <1>sends
      <4>3. sends' \in 0..MaxSends
        BY <2>1, <1>sends
      <4>4. QED
        BY <4>1, <4>2, <4>3, <2>1 DEF TypeOK, SenderTypeOK, Pcs
    <3>4. ReceiverTypeOK'
      BY <2>1 DEF TypeOK, ReceiverTypeOK
    <3>5. QED
      BY <3>1, <3>2, <3>3, <3>4, <2>1 DEF TypeOK
  <2>3. RingInv'
    BY <2>1 DEF RingInv, Intact, Slots, Wrap, PortOpen
  <2>4. CountInv'
    <3>1. Alive' = Alive
      BY <2>1 DEF Alive
    <3>2. QED
      BY <3>1, <2>1 DEF CountInv, TxClosed, PortOpen
  <2>5. CallInv'
    BY <2>1 DEF CallInv, None
  <2>6. BlockerInv'
    BY <2>1 DEF BlockerInv, AtRendezvous, Holding, Ready, NoneBlocked, None
  <2>7. TokenInv'
    BY <2>1 DEF TokenInv, None
  <2>8. QueueInv'
    BY <2>1 DEF QueueInv
  <2>9. FlagInv'
    BY <2>1 DEF FlagInv, Holding, PortOpen
  <2>10. MetInv'
    BY <2>1 DEF MetInv, Met, Holding
  <2>11. MessageInv'
    BY <2>1, <1>nums DEF MessageInv, None
  <2>12. SlotInv'
    <3>1. Retrying \subseteq Retrying' /\ Retrying' \subseteq Senders
      BY <2>1 DEF Retrying
    <3>2. Cardinality(Retrying) <= Cardinality(Retrying')
      BY <3>1, FS_Subset, SyncAssumption
    <3>3. Cardinality(Retrying) \in Nat /\ Cardinality(Retrying') \in Nat
      BY <3>1, <1>cards
    <3>4. Slots' = Slots
      BY <2>1 DEF Slots
    <3>5. QED
      BY <3>2, <3>3, <3>4, <2>1, <1>size DEF SlotInv
  <2>13. QED
    BY <2>2, <2>3, <2>4, <2>5, <2>6, <2>7, <2>8, <2>9, <2>10, <2>11, <2>12 DEF IInv
<1>2. ASSUME SendErr(s) PROVE IInv'
  <2>1. /\ spc[s] = "lock" /\ disconnected /\ returned' = returned \cup {smsg[s]}
        /\ smsg' = [smsg EXCEPT ![s] = 0]
        /\ spc' = [spc EXCEPT ![s] = "idle"]
        /\ UNCHANGED <<cap, buf, start, size, disconnected, queue, blocker, canceled,
                        channels, woken, stok, sflag, ssig, rpc, rmode, rtok,
                        waited, rsig, rres, sends, oks, received, selected>>
    BY <1>2 DEF SendErr, Err, Goto, None, state, sender, receiver
  <2>2. TypeOK'
    <3>1. BufferTypeOK'
      BY <2>1 DEF TypeOK, BufferTypeOK
    <3>2. WaitersTypeOK'
      BY <2>1 DEF TypeOK, WaitersTypeOK
    <3>3. SenderTypeOK'
      <4>1. spc' \in [Senders -> Pcs]
        BY <2>1, <1>spc DEF Pcs
      <4>2. smsg' \in [Senders -> 0..MaxSends]
        BY <2>1, <1>smsg, SyncAssumption
      <4>3. returned' \subseteq Messages
        BY <2>1, <1>returned, <1>nums DEF MessageInv, None
      <4>4. QED
        BY <4>1, <4>2, <4>3, <2>1 DEF TypeOK, SenderTypeOK, Pcs
    <3>4. ReceiverTypeOK'
      BY <2>1 DEF TypeOK, ReceiverTypeOK
    <3>5. QED
      BY <3>1, <3>2, <3>3, <3>4, <2>1 DEF TypeOK
  <2>3. RingInv'
    BY <2>1 DEF RingInv, Intact, Slots, Wrap, PortOpen
  <2>4. CountInv'
    <3>1. Alive' = Alive
      BY <2>1 DEF Alive
    <3>2. QED
      BY <3>1, <2>1 DEF CountInv, TxClosed, PortOpen
  <2>5. CallInv'
    BY <2>1 DEF CallInv, None
  <2>6. BlockerInv'
    BY <2>1 DEF BlockerInv, AtRendezvous, Holding, Ready, NoneBlocked, None
  <2>7. TokenInv'
    BY <2>1 DEF TokenInv, None
  <2>8. QueueInv'
    BY <2>1 DEF QueueInv
  <2>9. FlagInv'
    BY <2>1 DEF FlagInv, Holding, PortOpen
  <2>10. MetInv'
    BY <2>1 DEF MetInv, Met, Holding
  <2>11. MessageInv'
    BY <2>1, <1>nums DEF MessageInv, None
  <2>12. SlotInv'
    BY <2>1 DEF SlotInv, QueueInv
  <2>13. QED
    BY <2>2, <2>3, <2>4, <2>5, <2>6, <2>7, <2>8, <2>9, <2>10, <2>11, <2>12 DEF IInv
<1>3. ASSUME SendBlocks(s) PROVE IInv'
  <2>1. /\ spc[s] = "lock" /\ ~disconnected /\ Fresh \in Tokens /\ Fresh \notin Held /\ size >= Slots
        /\ queue' = Append(queue, s) /\ stok' = [stok EXCEPT ![s] = Fresh]
        /\ woken' = woken \ {Fresh}
        /\ spc' = [spc EXCEPT ![s] = "queued"]
        /\ UNCHANGED <<cap, buf, start, size, disconnected, blocker, canceled,
                        channels, smsg, sflag, ssig, rpc, rmode, rtok, waited,
                        rsig, rres, sends, oks, returned, received, selected>>
    <3>1. Intact
      BY <1>3 DEF SendBlocks, RingInv
    <3>2. Fresh \in Tokens /\ Fresh \notin Held /\ BufCap = Slots
      BY <3>1, <1>types, FreshToken, RingShape
    <3>3. QED
      BY <1>3, <3>2, <1>size DEF SendBlocks, HasRoom, WaitOn, Goto, state, sender, receiver
  <2>2. /\ Fresh # None /\ Fresh # blocker.tok /\ Fresh # rtok
        /\ \A u \in Senders : Fresh # stok[u] /\ Fresh # ssig[u]
        /\ \A i \in DOMAIN rsig : Fresh # rsig[i]
    BY <2>1, SyncAssumption DEF Held, Tokens, None
  <2>3. TypeOK'
    <3>1. BufferTypeOK'
      BY <2>1 DEF TypeOK, BufferTypeOK
    <3>2. WaitersTypeOK'
      <4>1. queue' \in Seq(Senders)
        BY <2>1, <1>queue
      <4>2. woken' \subseteq Tokens
        BY <2>1, <1>woken
      <4>3. QED
        BY <4>1, <4>2, <2>1 DEF TypeOK, WaitersTypeOK
    <3>3. SenderTypeOK'
      <4>1. stok' \in [Senders -> 0..MaxTokens]
        BY <2>1, <1>stok, SyncAssumption DEF Tokens
      <4>2. spc' \in [Senders -> Pcs]
        BY <2>1, <1>spc DEF Pcs
      <4>3. QED
        BY <4>1, <4>2, <2>1 DEF TypeOK, SenderTypeOK, Pcs
    <3>4. ReceiverTypeOK'
      BY <2>1 DEF TypeOK, ReceiverTypeOK
    <3>5. QED
      BY <3>1, <3>2, <3>3, <3>4, <2>1 DEF TypeOK
  <2>4. RingInv'
    BY <2>1, <2>2 DEF RingInv, Intact, Slots, Wrap, PortOpen
  <2>5. CountInv'
    <3>1. Alive' = Alive
      BY <2>1 DEF Alive
    <3>2. QED
      BY <3>1, <2>1 DEF CountInv, TxClosed, PortOpen
  <2>6. CallInv'
    BY <2>1, <2>2 DEF CallInv, None
  <2>7. BlockerInv'
    BY <2>1, <2>2 DEF BlockerInv, AtRendezvous, Holding, Ready, NoneBlocked, None
  <2>8. TokenInv'
    BY <2>1, <2>2, <1>toks DEF TokenInv, None
  <2>9. QueueInv'
    <3>1. /\ DOMAIN queue' = 1..(Len(queue) + 1) /\ queue'[Len(queue) + 1] = s
          /\ \A i \in DOMAIN queue : i \in 1..Len(queue) /\ queue'[i] = queue[i] /\ queue[i] # s
          /\ Len(queue) \in Nat /\ DOMAIN queue = 1..Len(queue)
      BY <2>1, <1>queue DEF QueueInv
    <3>2. \A i \in DOMAIN queue' : i \in DOMAIN queue \/ i = Len(queue) + 1
      BY <3>1
    <3>3. ~disconnected'
      BY <2>1
    <3>4. \A i \in DOMAIN queue' :
            /\ spc'[queue'[i]] = "queued" /\ stok'[queue'[i]] \notin woken'
            /\ \A j \in DOMAIN rsig' : rsig'[j] # stok'[queue'[i]]
      BY <2>1, <2>2, <3>1, <3>2 DEF QueueInv
    <3>5. \A i, j \in DOMAIN queue' : i # j => queue'[i] # queue'[j]
      BY <3>1, <3>2 DEF QueueInv
    <3>6. QED
      BY <3>3, <3>4, <3>5 DEF QueueInv
  <2>10. FlagInv'
    BY <2>1, <2>2 DEF FlagInv, Holding, PortOpen
  <2>11. MetInv'
    BY <2>1, <2>2 DEF MetInv, Met, Holding
  <2>12. MessageInv'
    BY <2>1, <2>2, <1>nums DEF MessageInv, None
  <2>13. SlotInv'
    <3>1. Cardinality(Retrying') \in Nat /\ Slots' = Slots
      BY <2>1, <1>cards DEF Retrying, Slots
    <3>2. QED
      BY <2>1, <3>1, <1>size DEF SlotInv
  <2>14. QED
    BY <2>3, <2>4, <2>5, <2>6, <2>7, <2>8, <2>9, <2>10, <2>11, <2>12, <2>13 DEF IInv
<1>4. ASSUME SendBuffers(s) PROVE IInv'
  <2>1. /\ Intact /\ BufCap = Slots /\ size < Slots /\ smsg[s] \in Messages
        /\ ~disconnected /\ spc[s] = "lock" /\ blocker = NoneBlocked /\ cap # 0
    <3>1. spc[s] = "lock" /\ ~disconnected
      BY <1>4 DEF SendBuffers
    <3>2. Intact /\ BufCap = Slots
      BY <3>1, <1>types, RingShape DEF RingInv
    <3>3. QED
      BY <1>4, <3>1, <3>2, <1>nums DEF SendBuffers, HasRoom, MessageInv, MustMeet
  <2>2. /\ EnqueueOk /\ Intact' /\ start' = start /\ size' = size + 1
        /\ (start \in 0..(Slots - 1) /\ size \in 1..Slots)' /\ Slots' = Slots
        /\ size = 0 => buf'[start] = smsg[s]
        /\ \A i \in DOMAIN buf' : buf'[i] = smsg[s] \/ (i \in DOMAIN buf /\ buf'[i] = buf[i])
    BY <1>4, <2>1, Enqueues DEF SendBuffers, Enqueue, Slots
  <2>3. /\ oks' = oks \cup {smsg[s]}
        /\ smsg' = [smsg EXCEPT ![s] = 0]
        /\ spc' = [spc EXCEPT ![s] = "idle"]
        /\ UNCHANGED <<cap, disconnected, queue, blocker, canceled, channels, woken,
                        stok, sflag, ssig, rpc, rmode, rtok, waited, rsig, rres,
                        sends, returned, received, selected>>
    BY <1>4, <2>1, <2>2 DEF SendBuffers, Ok, Goto, None, state, sender, receiver
  <2>4. TypeOK'
    <3>1. BufferTypeOK'
      BY <2>3, <2>2, <1>slots, RingTyped
    <3>2. WaitersTypeOK'
      BY <2>3 DEF TypeOK, WaitersTypeOK
    <3>3. SenderTypeOK'
      <4>1. smsg' \in [Senders -> 0..MaxSends]
        BY <2>3, <1>smsg, SyncAssumption
      <4>2. oks' \subseteq Messages
        BY <2>3, <1>oks, <2>1
      <4>3. spc' \in [Senders -> Pcs]
        BY <2>3, <1>spc DEF Pcs
      <4>4. QED
        BY <4>1, <4>2, <4>3, <2>3 DEF TypeOK, SenderTypeOK, Pcs
    <3>4. ReceiverTypeOK'
      BY <2>3 DEF TypeOK, ReceiverTypeOK
    <3>5. QED
      BY <3>1, <3>2, <3>3, <3>4, <2>3 DEF TypeOK
  <2>5. RingInv'
    BY <2>2, <2>3 DEF RingInv
  <2>6. CountInv'
    <3>1. Alive' = Alive
      BY <2>1, <2>3 DEF Alive
    <3>2. QED
      BY <3>1, <2>1, <2>3 DEF CountInv, TxClosed, PortOpen
  <2>7. CallInv'
    BY <2>1, <2>2, <2>3 DEF CallInv, None
  <2>8. BlockerInv'
    BY <2>1, <2>2, <2>3 DEF BlockerInv, AtRendezvous, Holding, Ready, NoneBlocked, None
  <2>9. TokenInv'
    BY <2>1, <2>2, <2>3 DEF TokenInv, None
  <2>10. QueueInv'
    BY <2>1, <2>2, <2>3 DEF QueueInv
  <2>11. FlagInv'
    BY <2>1, <2>2, <2>3 DEF FlagInv, Holding, PortOpen
  <2>12. MetInv'
    BY <2>1, <2>2, <2>3 DEF MetInv, Met, Holding
  <2>13. MessageInv'
    BY <2>1, <2>2, <2>3, <1>nums DEF MessageInv, None
  <2>14. SlotInv'
    <3>1. Retrying' = Retrying \ {s} /\ s \in Retrying /\ Retrying \subseteq Senders
      BY <2>1, <2>3 DEF Retrying
    <3>2. /\ Cardinality(Retrying') = Cardinality(Retrying) - 1
          /\ Cardinality(Retrying) \in Nat
      BY <3>1, SenderSets
    <3>3. QED
      BY <3>2, <2>2, <2>3, <1>size DEF SlotInv
  <2>15. QED
    BY <2>4, <2>5, <2>6, <2>7, <2>8, <2>9, <2>10, <2>11, <2>12, <2>13, <2>14 DEF IInv
<1>5. ASSUME SendRendezvous(s) PROVE IInv'
  <2>1. /\ Intact /\ BufCap = Slots /\ size < Slots /\ smsg[s] \in Messages
        /\ ~disconnected /\ spc[s] = "lock" /\ blocker = NoneBlocked /\ cap = 0 /\ canceled = {} /\ size = 0
    <3>1. spc[s] = "lock" /\ ~disconnected
      BY <1>5 DEF SendRendezvous
    <3>2. Intact /\ BufCap = Slots
      BY <3>1, <1>types, RingShape DEF RingInv
    <3>3. QED
      BY <1>5, <3>1, <3>2, <1>nums, <1>size DEF SendRendezvous, HasRoom, MessageInv, MustMeet, BlockerInv, NoneBlocked, Slots
  <2>2. /\ EnqueueOk /\ Intact' /\ start' = start /\ size' = size + 1
        /\ (start \in 0..(Slots - 1) /\ size \in 1..Slots)' /\ Slots' = Slots
        /\ size = 0 => buf'[start] = smsg[s]
        /\ \A i \in DOMAIN buf' : buf'[i] = smsg[s] \/ (i \in DOMAIN buf /\ buf'[i] = buf[i])
    BY <1>5, <2>1, Enqueues DEF SendRendezvous, Enqueue, Slots
  <2>3. /\ canceled' = {s} /\ sflag' = [sflag EXCEPT ![s] = FALSE]
        /\ stok' = [stok EXCEPT ![s] = Fresh] /\ woken' = woken \ {Fresh}
        /\ blocker' = [by |-> "sender", tok |-> Fresh]
        /\ spc' = [spc EXCEPT ![s] = "rendezvous"]
        /\ UNCHANGED <<cap, disconnected, queue, channels, smsg, ssig, rpc, rmode,
                        rtok, waited, rsig, rres, sends, oks, returned, received,
                        selected>>
    BY <1>5, <2>1, <2>2
    DEF SendRendezvous, WaitOn, BlockedSender, Goto, state, sender, receiver
  <2>4. /\ Fresh \in Tokens /\ Fresh # None /\ Fresh # blocker.tok /\ Fresh # rtok
        /\ \A u \in Senders : Fresh # stok[u] /\ Fresh # ssig[u]
        /\ \A i \in DOMAIN rsig : Fresh # rsig[i]
    BY <1>types, FreshToken, SyncAssumption DEF Held, Tokens, None
  <2>5. TypeOK'
    <3>1. BufferTypeOK'
      BY <2>3, <2>2, <1>slots, RingTyped
    <3>2. WaitersTypeOK'
      <4>1. canceled' \subseteq Senders
        BY <2>3, <1>canceled
      <4>2. woken' \subseteq Tokens
        BY <2>3, <1>woken
      <4>3. blocker' \in [by : {"none", "sender", "receiver"}, tok : 0..MaxTokens]
        BY <2>3, <1>blocker, <2>4, SyncAssumption DEF Tokens
      <4>4. QED
        BY <4>1, <4>2, <4>3, <2>3 DEF TypeOK, WaitersTypeOK
    <3>3. SenderTypeOK'
      <4>1. sflag' \in [Senders -> BOOLEAN]
        BY <2>3, <1>sflag
      <4>2. stok' \in [Senders -> 0..MaxTokens]
        BY <2>3, <1>stok, <2>4, SyncAssumption DEF Tokens
      <4>3. spc' \in [Senders -> Pcs]
        BY <2>3, <1>spc DEF Pcs
      <4>4. QED
        BY <4>1, <4>2, <4>3, <2>3 DEF TypeOK, SenderTypeOK, Pcs
    <3>4. ReceiverTypeOK'
      BY <2>3 DEF TypeOK, ReceiverTypeOK
    <3>5. QED
      BY <3>1, <3>2, <3>3, <3>4, <2>3 DEF TypeOK
  <2>6. RingInv'
    BY <2>2, <2>3 DEF RingInv
  <2>7. CountInv'
    <3>1. Alive' = Alive
      BY <2>1, <2>3 DEF Alive
    <3>2. QED
      BY <3>1, <2>1, <2>3 DEF CountInv, TxClosed, PortOpen
  <2>8. CallInv'
    BY <2>1, <2>2, <2>3, <2>4 DEF CallInv, None
  <2>9. BlockerInv'
    BY <2>1, <2>2, <2>3, <2>4
    DEF BlockerInv, AtRendezvous, Holding, Ready, NoneBlocked, None
  <2>10. TokenInv'
    BY <2>1, <2>2, <2>3, <2>4, <1>toks DEF TokenInv, None
  <2>11. QueueInv'
    BY <2>1, <2>2, <2>3, <2>4 DEF QueueInv
  <2>12. FlagInv'
    BY <2>1, <2>2, <2>3, <2>4 DEF FlagInv, Holding, PortOpen
  <2>13. MetInv'
    BY <2>1, <2>2, <2>3, <2>4 DEF MetInv, Met, Holding
  <2>14. MessageInv'
    BY <2>1, <2>2, <2>3, <2>4, <1>nums DEF MessageInv, None
  <2>15. SlotInv'
    <3>1. Retrying' = Retrying \ {s} /\ s \in Retrying /\ Retrying \subseteq Senders
      BY <2>1, <2>3 DEF Retrying
    <3>2. /\ Cardinality(Retrying') = Cardinality(Retrying) - 1
          /\ Cardinality(Retrying) \in Nat
      BY <3>1, SenderSets
    <3>3. QED
      BY <3>2, <2>2, <2>3, <1>size DEF SlotInv
  <2>16. QED
    BY <2>5, <2>6, <2>7, <2>8, <2>9, <2>10, <2>11, <2>12, <2>13, <2>14, <2>15 DEF IInv
<1>6. ASSUME SendHandsOff(s) PROVE IInv'
  <2>1. /\ Intact /\ BufCap = Slots /\ size < Slots /\ smsg[s] \in Messages
        /\ ~disconnected /\ spc[s] = "lock" /\ size = 0 /\ blocker.by = "receiver" /\ blocker.tok # None
    <3>1. spc[s] = "lock" /\ ~disconnected
      BY <1>6 DEF SendHandsOff
    <3>2. Intact /\ BufCap = Slots
      BY <3>1, <1>types, RingShape DEF RingInv
    <3>3. QED
      BY <1>6, <3>1, <3>2, <1>nums, <1>size, <1>blocker DEF SendHandsOff, HasRoom, MessageInv, BlockerInv, AtRendezvous, Holding, NoneBlocked, None, Ready, Slots
  <2>2. /\ EnqueueOk /\ Intact' /\ start' = start /\ size' = size + 1
        /\ (start \in 0..(Slots - 1) /\ size \in 1..Slots)' /\ Slots' = Slots
        /\ size = 0 => buf'[start] = smsg[s]
        /\ \A i \in DOMAIN buf' : buf'[i] = smsg[s] \/ (i \in DOMAIN buf /\ buf'[i] = buf[i])
    BY <1>6, <2>1, Enqueues DEF SendHandsOff, Enqueue, Slots
  <2>3. /\ ssig' = [ssig EXCEPT ![s] = blocker.tok] /\ blocker' = NoneBlocked
        /\ selected' = IF rmode = "select" THEN selected \cup {smsg[s]} ELSE selected
        /\ spc' = [spc EXCEPT ![s] = "wake"]
        /\ UNCHANGED <<cap, disconnected, queue, canceled, channels, woken, smsg,
                        stok, sflag, rpc, rmode, rtok, waited, rsig, rres, sends,
                        oks, returned, received>>
    BY <1>6, <2>1, <2>2 DEF SendHandsOff, TakeReceiver, Goto, state, sender, receiver
  <2>4. TypeOK'
    <3>1. BufferTypeOK'
      BY <2>3, <2>2, <1>slots, RingTyped
    <3>2. WaitersTypeOK'
      <4>1. blocker' \in [by : {"none", "sender", "receiver"}, tok : 0..MaxTokens]
        BY <2>3, <1>blocker, SyncAssumption DEF NoneBlocked, None
      <4>2. QED
        BY <4>1, <2>3 DEF TypeOK, WaitersTypeOK
    <3>3. SenderTypeOK'
      <4>1. ssig' \in [Senders -> 0..MaxTokens]
        BY <2>3, <1>ssig, <1>blocker
      <4>2. selected' \subseteq Messages
        BY <2>3, <1>selected, <2>1
      <4>3. spc' \in [Senders -> Pcs]
        BY <2>3, <1>spc DEF Pcs
      <4>4. QED
        BY <4>1, <4>2, <4>3, <2>3 DEF TypeOK, SenderTypeOK, Pcs
    <3>4. ReceiverTypeOK'
      BY <2>3 DEF TypeOK, ReceiverTypeOK
    <3>5. QED
      BY <3>1, <3>2, <3>3, <3>4, <2>3 DEF TypeOK
  <2>5. RingInv'
    BY <2>2, <2>3 DEF RingInv
  <2>6. CountInv'
    <3>1. Alive' = Alive
      BY <2>1, <2>3 DEF Alive
    <3>2. QED
      BY <3>1, <2>1, <2>3 DEF CountInv, TxClosed, PortOpen
  <2>7. CallInv'
    BY <2>1, <2>2, <2>3 DEF CallInv, None
  <2>8. BlockerInv'
    BY <2>1, <2>2, <2>3, <1>size
    DEF BlockerInv, AtRendezvous, Holding, Ready, NoneBlocked, None
  <2>9. TokenInv'
    BY <2>1, <2>2, <2>3, <1>toks DEF TokenInv, None, BlockerInv, NoneBlocked
  <2>10. QueueInv'
    BY <2>1, <2>2, <2>3 DEF QueueInv
  <2>11. FlagInv'
    BY <2>1, <2>2, <2>3 DEF FlagInv, Holding, PortOpen
  <2>12. MetInv'
    BY <2>1, <2>2, <2>3, <1>size DEF MetInv, Met, Holding, BlockerInv, CallInv
  <2>13. MessageInv'
    BY <2>1, <2>2, <2>3, <1>nums DEF MessageInv, None
  <2>14. SlotInv'
    <3>1. Retrying' = Retrying \ {s} /\ s \in Retrying /\ Retrying \subseteq Senders
      BY <2>1, <2>3 DEF Retrying
    <3>2. /\ Cardinality(Retrying') = Cardinality(Retrying) - 1
          /\ Cardinality(Retrying) \in Nat
      BY <3>1, SenderSets
    <3>3. QED
      BY <3>2, <2>2, <2>3, <1>size DEF SlotInv
  <2>15. QED
    BY <2>4, <2>5, <2>6, <2>7, <2>8, <2>9, <2>10, <2>11, <2>12, <2>13, <2>14 DEF IInv
<1>7. ASSUME TrySendErr(s) PROVE IInv'
  <2>1. /\ spc[s] = "try" /\ returned' = returned \cup {smsg[s]}
        /\ smsg' = [smsg EXCEPT ![s] = 0]
        /\ spc' = [spc EXCEPT ![s] = "idle"]
        /\ UNCHANGED <<cap, buf, start, size, disconnected, queue, blocker, canceled,
                        channels, woken, stok, sflag, ssig, rpc, rmode, rtok,
                        waited, rsig, rres, sends, oks, received, selected>>
    BY <1>7 DEF TrySendErr, Err, Goto, None, state, sender, receiver
  <2>2. TypeOK'
    <3>1. BufferTypeOK'
      BY <2>1 DEF TypeOK, BufferTypeOK
    <3>2. WaitersTypeOK'
      BY <2>1 DEF TypeOK, WaitersTypeOK
    <3>3. SenderTypeOK'
      <4>1. spc' \in [Senders -> Pcs]
        BY <2>1, <1>spc DEF Pcs
      <4>2. smsg' \in [Senders -> 0..MaxSends]
        BY <2>1, <1>smsg, SyncAssumption
      <4>3. returned' \subseteq Messages
        BY <2>1, <1>returned, <1>nums DEF MessageInv, None
      <4>4. QED
        BY <4>1, <4>2, <4>3, <2>1 DEF TypeOK, SenderTypeOK, Pcs
    <3>4. ReceiverTypeOK'
      BY <2>1 DEF TypeOK, ReceiverTypeOK
    <3>5. QED
      BY <3>1, <3>2, <3>3, <3>4, <2>1 DEF TypeOK
  <2>3. RingInv'
    BY <2>1 DEF RingInv, Intact, Slots, Wrap, PortOpen
  <2>4. CountInv'
    <3>1. Alive' = Alive
      BY <2>1 DEF Alive
    <3>2. QED
      BY <3>1, <2>1 DEF CountInv, TxClosed, PortOpen
  <2>5. CallInv'
    BY <2>1 DEF CallInv, None
  <2>6. BlockerInv'
    BY <2>1 DEF BlockerInv, AtRendezvous, Holding, Ready, NoneBlocked, None
  <2>7. TokenInv'
    BY <2>1 DEF TokenInv, None
  <2>8. QueueInv'
    BY <2>1 DEF QueueInv
  <2>9. FlagInv'
    BY <2>1 DEF FlagInv, Holding, PortOpen
  <2>10. MetInv'
    BY <2>1 DEF MetInv, Met, Holding
  <2>11. MessageInv'
    BY <2>1, <1>nums DEF MessageInv, None
  <2>12. SlotInv'
    <3>1. Retrying' = Retrying
      BY <2>1 DEF Retrying
    <3>2. QED
      BY <3>1, <2>1 DEF SlotInv, Slots
  <2>13. QED
    BY <2>2, <2>3, <2>4, <2>5, <2>6, <2>7, <2>8, <2>9, <2>10, <2>11, <2>12 DEF IInv
<1>8. ASSUME TrySendBuffers(s) PROVE IInv'
  <2>1. /\ Intact /\ BufCap = Slots /\ size < Slots /\ smsg[s] \in Messages
        /\ ~disconnected /\ spc[s] = "try" /\ blocker = NoneBlocked /\ cap # 0
    <3>1. spc[s] = "try" /\ ~disconnected
      BY <1>8 DEF TrySendBuffers
    <3>2. Intact /\ BufCap = Slots
      BY <3>1, <1>types, RingShape DEF RingInv
    <3>3. QED
      BY <1>8, <3>1, <3>2, <1>nums, <1>size DEF TrySendBuffers, RingInv, MessageInv
  <2>2. /\ EnqueueOk /\ Intact' /\ start' = start /\ size' = size + 1
        /\ (start \in 0..(Slots - 1) /\ size \in 1..Slots)' /\ Slots' = Slots
        /\ size = 0 => buf'[start] = smsg[s]
        /\ \A i \in DOMAIN buf' : buf'[i] = smsg[s] \/ (i \in DOMAIN buf /\ buf'[i] = buf[i])
    BY <1>8, <2>1, Enqueues DEF TrySendBuffers, Enqueue, Slots
  <2>3. /\ oks' = oks \cup {smsg[s]}
        /\ smsg' = [smsg EXCEPT ![s] = 0]
        /\ spc' = [spc EXCEPT ![s] = "idle"]
        /\ UNCHANGED <<cap, disconnected, queue, blocker, canceled, channels, woken,
                        stok, sflag, ssig, rpc, rmode, rtok, waited, rsig, rres,
                        sends, returned, received, selected>>
    BY <1>8, <2>1, <2>2 DEF TrySendBuffers, Ok, Goto, None, state, sender, receiver
  <2>4. TypeOK'
    <3>1. BufferTypeOK'
      BY <2>3, <2>2, <1>slots, RingTyped
    <3>2. WaitersTypeOK'
      BY <2>3 DEF TypeOK, WaitersTypeOK
    <3>3. SenderTypeOK'
      <4>1. smsg' \in [Senders -> 0..MaxSends]
        BY <2>3, <1>smsg, SyncAssumption
      <4>2. oks' \subseteq Messages
        BY <2>3, <1>oks, <2>1
      <4>3. spc' \in [Senders -> Pcs]
        BY <2>3, <1>spc DEF Pcs
      <4>4. QED
        BY <4>1, <4>2, <4>3, <2>3 DEF TypeOK, SenderTypeOK, Pcs
    <3>4. ReceiverTypeOK'
      BY <2>3 DEF TypeOK, ReceiverTypeOK
    <3>5. QED
      BY <3>1, <3>2, <3>3, <3>4, <2>3 DEF TypeOK
  <2>5. RingInv'
    BY <2>2, <2>3 DEF RingInv
  <2>6. CountInv'
    <3>1. Alive' = Alive
      BY <2>1, <2>3 DEF Alive
    <3>2. QED
      BY <3>1, <2>1, <2>3 DEF CountInv, TxClosed, PortOpen
  <2>7. CallInv'
    BY <2>1, <2>2, <2>3 DEF CallInv, None
  <2>8. BlockerInv'
    BY <2>1, <2>2, <2>3 DEF BlockerInv, AtRendezvous, Holding, Ready, NoneBlocked, None
  <2>9. TokenInv'
    BY <2>1, <2>2, <2>3 DEF TokenInv, None
  <2>10. QueueInv'
    BY <2>1, <2>2, <2>3 DEF QueueInv
  <2>11. FlagInv'
    BY <2>1, <2>2, <2>3 DEF FlagInv, Holding, PortOpen
  <2>12. MetInv'
    BY <2>1, <2>2, <2>3 DEF MetInv, Met, Holding
  <2>13. MessageInv'
    BY <2>1, <2>2, <2>3, <1>nums DEF MessageInv, None
  <2>14. SlotInv'
    <3>1. Retrying' = Retrying /\ Retrying \subseteq Senders
      BY <2>1, <2>3 DEF Retrying
    <3>2. QED
      BY <3>1, <2>2, <2>3, <1>size, <1>cards DEF SlotInv
  <2>15. QED
    BY <2>4, <2>5, <2>6, <2>7, <2>8, <2>9, <2>10, <2>11, <2>12, <2>13, <2>14 DEF IInv
<1>9. ASSUME TrySendHandsOff(s) PROVE IInv'
  <2>1. /\ Intact /\ BufCap = Slots /\ size < Slots /\ smsg[s] \in Messages
        /\ ~disconnected /\ spc[s] = "try" /\ size = 0 /\ blocker.by = "receiver" /\ blocker.tok # None
    <3>1. spc[s] = "try" /\ ~disconnected
      BY <1>9 DEF TrySendHandsOff
    <3>2. Intact /\ BufCap = Slots
      BY <3>1, <1>types, RingShape DEF RingInv
    <3>3. QED
      BY <1>9, <3>1, <3>2, <1>nums, <1>size, <1>blocker DEF TrySendHandsOff, RingInv, MessageInv, BlockerInv, AtRendezvous, Holding, NoneBlocked, None, Ready, Slots
  <2>2. /\ EnqueueOk /\ Intact' /\ start' = start /\ size' = size + 1
        /\ (start \in 0..(Slots - 1) /\ size \in 1..Slots)' /\ Slots' = Slots
        /\ size = 0 => buf'[start] = smsg[s]
        /\ \A i \in DOMAIN buf' : buf'[i] = smsg[s] \/ (i \in DOMAIN buf /\ buf'[i] = buf[i])
    BY <1>9, <2>1, Enqueues DEF TrySendHandsOff, Enqueue, Slots
  <2>3. /\ ssig' = [ssig EXCEPT ![s] = blocker.tok] /\ blocker' = NoneBlocked
        /\ selected' = IF rmode = "select" THEN selected \cup {smsg[s]} ELSE selected
        /\ spc' = [spc EXCEPT ![s] = "wake"]
        /\ UNCHANGED <<cap, disconnected, queue, canceled, channels, woken, smsg,
                        stok, sflag, rpc, rmode, rtok, waited, rsig, rres, sends,
                        oks, returned, received>>
    BY <1>9, <2>1, <2>2 DEF TrySendHandsOff, TakeReceiver, Goto, state, sender, receiver
  <2>4. TypeOK'
    <3>1. BufferTypeOK'
      BY <2>3, <2>2, <1>slots, RingTyped
    <3>2. WaitersTypeOK'
      <4>1. blocker' \in [by : {"none", "sender", "receiver"}, tok : 0..MaxTokens]
        BY <2>3, <1>blocker, SyncAssumption DEF NoneBlocked, None
      <4>2. QED
        BY <4>1, <2>3 DEF TypeOK, WaitersTypeOK
    <3>3. SenderTypeOK'
      <4>1. ssig' \in [Senders -> 0..MaxTokens]
        BY <2>3, <1>ssig, <1>blocker
      <4>2. selected' \subseteq Messages
        BY <2>3, <1>selected, <2>1
      <4>3. spc' \in [Senders -> Pcs]
        BY <2>3, <1>spc DEF Pcs
      <4>4. QED
        BY <4>1, <4>2, <4>3, <2>3 DEF TypeOK, SenderTypeOK, Pcs
    <3>4. ReceiverTypeOK'
      BY <2>3 DEF TypeOK, ReceiverTypeOK
    <3>5. QED
      BY <3>1, <3>2, <3>3, <3>4, <2>3 DEF TypeOK
  <2>5. RingInv'
    BY <2>2, <2>3 DEF RingInv
  <2>6. CountInv'
    <3>1. Alive' = Alive
      BY <2>1, <2>3 DEF Alive
    <3>2. QED
      BY <3>1, <2>1, <2>3 DEF CountInv, TxClosed, PortOpen
  <2>7. CallInv'
    BY <2>1, <2>2, <2>3 DEF CallInv, None
  <2>8. BlockerInv'
    BY <2>1, <2>2, <2>3, <1>size
    DEF BlockerInv, AtRendezvous, Holding, Ready, NoneBlocked, None
  <2>9. TokenInv'
    BY <2>1, <2>2, <2>3, <1>toks DEF TokenInv, None, BlockerInv, NoneBlocked
  <2>10. QueueInv'
    BY <2>1, <2>2, <2>3 DEF QueueInv
  <2>11. FlagInv'
    BY <2>1, <2>2, <2>3 DEF FlagInv, Holding, PortOpen
  <2>12. MetInv'
    BY <2>1, <2>2, <2>3, <1>size DEF MetInv, Met, Holding, BlockerInv, CallInv
  <2>13. MessageInv'
    BY <2>1, <2>2, <2>3, <1>nums DEF MessageInv, None
  <2>14. SlotInv'
    <3>1. Retrying' = Retrying /\ Retrying \subseteq Senders
      BY <2>1, <2>3 DEF Retrying
    <3>2. QED
      BY <3>1, <2>2, <2>3, <1>size, <1>cards DEF SlotInv
  <2>15. QED
    BY <2>4, <2>5, <2>6, <2>7, <2>8, <2>9, <2>10, <2>11, <2>12, <2>13, <2>14 DEF IInv
<1>10. ASSUME SendWake(s) PROVE IInv'
  <2>1. /\ spc[s] = "wake" /\ ssig[s] # 0 /\ woken \subseteq woken'
        /\ woken' \subseteq woken \cup {ssig[s]}
        /\ oks' = oks \cup {smsg[s]}
        /\ smsg' = [smsg EXCEPT ![s] = 0]
        /\ ssig' = [ssig EXCEPT ![s] = 0]
        /\ spc' = [spc EXCEPT ![s] = "idle"]
        /\ UNCHANGED <<cap, buf, start, size, disconnected, queue, blocker, canceled,
                        channels, stok, sflag, rpc, rmode, rtok, waited, rsig,
                        rres, sends, returned, received, selected>>
    BY <1>10 DEF SendWake, Signal, Ok, Goto, None, TokenInv, state, sender, receiver
  <2>2. TypeOK'
    <3>1. BufferTypeOK'
      BY <2>1 DEF TypeOK, BufferTypeOK
    <3>2. WaitersTypeOK'
      <4>1. woken' \subseteq Tokens
        BY <2>1, <1>woken, <1>ssig DEF Tokens
      <4>2. QED
        BY <4>1, <2>1 DEF TypeOK, WaitersTypeOK
    <3>3. SenderTypeOK'
      <4>1. ssig' \in [Senders -> 0..MaxTokens]
        BY <2>1, <1>ssig, SyncAssumption
      <4>2. smsg' \in [Senders -> 0..MaxSends]
        BY <2>1, <1>smsg, SyncAssumption
      <4>3. oks' \subseteq Messages
        BY <2>1, <1>oks, <1>nums DEF MessageInv, None
      <4>4. spc' \in [Senders -> Pcs]
        BY <2>1, <1>spc DEF Pcs
      <4>5. QED
        BY <4>1, <4>2, <4>3, <4>4, <2>1 DEF TypeOK, SenderTypeOK, Pcs
    <3>4. ReceiverTypeOK'
      BY <2>1 DEF TypeOK, ReceiverTypeOK
    <3>5. QED
      BY <3>1, <3>2, <3>3, <3>4, <2>1 DEF TypeOK
  <2>3. RingInv'
    BY <2>1 DEF RingInv, Intact, Slots, Wrap, PortOpen
  <2>4. CountInv'
    <3>1. Alive' = Alive
      BY <2>1 DEF Alive
    <3>2. QED
      BY <3>1, <2>1 DEF CountInv, TxClosed, PortOpen
  <2>5. CallInv'
    BY <2>1 DEF CallInv, None
  <2>6. BlockerInv'
    BY <2>1 DEF BlockerInv, AtRendezvous, Holding, Ready, NoneBlocked, None, TokenInv
  <2>7. TokenInv'
    BY <2>1, <1>toks DEF TokenInv, None
  <2>8. QueueInv'
    BY <2>1 DEF QueueInv, TokenInv, None
  <2>9. FlagInv'
    BY <2>1 DEF FlagInv, Holding, PortOpen
  <2>10. MetInv'
    BY <2>1 DEF MetInv, Met, Holding
  <2>11. MessageInv'
    BY <2>1, <1>nums DEF MessageInv, None
  <2>12. SlotInv'
    <3>1. Retrying' = Retrying
      BY <2>1 DEF Retrying
    <3>2. QED
      BY <3>1, <2>1 DEF SlotInv, Slots
  <2>13. QED
    BY <2>2, <2>3, <2>4, <2>5, <2>6, <2>7, <2>8, <2>9, <2>10, <2>11, <2>12 DEF IInv
<1>11. ASSUME Woken(s) PROVE IInv'
  <2>1. /\ spc[s] \in {"queued", "rendezvous"} /\ stok[s] \in woken /\ s \notin canceled
        /\ \A i \in DOMAIN queue : queue[i] # s
        /\ stok' = [stok EXCEPT ![s] = 0] /\ woken' = woken \ {stok[s]}
        /\ spc' = [spc EXCEPT ![s] = IF spc[s] = "queued" THEN "lock" ELSE "relock"]
        /\ UNCHANGED <<cap, buf, start, size, disconnected, queue, blocker, canceled,
                        channels, smsg, sflag, ssig, rpc, rmode, rtok, waited,
                        rsig, rres, sends, oks, returned, received, selected>>
    BY <1>11
    DEF Woken, Goto, None, QueueInv, BlockerInv, AtRendezvous, state, sender, receiver
  <2>2. TypeOK'
    <3>1. BufferTypeOK'
      BY <2>1 DEF TypeOK, BufferTypeOK
    <3>2. WaitersTypeOK'
      <4>1. woken' \subseteq Tokens
        BY <2>1, <1>woken
      <4>2. QED
        BY <4>1, <2>1 DEF TypeOK, WaitersTypeOK
    <3>3. SenderTypeOK'
      <4>1. stok' \in [Senders -> 0..MaxTokens]
        BY <2>1, <1>stok, SyncAssumption
      <4>2. spc' \in [Senders -> Pcs]
        BY <2>1, <1>spc DEF Pcs
      <4>3. QED
        BY <4>1, <4>2, <2>1 DEF TypeOK, SenderTypeOK, Pcs
    <3>4. ReceiverTypeOK'
      BY <2>1 DEF TypeOK, ReceiverTypeOK
    <3>5. QED
      BY <3>1, <3>2, <3>3, <3>4, <2>1 DEF TypeOK
  <2>3. RingInv'
    BY <2>1 DEF RingInv, Intact, Slots, Wrap, PortOpen
  <2>4. CountInv'
    <3>1. Alive' = Alive
      BY <2>1 DEF Alive
    <3>2. QED
      BY <3>1, <2>1 DEF CountInv, TxClosed, PortOpen
  <2>5. CallInv'
    BY <2>1 DEF CallInv, None
  <2>6. BlockerInv'
    BY <2>1 DEF BlockerInv, AtRendezvous, Holding, Ready, NoneBlocked, None
  <2>7. TokenInv'
    BY <2>1, <1>toks DEF TokenInv, None
  <2>8. QueueInv'
    BY <2>1 DEF QueueInv
  <2>9. FlagInv'
    BY <2>1 DEF FlagInv, Holding, PortOpen
  <2>10. MetInv'
    BY <2>1 DEF MetInv, Met, Holding
  <2>11. MessageInv'
    BY <2>1, <1>nums DEF MessageInv, None
  <2>12. SlotInv'
    <3>1. Retrying' = Retrying
      BY <2>1 DEF Retrying
    <3>2. QED
      BY <3>1, <2>1 DEF SlotInv, Slots
  <2>13. QED
    BY <2>2, <2>3, <2>4, <2>5, <2>6, <2>7, <2>8, <2>9, <2>10, <2>11, <2>12 DEF IInv
<1>12. ASSUME Acknowledged(s) PROVE IInv'
  <2>1. /\ spc[s] = "relock" /\ ~sflag[s] /\ s \notin canceled
        /\ oks' = oks \cup {smsg[s]} /\ smsg' = [smsg EXCEPT ![s] = 0]
        /\ spc' = [spc EXCEPT ![s] = "idle"]
        /\ UNCHANGED <<cap, buf, start, size, disconnected, queue, blocker, canceled,
                        channels, woken, stok, sflag, ssig, rpc, rmode, rtok,
                        waited, rsig, rres, sends, returned, received, selected>>
    BY <1>12
    DEF Acknowledged, Ok, Goto, None, BlockerInv, AtRendezvous, state, sender, receiver
  <2>2. TypeOK'
    <3>1. BufferTypeOK'
      BY <2>1 DEF TypeOK, BufferTypeOK
    <3>2. WaitersTypeOK'
      BY <2>1 DEF TypeOK, WaitersTypeOK
    <3>3. SenderTypeOK'
      <4>1. smsg' \in [Senders -> 0..MaxSends]
        BY <2>1, <1>smsg, SyncAssumption
      <4>2. oks' \subseteq Messages
        BY <2>1, <1>oks, <1>nums DEF MessageInv, None
      <4>3. spc' \in [Senders -> Pcs]
        BY <2>1, <1>spc DEF Pcs
      <4>4. QED
        BY <4>1, <4>2, <4>3, <2>1 DEF TypeOK, SenderTypeOK, Pcs
    <3>4. ReceiverTypeOK'
      BY <2>1 DEF TypeOK, ReceiverTypeOK
    <3>5. QED
      BY <3>1, <3>2, <3>3, <3>4, <2>1 DEF TypeOK
  <2>3. RingInv'
    BY <2>1 DEF RingInv, Intact, Slots, Wrap, PortOpen
  <2>4. CountInv'
    <3>1. Alive' = Alive
      BY <2>1 DEF Alive
    <3>2. QED
      BY <3>1, <2>1 DEF CountInv, TxClosed, PortOpen
  <2>5. CallInv'
    BY <2>1 DEF CallInv, None
  <2>6. BlockerInv'
    BY <2>1 DEF BlockerInv, AtRendezvous, Holding, Ready, NoneBlocked, None
  <2>7. TokenInv'
    BY <2>1 DEF TokenInv, None
  <2>8. QueueInv'
    BY <2>1 DEF QueueInv
  <2>9. FlagInv'
    BY <2>1 DEF FlagInv, Holding, PortOpen
  <2>10. MetInv'
    BY <2>1 DEF MetInv, Met, Holding, FlagInv
  <2>11. MessageInv'
    BY <2>1, <1>nums DEF MessageInv, None
  <2>12. SlotInv'
    <3>1. Retrying' = Retrying
      BY <2>1 DEF Retrying
    <3>2. QED
      BY <3>1, <2>1 DEF SlotInv, Slots
  <2>13. QED
    BY <2>2, <2>3, <2>4, <2>5, <2>6, <2>7, <2>8, <2>9, <2>10, <2>11, <2>12 DEF IInv
<1>13. ASSUME Canceled(s) PROVE IInv'
  <2>1. /\ spc[s] = "relock" /\ sflag[s] /\ cap = 0 /\ ~PortOpen /\ Intact /\ disconnected
        /\ size = 1 /\ First = smsg[s] /\ smsg[s] \in Messages
    BY <1>13, <1>nums DEF Canceled, FlagInv, Holding, First, RingInv, CountInv, MessageInv
  <2>2. /\ DequeueOk /\ Intact' /\ size' = 0 /\ (start \in 0..(Slots - 1))' /\ Slots' = Slots
        /\ \A i \in DOMAIN buf' : buf'[i] = 0 \/ (i \in DOMAIN buf /\ buf'[i] = buf[i])
    BY <1>13, <2>1, Dequeues DEF Canceled, Dequeue, Slots, None
  <2>3. /\ returned' = returned \cup {smsg[s]}
        /\ smsg' = [smsg EXCEPT ![s] = 0] /\ sflag' = [sflag EXCEPT ![s] = FALSE]
        /\ spc' = [spc EXCEPT ![s] = "idle"]
        /\ UNCHANGED <<cap, disconnected, queue, blocker, canceled, channels, woken,
                        stok, ssig, rpc, rmode, rtok, waited, rsig, rres, sends,
                        oks, received, selected>>
    BY <1>13, <2>1, <2>2 DEF Canceled, Err, Goto, None, state, sender, receiver
  <2>4. TypeOK'
    <3>1. BufferTypeOK'
      BY <2>3, <2>2, <1>slots, RingTyped
    <3>2. WaitersTypeOK'
      BY <2>3 DEF TypeOK, WaitersTypeOK
    <3>3. SenderTypeOK'
      <4>1. smsg' \in [Senders -> 0..MaxSends]
        BY <2>3, <1>smsg, SyncAssumption
      <4>2. returned' \subseteq Messages
        BY <2>3, <1>returned, <2>1
      <4>3. sflag' \in [Senders -> BOOLEAN]
        BY <2>3, <1>sflag
      <4>4. spc' \in [Senders -> Pcs]
        BY <2>3, <1>spc DEF Pcs
      <4>5. QED
        BY <4>1, <4>2, <4>3, <4>4, <2>3 DEF TypeOK, SenderTypeOK, Pcs
    <3>4. ReceiverTypeOK'
      BY <2>3 DEF TypeOK, ReceiverTypeOK
    <3>5. QED
      BY <3>1, <3>2, <3>3, <3>4, <2>3 DEF TypeOK
  <2>5. RingInv'
    BY <2>2, <2>3, <1>size DEF RingInv
  <2>6. CountInv'
    <3>1. Alive' = Alive
      BY <2>1, <2>3 DEF Alive
    <3>2. QED
      BY <3>1, <2>1, <2>3 DEF CountInv, TxClosed, PortOpen
  <2>7. CallInv'
    BY <2>1, <2>2, <2>3 DEF CallInv, None
  <2>8. BlockerInv'
    BY <2>1, <2>2, <2>3 DEF BlockerInv, AtRendezvous, Holding, Ready, NoneBlocked, None
  <2>9. TokenInv'
    BY <2>1, <2>2, <2>3 DEF TokenInv, None
  <2>10. QueueInv'
    BY <2>1, <2>2, <2>3 DEF QueueInv
  <2>11. FlagInv'
    BY <2>1, <2>2, <2>3 DEF FlagInv, Holding, PortOpen
  <2>12. MetInv'
    BY <2>1, <2>2, <2>3 DEF MetInv, Met, Holding, CallInv, PortOpen
  <2>13. MessageInv'
    BY <2>1, <2>2, <2>3, <1>nums, <2>2 DEF MessageInv, None
  <2>14. SlotInv'
    BY <2>1, <2>3 DEF SlotInv, QueueInv
  <2>15. QED
    BY <2>4, <2>5, <2>6, <2>7, <2>8, <2>9, <2>10, <2>11, <2>12, <2>13, <2>14 DEF IInv
<1>14. ASSUME CloneChan(s) PROVE IInv'
  <2>1. PICK u \in Senders :
          /\ spc[s] = "idle" /\ spc[u] = "unborn"
          /\ spc' = [spc EXCEPT ![u] = "idle"]
          /\ channels' = channels + 1
          /\ UNCHANGED <<cap, buf, start, size, disconnected, queue, blocker, canceled,
                          woken, smsg, stok, sflag, ssig, rpc, rmode, rtok, waited,
                          rsig, rres, sends, oks, returned, received, selected>>
    BY <1>14, Zenon DEF CloneChan, Goto, state, sender, receiver
  <2>2. /\ Alive' = Alive \cup {u} /\ Cardinality(Alive') = Cardinality(Alive) + 1
        /\ Cardinality(Alive) >= 1 /\ Cardinality(Alive) \in Nat
        /\ Cardinality(Alive') <= Cardinality(Senders) /\ Cardinality(Senders) \in Nat
    <3>1. Alive' = Alive \cup {u} /\ u \notin Alive /\ s \in Alive /\ Alive \in SUBSET Senders
      BY <2>1 DEF Alive
    <3>2. Cardinality(Alive') = Cardinality(Alive) + 1 /\ Cardinality(Alive) >= 1
          /\ Cardinality(Alive') <= Cardinality(Senders) /\ Cardinality(Alive) \in Nat
          /\ Cardinality(Senders) \in Nat
      <4>1. Cardinality(Alive) \in Nat /\ Cardinality(Alive) >= 1 /\ IsFiniteSet(Alive)
        <5>1. IsFiniteSet(Alive) /\ Cardinality(Alive) \in Nat
          BY <3>1, FS_Subset, SyncAssumption, <1>cards
        <5>2. Cardinality(Alive) # 0
          BY <3>1, <5>1, FS_EmptySet
        <5>3. QED
          BY <5>1, <5>2
      <4>2. Cardinality(Alive \cup {u}) = Cardinality(Alive) + 1
        BY <3>1, <4>1, FS_AddElement
      <4>3. Cardinality(Alive \cup {u}) <= Cardinality(Senders) /\ Cardinality(Senders) \in Nat
        BY <3>1, <2>1, FS_Subset, SyncAssumption, <1>channels
      <4>4. QED
        BY <3>1, <4>1, <4>2, <4>3
    <3>3. QED
      BY <3>1, <3>2
  <2>3. TypeOK'
    <3>1. BufferTypeOK'
      BY <2>1 DEF TypeOK, BufferTypeOK
    <3>2. WaitersTypeOK'
      <4>1. channels' \in 0..Cardinality(Senders)
        BY <2>1, <1>channels, <2>2 DEF CountInv
      <4>2. QED
        BY <4>1, <2>1 DEF TypeOK, WaitersTypeOK
    <3>3. SenderTypeOK'
      <4>1. spc' \in [Senders -> Pcs]
        BY <2>1, <1>spc DEF Pcs
      <4>2. QED
        BY <4>1, <2>1 DEF TypeOK, SenderTypeOK, Pcs
    <3>4. ReceiverTypeOK'
      BY <2>1 DEF TypeOK, ReceiverTypeOK
    <3>5. QED
      BY <3>1, <3>2, <3>3, <3>4, <2>1 DEF TypeOK
  <2>4. RingInv'
    BY <2>1, <2>2 DEF RingInv, Intact, Slots, Wrap, PortOpen
  <2>5. CountInv'
    <3>1. channels >= 1 /\ channels = Cardinality(Alive)
      BY <2>2 DEF CountInv
    <3>2. \A v \in Senders : spc'[v] \notin {"drop", "dropwake"}
      BY <2>1, <3>1 DEF CountInv
    <3>3. ~TxClosed /\ ~TxClosed'
      BY <2>1 DEF TxClosed
    <3>4. QED
      BY <2>1, <2>2, <3>1, <3>2, <3>3 DEF CountInv, PortOpen
  <2>6. CallInv'
    BY <2>1, <2>2 DEF CallInv, None
  <2>7. BlockerInv'
    BY <2>1, <2>2 DEF BlockerInv, AtRendezvous, Holding, Ready, NoneBlocked, None
  <2>8. TokenInv'
    BY <2>1, <2>2 DEF TokenInv, None
  <2>9. QueueInv'
    BY <2>1, <2>2 DEF QueueInv
  <2>10. FlagInv'
    BY <2>1, <2>2 DEF FlagInv, Holding, PortOpen
  <2>11. MetInv'
    BY <2>1, <2>2 DEF MetInv, Met, Holding
  <2>12. MessageInv'
    BY <2>1, <2>2, <1>nums DEF MessageInv, None
  <2>13. SlotInv'
    <3>1. Retrying' = Retrying
      BY <2>1 DEF Retrying
    <3>2. QED
      BY <3>1, <2>1 DEF SlotInv, Slots
  <2>14. QED
    BY <2>3, <2>4, <2>5, <2>6, <2>7, <2>8, <2>9, <2>10, <2>11, <2>12, <2>13 DEF IInv
<1>15. ASSUME DropChan(s) PROVE IInv'
  <2>1. /\ spc[s] = "idle"
        /\ channels' = channels - 1
        /\ spc' = [spc EXCEPT ![s] = IF channels = 1 THEN "drop" ELSE "gone"]
        /\ UNCHANGED <<cap, buf, start, size, disconnected, queue, blocker, canceled,
                        woken, smsg, stok, sflag, ssig, rpc, rmode, rtok, waited,
                        rsig, rres, sends, oks, returned, received, selected>>
    BY <1>15 DEF DropChan, Goto, state, sender, receiver
  <2>2. /\ Alive' = Alive \ {s} /\ Cardinality(Alive') = Cardinality(Alive) - 1
        /\ Cardinality(Alive) >= 1 /\ Cardinality(Alive) \in Nat
        /\ Cardinality(Alive') = 0 <=> Alive' = {}
    <3>1. Alive' = Alive \ {s} /\ s \in Alive /\ Alive \in SUBSET Senders
      BY <2>1 DEF Alive
    <3>2. /\ Cardinality(Alive \ {s}) = Cardinality(Alive) - 1 /\ Cardinality(Alive) \in Nat
          /\ Cardinality(Alive) >= 1
      BY <3>1, SenderSets
    <3>3. Cardinality(Alive \ {s}) = 0 <=> Alive \ {s} = {}
      BY <3>1, SenderSets
    <3>4. QED
      BY <3>1, <3>2, <3>3
  <2>3. TypeOK'
    <3>1. BufferTypeOK'
      BY <2>1 DEF TypeOK, BufferTypeOK
    <3>2. WaitersTypeOK'
      <4>1. channels' \in 0..Cardinality(Senders)
        BY <2>1, <1>channels, <2>2, <1>cards DEF CountInv, TypeOK, WaitersTypeOK
      <4>2. QED
        BY <4>1, <2>1 DEF TypeOK, WaitersTypeOK
    <3>3. SenderTypeOK'
      <4>1. spc' \in [Senders -> Pcs]
        BY <2>1, <1>spc DEF Pcs
      <4>2. QED
        BY <4>1, <2>1 DEF TypeOK, SenderTypeOK, Pcs
    <3>4. ReceiverTypeOK'
      BY <2>1 DEF TypeOK, ReceiverTypeOK
    <3>5. QED
      BY <3>1, <3>2, <3>3, <3>4, <2>1 DEF TypeOK
  <2>4. RingInv'
    BY <2>1, <2>2 DEF RingInv, Intact, Slots, Wrap, PortOpen
  <2>5. CountInv'
    <3>1. channels >= 1 /\ channels = Cardinality(Alive) /\ channels' = Cardinality(Alive')
      BY <2>1, <2>2 DEF CountInv
    <3>2. \A v \in Senders : spc[v] \notin {"drop", "dropwake"}
      BY <3>1 DEF CountInv
    <3>3. \A v \in Senders : spc'[v] \in {"drop", "dropwake"} => v = s /\ channels = 1
      BY <2>1, <3>2
    <3>4. ~TxClosed
      BY <2>1 DEF TxClosed
    <3>5. ~TxClosed'
      <4>1. CASE channels = 1
        BY <2>1, <4>1 DEF TxClosed
      <4>2. CASE channels # 1
        <5>1. Alive' # {}
          BY <2>1, <2>2, <3>1, <4>2
        <5>2. QED
          BY <5>1 DEF TxClosed, Alive
      <4>3. QED
        BY <4>1, <4>2
    <3>6. QED
      BY <2>1, <2>2, <3>1, <3>2, <3>3, <3>4, <3>5 DEF CountInv, PortOpen
  <2>6. CallInv'
    BY <2>1, <2>2 DEF CallInv, None
  <2>7. BlockerInv'
    BY <2>1, <2>2 DEF BlockerInv, AtRendezvous, Holding, Ready, NoneBlocked, None
  <2>8. TokenInv'
    BY <2>1, <2>2 DEF TokenInv, None
  <2>9. QueueInv'
    BY <2>1, <2>2 DEF QueueInv
  <2>10. FlagInv'
    BY <2>1, <2>2 DEF FlagInv, Holding, PortOpen
  <2>11. MetInv'
    BY <2>1, <2>2 DEF MetInv, Met, Holding
  <2>12. MessageInv'
    BY <2>1, <2>2, <1>nums DEF MessageInv, None
  <2>13. SlotInv'
    <3>1. Retrying' = Retrying
      BY <2>1 DEF Retrying
    <3>2. QED
      BY <3>1, <2>1 DEF SlotInv, Slots
  <2>14. QED
    BY <2>3, <2>4, <2>5, <2>6, <2>7, <2>8, <2>9, <2>10, <2>11, <2>12, <2>13 DEF IInv
<1>16. ASSUME DropLock(s) PROVE IInv'
  <2>1. /\ spc[s] = "drop" /\ channels = 0 /\ Alive = {} /\ queue = <<>> /\ blocker.by # "sender"
        /\ \A u \in Senders : u # s => spc[u] \in {"unborn", "gone"}
    <3>1. spc[s] = "drop" /\ channels = 0 /\ Alive \in SUBSET Senders
      BY <1>16 DEF DropLock, CountInv, Alive
    <3>2. Alive = {}
      BY <3>1, SenderSets DEF CountInv
    <3>3. \A u \in Senders : u # s => spc[u] \in {"unborn", "gone"}
      BY <3>1, <3>2 DEF CountInv, Alive
    <3>4. \A i \in DOMAIN queue : FALSE
      BY <3>1, <3>3 DEF QueueInv
    <3>5. queue = <<>>
      <4>1. Len(queue) \in Nat /\ DOMAIN queue = 1..Len(queue)
        BY <1>queue
      <4>2. Len(queue) # 0 => 1 \in DOMAIN queue
        BY <4>1
      <4>3. QED
        BY <3>4, <4>2, <1>queue
    <3>6. QED
      BY <3>1, <3>2, <3>3, <3>5 DEF BlockerInv, AtRendezvous
  <2>2. /\ disconnected'
        /\ \/ disconnected /\ spc' = [spc EXCEPT ![s] = "gone"] /\ UNCHANGED <<blocker, ssig>>
           \/ ~disconnected /\ blocker = NoneBlocked /\ spc' = [spc EXCEPT ![s] = "gone"]
              /\ blocker' = NoneBlocked /\ ssig' = [ssig EXCEPT ![s] = 0]
           \/ ~disconnected /\ blocker.by = "receiver" /\ spc' = [spc EXCEPT ![s] = "dropwake"]
              /\ blocker' = NoneBlocked /\ ssig' = [ssig EXCEPT ![s] = blocker.tok]
        /\ UNCHANGED <<cap, buf, start, size, queue, canceled, channels, woken, smsg,
                        stok, sflag, rpc, rmode, rtok, waited, rsig, rres, sends,
                        oks, returned, received, selected>>
    BY <1>16, <2>1, <1>blocker DEF DropLock, TakeReceiver, Goto, BlockerInv, NoneBlocked, None, state, sender, receiver
  <2>3. TypeOK'
    <3>1. BufferTypeOK'
      BY <2>2 DEF TypeOK, BufferTypeOK
    <3>2. WaitersTypeOK'
      <4>1. blocker' \in [by : {"none", "sender", "receiver"}, tok : 0..MaxTokens]
        BY <2>2, <1>blocker, SyncAssumption DEF NoneBlocked, None
      <4>2. QED
        BY <4>1, <2>2 DEF TypeOK, WaitersTypeOK
    <3>3. SenderTypeOK'
      <4>1. ssig' \in [Senders -> 0..MaxTokens]
        BY <2>2, <1>ssig, <1>blocker, SyncAssumption
      <4>2. spc' \in [Senders -> Pcs]
        BY <2>2, <1>spc DEF Pcs
      <4>3. QED
        BY <4>1, <4>2, <2>2 DEF TypeOK, SenderTypeOK, Pcs
    <3>4. ReceiverTypeOK'
      BY <2>2 DEF TypeOK, ReceiverTypeOK
    <3>5. QED
      BY <3>1, <3>2, <3>3, <3>4, <2>2 DEF TypeOK
  <2>4. RingInv'
    BY <2>2 DEF RingInv, Intact, Slots, Wrap, PortOpen
  <2>5. CountInv'
    <3>1. Alive' = Alive /\ TxClosed'
      BY <2>1, <2>2 DEF Alive, TxClosed
    <3>2. QED
      BY <3>1, <2>1, <2>2 DEF CountInv, PortOpen
  <2>6. CallInv'
    BY <2>1, <2>2 DEF CallInv, None
  <2>7. BlockerInv'
    BY <2>1, <2>2, <1>size
    DEF BlockerInv, AtRendezvous, Holding, Ready, NoneBlocked, None
  <2>8. TokenInv'
    BY <2>1, <2>2, <1>toks DEF TokenInv, None, BlockerInv, NoneBlocked
  <2>9. QueueInv'
    BY <2>1, <2>2 DEF QueueInv
  <2>10. FlagInv'
    BY <2>1, <2>2 DEF FlagInv, Holding, PortOpen
  <2>11. MetInv'
    BY <2>1, <2>2 DEF MetInv, Met, Holding
  <2>12. MessageInv'
    BY <2>1, <2>2, <1>nums DEF MessageInv, None
  <2>13. SlotInv'
    BY <2>1, <2>2 DEF SlotInv
  <2>14. QED
    BY <2>3, <2>4, <2>5, <2>6, <2>7, <2>8, <2>9, <2>10, <2>11, <2>12, <2>13 DEF IInv
<1>17. ASSUME DropWake(s) PROVE IInv'
  <2>1. /\ spc[s] = "dropwake" /\ ssig[s] # 0 /\ woken \subseteq woken'
        /\ woken' \subseteq woken \cup {ssig[s]}
        /\ ssig' = [ssig EXCEPT ![s] = 0]
        /\ spc' = [spc EXCEPT ![s] = "gone"]
        /\ UNCHANGED <<cap, buf, start, size, disconnected, queue, blocker, canceled,
                        channels, smsg, stok, sflag, rpc, rmode, rtok, waited,
                        rsig, rres, sends, oks, returned, received, selected>>
    BY <1>17 DEF DropWake, Signal, Goto, None, TokenInv, state, sender, receiver
  <2>2. TypeOK'
    <3>1. BufferTypeOK'
      BY <2>1 DEF TypeOK, BufferTypeOK
    <3>2. WaitersTypeOK'
      <4>1. woken' \subseteq Tokens
        BY <2>1, <1>woken, <1>ssig DEF Tokens
      <4>2. QED
        BY <4>1, <2>1 DEF TypeOK, WaitersTypeOK
    <3>3. SenderTypeOK'
      <4>1. ssig' \in [Senders -> 0..MaxTokens]
        BY <2>1, <1>ssig, SyncAssumption
      <4>2. spc' \in [Senders -> Pcs]
        BY <2>1, <1>spc DEF Pcs
      <4>3. QED
        BY <4>1, <4>2, <2>1 DEF TypeOK, SenderTypeOK, Pcs
    <3>4. ReceiverTypeOK'
      BY <2>1 DEF TypeOK, ReceiverTypeOK
    <3>5. QED
      BY <3>1, <3>2, <3>3, <3>4, <2>1 DEF TypeOK
  <2>3. RingInv'
    BY <2>1 DEF RingInv, Intact, Slots, Wrap, PortOpen
  <2>4. CountInv'
    <3>1. Alive' = Alive
      BY <2>1 DEF Alive
    <3>2. QED
      BY <3>1, <2>1 DEF CountInv, TxClosed, PortOpen
  <2>5. CallInv'
    BY <2>1 DEF CallInv, None
  <2>6. BlockerInv'
    BY <2>1 DEF BlockerInv, AtRendezvous, Holding, Ready, NoneBlocked, None, TokenInv
  <2>7. TokenInv'
    BY <2>1, <1>toks DEF TokenInv, None
  <2>8. QueueInv'
    BY <2>1 DEF QueueInv, TokenInv, None
  <2>9. FlagInv'
    BY <2>1 DEF FlagInv, Holding, PortOpen
  <2>10. MetInv'
    BY <2>1 DEF MetInv, Met, Holding
  <2>11. MessageInv'
    BY <2>1, <1>nums DEF MessageInv, None
  <2>12. SlotInv'
    <3>1. Retrying' = Retrying
      BY <2>1 DEF Retrying
    <3>2. QED
      BY <3>1, <2>1 DEF SlotInv, Slots
  <2>13. QED
    BY <2>2, <2>3, <2>4, <2>5, <2>6, <2>7, <2>8, <2>9, <2>10, <2>11, <2>12 DEF IInv
<1>18. QED
  BY <1>1, <1>2, <1>3, <1>4, <1>5, <1>6, <1>7, <1>8, <1>9, <1>10, <1>11, <1>12, <1>13,
     <1>14, <1>15, <1>16, <1>17 DEF SenderStep

\* Every step of recv, recv_timeout, try_recv, a select and the port's drop
\* preserves IInv.
LEMMA ReceiverPreserves ==
  ASSUME IInv, RecvCall \/ ReceiverStep
  PROVE  IInv'
<1> TypeOK /\ RingInv /\ CountInv /\ CallInv /\ BlockerInv /\ TokenInv
    /\ QueueInv /\ FlagInv /\ MetInv /\ MessageInv /\ SlotInv
  BY DEF IInv
<1>types. TypeOK
  OBVIOUS
<1>smsg. smsg \in [Senders -> 0..MaxSends]
  BY DEF TypeOK, SenderTypeOK
<1>spc. spc \in [Senders -> Pcs]
  BY DEF TypeOK, SenderTypeOK, Pcs
<1>stok. stok \in [Senders -> 0..MaxTokens]
  BY DEF TypeOK, SenderTypeOK
<1>ssig. ssig \in [Senders -> 0..MaxTokens]
  BY DEF TypeOK, SenderTypeOK
<1>sflag. sflag \in [Senders -> BOOLEAN]
  BY DEF TypeOK, SenderTypeOK
<1>sends. sends \in 0..MaxSends /\ MaxSends \in Nat
  BY SyncAssumption DEF TypeOK, SenderTypeOK
<1>size. size \in Nat /\ start \in Nat /\ Slots \in Nat \ {0}
  BY SyncAssumption DEF TypeOK, BufferTypeOK, Slots
<1>slots. cap \in Nat /\ Slots \in 1..(cap + 1)
  BY SyncAssumption DEF TypeOK, BufferTypeOK, Slots
<1>oks. oks \subseteq Messages
  BY DEF TypeOK, SenderTypeOK
<1>returned. returned \subseteq Messages
  BY DEF TypeOK, SenderTypeOK
<1>selected. selected \subseteq Messages
  BY DEF TypeOK, SenderTypeOK
<1>woken. woken \subseteq Tokens
  BY DEF TypeOK, WaitersTypeOK
<1>queue. queue \in Seq(Senders)
  BY DEF TypeOK, WaitersTypeOK
<1>channels. channels \in 0..Cardinality(Senders) /\ Cardinality(Senders) \in Nat
  BY FS_CardinalityType, SyncAssumption DEF TypeOK, WaitersTypeOK
<1>canceled. canceled \subseteq Senders
  BY DEF TypeOK, WaitersTypeOK
<1>blocker. blocker \in [by : {"none", "sender", "receiver"}, tok : 0..MaxTokens]
  BY DEF TypeOK, WaitersTypeOK
<1>rsig. rsig \in Seq(Tokens)
  BY DEF TypeOK, ReceiverTypeOK
<1>received. received \in Seq(Messages)
  BY DEF TypeOK, ReceiverTypeOK
<1>waited. waited \in BOOLEAN
  BY DEF TypeOK, ReceiverTypeOK
<1>rtok. rtok \in 0..MaxTokens
  BY DEF TypeOK, ReceiverTypeOK
<1> /\ DOMAIN spc = Senders /\ DOMAIN smsg = Senders /\ DOMAIN stok = Senders
    /\ DOMAIN ssig = Senders /\ DOMAIN sflag = Senders
  BY <1>spc, <1>smsg, <1>stok, <1>ssig, <1>sflag
<1> \A i \in DOMAIN queue : queue[i] \in Senders
  BY <1>queue
<1>cards. \A S \in SUBSET Senders : Cardinality(S) \in Nat
  BY FS_Subset, FS_CardinalityType, SyncAssumption
<1>toks. \A i \in DOMAIN rsig : rsig[i] \in Tokens /\ rsig[i] # None
  BY <1>rsig, SyncAssumption DEF Tokens, None
<1>nums. /\ sends \in Nat /\ \A u \in Senders : smsg[u] \in Nat
         /\ \A u \in Senders : smsg[u] # None => smsg[u] \in Messages
         /\ \A i \in DOMAIN buf : buf[i] \in Nat
         /\ \A i \in DOMAIN received : received[i] \in Nat
         /\ \A m \in returned : m \in Nat
  <2>1. \A i \in DOMAIN buf : buf[i] \in Nat
    BY SyncAssumption DEF TypeOK, BufferTypeOK
  <2>2. \A i \in DOMAIN received : received[i] \in Nat
    BY SyncAssumption, <1>received DEF Messages
  <2>3. QED
    BY <2>1, <2>2, <1>sends, <1>smsg, <1>returned, SyncAssumption DEF Messages, None
<1>1. ASSUME RecvCall PROVE IInv'
  <2>1. /\ rpc = "idle" /\ rres' = "none"
        /\ \/ rmode' \in {"recv", "timeout"} /\ rpc' = "lock"
           \/ rmode' = "try" /\ rpc' = "try"
           \/ rmode' = "select" /\ rpc' = "can_recv"
           \/ rmode' = "drop" /\ rpc' = "drop"
        /\ UNCHANGED <<cap, buf, start, size, disconnected, queue, blocker, canceled,
                        channels, woken, spc, smsg, stok, sflag, ssig, rtok,
                        waited, rsig, sends, oks, returned, received, selected>>
    BY <1>1 DEF RecvCall, state, sender, receiver
  <2>2. TypeOK'
    <3>1. BufferTypeOK'
      BY <2>1 DEF TypeOK, BufferTypeOK
    <3>2. WaitersTypeOK'
      BY <2>1 DEF TypeOK, WaitersTypeOK
    <3>3. SenderTypeOK'
      BY <2>1 DEF TypeOK, SenderTypeOK
    <3>4. ReceiverTypeOK'
      <4>1. QED
        BY <2>1 DEF TypeOK, ReceiverTypeOK
    <3>5. QED
      BY <3>1, <3>2, <3>3, <3>4, <2>1 DEF TypeOK
  <2>3. RingInv'
    BY <2>1 DEF RingInv, Intact, Slots, Wrap, PortOpen, CallInv
  <2>4. CountInv'
    <3>1. Alive' = Alive
      BY <2>1 DEF Alive
    <3>2. QED
      BY <3>1, <2>1 DEF CountInv, CallInv, TxClosed, PortOpen
  <2>5. CallInv'
    BY <2>1 DEF CallInv, None
  <2>6. BlockerInv'
    BY <2>1 DEF BlockerInv, AtRendezvous, Holding, Ready, NoneBlocked, None, CallInv
  <2>7. TokenInv'
    BY <2>1 DEF TokenInv, None
  <2>8. QueueInv'
    BY <2>1 DEF QueueInv
  <2>9. FlagInv'
    BY <2>1 DEF FlagInv, Holding, PortOpen, CallInv
  <2>10. MetInv'
    BY <2>1 DEF MetInv, Met, Holding, CallInv
  <2>11. MessageInv'
    BY <2>1 DEF MessageInv, None
  <2>12. SlotInv'
    BY <2>1 DEF SlotInv, Retrying, Slots
  <2>13. QED
    BY <2>2, <2>3, <2>4, <2>5, <2>6, <2>7, <2>8, <2>9, <2>10, <2>11, <2>12 DEF IInv
<1>2. ASSUME RecvBlocks PROVE IInv'
  <2>1. /\ rpc = "lock" /\ ~Ready /\ blocker = NoneBlocked /\ rpc' = "wait" /\ canceled = {}
        /\ rtok' = Fresh /\ woken' = woken \ {Fresh}
        /\ blocker' = [by |-> "receiver", tok |-> Fresh]
        /\ UNCHANGED <<cap, buf, start, size, disconnected, queue, canceled, channels,
                        spc, smsg, stok, sflag, ssig, rmode, waited, rsig, rres,
                        sends, oks, returned, received, selected>>
    BY <1>2, <1>size, <1>blocker
    DEF RecvBlocks, Install, BlockedReceiver, BlockerInv, Ready, AtRendezvous, Holding,
       NoneBlocked, state, sender, receiver
  <2>2. /\ Fresh \in Tokens /\ Fresh # None /\ Fresh \notin woken'
        /\ \A u \in Senders : Fresh # stok[u] /\ Fresh # ssig[u]
    BY <2>1, <1>types, FreshToken, SyncAssumption DEF Held, Tokens, None
  <2>3. TypeOK'
    <3>1. BufferTypeOK'
      BY <2>1 DEF TypeOK, BufferTypeOK
    <3>2. WaitersTypeOK'
      <4>1. woken' \subseteq Tokens
        BY <2>1, <1>woken
      <4>2. blocker' \in [by : {"none", "sender", "receiver"}, tok : 0..MaxTokens]
        BY <2>1, <1>blocker, <2>2, SyncAssumption DEF Tokens
      <4>3. QED
        BY <4>1, <4>2, <2>1 DEF TypeOK, WaitersTypeOK
    <3>3. SenderTypeOK'
      BY <2>1 DEF TypeOK, SenderTypeOK
    <3>4. ReceiverTypeOK'
      <4>1. rtok' \in 0..MaxTokens
        BY <2>1, <1>rtok, <2>2, SyncAssumption DEF Tokens
      <4>2. QED
        BY <4>1, <2>1 DEF TypeOK, ReceiverTypeOK
    <3>5. QED
      BY <3>1, <3>2, <3>3, <3>4, <2>1 DEF TypeOK
  <2>4. RingInv'
    BY <2>1, <2>2 DEF RingInv, Intact, Slots, Wrap, PortOpen, CallInv
  <2>5. CountInv'
    <3>1. Alive' = Alive
      BY <2>1 DEF Alive
    <3>2. QED
      BY <3>1, <2>1 DEF CountInv, CallInv, TxClosed, PortOpen
  <2>6. CallInv'
    BY <2>1, <2>2 DEF CallInv, None
  <2>7. BlockerInv'
    BY <2>1, <2>2
    DEF BlockerInv, AtRendezvous, Holding, Ready, NoneBlocked, None, CallInv
  <2>8. TokenInv'
    BY <2>1, <2>2, <1>toks DEF TokenInv, None, CallInv
  <2>9. QueueInv'
    BY <2>1, <2>2 DEF QueueInv
  <2>10. FlagInv'
    BY <2>1, <2>2 DEF FlagInv, Holding, PortOpen, CallInv
  <2>11. MetInv'
    BY <2>1, <2>2 DEF MetInv, Met, Holding
  <2>12. MessageInv'
    BY <2>1, <2>2 DEF MessageInv, None
  <2>13. SlotInv'
    BY <2>1 DEF SlotInv, Retrying, Slots
  <2>14. QED
    BY <2>3, <2>4, <2>5, <2>6, <2>7, <2>8, <2>9, <2>10, <2>11, <2>12, <2>13 DEF IInv
<1>3. ASSUME RecvWoken PROVE IInv'
  <2>1. /\ rpc = "wait" /\ rpc' = "relock" /\ waited' = (rtok \in woken)
        /\ (rtok \in woken \/ rmode = "timeout") /\ rtok # 0
        /\ rtok' = 0 /\ woken' = woken \ {rtok}
        /\ UNCHANGED <<cap, buf, start, size, disconnected, queue, blocker, canceled,
                        channels, spc, smsg, stok, sflag, ssig, rmode, rsig, rres,
                        sends, oks, returned, received, selected>>
    BY <1>3 DEF RecvWoken, DropToken, None, CallInv, state, sender, receiver
  <2>2. TypeOK'
    <3>1. BufferTypeOK'
      BY <2>1 DEF TypeOK, BufferTypeOK
    <3>2. WaitersTypeOK'
      <4>1. woken' \subseteq Tokens
        BY <2>1, <1>woken
      <4>2. QED
        BY <4>1, <2>1 DEF TypeOK, WaitersTypeOK
    <3>3. SenderTypeOK'
      BY <2>1 DEF TypeOK, SenderTypeOK
    <3>4. ReceiverTypeOK'
      <4>1. rtok' \in 0..MaxTokens
        BY <2>1, <1>rtok, SyncAssumption
      <4>2. QED
        BY <4>1, <2>1 DEF TypeOK, ReceiverTypeOK
    <3>5. QED
      BY <3>1, <3>2, <3>3, <3>4, <2>1 DEF TypeOK
  <2>3. RingInv'
    BY <2>1 DEF RingInv, Intact, Slots, Wrap, PortOpen, CallInv
  <2>4. CountInv'
    <3>1. Alive' = Alive
      BY <2>1 DEF Alive
    <3>2. QED
      BY <3>1, <2>1 DEF CountInv, CallInv, TxClosed, PortOpen
  <2>5. CallInv'
    BY <2>1 DEF CallInv, None
  <2>6. BlockerInv'
    BY <2>1 DEF BlockerInv, AtRendezvous, Holding, Ready, NoneBlocked, None
  <2>7. TokenInv'
    BY <2>1, <1>toks DEF TokenInv, None
  <2>8. QueueInv'
    BY <2>1 DEF QueueInv
  <2>9. FlagInv'
    BY <2>1 DEF FlagInv, Holding, PortOpen, CallInv
  <2>10. MetInv'
    BY <2>1 DEF MetInv, Met, Holding
  <2>11. MessageInv'
    BY <2>1 DEF MessageInv, None
  <2>12. SlotInv'
    BY <2>1 DEF SlotInv, Retrying, Slots
  <2>13. QED
    BY <2>2, <2>3, <2>4, <2>5, <2>6, <2>7, <2>8, <2>9, <2>10, <2>11, <2>12 DEF IInv
<1>4. ASSUME RecvNothing PROVE IInv'
  <2>1. /\ rpc \in {"lock", "relock", "try"} /\ size = 0 /\ rpc' = "idle" /\ rmode' = "none" /\ waited' = FALSE
        /\ rmode \in {"recv", "timeout", "try"} /\ rtok = 0 /\ rsig = <<>>
        /\ canceled = {} /\ blocker' = NoneBlocked
        /\ rres' = IF disconnected THEN "disconnected" ELSE "empty"
        /\ UNCHANGED <<cap, buf, start, size, disconnected, queue, canceled, channels,
                        woken, spc, smsg, stok, sflag, ssig, rtok, rsig, sends,
                        oks, returned, received, selected>>
    <3>1. rpc \in {"lock", "relock", "try"} /\ size = 0
      BY <1>4 DEF RecvNothing, HasLock, Exhausted
    <3>2. rmode \in {"recv", "timeout", "try"} /\ rtok = 0 /\ rsig = <<>>
      BY <3>1 DEF CallInv, None
    <3>3. blocker.by # "sender" /\ canceled = {}
      BY <3>1 DEF BlockerInv, AtRendezvous, Holding
    <3>4. LockedBlocker = NoneBlocked
      BY <3>1, <3>3, <1>blocker DEF LockedBlocker, AbortSelection, BlockerInv
    <3>5. disconnected \/ rmode = "try" \/ (rmode = "timeout" /\ ~waited)
      <4>1. CASE rpc = "relock"
        BY <4>1, <3>1 DEF CallInv, BlockerInv, Ready
      <4>2. CASE rpc = "lock"
        BY <1>4, <4>2, <3>1 DEF RecvNothing, HasLock, Ready
      <4>3. QED
        BY <3>1, <4>1, <4>2 DEF CallInv
    <3>6. QED
      BY <1>4, <3>1, <3>2, <3>3, <3>4, <3>5 DEF RecvNothing, RecvGoto, state, sender, receiver
  <2>2. TypeOK'
    <3>1. BufferTypeOK'
      BY <2>1 DEF TypeOK, BufferTypeOK
    <3>2. WaitersTypeOK'
      <4>1. blocker' \in [by : {"none", "sender", "receiver"}, tok : 0..MaxTokens]
        BY <2>1, <1>blocker, SyncAssumption DEF NoneBlocked, None
      <4>2. QED
        BY <4>1, <2>1 DEF TypeOK, WaitersTypeOK
    <3>3. SenderTypeOK'
      BY <2>1 DEF TypeOK, SenderTypeOK
    <3>4. ReceiverTypeOK'
      <4>1. QED
        BY <2>1 DEF TypeOK, ReceiverTypeOK
    <3>5. QED
      BY <3>1, <3>2, <3>3, <3>4, <2>1 DEF TypeOK
  <2>3. RingInv'
    BY <2>1 DEF RingInv, Intact, Slots, Wrap, PortOpen
  <2>4. CountInv'
    <3>1. Alive' = Alive
      BY <2>1 DEF Alive
    <3>2. QED
      BY <3>1, <2>1 DEF CountInv, TxClosed, PortOpen
  <2>5. CallInv'
    BY <2>1 DEF CallInv, None
  <2>6. BlockerInv'
    BY <2>1 DEF BlockerInv, AtRendezvous, Holding, Ready, NoneBlocked, None
  <2>7. TokenInv'
    BY <2>1, <1>toks DEF TokenInv, None, NoneBlocked
  <2>8. QueueInv'
    BY <2>1 DEF QueueInv
  <2>9. FlagInv'
    BY <2>1 DEF FlagInv, Holding, PortOpen
  <2>10. MetInv'
    BY <2>1, <1>size DEF MetInv, Met, Holding
  <2>11. MessageInv'
    BY <2>1 DEF MessageInv, None
  <2>12. SlotInv'
    BY <2>1 DEF SlotInv, Retrying, Slots
  <2>13. QED
    BY <2>2, <2>3, <2>4, <2>5, <2>6, <2>7, <2>8, <2>9, <2>10, <2>11, <2>12 DEF IInv
<1>5. ASSUME RecvSignal PROVE IInv'
  <2>1. /\ rpc = "signal" /\ rsig # <<>>
        /\ woken' = woken \cup {Head(rsig)} /\ rsig' = Tail(rsig)
        /\ Head(rsig) = rsig[1] /\ 1 \in DOMAIN rsig
        /\ \A i \in DOMAIN rsig' : i + 1 \in DOMAIN rsig /\ i + 1 # 1 /\ rsig'[i] = rsig[i + 1] /\ i \in Nat
        /\ \/ rpc' = "signal" /\ rsig' # <<>> /\ rmode' = rmode /\ waited' = waited
           \/ rmode = "drop" /\ rpc' = "gone" /\ rsig' = <<>> /\ rmode' = rmode /\ waited' = waited
           \/ rmode # "drop" /\ rsig' = <<>> /\ rpc' = "idle" /\ rmode' = "none" /\ waited' = FALSE
        /\ UNCHANGED <<cap, buf, start, size, disconnected, queue, blocker, canceled,
                        channels, spc, smsg, stok, sflag, ssig, rtok, rres, sends,
                        oks, returned, received, selected>>
    <3>1. rpc = "signal" /\ rsig # <<>> /\ Len(rsig) \in Nat /\ Len(rsig) >= 1
      BY <1>5, <1>rsig DEF RecvSignal, CallInv
    <3>2. /\ Head(rsig) = rsig[1] /\ 1 \in DOMAIN rsig /\ Tail(rsig) \in Seq(Tokens)
          /\ Len(Tail(rsig)) = Len(rsig) - 1
          /\ \A i \in DOMAIN Tail(rsig) :
               i + 1 \in DOMAIN rsig /\ i + 1 # 1 /\ Tail(rsig)[i] = rsig[i + 1] /\ i \in Nat
      BY <3>1, <1>rsig
    <3>3. \E u \in Senders : rsig[1] = stok[u]
      BY <3>2 DEF TokenInv
    <3>4. woken' = woken \cup {Head(rsig)} /\ rsig' = Tail(rsig)
      BY <1>5, <3>2, <3>3 DEF RecvSignal, Signal
    <3>5. Len(rsig) > 1 <=> rsig' # <<>>
      <4>1. Tail(rsig) = <<>> <=> Len(Tail(rsig)) = 0
        BY <3>2
      <4>2. QED
        BY <4>1, <3>1, <3>2, <3>4
    <3>6. \/ rpc' = "signal" /\ rsig' # <<>> /\ rmode' = rmode /\ waited' = waited
          \/ rmode = "drop" /\ rpc' = "gone" /\ rsig' = <<>> /\ rmode' = rmode
             /\ waited' = waited
          \/ rmode # "drop" /\ rsig' = <<>> /\ rpc' = "idle" /\ rmode' = "none"
             /\ waited' = FALSE
      BY <1>5, <3>5, <1>types DEF RecvSignal, RecvGoto, TypeOK, ReceiverTypeOK
    <3>7. QED
      BY <1>5, <3>1, <3>2, <3>4, <3>6 DEF RecvSignal, state, sender, receiver
  <2>2. TypeOK'
    <3>1. BufferTypeOK'
      BY <2>1 DEF TypeOK, BufferTypeOK
    <3>2. WaitersTypeOK'
      <4>1. woken' \subseteq Tokens
        BY <2>1, <1>woken, <1>toks DEF Tokens
      <4>2. QED
        BY <4>1, <2>1 DEF TypeOK, WaitersTypeOK
    <3>3. SenderTypeOK'
      BY <2>1 DEF TypeOK, SenderTypeOK
    <3>4. ReceiverTypeOK'
      <4>1. rsig' \in Seq(Tokens)
        BY <2>1, <1>rsig, <1>rsig
      <4>2. QED
        BY <4>1, <2>1 DEF TypeOK, ReceiverTypeOK
    <3>5. QED
      BY <3>1, <3>2, <3>3, <3>4, <2>1 DEF TypeOK
  <2>3. RingInv'
    BY <2>1 DEF RingInv, Intact, Slots, Wrap, PortOpen, CallInv
  <2>4. CountInv'
    <3>1. Alive' = Alive
      BY <2>1 DEF Alive
    <3>2. QED
      BY <3>1, <2>1 DEF CountInv, CallInv, TxClosed, PortOpen
  <2>5. CallInv'
    <3>1. /\ rpc = "signal" /\ rtok' = rtok
          /\ \/ rpc' = "signal" /\ rsig' # <<>> /\ rmode' = rmode /\ waited' = waited
             \/ rmode = "drop" /\ rpc' = "gone" /\ rsig' = <<>> /\ rmode' = rmode
                /\ waited' = waited
             \/ rsig' = <<>> /\ rpc' = "idle" /\ rmode' = "none" /\ waited' = FALSE
      BY <2>1
    <3>2. QED
      BY <3>1 DEF CallInv, None
  <2>6. BlockerInv'
    BY <2>1, <1>toks
    DEF BlockerInv, AtRendezvous, Holding, Ready, NoneBlocked, None, TokenInv, CallInv
  <2>7. TokenInv'
    BY <2>1, <1>toks DEF TokenInv, None
  <2>8. QueueInv'
    BY <2>1, <1>toks DEF QueueInv
  <2>9. FlagInv'
    BY <2>1 DEF FlagInv, Holding, PortOpen, CallInv
  <2>10. MetInv'
    BY <2>1 DEF MetInv, Met, Holding, CallInv
  <2>11. MessageInv'
    BY <2>1 DEF MessageInv, None
  <2>12. SlotInv'
    BY <2>1 DEF SlotInv, Retrying, Slots
  <2>13. QED
    BY <2>2, <2>3, <2>4, <2>5, <2>6, <2>7, <2>8, <2>9, <2>10, <2>11, <2>12 DEF IInv
<1>6. ASSUME SelectCanRecv PROVE IInv'
  <2>1. /\ rpc = "can_recv" /\ waited = FALSE /\ waited' = FALSE
        /\ \/ rpc' = "idle" /\ rmode' = "none" /\ rres' = "ready"
           \/ rpc' = "start" /\ rmode' = rmode /\ rres' = rres
        /\ UNCHANGED <<cap, buf, start, size, disconnected, queue, blocker, canceled,
                        channels, woken, spc, smsg, stok, sflag, ssig, rtok, rsig,
                        sends, oks, returned, received, selected>>
    BY <1>6, <1>waited DEF SelectCanRecv, RecvGoto, CallInv, state, sender, receiver
  <2>2. TypeOK'
    <3>1. BufferTypeOK'
      BY <2>1 DEF TypeOK, BufferTypeOK
    <3>2. WaitersTypeOK'
      BY <2>1 DEF TypeOK, WaitersTypeOK
    <3>3. SenderTypeOK'
      BY <2>1 DEF TypeOK, SenderTypeOK
    <3>4. ReceiverTypeOK'
      <4>1. QED
        BY <2>1 DEF TypeOK, ReceiverTypeOK
    <3>5. QED
      BY <3>1, <3>2, <3>3, <3>4, <2>1 DEF TypeOK
  <2>3. RingInv'
    BY <2>1 DEF RingInv, Intact, Slots, Wrap, PortOpen, CallInv
  <2>4. CountInv'
    <3>1. Alive' = Alive
      BY <2>1 DEF Alive
    <3>2. QED
      BY <3>1, <2>1 DEF CountInv, CallInv, TxClosed, PortOpen
  <2>5. CallInv'
    BY <2>1 DEF CallInv, None
  <2>6. BlockerInv'
    BY <2>1 DEF BlockerInv, AtRendezvous, Holding, Ready, NoneBlocked, None, CallInv
  <2>7. TokenInv'
    BY <2>1 DEF TokenInv, None
  <2>8. QueueInv'
    BY <2>1 DEF QueueInv
  <2>9. FlagInv'
    BY <2>1 DEF FlagInv, Holding, PortOpen, CallInv
  <2>10. MetInv'
    BY <2>1 DEF MetInv, Met, Holding, CallInv
  <2>11. MessageInv'
    BY <2>1 DEF MessageInv, None
  <2>12. SlotInv'
    BY <2>1 DEF SlotInv, Retrying, Slots
  <2>13. QED
    BY <2>2, <2>3, <2>4, <2>5, <2>6, <2>7, <2>8, <2>9, <2>10, <2>11, <2>12 DEF IInv
<1>7. ASSUME SelectWoken PROVE IInv'
  <2>1. /\ rpc = "selecting" /\ rpc' = "abort" /\ waited' = (rtok \in woken)
        /\ UNCHANGED <<cap, buf, start, size, disconnected, queue, blocker, canceled,
                        channels, woken, spc, smsg, stok, sflag, ssig, rmode,
                        rtok, rsig, rres, sends, oks, returned, received,
                        selected>>
    BY <1>7 DEF SelectWoken, state, sender, receiver
  <2>2. TypeOK'
    <3>1. BufferTypeOK'
      BY <2>1 DEF TypeOK, BufferTypeOK
    <3>2. WaitersTypeOK'
      BY <2>1 DEF TypeOK, WaitersTypeOK
    <3>3. SenderTypeOK'
      BY <2>1 DEF TypeOK, SenderTypeOK
    <3>4. ReceiverTypeOK'
      <4>1. QED
        BY <2>1 DEF TypeOK, ReceiverTypeOK
    <3>5. QED
      BY <3>1, <3>2, <3>3, <3>4, <2>1 DEF TypeOK
  <2>3. RingInv'
    BY <2>1 DEF RingInv, Intact, Slots, Wrap, PortOpen, CallInv
  <2>4. CountInv'
    <3>1. Alive' = Alive
      BY <2>1 DEF Alive
    <3>2. QED
      BY <3>1, <2>1 DEF CountInv, CallInv, TxClosed, PortOpen
  <2>5. CallInv'
    BY <2>1 DEF CallInv, None
  <2>6. BlockerInv'
    BY <2>1 DEF BlockerInv, AtRendezvous, Holding, Ready, NoneBlocked, None
  <2>7. TokenInv'
    BY <2>1 DEF TokenInv, None
  <2>8. QueueInv'
    BY <2>1 DEF QueueInv
  <2>9. FlagInv'
    BY <2>1 DEF FlagInv, Holding, PortOpen, CallInv
  <2>10. MetInv'
    BY <2>1 DEF MetInv, Met, Holding
  <2>11. MessageInv'
    BY <2>1 DEF MessageInv, None
  <2>12. SlotInv'
    BY <2>1 DEF SlotInv, Retrying, Slots
  <2>13. QED
    BY <2>2, <2>3, <2>4, <2>5, <2>6, <2>7, <2>8, <2>9, <2>10, <2>11, <2>12 DEF IInv
<1>8. ASSUME SelectAbort PROVE IInv'
  <2>1. /\ rpc = "abort" /\ canceled = {} /\ rtok # 0 /\ rsig = <<>> /\ rmode = "select"
        /\ rpc' = "idle" /\ rmode' = "none" /\ waited' = FALSE
        /\ blocker' = NoneBlocked /\ rtok' = 0 /\ woken' = woken \ {rtok}
        /\ rres' \in {rres, "ready"}
        /\ UNCHANGED <<cap, buf, start, size, disconnected, queue, canceled, channels,
                        spc, smsg, stok, sflag, ssig, rsig, sends, oks, returned,
                        received, selected>>
    <3>1. rpc = "abort" /\ rtok # 0 /\ rmode = "select" /\ rsig = <<>>
      BY <1>8 DEF SelectAbort, CallInv, None
    <3>2. /\ AbortSelection = NoneBlocked /\ canceled = {}
          /\ blocker.by = "receiver" => ~waited
      BY <3>1 DEF BlockerInv, AbortSelection, NoneBlocked
    <3>3. QED
      BY <1>8, <3>1, <3>2 DEF SelectAbort, DropToken, RecvGoto, None, state, sender, receiver
  <2>2. TypeOK'
    <3>1. BufferTypeOK'
      BY <2>1 DEF TypeOK, BufferTypeOK
    <3>2. WaitersTypeOK'
      <4>1. blocker' \in [by : {"none", "sender", "receiver"}, tok : 0..MaxTokens]
        BY <2>1, <1>blocker, SyncAssumption DEF NoneBlocked, None
      <4>2. woken' \subseteq Tokens
        BY <2>1, <1>woken
      <4>3. QED
        BY <4>1, <4>2, <2>1 DEF TypeOK, WaitersTypeOK
    <3>3. SenderTypeOK'
      BY <2>1 DEF TypeOK, SenderTypeOK
    <3>4. ReceiverTypeOK'
      <4>1. rtok' \in 0..MaxTokens
        BY <2>1, <1>rtok, SyncAssumption
      <4>2. QED
        BY <4>1, <2>1 DEF TypeOK, ReceiverTypeOK
    <3>5. QED
      BY <3>1, <3>2, <3>3, <3>4, <2>1 DEF TypeOK
  <2>3. RingInv'
    BY <2>1 DEF RingInv, Intact, Slots, Wrap, PortOpen
  <2>4. CountInv'
    <3>1. Alive' = Alive
      BY <2>1 DEF Alive
    <3>2. QED
      BY <3>1, <2>1 DEF CountInv, TxClosed, PortOpen
  <2>5. CallInv'
    BY <2>1 DEF CallInv, None
  <2>6. BlockerInv'
    BY <2>1 DEF BlockerInv, AtRendezvous, Holding, Ready, NoneBlocked, None
  <2>7. TokenInv'
    BY <2>1, <1>toks DEF TokenInv, None, NoneBlocked
  <2>8. QueueInv'
    BY <2>1 DEF QueueInv
  <2>9. FlagInv'
    BY <2>1 DEF FlagInv, Holding, PortOpen
  <2>10. MetInv'
    BY <2>1 DEF MetInv, Met, Holding
  <2>11. MessageInv'
    BY <2>1 DEF MessageInv, None
  <2>12. SlotInv'
    BY <2>1 DEF SlotInv, Retrying, Slots
  <2>13. QED
    BY <2>2, <2>3, <2>4, <2>5, <2>6, <2>7, <2>8, <2>9, <2>10, <2>11, <2>12 DEF IInv
<1>9. ASSUME DropPortLate PROVE IInv'
  <2>1. /\ rpc = "drop" /\ disconnected /\ rpc' = "gone" /\ rmode = "drop"
        /\ UNCHANGED <<cap, buf, start, size, disconnected, queue, blocker, canceled,
                        channels, woken, spc, smsg, stok, sflag, ssig, rmode,
                        rtok, waited, rsig, rres, sends, oks, returned, received,
                        selected>>
    BY <1>9 DEF DropPortLate, CallInv, state, sender, receiver
  <2>2. TypeOK'
    <3>1. BufferTypeOK'
      BY <2>1 DEF TypeOK, BufferTypeOK
    <3>2. WaitersTypeOK'
      BY <2>1 DEF TypeOK, WaitersTypeOK
    <3>3. SenderTypeOK'
      BY <2>1 DEF TypeOK, SenderTypeOK
    <3>4. ReceiverTypeOK'
      <4>1. QED
        BY <2>1 DEF TypeOK, ReceiverTypeOK
    <3>5. QED
      BY <3>1, <3>2, <3>3, <3>4, <2>1 DEF TypeOK
  <2>3. RingInv'
    BY <2>1 DEF RingInv, Intact, Slots, Wrap, PortOpen, CountInv
  <2>4. CountInv'
    <3>1. Alive' = Alive
      BY <2>1 DEF Alive
    <3>2. QED
      BY <3>1, <2>1 DEF CountInv, TxClosed, PortOpen
  <2>5. CallInv'
    BY <2>1 DEF CallInv, None
  <2>6. BlockerInv'
    BY <2>1 DEF BlockerInv, AtRendezvous, Holding, Ready, NoneBlocked, None
  <2>7. TokenInv'
    BY <2>1 DEF TokenInv, None
  <2>8. QueueInv'
    BY <2>1 DEF QueueInv
  <2>9. FlagInv'
    BY <2>1 DEF FlagInv, Holding, PortOpen
  <2>10. MetInv'
    BY <2>1 DEF MetInv, Met, Holding
  <2>11. MessageInv'
    BY <2>1 DEF MessageInv, None
  <2>12. SlotInv'
    BY <2>1 DEF SlotInv, Retrying, Slots
  <2>13. QED
    BY <2>2, <2>3, <2>4, <2>5, <2>6, <2>7, <2>8, <2>9, <2>10, <2>11, <2>12 DEF IInv
<1>10. ASSUME StartSelection PROVE IInv'
  <2>1. /\ rpc = "start" /\ rmode = "select" /\ waited = FALSE /\ waited' = FALSE /\ rsig = <<>> /\ rtok = 0
        /\ \/ rpc' = "idle" /\ rmode' = "none" /\ rres' = "ready"
              /\ UNCHANGED <<blocker, woken, rtok>>
           \/ ~Ready /\ blocker = NoneBlocked /\ canceled = {} /\ rpc' = "selecting"
              /\ rmode' = rmode /\ rres' = rres /\ rtok' = Fresh
              /\ woken' = woken \ {Fresh} /\ blocker' = [by |-> "receiver", tok |-> Fresh]
        /\ UNCHANGED <<cap, buf, start, size, disconnected, queue, canceled, channels,
                        spc, smsg, stok, sflag, ssig, rsig, sends, oks, returned,
                        received, selected>>
    <3>1. rpc = "start" /\ rmode = "select" /\ waited = FALSE /\ rsig = <<>> /\ rtok = 0
      BY <1>10, <1>waited DEF StartSelection, CallInv, None
    <3>2. CASE Ready
      BY <1>10, <3>1, <3>2 DEF StartSelection, RecvGoto, state, sender, receiver
    <3>3. CASE ~Ready
      <4>1. blocker = NoneBlocked /\ canceled = {}
        BY <3>1, <3>3, <1>size, <1>blocker DEF BlockerInv, Ready, AtRendezvous, Holding, NoneBlocked
      <4>2. QED
        BY <1>10, <3>1, <3>3, <4>1 DEF StartSelection, Install, BlockedReceiver, state, sender, receiver
    <3>4. QED
      BY <3>2, <3>3
  <2>2. /\ Fresh \in Tokens /\ Fresh # None
        /\ \A u \in Senders : Fresh # stok[u] /\ Fresh # ssig[u]
    BY <2>1, <1>types, FreshToken, SyncAssumption DEF Held, Tokens, None
  <2>3. TypeOK'
    <3>1. BufferTypeOK'
      BY <2>1 DEF TypeOK, BufferTypeOK
    <3>2. WaitersTypeOK'
      <4>1. woken' \subseteq Tokens
        BY <2>1, <1>woken
      <4>2. blocker' \in [by : {"none", "sender", "receiver"}, tok : 0..MaxTokens]
        BY <2>1, <1>blocker, <2>2, SyncAssumption DEF Tokens
      <4>3. QED
        BY <4>1, <4>2, <2>1 DEF TypeOK, WaitersTypeOK
    <3>3. SenderTypeOK'
      BY <2>1 DEF TypeOK, SenderTypeOK
    <3>4. ReceiverTypeOK'
      <4>1. rtok' \in 0..MaxTokens
        BY <2>1, <1>rtok, <2>2, SyncAssumption DEF Tokens
      <4>2. QED
        BY <4>1, <2>1 DEF TypeOK, ReceiverTypeOK
    <3>5. QED
      BY <3>1, <3>2, <3>3, <3>4, <2>1 DEF TypeOK
  <2>4. RingInv'
    BY <2>1, <2>2 DEF RingInv, Intact, Slots, Wrap, PortOpen
  <2>5. CountInv'
    <3>1. Alive' = Alive
      BY <2>1 DEF Alive
    <3>2. QED
      BY <3>1, <2>1 DEF CountInv, TxClosed, PortOpen
  <2>6. CallInv'
    BY <2>1, <2>2 DEF CallInv, None
  <2>7. BlockerInv'
    BY <2>1, <2>2, <1>size, <1>blocker
    DEF BlockerInv, AtRendezvous, Holding, Ready, NoneBlocked, None
  <2>8. TokenInv'
    BY <2>1, <2>2, <1>toks DEF TokenInv, None, CallInv
  <2>9. QueueInv'
    BY <2>1, <2>2 DEF QueueInv
  <2>10. FlagInv'
    BY <2>1, <2>2 DEF FlagInv, Holding, PortOpen
  <2>11. MetInv'
    BY <2>1, <2>2 DEF MetInv, Met, Holding
  <2>12. MessageInv'
    BY <2>1, <2>2 DEF MessageInv, None
  <2>13. SlotInv'
    BY <2>1 DEF SlotInv, Retrying, Slots
  <2>14. QED
    BY <2>3, <2>4, <2>5, <2>6, <2>7, <2>8, <2>9, <2>10, <2>11, <2>12, <2>13 DEF IInv
<1>11. ASSUME RecvTakes PROVE IInv'
  <2>1. /\ rpc \in {"lock", "relock", "try"} /\ rmode \in {"recv", "timeout", "try"} /\ PortOpen
        /\ size > 0 /\ Intact /\ blocker.by # "receiver" /\ LockedBlocker = blocker
        /\ rtok = 0 /\ rsig = <<>> /\ (waited => blocker = NoneBlocked)
    <3>1. rpc \in {"lock", "relock", "try"} /\ size > 0
      BY <1>11, <1>size DEF RecvTakes, HasLock, Exhausted
    <3>2. rmode \in {"recv", "timeout", "try"} /\ PortOpen /\ rtok = 0 /\ rsig = <<>>
      BY <3>1 DEF CallInv, PortOpen, None
    <3>3. blocker.by # "receiver" /\ LockedBlocker = blocker
      BY <3>1 DEF BlockerInv, Ready, LockedBlocker, AbortSelection
    <3>4. QED
      BY <3>1, <3>2, <3>3 DEF RingInv, BlockerInv, CallInv
  <2>2. /\ DequeueOk /\ Intact' /\ size' = size - 1 /\ First \in Messages /\ First = buf[start]
        /\ (start \in 0..(Slots - 1) /\ size \in 0..(Slots - 1))' /\ Slots' = Slots
        /\ \A i \in DOMAIN buf' : buf'[i] = 0 \/ (i \in DOMAIN buf /\ buf'[i] = buf[i])
    BY <1>11, <2>1, Dequeues DEF RecvTakes, Dequeue, Slots, First, None
  <2>3. /\ blocker.by = "sender" => cap = 0 /\ ~waited /\ size = 1
        /\ MustAck <=> blocker.by = "sender"
        /\ blocker.by # "sender" => blocker = NoneBlocked /\ canceled = {}
        /\ \A u \in canceled : smsg[u] = First /\ ~sflag[u]
        /\ \A u \in Senders : ~sflag[u]
    <3>1. blocker.by = "sender" => cap = 0 /\ ~waited /\ size = 1
      <4>1. waited => blocker.by = "none"
        BY <2>1 DEF NoneBlocked
      <4>2. blocker.by = "sender" => cap = 0 /\ size = 1
        BY DEF BlockerInv, AtRendezvous, Holding
      <4>3. QED
        BY <4>1, <4>2, <1>waited
    <3>2. MustAck <=> blocker.by = "sender"
      BY <2>1, <3>1 DEF MustAck
    <3>3. blocker.by # "sender" => blocker = NoneBlocked /\ canceled = {}
      BY <2>1, <1>blocker DEF BlockerInv
    <3>4. \A u \in canceled : smsg[u] = First /\ ~sflag[u]
      BY <2>2 DEF BlockerInv, AtRendezvous, Holding
    <3>5. \A u \in Senders : ~sflag[u]
      BY <2>1 DEF FlagInv
    <3>6. QED
      BY <3>1, <3>2, <3>3, <3>4, <3>5
  <2>4. /\ received' = Append(received, First) /\ rres' = "message" /\ rsig' = Pending
        /\ queue' = IF queue = <<>> THEN queue ELSE Tail(queue)
        /\ blocker' = NoneBlocked /\ canceled' = {}
        /\ \/ rsig' = <<>> /\ rpc' = "idle" /\ rmode' = "none" /\ waited' = FALSE
           \/ rsig' # <<>> /\ rpc' = "signal" /\ rmode' = rmode /\ waited' = waited
        /\ UNCHANGED <<cap, disconnected, channels, woken, spc, smsg, stok, sflag,
                        ssig, rtok, sends, oks, returned, selected>>
    BY <1>11, <2>1, <2>2, <2>3, <1>waited DEF RecvTakes, RecvGoto, CanceledAfter, state, sender, receiver
  <2>5. /\ \A i \in DOMAIN received : i \in DOMAIN received' /\ received'[i] = received[i]
        /\ Len(received) + 1 \in DOMAIN received' /\ received'[Len(received) + 1] = First
        /\ \A i \in DOMAIN received' : received'[i] = First \/ (i \in DOMAIN received /\ received'[i] = received[i])
    BY <2>2, <2>4, <1>received
  <2>6. /\ queue # <<>> => 1 \in DOMAIN queue /\ Head(queue) = queue[1]
        /\ queue = <<>> => queue' = <<>>
        /\ queue' \in Seq(Senders)
        /\ \A i \in DOMAIN queue' : i + 1 \in DOMAIN queue /\ i + 1 # 1 /\ queue'[i] = queue[i + 1] /\ i \in Nat
        /\ \A i \in DOMAIN queue : i # 1 => i - 1 \in DOMAIN queue' /\ queue'[i - 1] = queue[i]
    BY <2>4, <1>queue
  <2>7. /\ Pending \in Seq(Tokens)
        /\ \A i \in DOMAIN Pending :
             \/ queue # <<>> /\ Pending[i] = stok[queue[1]]
             \/ blocker.by = "sender" /\ Pending[i] = blocker.tok
        /\ \A i, j \in DOMAIN Pending : i # j => Pending[i] # Pending[j]
    <3> DEFINE a == IF queue = <<>> THEN <<>> ELSE <<stok[queue[1]]>>
               b == IF blocker.by = "sender" THEN <<blocker.tok>> ELSE <<>>
    <3>1. Pending = a \o b
      BY <2>3, <2>6 DEF Pending
    <3>2. queue # <<>> => stok[queue[1]] \in Tokens /\ spc[queue[1]] = "queued"
      BY <2>6, <1>stok, SyncAssumption DEF QueueInv, TokenInv, Tokens, None
    <3>3. blocker.by = "sender" =>
            /\ blocker.tok \in Tokens
            /\ \E u \in Senders : stok[u] = blocker.tok /\ spc[u] = "rendezvous"
      BY <1>stok, SyncAssumption DEF BlockerInv, AtRendezvous, TokenInv, Tokens, None
    <3>4. queue # <<>> /\ blocker.by = "sender" => stok[queue[1]] # blocker.tok
      BY <2>6, <3>2, <3>3 DEF TokenInv, None
    <3>5. CASE queue = <<>> /\ blocker.by # "sender"
      BY <3>1, <3>5
    <3>6. CASE queue = <<>> /\ blocker.by = "sender"
      BY <3>1, <3>6, <3>3
    <3>7. CASE queue # <<>> /\ blocker.by # "sender"
      BY <3>1, <3>7, <3>2
    <3>8. CASE queue # <<>> /\ blocker.by = "sender"
      <4>1. Pending = Append(<<stok[queue[1]]>>, blocker.tok)
        BY <3>1, <3>2, <3>3, <3>8
      <4>2. /\ Pending \in Seq(Tokens) /\ DOMAIN Pending = 1..2
            /\ Pending[1] = stok[queue[1]] /\ Pending[2] = blocker.tok
        BY <4>1, <3>2, <3>3, <3>8
      <4>3. QED
        BY <4>2, <3>4, <3>8
    <3>9. QED
      BY <3>5, <3>6, <3>7, <3>8
  <2>8. TypeOK'
    <3>1. BufferTypeOK'
      BY <2>4, <2>2, <1>slots, RingTyped
    <3>2. WaitersTypeOK'
      <4>1. queue' \in Seq(Senders)
        BY <2>4, <1>queue, <2>6
      <4>2. blocker' \in [by : {"none", "sender", "receiver"}, tok : 0..MaxTokens]
        BY <2>4, <1>blocker, SyncAssumption DEF NoneBlocked, None
      <4>3. canceled' \subseteq Senders
        BY <2>4, <1>canceled
      <4>4. QED
        BY <4>1, <4>2, <4>3, <2>4 DEF TypeOK, WaitersTypeOK
    <3>3. SenderTypeOK'
      BY <2>4 DEF TypeOK, SenderTypeOK
    <3>4. ReceiverTypeOK'
      <4>1. received' \in Seq(Messages)
        BY <2>4, <1>received, <2>2
      <4>2. rsig' \in Seq(Tokens)
        BY <2>4, <1>rsig, <2>7
      <4>3. QED
        BY <4>1, <4>2, <2>4 DEF TypeOK, ReceiverTypeOK
    <3>5. QED
      BY <3>1, <3>2, <3>3, <3>4, <2>4 DEF TypeOK
  <2>9. RingInv'
    BY <2>2, <2>4, <1>slots DEF RingInv
  <2>10. CountInv'
    <3>1. Alive' = Alive
      BY <2>1, <2>4 DEF Alive
    <3>2. QED
      BY <3>1, <2>1, <2>4 DEF CountInv, TxClosed, PortOpen
  <2>11. CallInv'
    BY <2>1, <2>4 DEF CallInv, None
  <2>12. BlockerInv'
    BY <2>4 DEF BlockerInv, NoneBlocked
  <2>13. TokenInv'
    <3>1. \A i \in DOMAIN rsig' :
            /\ rsig'[i] # 0 /\ rsig'[i] \notin woken
            /\ \E u \in Senders : rsig'[i] = stok[u]
      BY <2>3, <2>4, <2>6, <2>7, <1>stok, SyncAssumption DEF QueueInv, BlockerInv, Tokens
    <3>2. QED
      BY <3>1, <2>4, <2>7 DEF TokenInv, NoneBlocked, None
  <2>14. QueueInv'
    <3>1. disconnected' => queue' = <<>>
      BY <2>4, <2>6 DEF QueueInv
    <3>2. \A i, j \in DOMAIN queue' : i # j => queue'[i] # queue'[j]
      BY <2>6 DEF QueueInv
    <3>3. ASSUME NEW i \in DOMAIN queue' PROVE
            /\ spc'[queue'[i]] = "queued" /\ stok'[queue'[i]] \notin woken'
            /\ \A j \in DOMAIN rsig' : rsig'[j] # stok'[queue'[i]]
      <4>1. /\ i + 1 \in DOMAIN queue /\ queue'[i] = queue[i + 1] /\ queue[i + 1] # queue[1]
            /\ 1 \in DOMAIN queue /\ queue # <<>>
        BY <2>6 DEF QueueInv
      <4>2. spc[queue[i + 1]] = "queued" /\ stok[queue[i + 1]] \notin woken
        BY <4>1 DEF QueueInv
      <4>3. stok[queue[i + 1]] # stok[queue[1]]
        BY <4>1, <4>2 DEF TokenInv, None
      <4>4. blocker.by = "sender" => stok[queue[i + 1]] # blocker.tok
        BY <4>1, <4>2 DEF TokenInv, BlockerInv, AtRendezvous, None
      <4>5. QED
        BY <4>1, <4>2, <4>3, <4>4, <2>4, <2>7
    <3>4. QED
      BY <3>1, <3>2, <3>3 DEF QueueInv
  <2>15. FlagInv'
    BY <2>3, <2>4, <2>5 DEF FlagInv
  <2>16. MetInv'
    BY <2>1, <2>2, <2>4, <2>5 DEF MetInv, Met, Holding
  <2>17. MessageInv'
    <3>1. /\ First <= sends
          /\ \A u \in Senders : spc[u] \in {"lock", "try", "queued"} => smsg[u] # First
      <4>1. start \in DOMAIN buf
        BY <2>1 DEF RingInv, Intact
      <4>2. QED
        BY <2>2, <4>1 DEF MessageInv
    <3>2. \A i \in DOMAIN buf' : buf'[i] <= sends
      BY <2>2, <1>nums DEF MessageInv
    <3>3. \A u \in Senders : spc[u] \in {"lock", "try", "queued"} =>
            \A i \in DOMAIN buf' : buf'[i] # smsg[u]
      BY <2>2 DEF MessageInv, None
    <3>4. /\ \A i \in DOMAIN received' : received'[i] <= sends
          /\ \A u \in Senders : spc[u] \in {"lock", "try", "queued"} =>
               \A i \in DOMAIN received' : received'[i] # smsg[u]
      BY <2>5, <3>1 DEF MessageInv
    <3>5. QED
      BY <2>4, <3>2, <3>3, <3>4 DEF MessageInv
  <2>18. SlotInv'
    <3>1. SUFFICES ASSUME queue' # <<>> PROVE (size + Cardinality(Retrying) >= Slots)'
      BY DEF SlotInv
    <3>2. queue # <<>> /\ queue[1] \in Senders /\ spc[queue[1]] = "queued"
      BY <2>6, <3>1 DEF QueueInv
    <3>3. /\ Retrying' = Retrying \cup {queue[1]} /\ queue[1] \notin Retrying
          /\ Retrying \in SUBSET Senders
      <4>1. \A u \in Senders : (\E i \in DOMAIN queue' : queue'[i] = u)
              <=> u # queue[1] /\ \E i \in DOMAIN queue : queue[i] = u
        BY <2>6, <3>2 DEF QueueInv
      <4>2. queue[1] \notin Retrying /\ Retrying \in SUBSET Senders
        BY <2>6, <3>2 DEF Retrying
      <4>3. \A u \in Senders : u \in Retrying' <=> u \in Retrying \/ u = queue[1]
        BY <2>4, <3>2, <4>1 DEF Retrying
      <4>4. Retrying' \subseteq Senders
        BY DEF Retrying
      <4>5. QED
        BY <3>2, <4>2, <4>3, <4>4
    <3>4. Cardinality(Retrying') = Cardinality(Retrying) + 1 /\ Cardinality(Retrying) \in Nat
      <4>1. IsFiniteSet(Retrying) /\ Cardinality(Retrying) \in Nat
        BY <3>3, FS_Subset, SyncAssumption, <1>cards
      <4>2. QED
        BY <3>3, <4>1, FS_AddElement
    <3>5. QED
      BY <3>2, <3>4, <2>2, <1>size DEF SlotInv
  <2>19. QED
    BY <2>8, <2>9, <2>10, <2>11, <2>12, <2>13, <2>14, <2>15, <2>16, <2>17, <2>18
    DEF IInv
<1>12. ASSUME DropPort PROVE IInv'
  <2>1. /\ rpc = "drop" /\ rmode = "drop" /\ ~disconnected /\ Intact /\ rsig = <<>> /\ rtok = 0
        /\ waited = FALSE
        /\ blocker.by # "receiver" /\ (blocker.by = "sender" => canceled # {} /\ cap = 0)
        /\ \A u \in canceled : spc[u] = "rendezvous" /\ cap = 0 /\ Holding(smsg[u]) /\ canceled = {u}
        /\ \A u \in Senders : ~sflag[u]
    <3>1. rpc = "drop" /\ ~disconnected
      BY <1>12 DEF DropPort
    <3>2. rmode = "drop" /\ rsig = <<>> /\ rtok = 0 /\ waited = FALSE /\ PortOpen
      BY <3>1, <1>waited DEF CallInv, PortOpen, None
    <3>3. blocker.by # "receiver" /\ (blocker.by = "sender" => canceled # {} /\ cap = 0)
      BY <3>1 DEF BlockerInv, AtRendezvous
    <3>4. \A u \in canceled :
            spc[u] = "rendezvous" /\ cap = 0 /\ Holding(smsg[u]) /\ canceled = {u}
      BY <3>1 DEF BlockerInv, AtRendezvous
    <3>5. QED
      BY <3>1, <3>2, <3>3, <3>4 DEF RingInv, FlagInv
  <2>2. /\ disconnected' = TRUE /\ buf' = IF cap = 0 THEN buf ELSE <<>>
        /\ queue' = <<>> /\ blocker' = NoneBlocked /\ canceled' = {}
        /\ sflag' = [u \in Senders |-> u \in canceled]
        /\ rsig' = DropTokens
        /\ \/ rsig' = <<>> /\ rpc' = "gone"
           \/ rsig' # <<>> /\ rpc' = "signal"
        /\ UNCHANGED <<cap, start, size, channels, woken, spc, smsg, stok, ssig,
                        rmode, rtok, waited, rres, sends, oks, returned, received,
                        selected>>
    BY <1>12, <2>1 DEF DropPort, state, sender, receiver
  <2>3. /\ DropTokens \in Seq(Tokens)
        /\ \A i \in DOMAIN DropTokens :
             /\ DropTokens[i] # 0 /\ DropTokens[i] \notin woken
             /\ \E u \in Senders : DropTokens[i] = stok[u]
        /\ \A i, j \in DOMAIN DropTokens : i # j => DropTokens[i] # DropTokens[j]
    <3> DEFINE b == IF blocker.by = "sender" THEN <<blocker.tok>> ELSE <<>>
    <3>1. \A i \in DOMAIN queue : stok[queue[i]] \in Tokens /\ stok[queue[i]] \notin woken
      BY <1>stok, SyncAssumption DEF QueueInv, TokenInv, Tokens, None
    <3>2. \A i, j \in DOMAIN queue : i # j => stok[queue[i]] # stok[queue[j]]
      BY DEF QueueInv, TokenInv, None
    <3>3. blocker.by = "sender" =>
            /\ blocker.tok \in Tokens /\ blocker.tok \notin woken
            /\ \E u \in Senders : stok[u] = blocker.tok /\ spc[u] = "rendezvous"
      BY <1>stok, SyncAssumption DEF BlockerInv, AtRendezvous, TokenInv, Tokens, None
    <3>4. blocker.by = "sender" => \A i \in DOMAIN queue : stok[queue[i]] # blocker.tok
      BY <3>3 DEF QueueInv, TokenInv, None
    <3>5. /\ DropQueue \in Seq(Tokens) /\ Len(DropQueue) = Len(queue) /\ Len(queue) \in Nat
          /\ DOMAIN queue = 1..Len(queue)
          /\ \A i \in DOMAIN queue : DropQueue[i] = stok[queue[i]]
      BY <3>1, <1>queue DEF DropQueue
    <3>6. CASE blocker.by # "sender"
      <4>1. DropTokens = DropQueue
        BY <3>5, <3>6 DEF DropTokens
      <4>2. DOMAIN DropTokens = DOMAIN queue
        BY <4>1, <3>5 DEF DropQueue
      <4>3. QED
        BY <4>1, <4>2, <3>1, <3>2, <3>5, SyncAssumption DEF Tokens
    <3>7. CASE blocker.by = "sender"
      <4>1. DropTokens = Append(DropQueue, blocker.tok)
        BY <3>3, <3>5, <3>7 DEF DropTokens
      <4>2. /\ DropTokens \in Seq(Tokens) /\ DOMAIN DropTokens = 1..(Len(queue) + 1)
            /\ DropTokens[Len(queue) + 1] = blocker.tok
            /\ \A i \in DOMAIN queue : DropTokens[i] = stok[queue[i]]
        BY <4>1, <3>3, <3>5, <3>7
      <4>3. \A i \in DOMAIN DropTokens : i \in DOMAIN queue \/ i = Len(queue) + 1
        BY <4>2, <3>5
      <4>4. QED
        BY <4>2, <4>3, <3>1, <3>2, <3>3, <3>4, <3>7, SyncAssumption DEF Tokens
    <3>8. QED
      BY <3>6, <3>7
  <2>4. TypeOK'
    <3>1. BufferTypeOK'
      <4>1. CASE cap = 0
        BY <2>2, <4>1 DEF TypeOK, BufferTypeOK
      <4>2. CASE cap # 0
        <5>1. DOMAIN buf' = {}
          BY <2>2, <4>2
        <5>2. QED
          BY <2>2, <5>1 DEF TypeOK, BufferTypeOK
      <4>3. QED
        BY <4>1, <4>2
    <3>2. WaitersTypeOK'
      <4>1. queue' \in Seq(Senders)
        BY <2>2, <1>queue
      <4>2. blocker' \in [by : {"none", "sender", "receiver"}, tok : 0..MaxTokens]
        BY <2>2, <1>blocker, SyncAssumption DEF NoneBlocked, None
      <4>3. canceled' \subseteq Senders
        BY <2>2, <1>canceled
      <4>4. QED
        BY <4>1, <4>2, <4>3, <2>2 DEF TypeOK, WaitersTypeOK
    <3>3. SenderTypeOK'
      <4>1. sflag' \in [Senders -> BOOLEAN]
        BY <2>2, <1>sflag
      <4>2. QED
        BY <4>1, <2>2 DEF TypeOK, SenderTypeOK
    <3>4. ReceiverTypeOK'
      <4>1. rsig' \in Seq(Tokens)
        BY <2>2, <1>rsig, <2>3
      <4>2. QED
        BY <4>1, <2>2 DEF TypeOK, ReceiverTypeOK
    <3>5. QED
      BY <3>1, <3>2, <3>3, <3>4, <2>2 DEF TypeOK
  <2>5. RingInv'
    BY <2>1, <2>2 DEF RingInv, Intact, Slots, Wrap, PortOpen
  <2>6. CountInv'
    <3>1. Alive' = Alive
      BY <2>1, <2>2 DEF Alive
    <3>2. QED
      BY <3>1, <2>1, <2>2 DEF CountInv, TxClosed, PortOpen
  <2>7. CallInv'
    BY <2>1, <2>2 DEF CallInv, None
  <2>8. BlockerInv'
    BY <2>2 DEF BlockerInv, NoneBlocked
  <2>9. TokenInv'
    BY <2>2, <2>3 DEF TokenInv, NoneBlocked, None
  <2>10. QueueInv'
    BY <2>2 DEF QueueInv
  <2>11. FlagInv'
    BY <2>1, <2>2 DEF FlagInv, Holding, PortOpen
  <2>12. MetInv'
    BY <2>1, <2>2 DEF MetInv, Met, Holding
  <2>13. MessageInv'
    BY <2>2 DEF MessageInv
  <2>14. SlotInv'
    BY <2>2 DEF SlotInv
  <2>15. QED
    BY <2>4, <2>5, <2>6, <2>7, <2>8, <2>9, <2>10, <2>11, <2>12, <2>13, <2>14 DEF IInv
<1>13. QED
  BY <1>1, <1>2, <1>3, <1>4, <1>5, <1>6, <1>7, <1>8, <1>9, <1>10, <1>11, <1>12
  DEF ReceiverStep

-----------------------------------------------------------------------------
(* The theorems                                                            *)

\* Packet::new, the creator's handle and the port satisfy IInv.
LEMMA InitIInv == Init => IInv
<1> SUFFICES ASSUME Init PROVE IInv
  OBVIOUS
<1>1. Creator \in Senders
  BY SyncAssumption DEF Creator
<1>2. cap \in Nat /\ Slots \in Nat \ {0} /\ 0..(IF cap = 0 THEN 0 ELSE cap - 1) = 0..(Slots - 1)
  BY SyncAssumption DEF Init, Slots
<1>3. buf \in [0..(Slots - 1) -> {0}] /\ start = 0 /\ size = 0
  BY <1>2 DEF Init, None
<1>4. RingInv
  <2>1. \A j \in 0..(Slots - 1) : buf[Wrap(start + j)] = 0
    BY <1>2, <1>3 DEF Wrap
  <2>2. Intact
    BY <1>2, <1>3, <2>1, SyncAssumption DEF Intact, None
  <2>3. QED
    BY <1>2, <1>3, <2>2 DEF RingInv
<1>5. Alive = {Creator} /\ Cardinality(Alive) = 1
  <2>1. Alive = {Creator}
    BY <1>1 DEF Init, Alive
  <2>2. QED
    BY <2>1, FS_Singleton
<1>6. TypeOK
  <2>1. BufferTypeOK
    BY <1>2, <1>3, SyncAssumption DEF BufferTypeOK, Slots
  <2>2. Cardinality(Senders) \in Nat /\ Cardinality(Senders) # 0
    BY FS_CardinalityType, FS_EmptySet, SyncAssumption
  <2>3. WaitersTypeOK
    <3>1. queue \in Seq(Senders)
      BY DEF Init
    <3>2. blocker \in [by : {"none", "sender", "receiver"}, tok : 0..MaxTokens]
      BY SyncAssumption DEF Init, NoneBlocked, None
    <3>3. channels \in 0..Cardinality(Senders)
      BY <2>2 DEF Init
    <3>4. QED
      BY <3>1, <3>2, <3>3 DEF Init, WaitersTypeOK
  <2>4. SenderTypeOK
    BY SyncAssumption DEF Init, SenderTypeOK, None
  <2>5. ReceiverTypeOK
    <3>1. rsig \in Seq(Tokens) /\ received \in Seq(Messages)
      BY DEF Init
    <3>2. rtok \in 0..MaxTokens
      BY SyncAssumption DEF Init, None
    <3>3. QED
      BY <3>1, <3>2 DEF Init, ReceiverTypeOK
  <2>6. QED
    BY <2>1, <2>3, <2>4, <2>5 DEF Init, TypeOK
<1>7. CountInv
  BY <1>1, <1>5 DEF Init, CountInv, TxClosed, PortOpen
<1>8. CallInv /\ BlockerInv /\ QueueInv /\ MetInv /\ SlotInv
  BY DEF Init, CallInv, BlockerInv, QueueInv, MetInv, SlotInv, NoneBlocked, None
<1>9. TokenInv /\ FlagInv
  BY DEF Init, TokenInv, FlagInv, None
<1>10. MessageInv
  BY <1>3 DEF Init, MessageInv, None
<1>11. QED
  BY <1>4, <1>6, <1>7, <1>8, <1>9, <1>10 DEF IInv

\* The invariant is about variables only, so a step that changes none keeps it.
LEMMA StutterPreserves == ASSUME IInv, UNCHANGED vars PROVE IInv'
<1> USE DEF vars, state, sender, receiver
<1>1. TypeOK'
  BY DEF IInv, TypeOK, BufferTypeOK, WaitersTypeOK, SenderTypeOK, ReceiverTypeOK
<1>2. RingInv'
  BY DEF IInv, RingInv, Intact, Slots, Wrap, PortOpen
<1>3. CountInv'
  BY DEF IInv, CountInv, Alive, TxClosed, PortOpen
<1>4. CallInv'
  BY DEF IInv, CallInv
<1>5. BlockerInv'
  BY DEF IInv, BlockerInv, AtRendezvous, Holding, Ready
<1>6. TokenInv' /\ QueueInv'
  BY DEF IInv, TokenInv, QueueInv
<1>7. FlagInv' /\ MetInv'
  BY DEF IInv, FlagInv, MetInv, Met, Holding, PortOpen
<1>8. MessageInv'
  BY DEF IInv, MessageInv
<1>9. SlotInv'
  BY DEF IInv, SlotInv, Retrying, Slots
<1>10. QED
  BY <1>1, <1>2, <1>3, <1>4, <1>5, <1>6, <1>7, <1>8, <1>9 DEF IInv

\* IInv holds in every reachable state of the packet.
THEOREM IInvHolds == Spec => []IInv
<1>1. IInv /\ [Next]_vars => IInv'
  BY SenderPreserves, ReceiverPreserves, StutterPreserves DEF Next, Terminated
<1>2. QED
  BY InitIInv, <1>1, PTL DEF Spec

\* Nothing in the packet panics, the queue and `canceled' point at stacks of threads
\* that wait, and when everyone is gone Packet::drop finds nobody counted or queued.
THEOREM PacketIsSafe == Spec => []PacketSafe
<1>1. IInv => PacketSafe
  <2>1. SUFFICES ASSUME IInv PROVE PacketSafe
    OBVIOUS
  <2>2. /\ TypeOK /\ CountInv /\ CallInv /\ BlockerInv /\ TokenInv /\ QueueInv
    BY <2>1 DEF IInv
  <2>3. rpc # "panic" /\ \A s \in Senders : spc[s] # "panic"
    BY <2>2 DEF CallInv, TokenInv
  <2>4. \A s \in canceled : spc[s] = "rendezvous" /\ blocker = BlockedSender(stok[s])
    <3>1. blocker \in [by : {"none", "sender", "receiver"}, tok : 0..MaxTokens]
      BY <2>2 DEF TypeOK, WaitersTypeOK
    <3>2. \A s \in canceled :
            spc[s] = "rendezvous" /\ blocker.by = "sender" /\ blocker.tok = stok[s]
      BY <2>2 DEF BlockerInv, AtRendezvous
    <3>3. QED
      BY <3>1, <3>2 DEF BlockedSender
  <2>5. AllGone => channels = 0 /\ queue = <<>> /\ canceled = {}
    <3>1. SUFFICES ASSUME AllGone PROVE channels = 0 /\ queue = <<>> /\ canceled = {}
      OBVIOUS
    <3>2. Alive = {}
      BY <3>1 DEF AllGone, Alive
    <3>3. channels = 0
      BY <2>2, <3>2, FS_EmptySet DEF CountInv
    <3>4. TxClosed
      BY <3>1 DEF AllGone, TxClosed
    <3>5. canceled \subseteq Senders
      BY <2>2 DEF TypeOK, WaitersTypeOK
    <3>6. canceled = {}
      BY <2>4, <3>1, <3>5 DEF AllGone
    <3>7. QED
      BY <2>2, <3>3, <3>4, <3>6 DEF CountInv, QueueInv
  <2>6. QED
    BY <2>2, <2>3, <2>4, <2>5 DEF PacketSafe, QueueInv
<1>2. QED
  BY IInvHolds, <1>1, PTL

\* Nobody sleeps in the queue beside a free slot that no sender is on its way to.
THEOREM SlotsUsed == Spec => []SlotsNotWasted
<1>1. IInv => SlotsNotWasted
  <2>1. SUFFICES ASSUME IInv, queue # <<>> PROVE size + Cardinality(Retrying) >= BufCap
    BY DEF SlotsNotWasted
  <2>2. TypeOK /\ RingInv /\ QueueInv /\ SlotInv
    BY <2>1 DEF IInv
  <2>3. Intact
    BY <2>1, <2>2 DEF RingInv, QueueInv
  <2>4. QED
    BY <2>1, <2>2, <2>3, RingShape DEF SlotInv
<1>2. QED
  BY IInvHolds, <1>1, PTL

\* A rendezvous send that returned Ok has met its receive, or a select.
THEOREM RendezvousMeets == Spec => []RendezvousKept
<1>1. IInv => RendezvousKept
  <2>1. SUFFICES ASSUME IInv, cap = 0, NEW m \in oks \ selected
                 PROVE  \/ \E i \in DOMAIN received : received[i] = m
                        \/ Content = <<m>> /\ rpc \in {"wait", "relock"}
    BY DEF RendezvousKept
  <2>2. TypeOK /\ RingInv /\ Intact /\ Met(m)
    BY <2>1 DEF IInv, RingInv, MetInv
  <2>3. Holding(m) => Content = <<m>>
    <3>1. SUFFICES ASSUME Holding(m) PROVE Content = <<m>>
      OBVIOUS
    <3>2. size = 1 /\ buf[start] = m /\ start = 0 /\ Slots = 1
      BY <2>1, <2>2, <3>1 DEF Holding, RingInv, Slots
    <3>3. Wrap(start + (1 - 1)) = start
      BY <3>2 DEF Wrap
    <3>4. Content = [i \in 1..1 |-> buf[Wrap(start + (i - 1))]]
      BY <2>2, <3>2, RingShape
    <3>5. Content \in Seq(Messages) /\ Len(Content) = 1 /\ Content[1] = m
      BY <2>2, <3>2, <3>3, <3>4, RingShape
    <3>6. QED
      BY <3>5
  <2>4. QED
    BY <2>1, <2>2, <2>3 DEF Met
<1>2. QED
  BY IInvHolds, <1>1, PTL

-----------------------------------------------------------------------------
(* The packet implements the bounded channel                               *)

TxOpen == \E s \in Senders : spc[s] \notin {"unborn", "dropwake", "gone"}

\* A step that leaves the buffer alone leaves the contents alone.
LEMMA SameContent ==
  ASSUME UNCHANGED <<cap, buf, start, size>> PROVE Content' = Content
  BY DEF Content, Pos, BufCap

\* Whatever is in the channel is in a slot.
LEMMA ContentBuffered ==
  ASSUME TypeOK, RingInv, Intact
  PROVE  \A i \in DOMAIN Content : \E j \in DOMAIN buf : Content[i] = buf[j]
<1>1. /\ Content = [i \in 1..size |-> buf[Wrap(start + (i - 1))]]
      /\ size \in 0..Slots /\ Slots \in Nat \ {0} /\ DOMAIN buf = 0..(Slots - 1)
      /\ \A j \in 0..Slots : Wrap(start + j) \in 0..(Slots - 1)
  BY RingShape DEF Intact
<1>2. \A i \in 1..size : i - 1 \in 0..Slots
  BY <1>1
<1>3. QED
  BY <1>1, <1>2

\* The initial packet is an empty channel with both ends open.
LEMMA RefinesInit == Init => Abstract!Init
<1> SUFFICES ASSUME Init PROVE Abstract!Init
  OBVIOUS
<1>1. Creator \in Senders
  BY SyncAssumption DEF Creator
<1>2. TxOpen
  BY <1>1 DEF Init, TxOpen
<1>3. Content = <<>>
  BY DEF Init, Content
<1>4. PortOpen
  BY DEF Init, PortOpen
<1>5. QED
  BY <1>2, <1>3, <1>4, SyncAssumption DEF Init, Abstract!Init, TxOpen

\* Send accepts a message when the channel has a slot and both ends are open.
LEMMA SendRefines ==
  ASSUME IInv, NEW s \in Senders,
         SendBuffers(s) \/ SendRendezvous(s) \/ SendHandsOff(s)
           \/ TrySendBuffers(s) \/ TrySendHandsOff(s)
  PROVE  Abstract!Next
<1>1. TypeOK /\ RingInv /\ CountInv /\ MessageInv /\ TokenInv
  BY DEF IInv
<1>2. spc[s] \in {"lock", "try"} /\ ~disconnected /\ Enqueue(smsg[s])
  BY DEF SendBuffers, SendRendezvous, SendHandsOff, TrySendBuffers, TrySendHandsOff
<1>3. UNCHANGED <<cap, rpc, rmode, received, returned, rres>>
  BY DEF SendBuffers, SendRendezvous, SendHandsOff, TrySendBuffers, TrySendHandsOff, receiver,
     Ok
<1>4. PortOpen /\ Intact /\ PortOpen'
  BY <1>1, <1>2, <1>3 DEF CountInv, RingInv, PortOpen
<1>5. BufCap = Slots /\ Len(Content) = size /\ Content \in Seq(Messages)
  BY <1>1, <1>4, RingShape
<1>6. size < Slots
  <2>1. size \in 0..Slots /\ Slots \in Nat
    BY <1>1, <1>4, RingShape
  <2>2. QED
    BY <1>5, <2>1 DEF SendBuffers, SendRendezvous, SendHandsOff, TrySendBuffers, TrySendHandsOff,
       HasRoom
<1>7. smsg[s] \in Messages
  BY <1>1, <1>2, SyncAssumption DEF MessageInv, TypeOK, SenderTypeOK, Messages, None
<1>8. Content' = Append(Content, smsg[s])
  BY <1>1, <1>2, <1>3, <1>4, <1>6, <1>7, Enqueues
<1>9. \A i \in DOMAIN Content : Content[i] # smsg[s]
  BY <1>1, <1>2, <1>4, ContentBuffered DEF MessageInv
<1>10. TxOpen
  BY <1>2 DEF TxOpen
<1>11. TxOpen'
  BY <1>1, <1>2 DEF SendBuffers, SendRendezvous, SendHandsOff, TrySendBuffers, TrySendHandsOff,
     Goto, TxOpen, TypeOK, SenderTypeOK
<1>12. Abstract!Send(smsg[s])
  BY <1>1, <1>2, <1>3, <1>4, <1>5, <1>6, <1>8, <1>9, <1>10, <1>11
  DEF Abstract!Send, Abstract!IsNew, Abstract!Slots, Slots, MessageInv, TxOpen
<1>13. QED
  BY <1>7, <1>12 DEF Abstract!Next

\* A message is given back because the port is gone, or a try_send found no room or
\* nobody to hand it to.
LEMMA GiveBackRefines ==
  ASSUME IInv, NEW s \in Senders, SendErr(s) \/ TrySendErr(s)
  PROVE  Abstract!Next
<1>1. TypeOK /\ RingInv /\ CountInv /\ MessageInv
  BY DEF IInv
<1>2. /\ spc[s] \in {"lock", "try"} /\ returned' = returned \cup {smsg[s]}
      /\ spc' = [spc EXCEPT ![s] = "idle"]
      /\ disconnected \/ size = BufCap \/ cap = 0
  BY DEF SendErr, TrySendErr, Err, Goto
<1>3. UNCHANGED <<cap, buf, start, size, rpc, rmode, received, rres>>
  BY DEF SendErr, TrySendErr, receiver, state
<1>4. Content' = Content /\ PortOpen' = PortOpen
  BY <1>3, SameContent DEF PortOpen
<1>5. smsg[s] \in Messages
  BY <1>1, <1>2, SyncAssumption DEF MessageInv, TypeOK, SenderTypeOK, Messages, None
<1>6. TxOpen /\ TxOpen'
  BY <1>1, <1>2 DEF TxOpen, TypeOK, SenderTypeOK
<1>7. PortOpen \/ cap = 0 => Intact
  BY <1>1 DEF RingInv
<1>8. ~PortOpen \/ Len(Content) = Slots \/ cap = 0
  <2>1. CASE disconnected
    BY <1>1, <1>6, <2>1 DEF CountInv, TxOpen, TxClosed
  <2>2. CASE PortOpen /\ size = BufCap
    BY <1>1, <1>7, <2>2, RingShape
  <2>3. QED
    BY <1>2, <2>1, <2>2
<1>9. /\ smsg[s] \notin returned /\ \A i \in DOMAIN received : received[i] # smsg[s]
      /\ PortOpen \/ cap = 0 => \A i \in DOMAIN Content : Content[i] # smsg[s]
  BY <1>1, <1>2, <1>7, ContentBuffered DEF MessageInv
<1>10. Abstract!GiveBack(smsg[s])
  BY <1>2, <1>3, <1>4, <1>6, <1>8, <1>9
  DEF Abstract!GiveBack, Abstract!IsNew, Abstract!Slots, Slots, TxOpen
<1>11. QED
  BY <1>5, <1>10 DEF Abstract!Next

\* The sender whose hand-over was cut off has its message back.
LEMMA WithdrawRefines ==
  ASSUME IInv, NEW s \in Senders, Canceled(s)
  PROVE  Abstract!Withdraw
<1>1. TypeOK /\ RingInv /\ FlagInv
  BY DEF IInv
<1>2. /\ spc[s] = "relock" /\ sflag[s] /\ Dequeue /\ returned' = returned \cup {First}
      /\ UNCHANGED <<cap, rpc, rmode, received, rres>>
  BY DEF Canceled, Err, receiver
<1>3. /\ spc' = [spc EXCEPT ![s] = "idle"] \/ spc' = [spc EXCEPT ![s] = "panic"]
  BY DEF Canceled, Goto
<1>4. cap = 0 /\ ~PortOpen /\ ~PortOpen' /\ size = 1 /\ Intact
  BY <1>1, <1>2 DEF FlagInv, Holding, RingInv, PortOpen
<1>5. Content # <<>> /\ First = Head(Content) /\ Content' = Tail(Content)
  BY <1>1, <1>2, <1>4, Dequeues
<1>6. TxOpen /\ TxOpen'
  BY <1>1, <1>2, <1>3 DEF TxOpen, TypeOK, SenderTypeOK
<1>7. /\ UNCHANGED <<cap, received, rres>> /\ returned' = returned \cup {Head(Content)}
      /\ cap' = 0 /\ Content' = Tail(Content) /\ Content # <<>>
  BY <1>2, <1>4, <1>5
<1>8. PortOpen' = PortOpen /\ TxOpen' = TxOpen
  BY <1>2, <1>6 DEF PortOpen, TxOpen
<1>9. QED
  BY <1>4, <1>7, <1>8 DEF Abstract!Withdraw, TxOpen

\* The last sender's drop closes its end, at the lock.
LEMMA CloseTxRefines ==
  ASSUME IInv, NEW s \in Senders, DropLock(s)
  PROVE  Abstract!CloseTx
<1>1. TypeOK /\ CountInv
  BY DEF IInv
<1>2. /\ spc[s] = "drop"
      /\ UNCHANGED <<cap, buf, start, size, rpc, rmode, received, returned, rres>>
  BY DEF DropLock, receiver
<1>3. spc' = [spc EXCEPT ![s] = "gone"] \/ spc' = [spc EXCEPT ![s] = "dropwake"]
  <2>1. blocker.by # "sender"
    <3>1. Alive \in SUBSET Senders /\ Cardinality(Alive) = 0
      BY <1>1, <1>2 DEF Alive, CountInv
    <3>2. Alive = {}
      BY <3>1, SenderSets
    <3>3. QED
      BY <3>2 DEF IInv, BlockerInv, AtRendezvous, Alive
  <2>2. blocker.by \in {"none", "sender", "receiver"}
    BY <1>1 DEF TypeOK, WaitersTypeOK
  <2>3. QED
    BY <2>1, <2>2 DEF DropLock, Goto
<1>4. \A u \in Senders : u # s => spc[u] \in {"unborn", "gone"}
  <2>1. Alive \in SUBSET Senders /\ Cardinality(Alive) = 0
    BY <1>1, <1>2 DEF Alive, CountInv
  <2>2. Alive = {}
    BY <2>1, SenderSets
  <2>3. QED
    BY <1>1, <1>2, <2>2 DEF CountInv, Alive
<1>5. TxOpen /\ ~TxOpen'
  BY <1>1, <1>2, <1>3, <1>4 DEF TxOpen, TypeOK, SenderTypeOK
<1>6. Content' = Content /\ PortOpen' = PortOpen
  BY <1>2, SameContent DEF PortOpen
<1>7. QED
  BY <1>2, <1>5, <1>6 DEF Abstract!CloseTx, TxOpen

\* A step of send or drop that only waits, wakes or counts changes nothing for the
\* callers.
LEMMA SenderStutters ==
  ASSUME IInv, IInv', NEW s \in Senders,
         \/ SendCall(s) \/ SendBlocks(s) \/ SendWake(s) \/ Woken(s) \/ Acknowledged(s)
         \/ CloneChan(s) \/ DropChan(s) \/ DropWake(s)
  PROVE  UNCHANGED Abstract!vars
<1>1. TypeOK /\ CountInv /\ CountInv'
  BY DEF IInv
<1>2. UNCHANGED <<cap, buf, start, size, rpc, rmode, received, returned, rres>>
  BY DEF SendCall, SendBlocks, SendWake, Woken, Acknowledged, CloneChan, DropChan, DropWake,
     state, receiver, Ok
<1>3. TxOpen' = TxOpen
  <2>1. CASE DropChan(s)
    <3>1. /\ spc[s] = "idle" /\ channels' = channels - 1
          /\ spc' = [spc EXCEPT ![s] = IF channels = 1 THEN "drop" ELSE "gone"]
      BY <2>1 DEF DropChan, Goto
    <3>2. CASE channels = 1
      BY <1>1, <3>1, <3>2 DEF TxOpen, TypeOK, SenderTypeOK
    <3>3. CASE channels # 1
      <4>1. Cardinality(Alive') # 0
        BY <1>1, <3>1, <3>3 DEF CountInv
      <4>2. Alive' # {}
        BY <4>1, FS_EmptySet
      <4>3. QED
        BY <3>1, <4>2 DEF Alive, TxOpen
    <3>4. QED
      BY <3>2, <3>3
  <2>2. CASE CloneChan(s)
    <3>1. PICK u \in Senders : spc[s] = "idle" /\ spc[u] = "unborn" /\ spc' = [spc EXCEPT ![u] = "idle"]
      BY <2>2, Zenon DEF CloneChan, Goto
    <3>2. QED
      BY <1>1, <3>1 DEF TxOpen, TypeOK, SenderTypeOK
  <2>3. CASE DropWake(s)
    BY <1>1, <2>3 DEF DropWake, Goto, TxOpen, TypeOK, SenderTypeOK
  <2>4. CASE SendCall(s) \/ SendBlocks(s) \/ SendWake(s) \/ Woken(s) \/ Acknowledged(s)
    BY <1>1, <2>4 DEF SendCall, SendBlocks, SendWake, Woken, Acknowledged, Goto, TxOpen,
       TypeOK, SenderTypeOK
  <2>5. QED
    BY <2>1, <2>2, <2>3, <2>4
<1>4. Content' = Content /\ PortOpen' = PortOpen
  BY <1>2, SameContent DEF PortOpen
<1>5. QED
  BY <1>2, <1>3, <1>4 DEF Abstract!vars, TxOpen

\* What the receiver sees of the senders under the lock: disconnected exactly when
\* none is left, and the number of messages.
LEMMA ReceiverSees ==
  ASSUME IInv, rmode # "drop" \/ rpc = "drop"
  PROVE  /\ PortOpen /\ Intact /\ (disconnected <=> ~TxOpen)
         /\ (size = 0 <=> Content = <<>>) /\ size \in Nat
<1>1. TypeOK /\ RingInv /\ CountInv
  BY DEF IInv
<1>2. PortOpen /\ Intact
  BY <1>1 DEF PortOpen, RingInv
<1>3. disconnected <=> ~TxOpen
  BY <1>1, <1>2 DEF CountInv, TxClosed, TxOpen
<1>4. Content \in Seq(Messages) /\ Len(Content) = size /\ size \in Nat
  BY <1>1, <1>2, RingShape
<1>5. size = 0 <=> Content = <<>>
  BY <1>4
<1>6. QED
  BY <1>2, <1>3, <1>4, <1>5

\* A call of the receiver begins with no result.
LEMMA CallRefines ==
  ASSUME IInv, RecvCall
  PROVE  Abstract!Call
<1>1. /\ rpc = "idle" /\ rres' = "none" /\ (rmode' # "drop" \/ rpc' = "drop")
      /\ UNCHANGED <<cap, buf, start, size, spc, received, returned>>
  BY DEF RecvCall, state, sender
<1>2. PortOpen /\ PortOpen'
  BY <1>1 DEF PortOpen, IInv, CallInv
<1>3. Content' = Content /\ TxOpen' = TxOpen
  BY <1>1, SameContent DEF TxOpen
<1>4. QED
  BY <1>1, <1>2, <1>3 DEF Abstract!Call, TxOpen

\* A receive takes the first message.
LEMMA ReceiveRefines ==
  ASSUME IInv, RecvTakes
  PROVE  Abstract!Receive
<1>1. TypeOK /\ RingInv /\ CallInv
  BY DEF IInv
<1>2. /\ rpc \in {"lock", "relock", "try"} /\ size # 0 /\ Dequeue
      /\ received' = Append(received, First) /\ rres' = "message"
      /\ UNCHANGED <<cap, spc, returned>> /\ rmode' \in {"none", rmode}
  BY DEF RecvTakes, HasLock, Exhausted, sender, RecvGoto
<1>3. rmode # "drop" /\ rmode' # "drop"
  BY <1>1, <1>2 DEF CallInv
<1>4. PortOpen /\ Intact /\ PortOpen' /\ size > 0
  BY <1>2, <1>3, ReceiverSees DEF PortOpen
<1>5. Content # <<>> /\ First = Head(Content) /\ Content' = Tail(Content)
  BY <1>1, <1>2, <1>4, Dequeues
<1>6. TxOpen' = TxOpen
  BY <1>2 DEF TxOpen
<1>7. /\ UNCHANGED <<cap, returned>> /\ received' = Append(received, Head(Content))
      /\ rres' = "message"
  BY <1>2, <1>5
<1>8. QED
  BY <1>4, <1>5, <1>6, <1>7 DEF Abstract!Receive, TxOpen

\* A receive that finds nothing reports whether a sender is left.
LEMMA ReceiveNothingRefines ==
  ASSUME IInv, RecvNothing
  PROVE  Abstract!ReceiveNothing
<1>1. /\ rpc \in {"lock", "relock", "try"} /\ size = 0
      /\ rres' = IF disconnected THEN "disconnected" ELSE "empty"
      /\ UNCHANGED <<cap, buf, start, size, spc, received, returned>>
      /\ rmode' \in {"none", rmode}
  BY DEF RecvNothing, HasLock, Exhausted, sender, RecvGoto
<1>2. rmode # "drop" /\ rmode' # "drop"
  BY <1>1 DEF IInv, CallInv
<1>3. PortOpen /\ PortOpen' /\ (disconnected <=> ~TxOpen) /\ Content = <<>>
  BY <1>1, <1>2, ReceiverSees DEF PortOpen
<1>4. Content' = Content /\ TxOpen' = TxOpen
  BY <1>1, SameContent DEF TxOpen
<1>5. rres' = IF TxOpen THEN "empty" ELSE "disconnected"
  BY <1>1, <1>3
<1>6. UNCHANGED <<cap, received, returned>>
  BY <1>1
<1>7. QED
  BY <1>3, <1>4, <1>5, <1>6 DEF Abstract!ReceiveNothing, TxOpen

\* A select reports a port that is ready, or nothing.
LEMMA SelectRefines ==
  ASSUME IInv, SelectCanRecv \/ StartSelection \/ SelectAbort
  PROVE  Abstract!ReportReady \/ UNCHANGED Abstract!vars
<1>1. /\ rpc \in {"can_recv", "start", "abort"} /\ rmode' \in {"none", rmode}
      /\ UNCHANGED <<cap, buf, start, size, spc, received, returned>>
  BY DEF SelectCanRecv, StartSelection, SelectAbort, RecvGoto, state, sender
<1>2. rmode # "drop" /\ rmode' # "drop"
  BY <1>1 DEF IInv, CallInv
<1>3. /\ PortOpen /\ PortOpen' /\ (disconnected <=> ~TxOpen)
      /\ (size = 0 <=> Content = <<>>) /\ size \in Nat
  BY <1>2, ReceiverSees DEF PortOpen
<1>4. Content' = Content /\ TxOpen' = TxOpen
  BY <1>1, SameContent DEF TxOpen
<1>5. rres' = rres \/ (rres' = "ready" /\ Ready)
  <2>1. CASE SelectAbort
    <3>1. CASE blocker.by = "receiver"
      BY <2>1, <3>1 DEF SelectAbort
    <3>2. CASE blocker.by # "receiver"
      BY <2>1, <3>2 DEF SelectAbort, IInv, BlockerInv
    <3>3. QED
      BY <3>1, <3>2
  <2>2. QED
    BY <2>1 DEF SelectCanRecv, StartSelection
<1>6. Ready => Content # <<>> \/ ~TxOpen
  BY <1>3 DEF Ready
<1>7. UNCHANGED <<cap, received, returned>>
  BY <1>1
<1>8. QED
  BY <1>3, <1>4, <1>5, <1>6, <1>7 DEF Abstract!ReportReady, Abstract!vars, TxOpen

\* The port's drop closes its end and discards what is buffered.
LEMMA CloseRxRefines ==
  ASSUME IInv, DropPort \/ DropPortLate
  PROVE  Abstract!CloseRx
<1>1. /\ rpc = "drop" /\ rpc' # "drop"
      /\ UNCHANGED <<cap, start, size, spc, received, returned, rres, rmode>>
      /\ cap = 0 => buf' = buf
  BY DEF DropPort, DropPortLate, state, sender
<1>2. PortOpen /\ ~PortOpen'
  BY <1>1 DEF PortOpen, IInv, CallInv
<1>3. TxOpen' = TxOpen
  BY <1>1 DEF TxOpen
<1>4. cap = 0 => Content' = Content
  BY <1>1, SameContent
<1>5. UNCHANGED <<cap, received, returned, rres>>
  BY <1>1
<1>6. QED
  BY <1>2, <1>3, <1>4, <1>5 DEF Abstract!CloseRx, TxOpen

\* A step of the receiver that only waits or wakes changes nothing for the callers.
LEMMA ReceiverStutters ==
  ASSUME IInv, RecvBlocks \/ RecvWoken \/ RecvSignal \/ SelectWoken \/ UNCHANGED vars
  PROVE  UNCHANGED Abstract!vars
<1>1. UNCHANGED <<cap, buf, start, size, spc, received, returned, rres>>
  BY DEF RecvBlocks, RecvWoken, RecvSignal, SelectWoken, vars, state, sender, receiver
<1>2. PortOpen' = PortOpen
  <2>1. CASE RecvSignal
    <3>1. /\ rpc = "signal" /\ rpc' # "drop"
          /\ rmode' = IF rpc' = "idle" THEN "none" ELSE rmode
      BY <2>1 DEF RecvSignal, RecvGoto
    <3>2. rpc' = "idle" => rmode # "drop"
      BY <2>1 DEF RecvSignal, RecvGoto
    <3>3. QED
      BY <3>1, <3>2 DEF PortOpen
  <2>2. CASE RecvBlocks
    BY <2>2 DEF RecvBlocks, Install, PortOpen, IInv, CallInv
  <2>3. CASE RecvWoken \/ SelectWoken \/ UNCHANGED vars
    BY <2>3 DEF RecvWoken, SelectWoken, PortOpen, IInv, CallInv, vars, receiver
  <2>4. QED
    BY <2>1, <2>2, <2>3
<1>3. Content' = Content /\ TxOpen' = TxOpen
  BY <1>1, SameContent DEF TxOpen
<1>4. UNCHANGED <<cap, received, returned, rres>>
  BY <1>1
<1>5. QED
  BY <1>2, <1>3, <1>4 DEF Abstract!vars, TxOpen

\* Every step of the packet is a step of the bounded channel or none of it.
LEMMA StepRefines ==
  ASSUME IInv, IInv', [Next]_vars
  PROVE  [Abstract!Next]_(Abstract!vars)
<1>1. CASE \E s \in Senders : SendCall(s) \/ CloneChan(s) \/ DropChan(s) \/ SenderStep(s)
  <2>1. PICK s \in Senders : SendCall(s) \/ CloneChan(s) \/ DropChan(s) \/ SenderStep(s)
    BY <1>1
  <2>2. CASE SendBuffers(s) \/ SendRendezvous(s) \/ SendHandsOff(s)
               \/ TrySendBuffers(s) \/ TrySendHandsOff(s)
    BY <2>2, SendRefines
  <2>3. CASE SendErr(s) \/ TrySendErr(s)
    BY <2>3, GiveBackRefines
  <2>4. CASE Canceled(s)
    BY <2>4, WithdrawRefines DEF Abstract!Next
  <2>5. CASE DropLock(s)
    BY <2>5, CloseTxRefines DEF Abstract!Next
  <2>6. CASE \/ SendCall(s) \/ SendBlocks(s) \/ SendWake(s) \/ Woken(s) \/ Acknowledged(s)
             \/ CloneChan(s) \/ DropChan(s) \/ DropWake(s)
    BY <2>6, SenderStutters
  <2>7. QED
    BY <2>1, <2>2, <2>3, <2>4, <2>5, <2>6 DEF SenderStep
<1>2. CASE RecvCall
  BY <1>2, CallRefines DEF Abstract!Next
<1>3. CASE RecvTakes
  BY <1>3, ReceiveRefines DEF Abstract!Next
<1>4. CASE RecvNothing
  BY <1>4, ReceiveNothingRefines DEF Abstract!Next
<1>5. CASE SelectCanRecv \/ StartSelection \/ SelectAbort
  BY <1>5, SelectRefines DEF Abstract!Next
<1>6. CASE DropPort \/ DropPortLate
  BY <1>6, CloseRxRefines DEF Abstract!Next
<1>7. CASE RecvBlocks \/ RecvWoken \/ RecvSignal \/ SelectWoken \/ UNCHANGED vars
  BY <1>7, ReceiverStutters
<1>8. QED
  BY <1>1, <1>2, <1>3, <1>4, <1>5, <1>6, <1>7 DEF Next, ReceiverStep, Terminated

\* sync.rs implements the bounded channel: every call takes effect at one instant.
THEOREM ImplementsBoundedChannel == Spec => ImplementsChannel
<1>1. Init => Abstract!Init
  BY RefinesInit
<1>2. IInv /\ IInv' /\ [Next]_vars => [Abstract!Next]_(Abstract!vars)
  BY StepRefines
<1>3. QED
  BY <1>1, <1>2, IInvHolds, PTL DEF Spec, ImplementsChannel, Abstract!Spec
=============================================================================
