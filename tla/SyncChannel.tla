---------------------------- MODULE SyncChannel -----------------------------
(***************************************************************************)
(* The synchronous flavour of std::sync::mpsc (src/sync/mpsc/sync.rs): a   *)
(* ring buffer, a queue of blocked senders and one blocked thread, under a *)
(* mutex.  A critical section is a step; so are the fetch-and-adds on      *)
(* `channels', every signal (sent after the mutex is released) and every   *)
(* wakeup.  Capacity 0 makes a rendezvous channel, where a sender waits in *)
(* `blocker' until its message is taken.  A thread that panics stops.      *)
(* A token is the shared allocation behind a WaitToken and a SignalToken;  *)
(* its number is used again once nothing refers to it, and a signal to a   *)
(* token nobody waits for any more has no effect.                          *)
(***************************************************************************)
EXTENDS Naturals, Sequences, FiniteSets

CONSTANTS Senders,    \* threads that may own a SyncSender
          MaxSends,   \* bound on send and try_send calls
          Capacities, \* the channels made by sync_channel
          MaxTokens   \* bound on tokens in use at once

ASSUME SyncAssumption ==
  /\ IsFiniteSet(Senders) /\ Senders # {} /\ MaxSends \in Nat
  /\ Capacities \subseteq Nat /\ MaxTokens \in Nat
  /\ MaxTokens > 2 * Cardinality(Senders) + 1

VARIABLES
  cap, buf, start, size,  \* State.cap and its ring buffer
  disconnected, queue, blocker, canceled, channels,
  woken,                  \* tokens whose flag is set
  spc, smsg, stok,        \* a sender: location, message, token it waits for
  sflag,                  \* its local `canceled'
  ssig,                   \* the token it is about to signal
  rpc, rmode, rtok,       \* the receiver: location, call, token
  waited,                 \* woke_up_after_waiting
  rsig,                   \* tokens the receiver is about to signal, in order
  rres,                   \* result of its last call
  sends, oks, returned,   \* calls; messages whose send returned Ok, Err
  received, selected      \* messages taken; accepted for a selecting thread

state == <<cap, buf, start, size, disconnected, queue, blocker, canceled>>
sender == <<spc, smsg, stok, sflag, ssig, sends, oks, returned, selected>>
receiver == <<rpc, rmode, rtok, waited, rsig, rres, received>>
vars == <<state, channels, woken, sender, receiver>>

None == 0
Messages == 1..MaxSends
Tokens == 1..MaxTokens
NoneBlocked == [by |-> "none", tok |-> None]
BlockedSender(t) == [by |-> "sender", tok |-> t]
BlockedReceiver(t) == [by |-> "receiver", tok |-> t]
Creator == CHOOSE s \in Senders : TRUE

Init ==
  /\ cap \in Capacities /\ start = 0 /\ size = 0
  /\ buf = [i \in 0..(IF cap = 0 THEN 0 ELSE cap - 1) |-> None]
  /\ disconnected = FALSE /\ queue = <<>> /\ blocker = NoneBlocked
  /\ canceled = {} /\ channels = 1 /\ woken = {}
  /\ spc = [s \in Senders |-> IF s = Creator THEN "idle" ELSE "unborn"]
  /\ smsg = [s \in Senders |-> None] /\ stok = [s \in Senders |-> None]
  /\ sflag = [s \in Senders |-> FALSE] /\ ssig = [s \in Senders |-> None]
  /\ rpc = "idle" /\ rmode = "none" /\ rtok = None /\ waited = FALSE
  /\ rsig = <<>> /\ rres = "none"
  /\ sends = 0 /\ oks = {} /\ returned = {} /\ received = <<>> /\ selected = {}

-----------------------------------------------------------------------------
(* The ring buffer, and tokens                                             *)

BufCap == Cardinality(DOMAIN buf)
Pos(i) == (start + i) % BufCap
EnqueueOk == buf[Pos(size)] = None
Enqueue(m) ==
  /\ buf' = [buf EXCEPT ![Pos(size)] = m] /\ size' = size + 1 /\ UNCHANGED start

First == buf[start]
DequeueOk == First # None
Dequeue ==
  /\ buf' = [buf EXCEPT ![start] = None] /\ size' = size - 1 /\ start' = (start + 1) % BufCap

Held == {blocker.tok, rtok} \cup {stok[s] : s \in Senders}
          \cup {ssig[s] : s \in Senders} \cup {rsig[i] : i \in DOMAIN rsig}
Signal(t) == woken' = woken \cup ({t} \cap ({rtok} \cup {stok[s] : s \in Senders}))
Fresh == CHOOSE t \in Tokens : t \notin Held

-----------------------------------------------------------------------------
(* SyncSender: send, try_send, clone, drop                                 *)

Goto(s, l) == spc' = [spc EXCEPT ![s] = l]
Ok(s) ==
  /\ oks' = oks \cup {smsg[s]} /\ smsg' = [smsg EXCEPT ![s] = None]
  /\ UNCHANGED returned
Err(s, m) ==
  /\ returned' = returned \cup {m} /\ smsg' = [smsg EXCEPT ![s] = None]
  /\ UNCHANGED oks
WaitOn(s, t) == stok' = [stok EXCEPT ![s] = t] /\ woken' = woken \ {t}

SendCall(s) ==
  /\ spc[s] = "idle" /\ sends < MaxSends /\ sends' = sends + 1
  /\ smsg' = [smsg EXCEPT ![s] = sends']
  /\ Goto(s, "lock") \/ Goto(s, "try")
  /\ UNCHANGED <<state, channels, woken, stok, sflag, ssig, oks, returned, selected,
                 receiver>>

SendErr(s) ==
  /\ spc[s] = "lock" /\ disconnected
  /\ Err(s, smsg[s]) /\ Goto(s, "idle")
  /\ UNCHANGED <<state, channels, woken, stok, sflag, ssig, sends, selected,
                 receiver>>

\* Mutant: off by one.
HasRoom_Mutant == size + 1 < BufCap
HasRoom == size < BufCap

\* No room: the sender's node joins the queue.
SendBlocks(s) ==
  /\ spc[s] = "lock" /\ ~disconnected /\ ~HasRoom
  /\ queue' = Append(queue, s) /\ WaitOn(s, Fresh) /\ Goto(s, "queued")
  /\ UNCHANGED <<cap, buf, start, size, disconnected, blocker, canceled, channels,
                 smsg, sflag, ssig, sends, oks, returned, selected, receiver>>

\* Mutant: every send ends when its message is buffered.
MustMeet_Mutant == FALSE
MustMeet == cap = 0

\* Buffered, and the receiver is not waiting.
SendBuffers(s) ==
  /\ spc[s] = "lock" /\ ~disconnected /\ HasRoom
  /\ blocker = NoneBlocked /\ ~MustMeet
  /\ Enqueue(smsg[s]) /\ Ok(s) /\ Goto(s, IF EnqueueOk THEN "idle" ELSE "panic")
  /\ UNCHANGED <<cap, disconnected, queue, blocker, canceled, channels, woken, stok, sflag, ssig, sends, selected, receiver>>

\* Capacity 0 and no receiver: the sender waits to be acknowledged.
SendRendezvous(s) ==
  /\ spc[s] = "lock" /\ ~disconnected /\ HasRoom
  /\ blocker = NoneBlocked /\ MustMeet
  /\ Enqueue(smsg[s]) /\ canceled' = {s} /\ sflag' = [sflag EXCEPT ![s] = FALSE]
  /\ WaitOn(s, Fresh) /\ blocker' = BlockedSender(Fresh)
  /\ Goto(s, IF EnqueueOk /\ canceled = {} THEN "rendezvous" ELSE "panic")
  /\ UNCHANGED <<cap, disconnected, queue, channels, smsg, ssig, sends, oks, returned,
                 selected, receiver>>

\* The waiting receiver's token is taken, to be signalled after unlocking.
TakeReceiver(s) ==
  /\ ssig' = [ssig EXCEPT ![s] = blocker.tok] /\ blocker' = NoneBlocked

\* A receiver is waiting for the message.
SendHandsOff(s) ==
  /\ spc[s] = "lock" /\ ~disconnected /\ HasRoom
  /\ blocker # NoneBlocked /\ TakeReceiver(s) /\ Enqueue(smsg[s])
  /\ selected' = IF rmode = "select" THEN selected \cup {smsg[s]} ELSE selected
  /\ Goto(s, IF EnqueueOk /\ blocker.by = "receiver" THEN "wake" ELSE "panic")
  /\ UNCHANGED <<cap, disconnected, queue, canceled, channels, woken, smsg, stok,
                 sflag, sends, oks, returned, receiver>>

\* Disconnected, or no room, or nobody to hand it to.
TrySendErr(s) ==
  /\ spc[s] = "try"
  /\ disconnected \/ size = BufCap \/ (cap = 0 /\ blocker = NoneBlocked)
  /\ Err(s, smsg[s]) /\ Goto(s, "idle")
  /\ UNCHANGED <<state, channels, woken, stok, sflag, ssig, sends, selected,
                 receiver>>

TrySendBuffers(s) ==
  /\ spc[s] = "try" /\ ~disconnected /\ size # BufCap
  /\ cap # 0 /\ blocker = NoneBlocked
  /\ Enqueue(smsg[s]) /\ Ok(s)
  /\ Goto(s, IF size < BufCap /\ EnqueueOk THEN "idle" ELSE "panic")
  /\ UNCHANGED <<cap, disconnected, queue, blocker, canceled, channels, woken, stok, sflag, ssig, sends, selected, receiver>>

TrySendHandsOff(s) ==
  /\ spc[s] = "try" /\ ~disconnected /\ size # BufCap
  /\ blocker # NoneBlocked /\ TakeReceiver(s) /\ Enqueue(smsg[s])
  /\ selected' = IF rmode = "select" THEN selected \cup {smsg[s]} ELSE selected
  /\ Goto(s, IF size < BufCap /\ EnqueueOk /\ blocker.by = "receiver"
             THEN "wake" ELSE "panic")
  /\ UNCHANGED <<cap, disconnected, queue, canceled, channels, woken, smsg, stok,
                 sflag, sends, oks, returned, receiver>>

\* The receiver is signalled outside the lock, and send returns.
SendWake(s) ==
  /\ spc[s] = "wake" /\ Signal(ssig[s])
  /\ ssig' = [ssig EXCEPT ![s] = None] /\ Ok(s) /\ Goto(s, "idle")
  /\ UNCHANGED <<state, channels, stok, sflag, sends, selected, receiver>>

\* A queued sender that was signalled tries again; one whose message was taken
\* or cancelled locks again.
Woken(s) ==
  /\ spc[s] \in {"queued", "rendezvous"} /\ stok[s] \in woken
  /\ stok' = [stok EXCEPT ![s] = None] /\ woken' = woken \ {stok[s]}
  /\ Goto(s, IF spc[s] = "queued" THEN "lock" ELSE "relock")
  /\ UNCHANGED <<state, channels, smsg, sflag, ssig, sends, oks, returned,
                 selected, receiver>>

Acknowledged(s) ==
  /\ spc[s] = "relock" /\ ~sflag[s] /\ Ok(s) /\ Goto(s, "idle")
  /\ UNCHANGED <<state, channels, woken, stok, sflag, ssig, sends, selected,
                 receiver>>

\* The port went away: the sender takes its message back.
Canceled(s) ==
  /\ spc[s] = "relock" /\ sflag[s] /\ Dequeue /\ Err(s, First)
  /\ sflag' = [sflag EXCEPT ![s] = FALSE]
  /\ Goto(s, IF DequeueOk THEN "idle" ELSE "panic")
  /\ UNCHANGED <<cap, disconnected, queue, blocker, canceled, channels, woken, stok, ssig, sends, selected, receiver>>

\* The next thread gets a handle of its own.
CloneChan(s) ==
  /\ spc[s] = "idle" /\ \E u \in Senders : spc[u] = "unborn"
  /\ Goto(CHOOSE u \in Senders : spc[u] = "unborn", "idle") /\ channels' = channels + 1
  /\ UNCHANGED <<state, woken, smsg, stok, sflag, ssig, sends, oks, returned, selected,
                 receiver>>

DropChan(s) ==
  /\ spc[s] = "idle" /\ channels' = channels - 1
  /\ Goto(s, IF channels = 1 THEN "drop" ELSE "gone")
  /\ UNCHANGED <<state, woken, smsg, stok, sflag, ssig, sends, oks, returned, selected,
                 receiver>>

\* The last sender disconnects the channel, unless the port has.
DropLock(s) ==
  /\ spc[s] = "drop"
  /\ IF disconnected
     THEN Goto(s, "gone") /\ UNCHANGED <<disconnected, blocker, ssig>>
     ELSE /\ disconnected' = TRUE /\ TakeReceiver(s)
          /\ Goto(s, CASE blocker.by = "none" -> "gone"
                       [] blocker.by = "receiver" -> "dropwake"
                       [] OTHER -> "panic")
  /\ UNCHANGED <<cap, buf, start, size, queue, canceled, channels, woken, smsg, stok,
                 sflag, sends, oks, returned, selected, receiver>>

DropWake(s) ==
  /\ spc[s] = "dropwake" /\ Signal(ssig[s])
  /\ ssig' = [ssig EXCEPT ![s] = None] /\ Goto(s, "gone")
  /\ UNCHANGED <<state, channels, smsg, stok, sflag, sends, oks, returned, selected,
                 receiver>>

-----------------------------------------------------------------------------
(* Receiver: recv, recv_timeout, try_recv, selection, drop                 *)

RecvCall ==
  /\ rpc = "idle"
  /\ \/ rmode' \in {"recv", "timeout"} /\ rpc' = "lock"
     \/ rmode' = "try" /\ rpc' = "try"
     \/ rmode' = "select" /\ rpc' = "can_recv"
     \/ rmode' = "drop" /\ rpc' = "drop"
  /\ rres' = "none"
  /\ UNCHANGED <<state, channels, woken, sender, rtok, waited, rsig, received>>

\* A call that is over leaves nothing behind but its result.
RecvGoto(l) ==
  /\ rpc' = l /\ rmode' = IF l = "idle" THEN "none" ELSE rmode
  /\ waited' = (waited /\ l # "idle")

Ready == disconnected \/ size > 0

\* The receiver installs its token and waits.
Install(l) ==
  /\ rtok' = Fresh /\ woken' = woken \ {Fresh} /\ blocker' = BlockedReceiver(Fresh)
  /\ rpc' = IF blocker = NoneBlocked THEN l ELSE "panic"

RecvBlocks ==
  /\ rpc = "lock" /\ ~Ready /\ Install("wait")
  /\ UNCHANGED <<cap, buf, start, size, disconnected, queue, canceled, channels, sender,
                 rmode, waited, rsig, rres, received>>

DropToken == rtok' = None /\ woken' = woken \ {rtok}

\* wait returns once signalled, wait_max_until also when it finds the deadline
\* past and the flag not set.
RecvWoken ==
  /\ rpc = "wait" /\ (rtok \in woken \/ rmode = "timeout")
  /\ rpc' = "relock" /\ waited' = (rtok \in woken) /\ DropToken
  /\ UNCHANGED <<state, channels, sender, rmode, rsig, rres, received>>

AbortSelection == IF blocker.by = "receiver" THEN NoneBlocked ELSE blocker

\* The receiver has the lock and will not wait; a wait that timed out has been
\* taken back.
HasLock == rpc \in {"relock", "try"} \/ (rpc = "lock" /\ Ready)
LockedBlocker == IF rpc = "relock" /\ ~waited THEN AbortSelection ELSE blocker

\* Mutant: disconnection is looked at first.
Exhausted_Mutant == disconnected \/ size = 0
Exhausted == size = 0

RecvNothing ==
  /\ HasLock /\ Exhausted /\ blocker' = LockedBlocker
  /\ rres' = IF disconnected THEN "disconnected" ELSE "empty"
  /\ RecvGoto(IF disconnected \/ rmode = "try" \/ (rmode = "timeout" /\ ~waited)
              THEN "idle" ELSE "panic")
  /\ UNCHANGED <<cap, buf, start, size, disconnected, queue, canceled, channels, woken,
                 sender, rtok, rsig, received>>

MustAck == cap = 0 /\ ~waited /\ LockedBlocker.by = "sender"

\* Mutant: the pointer to the acknowledged sender's flag is not taken.
CanceledAfter_Mutant == canceled
CanceledAfter == IF MustAck THEN {} ELSE canceled

\* wakeup_senders: the first queued sender, and the one at the rendezvous.
Pending == (IF queue = <<>> THEN <<>> ELSE <<stok[Head(queue)]>>)
             \o (IF MustAck THEN <<blocker.tok>> ELSE <<>>)
RecvTakes ==
  /\ HasLock /\ ~Exhausted /\ Dequeue
  /\ received' = Append(received, First) /\ rres' = "message"
  /\ queue' = IF queue = <<>> THEN queue ELSE Tail(queue)
  /\ blocker' = IF cap = 0 /\ ~waited THEN NoneBlocked ELSE LockedBlocker
  /\ canceled' = CanceledAfter
  /\ rsig' = Pending
  /\ RecvGoto(IF ~DequeueOk \/ (cap = 0 /\ ~waited /\ LockedBlocker.by = "receiver")
              THEN "panic" ELSE IF Pending = <<>> THEN "idle" ELSE "signal")
  /\ UNCHANGED <<cap, disconnected, channels, woken, sender, rtok>>

\* The senders are signalled outside the lock, one by one.
RecvSignal ==
  /\ rpc = "signal"
  /\ Signal(Head(rsig)) /\ rsig' = Tail(rsig)
  /\ RecvGoto(IF Len(rsig) > 1 THEN "signal"
              ELSE IF rmode = "drop" THEN "gone" ELSE "idle")
  /\ UNCHANGED <<state, channels, sender, rtok, rres, received>>

\* Select::wait looks for a port that is ready, then installs the token.
SelectCanRecv ==
  /\ rpc = "can_recv"
  /\ IF Ready THEN RecvGoto("idle") /\ rres' = "ready"
     ELSE RecvGoto("start") /\ UNCHANGED rres
  /\ UNCHANGED <<state, channels, woken, sender, rtok, rsig, received>>

StartSelection ==
  /\ rpc = "start"
  /\ IF Ready
     THEN RecvGoto("idle") /\ rres' = "ready" /\ UNCHANGED <<woken, blocker, rtok>>
     ELSE Install("selecting") /\ UNCHANGED <<rres, rmode, waited>>
  /\ UNCHANGED <<cap, buf, start, size, disconnected, queue, canceled, channels, sender, rsig, received>>

\* This channel or another one of the set ends the wait.
SelectWoken ==
  /\ rpc = "selecting" /\ rpc' = "abort" /\ waited' = (rtok \in woken)
  /\ UNCHANGED <<state, channels, woken, sender, rmode, rtok, rsig, rres, received>>

\* Ready unless the token is still installed; Select::wait asserts that a port
\* that signalled it is ready.
SelectAbort ==
  /\ rpc = "abort" /\ blocker' = AbortSelection /\ DropToken
  /\ IF blocker.by = "receiver"
     THEN RecvGoto(IF waited THEN "panic" ELSE "idle") /\ UNCHANGED rres
     ELSE RecvGoto("idle") /\ rres' = "ready"
  /\ UNCHANGED <<cap, buf, start, size, disconnected, queue, canceled, channels,
                 sender, rsig, received>>

\* Mutant: the queued senders are forgotten.
DropQueue_Mutant == <<>>
DropQueue == [i \in DOMAIN queue |-> stok[queue[i]]]

DropTokens ==
  DropQueue \o (IF blocker.by = "sender" THEN <<blocker.tok>> ELSE <<>>)

\* The port takes the buffer, unless a rendezvous sender may want its message
\* back, and every sender that waits.  The queue is the port's from here on; that its
\* nodes are taken off it one by one after the unlock is left out, because their
\* owners sleep until they are signalled.
DropPort ==
  /\ rpc = "drop" /\ ~disconnected /\ disconnected' = TRUE
  /\ buf' = IF cap = 0 THEN buf ELSE <<>>
  /\ queue' = <<>> /\ blocker' = NoneBlocked /\ canceled' = {}
  /\ sflag' = [s \in Senders |-> sflag[s] \/ s \in canceled]
  /\ rsig' = DropTokens
  /\ rpc' = IF blocker.by = "receiver" \/ (blocker.by = "sender" /\ canceled = {})
            THEN "panic" ELSE IF DropTokens = <<>> THEN "gone" ELSE "signal"
  /\ UNCHANGED <<cap, start, size, channels, woken, spc, smsg, stok, ssig, sends, oks,
                 returned, selected, rmode, rtok, waited, rres, received>>

DropPortLate ==
  /\ rpc = "drop" /\ disconnected /\ rpc' = "gone"
  /\ UNCHANGED <<state, channels, woken, sender, rmode, rtok, waited, rsig, rres,
                 received>>

-----------------------------------------------------------------------------
SenderStep(s) ==
  \/ SendErr(s) \/ SendBlocks(s) \/ SendBuffers(s) \/ SendRendezvous(s)
  \/ SendHandsOff(s) \/ TrySendErr(s) \/ TrySendBuffers(s) \/ TrySendHandsOff(s)
  \/ SendWake(s) \/ Woken(s) \/ Acknowledged(s) \/ Canceled(s)
  \/ DropLock(s) \/ DropWake(s)

ReceiverStep ==
  \/ RecvBlocks \/ RecvWoken \/ RecvNothing \/ RecvTakes \/ RecvSignal
  \/ SelectCanRecv \/ StartSelection \/ SelectWoken \/ SelectAbort
  \/ DropPort \/ DropPortLate

AllGone == rpc = "gone" /\ \A s \in Senders : spc[s] \in {"unborn", "gone"}

\* Nothing is left to do; Packet is dropped.
Terminated == AllGone /\ UNCHANGED vars

Next ==
  \/ \E s \in Senders : SendCall(s) \/ CloneChan(s) \/ DropChan(s) \/ SenderStep(s)
  \/ RecvCall \/ ReceiverStep \/ Terminated

Spec == Init /\ [][Next]_vars

\* A thread inside a call is scheduled; nobody has to make a call.
FairSpec ==
  Spec /\ WF_vars(ReceiverStep) /\ \A s \in Senders : WF_vars(SenderStep(s))

-----------------------------------------------------------------------------
Content == [i \in 1..(IF BufCap = 0 THEN 0 ELSE size) |-> buf[Pos(i - 1)]]
PortOpen == rmode # "drop" \/ rpc = "drop"

BufferTypeOK ==
  /\ start \in Nat /\ size \in 0..(cap + 1)
  /\ DOMAIN buf \in {{}, 0..(IF cap = 0 THEN 0 ELSE cap - 1)}
  /\ \A i \in DOMAIN buf : buf[i] \in 0..MaxSends

WaitersTypeOK ==
  /\ disconnected \in BOOLEAN /\ queue \in Seq(Senders)
  /\ blocker \in [by : {"none", "sender", "receiver"}, tok : 0..MaxTokens]
  /\ canceled \subseteq Senders /\ channels \in 0..Cardinality(Senders)
  /\ woken \subseteq Tokens

SenderTypeOK ==
  /\ spc \in [Senders -> {"unborn", "idle", "lock", "try", "queued", "rendezvous",
                          "wake", "relock", "drop", "dropwake", "gone", "panic"}]
  /\ smsg \in [Senders -> 0..MaxSends] /\ stok \in [Senders -> 0..MaxTokens]
  /\ sflag \in [Senders -> BOOLEAN] /\ ssig \in [Senders -> 0..MaxTokens]
  /\ sends \in 0..MaxSends /\ oks \subseteq Messages /\ returned \subseteq Messages
  /\ selected \subseteq Messages

ReceiverTypeOK ==
  /\ rpc \in {"idle", "lock", "wait", "relock", "try", "signal", "can_recv", "start",
              "selecting", "abort", "drop", "gone", "panic"}
  /\ rmode \in {"none", "recv", "timeout", "try", "select", "drop"}
  /\ rtok \in 0..MaxTokens /\ waited \in BOOLEAN /\ rsig \in Seq(Tokens)
  /\ rres \in {"none", "message", "empty", "disconnected", "ready"}
  /\ received \in Seq(Messages)

\* Every variable keeps its type.
TypeOK ==
  cap \in Capacities /\ BufferTypeOK /\ WaitersTypeOK /\ SenderTypeOK /\ ReceiverTypeOK

\* Every call takes effect at one instant of a bounded FIFO channel, in its
\* critical section: order, capacity, and the errors it may report.
Abstract == INSTANCE Channel
  WITH queue <- IF PortOpen \/ cap = 0 THEN Content ELSE <<>>,
       tx <- \E s \in Senders : spc[s] \notin {"unborn", "dropwake", "gone"},
       rx <- PortOpen, result <- rres
ImplementsChannel == Abstract!Spec

\* Pointers into the stacks of other threads are good and nothing panics: a node is
\* in the queue once, while its owner waits in acquire_send_slot, and `canceled'
\* points at the flag of the sender at the rendezvous; who is in `blocker' is always
\* who the code expects; the ring buffer's slots are empty when filled and full when
\* emptied; and when everyone is gone Packet::drop finds no handle counted, no
\* sender queued and no pointer to a flag.  Includes the types.
PacketSafe ==
  /\ TypeOK
  /\ rpc # "panic" /\ \A s \in Senders : spc[s] # "panic"
  /\ AllGone => channels = 0 /\ queue = <<>> /\ canceled = {}
  /\ \A i \in DOMAIN queue : spc[queue[i]] = "queued" /\ stok[queue[i]] \notin woken
  /\ \A i, j \in DOMAIN queue : i # j => queue[i] # queue[j]
  /\ \A s \in canceled : spc[s] = "rendezvous" /\ blocker = BlockedSender(stok[s])

\* While senders sleep in the queue the buffer is full, or as many senders as it
\* has free slots have been told to try again.
Retrying ==
  {s \in Senders : \/ spc[s] = "lock"
                   \/ spc[s] = "queued" /\ \A i \in DOMAIN queue : queue[i] # s}
SlotsNotWasted == queue # <<>> => size + Cardinality(Retrying) >= BufCap

\* On a rendezvous channel a send that returned Ok has been received, or is being
\* received by the receive call under way, or was accepted for a select.
RendezvousKept ==
  cap = 0 => \A m \in oks \ selected :
    \/ \E i \in DOMAIN received : received[i] = m
    \/ Content = <<m>> /\ rpc \in {"wait", "relock"}

\* A blocked thread with a reason to go on does: the receiver when there is a
\* message or no sender, a sender when the port is gone.
BlockedWakes ==
  /\ (rpc = "wait" /\ Ready) ~> rpc # "wait"
  /\ \A s \in Senders :
       (spc[s] \in {"queued", "rendezvous"} /\ ~PortOpen) ~> spc[s] = "idle"
=============================================================================
