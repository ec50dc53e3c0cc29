------------------------------ MODULE Channel -------------------------------
(***************************************************************************)
(* What a bounded channel promises its callers: a FIFO queue with a        *)
(* capacity, calls that take effect at one instant, and two ends that      *)
(* close.  An error result is justified by the state at that instant.      *)
(* A capacity of 0 leaves room for the one message being handed over.      *)
(***************************************************************************)
EXTENDS Naturals, Sequences

CONSTANT Messages

VARIABLES cap, queue, tx, rx,   \* capacity, contents, are the two ends open
          received, returned,   \* delivered in order; given back to senders
          result                \* of the receiver's call

vars == <<cap, queue, tx, rx, received, returned, result>>

Slots == IF cap = 0 THEN 1 ELSE cap

Init ==
  /\ cap \in Nat /\ queue = <<>> /\ tx = TRUE /\ rx = TRUE
  /\ received = <<>> /\ returned = {} /\ result = "none"

IsNew(m) ==
  /\ m \notin returned
  /\ \A i \in DOMAIN queue : queue[i] # m
  /\ \A i \in DOMAIN received : received[i] # m

\* A message is accepted.
Send(m) ==
  /\ rx /\ tx /\ Len(queue) < Slots /\ IsNew(m)
  /\ queue' = Append(queue, m)
  /\ UNCHANGED <<cap, tx, rx, received, returned, result>>

\* A message goes back to its sender: the port is gone, or a try_send found
\* no room or, with capacity 0, nobody to hand it to.
GiveBack(m) ==
  /\ ~rx \/ Len(queue) = Slots \/ cap = 0
  /\ IsNew(m) /\ returned' = returned \cup {m}
  /\ UNCHANGED <<cap, queue, tx, rx, received, result>>

\* A sender whose hand-over was cut off by the port's drop has it back.
Withdraw ==
  /\ ~rx /\ cap = 0 /\ queue # <<>>
  /\ returned' = returned \cup {Head(queue)} /\ queue' = Tail(queue)
  /\ UNCHANGED <<cap, tx, rx, received, result>>

\* The receiver makes a call.
Call == result' = "none" /\ UNCHANGED <<cap, queue, tx, rx, received, returned>>

Receive ==
  /\ rx /\ queue # <<>>
  /\ received' = Append(received, Head(queue)) /\ queue' = Tail(queue)
  /\ result' = "message"
  /\ UNCHANGED <<cap, tx, rx, returned>>

\* Empty while senders remain, Disconnected only when none does.
ReceiveNothing ==
  /\ rx /\ queue = <<>> /\ result' = IF tx THEN "empty" ELSE "disconnected"
  /\ UNCHANGED <<cap, queue, tx, rx, received, returned>>

\* Selection reports readiness only when a receive would not block.
ReportReady ==
  /\ rx /\ (queue # <<>> \/ ~tx) /\ result' = "ready"
  /\ UNCHANGED <<cap, queue, tx, rx, received, returned>>

CloseTx ==
  /\ tx /\ tx' = FALSE
  /\ UNCHANGED <<cap, queue, rx, received, returned, result>>

\* The port takes what is buffered with it; a message being handed over stays
\* for its sender.
CloseRx ==
  /\ rx /\ rx' = FALSE /\ queue' = IF cap = 0 THEN queue ELSE <<>>
  /\ UNCHANGED <<cap, tx, received, returned, result>>

Next ==
  \/ \E m \in Messages : Send(m) \/ GiveBack(m)
  \/ Call \/ Withdraw \/ Receive \/ ReceiveNothing \/ ReportReady
  \/ CloseTx \/ CloseRx

Spec == Init /\ [][Next]_vars
=============================================================================
