------------------------------- MODULE Stream -------------------------------
(***************************************************************************)
(* The stream flavour of std::sync::mpsc (src/sync/mpsc/stream.rs): one    *)
(* sender and one receiver over an unbounded queue, the atomics `cnt',     *)
(* `to_wake' and `port_dropped', and the receiver's private `steals'.      *)
(* Every atomic access is a step, those inside the queue (SpscQueue, from  *)
(* spsc_queue.rs) included.  The elements of the queue are the numbers of  *)
(* the messages in the order they were sent, and GoUp for an upgrade.      *)
(* A thread that panics stops; the panic's place is its location.          *)
(***************************************************************************)
EXTENDS SpscQueue, FiniteSets

CONSTANTS MaxSends,    \* bound on send calls
          MaxBlocks,   \* bound on blocking calls; each makes one SignalToken
          MAX_STEALS,  \* fold `steals' into `cnt' beyond this
          ISIZE_MAX,   \* isize arithmetic wraps beyond this
          Calls        \* the receiver's calls: recv, timeout, try, select

ASSUME StreamAssumption ==
  /\ MaxSends \in Nat /\ MaxBlocks \in Nat /\ MAX_STEALS \in Nat
  /\ ISIZE_MAX \in Nat /\ ISIZE_MAX > 2 * (MaxSends + MaxBlocks + MAX_STEALS)
  /\ Calls \subseteq {"recv", "timeout", "try", "select"}

VARIABLES
  cnt, toWake, portDropped, steals,
  woken,               \* tokens whose flag is set
  freed,               \* how often each token pointer was cast back
  spc, sop, stok,      \* the sender: location, operation, token it took
  rpc, rmode, rtok,    \* the receiver: location, call, its token
  final,               \* the try_recv under way is the one that ends recv
  hand,                \* what try_recv has popped and not returned yet
  local,               \* decrement's local `steals'
  rres,                \* result of the receiver's last call
  aborted,             \* blocking calls that were aborted so far: none, select
                       \* or timeout, the worst one
  sent, blocks,        \* send calls, blocking calls
  accepted, received, destroyed

sender == <<spc, sop, stok, sent, accepted>>
receiver ==
  <<rpc, rmode, rtok, final, hand, local, rres, aborted, blocks, received, steals>>
vars == <<spsc, cnt, toWake, portDropped, woken, freed, destroyed, sender, receiver>>

DISCONNECTED == -ISIZE_MAX - 1
Wrap(x) == ((x + ISIZE_MAX + 1) % (2 * (ISIZE_MAX + 1))) - ISIZE_MAX - 1
GoUp == 0
NoToken == 0
Tokens == 1..MaxBlocks

Init ==
  /\ InitSpsc /\ cnt = 0 /\ toWake = NoToken /\ portDropped = FALSE /\ steals = 0
  /\ woken = {} /\ freed = [t \in Tokens |-> 0]
  /\ spc = "idle" /\ sop = "send" /\ stok = NoToken
  /\ rpc = "idle" /\ rmode = "try" /\ rtok = NoToken /\ final = FALSE
  /\ hand = None /\ local = 0 /\ rres = "none" /\ aborted = "none" /\ sent = 0 /\ blocks = 0
  /\ accepted = 0 /\ received = <<>> /\ destroyed = {}

Free(t) == freed' = [freed EXCEPT ![t] = @ + 1]

-----------------------------------------------------------------------------
(* The sender: send, clone (an upgrade to the shared flavour) and drop      *)

SenderCall ==
  /\ spc = "idle"
  /\ \/ sent < MaxSends /\ sop' = "send" /\ spc' = "check" /\ sent' = sent + 1
     \/ sop' = "clone" /\ spc' = "check" /\ UNCHANGED sent
     \/ sop' = "drop" /\ spc' = "drop" /\ UNCHANGED sent
  /\ UNCHANGED <<spsc, cnt, toWake, portDropped, woken, freed, destroyed, stok,
                 accepted, receiver>>

\* Where a send or upgrade goes once its message is on the queue.
AfterSend == IF sop = "send" THEN "idle" ELSE "drop"

SendCheck ==
  /\ spc = "check"
  /\ spc' = IF portDropped THEN AfterSend ELSE "push"
  /\ UNCHANGED <<spsc, cnt, toWake, portDropped, woken, freed, destroyed, sop, stok,
                 sent, accepted, receiver>>

\* queue.push(t): alloc, then the store that makes the message visible.
SendPush ==
  /\ spc = "push"
  /\ PushAlloc(IF sop = "send" THEN accepted + 1 ELSE GoUp)
  /\ spc' = "link"
  /\ UNCHANGED <<cnt, toWake, portDropped, woken, freed, destroyed, sop, stok, sent,
                 accepted, receiver>>

SendLink ==
  /\ spc = "link"
  /\ PushLink
  /\ accepted' = accepted + (IF sop = "send" THEN 1 ELSE 0)
  /\ spc' = "add"
  /\ UNCHANGED <<cnt, toWake, portDropped, woken, freed, destroyed, sop, stok, sent,
                 receiver>>

SeesWaiter(n) == n = -1

SendAdd ==
  /\ spc = "add"
  /\ cnt' = Wrap(cnt + 1)
  /\ spc' = IF SeesWaiter(cnt) THEN "take"
            ELSE IF cnt = DISCONNECTED THEN "disc"
            ELSE IF cnt >= -2 THEN AfterSend ELSE "panic_count"
  /\ UNCHANGED <<spsc, toWake, portDropped, woken, freed, destroyed, sop, stok, sent,
                 accepted, receiver>>

SendDisconnected ==
  /\ spc = "disc"
  /\ cnt' = DISCONNECTED /\ spc' = "drain1"
  /\ UNCHANGED <<spsc, toWake, portDropped, woken, freed, destroyed, sop, stok, sent,
                 accepted, receiver>>

\* The port will never look at the queue again: the sender takes its message
\* back out and drops it.
SendDrain ==
  /\ spc \in {"drain1", "drain2"} /\ due = Null
  /\ IF HasData THEN Pop /\ destroyed' = destroyed \cup {FrontValue}
                ELSE UNCHANGED <<spsc, destroyed>>
  /\ spc' = IF spc = "drain1" THEN "drain2"
            ELSE IF HasData THEN "panic_drain" ELSE AfterSend
  /\ UNCHANGED <<cnt, toWake, portDropped, woken, freed, sop, stok, sent, accepted,
                 receiver>>

\* take_to_wake: load, then store 0.
TakeLoad ==
  /\ spc = "take"
  /\ stok' = toWake /\ spc' = IF toWake = NoToken THEN "panic_take" ELSE "clear"
  /\ UNCHANGED <<spsc, cnt, toWake, portDropped, woken, freed, destroyed, sop, sent,
                 accepted, receiver>>

TakeClear ==
  /\ spc = "clear"
  /\ toWake' = NoToken
  /\ spc' = IF sop = "clone" THEN "drop" ELSE "signal"
  /\ UNCHANGED <<spsc, cnt, portDropped, woken, freed, destroyed, sop, stok, sent,
                 accepted, receiver>>

\* A token that an upgrade took is handed to the shared packet, which signals
\* it after this packet was dropped.

Signal ==
  /\ spc \in {"signal", "inherited"}
  /\ woken' = woken \cup {stok} /\ Free(stok) /\ stok' = NoToken
  /\ spc' = IF sop = "send" THEN "idle" ELSE "gone"
  /\ UNCHANGED <<spsc, cnt, toWake, portDropped, destroyed, sop, sent, accepted,
                 receiver>>

DropChan ==
  /\ spc = "drop"
  /\ cnt' = DISCONNECTED
  /\ spc' = IF cnt = -1 THEN "take"
            ELSE IF cnt # DISCONNECTED /\ cnt < 0 THEN "panic_count"
            ELSE IF stok # NoToken THEN "inherited" ELSE "gone"
  /\ sop' = "drop"
  /\ UNCHANGED <<spsc, toWake, portDropped, woken, freed, destroyed, stok, sent,
                 accepted, receiver>>

SenderStep ==
  \/ SendCheck \/ SendPush \/ SendLink \/ SendAdd \/ SendDisconnected \/ SendDrain
  \/ TakeLoad \/ TakeClear \/ Signal \/ DropChan

-----------------------------------------------------------------------------
(* The receiver *)

\* A call ends.  An upgrade swaps the new port in and drops this one.
Return(res) ==
  /\ rres' = res /\ final' = FALSE
  /\ rpc' = IF res = "Upgraded" THEN "hangup" ELSE "idle"

RecvCall ==
  /\ rpc = "idle"
  /\ \E c \in Calls :
       /\ rmode' = c
       /\ c # "try" => blocks < MaxBlocks
       /\ rpc' = IF c = "select" THEN "can" ELSE "try"
  /\ rres' = "none"
  /\ UNCHANGED <<spsc, cnt, toWake, portDropped, woken, freed, destroyed, sender,
                 rtok, final, local, blocks, received, steals, aborted, hand>>

\* recv's "we already have our steal factored in" offset.
Offset == IF final THEN 1 ELSE 0

\* try_recv found this element; `s' is the steal count with it.
Found(x, s) ==
  /\ steals' = s - Offset
  /\ received' = IF x = GoUp THEN received ELSE Append(received, x)
  /\ Return(IF x = GoUp THEN "Upgraded" ELSE "Ok")

\* try_recv found nothing: recv goes on to block unless it already has.
\* Receiver::recv takes Empty from a blocking receive for unreachable.
Nothing ==
  IF rmode # "try" /\ ~final THEN rpc' = "decr" /\ UNCHANGED <<final, rres>>
  ELSE IF rmode = "recv"
  THEN rpc' = "panic_empty" /\ UNCHANGED <<final, rres>>
  ELSE Return("Empty")

FoldDue == steals > MAX_STEALS

TryPop ==
  /\ rpc = "try"
  /\ \/ /\ ~HasData /\ rpc' = "look"
        /\ UNCHANGED <<spsc, hand, steals, final, rres, received>>
     \/ /\ HasData /\ FoldDue /\ Pop /\ hand' = FrontValue /\ rpc' = "fold"
        /\ UNCHANGED <<steals, final, rres, received>>
     \/ /\ HasData /\ ~FoldDue /\ Pop /\ Found(FrontValue, steals + 1)
        /\ UNCHANGED hand
  /\ UNCHANGED <<cnt, toWake, portDropped, woken, freed, destroyed, sender, rmode,
                 rtok, local, blocks, aborted>>

\* min(n, steals) of the count is taken off the steals.
Foldable(n) == IF n < steals THEN n ELSE steals

\* Mutant: the whole count is added back.
AddBack_Mutant(n) == n
AddBack(n) == n - Foldable(n)

\* cnt.swap(0), then bump(n - m): `local' is what has to be added back.
FoldSwap ==
  /\ rpc = "fold"
  /\ IF cnt = DISCONNECTED
     THEN cnt' = 0 /\ rpc' = "foldstore" /\ UNCHANGED <<steals, local>>
     ELSE /\ cnt' = 0 /\ steals' = steals - Foldable(cnt)
          /\ local' = AddBack(cnt) /\ rpc' = "foldbump"
  /\ UNCHANGED <<spsc, toWake, portDropped, woken, freed, destroyed, sender, rmode,
                 rtok, final, rres, blocks, received, aborted, hand>>

FoldBump ==
  /\ rpc = "foldbump"
  /\ cnt' = Wrap(cnt + local) /\ local' = 0
  /\ rpc' = IF cnt = DISCONNECTED THEN "foldstore"
            ELSE IF steals >= 0 THEN "folded" ELSE "panic_steals"
  /\ UNCHANGED <<spsc, toWake, portDropped, woken, freed, destroyed, sender, rmode,
                 rtok, final, rres, blocks, received, steals, aborted, hand>>

FoldStore ==
  /\ rpc = "foldstore"
  /\ cnt' = DISCONNECTED
  /\ rpc' = IF steals >= 0 THEN "folded" ELSE "panic_steals"
  /\ UNCHANGED <<spsc, toWake, portDropped, woken, freed, destroyed, sender, rmode,
                 rtok, final, hand, local, rres, blocks, received, steals, aborted>>

Folded ==
  /\ rpc = "folded"
  /\ Found(hand, steals + 1) /\ hand' = None
  /\ UNCHANGED <<spsc, cnt, toWake, portDropped, woken, freed, destroyed, sender, rmode,
                 rtok, local, blocks, aborted>>

TryLook ==
  /\ rpc = "look"
  /\ IF cnt = DISCONNECTED THEN rpc' = "again" /\ UNCHANGED <<final, rres>>
                           ELSE Nothing
  /\ UNCHANGED <<spsc, cnt, toWake, portDropped, woken, freed, destroyed, sender,
                 rmode, rtok, local, blocks, received, steals, aborted, hand>>

\* Data may have been sent between the pop and the load; steals do not matter
\* any more, except that recv still takes its offset.
TryAgain ==
  /\ rpc = "again"
  /\ IF HasData
     THEN Pop /\ Found(FrontValue, steals)
     ELSE Return("Disconnected") /\ UNCHANGED <<spsc, received, steals>>
  /\ UNCHANGED <<cnt, toWake, portDropped, woken, freed, destroyed, sender, rmode,
                 rtok, local, blocks, aborted, hand>>

\* decrement: a new token goes into to_wake and the steals into a local.
Decrement ==
  /\ rpc = "decr"
  /\ IF toWake = NoToken
     THEN /\ blocks' = blocks + 1 /\ rtok' = blocks + 1 /\ toWake' = blocks + 1
          /\ local' = steals /\ steals' = 0 /\ rpc' = "sub"
     ELSE rpc' = "panic_to_wake" /\ UNCHANGED <<blocks, rtok, toWake, local, steals>>
  /\ UNCHANGED <<spsc, cnt, portDropped, woken, freed, destroyed, sender, rmode,
                 final, rres, received, aborted, hand>>

DecrementSub ==
  /\ rpc = "sub"
  /\ cnt' = Wrap(cnt - (1 + local))
  /\ rpc' = IF cnt = DISCONNECTED THEN "subdisc"
            ELSE IF cnt < 0 THEN "panic_count"
            ELSE IF cnt - local <= 0 THEN "wait" ELSE "unwake"
  /\ UNCHANGED <<spsc, toWake, portDropped, woken, freed, destroyed, sender, rmode,
                 rtok, final, hand, local, rres, blocks, received, steals, aborted>>

DecrementDisc ==
  /\ rpc = "subdisc"
  /\ cnt' = DISCONNECTED /\ rpc' = "unwake"
  /\ UNCHANGED <<spsc, toWake, portDropped, woken, freed, destroyed, sender, rmode,
                 rtok, final, hand, local, rres, blocks, received, steals, aborted>>

\* Mutant: the token that is not needed stays in to_wake.
Unannounced_Mutant == toWake
Unannounced == NoToken

\* Err(token): recv drops it and tries again, start_selection looks at the queue.
DecrementFailed ==
  /\ rpc = "unwake"
  /\ toWake' = Unannounced /\ Free(rtok) /\ rtok' = NoToken /\ local' = 0
  /\ IF rmode = "select" THEN rpc' = "cancel" /\ UNCHANGED final
                         ELSE rpc' = "try" /\ final' = TRUE
  /\ UNCHANGED <<spsc, cnt, portDropped, woken, destroyed, sender, rmode, rres, blocks,
                 received, steals, aborted, hand>>

WaitDone ==
  /\ rpc = "wait" /\ rtok \in woken
  /\ IF rmode = "select" THEN rpc' = "abort" /\ UNCHANGED <<rtok, final>>
                         ELSE rpc' = "try" /\ rtok' = NoToken /\ final' = TRUE
  /\ UNCHANGED <<spsc, cnt, toWake, portDropped, woken, freed, destroyed, sender,
                 rmode, local, rres, blocks, received, steals, aborted, hand>>

\* The deadline passes, or another port of the Select woke the thread.
WaitAborted ==
  /\ rpc = "wait" /\ rtok \notin woken /\ rmode \in {"timeout", "select"}
  /\ rpc' = "abort" /\ aborted' = IF aborted = "timeout" THEN aborted ELSE rmode
  /\ UNCHANGED <<spsc, cnt, toWake, portDropped, woken, freed, destroyed, sender,
                 rmode, rtok, final, hand, local, rres, blocks, received, steals>>

\* select: can_recv peeks; an upgrade is received at once, with recv(None).
CanRecv ==
  /\ rpc = "can"
  /\ \/ ~HasData /\ rpc' = "decr" /\ UNCHANGED <<final, rres>>
     \/ HasData /\ FrontValue # GoUp /\ Return("ready")
     \/ HasData /\ FrontValue = GoUp /\ rpc' = "try" /\ UNCHANGED <<final, rres>>
  /\ UNCHANGED <<spsc, received, steals, cnt, toWake, portDropped, woken, freed,
                 destroyed, sender, rmode,
                 rtok, local, blocks, aborted, hand>>

\* abort_selection and a start_selection that does not block end with a look at
\* the queue: an upgrade is taken off it.
TakeGoUp ==
  IF HasData /\ FrontValue = GoUp
  THEN Pop /\ rres' = "Upgraded"
  ELSE UNCHANGED spsc /\ rres' = "ready"

StartCancel ==
  /\ rpc = "cancel"
  /\ TakeGoUp /\ rpc' = "cancelbump"
  /\ UNCHANGED <<cnt, toWake, portDropped, woken, freed, destroyed, sender, rmode,
                 rtok, final, local, blocks, received, steals, aborted, hand>>

\* bump(1); a disconnected count is restored.  bump's addition and its store are one
\* step here: once the count is DISCONNECTED the sender does not look at it again.
StartCancelBump ==
  /\ rpc = "cancelbump"
  /\ cnt' = IF cnt = DISCONNECTED THEN cnt ELSE Wrap(cnt + 1)
  /\ rpc' = IF cnt # DISCONNECTED /\ cnt < 0 THEN "panic_count"
            ELSE IF rres = "Upgraded" THEN "hangup" ELSE "idle"
  /\ UNCHANGED <<spsc, toWake, portDropped, woken, freed, destroyed, sender, rmode,
                 rtok, final, hand, local, rres, blocks, received, steals, aborted>>

\* abort_selection: bump by two, as if there had been one steal.  Called with
\* was_upgrade, behind an upgrade of a oneshot, it returns before that and changes
\* nothing; no receive or selection has come to the packet then, so the steals and
\* to_wake that it asserts to be zero are those of Init.
AbortBump ==
  /\ rpc = "abort"
  /\ cnt' = Wrap(cnt + 2)
  /\ rpc' = IF cnt = DISCONNECTED THEN "abortdisc"
            ELSE IF cnt < -2 THEN "panic_count"
            ELSE IF cnt < 0 THEN "aborttake" ELSE "abortspin"
  /\ UNCHANGED <<spsc, toWake, portDropped, woken, freed, destroyed, sender, rmode,
                 rtok, final, hand, local, rres, blocks, received, steals, aborted>>

\* "If we were previously disconnected, then we know for sure that there is no
\* thread in to_wake."
AbortDisc ==
  /\ rpc = "abortdisc"
  /\ cnt' = DISCONNECTED /\ rtok' = NoToken
  /\ rpc' = IF toWake = NoToken THEN "abortpeek" ELSE "panic_aborted"
  /\ UNCHANGED <<spsc, toWake, portDropped, woken, freed, destroyed, sender, rmode,
                 final, local, rres, blocks, received, steals, aborted, hand>>

\* drop(take_to_wake()).  Mutant: the token is leaked.
DropTaken_Mutant == UNCHANGED freed
DropTaken == IF toWake = NoToken THEN UNCHANGED freed ELSE Free(toWake)

\* The count says nothing was sent: the token is ours to drop.
AbortTake ==
  /\ rpc = "aborttake"
  /\ toWake' = NoToken
  /\ DropTaken
  /\ rtok' = NoToken /\ steals' = 1
  /\ IF toWake = NoToken \/ steals # 0
     THEN rpc' = "panic_steals" /\ UNCHANGED <<final, rres>>
     ELSE IF rmode = "timeout" THEN rpc' = "try" /\ final' = TRUE /\ UNCHANGED rres
     ELSE Return("unready")
  /\ UNCHANGED <<spsc, cnt, portDropped, woken, destroyed, sender, rmode, local,
                 blocks, received, aborted, hand>>

\* A sender is about to wake us: wait until it has taken the token.
AbortSpin ==
  /\ rpc = "abortspin" /\ toWake = NoToken
  /\ rtok' = NoToken /\ steals' = 1
  /\ rpc' = IF steals = 0 THEN "abortpeek" ELSE "panic_steals"
  /\ UNCHANGED <<spsc, cnt, toWake, portDropped, woken, freed, destroyed, sender,
                 rmode, final, local, rres, blocks, received, aborted, hand>>

AbortPeek ==
  /\ rpc = "abortpeek"
  /\ TakeGoUp
  /\ IF rres' = "Upgraded" THEN rpc' = "hangup" /\ UNCHANGED final
     ELSE IF rmode = "timeout" THEN rpc' = "try" /\ final' = TRUE
     ELSE rpc' = "idle" /\ UNCHANGED final
  /\ UNCHANGED <<cnt, toWake, portDropped, woken, freed, destroyed, sender, rmode,
                 rtok, local, blocks, received, steals, aborted, hand>>

DropPort ==
  /\ rpc \in {"idle", "hangup"}
  /\ portDropped' = TRUE /\ rpc' = "dropcas" /\ local' = steals
  /\ UNCHANGED <<spsc, cnt, toWake, woken, freed, destroyed, sender, rmode, rtok, final,
                 rres, blocks, received, steals, aborted, hand>>

\* Mutant: a failed exchange is taken for success.
MustDrain_Mutant == FALSE
MustDrain == cnt # DISCONNECTED /\ cnt # local

DropCas ==
  /\ rpc = "dropcas"
  /\ cnt' = IF cnt = local THEN DISCONNECTED ELSE cnt
  /\ rpc' = IF MustDrain THEN "dropdrain" ELSE "gone"
  /\ UNCHANGED <<spsc, toWake, portDropped, woken, freed, destroyed, sender, rmode,
                 rtok, final, hand, local, rres, blocks, received, steals, aborted>>

\* Mutant: what is drained is not counted.
CountDrained_Mutant == local
CountDrained == local + 1

DropDrain ==
  /\ rpc = "dropdrain"
  /\ IF ~HasData THEN rpc' = "dropcas" /\ UNCHANGED <<spsc, destroyed, local>>
     ELSE /\ Pop /\ destroyed' = destroyed \cup {FrontValue}
          /\ local' = CountDrained /\ UNCHANGED rpc
  /\ UNCHANGED <<cnt, toWake, portDropped, woken, freed, sender, rmode, rtok, final,
                 rres, blocks, received, steals, aborted, hand>>

\* The second half of a pop, by whoever has popped.
EndPop ==
  /\ Recycle
  /\ UNCHANGED <<cnt, toWake, portDropped, woken, freed, destroyed, sender, receiver>>

ReceiverStep ==
  \/ TryPop \/ FoldSwap \/ FoldBump \/ FoldStore \/ Folded \/ TryLook \/ TryAgain
  \/ Decrement \/ DecrementSub \/ DecrementDisc \/ DecrementFailed \/ WaitDone
  \/ CanRecv \/ StartCancel \/ StartCancelBump \/ AbortBump \/ AbortDisc \/ AbortTake
  \/ AbortSpin \/ AbortPeek \/ DropCas \/ DropDrain

Panics == {"panic_count", "panic_drain", "panic_take", "panic_empty", "panic_steals",
           "panic_to_wake", "panic_aborted"}

Terminated ==
  /\ spc \in {"gone"} \cup Panics /\ rpc \in {"gone"} \cup Panics /\ due = Null
  /\ UNCHANGED vars

Next ==
  \/ SenderCall \/ SenderStep
  \/ EndPop
  \/ due = Null /\ (RecvCall \/ ReceiverStep \/ WaitAborted \/ DropPort)
  \/ Terminated

Spec == Init /\ [][Next]_vars

\* A call under way goes on, and a port that saw an upgrade is dropped.  Nobody
\* has to call again, deadlines need not pass, and a token that was inherited by
\* the shared packet is signalled from there.
FairSpec ==
  /\ Spec
  /\ WF_vars(spc # "inherited" /\ SenderStep)
  /\ WF_vars(EndPop)
  /\ WF_vars(due = Null /\ (ReceiverStep \/ (rpc = "hangup" /\ DropPort)))

-----------------------------------------------------------------------------
\* Every variable keeps its type.
TypeOK ==
  /\ nodes \in Seq([value : None..MaxSends, next : Nat])
  /\ {head, first, tailCopy, tail, tailPrev} \subseteq 1..Len(nodes)
  /\ {fresh, due} \subseteq 0..Len(nodes) /\ hand \in None..MaxSends
  /\ cnt \in DISCONNECTED..ISIZE_MAX
  /\ toWake \in 0..MaxBlocks /\ portDropped \in BOOLEAN /\ steals \in Int
  /\ woken \subseteq Tokens /\ freed \in [Tokens -> Nat]
  /\ spc \in {"idle", "check", "push", "link", "add", "disc", "drain1", "drain2", "take",
              "clear", "signal", "inherited", "drop", "gone"} \cup Panics
  /\ sop \in {"send", "clone", "drop"} /\ stok \in 0..MaxBlocks
  /\ rpc \in {"idle", "can", "try", "look", "again", "fold", "foldbump", "foldstore",
              "folded", "decr", "sub", "subdisc", "unwake", "wait", "cancel",
              "cancelbump", "abort", "abortdisc", "aborttake", "abortspin",
              "abortpeek", "hangup", "dropcas", "dropdrain", "gone"} \cup Panics
  /\ rmode \in {"recv", "timeout", "try", "select"} /\ rtok \in 0..MaxBlocks
  /\ final \in BOOLEAN /\ local \in Int
  /\ rres \in {"none", "Ok", "Empty", "Disconnected", "Upgraded", "ready", "unready"}
  /\ sent \in 0..MaxSends /\ blocks \in 0..MaxBlocks /\ accepted \in 0..MaxSends
  /\ received \in Seq(1..MaxSends) /\ destroyed \subseteq 0..MaxSends

\* No assertion, unwrap or unreachable!() of the flavour fails before a blocking
\* call was aborted, among them "if a sender sees a -1 count, then there's
\* guaranteed to be a waiter waiting"; no sender ever panics, and the packet is
\* dropped disconnected and with nobody in to_wake.
NoPanic ==
  /\ spc \notin Panics
  /\ spc = "gone" /\ rpc = "gone" => cnt = DISCONNECTED /\ toWake = NoToken
  /\ aborted = "none" => rpc \notin Panics
  /\ aborted = "select" => rpc \notin Panics \ {"panic_aborted"}

\* The count less the steals is the number of messages, up to one push that has
\* not been counted yet, whatever selections were aborted before; and "we don't
\* allow steals to grow without bound": folding always makes room.  Includes the
\* types: cnt stays in its range.
CountExact ==
  /\ TypeOK
  /\ rpc = "idle" /\ cnt # DISCONNECTED =>
       /\ steals <= MAX_STEALS + 1
       /\ aborted # "timeout" =>
            cnt - steals = Len(queue) - (IF spc = "add" THEN 1 ELSE 0)

\* Receiver::recv treats Empty from a blocking receive as unreachable.
RecvNeverEmpty == rpc # "panic_empty"

\* drop_port: "we can't let any in-flight sends go un-dropped": nothing stays on
\* the queue of a port that is gone while its sender lives on; and the queue has
\* one consumer: the sender drains it only when the port is gone.
HangupClean ==
  /\ rpc = "gone" /\ spc = "idle" => queue = <<>>
  /\ spc \in {"drain1", "drain2"} => rpc \in {"gone"} \cup Panics

\* Messages are received in the order they were sent, each once, one that was
\* not received is on the queue or was destroyed, and a receiver told of the end
\* of the channel or handed the upgraded port has received everything.
MessageConservation ==
  /\ received = [i \in 1..Len(received) |-> i]
  /\ rres \in {"Disconnected", "Upgraded"} => Len(received) = accepted
  /\ LET onQueue == {queue[i] : i \in 1..Len(queue)} \ {GoUp}
         got == {received[i] : i \in 1..Len(received)}
         lost == destroyed \ {GoUp}
         held == {hand} \ {None, GoUp}
     IN  /\ 1..accepted = onQueue \cup got \cup lost \cup held
         /\ Cardinality(onQueue) + Len(received) + Cardinality(lost)
              + Cardinality(held) = accepted

\* Nothing that was sent is lost, whichever end hangs up first.
Delivery == MessageConservation /\ HangupClean

\* Every token that was cast to a pointer is in to_wake, with the sender, or was
\* cast back exactly once.  A receiver that sleeps can be found by it; outside of
\* a blocking call there is none to be "plastered over".
TokenOwnership ==
  /\ \A t \in 1..blocks :
       freed[t] + (IF toWake = t /\ spc # "clear" THEN 1 ELSE 0)
                + (IF stok = t THEN 1 ELSE 0) = 1
  /\ rpc = "wait" /\ rtok \notin woken => toWake = rtok \/ stok = rtok
  /\ rpc \in {"idle", "can", "try", "decr", "gone"} => toWake = NoToken

\* Data and a hangup wake a blocked receiver.
BlockedWakes ==
  (rpc = "wait" /\ \/ queue # <<>> /\ queue[1] # GoUp
                   \/ spc = "drop" /\ stok = NoToken) ~> rpc # "wait"

\* drop_port: "eventually we're guaranteed to break out of this loop", as long as
\* no receive has timed out.
HangupEnds == (rpc = "dropcas" /\ aborted # "timeout") ~> rpc = "gone"

\* Every loop and every wait of the flavour comes to its end.
Progress == BlockedWakes /\ HangupEnds

=============================================================================
