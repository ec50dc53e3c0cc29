------------------------------- MODULE Shared -------------------------------
(***************************************************************************)
(* The shared flavour of std::sync::mpsc (src/sync/mpsc/shared.rs) over    *)
(* its queue (mpsc_queue.rs): several senders, one receiver, the atomics   *)
(* `cnt', `to_wake', `channels', `port_dropped' and `sender_drain', and    *)
(* the receiver's `steals'.  A packet is born in Sender::clone, from a     *)
(* oneshot or stream packet on which the receiver may be blocked: the      *)
(* creator hands the token of that wait over with inherit_blocker.         *)
(*                                                                         *)
(* A push swaps `head' and then links the node in, so a popper can find    *)
(* the queue Inconsistent.  The queue is the sequence of messages in the   *)
(* order of the swaps, with the set of those not linked yet.  A thread     *)
(* that panics stops where it is.                                          *)
(***************************************************************************)
EXTENDS Integers, Sequences, FiniteSets

CONSTANTS Senders,     \* handles; one that was dropped can be cloned anew
          Creator,     \* the sender whose clone made the packet
          Child,       \* the handle that clone returns
          MaxSends,    \* bound on send calls
          MaxClones,   \* bound on clone calls
          MaxBlocks,   \* bound on blocking calls; each makes one SignalToken, the
                       \* one under way on the old packet perhaps a second
          MAX_STEALS, FUDGE, ISIZE_MAX,
          Calls        \* the receiver's calls: recv, timeout, try, select

ASSUME SharedAssumption ==
  /\ IsFiniteSet(Senders) /\ {Creator, Child} \subseteq Senders /\ Creator # Child
  /\ MaxSends \in Nat /\ MaxClones \in Nat /\ MaxBlocks \in Nat \ {0, 1}
  /\ MAX_STEALS \in Nat /\ FUDGE \in Nat /\ FUDGE > Cardinality(Senders)
  /\ ISIZE_MAX \in Nat /\ ISIZE_MAX > 2 * (MaxSends + MaxBlocks + MAX_STEALS + FUDGE)
  /\ Calls \subseteq {"recv", "timeout", "try", "select"}

VARIABLES
  queue, unlinked,     \* messages on the queue; those whose push is not done
  cnt, steals, toWake, channels, portDropped, drain,
  locked,              \* select_lock, held by the creator
  woken, freed,        \* tokens signalled; how often each was cast back
  spc, stok, smsg,     \* the senders: location, token taken, message pushed
  rpc, rmode, rtok, final, local, rres,   \* the receiver, as in Stream
  aborted,             \* the worst abort of a blocking call so far: none, select,
                       \* timeout, or a timeout on the old packet (upgrade)
  sent, clones, blocks,          \* calls made
  accepted, received, destroyed  \* history of the messages

packet == <<queue, unlinked, cnt, toWake, channels, portDropped, drain, locked>>
tokens == <<woken, freed>>
sender == <<spc, stok, smsg, sent, clones, accepted>>
control == <<rpc, rmode, rtok, final, local, rres, aborted, blocks>>
receiver == <<control, steals, received>>
vars == <<packet, tokens, sender, receiver, destroyed>>

DISCONNECTED == -ISIZE_MAX - 1
Wrap(x) == ((x + ISIZE_MAX + 1) % (2 * (ISIZE_MAX + 1))) - ISIZE_MAX - 1
NoToken == 0
NoMsg == 0
Tokens == 1..MaxBlocks

\* The receiver is blocked on the old packet and its token in the creator's
\* hands, or it is not blocked and free to move to this packet.
Init ==
  /\ queue = <<>> /\ unlinked = {} /\ cnt = 0 /\ steals = 0 /\ toWake = NoToken
  /\ channels = 2 /\ portDropped = FALSE /\ drain = 0 /\ locked = TRUE
  /\ woken = {} /\ freed = [t \in Tokens |-> 0]
  /\ smsg = [s \in Senders |-> NoMsg]
  /\ final = FALSE /\ local = 0 /\ rres = "none" /\ aborted = "none"
  /\ sent = 0 /\ clones = 0 /\ accepted = 0 /\ received = <<>> /\ destroyed = {}
  /\ \E c \in Calls :
       /\ rmode = c
       /\ rpc = IF c = "try" THEN "idle" ELSE "old"
       /\ blocks = IF c = "try" THEN 0 ELSE 1
       /\ rtok = blocks
       /\ spc = [s \in Senders |-> IF s = Child THEN "unborn"
                                   ELSE IF s # Creator THEN "gone"
                                   ELSE IF c = "try" THEN "unlock" ELSE "inherit"]
       /\ stok = [s \in Senders |-> IF s = Creator THEN blocks ELSE NoToken]

Free(t) == freed' = [freed EXCEPT ![t] = @ + 1]
At(s, l) == spc' = [spc EXCEPT ![s] = l]

-----------------------------------------------------------------------------
(* Senders *)

\* inherit_blocker: the token, the count and the steals, then the lock is freed.
Inherit(s) ==
  /\ spc[s] = "inherit"
  /\ IF cnt = 0 /\ toWake = NoToken
     THEN toWake' = stok[s] /\ stok' = [stok EXCEPT ![s] = NoToken] /\ At(s, "inheritcnt")
     ELSE At(s, "panic_inherit") /\ UNCHANGED <<toWake, stok>>
  /\ UNCHANGED <<queue, unlinked, cnt, channels, portDropped, drain, locked, tokens,
                 smsg, sent, clones, accepted, receiver, destroyed>>

InheritCnt(s) ==
  /\ spc[s] = "inheritcnt"
  /\ cnt' = -1 /\ At(s, "inheritsteals")
  /\ UNCHANGED <<queue, unlinked, toWake, channels, portDropped, drain, locked, tokens,
                 stok, smsg, sent, clones, accepted, receiver, destroyed>>

\* Mutant: the steal that the woken receiver will count is not offset.
InheritedSteals_Mutant == 0
InheritedSteals == -1

InheritSteals(s) ==
  /\ spc[s] = "inheritsteals"
  /\ steals' = InheritedSteals /\ At(s, "unlock")
  /\ UNCHANGED <<packet, tokens, stok, smsg, sent, clones, accepted, control, received,
                 destroyed>>

\* Sender::clone returns: both handles are in use from here on.
InheritUnlock(s) ==
  /\ spc[s] = "unlock"
  /\ locked' = FALSE /\ spc' = [spc EXCEPT ![s] = "idle", ![Child] = "idle"]
  /\ UNCHANGED <<queue, unlinked, cnt, toWake, channels, portDropped, drain, tokens,
                 stok, smsg, sent, clones, accepted, receiver, destroyed>>

\* send, clone and drop of one handle.
SendCall(s) ==
  /\ spc[s] = "idle" /\ sent < MaxSends
  /\ sent' = sent + 1 /\ At(s, "check")
  /\ UNCHANGED <<packet, tokens, stok, smsg, clones, accepted, receiver, destroyed>>

CloneChan(s) ==
  /\ spc[s] = "idle" /\ clones < MaxClones
  /\ clones' = clones + 1 /\ channels' = channels + 1
  /\ \E t \in Senders : spc[t] = "gone" /\ At(t, "idle")
  /\ UNCHANGED <<queue, unlinked, cnt, toWake, portDropped, drain, locked, tokens, stok,
                 smsg, sent, accepted, receiver, destroyed>>

DropChan(s) ==
  /\ spc[s] = "idle"
  /\ channels' = channels - 1
  /\ At(s, IF channels = 1 THEN "dropswap" ELSE "gone")
  /\ UNCHANGED <<queue, unlinked, cnt, toWake, portDropped, drain, locked, tokens, stok,
                 smsg, sent, clones, accepted, receiver, destroyed>>

DropSwap(s) ==
  /\ spc[s] = "dropswap"
  /\ cnt' = DISCONNECTED
  /\ At(s, IF cnt = -1 THEN "take"
           ELSE IF cnt = DISCONNECTED \/ cnt >= 0 THEN "gone" ELSE "panic_count")
  /\ UNCHANGED <<queue, unlinked, toWake, channels, portDropped, drain, locked, tokens,
                 stok, smsg, sent, clones, accepted, receiver, destroyed>>

SendCheck(s) ==
  /\ \/ spc[s] = "check" /\ At(s, IF portDropped THEN "idle" ELSE "checkcnt")
     \/ spc[s] = "checkcnt" /\ At(s, IF cnt < DISCONNECTED + FUDGE THEN "idle" ELSE "push")
  /\ UNCHANGED <<packet, tokens, stok, smsg, sent, clones, accepted, receiver, destroyed>>

\* Queue::push: swap the head, then link.
PushSwap(s) ==
  /\ spc[s] = "push"
  /\ accepted' = accepted + 1 /\ smsg' = [smsg EXCEPT ![s] = accepted + 1]
  /\ queue' = Append(queue, accepted + 1) /\ unlinked' = unlinked \cup {accepted + 1}
  /\ At(s, "link")
  /\ UNCHANGED <<cnt, toWake, channels, portDropped, drain, locked, tokens, stok, sent,
                 clones, receiver, destroyed>>

PushLink(s) ==
  /\ spc[s] = "link"
  /\ unlinked' = unlinked \ {smsg[s]} /\ smsg' = [smsg EXCEPT ![s] = NoMsg]
  /\ At(s, "add")
  /\ UNCHANGED <<queue, cnt, toWake, channels, portDropped, drain, locked, tokens, stok,
                 sent, clones, accepted, receiver, destroyed>>

Disconnected(n) == n < DISCONNECTED + FUDGE
\* Mutant: a count of -1 is not noticed.
SeesWaiter_Mutant(n) == FALSE
SeesWaiter(n) == n = -1

SendAdd(s) ==
  /\ spc[s] = "add"
  /\ cnt' = Wrap(cnt + 1)
  /\ At(s, IF SeesWaiter(cnt) THEN "take"
           ELSE IF Disconnected(cnt) THEN "disc" ELSE "idle")
  /\ UNCHANGED <<queue, unlinked, toWake, channels, portDropped, drain, locked, tokens,
                 stok, smsg, sent, clones, accepted, receiver, destroyed>>

TakeLoad(s) ==
  /\ spc[s] = "take"
  /\ stok' = [stok EXCEPT ![s] = toWake]
  /\ At(s, IF toWake = NoToken THEN "panic_take" ELSE "clear")
  /\ UNCHANGED <<packet, tokens, smsg, sent, clones, accepted, receiver, destroyed>>

TakeClear(s) ==
  /\ spc[s] = "clear"
  /\ toWake' = NoToken /\ At(s, "signal")
  /\ UNCHANGED <<queue, unlinked, cnt, channels, portDropped, drain, locked, tokens, stok,
                 smsg, sent, clones, accepted, receiver, destroyed>>

\* The sender is a dropped handle when the last handle's drop woke the receiver.
Signal(s) ==
  /\ spc[s] = "signal"
  /\ woken' = woken \cup {stok[s]} /\ Free(stok[s])
  /\ stok' = [stok EXCEPT ![s] = NoToken]
  /\ At(s, IF channels = 0 THEN "gone" ELSE "idle")
  /\ UNCHANGED <<packet, smsg, sent, clones, accepted, receiver, destroyed>>

SendDisconnected(s) ==
  /\ spc[s] = "disc"
  /\ cnt' = DISCONNECTED /\ At(s, "enter")
  /\ UNCHANGED <<queue, unlinked, toWake, channels, portDropped, drain, locked, tokens,
                 stok, smsg, sent, clones, accepted, receiver, destroyed>>

\* sender_drain: the first one in drains until it is the only one.
DrainEnter(s) ==
  /\ spc[s] = "enter"
  /\ drain' = drain + 1 /\ At(s, IF drain = 0 THEN "drain" ELSE "idle")
  /\ UNCHANGED <<queue, unlinked, cnt, toWake, channels, portDropped, locked, tokens,
                 stok, smsg, sent, clones, accepted, receiver, destroyed>>

\* Queue::pop looks at the next pointer ...
Poppable == queue # <<>> /\ Head(queue) \notin unlinked
Destroy == destroyed' = destroyed \cup {Head(queue)}

DrainPop(s) ==
  /\ spc[s] = "drain"
  /\ IF Poppable THEN queue' = Tail(queue) /\ Destroy /\ UNCHANGED spc
                 ELSE At(s, "drainhead") /\ UNCHANGED <<queue, destroyed>>
  /\ UNCHANGED <<unlinked, cnt, toWake, channels, portDropped, drain, locked, tokens,
                 stok, smsg, sent, clones, accepted, receiver>>

\* ... and then at `head', to tell Empty from Inconsistent.
DrainHead(s) ==
  /\ spc[s] = "drainhead"
  /\ At(s, IF queue = <<>> THEN "leave" ELSE "drain")
  /\ UNCHANGED <<packet, tokens, stok, smsg, sent, clones, accepted, receiver, destroyed>>

\* Mutant: those who came meanwhile are not waited for.
LastDrainer_Mutant == TRUE
LastDrainer == drain = 1

DrainLeave(s) ==
  /\ spc[s] = "leave"
  /\ drain' = drain - 1 /\ At(s, IF LastDrainer THEN "idle" ELSE "drain")
  /\ UNCHANGED <<queue, unlinked, cnt, toWake, channels, portDropped, locked, tokens,
                 stok, smsg, sent, clones, accepted, receiver, destroyed>>

SenderStep(s) ==
  \/ Inherit(s) \/ InheritCnt(s) \/ InheritSteals(s) \/ InheritUnlock(s) \/ DropSwap(s)
  \/ SendCheck(s) \/ PushSwap(s) \/ PushLink(s) \/ SendAdd(s) \/ TakeLoad(s)
  \/ TakeClear(s) \/ Signal(s) \/ SendDisconnected(s) \/ DrainEnter(s) \/ DrainPop(s)
  \/ DrainHead(s) \/ DrainLeave(s)

-----------------------------------------------------------------------------
(* The receiver *)

Return(res) == rres' = res /\ final' = FALSE /\ rpc' = "idle"

\* The wait on the old packet ends: its recv returns Upgraded and the call goes
\* on with this packet; a Select that was woken aborts the selection here.
OldWoken ==
  /\ rpc = "old" /\ rtok \in woken
  /\ IF rmode = "select" THEN rpc' = "abort" /\ UNCHANGED rtok
                         ELSE rpc' = "try" /\ rtok' = NoToken
  /\ UNCHANGED <<packet, tokens, sender, rmode, final, local, rres, aborted, blocks,
                 steals, received, destroyed>>

\* The deadline of the old wait passes: its abort_selection finds the upgrade and
\* recv_max_until starts over on this packet.  Or another port woke the Select.
OldAborted ==
  /\ rpc = "old" /\ rtok \notin woken /\ rmode \in {"timeout", "select"}
  /\ aborted' = IF rmode = "timeout" THEN "upgrade" ELSE rmode
  /\ IF rmode = "select" THEN rpc' = "abort" /\ UNCHANGED rtok
                         ELSE rpc' = "try" /\ rtok' = NoToken
  /\ UNCHANGED <<packet, tokens, sender, rmode, final, local, rres, blocks, steals,
                 received, destroyed>>

RecvCall ==
  /\ rpc = "idle"
  /\ \E c \in Calls :
       /\ rmode' = c
       /\ c # "try" => blocks < MaxBlocks
       /\ rpc' = IF c = "select" THEN "can" ELSE "try"
  /\ rres' = "none"
  /\ UNCHANGED <<packet, tokens, sender, rtok, final, local, aborted, blocks, steals,
                 received, destroyed>>

\* try_recv pops; the pop that found the queue Inconsistent is repeated.  The
\* message popped before a fold is shown on the queue until the call returns: no
\* one else pops, and the fold does not look at the queue.
Found(s) ==
  /\ queue' = Tail(queue) /\ received' = Append(received, Head(queue))
  /\ steals' = s - (IF final THEN 1 ELSE 0) /\ Return("Ok")

FoldDue == steals > MAX_STEALS

TryPop ==
  /\ rpc \in {"try", "spin"}
  /\ \/ /\ ~Poppable /\ rpc' = IF rpc = "try" THEN "tryhead" ELSE "spinhead"
        /\ UNCHANGED <<queue, steals, final, rres, received>>
     \/ /\ Poppable /\ FoldDue /\ rpc' = "fold"
        /\ UNCHANGED <<queue, steals, final, rres, received>>
     \/ Poppable /\ ~FoldDue /\ Found(steals + 1)
  /\ UNCHANGED <<unlinked, cnt, toWake, channels, portDropped, drain, locked, tokens,
                 sender, rmode, rtok, local, aborted, blocks, destroyed>>

\* Mutant: an Inconsistent queue is taken for an empty one.
IsEmpty_Mutant == TRUE
IsEmpty == queue = <<>>

TryHead ==
  /\ rpc \in {"tryhead", "spinhead"}
  /\ rpc' = IF ~IsEmpty THEN "spin"
            ELSE IF rpc = "tryhead" THEN "look" ELSE "panic_inconsistent"
  /\ UNCHANGED <<packet, tokens, sender, rmode, rtok, final, local, rres, aborted, blocks,
                 steals, received, destroyed>>

\* cnt.swap(0); as much as possible comes off the steals, the rest goes back.
Foldable(n) == IF n < steals THEN n ELSE steals
AddBack(n) == n - Foldable(n)

FoldSwap ==
  /\ rpc = "fold"
  /\ cnt' = 0
  /\ IF cnt = DISCONNECTED
     THEN rpc' = "foldstore" /\ UNCHANGED <<steals, local>>
     ELSE steals' = steals - Foldable(cnt) /\ local' = AddBack(cnt) /\ rpc' = "foldbump"
  /\ UNCHANGED <<queue, unlinked, toWake, channels, portDropped, drain, locked, tokens,
                 sender, rmode, rtok, final, rres, aborted, blocks, received, destroyed>>

Fold ==
  /\ rpc \in {"foldbump", "foldstore"}
  /\ cnt' = IF rpc = "foldstore" THEN DISCONNECTED ELSE Wrap(cnt + local)
  /\ local' = 0
  /\ rpc' = IF rpc = "foldbump" /\ cnt = DISCONNECTED THEN "foldstore"
            ELSE IF steals >= 0 THEN "folded" ELSE "panic_steals"
  /\ UNCHANGED <<queue, unlinked, toWake, channels, portDropped, drain, locked, tokens,
                 sender, rmode, rtok, final, rres, aborted, blocks, steals, received,
                 destroyed>>

Folded ==
  /\ rpc = "folded" /\ Found(steals + 1)
  /\ UNCHANGED <<unlinked, cnt, toWake, channels, portDropped, drain, locked, tokens,
                 sender, rmode, rtok, local, aborted, blocks, destroyed>>

SawHangup == rpc' = "again" /\ UNCHANGED <<final, rres>>

\* Nothing there: recv blocks unless it already has; Receiver::recv takes Empty
\* for unreachable then.
TryLook ==
  /\ rpc = "look"
  /\ IF cnt = DISCONNECTED THEN SawHangup
     ELSE IF rmode # "try" /\ ~final THEN rpc' = "decr" /\ UNCHANGED <<final, rres>>
     ELSE IF rmode = "recv" THEN rpc' = "panic_empty" /\ UNCHANGED <<final, rres>>
     ELSE Return("Empty")
  /\ UNCHANGED <<packet, tokens, sender, rmode, rtok, local, aborted, blocks, steals,
                 received, destroyed>>

TryAgain ==
  /\ rpc = "again"
  /\ IF Poppable THEN Found(steals)
     ELSE rpc' = "againhead" /\ UNCHANGED <<queue, steals, final, rres, received>>
  /\ UNCHANGED <<unlinked, cnt, toWake, channels, portDropped, drain, locked, tokens,
                 sender, rmode, rtok, local, aborted, blocks, destroyed>>

\* "With no senders, an inconsistency is impossible."
TryAgainHead ==
  /\ rpc = "againhead"
  /\ IF IsEmpty THEN Return("Disconnected")
     ELSE rpc' = "panic_inconsistent" /\ UNCHANGED <<final, rres>>
  /\ UNCHANGED <<packet, tokens, sender, rmode, rtok, local, aborted, blocks, steals,
                 received, destroyed>>

Decrement ==
  /\ rpc = "decr"
  /\ IF toWake = NoToken
     THEN /\ blocks' = blocks + 1 /\ rtok' = blocks + 1 /\ toWake' = blocks + 1
          /\ local' = steals /\ steals' = 0 /\ rpc' = "sub"
     ELSE rpc' = "panic_to_wake" /\ UNCHANGED <<blocks, rtok, toWake, local, steals>>
  /\ UNCHANGED <<queue, unlinked, cnt, channels, portDropped, drain, locked, tokens,
                 sender, rmode, final, rres, aborted, received, destroyed>>

DecrementSub ==
  /\ rpc = "sub"
  /\ cnt' = Wrap(cnt - (1 + local))
  /\ rpc' = IF cnt = DISCONNECTED THEN "subdisc"
            ELSE IF cnt < 0 THEN "panic_count"
            ELSE IF cnt - local <= 0 THEN "wait" ELSE "unwake"
  /\ UNCHANGED <<queue, unlinked, toWake, channels, portDropped, drain, locked, tokens,
                 sender, rmode, rtok, final, local, rres, aborted, blocks, steals,
                 received, destroyed>>

DecrementDisc ==
  /\ rpc = "subdisc"
  /\ cnt' = DISCONNECTED /\ rpc' = "unwake"
  /\ UNCHANGED <<queue, unlinked, toWake, channels, portDropped, drain, locked, tokens,
                 sender, rmode, rtok, final, local, rres, aborted, blocks, steals,
                 received, destroyed>>

\* Abort: recv tries again, start_selection undoes the decrement.
DecrementFailed ==
  /\ rpc = "unwake"
  /\ toWake' = NoToken /\ Free(rtok) /\ rtok' = NoToken /\ local' = 0
  /\ IF rmode = "select" THEN rpc' = "cancelbump" /\ UNCHANGED final
                         ELSE rpc' = "try" /\ final' = TRUE
  /\ UNCHANGED <<queue, unlinked, cnt, channels, portDropped, drain, locked, woken,
                 sender, rmode, rres, aborted, blocks, steals, received, destroyed>>

WaitDone ==
  /\ rpc = "wait" /\ rtok \in woken
  /\ IF rmode = "select" THEN rpc' = "abort" /\ UNCHANGED <<rtok, final>>
                         ELSE rpc' = "try" /\ rtok' = NoToken /\ final' = TRUE
  /\ UNCHANGED <<packet, tokens, sender, rmode, local, rres, aborted, blocks, steals,
                 received, destroyed>>

WaitAborted ==
  /\ rpc = "wait" /\ rtok \notin woken /\ rmode \in {"timeout", "select"}
  /\ rpc' = "abort" /\ aborted' = IF aborted \in {"timeout", "upgrade"} THEN aborted ELSE rmode
  /\ UNCHANGED <<packet, tokens, sender, rmode, rtok, final, local, rres, blocks, steals,
                 received, destroyed>>

\* select looks at the count only.
CanRecv ==
  /\ rpc = "can"
  /\ IF cnt = DISCONNECTED \/ cnt - steals > 0
     THEN Return("ready") ELSE rpc' = "decr" /\ UNCHANGED <<final, rres>>
  /\ UNCHANGED <<packet, tokens, sender, rmode, rtok, local, aborted, blocks, steals,
                 received, destroyed>>

StartCancelBump ==
  /\ rpc = "cancelbump"
  /\ cnt' = IF cnt = DISCONNECTED THEN cnt ELSE Wrap(cnt + 1)
  /\ IF cnt # DISCONNECTED /\ cnt < 0
     THEN rpc' = "panic_count" /\ UNCHANGED <<final, rres>> ELSE Return("ready")
  /\ UNCHANGED <<queue, unlinked, toWake, channels, portDropped, drain, locked, tokens,
                 sender, rmode, rtok, local, aborted, blocks, steals, received,
                 destroyed>>

\* abort_selection bounces on select_lock, then loads the count to see how much
\* it takes to make it positive.  Mutant: it does not wait for the lock.
UpgradeDone_Mutant == TRUE
UpgradeDone == ~locked

AbortLoad ==
  /\ rpc = "abort" /\ UpgradeDone
  /\ local' = IF cnt < 0 /\ cnt # DISCONNECTED THEN -cnt ELSE 0
  /\ rpc' = "abortbump"
  /\ UNCHANGED <<packet, tokens, sender, rmode, rtok, final, rres, aborted, blocks, steals,
                 received, destroyed>>

AbortBump ==
  /\ rpc = "abortbump"
  /\ cnt' = Wrap(cnt + local + 1)
  /\ rpc' = IF cnt = DISCONNECTED THEN "abortdisc"
            ELSE IF cnt + local + 1 < 0 THEN "panic_count"
            ELSE IF cnt < 0 THEN "aborttake" ELSE "abortspin"
  /\ UNCHANGED <<queue, unlinked, toWake, channels, portDropped, drain, locked, tokens,
                 sender, rmode, rtok, final, local, rres, aborted, blocks, steals,
                 received, destroyed>>

\* recv_timeout goes on to try_recv, select is told whether there is data.
AbortReturn(res) ==
  /\ rtok' = NoToken /\ local' = 0
  /\ IF rmode = "timeout" THEN rpc' = "try" /\ final' = TRUE /\ UNCHANGED rres
                          ELSE Return(res)

AbortDisc ==
  /\ rpc = "abortdisc"
  /\ cnt' = DISCONNECTED
  /\ IF toWake = NoToken THEN AbortReturn("ready")
     ELSE rpc' = "panic_aborted" /\ UNCHANGED <<rtok, local, final, rres>>
  /\ UNCHANGED <<queue, unlinked, toWake, channels, portDropped, drain, locked, tokens,
                 sender, rmode, aborted, blocks, steals, received, destroyed>>

\* The token is ours to drop, or a sender is about to take it.
AbortFinish ==
  /\ \/ /\ rpc = "aborttake" /\ toWake' = NoToken
        /\ IF toWake = NoToken THEN UNCHANGED freed ELSE Free(toWake)
     \/ rpc = "abortspin" /\ toWake = NoToken /\ UNCHANGED <<toWake, freed>>
  /\ steals' = local
  /\ IF steals \in {0, -1} /\ (rpc = "aborttake" => toWake # NoToken)
     THEN AbortReturn(IF rpc = "abortspin" THEN "ready" ELSE "unready")
     ELSE rpc' = "panic_steals" /\ UNCHANGED <<rtok, local, final, rres>>
  /\ UNCHANGED <<queue, unlinked, cnt, channels, portDropped, drain, locked, woken,
                 sender, rmode, aborted, blocks, received, destroyed>>

DropPort ==
  /\ rpc = "idle"
  /\ portDropped' = TRUE /\ rpc' = "dropcas" /\ local' = steals
  /\ UNCHANGED <<queue, unlinked, cnt, toWake, channels, drain, locked, tokens, sender,
                 rmode, rtok, final, rres, aborted, blocks, steals, received, destroyed>>

DropCas ==
  /\ rpc = "dropcas"
  /\ cnt' = IF cnt = local THEN DISCONNECTED ELSE cnt
  /\ rpc' = IF cnt # DISCONNECTED /\ cnt # local THEN "dropdrain" ELSE "gone"
  /\ UNCHANGED <<queue, unlinked, toWake, channels, portDropped, drain, locked, tokens,
                 sender, rmode, rtok, final, local, rres, aborted, blocks, steals,
                 received, destroyed>>

DropDrain ==
  /\ rpc = "dropdrain"
  /\ IF Poppable THEN queue' = Tail(queue) /\ Destroy /\ local' = local + 1 /\ UNCHANGED rpc
     ELSE rpc' = "dropcas" /\ UNCHANGED <<queue, destroyed, local>>
  /\ UNCHANGED <<unlinked, cnt, toWake, channels, portDropped, drain, locked, tokens,
                 sender, rmode, rtok, final, rres, aborted, blocks, steals, received>>

ReceiverStep ==
  \/ OldWoken \/ TryPop \/ TryHead \/ FoldSwap \/ Fold \/ Folded \/ TryLook \/ TryAgain
  \/ TryAgainHead \/ Decrement \/ DecrementSub \/ DecrementDisc \/ DecrementFailed
  \/ WaitDone \/ CanRecv \/ StartCancelBump \/ AbortLoad \/ AbortBump \/ AbortDisc
  \/ AbortFinish \/ DropCas \/ DropDrain

Panics == {"panic_count", "panic_inherit", "panic_take", "panic_empty", "panic_steals",
           "panic_to_wake", "panic_aborted", "panic_inconsistent"}

\* Both sides are gone, or somebody has panicked.
Terminated ==
  /\ \/ rpc = "gone" /\ \A s \in Senders : spc[s] = "gone"
     \/ rpc \in Panics \/ \E s \in Senders : spc[s] \in Panics
  /\ UNCHANGED vars

Next ==
  \/ \E s \in Senders : SenderStep(s) \/ SendCall(s) \/ CloneChan(s) \/ DropChan(s)
  \/ RecvCall \/ ReceiverStep \/ OldAborted \/ WaitAborted \/ DropPort
  \/ Terminated

Spec == Init /\ [][Next]_vars

\* A call under way goes on.  Nobody has to call, and deadlines need not pass.
FairSpec ==
  Spec /\ WF_vars(ReceiverStep) /\ \A s \in Senders : WF_vars(SenderStep(s))

-----------------------------------------------------------------------------
\* No sender panics, unless the receiver's deadline passed during the upgrade, and
\* the receiver does not before a blocking call of its own was aborted.  Among the
\* assertions: the waiter behind a count of -1 is there, an Inconsistent queue does
\* not become Empty, inherit_blocker finds a new packet.
NoPanic ==
  /\ aborted # "upgrade" => \A s \in Senders : spc[s] \notin Panics
  /\ aborted = "none" => rpc \notin Panics
  /\ aborted = "select" => rpc \notin Panics \ {"panic_aborted"}

\* The count less the steals is the number of messages, but for pushes that were
\* not counted yet, whatever blocker was inherited and selections aborted.
Uncounted == Cardinality({s \in Senders : spc[s] \in {"link", "add"}})
CountExact ==
  rpc \in {"idle", "old"} /\ aborted \notin {"timeout", "upgrade"} /\ cnt # DISCONNECTED /\ ~locked =>
    cnt - steals = Len(queue) - Uncounted

\* The queue has one consumer: a sender drains it when the port is gone, and no
\* two senders do.  Nothing stays on the queue of a port that is gone once the
\* sends that were under way are over.
HangupClean ==
  /\ \A s \in Senders : spc[s] \in {"drain", "drainhead"} =>
       /\ rpc \in {"gone"} \cup Panics
       /\ \A t \in Senders \ {s} : spc[t] \notin {"drain", "drainhead"}
  /\ rpc = "gone" /\ (\A s \in Senders : spc[s] \in {"idle", "gone"}) /\ channels > 0 =>
       queue = <<>>

\* Messages are received in the order of their pushes, each once, one that was
\* not received is on the queue or was destroyed, and a receiver told of the end
\* of the channel has received everything.
MessageConservation ==
  LET onQueue == {queue[i] : i \in 1..Len(queue)}
      got == {received[i] : i \in 1..Len(received)}
  IN  /\ rres = "Disconnected" => Len(received) = accepted
      /\ received = [i \in 1..Len(received) |-> i]
      /\ 1..accepted = onQueue \cup got \cup destroyed
      /\ got \cap destroyed = {} /\ got \cap onQueue = {} /\ onQueue \cap destroyed = {}

\* Nothing that was sent is lost or taken by two consumers, whoever hangs up.
Delivery == MessageConservation /\ HangupClean

\* The inherited token and those of this packet's waits have one owner each.  A
\* sleeping receiver can be found by it; outside of a blocking call there is none.
TokenOwnership ==
  /\ \A t \in 1..blocks :
       freed[t] + (IF toWake = t /\ \A s \in Senders : spc[s] # "clear" THEN 1 ELSE 0)
                + Cardinality({s \in Senders : stok[s] = t}) = 1
  /\ rpc \in {"old", "wait"} /\ rtok \notin woken =>
       toWake = rtok \/ \E s \in Senders : stok[s] = rtok
  /\ rpc \in {"idle", "decr", "gone"} /\ aborted # "upgrade" => toWake = NoToken

\* A sleeping receiver is woken by data and by the last hangup.
BlockedWakes ==
  (rpc \in {"old", "wait"} /\ (queue # <<>> \/ channels = 0)) ~> rpc \notin {"old", "wait"}

=============================================================================
