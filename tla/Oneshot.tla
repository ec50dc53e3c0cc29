------------------------------ MODULE Oneshot ------------------------------
(***************************************************************************)
(* The oneshot flavour of std::sync::mpsc (src/sync/mpsc/oneshot.rs): one  *)
(* sender thread and one receiver thread share a Packet made of an atomic  *)
(* word `state' and two unsynchronised cells, `data' and `upgrade'.        *)
(*                                                                         *)
(* Every atomic operation is a step of its own.  So is every group of      *)
(* adjacent accesses to the UnsafeCells, so that two threads standing in   *)
(* front of conflicting accesses (a data race) is a state of the model.    *)
(* A SignalToken is an element of Tokens; parking is blocking.rs.          *)
(***************************************************************************)
EXTENDS Naturals, FiniteSets

CONSTANTS Messages,     \* the values that may be sent
          Tokens,       \* the identities of SignalToken allocations
          NoMsg,        \* `data' is None
          NoToken       \* a thread holds no token

Words == {"EMPTY", "DATA", "DISCONNECTED"}

ASSUME ConstantsAssumption ==
  /\ NoMsg \notin Messages
  /\ NoToken \notin Tokens
  /\ Tokens \cap Words = {}

VARIABLES
  state,      \* AtomicUsize: a word, or a pointer to a SignalToken
  data,       \* UnsafeCell<Option<T>>
  upgrade,    \* UnsafeCell<MyUpgrade<T>>
  woken,      \* tokens whose `woken' flag is set
  spc, rpc,   \* where the sender and the receiver stand
  sop,        \* what the sender is upgrading for: a second send or a clone
  sprev,      \* the sender's local `prev' in upgrade()
  stok, rtok, \* the token pointer held by the sender / the receiver's own token
  rmode,      \* the receiver's blocking call: recv, recv_timeout or select
  rres,       \* what the receiver's last completed call returned
  accepted, rejected, received, destroyed,   \* history of every message
  made, reclaimed  \* tokens cast to a pointer, and pointers cast back (a bag)

sender   == <<spc, sop, sprev, stok, accepted, rejected>>
receiver == <<rpc, rtok, rmode, rres, received, destroyed, made>>
vars == <<state, data, upgrade, woken, sender, receiver, reclaimed>>

Upgrades == {"NothingSent", "SendUsed", "GoUp"}
SenderPcs == {"idle", "write", "upwrite", "swap", "undo", "takeback", "signal",
              "upswap", "uprestore", "upwoke", "dropping", "dropsignal", "gone",
              "panic"}
ReceiverPcs == {"idle", "load", "cas", "wait", "abortload", "abortcas",
                "abortdisc", "try", "trycas", "trytake", "trydisc", "can",
                "candisc", "start", "upgraded", "droptake",
                "gone", "panic"}

Init ==
  /\ state = "EMPTY" /\ data = NoMsg /\ upgrade = "NothingSent"
  /\ woken = {} /\ made = {} /\ reclaimed = [t \in Tokens |-> 0]
  /\ spc = "idle" /\ sop = "send" /\ sprev = "NothingSent" /\ stok = NoToken
  /\ rpc = "idle" /\ rtok = NoToken /\ rmode = "recv" /\ rres = "none"
  /\ accepted = {} /\ rejected = {} /\ received = {} /\ destroyed = {}

Unsent == Messages \ (accepted \cup rejected \cup {data})

\* The token behind a word that is neither EMPTY, DATA nor DISCONNECTED.
\* Mutant: the pointer is forgotten.
TokenOf_Forgets(word) == NoToken
TokenOf(word) == IF word \in Tokens THEN word ELSE NoToken

\* SignalToken::cast_from_usize: the pointer becomes an owned token again.
Reclaim(t) == reclaimed' = [reclaimed EXCEPT ![t] = @ + 1]

-----------------------------------------------------------------------------
(* The sender: Sender::send, Sender::clone and Sender::drop on this flavour *)

SendCall ==
  /\ spc = "idle" /\ Unsent # {}
  /\ spc' = "write"
  /\ UNCHANGED <<state, data, upgrade, woken, sop, sprev, stok, accepted, rejected,
                 receiver, reclaimed>>

\* sent() chooses between the oneshot send and an upgrade; both go on to write
\* the cells.
SendWrite ==
  /\ spc = "write"
  /\ \/ /\ upgrade = "NothingSent"
        /\ data' \in Unsent /\ upgrade' = "SendUsed"
        /\ spc' = IF data = NoMsg THEN "swap" ELSE "panic"
     \/ /\ upgrade # "NothingSent"
        /\ spc' = "upwrite" /\ UNCHANGED <<data, upgrade>>
  /\ UNCHANGED <<state, woken, sop, sprev, stok, accepted, rejected, receiver,
                 reclaimed>>

SendSwap ==
  /\ spc = "swap"
  /\ state' = "DATA" /\ stok' = TokenOf(state)
  /\ spc' = IF state = "EMPTY" THEN "idle"
            ELSE IF state = "DISCONNECTED" THEN "undo"
            ELSE IF state = "DATA" THEN "panic" ELSE "signal"
  /\ accepted' = IF state = "DISCONNECTED" THEN accepted
                                           ELSE accepted \cup {data}
  /\ UNCHANGED <<data, upgrade, woken, sop, sprev, rejected, receiver, reclaimed>>

SendUndo ==
  /\ spc = "undo"
  /\ state' = "DISCONNECTED" /\ spc' = "takeback"
  /\ UNCHANGED <<data, upgrade, woken, sop, sprev, stok, accepted, rejected,
                 receiver, reclaimed>>

SendTakeBack ==
  /\ spc = "takeback"
  /\ upgrade' = "NothingSent" /\ data' = NoMsg
  /\ spc' = IF data = NoMsg THEN "panic" ELSE "idle"
  /\ rejected' = rejected \cup ({data} \ {NoMsg})
  /\ UNCHANGED <<state, woken, sop, sprev, stok, accepted, receiver, reclaimed>>

\* The exchange on the token's `woken' flag in SignalToken::signal.
\* Mutant: the flag is never set.
SetWoken_Mutant(t) == UNCHANGED woken
SetWoken(t) == woken' = woken \cup {t}

\* SignalToken::signal on the pointer the sender swapped out.  After an upgrade
\* for a clone the token lives on in the shared packet and is signalled later.
Signal ==
  /\ spc \in {"signal", "dropsignal"} \/ (spc = "upwoke" /\ sop = "send")
  /\ SetWoken(stok) /\ Reclaim(stok) /\ stok' = NoToken
  /\ spc' = IF spc = "signal" THEN "idle"
            ELSE IF spc = "upwoke" THEN "dropping" ELSE "gone"
  /\ UNCHANGED <<state, data, upgrade, sop, sprev, accepted, rejected, receiver>>

\* Sender::clone upgrades to the shared flavour whatever was sent before.
CloneCall ==
  /\ spc = "idle"
  /\ spc' = "upwrite" /\ sop' = "clone"
  /\ UNCHANGED <<state, data, upgrade, woken, sprev, stok, accepted, rejected,
                 receiver, reclaimed>>

UpgradeWrite ==
  /\ spc = "upwrite"
  /\ spc' = IF upgrade = "GoUp" THEN "panic" ELSE "upswap"
  /\ sprev' = upgrade /\ upgrade' = "GoUp"
  /\ UNCHANGED <<state, data, woken, sop, stok, accepted, rejected, receiver,
                 reclaimed>>

\* Mutant: `upgrade' is put back although the receiver may own it by now.
AfterUpgrade_Restores == IF state \in Tokens THEN "upwoke" ELSE "uprestore"
AfterUpgrade == IF state \in {"DATA", "EMPTY"} THEN "dropping"
                ELSE IF state = "DISCONNECTED" THEN "uprestore" ELSE "upwoke"

UpgradeSwap ==
  /\ spc = "upswap"
  /\ state' = "DISCONNECTED"
  /\ spc' = AfterUpgrade /\ stok' = TokenOf(state)
  /\ UNCHANGED <<data, upgrade, woken, sop, sprev, accepted, rejected, receiver,
                 reclaimed>>

UpgradeRestore ==
  /\ spc = "uprestore"
  /\ upgrade' = sprev /\ spc' = "dropping"
  /\ UNCHANGED <<state, data, woken, sop, sprev, stok, accepted, rejected, receiver,
                 reclaimed>>

\* Sender::drop, or the drop of the old flavour after an upgrade.
DropChan ==
  /\ spc \in {"idle", "dropping"} \/ (spc = "upwoke" /\ sop = "clone")
  /\ state' = "DISCONNECTED"
  /\ stok' = IF stok = NoToken THEN TokenOf(state) ELSE stok
  /\ spc' = IF stok' = NoToken THEN "gone" ELSE "dropsignal"
  /\ UNCHANGED <<data, upgrade, woken, sop, sprev, accepted, rejected, receiver,
                 reclaimed>>

SenderNext ==
  \/ SendCall \/ SendWrite \/ SendSwap \/ SendUndo \/ SendTakeBack \/ Signal
  \/ CloneCall \/ UpgradeWrite \/ UpgradeSwap \/ UpgradeRestore \/ DropChan

-----------------------------------------------------------------------------
(* The receiver.  A result ends the call: back to idle, or, for an upgrade, *)
(* on to the drop of this packet (Receiver::recv swaps the new port in).    *)

Return(res) ==
  /\ rpc' = IF res = "Upgraded" THEN "upgraded" ELSE "idle"
  /\ rres' = res

\* take() on `data': the receiver owns the message from here on.
TakeData ==
  /\ data' = NoMsg
  /\ received' = received \cup ({data} \ {NoMsg})

\* ptr::replace(upgrade, SendUsed) and the result the old value stands for.
TakeUpgrade(otherwise) ==
  /\ upgrade' = "SendUsed"
  /\ Return(IF upgrade = "GoUp" THEN "Upgraded" ELSE otherwise)

\* Receiver::recv / recv_timeout / try_recv / select's can_recv preflight.  The
\* bound on blocking calls is the number of Tokens.
RecvCall ==
  /\ rpc = "idle" /\ rres' = "none"
  /\ \/ rmode' \in {"recv", "timeout"} /\ rpc' = "load" /\ Tokens \ made # {}
     \/ rmode' = "try" /\ rpc' = "try"
     \/ rmode' = "select" /\ rpc' = "can" /\ Tokens \ made # {}
  /\ UNCHANGED <<state, data, upgrade, woken, sender, reclaimed, rtok, received,
                 destroyed, made>>

RecvLoad ==
  /\ rpc = "load"
  /\ \/ /\ state = "EMPTY" /\ rpc' = "cas"
        /\ rtok' \in Tokens \ made
     \/ state # "EMPTY" /\ rpc' = "try" /\ UNCHANGED rtok
  /\ UNCHANGED <<state, data, upgrade, woken, sender, reclaimed, rmode, rres,
                 received, destroyed, made>>

DropToken == Reclaim(rtok) /\ rtok' = NoToken

\* The token becomes a pointer; when the exchange fails it is dropped at once.
RecvCas ==
  /\ rpc = "cas"
  /\ made' = made \cup {rtok}
  /\ \/ /\ state = "EMPTY" /\ state' = rtok /\ rpc' = "wait"
        /\ UNCHANGED <<reclaimed, rtok>>
     \/ /\ state # "EMPTY" /\ DropToken /\ rpc' = "try"
        /\ UNCHANGED state
  /\ UNCHANGED <<data, upgrade, woken, sender, rmode, rres, received, destroyed>>

\* WaitToken::wait and wait_max_until return once the token was signalled.
WaitDone ==
  /\ rpc = "wait" /\ rtok \in woken
  /\ rpc' = IF rmode = "select" THEN "abortload" ELSE "try"
  /\ rtok' = IF rmode = "select" THEN rtok ELSE NoToken
  /\ UNCHANGED <<state, data, upgrade, woken, sender, reclaimed, rmode, rres,
                 received, destroyed, made>>

\* The deadline passes, or another port of the Select wakes the thread.
WaitAborted ==
  /\ rpc = "wait" /\ rmode \in {"timeout", "select"} /\ rtok \notin woken
  /\ rpc' = "abortload"
  /\ UNCHANGED <<state, data, upgrade, woken, sender, reclaimed, rtok, rmode,
                 rres, received, destroyed, made>>

\* Ok(_) of abort_selection: recv goes on to try_recv, select returns.
AbortOk ==
  /\ rtok' = NoToken
  /\ IF rmode = "timeout" THEN rpc' = "try" /\ UNCHANGED rres ELSE Return("ready")

AbortLoad ==
  /\ rpc = "abortload"
  /\ \/ state = "DATA" /\ AbortOk
     \/ /\ state # "DATA" /\ UNCHANGED <<rtok, rres>>
        /\ rpc' = IF state = "EMPTY" THEN "panic"
                  ELSE IF state = "DISCONNECTED" THEN "abortdisc" ELSE "abortcas"
  /\ UNCHANGED <<state, data, upgrade, woken, sender, reclaimed, rmode, received,
                 destroyed, made>>

\* Mutant: the token is freed but stays in the state word.
AbortedWord_Mutant == state
AbortedWord == "EMPTY"

AbortCas ==
  /\ rpc = "abortcas"
  /\ \/ /\ state = rtok /\ state' = AbortedWord /\ Reclaim(rtok) /\ AbortOk
     \/ /\ state = "DATA" /\ AbortOk /\ UNCHANGED <<state, reclaimed>>
     \/ /\ state \notin {rtok, "DATA"}
        /\ rpc' = IF state = "DISCONNECTED" THEN "abortdisc" ELSE "panic"
        /\ UNCHANGED <<state, reclaimed, rtok, rres>>
  /\ UNCHANGED <<data, upgrade, woken, sender, rmode, received, destroyed, made>>

AbortDisconnected ==
  /\ rpc = "abortdisc"
  /\ \/ /\ data # NoMsg \/ upgrade # "GoUp"
        /\ AbortOk
        /\ upgrade' = IF data # NoMsg THEN upgrade ELSE "SendUsed"
     \/ /\ data = NoMsg /\ upgrade = "GoUp"
        /\ TakeUpgrade("ready") /\ rtok' = NoToken
  /\ UNCHANGED <<state, data, woken, sender, reclaimed, rmode, received,
                 destroyed, made>>

TryLoad ==
  /\ rpc = "try"
  /\ \/ state = "EMPTY" /\ Return("Empty")
     \/ /\ state # "EMPTY" /\ UNCHANGED rres
        /\ rpc' = IF state = "DATA" THEN "trycas"
                  ELSE IF state = "DISCONNECTED" THEN "trydisc" ELSE "panic"
  /\ UNCHANGED <<state, data, upgrade, woken, sender, reclaimed, rtok, rmode,
                 received, destroyed, made>>

TryCas ==
  /\ rpc = "trycas"
  /\ state' = IF state = "DATA" THEN "EMPTY" ELSE state
  /\ rpc' = "trytake"
  /\ UNCHANGED <<data, upgrade, woken, sender, reclaimed, rtok, rmode, rres,
                 received, destroyed, made>>

TryTake ==
  /\ rpc = "trytake"
  /\ TakeData
  /\ rpc' = IF data = NoMsg THEN "panic" ELSE "idle"
  /\ rres' = "Ok"
  /\ UNCHANGED <<state, upgrade, woken, sender, reclaimed, rtok, rmode,
                 destroyed, made>>

\* Mutant: the upgrade is processed before the data is looked at.
DataFirst_Mutant == data # NoMsg /\ upgrade # "GoUp"
DataFirst == data # NoMsg

TryDisconnected ==
  /\ rpc = "trydisc"
  /\ IF DataFirst
     THEN TakeData /\ Return("Ok") /\ UNCHANGED upgrade
     ELSE TakeUpgrade("Disconnected") /\ UNCHANGED <<data, received>>
  /\ UNCHANGED <<state, woken, sender, reclaimed, rtok, rmode, destroyed, made>>

\* select: can_recv, then start_selection with a fresh token.
CanRecv ==
  /\ rpc = "can"
  /\ \/ /\ state = "EMPTY" /\ rpc' = "start"
        /\ rtok' \in Tokens \ made /\ UNCHANGED rres
     \/ state = "DATA" /\ Return("ready") /\ UNCHANGED rtok
     \/ /\ state \notin {"EMPTY", "DATA"} /\ UNCHANGED <<rtok, rres>>
        /\ rpc' = IF state = "DISCONNECTED" THEN "candisc" ELSE "panic"
  /\ UNCHANGED <<state, data, upgrade, woken, sender, reclaimed, rmode, received,
                 destroyed, made>>

StartSelection ==
  /\ rpc = "start"
  /\ made' = made \cup {rtok}
  /\ \/ /\ state = "EMPTY" /\ state' = rtok /\ rpc' = "wait"
        /\ UNCHANGED <<reclaimed, rtok, rres>>
     \/ /\ state = "DATA" /\ DropToken /\ Return("ready")
        /\ UNCHANGED state
     \/ /\ state \notin {"EMPTY", "DATA"} /\ DropToken
        /\ rpc' = IF state = "DISCONNECTED" THEN "candisc" ELSE "panic"
        /\ UNCHANGED <<state, rres>>
  /\ UNCHANGED <<data, upgrade, woken, sender, rmode, received, destroyed>>

\* The DISCONNECTED arms of can_recv and start_selection: ready unless an
\* upgrade is pending; any other value of `upgrade' is put back.
SelectDisconnected ==
  /\ rpc = "candisc"
  /\ IF data = NoMsg /\ upgrade = "GoUp"
     THEN TakeUpgrade("ready")
     ELSE Return("ready") /\ UNCHANGED upgrade
  /\ UNCHANGED <<state, data, woken, sender, reclaimed, rtok, rmode, received,
                 destroyed, made>>

DropPort ==
  /\ rpc \in {"idle", "upgraded"}
  /\ state' = "DISCONNECTED"
  /\ rpc' = IF state \in {"DISCONNECTED", "EMPTY"} THEN "gone"
            ELSE IF state = "DATA" THEN "droptake" ELSE "panic"
  /\ UNCHANGED <<data, upgrade, woken, sender, reclaimed, rtok, rmode, rres,
                 received, destroyed, made>>

DropTake ==
  /\ rpc = "droptake"
  /\ data' = NoMsg /\ destroyed' = destroyed \cup ({data} \ {NoMsg})
  /\ rpc' = IF data = NoMsg THEN "panic" ELSE "gone"
  /\ UNCHANGED <<state, upgrade, woken, sender, reclaimed, rtok, rmode, rres,
                 received, made>>

ReceiverNext ==
  \/ RecvCall \/ RecvLoad \/ RecvCas \/ WaitDone \/ WaitAborted
  \/ AbortLoad \/ AbortCas \/ AbortDisconnected
  \/ TryLoad \/ TryCas \/ TryTake \/ TryDisconnected
  \/ CanRecv \/ StartSelection \/ SelectDisconnected \/ DropPort \/ DropTake

\* Both halves are dropped: the Arc runs Packet's drop glue and nothing is left.
Terminated == spc = "gone" /\ rpc = "gone" /\ UNCHANGED vars

Next == SenderNext \/ ReceiverNext \/ Terminated

Spec == Init /\ [][Next]_vars

\* A call in progress runs to its end; nobody is obliged to make another call,
\* and a token inherited by a clone is signalled by the shared flavour.
Inherited == spc = "dropsignal" /\ sop = "clone"
SenderStep == spc # "idle" /\ ~Inherited /\ SenderNext
ReceiverStep == rpc # "idle" /\ ReceiverNext
FairSpec == Spec /\ WF_vars(SenderStep) /\ WF_vars(ReceiverStep)

-----------------------------------------------------------------------------
TypeOK ==
  /\ state \in Words \cup Tokens
  /\ data \in Messages \cup {NoMsg}
  /\ upgrade \in Upgrades /\ sprev \in Upgrades
  /\ woken \subseteq Tokens /\ made \subseteq Tokens
  /\ reclaimed \in [Tokens -> Nat]
  /\ spc \in SenderPcs /\ rpc \in ReceiverPcs
  /\ sop \in {"send", "clone"}
  /\ stok \in Tokens \cup {NoToken} /\ rtok \in Tokens \cup {NoToken}
  /\ rmode \in {"recv", "timeout", "try", "select"}
  /\ rres \in {"none", "Ok", "Empty", "Disconnected", "Upgraded", "ready"}
  /\ accepted \subseteq Messages /\ rejected \subseteq Messages
  /\ received \subseteq Messages /\ destroyed \subseteq Messages

\* The cells each thread is about to touch without synchronisation.
SenderTouches ==
  {c \in {"data", "upgrade"} :
     \/ spc = "takeback"
     \/ spc \in {"write", "upwrite", "uprestore"} /\ c = "upgrade"
     \/ spc = "write" /\ c = "data" /\ upgrade = "NothingSent"}

ReceiverTouches ==
  {c \in {"data", "upgrade"} :
     \/ rpc \in {"trydisc", "abortdisc", "candisc"}
     \/ rpc \in {"trytake", "droptake"} /\ c = "data"}

\* The protocol on `state' makes the UnsafeCells safe: sender and receiver are
\* never both about to access the same one (the `unsafe impl Sync' of Packet).
NoDataRace == SenderTouches \cap ReceiverTouches = {}

\* No unreachable!(), assert! or unwrap() of send, upgrade, try_recv, can_recv,
\* start_selection, abort_selection or drop_port fails.
NoPanic == spc # "panic" /\ rpc # "panic"

\* A message send() took is in the slot, received, or destroyed by drop_port,
\* in exactly one of them; one handed back to the caller is never received.
MessageConservation ==
  /\ accepted = received \cup destroyed \cup
                (IF spc \in {"swap", "undo", "takeback"} THEN {} ELSE {data} \ {NoMsg})
  /\ received \cap destroyed = {} /\ data \notin received \cup destroyed
  /\ accepted \cap rejected = {}

\* try_recv looks for data before it reports the end of the channel, so a
\* receiver told Disconnected or handed an upgrade has missed no message.
DisconnectedMeansDrained ==
  rres \in {"Disconnected", "Upgraded"} => accepted \subseteq received

\* Every message send() took is delivered, once, unless the port was dropped.
Delivery == MessageConservation /\ DisconnectedMeansDrained

\* "When the state moves from a pointer, ownership of the token is transferred
\* to whoever changed the state": every token turned into a pointer is in the
\* state word, or held by the sender, or was turned back exactly once.
TokenOwnership ==
  \A t \in made : reclaimed[t] + (IF state = t THEN 1 ELSE 0)
                               + (IF stok = t THEN 1 ELSE 0) = 1

\* A receiver that sleeps can be found: its token is in the state word or in
\* the hands of a sender that is about to signal it.
NoLostWakeup == rpc = "wait" /\ rtok \notin woken => state = rtok \/ stok = rtok

\* No token is leaked or freed twice, and none is lost while its thread sleeps.
TokensSafe == TokenOwnership /\ NoLostWakeup

\* abort_selection "ensures that the blocked thread will no longer be visible
\* to any other threads", and neither is a thread that has left recv.
BlockerHidden == state \in Tokens => rpc \in {"wait", "abortload", "abortcas"}

\* Receiver::recv treats Empty from a blocking receive as unreachable.
RecvNeverEmpty == rres = "Empty" => rmode # "recv"

\* A blocked receiver whose token was taken out of the packet wakes up.
BlockedWakes == (rpc = "wait" /\ state # rtok /\ sop = "send") ~> rpc # "wait"

-----------------------------------------------------------------------------
(* The inductive invariant behind the safety properties.                    *)

\* The sender has swapped DISCONNECTED in for good / the receiver has hung up.
SenderClosed == spc \in {"dropping", "upwoke", "dropsignal", "gone"}
ReceiverClosed == rpc \in {"droptake", "gone"}
Sending == spc \in {"swap", "undo", "takeback"}

\* Which thread put DISCONNECTED into the state word.
DisconnectedBy ==
  /\ state = "DISCONNECTED" => SenderClosed \/ ReceiverClosed
  /\ SenderClosed => state = "DISCONNECTED"
  /\ ReceiverClosed => state = "DISCONNECTED" \/ spc = "undo"
  /\ spc \in {"undo", "takeback", "uprestore"} => ReceiverClosed
  /\ spc = "undo" => state = "DATA"
  /\ rpc \in {"trydisc", "abortdisc", "candisc", "upgraded"} => SenderClosed

\* `upgrade' belongs to the sender until it closes, `data' to the thread that
\* the state word names.
CellContents ==
  /\ spc \in {"idle", "write", "upwrite"} =>
       upgrade = IF accepted = {} THEN "NothingSent" ELSE "SendUsed"
  /\ spc = "upswap" => sprev = IF accepted = {} THEN "NothingSent" ELSE "SendUsed"
  /\ Sending => accepted = {} /\ data \in Messages \ rejected /\ upgrade = "SendUsed"
  /\ spc = "signal" => accepted # {} /\ upgrade = "SendUsed"
  /\ ~Sending /\ accepted = {} => data = NoMsg
  /\ state = "DATA" /\ spc # "undo" => accepted # {} /\ data \in Messages
  /\ rpc \in {"trycas", "trytake", "droptake"} => accepted # {} /\ data \in Messages
  /\ rpc = "trycas" => state \in {"DATA", "DISCONNECTED"}
  /\ rpc = "trytake" => state # "DATA"
  /\ rpc # "gone" => destroyed = {}

\* Who holds the pointer of each token.
TokenPlaces ==
  /\ stok \in Tokens <=> spc \in {"signal", "upwoke", "dropsignal"}
  /\ rtok \in Tokens <=> rpc \in {"cas", "start", "wait", "abortload", "abortcas",
                                  "abortdisc"}
  /\ rpc \in {"cas", "start"} => rtok \notin made
  /\ state \in Tokens => state = rtok /\ state # stok
  /\ \A t \in Tokens : state = t \/ stok = t \/ t \in woken => t \in made
  /\ \A t \in Tokens : reclaimed[t] = IF t \in made /\ state # t /\ stok # t
                                      THEN 1 ELSE 0
  /\ state \notin woken /\ stok \notin woken

\* A receiver that blocked leaves the wait only for a state other than EMPTY.
NotEmpty ==
  /\ rpc \in {"wait", "abortload", "abortcas"} => state # "EMPTY"
  /\ rpc = "try" /\ rmode = "recv" => state # "EMPTY"
  /\ rres \in {"Disconnected", "Upgraded"} => SenderClosed

IInv ==
  /\ TypeOK /\ NoPanic /\ DisconnectedBy /\ CellContents /\ TokenPlaces /\ NotEmpty
  /\ MessageConservation /\ DisconnectedMeansDrained /\ NoLostWakeup
  /\ BlockerHidden /\ RecvNeverEmpty

=============================================================================
