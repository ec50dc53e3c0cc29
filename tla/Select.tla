------------------------------- MODULE Select -------------------------------
(***************************************************************************)
(* Select, the receiver set of src/sync/mpsc/select.rs: a doubly linked    *)
(* list of handles and wait2, which starts a selection on every port of    *)
(* the set and aborts the selections again, while the senders of the ports *)
(* send and hang up.  A port is a packet of the oneshot or of the bounded  *)
(* flavour; each of their selection functions is one critical section, of  *)
(* the word `state' or of the lock (oneshot.rs, sync.rs), and the sender   *)
(* that takes a token out signals it in a later step.  A handle is the     *)
(* port it is for.  Upgrades are in Oneshot and Stream.                    *)
(***************************************************************************)
EXTENDS Integers, Sequences, FiniteSets

CONSTANTS Oneshots, Bounded,  \* the ports of either flavour
          Null,               \* no handle
          Cap,                \* capacity of a bounded channel
          MaxSends,           \* bound on sends to a bounded channel
          MaxWaits            \* bound on waits; each makes one pair of tokens

Ports == Oneshots \cup Bounded

ASSUME SelectAssumption ==
  /\ Oneshots \cap Bounded = {} /\ Null \notin Ports /\ IsFiniteSet(Ports)
  /\ Cap \in Nat \ {0} /\ MaxSends \in Nat /\ MaxWaits \in Nat

VARIABLES
  size, hungUp,        \* per port: messages in it, its sender is gone
  blocker,             \* per port: the token in it
  spc, sent, stok,     \* per sender: location, sends, the token it took out
  head, tail, next, prev, added,   \* the handle list
  pc, cur, ready,      \* the selecting thread: location, cursor, chosen handle
  waits,               \* waits so far; the last one is the current token
  woken                \* tokens whose flag is set

ports == <<size, hungUp, blocker>>
senders == <<spc, sent, stok>>
list == <<head, tail, next, prev, added>>
selector == <<pc, cur, ready, waits>>
vars == <<ports, senders, list, selector, woken>>

NoToken == 0

Init ==
  /\ size = [p \in Ports |-> 0] /\ hungUp = [p \in Ports |-> FALSE]
  /\ blocker = [p \in Ports |-> NoToken]
  /\ spc = [p \in Ports |-> "idle"] /\ sent = [p \in Ports |-> 0]
  /\ stok = [p \in Ports |-> NoToken]
  /\ head = Null /\ tail = Null /\ next = [p \in Ports |-> Null]
  /\ prev = [p \in Ports |-> Null] /\ added = [p \in Ports |-> FALSE]
  /\ pc = "idle" /\ cur = Null /\ ready = Null /\ waits = 0 /\ woken = {}

-----------------------------------------------------------------------------
(* The senders *)

\* Take the token out of the port, if there is one, and signal it next.
TakeBlocker(p) ==
  /\ blocker' = [blocker EXCEPT ![p] = NoToken]
  /\ stok' = [stok EXCEPT ![p] = blocker[p]]

\* A oneshot is sent to once; a bounded send waits for a free slot.
Send(p) ==
  /\ spc[p] = "idle"
  /\ IF p \in Oneshots THEN sent[p] = 0 ELSE sent[p] < MaxSends /\ size[p] < Cap
  /\ size' = [size EXCEPT ![p] = @ + 1] /\ sent' = [sent EXCEPT ![p] = @ + 1]
  /\ TakeBlocker(p)
  /\ spc' = [spc EXCEPT ![p] = IF blocker[p] = NoToken THEN "idle" ELSE "signal"]
  /\ UNCHANGED <<hungUp, list, selector, woken>>

DropChan(p) ==
  /\ spc[p] = "idle"
  /\ hungUp' = [hungUp EXCEPT ![p] = TRUE]
  /\ TakeBlocker(p)
  /\ spc' = [spc EXCEPT ![p] = IF blocker[p] = NoToken THEN "gone" ELSE "signal"]
  /\ UNCHANGED <<size, sent, list, selector, woken>>

Signal(p) ==
  /\ spc[p] = "signal"
  /\ woken' = woken \cup {stok[p]} /\ stok' = [stok EXCEPT ![p] = NoToken]
  /\ spc' = [spc EXCEPT ![p] = IF hungUp[p] THEN "gone" ELSE "idle"]
  /\ UNCHANGED <<ports, sent, list, selector>>

-----------------------------------------------------------------------------
(* The handles: add and remove, between waits *)

Add(h) ==
  /\ pc = "idle" /\ ~added[h]
  /\ IF head = Null
     THEN head' = h /\ UNCHANGED <<next, prev>>
     ELSE /\ prev' = [prev EXCEPT ![h] = tail] /\ next' = [next EXCEPT ![tail] = h]
          /\ UNCHANGED head
  /\ tail' = h /\ added' = [added EXCEPT ![h] = TRUE]
  /\ UNCHANGED <<ports, senders, selector, woken>>

\* remove, which dropping a handle calls as well.
Remove(h) ==
  /\ pc = "idle" /\ added[h]
  /\ head' = IF prev[h] = Null THEN next[h] ELSE head
  /\ tail' = IF next[h] = Null THEN prev[h] ELSE tail
  /\ next' = [p \in Ports |-> IF p = h THEN Null
                              ELSE IF p = prev[h] THEN next[h] ELSE next[p]]
  /\ prev' = [p \in Ports |-> IF p = h THEN Null
                              ELSE IF p = next[h] THEN prev[h] ELSE prev[p]]
  /\ added' = [added EXCEPT ![h] = FALSE]
  /\ ready' = IF ready = h THEN Null ELSE ready
  /\ UNCHANGED <<ports, senders, pc, cur, waits, woken>>

-----------------------------------------------------------------------------
(* wait2 *)

HasEvent(p) == size[p] > 0 \/ hungUp[p]

\* select! always selects over something.
WaitCall ==
  /\ pc = "idle" /\ head # Null /\ waits < MaxWaits
  /\ pc' = "preflight" /\ cur' = head /\ ready' = Null
  /\ UNCHANGED <<ports, senders, list, waits, woken>>

\* Stage 1: can_recv on one port after the other; then the tokens are made.
Preflight ==
  /\ pc = "preflight"
  /\ IF HasEvent(cur)
     THEN pc' = "idle" /\ ready' = cur /\ UNCHANGED <<cur, waits>>
     ELSE IF next[cur] # Null
     THEN cur' = next[cur] /\ UNCHANGED <<pc, ready, waits>>
     ELSE pc' = "start" /\ cur' = head /\ waits' = waits + 1 /\ UNCHANGED ready
  /\ UNCHANGED <<ports, senders, list, woken>>

\* start_selection looks again.  Mutant: the preflight check is believed.
MustAbort_Mutant(p) == FALSE
MustAbort(p) == HasEvent(p)

\* The handles whose selection was started: take(i).  Mutant: one too few.
Started_Mutant(h) == prev[h] # Null /\ prev[prev[h]] # Null
Started(h) == prev[h] # Null

\* Stage 2: start_selection on one port after the other.
Start ==
  /\ pc = "start"
  /\ IF blocker[cur] # NoToken THEN pc' = "panic" /\ UNCHANGED <<blocker, cur, ready>>
     ELSE IF MustAbort(cur)
     THEN /\ ready' = cur /\ UNCHANGED blocker
          /\ IF Started(cur) THEN pc' = "undo" /\ cur' = head
                             ELSE pc' = "idle" /\ UNCHANGED cur
     ELSE /\ blocker' = [blocker EXCEPT ![cur] = waits] /\ UNCHANGED ready
          /\ IF next[cur] = Null THEN pc' = "wait" /\ UNCHANGED cur
                                 ELSE cur' = next[cur] /\ UNCHANGED pc
  /\ UNCHANGED <<size, hungUp, senders, list, waits, woken>>

\* abort_selection: a token that is still there is dropped; one that a sender
\* took means an event.  A oneshot finds its word EMPTY only if no selection
\* was started on it, which is unreachable!().
AbortSelection(p) == blocker' = [blocker EXCEPT ![p] = NoToken]
Unstarted(p) == p \in Oneshots /\ blocker[p] = NoToken /\ ~HasEvent(p)

\* Go back and abort the selections before the one that was refused.
Undo ==
  /\ pc = "undo"
  /\ AbortSelection(cur)
  /\ pc' = IF Unstarted(cur) THEN "panic"
           ELSE IF next[cur] = ready THEN "idle" ELSE "undo"
  /\ cur' = next[cur]
  /\ UNCHANGED <<size, hungUp, senders, list, ready, waits, woken>>

\* Stage 3: the wait token.
Wake ==
  /\ pc = "wait" /\ waits \in woken
  /\ pc' = "abort" /\ cur' = head
  /\ UNCHANGED <<ports, senders, list, ready, waits, woken>>

\* Stage 4: abort all of them; the last one with an event is returned.
Abort ==
  /\ pc = "abort"
  /\ AbortSelection(cur)
  /\ ready' = IF blocker[cur] = NoToken THEN cur ELSE ready
  /\ cur' = next[cur]
  /\ pc' = IF Unstarted(cur) \/ (next[cur] = Null /\ ready' = Null) THEN "panic"
           ELSE IF next[cur] = Null THEN "idle" ELSE "abort"
  /\ UNCHANGED <<size, hungUp, senders, list, waits, woken>>

\* Handle::recv on the handle that wait returned: a message, or the hangup.
Recv ==
  /\ pc = "idle" /\ ready # Null
  /\ size' = [size EXCEPT ![ready] = IF @ > 0 THEN @ - 1 ELSE @] /\ ready' = Null
  /\ UNCHANGED <<hungUp, blocker, senders, list, pc, cur, waits, woken>>

SelectorStep == Preflight \/ Start \/ Undo \/ Wake \/ Abort

\* Every sender is through; whether the selecting thread is stuck then is what
\* WaitReturns says.
Terminated == (\A p \in Ports : spc[p] = "gone") /\ UNCHANGED vars

Next ==
  \/ \E p \in Ports : Send(p) \/ DropChan(p) \/ Signal(p) \/ Add(p) \/ Remove(p)
  \/ WaitCall \/ SelectorStep \/ Recv \/ Terminated

\* A call under way goes on; nobody has to call again.
Spec == Init /\ [][Next]_vars
FairSpec ==
  Spec /\ WF_vars(SelectorStep) /\ \A p \in Ports : WF_vars(Signal(p))

-----------------------------------------------------------------------------
\* Every variable keeps its type.
TypeOK ==
  /\ size \in [Ports -> Nat] /\ hungUp \in [Ports -> BOOLEAN]
  /\ blocker \in [Ports -> 0..MaxWaits] /\ stok \in [Ports -> 0..MaxWaits]
  /\ spc \in [Ports -> {"idle", "signal", "gone"}] /\ sent \in [Ports -> Nat]
  /\ {head, tail, cur, ready} \subseteq Ports \cup {Null}
  /\ next \in [Ports -> Ports \cup {Null}] /\ prev \in [Ports -> Ports \cup {Null}]
  /\ added \in [Ports -> BOOLEAN]
  /\ pc \in {"idle", "preflight", "start", "undo", "wait", "abort", "panic"}
  /\ waits \in 0..MaxWaits /\ woken \subseteq 1..MaxWaits

\* at[1], ..., at[n] are the handles of the set, once each, in the order of the
\* list: linked both ways from head to tail.  The other handles have no links.
Linked(n, at) ==
  /\ \A i, j \in 1..n : at[i] = at[j] => i = j
  /\ \A h \in Ports : added[h] <=> \E k \in 1..n : at[k] = h
  /\ head = (IF n = 0 THEN Null ELSE at[1]) /\ tail = (IF n = 0 THEN Null ELSE at[n])
  /\ \A k \in 1..n : /\ prev[at[k]] = (IF k = 1 THEN Null ELSE at[k - 1])
                      /\ next[at[k]] = (IF k = n THEN Null ELSE at[k + 1])
  /\ \A h \in Ports : ~added[h] => next[h] = Null /\ prev[h] = Null

HandleList == \E n \in 0..Cardinality(Ports) : \E at \in [1..n -> Ports] : Linked(n, at)

\* wait returns a handle of the set that has an event, so that recv on it does
\* not block; "we must have found a ready receiver" and the unreachable!() of the
\* packets hold; and no selection is left behind: outside of wait no port has a
\* token, and one that a sender still has to signal can wake nobody; and the list
\* of handles, which wait walks and add and remove relink, is whole.  Includes
\* the types.
WaitSound ==
  /\ TypeOK
  /\ pc # "panic"
  /\ pc = "idle" => /\ ready # Null => added[ready] /\ HasEvent(ready)
                    /\ \A p \in Ports : blocker[p] = NoToken
  /\ \A p \in Ports : blocker[p] # NoToken => added[p] /\ blocker[p] = waits
  /\ HandleList

\* A thread in wait is not forgotten: when a port of its set has an event, wait
\* returns, whichever stage it was in when the event came.
WaitReturns ==
  (pc # "idle" /\ \E p \in Ports : added[p] /\ HasEvent(p)) ~> pc = "idle"
=============================================================================
