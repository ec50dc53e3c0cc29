----------------------------- MODULE WaitProofs -----------------------------
(***************************************************************************)
(* Proofs about the two ways a thread waits to be told: thread::park, for  *)
(* any number of unparking threads and calls, and Select's wait over any   *)
(* set of ports, which parks on the token it left in each of them.         *)
(***************************************************************************)
EXTENDS Select, ThreadPark, FiniteSetTheorems, FunctionTheorems, TLAPS

\* Every step of the owner and of the unparkers preserves ParkInv.
LEMMA ParkKeeps == ASSUME ParkInv, [NextPark]_parkVars PROVE ParkInv'
<1>. USE ParkAssumption DEF ParkInv, ParkTypeOK, NoPanic, NoLostUnpark
<1>1. CASE ParkCall
  BY <1>1 DEF ParkCall
<1>2. CASE ParkFast
  BY <1>2 DEF ParkFast, ParkReturn
<1>3. CASE ParkLock
  BY <1>3 DEF ParkLock
<1>4. CASE ParkAnnounce
  BY <1>4 DEF ParkAnnounce, ParkReturn
<1>5. CASE CvarWait
  BY <1>5 DEF CvarWait
<1>6. CASE CvarSpurious
  BY <1>6 DEF CvarSpurious
<1>7. CASE ParkRecheck
  BY <1>7 DEF ParkRecheck, ParkReturn
<1>8. ASSUME NEW u \in Unparkers, UnparkCall(u) PROVE ParkInv'
  BY <1>8 DEF UnparkCall, At
<1>9. ASSUME NEW u \in Unparkers, UnparkCas(u) PROVE ParkInv'
  BY <1>9 DEF UnparkCas, At, UnparkReturn
<1>10. ASSUME NEW u \in Unparkers, UnparkLock(u) PROVE ParkInv'
  BY <1>10 DEF UnparkLock, MayNotify, At
<1>11. ASSUME NEW u \in Unparkers, UnparkNotify(u) PROVE ParkInv'
  BY <1>11 DEF UnparkNotify, NotifyOne, At, UnparkReturn
<1>12. CASE UNCHANGED parkVars
  BY <1>12 DEF parkVars
<1>13. QED
  BY <1>1, <1>2, <1>3, <1>4, <1>5, <1>6, <1>7, <1>8, <1>9, <1>10, <1>11,
     <1>12 DEF NextPark, OwnerStep, UnparkStep, ParkTerminated

\* Park never panics over an inconsistent state, and an owner asleep in the
\* Condvar has no notification waiting.
THEOREM ParkSafe == SpecPark => [](ParkTypeOK /\ ParkSound)
<1>1. InitPark => ParkInv
  BY ParkAssumption DEF InitPark, ParkInv, ParkTypeOK, NoPanic, NoLostUnpark
<1>2. ParkInv => ParkTypeOK /\ ParkSound
  BY DEF ParkInv, ParkSound
<1>3. QED
  BY <1>1, <1>2, ParkKeeps, PTL DEF SpecPark

-----------------------------------------------------------------------------
(* The inductive invariant of Select *)

\* A selection was started on p: the token is there, or it was taken for an event.
Selected(p) == blocker[p] = waits \/ (blocker[p] = NoToken /\ HasEvent(p))

\* S is the set of the ports on which a selection is under way.
Selecting(S) ==
  /\ S \subseteq Ports
  /\ \A p \in Ports : IF p \in S THEN Selected(p) ELSE blocker[p] = NoToken

\* Somebody has, or had, the token of this wait.
Signalled == waits \in woken \/ \E p \in Ports : stok[p] = waits

\* Tokens were made by waits; a sender signals the one it has.
TokensInv ==
  /\ \A p \in Ports : stok[p] <= waits /\ (spc[p] = "signal" <=> stok[p] # NoToken)
  /\ \A w \in woken : 1 <= w /\ w <= waits

\* Somebody who has the token took it out of a port of S.
TakenFrom(S) == Signalled => \E p \in S : blocker[p] = NoToken

\* What the stages of wait2 know: how far the cursor is on the list, and on which
\* handles a selection was started.
StageInv(n, at, S) ==
  /\ pc # "panic" /\ Selecting(S)
  /\ pc = "idle" => S = {} /\ (ready # Null => added[ready] /\ HasEvent(ready))
  /\ pc = "preflight" =>
       S = {} /\ ready = Null /\ waits < MaxWaits /\ \E k \in 1..n : cur = at[k]
  /\ pc = "start" =>
       /\ ready = Null /\ waits >= 1 /\ TakenFrom(S)
       /\ \E k \in 1..n : cur = at[k] /\ S = {at[j] : j \in 1..(k - 1)}
  /\ pc = "undo" =>
       /\ ready # Null /\ added[ready] /\ HasEvent(ready) /\ waits >= 1
       /\ \E k, m \in 1..n : /\ k < m /\ cur = at[k] /\ ready = at[m]
                             /\ S = {at[j] : j \in k..(m - 1)}
  /\ pc = "wait" =>
       /\ n >= 1 /\ ready = Null /\ waits >= 1 /\ TakenFrom(S) /\ S = {at[j] : j \in 1..n}
  /\ pc = "abort" =>
       /\ ready # Null => added[ready] /\ HasEvent(ready)
       /\ ready = Null => \E p \in S : blocker[p] = NoToken
       /\ waits >= 1
       /\ \E k \in 1..n : cur = at[k] /\ S = {at[j] : j \in k..n}

\* The inductive invariant of Select.
SelectInv ==
  /\ TypeOK /\ TokensInv
  /\ \E n \in Nat : \E at \in [1..n -> Ports] : \E S \in SUBSET Ports :
       Linked(n, at) /\ StageInv(n, at, S)

-----------------------------------------------------------------------------
(* The senders *)

\* Select::new: no handle, no token.
LEMMA SelectStarts == Init => SelectInv
<1> SUFFICES ASSUME Init PROVE SelectInv
  OBVIOUS
<1>1. TypeOK
  BY SelectAssumption DEF Init, TypeOK, NoToken
<1>2. TokensInv
  BY DEF Init, TokensInv, NoToken
<1>3. PICK at : at = [k \in 1..0 |-> Null]
  OBVIOUS
<1>4. at \in [1..0 -> Ports]
  BY <1>3
<1>5. Linked(0, at)
  BY DEF Init, Linked
<1>6. StageInv(0, at, {})
  BY DEF Init, StageInv, Selecting
<1>7. QED
  BY <1>1, <1>2, <1>4, <1>5, <1>6 DEF SelectInv

\* What senders do never undoes a stage: a token is only ever taken out for an
\* event, and whoever has the token of this wait took it out of a port.
LEMMA SenderStage ==
  ASSUME TypeOK, NEW n \in Nat, NEW at \in [1..n -> Ports], NEW S, StageInv(n, at, S),
         pc' = pc, cur' = cur, ready' = ready, waits' = waits, added' = added,
         \A q \in Ports : HasEvent(q) => HasEvent(q)',
         \A q \in Ports : blocker'[q] = blocker[q] \/ (blocker'[q] = NoToken /\ HasEvent(q)'),
         Signalled' => \/ Signalled
                       \/ \E q \in Ports : blocker[q] = waits /\ blocker'[q] = NoToken
  PROVE  StageInv(n, at, S)'
<1>1. waits \in Nat /\ ready \in Ports \cup {Null}
  BY SelectAssumption DEF TypeOK
<1>2. Selecting(S) /\ S \subseteq Ports
  BY DEF StageInv, Selecting
<1>3. Selecting(S)'
  <2>1. ASSUME NEW q \in Ports, q \in S PROVE Selected(q)'
    BY <1>2, <2>1 DEF Selecting, Selected, NoToken
  <2>2. ASSUME NEW q \in Ports, q \notin S PROVE blocker'[q] = NoToken
    BY <1>2, <2>2 DEF Selecting
  <2>3. QED
    BY <1>2, <2>1, <2>2 DEF Selecting, NoToken
<1>4. \A q \in S : blocker[q] = NoToken => blocker'[q] = NoToken
  BY <1>2
<1>5. ASSUME waits >= 1, TakenFrom(S) PROVE TakenFrom(S)'
  <2>1. SUFFICES ASSUME Signalled' PROVE \E q \in S : blocker'[q] = NoToken
    BY DEF TakenFrom, NoToken
  <2>2. CASE Signalled
    BY <1>4, <1>5, <2>2 DEF TakenFrom
  <2>3. CASE \E q \in Ports : blocker[q] = waits /\ blocker'[q] = NoToken
    <3>1. PICK q \in Ports : blocker[q] = waits /\ blocker'[q] = NoToken
      BY <2>3
    <3>2. q \in S
      BY <1>1, <1>2, <1>5, <3>1 DEF Selecting, NoToken
    <3>3. QED
      BY <3>1, <3>2
  <2>4. QED
    BY <2>1, <2>2, <2>3
<1>6. ready # Null /\ HasEvent(ready) => HasEvent(ready)'
  BY <1>1
<1>7. pc # "panic" /\ (pc = "idle" => S = {} /\ (ready # Null => added[ready] /\ HasEvent(ready)))
  BY DEF StageInv
<1>8. pc = "preflight" =>
        S = {} /\ ready = Null /\ waits < MaxWaits /\ \E k \in 1..n : cur = at[k]
  BY DEF StageInv
<1>9. pc = "start" =>
        /\ ready = Null /\ waits >= 1 /\ TakenFrom(S)'
        /\ \E k \in 1..n : cur = at[k] /\ S = {at[j] : j \in 1..(k - 1)}
  BY <1>5 DEF StageInv
<1>10. pc = "undo" =>
        /\ ready # Null /\ added[ready] /\ HasEvent(ready)' /\ waits >= 1
        /\ \E k, m \in 1..n : /\ k < m /\ cur = at[k] /\ ready = at[m]
                              /\ S = {at[j] : j \in k..(m - 1)}
  BY <1>6 DEF StageInv
<1>11. pc = "wait" =>
        /\ n >= 1 /\ ready = Null /\ waits >= 1 /\ TakenFrom(S)' /\ S = {at[j] : j \in 1..n}
  BY <1>5 DEF StageInv
<1>12. pc = "abort" =>
        /\ ready # Null => added[ready] /\ HasEvent(ready)'
        /\ ready = Null => \E p \in S : blocker'[p] = NoToken
        /\ waits >= 1
        /\ \E k \in 1..n : cur = at[k] /\ S = {at[j] : j \in k..n}
  BY <1>4, <1>6 DEF StageInv
<1>13. QED
  BY <1>3, <1>6, <1>7, <1>8, <1>9, <1>10, <1>11, <1>12 DEF StageInv, NoToken

\* A send, a hangup or a signal.
LEMMA SenderKeeps ==
  ASSUME SelectInv, NEW p \in Ports, Send(p) \/ DropChan(p) \/ Signal(p) PROVE SelectInv'
<1>1. /\ head' = head /\ tail' = tail /\ next' = next /\ prev' = prev /\ added' = added
      /\ pc' = pc /\ cur' = cur /\ ready' = ready /\ waits' = waits
  BY DEF Send, DropChan, Signal, list, selector
<1>2. TypeOK /\ TokensInv /\ waits \in Nat /\ MaxWaits \in Nat
  <2>1. TypeOK /\ TokensInv
    BY DEF SelectInv
  <2>2. waits \in 0..MaxWaits /\ MaxWaits \in Nat
    BY <2>1, SelectAssumption DEF TypeOK
  <2>3. QED
    BY <2>1, <2>2
<1>3. PICK n \in Nat : \E at \in [1..n -> Ports] : \E S \in SUBSET Ports :
        Linked(n, at) /\ StageInv(n, at, S)
  BY DEF SelectInv
<1>4. PICK at \in [1..n -> Ports] : \E S \in SUBSET Ports : Linked(n, at) /\ StageInv(n, at, S)
  BY <1>3
<1>5. PICK S \in SUBSET Ports : Linked(n, at) /\ StageInv(n, at, S)
  BY <1>4
<1>6. Linked(n, at)'
  BY <1>1, <1>5 DEF Linked
<1>7. /\ TypeOK' /\ TokensInv'
      /\ \A q \in Ports : HasEvent(q) => HasEvent(q)'
      /\ \A q \in Ports : blocker'[q] = blocker[q] \/ (blocker'[q] = NoToken /\ HasEvent(q)')
      /\ Signalled' => \/ Signalled
                       \/ \E q \in Ports : blocker[q] = waits /\ blocker'[q] = NoToken
  <2>1. /\ size \in [Ports -> Nat] /\ hungUp \in [Ports -> BOOLEAN]
        /\ blocker \in [Ports -> 0..MaxWaits] /\ stok \in [Ports -> 0..MaxWaits]
        /\ spc \in [Ports -> {"idle", "signal", "gone"}] /\ sent \in [Ports -> Nat]
        /\ woken \subseteq 1..MaxWaits
    BY <1>2 DEF TypeOK
  <2>2. \A q \in Ports : blocker[q] <= waits
    <3>1. Selecting(S)
      BY <1>5 DEF StageInv
    <3>2. QED
      BY <1>2, <3>1 DEF Selecting, Selected, NoToken
  <2>3. CASE Send(p)
    <3>1. /\ size' = [size EXCEPT ![p] = @ + 1] /\ sent' = [sent EXCEPT ![p] = @ + 1]
          /\ blocker' = [blocker EXCEPT ![p] = NoToken]
          /\ stok' = [stok EXCEPT ![p] = blocker[p]]
          /\ spc' = [spc EXCEPT ![p] = IF blocker[p] = NoToken THEN "idle" ELSE "signal"]
          /\ hungUp' = hungUp /\ woken' = woken
      BY <2>3 DEF Send, TakeBlocker
    <3>2. TypeOK'
      BY <1>1, <1>2, <2>1, <3>1 DEF TypeOK, NoToken
    <3>3. TokensInv'
      BY <1>1, <1>2, <2>1, <2>2, <3>1 DEF TokensInv, NoToken
    <3>4. \A q \in Ports : HasEvent(q) => HasEvent(q)'
      BY <2>1, <3>1 DEF HasEvent
    <3>5. HasEvent(p)'
      BY <2>1, <3>1 DEF HasEvent
    <3>6. \A q \in Ports : blocker'[q] = blocker[q] \/ (blocker'[q] = NoToken /\ HasEvent(q)')
      BY <2>1, <3>1, <3>5
    <3>7. blocker'[p] = NoToken /\ \A q \in Ports : stok'[q] = IF q = p THEN blocker[p] ELSE stok[q]
      BY <2>1, <3>1
    <3>8. Signalled' => Signalled \/ \E q \in Ports : blocker[q] = waits /\ blocker'[q] = NoToken
      BY <1>1, <3>1, <3>7 DEF Signalled
    <3>9. QED
      BY <3>2, <3>3, <3>4, <3>6, <3>8
  <2>4. CASE DropChan(p)
    <3>1. /\ hungUp' = [hungUp EXCEPT ![p] = TRUE]
          /\ blocker' = [blocker EXCEPT ![p] = NoToken]
          /\ stok' = [stok EXCEPT ![p] = blocker[p]]
          /\ spc' = [spc EXCEPT ![p] = IF blocker[p] = NoToken THEN "gone" ELSE "signal"]
          /\ size' = size /\ sent' = sent /\ woken' = woken
      BY <2>4 DEF DropChan, TakeBlocker
    <3>2. TypeOK'
      BY <1>1, <1>2, <2>1, <3>1 DEF TypeOK, NoToken
    <3>3. TokensInv'
      BY <1>1, <1>2, <2>1, <2>2, <3>1 DEF TokensInv, NoToken
    <3>4. \A q \in Ports : HasEvent(q) => HasEvent(q)'
      BY <2>1, <3>1 DEF HasEvent
    <3>5. HasEvent(p)'
      BY <2>1, <3>1 DEF HasEvent
    <3>6. \A q \in Ports : blocker'[q] = blocker[q] \/ (blocker'[q] = NoToken /\ HasEvent(q)')
      BY <2>1, <3>1, <3>5
    <3>7. blocker'[p] = NoToken /\ \A q \in Ports : stok'[q] = IF q = p THEN blocker[p] ELSE stok[q]
      BY <2>1, <3>1
    <3>8. Signalled' => Signalled \/ \E q \in Ports : blocker[q] = waits /\ blocker'[q] = NoToken
      BY <1>1, <3>1, <3>7 DEF Signalled
    <3>9. QED
      BY <3>2, <3>3, <3>4, <3>6, <3>8
  <2>5. CASE Signal(p)
    <3>1. /\ spc[p] = "signal" /\ woken' = woken \cup {stok[p]}
          /\ stok' = [stok EXCEPT ![p] = NoToken]
          /\ spc' = [spc EXCEPT ![p] = IF hungUp[p] THEN "gone" ELSE "idle"]
          /\ size' = size /\ hungUp' = hungUp /\ blocker' = blocker /\ sent' = sent
      BY <2>5 DEF Signal, ports
    <3>2. stok[p] \in 1..MaxWaits /\ stok[p] <= waits
      BY <1>2, <2>1, <3>1 DEF TokensInv, NoToken
    <3>3. TypeOK'
      <4>1. spc' \in [Ports -> {"idle", "signal", "gone"}]
        BY <2>1, <3>1
      <4>2. NoToken \in 0..MaxWaits
        BY <1>2 DEF NoToken
      <4>3. stok' \in [Ports -> 0..MaxWaits]
        BY <2>1, <3>1, <4>2
      <4>4. woken' \subseteq 1..MaxWaits
        BY <2>1, <3>1, <3>2
      <4>5. QED
        BY <1>1, <1>2, <3>1, <4>1, <4>3, <4>4 DEF TypeOK
    <3>4. TokensInv'
      BY <1>1, <1>2, <2>1, <3>1, <3>2 DEF TokensInv, NoToken
    <3>5. \A q \in Ports : HasEvent(q) => HasEvent(q)'
      BY <3>1 DEF HasEvent
    <3>6. \A q \in Ports : stok'[q] = IF q = p THEN 0 ELSE stok[q]
      BY <2>1, <3>1 DEF NoToken
    <3>7. Signalled' => Signalled \/ waits = 0
      BY <1>1, <3>1, <3>6 DEF Signalled
    <3>8. waits = 0 => Signalled
      <4>1. waits = 0 => stok[p] = waits
        BY <2>1, <3>2
      <4>2. QED
        BY <4>1 DEF Signalled
    <3>9. QED
      BY <3>1, <3>3, <3>4, <3>5, <3>7, <3>8
  <2>6. QED
    BY <2>3, <2>4, <2>5
<1>8. StageInv(n, at, S)'
  BY <1>1, <1>2, <1>5, <1>7, SenderStage
<1>9. QED
  BY <1>6, <1>7, <1>8 DEF SelectInv

-----------------------------------------------------------------------------
(* The selecting thread *)

\* A step of the selecting thread: the list stays, and the tokens too.
LEMMA SelectorStage ==
  ASSUME SelectInv, UNCHANGED <<list, senders, woken>>,
         \A n \in Nat : \A at \in [1..n -> Ports] : \A S \in SUBSET Ports :
           Linked(n, at) /\ StageInv(n, at, S) =>
             TypeOK' /\ waits' >= waits /\ \E T \in SUBSET Ports : StageInv(n, at, T)'
  PROVE  SelectInv'
<1>1. PICK n \in Nat : \E at \in [1..n -> Ports] : \E S \in SUBSET Ports :
        Linked(n, at) /\ StageInv(n, at, S)
  BY DEF SelectInv
<1>2. PICK at \in [1..n -> Ports] : \E S \in SUBSET Ports : Linked(n, at) /\ StageInv(n, at, S)
  BY <1>1
<1>3. PICK S \in SUBSET Ports : Linked(n, at) /\ StageInv(n, at, S)
  BY <1>2
<1>4. Linked(n, at)'
  BY <1>3 DEF Linked, list
<1>5. TypeOK' /\ waits' >= waits /\ \E T \in SUBSET Ports : StageInv(n, at, T)'
  BY <1>3
<1>6. TokensInv'
  <2>1. TokensInv /\ stok' = stok /\ spc' = spc /\ woken' = woken
    BY DEF SelectInv, senders
  <2>2. waits \in 0..MaxWaits /\ waits' \in 0..MaxWaits /\ MaxWaits \in Nat
    BY <1>5, SelectAssumption DEF SelectInv, TypeOK
  <2>3. stok \in [Ports -> 0..MaxWaits] /\ woken \subseteq 1..MaxWaits
    BY DEF SelectInv, TypeOK
  <2>4. QED
    BY <1>5, <2>1, <2>2, <2>3 DEF TokensInv, NoToken
<1>7. QED
  BY <1>4, <1>5, <1>6 DEF SelectInv

\* The types after a step of wait2 that makes no token.
LEMMA SelectorTypes ==
  ASSUME TypeOK, UNCHANGED <<list, senders, woken>>,
         size' = size, hungUp' = hungUp, waits' = waits,
         blocker' \in [Ports -> 0..MaxWaits],
         cur' \in Ports \cup {Null}, ready' \in Ports \cup {Null},
         pc' \in {"idle", "preflight", "start", "undo", "wait", "abort"}
  PROVE  TypeOK'
<1>1. /\ size' \in [Ports -> Nat] /\ hungUp' \in [Ports -> BOOLEAN]
      /\ waits' \in 0..MaxWaits
  BY DEF TypeOK
<1>2. /\ stok' \in [Ports -> 0..MaxWaits]
      /\ spc' \in [Ports -> {"idle", "signal", "gone"}] /\ sent' \in [Ports -> Nat]
      /\ woken' \subseteq 1..MaxWaits
  BY DEF TypeOK, senders
<1>3. /\ head' \in Ports \cup {Null} /\ tail' \in Ports \cup {Null}
      /\ next' \in [Ports -> Ports \cup {Null}] /\ prev' \in [Ports -> Ports \cup {Null}]
      /\ added' \in [Ports -> BOOLEAN]
  BY DEF TypeOK, list
<1>4. pc' \in {"idle", "preflight", "start", "undo", "wait", "abort", "panic"}
  OBVIOUS
<1>5. QED
  BY <1>1, <1>2, <1>3, <1>4 DEF TypeOK

\* wait is called: the preflight check begins at the head of the list.
LEMMA WaitCallKeeps == ASSUME SelectInv, WaitCall PROVE SelectInv'
<1>1. TypeOK /\ waits \in 0..MaxWaits
  BY DEF SelectInv, TypeOK
<1>2. /\ pc = "idle" /\ head # Null /\ waits < MaxWaits
      /\ pc' = "preflight" /\ cur' = head /\ ready' = Null /\ waits' = waits
      /\ UNCHANGED <<list, senders, woken>> /\ UNCHANGED ports
  BY DEF WaitCall
<1>3. TypeOK'
  BY <1>1, <1>2 DEF TypeOK, ports, list, senders
<1>4. ASSUME NEW n \in Nat, NEW at \in [1..n -> Ports], NEW S \in SUBSET Ports,
             Linked(n, at), StageInv(n, at, S)
      PROVE  StageInv(n, at, S)'
  <2>1. 1 \in 1..n /\ head = at[1]
    BY <1>2, <1>4 DEF Linked
  <2>2. S = {} /\ Selecting(S)
    BY <1>2, <1>4 DEF StageInv
  <2>3. Selecting(S)'
    BY <1>2, <2>2 DEF Selecting, ports
  <2>4. QED
    BY <1>2, <2>1, <2>2, <2>3 DEF StageInv
<1>5. waits' >= waits
  BY <1>1, <1>2
<1>6. QED
  BY <1>2, <1>3, <1>4, <1>5, SelectorStage

\* can_recv on one port: a handle with an event ends the wait; after the last one
\* the tokens are made, which nobody has.
LEMMA PreflightKeeps == ASSUME SelectInv, Preflight PROVE SelectInv'
<1>1. /\ TypeOK /\ TokensInv /\ waits \in 0..MaxWaits /\ MaxWaits \in Nat
      /\ head \in Ports \cup {Null} /\ next \in [Ports -> Ports \cup {Null}]
      /\ stok \in [Ports -> 0..MaxWaits] /\ blocker \in [Ports -> 0..MaxWaits]
  BY SelectAssumption DEF SelectInv, TypeOK
<1>2. /\ pc = "preflight" /\ UNCHANGED <<list, senders, woken>>
      /\ size' = size /\ hungUp' = hungUp /\ blocker' = blocker /\ added' = added
      /\ stok' = stok /\ woken' = woken /\ sent' = sent /\ spc' = spc
      /\ head' = head /\ tail' = tail /\ next' = next /\ prev' = prev
  BY DEF Preflight, ports, senders, list
<1>3. ASSUME NEW n \in Nat, NEW at \in [1..n -> Ports], NEW S \in SUBSET Ports,
             Linked(n, at), StageInv(n, at, S)
      PROVE  TypeOK' /\ waits' >= waits /\ \E T \in SUBSET Ports : StageInv(n, at, T)'
  <2>1. S = {} /\ Selecting({}) /\ ready = Null /\ waits < MaxWaits
    BY <1>2, <1>3 DEF StageInv
  <2>2. PICK k \in 1..n : cur = at[k]
    BY <1>2, <1>3 DEF StageInv
  <2>3. /\ cur \in Ports /\ added[cur] /\ next[cur] = (IF k = n THEN Null ELSE at[k + 1])
        /\ head = at[1]
    BY <1>3, <2>2 DEF Linked
  <2>4. \A p \in Ports : blocker[p] = NoToken
    BY <2>1 DEF Selecting
  <2>5. Selecting({})'
    BY <1>2, <2>4 DEF Selecting, NoToken
  <2>6. CASE HasEvent(cur)
    <3>1. pc' = "idle" /\ ready' = cur /\ cur' = cur /\ waits' = waits
      BY <2>6 DEF Preflight
    <3>2. HasEvent(ready)' /\ added'[ready']
      BY <1>2, <2>3, <2>6, <3>1 DEF HasEvent
    <3>3. StageInv(n, at, {})'
      BY <2>5, <3>1, <3>2 DEF StageInv
    <3>4. TypeOK'
      BY <1>1, <1>2, <2>3, <3>1, SelectorTypes
    <3>5. QED
      BY <1>1, <3>1, <3>3, <3>4
  <2>7. CASE ~HasEvent(cur) /\ next[cur] # Null
    <3>1. pc' = pc /\ ready' = ready /\ cur' = next[cur] /\ waits' = waits
      BY <2>7 DEF Preflight
    <3>2. k + 1 \in 1..n /\ cur' = at[k + 1] /\ cur' \in Ports
      BY <2>2, <2>3, <2>7, <3>1
    <3>3. StageInv(n, at, {})'
      BY <1>2, <2>1, <2>5, <3>1, <3>2 DEF StageInv
    <3>4. TypeOK'
      BY <1>1, <1>2, <2>1, <3>1, <3>2, SelectorTypes
    <3>5. QED
      BY <1>1, <3>1, <3>3, <3>4
  <2>8. CASE ~HasEvent(cur) /\ next[cur] = Null
    <3>1. pc' = "start" /\ ready' = ready /\ cur' = head /\ waits' = waits + 1
      BY <2>8 DEF Preflight
    <3>2. ~Signalled'
      <4>1. (waits + 1) \notin woken
        BY <1>1 DEF TokensInv
      <4>2. \A p \in Ports : stok[p] # waits + 1
        BY <1>1 DEF TokensInv
      <4>3. QED
        BY <1>2, <3>1, <4>1, <4>2 DEF Signalled
    <3>3. TakenFrom({})'
      BY <3>2 DEF TakenFrom
    <3>4. 1 \in 1..n /\ {} = {at[j] : j \in 1..(1 - 1)}
      BY <2>2
    <3>5. waits' >= 1 /\ waits' \in 0..MaxWaits /\ waits' >= waits
      BY <1>1, <2>1, <3>1
    <3>6. StageInv(n, at, {})'
      <4>1. \E i \in 1..n : cur' = at[i] /\ {} = {at[j] : j \in 1..(i - 1)}
        BY <2>3, <3>1, <3>4
      <4>2. QED
        BY <2>1, <2>5, <3>1, <3>3, <3>5, <4>1 DEF StageInv
    <3>7. TypeOK'
      BY <1>1, <1>2, <3>1, <3>5 DEF TypeOK
    <3>8. QED
      BY <3>5, <3>6, <3>7
  <2>9. QED
    BY <2>6, <2>7, <2>8
<1>4. QED
  BY <1>2, <1>3, SelectorStage

\* start_selection on one port, which has no token yet: it is refused for an
\* event, and the ones before are aborted, or the token is in the port.
LEMMA StartKeeps == ASSUME SelectInv, Start PROVE SelectInv'
<1>1. /\ TypeOK /\ waits \in 0..MaxWaits /\ MaxWaits \in Nat
      /\ blocker \in [Ports -> 0..MaxWaits] /\ head \in Ports \cup {Null}
  BY SelectAssumption DEF SelectInv, TypeOK
<1>2. /\ pc = "start" /\ UNCHANGED <<list, senders, woken>> /\ waits' = waits
      /\ size' = size /\ hungUp' = hungUp /\ added' = added
      /\ stok' = stok /\ woken' = woken /\ sent' = sent /\ spc' = spc
      /\ head' = head /\ tail' = tail /\ next' = next /\ prev' = prev
  BY DEF Start, senders, list
<1>3. ASSUME NEW n \in Nat, NEW at \in [1..n -> Ports], NEW S \in SUBSET Ports,
             Linked(n, at), StageInv(n, at, S)
      PROVE  TypeOK' /\ \E T \in SUBSET Ports : StageInv(n, at, T)'
  <2>1. Selecting(S) /\ ready = Null /\ waits >= 1 /\ TakenFrom(S)
    BY <1>2, <1>3 DEF StageInv
  <2>2. PICK k \in 1..n : cur = at[k] /\ S = {at[j] : j \in 1..(k - 1)}
    BY <1>2, <1>3 DEF StageInv
  <2>3. /\ cur \in Ports /\ added[cur] /\ next[cur] = (IF k = n THEN Null ELSE at[k + 1])
        /\ prev[cur] = (IF k = 1 THEN Null ELSE at[k - 1])
        /\ head = at[1] /\ \A i, j \in 1..n : at[i] = at[j] => i = j
    BY <1>3, <2>2 DEF Linked
  <2>4. cur \notin S
    BY <2>2, <2>3
  <2>5. blocker[cur] = NoToken
    BY <2>1, <2>3, <2>4 DEF Selecting
  <2>6. \A p \in Ports : HasEvent(p)' = HasEvent(p)
    BY <1>2 DEF HasEvent
  <2>7. CASE HasEvent(cur)
    <3>1. /\ ready' = cur /\ blocker' = blocker
          /\ IF prev[cur] # Null THEN pc' = "undo" /\ cur' = head ELSE pc' = "idle" /\ cur' = cur
      BY <2>5, <2>7 DEF Start, MustAbort, Started
    <3>2. Selecting(S)'
      BY <1>2, <2>1, <2>6, <3>1 DEF Selecting, Selected, NoToken
    <3>3. ready' # Null /\ added'[ready'] /\ HasEvent(ready)'
      <4>1. HasEvent(ready)'
        BY <1>2, <2>7, <3>1 DEF HasEvent
      <4>2. QED
        BY <1>2, <2>3, <3>1, <4>1, SelectAssumption
    <3>4. TypeOK'
      <4>1. pc' \in {"undo", "idle"} /\ {cur', ready'} \subseteq Ports \cup {Null}
        BY <1>1, <2>3, <3>1
      <4>2. QED
        BY <1>1, <1>2, <3>1, <4>1 DEF TypeOK
    <3>5. CASE k = 1
      <4>1. pc' = "idle" /\ S = {}
        BY <2>2, <2>3, <3>1, <3>5
      <4>2. StageInv(n, at, S)'
        BY <3>2, <3>3, <4>1 DEF StageInv
      <4>3. QED
        BY <3>4, <4>2
    <3>6. CASE k # 1
      <4>1. prev[cur] # Null
        BY <2>2, <2>3, <3>6, SelectAssumption
      <4>2. pc' = "undo" /\ cur' = at[1]
        BY <2>3, <3>1, <4>1
      <4>3. \E i, m \in 1..n : /\ i < m /\ cur' = at[i] /\ ready' = at[m]
                               /\ S = {at[j] : j \in i..(m - 1)}
        <5>1. 1 \in 1..n /\ 1 < k
          BY <3>6
        <5>2. QED
          BY <2>2, <3>1, <4>2, <5>1
      <4>4. StageInv(n, at, S)'
        BY <1>2, <2>1, <3>2, <3>3, <4>2, <4>3 DEF StageInv
      <4>5. QED
        BY <3>4, <4>4
    <3>7. QED
      BY <3>5, <3>6
  <2>8. CASE ~HasEvent(cur)
    <3>1. /\ ready' = ready /\ blocker' = [blocker EXCEPT ![cur] = waits]
          /\ IF next[cur] = Null THEN pc' = "wait" /\ cur' = cur ELSE pc' = pc /\ cur' = next[cur]
      BY <2>5, <2>8 DEF Start, MustAbort
    <3>2. PICK T : T = {at[j] : j \in 1..k}
      OBVIOUS
    <3>3. T \in SUBSET Ports /\ \A p : p \in T <=> p \in S \/ p = cur
      BY <2>2, <3>2
    <3>4. \A p \in Ports : blocker'[p] = IF p = cur THEN waits ELSE blocker[p]
      BY <1>1, <3>1
    <3>5. Selecting(T)'
      <4>1. ASSUME NEW p \in Ports, p \in T PROVE Selected(p)'
        BY <1>2, <2>1, <2>6, <3>3, <3>4, <4>1 DEF Selecting, Selected, NoToken
      <4>2. ASSUME NEW p \in Ports, p \notin T PROVE blocker'[p] = 0
        BY <2>1, <3>3, <3>4, <4>2 DEF Selecting, NoToken
      <4>3. QED
        BY <3>3, <4>1, <4>2 DEF Selecting, NoToken
    <3>6. TakenFrom(T)'
      <4>1. SUFFICES ASSUME Signalled' PROVE \E p \in T : blocker'[p] = 0
        BY DEF TakenFrom, NoToken
      <4>2. Signalled
        BY <1>2, <4>1 DEF Signalled
      <4>3. PICK p \in S : blocker[p] = 0
        BY <2>1, <4>2 DEF TakenFrom, NoToken
      <4>4. QED
        BY <2>4, <3>3, <3>4, <4>3
    <3>7. TypeOK'
      <4>1. blocker' \in [Ports -> 0..MaxWaits]
        BY <1>1, <3>1
      <4>2. cur' \in Ports /\ pc' \in {"wait", "start"}
        BY <1>2, <2>2, <2>3, <3>1, SelectAssumption
      <4>3. QED
        BY <1>1, <1>2, <2>1, <3>1, <4>1, <4>2, SelectorTypes
    <3>8. CASE k = n
      <4>1. pc' = "wait" /\ n >= 1 /\ T = {at[j] : j \in 1..n}
        BY <2>3, <3>1, <3>2, <3>8
      <4>2. StageInv(n, at, T)'
        BY <1>2, <2>1, <3>1, <3>5, <3>6, <4>1 DEF StageInv
      <4>3. QED
        BY <3>3, <3>7, <4>2
    <3>9. CASE k # n
      <4>1. k + 1 \in 1..n /\ k = (k + 1) - 1
        BY <3>9
      <4>2. at[k + 1] # Null
        BY <4>1, SelectAssumption
      <4>3. pc' = "start" /\ cur' = at[k + 1]
        BY <1>2, <2>3, <3>1, <3>9, <4>2
      <4>4. \E i \in 1..n : cur' = at[i] /\ T = {at[j] : j \in 1..(i - 1)}
        BY <3>2, <4>1, <4>3
      <4>5. StageInv(n, at, T)'
        BY <1>2, <2>1, <3>1, <3>5, <3>6, <4>3, <4>4 DEF StageInv
      <4>6. QED
        BY <3>3, <3>7, <4>5
    <3>10. QED
      BY <3>8, <3>9
  <2>9. QED
    BY <2>7, <2>8
<1>4. waits' >= waits
  BY <1>1, <1>2
<1>5. QED
  BY <1>2, <1>3, <1>4, SelectorStage

\* abort_selection on one of the ports before the one that was refused: a
\* selection was started on it.
LEMMA UndoKeeps == ASSUME SelectInv, Undo PROVE SelectInv'
<1>1. /\ TypeOK /\ waits \in 0..MaxWaits /\ MaxWaits \in Nat
      /\ blocker \in [Ports -> 0..MaxWaits] /\ next \in [Ports -> Ports \cup {Null}]
  BY SelectAssumption DEF SelectInv, TypeOK
<1>2. /\ pc = "undo" /\ UNCHANGED <<list, senders, woken>> /\ waits' = waits
      /\ size' = size /\ hungUp' = hungUp /\ added' = added
      /\ stok' = stok /\ woken' = woken /\ sent' = sent /\ spc' = spc
      /\ head' = head /\ tail' = tail /\ next' = next /\ prev' = prev
      /\ ready' = ready /\ cur' = next[cur]
      /\ blocker' = [blocker EXCEPT ![cur] = NoToken]
      /\ pc' = IF Unstarted(cur) THEN "panic" ELSE IF next[cur] = ready THEN "idle" ELSE "undo"
  BY DEF Undo, senders, list, AbortSelection
<1>3. ASSUME NEW n \in Nat, NEW at \in [1..n -> Ports], NEW S \in SUBSET Ports,
             Linked(n, at), StageInv(n, at, S)
      PROVE  TypeOK' /\ \E T \in SUBSET Ports : StageInv(n, at, T)'
  <2>1. Selecting(S) /\ ready # Null /\ added[ready] /\ HasEvent(ready) /\ waits >= 1
    BY <1>2, <1>3 DEF StageInv
  <2>2. PICK k \in 1..n, m \in 1..n : /\ k < m /\ cur = at[k] /\ ready = at[m]
                                      /\ S = {at[j] : j \in k..(m - 1)}
    BY <1>2, <1>3 DEF StageInv
  <2>3. \A i, j \in 1..n : at[i] = at[j] => i = j
    BY <1>3 DEF Linked
  <2>4. /\ k + 1 \in 1..n /\ cur \in Ports /\ next[cur] = at[k + 1] /\ cur \in S
    <3>1. k + 1 \in 1..n /\ k # n /\ k \in k..(m - 1)
      BY <2>2
    <3>2. next[at[k]] = at[k + 1]
      BY <1>3, <3>1 DEF Linked
    <3>3. QED
      BY <2>2, <3>1, <3>2
  <2>5. ~Unstarted(cur)
    BY <2>1, <2>4 DEF Selecting, Selected, Unstarted, NoToken
  <2>6. \A p \in Ports : blocker'[p] = IF p = cur THEN 0 ELSE blocker[p]
    BY <1>1, <1>2 DEF NoToken
  <2>7. \A p \in Ports : HasEvent(p)' = HasEvent(p)
    BY <1>2 DEF HasEvent
  <2>8. PICK T : T = {at[j] : j \in (k + 1)..(m - 1)}
    OBVIOUS
  <2>9. T \in SUBSET Ports /\ \A p : p \in T <=> p \in S /\ p # cur
    BY <2>2, <2>3, <2>8
  <2>10. Selecting(T)'
    <3>1. ASSUME NEW p \in Ports, p \in T PROVE Selected(p)'
      BY <1>2, <2>1, <2>6, <2>7, <2>9, <3>1 DEF Selecting, Selected, NoToken
    <3>2. ASSUME NEW p \in Ports, p \notin T PROVE blocker'[p] = 0
      BY <2>1, <2>6, <2>9, <3>2 DEF Selecting, NoToken
    <3>3. QED
      BY <2>9, <3>1, <3>2 DEF Selecting, NoToken
  <2>11. added'[ready'] /\ HasEvent(ready)'
    BY <1>2, <2>1 DEF HasEvent
  <2>12. TypeOK'
    <3>1. pc' \in {"idle", "undo"} /\ cur' \in Ports /\ ready' \in Ports
      BY <1>2, <2>2, <2>4, <2>5
    <3>2. NoToken \in 0..MaxWaits
      BY <1>1 DEF NoToken
    <3>3. blocker' \in [Ports -> 0..MaxWaits]
      BY <1>1, <1>2, <3>2
    <3>4. QED
      BY <1>1, <1>2, <3>1, <3>3, SelectorTypes
  <2>13. CASE k + 1 = m
    <3>1. pc' = "idle" /\ T = {}
      BY <1>2, <2>2, <2>4, <2>5, <2>8, <2>13
    <3>2. StageInv(n, at, T)'
      BY <2>10, <2>11, <3>1 DEF StageInv
    <3>3. QED
      BY <2>9, <2>12, <3>2
  <2>14. CASE k + 1 # m
    <3>1. pc' = "undo" /\ k + 1 < m /\ cur' = at[k + 1] /\ ready' = at[m]
      BY <1>2, <2>2, <2>3, <2>4, <2>5, <2>14
    <3>2. \E i, l \in 1..n : /\ i < l /\ cur' = at[i] /\ ready' = at[l]
                             /\ T = {at[j] : j \in i..(l - 1)}
      BY <2>4, <2>8, <3>1
    <3>3. StageInv(n, at, T)'
      BY <1>2, <2>1, <2>10, <2>11, <3>1, <3>2 DEF StageInv
    <3>4. QED
      BY <2>9, <2>12, <3>3
  <2>15. QED
    BY <2>13, <2>14
<1>4. waits' >= waits
  BY <1>1, <1>2
<1>5. QED
  BY <1>2, <1>3, <1>4, SelectorStage

\* The token was signalled, so a sender took it out of a port of the set.
LEMMA WakeKeeps == ASSUME SelectInv, Wake PROVE SelectInv'
<1>1. TypeOK /\ waits \in 0..MaxWaits
  BY DEF SelectInv, TypeOK
<1>2. /\ pc = "wait" /\ waits \in woken /\ UNCHANGED <<list, senders, woken>>
      /\ pc' = "abort" /\ cur' = head /\ ready' = ready /\ waits' = waits
      /\ size' = size /\ hungUp' = hungUp /\ blocker' = blocker
  BY DEF Wake, ports
<1>3. TypeOK'
  BY <1>1, <1>2 DEF TypeOK, list, senders
<1>4. ASSUME NEW n \in Nat, NEW at \in [1..n -> Ports], NEW S \in SUBSET Ports,
             Linked(n, at), StageInv(n, at, S)
      PROVE  StageInv(n, at, S)'
  <2>1. /\ Selecting(S) /\ n >= 1 /\ ready = Null /\ waits >= 1 /\ TakenFrom(S)
        /\ S = {at[j] : j \in 1..n}
    BY <1>2, <1>4 DEF StageInv
  <2>2. \E p \in S : blocker[p] = NoToken
    BY <1>2, <2>1 DEF TakenFrom, Signalled
  <2>3. 1 \in 1..n /\ cur' = at[1]
    BY <1>2, <1>4, <2>1 DEF Linked
  <2>4. Selecting(S)'
    BY <1>2, <2>1 DEF Selecting, Selected, HasEvent, NoToken
  <2>5. \E k \in 1..n : cur' = at[k] /\ S = {at[j] : j \in k..n}
    BY <2>1, <2>3
  <2>6. \E p \in S : blocker'[p] = 0
    BY <1>2, <2>2 DEF NoToken
  <2>7. QED
    BY <1>2, <2>1, <2>4, <2>5, <2>6 DEF StageInv, NoToken
<1>5. waits' >= waits
  BY <1>1, <1>2
<1>6. QED
  BY <1>2, <1>3, <1>4, <1>5, SelectorStage

\* abort_selection on one of all the ports: a token that is gone means an event,
\* and one of them is gone, so that a ready handle is found by the end.
LEMMA AbortKeeps == ASSUME SelectInv, Abort PROVE SelectInv'
<1>1. /\ TypeOK /\ waits \in 0..MaxWaits /\ MaxWaits \in Nat
      /\ blocker \in [Ports -> 0..MaxWaits] /\ next \in [Ports -> Ports \cup {Null}]
      /\ ready \in Ports \cup {Null}
  BY SelectAssumption DEF SelectInv, TypeOK
<1>2. /\ pc = "abort" /\ UNCHANGED <<list, senders, woken>> /\ waits' = waits
      /\ size' = size /\ hungUp' = hungUp /\ added' = added
      /\ stok' = stok /\ woken' = woken /\ sent' = sent /\ spc' = spc
      /\ head' = head /\ tail' = tail /\ next' = next /\ prev' = prev
      /\ ready' = (IF blocker[cur] = NoToken THEN cur ELSE ready) /\ cur' = next[cur]
      /\ blocker' = [blocker EXCEPT ![cur] = NoToken]
      /\ pc' = IF Unstarted(cur) \/ (next[cur] = Null /\ ready' = Null) THEN "panic"
               ELSE IF next[cur] = Null THEN "idle" ELSE "abort"
  BY DEF Abort, senders, list, AbortSelection
<1>3. ASSUME NEW n \in Nat, NEW at \in [1..n -> Ports], NEW S \in SUBSET Ports,
             Linked(n, at), StageInv(n, at, S)
      PROVE  TypeOK' /\ \E T \in SUBSET Ports : StageInv(n, at, T)'
  <2>1. /\ Selecting(S) /\ waits >= 1
        /\ ready # Null => added[ready] /\ HasEvent(ready)
        /\ ready = Null => \E p \in S : blocker[p] = NoToken
    BY <1>2, <1>3 DEF StageInv
  <2>2. PICK k \in 1..n : cur = at[k] /\ S = {at[j] : j \in k..n}
    BY <1>2, <1>3 DEF StageInv
  <2>3. /\ \A i, j \in 1..n : at[i] = at[j] => i = j
        /\ added[cur] /\ next[cur] = (IF k = n THEN Null ELSE at[k + 1])
        /\ cur \in Ports
    BY <1>3, <2>2 DEF Linked
  <2>4. cur \in S
    BY <2>2
  <2>5. ~Unstarted(cur)
    BY <2>1, <2>3, <2>4 DEF Selecting, Selected, Unstarted, NoToken
  <2>6. \A p \in Ports : blocker'[p] = IF p = cur THEN 0 ELSE blocker[p]
    BY <1>1, <1>2 DEF NoToken
  <2>7. \A p \in Ports : HasEvent(p)' = HasEvent(p)
    BY <1>2 DEF HasEvent
  <2>8. PICK T : T = {at[j] : j \in (k + 1)..n}
    OBVIOUS
  <2>9. T \in SUBSET Ports /\ \A p : p \in T <=> p \in S /\ p # cur
    BY <2>2, <2>3, <2>8
  <2>10. Selecting(T)'
    <3>1. ASSUME NEW p \in Ports, p \in T PROVE Selected(p)'
      BY <1>2, <2>1, <2>6, <2>7, <2>9, <3>1 DEF Selecting, Selected, NoToken
    <3>2. ASSUME NEW p \in Ports, p \notin T PROVE blocker'[p] = 0
      BY <2>1, <2>6, <2>9, <3>2 DEF Selecting, NoToken
    <3>3. QED
      BY <2>9, <3>1, <3>2 DEF Selecting, NoToken
  <2>11. blocker[cur] = 0 => HasEvent(cur)
    BY <2>1, <2>3, <2>4 DEF Selecting, Selected, NoToken
  <2>12. ready' # Null => added'[ready'] /\ HasEvent(ready)'
    <3>1. CASE blocker[cur] = 0
      <4>1. ready' = cur /\ added'[ready'] /\ HasEvent(cur)
        BY <1>2, <2>3, <2>11, <3>1 DEF NoToken
      <4>2. QED
        BY <1>2, <4>1 DEF HasEvent
    <3>2. CASE blocker[cur] # 0
      BY <1>2, <2>1, <3>2 DEF NoToken, HasEvent
    <3>3. QED
      BY <3>1, <3>2
  <2>13. ready' = Null => \E p \in T : blocker'[p] = 0
    <3>1. SUFFICES ASSUME ready' = Null PROVE \E p \in T : blocker'[p] = 0
      OBVIOUS
    <3>2. blocker[cur] # 0 /\ ready = Null
      BY <1>2, <2>3, <3>1, SelectAssumption DEF NoToken
    <3>3. PICK p \in S : blocker[p] = 0
      BY <2>1, <3>2 DEF NoToken
    <3>4. QED
      BY <2>6, <2>9, <3>2, <3>3
  <2>14. CASE k = n
    <3>1. T = {} /\ next[cur] = Null
      BY <2>3, <2>8, <2>14
    <3>2. ready' # Null
      BY <2>13, <3>1
    <3>3. pc' = "idle"
      BY <1>2, <2>5, <3>1, <3>2
    <3>4. StageInv(n, at, T)'
      BY <2>10, <2>12, <3>1, <3>3 DEF StageInv
    <3>5. TypeOK'
      <4>1. blocker' \in [Ports -> 0..MaxWaits] /\ {cur', ready'} \subseteq Ports \cup {Null}
        BY <1>1, <1>2, <2>3 DEF NoToken
      <4>2. QED
        BY <1>1, <1>2, <3>3, <4>1, SelectorTypes
    <3>6. QED
      BY <2>9, <3>4, <3>5
  <2>15. CASE k # n
    <3>1. k + 1 \in 1..n /\ next[cur] = at[k + 1]
      BY <2>2, <2>3, <2>15
    <3>2. next[cur] # Null
      BY <3>1, SelectAssumption
    <3>3. pc' = "abort"
      BY <1>2, <2>5, <3>2
    <3>4. \E i \in 1..n : cur' = at[i] /\ T = {at[j] : j \in i..n}
      BY <1>2, <2>8, <3>1
    <3>5. StageInv(n, at, T)'
      BY <1>2, <2>1, <2>10, <2>12, <2>13, <3>3, <3>4 DEF StageInv, NoToken
    <3>6. TypeOK'
      <4>1. blocker' \in [Ports -> 0..MaxWaits] /\ {cur', ready'} \subseteq Ports \cup {Null}
        BY <1>1, <1>2, <2>3 DEF NoToken
      <4>2. QED
        BY <1>1, <1>2, <3>3, <4>1, SelectorTypes
    <3>7. QED
      BY <2>9, <3>5, <3>6
  <2>16. QED
    BY <2>14, <2>15
<1>4. waits' >= waits
  BY <1>1, <1>2
<1>5. QED
  BY <1>2, <1>3, <1>4, SelectorStage

\* recv on the handle that wait returned.
LEMMA RecvKeeps == ASSUME SelectInv, Recv PROVE SelectInv'
<1>1. /\ TypeOK /\ waits \in 0..MaxWaits /\ size \in [Ports -> Nat]
      /\ ready \in Ports \cup {Null}
  BY DEF SelectInv, TypeOK
<1>2. /\ pc = "idle" /\ ready # Null /\ UNCHANGED <<list, senders, woken>>
      /\ pc' = pc /\ cur' = cur /\ ready' = Null /\ waits' = waits
      /\ hungUp' = hungUp /\ blocker' = blocker
      /\ size' = [size EXCEPT ![ready] = IF @ > 0 THEN @ - 1 ELSE @]
  BY DEF Recv
<1>3. TypeOK'
  <2>1. size' \in [Ports -> Nat]
    BY <1>1, <1>2
  <2>2. QED
    BY <1>1, <1>2, <2>1 DEF TypeOK, list, senders
<1>4. ASSUME NEW n \in Nat, NEW at \in [1..n -> Ports], NEW S \in SUBSET Ports,
             Linked(n, at), StageInv(n, at, S)
      PROVE  StageInv(n, at, S)'
  <2>1. S = {} /\ Selecting(S)
    BY <1>2, <1>4 DEF StageInv
  <2>2. Selecting(S)'
    BY <1>2, <2>1 DEF Selecting, NoToken
  <2>3. QED
    BY <1>2, <2>1, <2>2 DEF StageInv
<1>5. waits' >= waits
  BY <1>1, <1>2
<1>6. QED
  BY <1>2, <1>3, <1>4, <1>5, SelectorStage

\* Nothing changes.
LEMMA StutterKeeps == ASSUME SelectInv, UNCHANGED vars PROVE SelectInv'
<1>1. /\ UNCHANGED <<list, senders, woken>> /\ waits' = waits /\ waits \in 0..MaxWaits
      /\ TypeOK'
  BY DEF SelectInv, TypeOK, vars, ports, senders, list, selector
<1>2. ASSUME NEW n \in Nat, NEW at \in [1..n -> Ports], NEW S \in SUBSET Ports,
             Linked(n, at), StageInv(n, at, S)
      PROVE  StageInv(n, at, S)'
  BY <1>2 DEF vars, ports, senders, list, selector, StageInv, Selecting, Selected, HasEvent,
     NoToken, TakenFrom, Signalled
<1>3. waits' >= waits
  BY <1>1
<1>4. QED
  BY <1>1, <1>2, <1>3, SelectorStage

-----------------------------------------------------------------------------
(* The handle list *)

\* The types after a call that relinks the list.
LEMMA ListTypes ==
  ASSUME TypeOK, UNCHANGED <<senders, woken>>,
         size' = size, hungUp' = hungUp, blocker' = blocker,
         pc' = pc, cur' = cur, waits' = waits, ready' \in Ports \cup {Null},
         head' \in Ports \cup {Null}, tail' \in Ports \cup {Null},
         next' \in [Ports -> Ports \cup {Null}], prev' \in [Ports -> Ports \cup {Null}],
         added' \in [Ports -> BOOLEAN]
  PROVE  TypeOK'
<1>1. /\ size' \in [Ports -> Nat] /\ hungUp' \in [Ports -> BOOLEAN]
      /\ blocker' \in [Ports -> 0..MaxWaits]
  BY DEF TypeOK
<1>2. /\ stok' \in [Ports -> 0..MaxWaits]
      /\ spc' \in [Ports -> {"idle", "signal", "gone"}] /\ sent' \in [Ports -> Nat]
      /\ woken' \subseteq 1..MaxWaits
  BY DEF TypeOK, senders
<1>3. /\ pc' \in {"idle", "preflight", "start", "undo", "wait", "abort", "panic"}
      /\ waits' \in 0..MaxWaits /\ cur' \in Ports \cup {Null}
  BY DEF TypeOK
<1>4. QED
  BY <1>1, <1>2, <1>3 DEF TypeOK

\* add puts the handle at the end of the list.
LEMMA AddKeeps == ASSUME SelectInv, NEW h \in Ports, Add(h) PROVE SelectInv'
<1>1. /\ TypeOK /\ TokensInv
      /\ head \in Ports \cup {Null} /\ tail \in Ports \cup {Null}
      /\ next \in [Ports -> Ports \cup {Null}] /\ prev \in [Ports -> Ports \cup {Null}]
      /\ added \in [Ports -> BOOLEAN]
  BY DEF SelectInv, TypeOK
<1>2. /\ pc = "idle" /\ ~added[h] /\ tail' = h /\ added' = [added EXCEPT ![h] = TRUE]
      /\ IF head = Null
         THEN head' = h /\ next' = next /\ prev' = prev
         ELSE /\ prev' = [prev EXCEPT ![h] = tail] /\ next' = [next EXCEPT ![tail] = h]
              /\ head' = head
      /\ size' = size /\ hungUp' = hungUp /\ blocker' = blocker
      /\ spc' = spc /\ sent' = sent /\ stok' = stok /\ woken' = woken
      /\ pc' = pc /\ cur' = cur /\ ready' = ready /\ waits' = waits
  BY DEF Add, ports, senders, selector
<1>3. PICK n \in Nat : \E at \in [1..n -> Ports] : \E S \in SUBSET Ports :
        Linked(n, at) /\ StageInv(n, at, S)
  BY DEF SelectInv
<1>4. PICK at \in [1..n -> Ports] : \E S \in SUBSET Ports : Linked(n, at) /\ StageInv(n, at, S)
  BY <1>3
<1>5. PICK S \in SUBSET Ports : Linked(n, at) /\ StageInv(n, at, S)
  BY <1>4
<1>6. /\ S = {} /\ Selecting(S) /\ (ready # Null => added[ready] /\ HasEvent(ready))
  BY <1>2, <1>5 DEF StageInv
<1>7. head = Null <=> n = 0
  BY <1>5, SelectAssumption DEF Linked
<1>8. n # 0 => tail = at[n] /\ tail \in Ports
  BY <1>5 DEF Linked
<1>9. /\ \A q \in Ports : next'[q] = IF n # 0 /\ q = tail THEN h ELSE next[q]
      /\ \A q \in Ports : prev'[q] = IF n # 0 /\ q = h THEN tail ELSE prev[q]
      /\ \A q \in Ports : added'[q] <=> added[q] \/ q = h
      /\ head' = IF n = 0 THEN h ELSE head
  BY <1>1, <1>2, <1>7, <1>8
<1>10. PICK b : b = [k \in 1..(n + 1) |-> IF k = n + 1 THEN h ELSE at[k]]
  OBVIOUS
<1>11. b \in [1..(n + 1) -> Ports] /\ b[n + 1] = h /\ \A k \in 1..n : b[k] = at[k] /\ b[k] \in Ports
  BY <1>10
<1>12. Linked(n + 1, b)'
  <2>1. /\ \A i, j \in 1..n : at[i] = at[j] => i = j
        /\ \A q \in Ports : added[q] <=> \E k \in 1..n : at[k] = q
        /\ n # 0 => head = at[1] /\ tail = at[n]
        /\ \A k \in 1..n : /\ prev[at[k]] = (IF k = 1 THEN Null ELSE at[k - 1])
                            /\ next[at[k]] = (IF k = n THEN Null ELSE at[k + 1])
        /\ \A q \in Ports : ~added[q] => next[q] = Null /\ prev[q] = Null
    BY <1>5 DEF Linked
  <2>2. \A k \in 1..n : at[k] # h
    BY <1>2, <2>1
  <2>3. \A k \in 1..(n + 1) : k \in 1..n \/ k = n + 1
    OBVIOUS
  <2>4. \A i, j \in 1..(n + 1) : b[i] = b[j] => i = j
    BY <1>11, <2>1, <2>2, <2>3
  <2>5. \A q \in Ports : added'[q] <=> \E k \in 1..(n + 1) : b[k] = q
    BY <1>9, <1>11, <2>1, <2>3
  <2>6. head' = b[1] /\ tail' = b[n + 1]
    BY <1>2, <1>9, <1>11, <2>1
  <2>7. ASSUME NEW k \in 1..(n + 1) PROVE prev'[b[k]] = (IF k = 1 THEN Null ELSE b[k - 1])
    <3>1. CASE k = n + 1
      <4>1. CASE n = 0
        BY <1>2, <1>9, <1>11, <2>1, <3>1, <4>1
      <4>2. CASE n # 0
        <5>1. k - 1 = n /\ n \in 1..n /\ k # 1
          BY <3>1, <4>2
        <5>2. QED
          BY <1>9, <1>11, <2>1, <3>1, <4>2, <5>1
      <4>3. QED
        BY <4>1, <4>2
    <3>2. CASE k \in 1..n
      <4>1. k # 1 => k - 1 \in 1..n
        BY <3>2
      <4>2. b[k] = at[k] /\ b[k] # h /\ (k # 1 => b[k - 1] = at[k - 1])
        BY <1>11, <2>2, <3>2, <4>1
      <4>3. prev'[b[k]] = prev[at[k]]
        BY <1>9, <1>11, <3>2, <4>2
      <4>4. QED
        BY <2>1, <3>2, <4>2, <4>3
    <3>3. QED
      BY <2>3, <3>1, <3>2
  <2>8. ASSUME NEW k \in 1..(n + 1) PROVE next'[b[k]] = (IF k = n + 1 THEN Null ELSE b[k + 1])
    <3>1. CASE k = n + 1
      <4>1. b[k] = h /\ (n # 0 => tail # h)
        BY <1>11, <2>1, <2>2, <3>1
      <4>2. QED
        BY <1>2, <1>9, <2>1, <3>1, <4>1
    <3>2. CASE k \in 1..n
      <4>1. n # 0 /\ n \in 1..n /\ k # n + 1
        BY <3>2
      <4>2. CASE k = n
        <5>1. b[k] = tail /\ b[k] \in Ports /\ b[k + 1] = h
          BY <1>11, <2>1, <4>1, <4>2
        <5>2. QED
          BY <1>9, <4>1, <5>1
      <4>3. CASE k # n
        <5>1. k + 1 \in 1..n
          BY <3>2, <4>3
        <5>2. b[k] = at[k] /\ b[k] # tail /\ b[k + 1] = at[k + 1]
          BY <1>11, <2>1, <3>2, <4>1, <4>3, <5>1
        <5>3. next'[b[k]] = next[at[k]]
          BY <1>9, <1>11, <3>2, <5>2
        <5>4. QED
          BY <2>1, <3>2, <4>1, <4>3, <5>2, <5>3
      <4>4. QED
        BY <4>2, <4>3
    <3>3. QED
      BY <2>3, <3>1, <3>2
  <2>9. ASSUME NEW q \in Ports, ~added'[q] PROVE next'[q] = Null /\ prev'[q] = Null
    <3>1. ~added[q] /\ q # h
      BY <1>9, <2>9
    <3>2. n # 0 => q # tail
      <4>1. n # 0 => n \in 1..n
        OBVIOUS
      <4>2. QED
        BY <2>1, <3>1, <4>1
    <3>3. QED
      BY <1>9, <2>1, <3>1, <3>2
  <2>10. n + 1 # 0
    OBVIOUS
  <2>11. QED
    BY <2>4, <2>5, <2>6, <2>7, <2>8, <2>9, <2>10 DEF Linked
<1>13. StageInv(n + 1, b, S)'
  <2>1. Selecting(S)'
    BY <1>2, <1>6 DEF Selecting, NoToken
  <2>2. ready \in Ports \cup {Null}
    BY <1>1 DEF TypeOK
  <2>3. ready' # Null => added'[ready'] /\ HasEvent(ready)'
    BY <1>2, <1>6, <1>9, <2>2 DEF HasEvent
  <2>4. QED
    BY <1>2, <1>6, <2>1, <2>3 DEF StageInv
<1>14. TypeOK'
  <2>1. /\ head' \in Ports \cup {Null} /\ tail' \in Ports \cup {Null}
        /\ next' \in [Ports -> Ports \cup {Null}] /\ prev' \in [Ports -> Ports \cup {Null}]
        /\ added' \in [Ports -> BOOLEAN]
    BY <1>1, <1>2
  <2>2. ready' \in Ports \cup {Null} /\ UNCHANGED <<senders, woken>>
    BY <1>1, <1>2 DEF TypeOK, senders
  <2>3. QED
    BY <1>1, <1>2, <2>1, <2>2, ListTypes
<1>15. TokensInv'
  BY <1>1, <1>2 DEF TokensInv, NoToken
<1>16. n + 1 \in Nat
  OBVIOUS
<1>17. QED
  BY <1>11, <1>12, <1>13, <1>14, <1>15, <1>16 DEF SelectInv

\* remove takes the handle out of its place and joins its neighbours.
LEMMA RemoveKeeps == ASSUME SelectInv, NEW h \in Ports, Remove(h) PROVE SelectInv'
<1>1. /\ TypeOK /\ TokensInv
      /\ head \in Ports \cup {Null} /\ tail \in Ports \cup {Null} /\ ready \in Ports \cup {Null}
      /\ next \in [Ports -> Ports \cup {Null}] /\ prev \in [Ports -> Ports \cup {Null}]
      /\ added \in [Ports -> BOOLEAN]
  BY DEF SelectInv, TypeOK
<1>2. /\ pc = "idle" /\ added[h] /\ added' = [added EXCEPT ![h] = FALSE]
      /\ head' = IF prev[h] = Null THEN next[h] ELSE head
      /\ tail' = IF next[h] = Null THEN prev[h] ELSE tail
      /\ next' = [p \in Ports |-> IF p = h THEN Null
                                  ELSE IF p = prev[h] THEN next[h] ELSE next[p]]
      /\ prev' = [p \in Ports |-> IF p = h THEN Null
                                  ELSE IF p = next[h] THEN prev[h] ELSE prev[p]]
      /\ ready' = IF ready = h THEN Null ELSE ready
      /\ size' = size /\ hungUp' = hungUp /\ blocker' = blocker
      /\ spc' = spc /\ sent' = sent /\ stok' = stok /\ woken' = woken
      /\ pc' = pc /\ cur' = cur /\ waits' = waits
  BY DEF Remove, ports, senders
<1>3. PICK n \in Nat : \E at \in [1..n -> Ports] : \E S \in SUBSET Ports :
        Linked(n, at) /\ StageInv(n, at, S)
  BY DEF SelectInv
<1>4. PICK at \in [1..n -> Ports] : \E S \in SUBSET Ports : Linked(n, at) /\ StageInv(n, at, S)
  BY <1>3
<1>5. PICK S \in SUBSET Ports : Linked(n, at) /\ StageInv(n, at, S)
  BY <1>4
<1>6. /\ S = {} /\ Selecting(S) /\ (ready # Null => added[ready] /\ HasEvent(ready))
  BY <1>2, <1>5 DEF StageInv
<1>7. /\ \A i, j \in 1..n : at[i] = at[j] => i = j
      /\ \A q \in Ports : added[q] <=> \E k \in 1..n : at[k] = q
      /\ n # 0 => head = at[1] /\ tail = at[n]
      /\ \A k \in 1..n : /\ prev[at[k]] = (IF k = 1 THEN Null ELSE at[k - 1])
                          /\ next[at[k]] = (IF k = n THEN Null ELSE at[k + 1])
      /\ \A q \in Ports : ~added[q] => next[q] = Null /\ prev[q] = Null
  BY <1>5 DEF Linked
<1>8. PICK m \in 1..n : at[m] = h
  BY <1>2, <1>7
<1>9. \A k \in 1..n : at[k] \in Ports /\ at[k] # Null
  BY SelectAssumption
<1>10. /\ prev[h] = (IF m = 1 THEN Null ELSE at[m - 1])
       /\ next[h] = (IF m = n THEN Null ELSE at[m + 1])
  BY <1>7, <1>8
<1>11. PICK c : c = n - 1 /\ c \in Nat
  BY <1>8
<1>12. PICK b : b = [k \in 1..c |-> IF k < m THEN at[k] ELSE at[k + 1]]
  OBVIOUS
<1>13. \A k \in 1..c : k \in 1..n /\ k + 1 \in 1..n
  BY <1>11
<1>14. b \in [1..c -> Ports] /\ \A k \in 1..c : b[k] = IF k < m THEN at[k] ELSE at[k + 1]
  BY <1>12, <1>13
<1>15. \A k \in 1..c : b[k] \in Ports /\ b[k] # h
  BY <1>7, <1>8, <1>13, <1>14
<1>16. Linked(c, b)'
  <2>1. \A i, j \in 1..c : b[i] = b[j] => i = j
    BY <1>7, <1>13, <1>14
  <2>2. \A q \in Ports : added'[q] <=> \E k \in 1..c : b[k] = q
    <3>1. ASSUME NEW q \in Ports, added'[q] PROVE \E k \in 1..c : b[k] = q
      <4>1. added[q] /\ q # h
        BY <1>1, <1>2, <3>1
      <4>2. PICK k \in 1..n : at[k] = q
        BY <1>7, <4>1
      <4>3. k # m
        BY <1>8, <4>1, <4>2
      <4>4. CASE k < m
        <5>1. k \in 1..c
          BY <1>11, <4>4
        <5>2. QED
          BY <1>14, <4>2, <4>4, <5>1
      <4>5. CASE k > m
        <5>1. k - 1 \in 1..c /\ ~(k - 1 < m) /\ (k - 1) + 1 = k
          BY <1>11, <4>5
        <5>2. QED
          BY <1>14, <4>2, <5>1
      <4>6. QED
        BY <4>3, <4>4, <4>5
    <3>2. ASSUME NEW k \in 1..c PROVE added'[b[k]]
      <4>1. added[b[k]]
        BY <1>7, <1>13, <1>14, <1>15
      <4>2. QED
        BY <1>1, <1>2, <1>15, <4>1
    <3>3. QED
      BY <3>1, <3>2
  <2>3. /\ head' = (IF c = 0 THEN Null ELSE b[1])
    <3>1. CASE m = 1
      <4>1. head' = next[h]
        BY <1>2, <1>10, <3>1
      <4>2. c # 0 => 1 \in 1..c /\ b[1] = at[m + 1] /\ m # n
        BY <1>11, <1>14, <3>1
      <4>3. c = 0 => m = n
        BY <1>11
      <4>4. QED
        BY <1>10, <4>1, <4>2, <4>3
    <3>2. CASE m # 1
      <4>1. m - 1 \in 1..n /\ 1 \in 1..c /\ 1 < m /\ n # 0
        BY <1>11, <3>2
      <4>2. prev[h] # Null
        BY <1>9, <1>10, <3>2, <4>1
      <4>3. QED
        BY <1>2, <1>7, <1>14, <4>1, <4>2
    <3>3. QED
      BY <3>1, <3>2
  <2>4. tail' = (IF c = 0 THEN Null ELSE b[c])
    <3>1. CASE m = n
      <4>1. tail' = prev[h]
        BY <1>2, <1>10, <3>1
      <4>2. c # 0 => c \in 1..c /\ c < m /\ m # 1 /\ m - 1 = c
        BY <1>11, <3>1
      <4>3. c = 0 => m = 1
        BY <1>11
      <4>4. QED
        BY <1>10, <1>14, <4>1, <4>2, <4>3
    <3>2. CASE m # n
      <4>1. m + 1 \in 1..n /\ c \in 1..c /\ ~(c < m) /\ n # 0 /\ c + 1 = n
        BY <1>11, <3>2
      <4>2. next[h] # Null
        BY <1>9, <1>10, <3>2, <4>1
      <4>3. QED
        BY <1>2, <1>7, <1>14, <4>1, <4>2
    <3>3. QED
      BY <3>1, <3>2
  <2>5. ASSUME NEW k \in 1..c PROVE prev'[b[k]] = (IF k = 1 THEN Null ELSE b[k - 1])
    <3>0. prev'[b[k]] = IF b[k] = next[h] THEN prev[h] ELSE prev[b[k]]
      BY <1>2, <1>15
    <3>1. CASE k < m
      <4>1. b[k] = at[k] /\ k \in 1..n /\ (k # 1 => k - 1 \in 1..c /\ k - 1 < m)
        BY <1>11, <1>13, <1>14, <3>1
      <4>2. k # 1 => b[k - 1] = at[k - 1]
        BY <1>14, <4>1
      <4>3. at[k] # next[h]
        <5>1. m # n => m + 1 \in 1..n /\ m + 1 # k
          BY <1>11, <3>1
        <5>2. CASE m = n
          BY <1>9, <1>10, <4>1, <5>2
        <5>3. CASE m # n
          BY <1>7, <1>10, <4>1, <5>1, <5>3
        <5>4. QED
          BY <5>2, <5>3
      <4>4. QED
        BY <1>7, <3>0, <4>1, <4>2, <4>3
    <3>2. CASE k = m
      <4>1. b[k] = at[m + 1] /\ m # n
        BY <1>11, <1>14, <3>2
      <4>2. prev'[b[k]] = prev[h]
        BY <1>10, <3>0, <4>1
      <4>3. k # 1 => k - 1 \in 1..c /\ k - 1 < m
        BY <1>11, <3>2
      <4>4. k # 1 => b[k - 1] = at[m - 1]
        BY <1>14, <3>2, <4>3
      <4>5. QED
        BY <1>10, <3>2, <4>2, <4>4
    <3>3. CASE k > m
      <4>1. k + 1 \in 1..n /\ k + 1 # 1 /\ k # 1 /\ (k + 1) - 1 = k /\ k - 1 \in 1..c
            /\ ~(k - 1 < m) /\ ~(k < m) /\ (k - 1) + 1 = k
        BY <1>11, <3>3
      <4>2. b[k] = at[k + 1] /\ b[k - 1] = at[k]
        BY <1>14, <4>1
      <4>3. at[k + 1] # next[h]
        <5>1. m # n => m + 1 \in 1..n /\ m + 1 # k + 1
          BY <3>3
        <5>2. QED
          BY <1>7, <1>9, <1>10, <4>1, <5>1
      <4>4. prev[at[k + 1]] = at[k]
        BY <1>7, <4>1
      <4>5. QED
        BY <3>0, <4>1, <4>2, <4>3, <4>4
    <3>4. QED
      BY <3>1, <3>2, <3>3
  <2>6. ASSUME NEW k \in 1..c PROVE next'[b[k]] = (IF k = c THEN Null ELSE b[k + 1])
    <3>0. next'[b[k]] = IF b[k] = prev[h] THEN next[h] ELSE next[b[k]]
      BY <1>2, <1>15
    <3>1. CASE k < m - 1
      <4>1. /\ k < m /\ k \in 1..n /\ k # c /\ k + 1 \in 1..c /\ k + 1 < m /\ k # n
            /\ m # 1 /\ m - 1 \in 1..n /\ m - 1 # k
        BY <1>11, <3>1
      <4>2. b[k] = at[k] /\ b[k + 1] = at[k + 1] /\ next[at[k]] = at[k + 1]
        BY <1>7, <1>14, <4>1
      <4>3. at[k] # prev[h]
        BY <1>7, <1>10, <4>1
      <4>4. QED
        BY <3>0, <4>1, <4>2, <4>3
    <3>2. CASE k = m - 1
      <4>1. k < m /\ m # 1
        BY <3>2
      <4>2. b[k] = prev[h]
        BY <1>10, <1>14, <3>2, <4>1
      <4>3. next'[b[k]] = next[h]
        BY <3>0, <4>2
      <4>4. k # c => k + 1 \in 1..c /\ ~(k + 1 < m) /\ (k + 1) + 1 = m + 1 /\ m # n
        BY <1>11, <3>2
      <4>5. k # c => b[k + 1] = at[m + 1]
        BY <1>14, <4>4
      <4>6. k = c => m = n
        BY <1>11, <3>2
      <4>7. QED
        BY <1>10, <4>3, <4>4, <4>5, <4>6
    <3>3. CASE k >= m
      <4>1. /\ ~(k < m) /\ k + 1 \in 1..n /\ (k = c <=> k + 1 = n)
            /\ (k # c => k + 1 \in 1..c /\ ~(k + 1 < m))
        BY <1>11, <3>3
      <4>2. b[k] = at[k + 1] /\ (k # c => b[k + 1] = at[(k + 1) + 1])
        BY <1>14, <4>1
      <4>3. at[k + 1] # prev[h]
        <5>1. m # 1 => m - 1 \in 1..n /\ m - 1 # k + 1
          BY <3>3
        <5>2. QED
          BY <1>7, <1>9, <1>10, <4>1, <5>1
      <4>4. next[at[k + 1]] = IF k + 1 = n THEN Null ELSE at[(k + 1) + 1]
        BY <1>7, <4>1
      <4>5. QED
        BY <3>0, <4>1, <4>2, <4>3, <4>4
    <3>4. QED
      BY <3>1, <3>2, <3>3
  <2>7. ASSUME NEW q \in Ports, ~added'[q] PROVE next'[q] = Null /\ prev'[q] = Null
    <3>1. CASE q = h
      BY <1>2, <3>1
    <3>2. CASE q # h
      <4>1. ~added[q]
        BY <1>1, <1>2, <2>7, <3>2
      <4>2. \A k \in 1..n : at[k] # q
        BY <1>7, <4>1
      <4>3. (m # 1 => m - 1 \in 1..n) /\ (m # n => m + 1 \in 1..n)
        OBVIOUS
      <4>4. q # prev[h] /\ q # next[h]
        BY <1>10, <4>2, <4>3, SelectAssumption
      <4>5. QED
        BY <1>2, <1>7, <3>2, <4>1, <4>4
    <3>3. QED
      BY <3>1, <3>2
  <2>8. QED
    BY <2>1, <2>2, <2>3, <2>4, <2>5, <2>6, <2>7 DEF Linked
<1>17. StageInv(c, b, S)'
  <2>1. Selecting(S)'
    BY <1>2, <1>6 DEF Selecting, NoToken
  <2>2. ready' # Null => added'[ready'] /\ HasEvent(ready)'
    BY <1>1, <1>2, <1>6 DEF HasEvent
  <2>3. QED
    BY <1>2, <1>6, <2>1, <2>2 DEF StageInv
<1>18. TypeOK'
  <2>1. /\ head' \in Ports \cup {Null} /\ tail' \in Ports \cup {Null}
        /\ ready' \in Ports \cup {Null}
    BY <1>1, <1>2
  <2>2. next' \in [Ports -> Ports \cup {Null}] /\ prev' \in [Ports -> Ports \cup {Null}]
    BY <1>1, <1>2
  <2>3. added' \in [Ports -> BOOLEAN]
    BY <1>1, <1>2
  <2>4. UNCHANGED <<senders, woken>>
    BY <1>2 DEF senders
  <2>5. QED
    BY <1>1, <1>2, <2>1, <2>2, <2>3, <2>4, ListTypes
<1>19. TokensInv'
  BY <1>1, <1>2 DEF TokensInv, NoToken
<1>20. QED
  BY <1>11, <1>14, <1>16, <1>17, <1>18, <1>19 DEF SelectInv

-----------------------------------------------------------------------------
(* The theorem *)

\* A list has no more handles than there are ports.
LEMMA ListFits == ASSUME NEW n \in Nat, NEW at \in [1..n -> Ports], Linked(n, at)
                  PROVE  n <= Cardinality(Ports)
<1>1. \A i, j \in 1..n : at[i] = at[j] => i = j
  BY DEF Linked
<1>2. at \in Injection(1..n, Ports)
  BY <1>1, Fun_IsInj
<1>3. IsFiniteSet(1..n) /\ Cardinality(1..n) = n
  BY FS_Interval
<1>4. IsFiniteSet(Ports)
  BY SelectAssumption
<1>5. Cardinality(1..n) <= Cardinality(Ports)
  BY <1>2, <1>4, FS_Injection
<1>6. QED
  BY <1>3, <1>5

\* What the inductive invariant says of wait.
LEMMA InvGivesSound == ASSUME SelectInv PROVE WaitSound
<1>1. PICK n \in Nat : \E at \in [1..n -> Ports] : \E S \in SUBSET Ports :
        Linked(n, at) /\ StageInv(n, at, S)
  BY DEF SelectInv
<1>2. PICK at \in [1..n -> Ports] : \E S \in SUBSET Ports : Linked(n, at) /\ StageInv(n, at, S)
  BY <1>1
<1>3. PICK S \in SUBSET Ports : Linked(n, at) /\ StageInv(n, at, S)
  BY <1>2
<1>4. HandleList
  <2>1. IsFiniteSet(Ports)
    BY SelectAssumption
  <2>2. Cardinality(Ports) \in Nat /\ n <= Cardinality(Ports)
    BY <1>3, <2>1, ListFits, FS_CardinalityType
  <2>3. n \in 0..Cardinality(Ports)
    BY <2>2
  <2>4. QED
    BY <1>3, <2>3 DEF HandleList
<1>5. TypeOK /\ pc # "panic" /\ Selecting(S)
  BY <1>3 DEF SelectInv, StageInv
<1>6. pc = "idle" => S = {} /\ (ready # Null => added[ready] /\ HasEvent(ready))
  BY <1>3 DEF StageInv
<1>7. pc = "idle" => \A p \in Ports : blocker[p] = NoToken
  BY <1>5, <1>6 DEF Selecting
<1>8. \A p \in S : added[p]
  <2>1. \A k \in 1..n : added[at[k]]
    BY <1>3 DEF Linked
  <2>2. pc \in {"idle", "preflight", "start", "undo", "wait", "abort"}
    BY <1>5 DEF TypeOK
  <2>3. ASSUME NEW p \in S PROVE \E k \in 1..n : p = at[k]
    <3>1. CASE pc \in {"idle", "preflight"}
      BY <1>3, <3>1 DEF StageInv
    <3>2. CASE pc = "start"
      <4>1. PICK k \in 1..n : S = {at[j] : j \in 1..(k - 1)}
        BY <1>3, <3>2 DEF StageInv
      <4>2. QED
        BY <4>1
    <3>3. CASE pc = "undo"
      <4>1. PICK k \in 1..n, m \in 1..n : S = {at[j] : j \in k..(m - 1)}
        BY <1>3, <3>3 DEF StageInv
      <4>2. QED
        BY <4>1
    <3>4. CASE pc = "wait"
      <4>1. S = {at[j] : j \in 1..n}
        BY <1>3, <3>4 DEF StageInv
      <4>2. QED
        BY <4>1
    <3>5. CASE pc = "abort"
      <4>1. PICK k \in 1..n : S = {at[j] : j \in k..n}
        BY <1>3, <3>5 DEF StageInv
      <4>2. QED
        BY <4>1
    <3>6. QED
      BY <2>2, <3>1, <3>2, <3>3, <3>4, <3>5
  <2>4. QED
    BY <2>1, <2>3
<1>9. \A p \in Ports : blocker[p] # NoToken => added[p] /\ blocker[p] = waits
  BY <1>5, <1>8 DEF Selecting, Selected
<1>10. QED
  BY <1>4, <1>5, <1>6, <1>7, <1>9 DEF WaitSound

\* wait over any set of ports returns a handle of the set that has an event, with
\* no token left in a port, whatever the senders do meanwhile; none of its
\* unreachable!() and panics is reached, and the list of handles is whole.
THEOREM SelectIsSound == Spec => []WaitSound
<1>1. Init => SelectInv
  BY SelectStarts
<1>2. SelectInv /\ [Next]_vars => SelectInv'
  BY SenderKeeps, AddKeeps, RemoveKeeps, WaitCallKeeps, PreflightKeeps, StartKeeps,
     UndoKeeps, WakeKeeps, AbortKeeps, RecvKeeps, StutterKeeps
     DEF Next, SelectorStep, Terminated
<1>3. SelectInv => WaitSound
  BY InvGivesSound
<1>4. QED
  BY <1>1, <1>2, <1>3, PTL DEF Spec
=============================================================================
