----------------------------- MODULE ThreadPark -----------------------------
(***************************************************************************)
(* thread::park, park_timeout and Thread::unpark (src/thread/mod.rs): the  *)
(* atomic `state' of a thread's Inner, its Mutex and its Condvar.  One     *)
(* owner parks; every thread of Unparkers may unpark it.  The Condvar has  *)
(* one waiter, the owner; it may wake spuriously.                          *)
(***************************************************************************)
EXTENDS Naturals, FiniteSets

CONSTANTS Unparkers,
          Owner,        \* the thread that parks
          Nobody,       \* the mutex is free
          MaxParks,     \* bound on park and park_timeout calls
          MaxUnparks    \* bound on unpark calls, all threads together

ASSUME ParkAssumption ==
  /\ Owner \notin Unparkers /\ Nobody \notin Unparkers \cup {Owner}
  /\ MaxParks \in Nat /\ MaxUnparks \in Nat

VARIABLES
  state,      \* EMPTY, PARKED or NOTIFIED
  lock,       \* the holder of Inner::lock
  opc, upc,    \* locations of the owner and of the unparkers
  kind,       \* the owner's call: park or park_timeout
  parks, unparks,      \* calls made
  owed        \* unparks that have returned since the owner's last return

parkVars == <<state, lock, opc, upc, kind, parks, unparks, owed>>

InitPark ==
  /\ state = "EMPTY" /\ lock = Nobody
  /\ opc = "idle" /\ upc = [u \in Unparkers |-> "idle"]
  /\ kind = "park" /\ parks = 0 /\ unparks = 0 /\ owed = 0

-----------------------------------------------------------------------------
(* The owner *)

ParkReturn ==
  /\ opc' = "idle"
  /\ owed' = 0

ParkCall ==
  /\ opc = "idle" /\ parks < MaxParks
  /\ parks' = parks + 1 /\ kind' \in {"park", "park_timeout"} /\ opc' = "fast"
  /\ UNCHANGED <<state, lock, upc, unparks, owed>>

\* The fast path consumes a notification.
ParkFast ==
  /\ opc = "fast"
  /\ IF state = "NOTIFIED" THEN state' = "EMPTY" /\ ParkReturn
     ELSE opc' = "lock" /\ UNCHANGED <<state, owed>>
  /\ UNCHANGED <<lock, upc, kind, parks, unparks>>

ParkLock ==
  /\ opc \in {"lock", "relock"} /\ lock = Nobody
  /\ lock' = Owner /\ opc' = IF opc = "lock" THEN "announce" ELSE "recheck"
  /\ UNCHANGED <<state, upc, kind, parks, unparks, owed>>

\* compare_exchange(EMPTY, PARKED); a notification that came in after the fast
\* path makes park return at once, with NOTIFIED left in the state.
ParkAnnounce ==
  /\ opc = "announce"
  /\ IF state = "NOTIFIED"
     THEN ParkReturn /\ lock' = Nobody /\ UNCHANGED state
     ELSE /\ state' = "PARKED" /\ opc' = IF state = "EMPTY" THEN "wait" ELSE "panic"
          /\ UNCHANGED <<lock, owed>>
  /\ UNCHANGED <<upc, kind, parks, unparks>>

\* Condvar::wait: the mutex is released and the owner queued in one step.
CvarWait ==
  /\ opc = "wait"
  /\ lock' = Nobody /\ opc' = "asleep"
  /\ UNCHANGED <<state, upc, kind, parks, unparks, owed>>

\* The owner may wake spuriously, and does when its timeout has passed.
CvarSpurious ==
  /\ opc = "asleep"
  /\ opc' = "relock"
  /\ UNCHANGED <<state, lock, upc, kind, parks, unparks, owed>>

\* park goes back to sleep unless it was notified; park_timeout always returns.
ParkRecheck ==
  /\ opc = "recheck"
  /\ \/ /\ kind = "park" /\ state = "NOTIFIED"
        /\ state' = "EMPTY" /\ lock' = Nobody /\ ParkReturn
     \/ /\ kind = "park" /\ state # "NOTIFIED"
        /\ opc' = "wait" /\ UNCHANGED <<state, lock, owed>>
     \/ /\ kind = "park_timeout"
        /\ state' = "EMPTY" /\ lock' = Nobody
        /\ IF state = "EMPTY" THEN opc' = "panic" /\ UNCHANGED owed
                              ELSE ParkReturn
  /\ UNCHANGED <<upc, kind, parks, unparks>>

-----------------------------------------------------------------------------
(* Unparkers *)

At(u, l) == upc' = [upc EXCEPT ![u] = l]
UnparkReturn(u) == At(u, "idle") /\ owed' = owed + 1

UnparkCall(u) ==
  /\ upc[u] = "idle" /\ unparks < MaxUnparks
  /\ unparks' = unparks + 1 /\ At(u, "cas")
  /\ UNCHANGED <<state, lock, opc, kind, parks, owed>>

\* compare_exchange(EMPTY, NOTIFIED): done unless the owner is PARKED.
UnparkCas(u) ==
  /\ upc[u] = "cas"
  /\ IF state = "PARKED" THEN At(u, "lock") /\ UNCHANGED <<state, owed>>
                         ELSE state' = "NOTIFIED" /\ UnparkReturn(u)
  /\ UNCHANGED <<lock, opc, kind, parks, unparks>>

\* Mutant: the wakeup is not coordinated through the mutex.
MayNotify_Mutant(u) == TRUE
MayNotify(u) == lock = Nobody

UnparkLock(u) ==
  /\ upc[u] = "lock" /\ MayNotify(u)
  /\ lock' = u /\ At(u, "notify")
  /\ UNCHANGED <<state, opc, kind, parks, unparks, owed>>

\* Mutant: the state is set but the Condvar is not notified.
NotifyOne_Mutant == UNCHANGED opc
NotifyOne == opc' = IF opc = "asleep" THEN "relock" ELSE opc

\* Under the mutex: PARKED becomes NOTIFIED and the Condvar is notified; an
\* owner that went away in between makes the call start over.
UnparkNotify(u) ==
  /\ upc[u] = "notify"
  /\ lock' = Nobody
  /\ \/ /\ state = "PARKED" /\ state' = "NOTIFIED" /\ NotifyOne
        /\ UnparkReturn(u)
     \/ state = "NOTIFIED" /\ UnparkReturn(u) /\ UNCHANGED <<state, opc>>
     \/ state = "EMPTY" /\ At(u, "cas") /\ UNCHANGED <<state, opc, owed>>
  /\ UNCHANGED <<kind, parks, unparks>>

OwnerStep ==
  \/ ParkFast \/ ParkLock \/ ParkAnnounce \/ CvarWait \/ ParkRecheck
UnparkStep(u) == UnparkCas(u) \/ UnparkLock(u) \/ UnparkNotify(u)

\* Nobody is left to unpark and the owner is done or sleeps for good.
ParkTerminated ==
  /\ unparks = MaxUnparks /\ \A u \in Unparkers : upc[u] = "idle"
  /\ \/ opc = "idle" /\ parks = MaxParks
     \/ opc = "asleep" /\ state = "PARKED"
  /\ UNCHANGED parkVars

NextPark ==
  \/ ParkCall \/ OwnerStep \/ CvarSpurious
  \/ \E u \in Unparkers : UnparkCall(u) \/ UnparkStep(u)
  \/ ParkTerminated

SpecPark == InitPark /\ [][NextPark]_parkVars

\* Threads are scheduled and the mutex is granted to a thread that keeps asking
\* for it; a thread never has to call, or to wake spuriously.
FairSpecPark ==
  /\ SpecPark /\ SF_parkVars(OwnerStep)
  /\ \A u \in Unparkers : SF_parkVars(UnparkStep(u))

-----------------------------------------------------------------------------
ParkTypeOK ==
  /\ state \in {"EMPTY", "PARKED", "NOTIFIED"}
  /\ lock \in Unparkers \cup {Owner, Nobody}
  /\ opc \in {"idle", "fast", "lock", "announce", "wait", "asleep", "relock",
             "recheck", "panic"}
  /\ upc \in [Unparkers -> {"idle", "cas", "lock", "notify"}]
  /\ kind \in {"park", "park_timeout"} /\ parks \in Nat /\ unparks \in Nat
  /\ owed \in Nat

\* The "inconsistent park state" panics are unreachable: the owner never finds
\* its own PARKED flag from an earlier call.
NoPanic == opc # "panic"

\* An owner that sleeps in the Condvar has not been notified: nobody set
\* NOTIFIED between its announcement and its sleep without waking it.
NoLostUnpark == opc = "asleep" => state = "PARKED"

\* The park word and the thread's whereabouts always agree.
ParkSound == NoPanic /\ NoLostUnpark

\* An unpark that has returned lets the current or next untimed park return.
UnparkReleases == (owed > 0 /\ opc # "idle") ~> opc = "idle"

-----------------------------------------------------------------------------
(* The inductive invariant: the mutex protects the change from PARKED.      *)

ParkInv ==
  /\ ParkTypeOK /\ NoPanic /\ NoLostUnpark
  /\ lock = Owner <=> opc \in {"announce", "wait", "recheck"}
  /\ \A u \in Unparkers : lock = u <=> upc[u] = "notify"
  /\ opc \in {"idle", "fast", "lock", "announce"} => state # "PARKED"
  /\ opc \in {"relock", "recheck"} => state # "EMPTY"
  /\ opc = "wait" => state = "PARKED"

=============================================================================
