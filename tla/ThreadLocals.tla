---------------------------- MODULE ThreadLocals ----------------------------
(***************************************************************************)
(* thread_local! values and what becomes of them when their thread ends:   *)
(* the fast keys with the list of destructors behind one OS key, the keys  *)
(* that are OS keys themselves (src/thread/local.rs,                       *)
(* src/sys_common/thread_local.rs), and the race to create an OS key.      *)
(* A destructor is user code, and may use other keys and its own.          *)
(* External: pthread's keys and its rounds of destructors.                 *)
(***************************************************************************)
EXTENDS Integers, Sequences, FiniteSets, SequencesExt

CONSTANTS
  Locals,               \* the threads
  FastKeys, OsKeys,     \* the thread_local! keys of the two kinds
  Dtors,                \* DTORS, the OS key of the list of destructors
  Unowned,              \* a pthread key that does not exist
  Rounds,               \* PTHREAD_DESTRUCTOR_ITERATIONS
  MaxUses               \* bound: how often the threads use their keys

ASSUME LocalsAssumption ==
  /\ FastKeys \cap OsKeys = {} /\ Dtors \notin FastKeys \cup OsKeys
  /\ Unowned \notin OsKeys \cup {Dtors}
  /\ Rounds \in Nat \ {0} /\ MaxUses \in Nat

LocalKeys == FastKeys \cup OsKeys
StaticKeys == OsKeys \cup {Dtors}
\* Enough pthread keys for every creation that can be going on.
Numbers == 1..Cardinality(StaticKeys) + Cardinality(Locals)

VARIABLES
  static,       \* StaticKey::key, 0 before it is created
  owner,        \* which StaticKey each pthread key was created for
  spec,         \* each thread's values of the pthread keys: null, one or box
  list,         \* the list in the box under DTORS
  slot,         \* a key's value: none, some or dropping; fast keys have two flags
  use,          \* the use of a key that is going on: idle, create or cas
  exit,         \* where the end of the thread is: its body, scan, list, drop, over
  uses,         \* how often a key was used
  made, dropped \* how many values each key got and lost

localVars == <<static, owner, spec, list, slot, use, exit, uses, made, dropped>>

StaticOf(k) == IF k \in FastKeys THEN Dtors ELSE k
NoUse == [at |-> "idle", key |-> Dtors, num |-> 0]
Body == [at |-> "body", round |-> 1, num |-> 1, todo |-> <<>>, key |-> Dtors]

InitLocals ==
  /\ static = [s \in StaticKeys |-> 0] /\ owner = [n \in Numbers |-> Unowned]
  /\ spec = [t \in Locals |-> [n \in Numbers |-> "null"]]
  /\ list = [t \in Locals |-> <<>>]
  /\ slot = [t \in Locals |-> [k \in LocalKeys |->
               [value |-> "none", registered |-> FALSE, running |-> FALSE]]]
  /\ use = [t \in Locals |-> NoUse] /\ exit = [t \in Locals |-> Body]
  /\ uses = 0
  /\ made = [t \in Locals |-> [k \in LocalKeys |-> 0]] /\ dropped = made

-----------------------------------------------------------------------------
(* LocalKey::try_with *)

\* The value is initialised first and moved in afterwards, so a panic leaves none.
Initialise(t, k) ==
  \/ slot[t][k].value = "none" /\ made' = [made EXCEPT ![t][k] = @ + 1]
  \/ UNCHANGED made

ValueAfter(t, k) ==
  IF made'[t][k] > made[t][k] THEN "some" ELSE slot[t][k].value

\* What get and try_with do once the OS key has the number n: a fast key registers
\* its destructor, an OS key allocates its value unless it is being destroyed.
Reach(t, k, n) ==
  \/ /\ k \in FastKeys /\ Initialise(t, k)
     /\ spec' = [spec EXCEPT ![t][n] = "box"]
     /\ list' = [list EXCEPT ![t] = Append(@, k)]
     /\ slot' = [slot EXCEPT ![t][k].registered = TRUE, ![t][k].value = ValueAfter(t, k)]
  \/ /\ k \in OsKeys /\ spec[t][n] # "one" /\ Initialise(t, k)
     /\ spec' = [spec EXCEPT ![t][n] = "box"]
     /\ slot' = [slot EXCEPT ![t][k].value = ValueAfter(t, k)]
     /\ UNCHANGED list
  \/ k \in OsKeys /\ spec[t][n] = "one" /\ UNCHANGED <<spec, list, slot, made>>

TryWith(t, k) ==
  LET s == slot[t][k]
      n == static[StaticOf(k)]
  IN  /\ use[t] = NoUse /\ exit[t].at \in {"body", "drop"} /\ uses < MaxUses
      /\ uses' = uses + 1
      /\ \/ s.running /\ UNCHANGED <<use, spec, list, slot, made>>
         \/ /\ ~s.running /\ s.registered /\ Initialise(t, k)
            /\ slot' = [slot EXCEPT ![t][k].value = ValueAfter(t, k)]
            /\ UNCHANGED <<use, spec, list>>
         \/ /\ ~s.running /\ ~s.registered /\ n = 0
            /\ use' = [use EXCEPT ![t] = [at |-> "create", key |-> k, num |-> 0]]
            /\ UNCHANGED <<spec, list, slot, made>>
         \/ /\ ~s.running /\ ~s.registered /\ n # 0 /\ Reach(t, k, n)
            /\ UNCHANGED use
      /\ UNCHANGED <<static, owner, exit, dropped>>

\* StaticKey::lazy_init: a key number of 0 is exchanged for another one before it is
\* looked at, so that what is created here is never 0.
LazyCreate(t) ==
  /\ use[t].at = "create"
  /\ \E n \in Numbers :
       /\ owner[n] = Unowned /\ \A m \in Numbers : m < n => owner[m] # Unowned
       /\ owner' = [owner EXCEPT ![n] = StaticOf(use[t].key)]
       /\ use' = [use EXCEPT ![t].at = "cas", ![t].num = n]
  /\ UNCHANGED <<static, spec, list, slot, exit, uses, made, dropped>>

LazyCas(t) ==
  LET k == use[t].key
      s == StaticOf(k)
      won == static[s] = 0
  IN  /\ use[t].at = "cas"
      /\ static' = [static EXCEPT ![s] = IF won THEN use[t].num ELSE @]
      /\ owner' = [owner EXCEPT ![use[t].num] = IF won THEN @ ELSE Unowned]
      /\ Reach(t, k, static'[s])
      /\ use' = [use EXCEPT ![t] = NoUse]
      /\ UNCHANGED <<exit, uses, dropped>>

-----------------------------------------------------------------------------
(* The end of a thread *)

Exit(t) ==
  /\ exit[t].at = "body" /\ use[t] = NoUse
  /\ exit' = [exit EXCEPT ![t].at = "scan"]
  /\ UNCHANGED <<static, owner, spec, list, slot, use, uses, made, dropped>>

\* While the value of an OS key is dropped, the key says so.  Mutant: it is null.
Sentinel_Mutant == "null"
Sentinel == "one"

\* pthread takes the keys in order, for at most Rounds rounds, and sets each to null
\* before it calls its destructor.
Scan(t) ==
  LET e == exit[t]
      full == {n \in Numbers : spec[t][n] # "null"}
      n == e.num
      s == owner[n]
  IN  /\ e.at = "scan"
      /\ \/ /\ n \in full /\ s = Dtors
            /\ spec' = [spec EXCEPT ![t][n] = "null"]
            /\ exit' = [exit EXCEPT ![t].at = "list", ![t].todo = list[t]]
            /\ list' = [list EXCEPT ![t] = <<>>] /\ UNCHANGED slot
         \/ /\ n \in full /\ s # Dtors
            /\ spec' = [spec EXCEPT ![t][n] = Sentinel]
            /\ slot' = [slot EXCEPT ![t][s].value = IF @ = "none" THEN @ ELSE "dropping"]
            /\ exit' = [exit EXCEPT ![t].at = "drop", ![t].key = s] /\ UNCHANGED list
         \/ /\ n \notin full
            /\ exit' = [exit EXCEPT ![t] =
                          IF \E m \in full : m > n THEN [e EXCEPT !.num = n + 1]
                          ELSE IF full # {} /\ e.round < Rounds
                          THEN [e EXCEPT !.num = 1, !.round = @ + 1]
                          ELSE [e EXCEPT !.at = "over"]]
            /\ UNCHANGED <<spec, list, slot>>
      /\ UNCHANGED <<static, owner, use, uses, made, dropped>>

\* run_dtors: the next entry of the list, a list that was begun since, or the end.
RunDtors(t) ==
  LET e == exit[t]
      k == Head(e.todo)
      n == static[Dtors]
  IN  /\ e.at = "list"
      /\ \/ /\ e.todo # <<>>
            /\ exit' = [exit EXCEPT ![t].at = "drop", ![t].key = k, ![t].todo = Tail(@)]
            /\ slot' = [slot EXCEPT ![t][k].running = TRUE,
                                    ![t][k].value = IF @ = "none" THEN @ ELSE "dropping"]
            /\ UNCHANGED <<spec, list>>
         \/ /\ e.todo = <<>> /\ spec[t][n] = "box"
            /\ exit' = [exit EXCEPT ![t].todo = list[t]]
            /\ spec' = [spec EXCEPT ![t][n] = "null"]
            /\ list' = [list EXCEPT ![t] = <<>>] /\ UNCHANGED slot
         \/ /\ e.todo = <<>> /\ spec[t][n] = "null"
            /\ exit' = [exit EXCEPT ![t].at = "scan"] /\ UNCHANGED <<spec, list, slot>>
      /\ UNCHANGED <<static, owner, use, uses, made, dropped>>

\* The destructor of the value returns; an OS key is null again.
Dropped(t) ==
  LET k == exit[t].key
      n == static[StaticOf(k)]
  IN  /\ exit[t].at = "drop" /\ use[t] = NoUse
      /\ exit' = [exit EXCEPT ![t].at = IF k \in FastKeys THEN "list" ELSE "scan"]
      /\ spec' = [spec EXCEPT ![t][n] = IF k \in OsKeys THEN "null" ELSE @]
      /\ dropped' = [dropped EXCEPT ![t][k] = IF slot[t][k].value = "none" THEN @ ELSE @ + 1]
      /\ slot' = [slot EXCEPT ![t][k].value = "none"]
      /\ UNCHANGED <<static, owner, list, use, uses, made>>

NextLocals ==
  \E t \in Locals :
    \/ \E k \in LocalKeys : TryWith(t, k)
    \/ LazyCreate(t) \/ LazyCas(t) \/ Exit(t) \/ Scan(t) \/ RunDtors(t) \/ Dropped(t)

SpecLocals == InitLocals /\ [][NextLocals]_localVars

-----------------------------------------------------------------------------
\* Every value that a thread made is dropped once before the thread is over, also
\* the ones that a destructor made, except what is still under an OS key after the
\* last round; no value comes up in the place of one that is being dropped; and
\* whatever race created the OS keys, a thread's value is under the key that all use.
LocalsDropped ==
  \A t \in Locals :
    /\ \A n \in Numbers : spec[t][n] # "null" => owner[n] # Unowned /\ static[owner[n]] = n
    /\ \A k \in LocalKeys :
         LET n == static[StaticOf(k)]
             late == n # 0 /\ spec[t][n] = "box" /\ exit[t].round = Rounds
         IN  /\ made[t][k] - dropped[t][k] = (IF slot[t][k].value = "none" THEN 0 ELSE 1)
             /\ exit[t].at = "over" /\ ~late => made[t][k] = dropped[t][k]
             /\ exit[t].at = "drop" /\ exit[t].key = k => slot[t][k].value # "some"
=============================================================================
