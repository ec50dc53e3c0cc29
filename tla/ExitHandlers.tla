---------------------------- MODULE ExitHandlers ----------------------------
(***************************************************************************)
(* rt::at_exit (src/sys_common/at_exit_imp.rs) and the lazily built statics*)
(* of stdio (src/io/lazy.rs), whose exit handler frees them, while other   *)
(* threads, and the handlers themselves, go on using both.                 *)
(* LOCK is held for a step each time; Lazy::lock over the building of the  *)
(* value too.                                                              *)
(***************************************************************************)
EXTENDS Integers, Sequences, SequencesExt

CONSTANTS
  Users, Main,        \* the threads that use the statics; Main is the one that exits
  Lazies,             \* the Lazy statics
  Closures,           \* other handlers that at_exit is given
  NoUser,
  Iters               \* ITERS

ASSUME ExitAssumption ==
  /\ Main \in Users /\ NoUser \notin Users \cup Lazies /\ Lazies \cap Closures = {}
  /\ Iters \in Nat \ {0}

VARIABLES
  exitQueue,   \* QUEUE: the handlers; open is FALSE once it is 1
  round,       \* i of cleanup, Iters when it is over
  running,     \* the handlers of this round that are still to run
  freeing,     \* the box that a handler has taken and not dropped yet
  lazyPtr,     \* Lazy::ptr: null, box or dead (1)
  lazyLock,    \* Lazy::lock
  boxed,       \* is there a box that nobody has freed?
  user,        \* where each thread is in Lazy::get, of which static, and registered
  taken, ran   \* the handlers that push accepted, and how often each one ran

exitVars == <<exitQueue, round, running, freeing, lazyPtr, lazyLock, boxed, user, taken, ran>>

Outside == [at |-> "outside", lazy |-> NoUser, registered |-> FALSE]

InitExit ==
  /\ exitQueue = [open |-> TRUE, handlers |-> <<>>]
  /\ round = 0 /\ running = <<>> /\ freeing = NoUser
  /\ lazyPtr = [l \in Lazies |-> "null"] /\ lazyLock = [l \in Lazies |-> NoUser]
  /\ boxed = [l \in Lazies |-> FALSE] /\ user = [u \in Users |-> Outside]
  /\ taken = {} /\ ran = [h \in Lazies \cup Closures |-> 0]

\* push: refused after the last round has begun.
Push(h) ==
  /\ exitQueue' = [exitQueue EXCEPT !.handlers = IF exitQueue.open THEN Append(@, h) ELSE @]
  /\ taken' = IF exitQueue.open THEN taken \cup {h} ELSE taken

AtExit(u, c) ==
  /\ user[u] = Outside /\ c \notin taken /\ Push(c)
  /\ UNCHANGED <<round, running, freeing, lazyPtr, lazyLock, boxed, user, ran>>

-----------------------------------------------------------------------------
(* Lazy::get *)

\* A static that is there, or gone, is answered at once.
Get(u, l) ==
  /\ user[u] = Outside /\ lazyLock[l] = NoUser
  /\ lazyPtr[l] = "null"
  /\ lazyLock' = [lazyLock EXCEPT ![l] = u]
  /\ user' = [user EXCEPT ![u] = [at |-> "register", lazy |-> l, registered |-> FALSE]]
  /\ UNCHANGED <<exitQueue, round, running, freeing, lazyPtr, boxed, taken, ran>>

Register(u) ==
  /\ user[u].at = "register" /\ Push(user[u].lazy)
  /\ user' = [user EXCEPT ![u].at = "build", ![u].registered = exitQueue.open]
  /\ UNCHANGED <<round, running, freeing, lazyPtr, lazyLock, boxed, ran>>

\* Only a value whose handler was accepted is kept.  Mutant: each of them.
Keeps_Mutant(u) == TRUE
Keeps(u) == user[u].registered

Build(u) ==
  LET l == user[u].lazy
  IN  /\ user[u].at = "build"
      /\ lazyPtr' = [lazyPtr EXCEPT ![l] = IF Keeps(u) THEN "box" ELSE @]
      /\ boxed' = [boxed EXCEPT ![l] = @ \/ Keeps(u)]
      /\ lazyLock' = [lazyLock EXCEPT ![l] = NoUser]
      /\ user' = [user EXCEPT ![u] = Outside]
      /\ UNCHANGED <<exitQueue, round, running, freeing, taken, ran>>

-----------------------------------------------------------------------------
(* cleanup *)

\* Between two handlers Main may be in one of them: calling Lazy::get or at_exit.
Idle == user[Main] = Outside /\ freeing = NoUser

Cleanup ==
  /\ Idle /\ running = <<>> /\ round < Iters
  /\ running' = exitQueue.handlers /\ round' = round + 1
  /\ exitQueue' = [open |-> round # Iters - 1, handlers |-> <<>>]
  /\ UNCHANGED <<freeing, lazyPtr, lazyLock, boxed, user, taken, ran>>

Run ==
  LET h == Head(running)
  IN  /\ Idle /\ running # <<>> /\ running' = Tail(running)
      /\ ran' = [ran EXCEPT ![h] = @ + 1]
      /\ \/ h \in Closures /\ UNCHANGED <<freeing, lazyPtr>>
         \/ /\ h \in Lazies /\ lazyLock[h] = NoUser
            /\ freeing' = h /\ lazyPtr' = [lazyPtr EXCEPT ![h] = "dead"]
      /\ UNCHANGED <<exitQueue, round, lazyLock, boxed, user, taken>>

Free ==
  /\ freeing # NoUser /\ freeing' = NoUser
  /\ boxed' = [boxed EXCEPT ![freeing] = FALSE]
  /\ UNCHANGED <<exitQueue, round, running, lazyPtr, lazyLock, user, taken, ran>>

NextExit ==
  \/ \E u \in Users, c \in Closures : AtExit(u, c)
  \/ \E u \in Users, l \in Lazies : Get(u, l)
  \/ \E u \in Users : Register(u) \/ Build(u)
  \/ Cleanup \/ Run \/ Free

SpecExit == InitExit /\ [][NextExit]_exitVars

-----------------------------------------------------------------------------
\* at_exit answers Ok exactly for the handlers that run: none runs twice, and when
\* cleanup is over every accepted one has run.  A static's handler finds the box it
\* is to free, though it was registered before the box was made; no box that get
\* would clone from has been freed, and cleanup leaves none behind.
ExitExact ==
  /\ \A h \in DOMAIN ran : ran[h] <= (IF h \in taken THEN 1 ELSE 0)
  /\ round = Iters /\ running = <<>> => \A h \in taken : ran[h] = 1
  /\ \A l \in Lazies :
       /\ running # <<>> /\ Head(running) = l /\ lazyLock[l] = NoUser => lazyPtr[l] = "box"
       /\ lazyPtr[l] = "box" => boxed[l]
       /\ round = Iters /\ running = <<>> /\ freeing = NoUser => ~boxed[l]
=============================================================================
