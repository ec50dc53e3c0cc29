# A verification project for the Rust standard library

The repository is `libstd` at one commit: 276 files, most of them wrappers of
system calls, trait implementations, tests and documentation. Its own hard logic is
in `sync/`, `thread/` and the platform locks: lock-free protocols on a few atomic
words, intrusive lists of stack-allocated nodes, tokens that change hands as raw
pointers, timeouts that race wakeups. Beside it stand a few pieces of stateful
sequential code whose invariants are easy to get wrong: the hash table, the buffered
writers, the path iterator, exit handlers and thread-local destructors. This project
models these parts in TLA+, checks them with TLC on small instances, and proves the
most important invariants of four of them with TLAPS for every instance. Paths below
are relative to `src/`.

## 1. Inventory

| Part | State | Operations | What is hard |
|---|---|---|---|
| `sync/mpsc/blocking.rs` tokens | a thread and a flag `woken`, shared by two handles | `signal`, `wait`, `wait_max_until`, casts to and from `usize` | each cast owns a reference count: freed once, never lost |
| `sync/mpsc/oneshot.rs` packet | word `state`, unsynchronised cells `data` and `upgrade` | send, upgrade, recv (deadline), try_recv, can_recv, start/abort selection, both drops | cells are guarded by the word alone; a deadline races send, upgrade and drop |
| `sync/mpsc/stream.rs` packet | SPSC queue, `cnt`, `steals`, `to_wake`, `port_dropped` | the same | a count that lags behind the queue, -1 for a sleeper, folding of steals, draining at hangup |
| `sync/mpsc/spsc_queue.rs` | linked nodes, a cache of free ones | push, pop, peek | reuse of nodes across two threads |
| `sync/mpsc/shared.rs` packet, `mpsc_queue.rs` | MPSC queue with an inconsistent middle state, `cnt`, `steals`, `to_wake`, `channels`, `sender_drain` | the same, clone, `inherit_blocker` | several senders, a blocker inherited from another packet, who drains |
| `sync/mpsc/sync.rs` packet | under a mutex: ring buffer, `blocker`, queue of senders, `canceled`; `channels` | send, try_send, clone, recv, try_recv, selection, both drops | rendezvous with capacity 0, pointers into other threads' stacks, retries after a wakeup |
| `sync/mpsc/select.rs` | list of handles, one token for all ports | add, remove, wait | aborting what was started on several ports |
| `sync/mpsc/mod.rs` | the current flavour of each handle | clone upgrades the flavour, recv follows | a packet replaced under a blocked receiver |
| `sync/once.rs` | one word: tag and pointer to a list of waiters on their stacks | call_once, call_once_force, `Finish::drop` | list nodes die when their owner wakes; panics in the closure |
| `thread/mod.rs` park | word, mutex, condvar | park, park_timeout, unpark | notification between announcement and sleep |
| `sys/redox/mutex.rs`, `condvar.rs` | futex words | lock, try_lock, unlock, wait, wait_timeout, notify | who has to wake whom |
| `sync/mutex.rs`, `rwlock.rs`, `condvar.rs`, `sys_common/poison.rs`, `sys/unix/rwlock.rs` | a system lock, the poison flag, the unix lock's own count of readers | lock, read, write, their try forms, guard drop, wait | panics under a guard; a pthread that grants a lock again to its holder |
| `sync/barrier.rs` | count and generation under a mutex | wait | a thread that sleeps through a whole generation |
| `sys_common/at_exit_imp.rs`, `io/lazy.rs` | the queue of handlers; pointer and lock of each static | at_exit, cleanup, get | registration and use during cleanup |
| `thread/local.rs`, `sys_common/thread_local.rs` | keys, values, the list of destructors | try_with, creation of a key, thread end | destructors that use keys; two creators of one key |
| `collections/hash/` | buckets ordered by displacement, size, a tag | insert, remove, retain, reserve, shrink, clear | backward shifts and resizing around the end of the array |
| `io/buffered.rs` writers | buffer, `panicked`, `need_flush` | write, flush, into_inner, drop | short writes, errors and panics halfway through a flush |
| `path.rs` | the text, and an iterator with two ends | next, next_back, as_path, push, pop, set_file_name | what the two ends think is in front of the body |
| fs, net, process, time, environment, the rest of io and text, numbers, panic output | mostly the operating system's, or pure functions | | not modelled (section 6) |

How the parts meet. A channel's two handles (`mod.rs`) drive one packet; a
`Sender::clone` replaces the packet by a shared one through the old packet's
`upgrade`, and the shared packet inherits a blocked receiver's token. The
receiver blocks with a token, which parks its thread. `Select` calls the same
packets through three operations. `Once` parks its waiters. `park` uses a mutex
and a condvar, which on Redox are futex words. Exit handlers free the lazily built
statics of stdio. Each of these lines is a place where one model takes over what
another promises: tokens wake whoever waits (`woken` sets), park returns when its
permit is there (`permit` in Once), cleanup runs once (`Once`).

What makes the parts correct: nothing sent is lost, duplicated or reordered, and
an end of channel is reported only after everything was delivered; no assertion
or `unreachable!()` is reached; every pointer of a token has one owner; unsafe
cells are not raced, stack nodes not touched after their owner left; a blocked
thread with a reason to go on does; a writing guard is alone and poisoning tells of
exactly the panics under it; a table, a writer or a path is at every moment what the
calls made of it; what was registered to run or to be dropped at an end is run or
dropped once. `PROJECT.json` lists under "hazards" the lines where these can go
wrong, with the properties aimed at them.

## 2. Modules

In the modules of concurrent code each atomic access, lock acquisition or kernel call
is one action; a stretch of code that touches only thread-local state belongs to the
access before it. Where everything happens under a lock (`SyncChannel`, `Barrier`, the
packets in `Select`) a critical section is one action. In the modules of sequential
code each call is one action, up to the next call of something outside that may fail.
Threads have a program counter (`pc`, `spc` for senders, `rpc` for the receiver, `upc`
for unparkers) whose values are named for the access that comes next. Atomics are
sequentially consistent, as in the channels' code, which uses `SeqCst` for everything
but the queue links; `Relaxed` and `Acquire` accesses elsewhere are treated the same,
so weak memory is outside the model. A failed assertion, `unwrap` or `unreachable!()`
leads to a location named `panic...`, where it can be reached; branches that the code
excludes by its own conditions are not separate actions.

| Module | Code | Correspondence |
|---|---|---|
| `Oneshot` | `oneshot.rs`, `blocking.rs`, the callers in `mod.rs` | `state` is the word (EMPTY, DATA, DISCONNECTED or a token), `data` and `upgrade` the cells; `woken` are the signalled tokens, `made` and `reclaimed` count the casts |
| `SpscQueue` | `spsc_queue.rs` | one list of numbered nodes: the cache before `tail`, the queue behind it; push and pop are two steps each, with recycling between them |
| `Stream` | `stream.rs`, over `SpscQueue` | `cnt` and the sums with it wrap at `ISIZE_MAX`; the upgrade is an element `GoUp` of the queue as in the code |
| `Shared` | `shared.rs`, `mpsc_queue.rs` | starts with the packet that `Sender::clone` has created and not yet unlocked; push is a swap and a link, pop the two loads that tell Inconsistent from Empty |
| `SyncChannel` | `sync.rs` | a critical section is one action; signals sent after it, waits and re-locking are actions of their own |
| `Channel` | what `SyncSender` and `Receiver` promise | the abstract bounded FIFO: one instant per call |
| `Select` | `select.rs`, the selection functions of the oneshot and bounded flavours | `head`, `tail`, `next`, `prev` are the list; `wait2` visits the ports one per step in its stages preflight, start, undo, wait, abort |
| `Once` | `once.rs` | the word is a record of tag and head; a waiter's node is named by its thread |
| `ThreadPark` | `park`, `park_timeout`, `unpark` of `thread/mod.rs` | word, mutex and condvar; the condvar may wake spuriously |
| `FutexLocks` | `sys/redox/mutex.rs`, `condvar.rs` | mutex word, sequence number, kernel queues (external) |
| `Guards` | `mutex.rs`, `rwlock.rs`, `condvar.rs`, `poison.rs`, `sys/unix/` | `raw` and `writer` are pthread's (external: for its holder a lock may wait, refuse or be granted again), `writeLocked` and `numReaders` the fields of the unix `RWLock`; a thread has a stack of guards and may panic, unwind and lock in destructors |
| `Barrier` | `barrier.rs` | extends `Guards`; a behaviour uses either the barrier or the locks |
| `RobinHood` | `collections/hash/map.rs`, `table.rs` | the buckets with the key in each; hashes are chosen at the start; a loop is the least number of rounds that ends it, or a fold |
| `BufferedWriters` | `io/buffered.rs` | the caller's bytes are 1, 2, 3, ...; each call of the inner writer (external) may take less, nothing, be interrupted, fail or panic |
| `Paths` | `path.rs`, the separators and prefixes of `sys/` | a text is a sequence of bytes behind one of four prefixes; `Meaning` is the reference: split at separators, drop empty parts and `.` |
| `ExitHandlers` | `at_exit_imp.rs`, `io/lazy.rs` | `exitQueue` and the rounds of cleanup; a thread in `get` registers and builds in two steps |
| `ThreadLocals` | `thread/local.rs`, `sys_common/thread_local.rs` | `static` is `StaticKey::key`, `owner` and `spec` are pthread's (external), `list` the fallback list of destructors |
| `Library` | | puts the five modules before it side by side; a behaviour is about one object |
| `OneshotProofs`, `OnceProofs`, `SyncChannelProofs`, `SharedProofs` | | the TLAPS proofs of the module they are named after |
| `StreamProofs` | | the proofs of `Stream` and of `SpscQueue` under it |
| `LocksProofs` | | the proofs of `Guards` and `Barrier` |
| `WaitProofs` | | the proofs of `ThreadPark` and `Select` |
| `LibraryProofs` | | the proofs of `BufferedWriters`, `ExitHandlers`, `ThreadLocals` and, with them, of `FutexLocks` |

The modules declare their bounds as CONSTANTS with a named assumption, so a
configuration instantiates the module itself and there is no separate model-checking
module. `Library` and `Barrier` compose what shares no state: the product of
independent parts would only multiply states, so each behaviour picks one. History
variables (`accepted`, `received`, `destroyed`, `returned`, `freed`, `completions`,
`owed`, `tainted`, `present`, `names`, `taken`, `ran`, ...) record what has happened; no
guard of the code reads them. A definition `X_Mutant` (or `X_` with another suffix)
above `X` is `X` with a plausible slip; replacing `X` by it makes the property that
`PROJECT.json` names with it fail, so each property is known to be sensitive to the code. The
types (`TypeOK`) are proved where there are proofs; in `Stream`, `SyncChannel`, `Select` and
`Barrier` they are a conjunct of one of the properties.

## 3. Runs

Deadlock checking is on except in `locks`, where threads may deadlock on their own
locks or wait at a barrier for others that never come, and in `library`, where an
object comes to its end. Elsewhere a model's `Terminated` step is enabled only where
the program may stop (no call under way, or a thread waiting for something nobody has
to send, or a thread that panicked), so a stuck call would be reported.

| Run | Bounds | Shows |
|---|---|---|
| `oneshot` | 3 messages, 3 tokens (blocking calls) | cells race free, messages delivered once or accounted for (`Delivery`), tokens owned and never lost (`TokensSafe`), nothing panics, a sleeper wakes |
| `once` | 3 threads, 4 calls | one closure at a time, one success, no early return (`RunsOnce`), no dead node touched, poisoning reported exactly, every waiter released |
| `park` | 2 unparkers, 3 parks, 4 unparks | no inconsistent word and no missed notification (`ParkSound`), an unpark that returned releases the park |
| `stream` | 3 sends, 2 blocking calls, `MAX_STEALS` 1, every kind of call | order and conservation, accounting, tokens, every node of the queue in one place and written by one side (`NodesOwned`); wakeups and the end of the hangup loop (`Progress`) |
| `stream_timeout` | same | violation, finding 1 |
| `shared` | 2 senders, 2 sends, 1 clone, 2 blocking calls, `MAX_STEALS` 0, `FUDGE` 3 | the same with several senders and an inherited blocker |
| `sync` | capacities 0, 1, 2; 2 senders, 3 sends, 6 tokens | implements `Channel`; pointers valid and no panic (`PacketSafe`), slots not wasted, rendezvous kept, wakeups |
| `select` | 2 oneshot ports, 1 bounded of capacity 1; 2 sends to it, 2 waits | wait returns a port of the set that has an event, leaves no token behind, keeps the list whole (`WaitSound`), and does return (`WaitReturns`) |
| `locks` | 3 threads, 2 mutexes, 1 RwLock, 2 readers at most, 4 calls; barrier of 2 with 3 waits of each thread | a writing guard is alone whatever pthread grants (`GuardsExclude`), the poison flag is exact (`PoisonExact`), generations are kept apart and each thread leaves its own (`BarrierReleases`) |
| `library` | see below | the table is the set its calls made and a `reserve` makes the room it promises (`TableSound`), bytes go out once and in order (`WriterSound`), both ends of the path iterator and the edits agree with the meaning of the text (`ComponentsAgree`), handlers run exactly if accepted and statics are freed once (`ExitExact`), thread-local values are dropped once (`LocalsDropped`) |
| `futex` | 3 threads, 5 calls | exclusion, no forgotten sleeper, everybody gets in |
| `futex_assert` | 2 threads, 4 calls | violation, finding 2 |

Why the bounds are enough for the cases of interest. Oneshot carries one message;
the second and third test what happens to sends after it, and three tokens allow a
blocking call after an aborted one. Two blocking calls are what the hazards need:
one that is aborted or timed out, and a later one that meets what it left behind.
`MAX_STEALS` 1 or 0 (2^20 in the code; 5 under test) makes folding happen within three
messages, and three sends reuse a node of the queue's cache. `FUDGE` must exceed the
number of senders, as 1024 is meant to. `ISIZE_MAX` is 31, far from every count
reached, so that a wrap would be seen as a wrong count. Two senders suffice for a slot
stolen from a retrying sender and for two drainers. Three threads are a holder, a
sleeper and an intruder; in `Once` a runner and two queued nodes. Tokens in
`SyncChannel` are reused once nobody holds them, so six are as good as any number for
two senders (`SyncAssumption`).

`select` needs a port before and one behind the one that becomes ready, and a second
wait that could meet a token of the first. `locks`: two mutexes for a Condvar bound to
the other one and for guards of different age under one panic; with two readers at most
the third meets pthread's EAGAIN; a barrier of two with three threads is the smallest
in which one thread can sleep through a generation of the others; `Generations` is
beyond the number of generations that nine waits can make, so the number does not wrap
(in the code it would take 2^64 of them).

`library` has one set of bounds per object. Table: 4 keys with hashes from {0, 3, 6, 7},
which collide and wrap round in tables of 4 and 8 buckets; `MinRaw` 4 (32 in the
code), a load factor of 3/4 (10/11) and `Threshold` 2 (128), so that four keys make the
table grow, shrink and resize early. Writers: a buffer of 3 and 5 bytes, so that data
fits, just fits and does not fit; every byte may be a newline. Paths: every text of up
to 4 bytes over a name, `.` and the separators behind each prefix, pushes of up to 2.
Exit: 3 threads, 2 statics, 1 other handler, 3 rounds (10 in the code), so that a
handler registers in the first and in the last round. Thread-locals: 2 threads, 2 fast
keys, 1 OS key, 2 rounds of pthread's destructors, 4 uses, which give a destructor that
uses another key, its own, or one that is gone. Threads and keys without an order are
symmetric; all properties of this run are invariants.

Some properties of `Stream` and `Shared` are conditional on `aborted`, which says
whether a receive has timed out or a selection was aborted. They hold without
condition otherwise; the conditions are exactly what section 5 describes, which breaks
the accounting and ends in a panic. The parts that hold in spite of a timeout (no
sender panics, nothing lost, tokens owned) are stated without a condition.

### Fairness

`FairSpec` asks only for progress of calls under way: weak fairness of each thread's
steps. Nobody has to call, a deadline of a channel need not pass, a condvar need
not wake spuriously. The operating system's scheduler justifies this. Additional
assumptions: in `ThreadPark` steps are strongly fair, because taking the mutex is
one step that is disabled while the other has it, and a mutex that is released again
and again is eventually granted; in `Once` closures end; in `FutexLocks` timeouts
pass and a holder releases the mutex (without which nobody can be promised to get in).
The steps that hand a token to another module (an upgrade's token is signalled by
the shared packet) are not fair in `Oneshot` and `Stream`. In `Select` the selecting
thread goes on and a sender that took a token signals it; in `Barrier` a thread that was
notified runs. `library` and the locks of `Guards` are checked for safety only: user code
decides whether it gives a lock back.

## 4. Proofs

For every value of the constants that the assumptions admit, any number of
threads, messages, tokens and calls:

* `OneshotProofs`: types (`TypeCorrect`), no data race (`RaceFree`), no panic
  (`PanicFree`), delivery: conservation and draining (`MessagesConserved`), one owner per
  token and a sleeper's token always with somebody (`TokensOwned`).
* `OnceProofs`: types, one runner, at most one completed closure and no return
  before it (`OnceGuarantee`), no access to a dead node (`NodesSafe`), exact
  poisoning (`PoisonExact`).
* `StreamProofs`: the nodes of the SPSC queue have one owner each and neither end touches
  one the other may be looking at (`NodesAreOwned`); no assertion, `unwrap` or
  `unreachable!()` is hit but after the aborts of section 5 (`NeverPanics`), the accounting
  of `cnt` and `steals` (`CountIsExact`), conservation, order and one consumer
  (`DeliveryHolds`), one owner per token (`TokensOwned`); all from `Invariance`.
* `SharedProofs`: no assertion, `unwrap` or `unreachable!()` is hit but after the aborts
  that section 5 describes (`NeverPanics`), the accounting of `cnt` and `steals`
  (`CountIsExact`), conservation, order and one consumer (`DeliveryHolds`), one owner per
  token (`TokensOwned`); all from the inductive invariant (`Invariance`).
* `SyncChannelProofs`: no assertion of the packet fails and nobody is left in it
  (`PacketIsSafe`), a free slot is not kept from a sleeping sender (`SlotsUsed`), a
  rendezvous is kept (`RendezvousMeets`), and the refinement: every step of `sync.rs` is a
  step of `Channel` or changes nothing for the callers (`ImplementsBoundedChannel`).
* `LocksProofs`: a writing guard is alone (`GuardsAreExclusive`), poisoning is exact
  (`PoisoningIsExact`), a generation of a `Barrier` meets (`ThreadsMeet`).
* `WaitProofs`: `park` has no inconsistent word and no sleeping owner that was notified
  (`ParkSafe`); `wait` of `Select` (`SelectIsSound`).
* `LibraryProofs`: of the Redox mutex and Condvar, types (`TypeCorrect`), `MutexExcludes`
  and `SleepersRemembered`;
  `WriterIsSound`, `HandlersExact`, `LocalsAreDropped`, each of the part's
  own specification (`SpecWriter`, `SpecExit`, `SpecLocals`). A behaviour of `Library` is a
  behaviour of one of its parts; the theorems are stated of the parts because `Library`
  reaches the recursive operators of `Paths`.

None of the properties is inductive by itself. The inductive invariants:

* Oneshot: `DisconnectedBy` says which thread put DISCONNECTED into the word,
  `CellContents` who owns `data` and `upgrade` at which location, `TokenPlaces`
  where each pointer is. Race freedom follows from who owns the cells; conservation
  needs that `data` holds the accepted message until the word moves on.
* Once: `WordInv` ties the tag to the running thread and to how closures ended;
  `ListInv` says that all pointers (the head in the word, `next` of live nodes,
  the cursors of finishers) lead to live nodes and no two to the same one. That
  they are injective is what keeps the node after the cursor alive when the
  cursor's node is released.
* ThreadPark: who holds the mutex at which location, and which values the word may
  have there. PARKED is left only by a swap whose thread then takes the mutex.
* FutexLocks: where a call under way returns to (`ReturnsTo`), so that a successful
  exchange leads to ownership. `SleepersKnown` is inductive with it: whoever changes
  the word from 2 is by then on its way to wake, and a woken waiter of `notify_all`
  sets the word to 2 before it sleeps or owns.
* Stream: the queue first. `SpscInv` says there is a sequence `a` of nodes, the list from
  `first` on with every node once, and an index `t` of the tail in it: up to `t` the values
  are gone, behind it they are there, and `tailCopy`, `tailPrev` and the node about to be
  handed back come before it in this order. `SpscQueue` has the list as a recursive function
  `Chain`; that it is `a` from the tail on is shown by a least counterexample (`NatMin`),
  which needs no induction. So `PushLink` appends to the sequence of elements `queue`, a pop
  takes its first, no other step changes it, and the rest of the proof sees only that
  sequence. `PushInv`, `OrderInv`, `UpInv` and `EndInv` say what is on it: the last messages
  accepted and at most one upgrade, behind them. `BalanceInv` ties the count to its length at each location of the receiver:
  at least, and exactly if no receive has timed out, with `Spare` the message too many that
  a timeout may put in. `OverInv` and `GoneInv` say who put DISCONNECTED in, `LimitInv`,
  `SendsInv` and `BlocksInv` that the count cannot reach it by overflow. `ArmedInv` (a count
  below zero has a token behind it and nobody on the way to it), `TakerInv` and `CloneInv`
  then give the sender that sees -1 the token it takes; `FreedInv`, `HolderInv` and
  `ToWakeInv` place each token; `SeenInv` and `ModeInv` say what the receiver has seen stays
  so. TLC checked the invariant with 2 sends and 2 blocking calls.
* Shared: `LockInv` and `BirthInv` (what the receiver can do while the blocker is handed
  over), `HandleInv` (`channels` counts the handles, and the drop of the last one is
  alone), `OrderInv` (the queue is the tail of the pushes) and `EndInv`. `BalanceInv` is the
  heart: at each location of the receiver the count exceeds the messages counted by
  `Extra`, at least and, as long as no receive has timed out, exactly. From it, `StealsInv`
  and `ArmedInv` (a count below zero has a token behind it and nobody on the way to it)
  follows that -1 is seen by one sender, which finds the token. `Spare` is the one message
  too many an abort puts into the count. `OverInv`, `GoneInv` and `LimitInv` rule out that
  the count overflows or a number is taken for DISCONNECTED: after the drop of the port each
  sender adds at most one before it stores DISCONNECTED again, so `FUDGE` has to exceed the
  number of senders. `FreedInv`, `HolderInv`, `TakerInv` and `ToWakeInv` place each token;
  `SeenInv` says what the receiver has seen stays so; `DrainInv` and `LeftInv` that a push
  which came too late has a drainer. The invariant was also checked by TLC with 2 and
  with 3 senders.
* SyncChannel: `RingInv` (the full slots are a window of the ring), `CountInv` (`channels`
  counts the handles, and who sets `disconnected`), `CallInv` (location and call of the
  receiver), `BlockerInv` (the blocker is the sender at the rendezvous, whose flag `canceled`
  points at, or the receiver), `TokenInv` (a token has one waiter, and the one about to be
  signalled is no other's), `QueueInv` (the queue holds senders that wait and were not
  signalled, so its raw pointers may be followed), `FlagInv` (a cancelled sender finds its
  message in the buffer), `MetInv`, `MessageInv` (a message not yet accepted is nowhere
  else, which the refinement needs), `SlotInv` (sleepers leave no free slot without somebody
  on the way to it). Token numbers are reused; that a free one exists needs
  `MaxTokens > 2 |Senders| + 1`, the most that can be in use.
* Guards and Barrier: `GuardsInv` counts the guards of a lock per thread against the raw
  lock (`RawInv`) and against the fields of `RWLock` (`FieldsInv`), which is what makes
  giving a recursive grant back by these fields right; `CallsInv` and `CondvarInv` say what
  a call or a wait under way holds, `TaintInv` where a panic's mark still has to come from.
  `BarrierInv` numbers the past generations by the waits of their leaders (`FreshInv`, an
  injection), so the generation number cannot wrap below the assumed number of waits;
  `GenerationInv` and `SleepersInv` tie arrivals, leader and sleepers to it.
* Select: `SelectInv` says there is an order of the handles that the links follow and a set
  S of ports on which a selection is under way, given at each stage by the cursor's place
  in the order (before it in `start`, from it on in `undo` and `abort`). A port of S has the
  token or an event, the others have none, and whoever has the current token took it from
  S: so stage 4 finds a ready handle. That a new token is nobody's needs `TokensInv`.
* BufferedWriters: `BytesInv` (sink and buffer are consecutive bytes), `CallInv` (what the
  call under way still has to send), `LineInv` (when a newline may be in the buffer).
* ExitHandlers: `RoundInv`, `HandlersInv` (an accepted handler is queued, running or has
  run, once), `LockInv` (who has a static's lock), `BoxInv` (a box has a handler to come).
* ThreadLocals: `KeyInv` (which OS keys are given out and which one a static agreed on),
  `UseInv` (a use under way), `OsInv` and `FastInv` (where a value and its destructor are, for
  either kind of key), `EndInv` (what is left at which point of a thread's end).

The assumptions on constants only keep special values distinct, sets finite and bounds
natural; four say more, and the code justifies them: `BarrierAssumption` has fewer waits
than generation numbers (a `usize`); the tokens of `SyncChannel`, which stand for
allocations, do not run out; `StreamAssumption` has an `isize` that the calls and the
steals do not exhaust twice over; and `SharedAssumption` has that and fewer senders than
`FUDGE` (1024 in the code, whose ranged check of a disconnected count relies on it). Each
proof has one step per action, and under it one per conjunct the action can disturb.

Only model-checked: every liveness property (fairness is outside the prover's reach);
and `TableSound` of `RobinHood` and `ComponentsAgree` of `Paths`, which are statements
about what recursive definitions compute over data and need induction.

## 5. Findings

1. `stream_timeout`, `sync/mpsc/stream.rs:220`. A message that arrives while
   `recv_timeout` gives up leaves the count one too high: the next `recv` on the
   empty channel does not block and reaches `unreachable!()` (`mod.rs:1214`).
2. `futex_assert`, `sys/redox/condvar.rs:80`. `wait` reads the sequence number after
   the mutex is released: a notification in between makes its assertion fail, or
   is lost.

Observations made while modelling that have no run of their own. The properties of the
passing runs name each as the exception it is.

* `sync/mpsc/stream.rs:438`. A sender's drop has swapped DISCONNECTED in and not yet
  taken the token when a timeout or a select aborts: the assertion that `to_wake` is
  empty fails. (`Stream`'s `NoPanic`.)
* `sync/mpsc/shared.rs:253`. A deadline that passes during `Sender::clone` brings the
  receiver to the shared packet while its old token is installed there: `decrement`'s
  assertion fails. (`Shared`'s `NoPanic`.)
* `sync/mpsc/sync.rs:233`. A send on a rendezvous channel that meets a selecting thread
  succeeds at once; the message may never be received, against `mod.rs:945-947`.
  (`RendezvousKept`.)
* `thread/mod.rs:796`. A notification that arrives between the two exchanges of `park`
  stays in the word after `park` returned for it, so the next `park` returns at once;
  spurious returns are documented.
* `sync/mpsc/spsc_queue.rs:187`. `cached_nodes` is never increased, so the bound of 128
  nodes that the stream packet asks for has no effect and the cache keeps every node.
* `sync/condvar.rs`. A destructor that runs while its thread unwinds and waits on a
  Condvar with a guard older than the panic gives the mutex up unmarked until it has it
  back. (`PoisonExact`.)
* `io/buffered.rs:808`. A `LineWriter` that a failed `into_inner` hands back has forgotten
  `need_flush`: a complete line may stay in its buffer. (`WriterSound`.)
* `path.rs:749`. For a drive without a root, `next` and then `next_back` can slice out of
  range (`C:a`), and iterating `C:./a` from the back ends in a prefix whose text is
  `C:.`. (`ComponentsAgree`.)
* `path.rs:1216`. The doc of `PathBuf::pop` says that it "Returns `false` and does nothing if
  [`self.file_name`] is [`None`]" (`path.rs:1196`). For a path whose last component is `.` or
  `..` `file_name` is `None`, but `pop` goes by `parent`, which is `Some` (`path.rs:1807-1809`):
  it takes the component away and returns `true`. `test_pop` has it the code's way
  (`path.rs:3689`, `tp!(".", "", true)`). `ComponentsAgree` checks `pop` against the doc on
  all other paths, its answer included, and against removal of the component on these.
* `io/lazy.rs`. After the last round of cleanup, a static that had not been built gives a
  fresh value on each `get`.
* `sys_common/thread_local.rs`. Values that destructors make in pthread's last round stay.
  (`LocalsDropped`.)

## 6. Not modelled

Of parts that are modelled: weak memory; the iterators and error types of the channels;
the abort on more than `isize::MAX` handles; `abort_selection(true)` of a stream that a
oneshot was just upgraded to, which changes nothing; selection over stream and shared ports
(their own steps are in `Stream` and `Shared`); Redox's `ReentrantMutex` and a `Condvar`
used with two mutexes there; `into_inner` and `get_mut` of the locks; spawn, join and
`ThreadId`; `__cxa_thread_atexit_impl` and the Windows callbacks for thread-locals (the
fallback list is modelled); `PathBuf` edits of verbatim paths, Redox schemes, conversions
to and from strings, extensions; the use of a `BufWriter` after its caller caught a panic
of the inner writer (what it had sent may be sent again); `BufReader`, `Cursor` and the
adapters of `Read` and `Write`; the entry API beyond insert, iterators, values and the memory layout of the hash
table.

Not at all: files, network, processes, time and environment, whose behaviour is the
operating system's; addresses and their parser, C strings, WTF-8 and formatting, which
are pure functions of one value; numbers, which call libm; backtraces, hooks and
messages of panics; the locks of other platforms, which are calls into a library.
Each is a component of `PROJECT.json` with its reason. The share of the repository's
lines that the models stand for is small for this reason: of its 88,000 lines more than
half are documentation, tests and blank lines, and of the rest most are declarations,
trait implementations and one-line calls into `core`, `alloc`, `libc` or a platform.

## 7. Plan

Done, in this order: Oneshot, Once, ThreadPark, Stream, Shared, SyncChannel with
Channel, FutexLocks; then SpscQueue under Stream, Select, Guards with Barrier, and the
parts of Library; then the proofs of section 4. Open is what section 6 lists, and the
properties that section 4 names as only model-checked.
