----------------------------- MODULE SpscQueue -----------------------------
(***************************************************************************)
(* The single-producer single-consumer queue of src/sync/mpsc/             *)
(* spsc_queue.rs: one linked list of nodes.  The part before `tail' is the *)
(* cache, from which the producer takes nodes up to its copy of            *)
(* `tail_prev'; the part after `tail' is the queue.  push is two steps,    *)
(* alloc and the store that links the node; pop is two steps as well,      *)
(* taking the value and the store that hands the old tail back.  What      *)
(* either side does in between touches fields of its own only.             *)
(***************************************************************************)
EXTENDS Integers, Sequences

VARIABLES
  nodes,                   \* every node made so far: its value and its next
  head, first, tailCopy,   \* the producer's fields
  fresh,                   \* the node a push has in hand
  tail, tailPrev,          \* the consumer's fields
  due                      \* the node a pop is about to store in tail_prev

spsc == <<nodes, head, first, tailCopy, fresh, tail, tailPrev, due>>

Null == 0
None == -1

InitSpsc ==
  /\ nodes = << [value |-> None, next |-> 2], [value |-> None, next |-> Null] >>
  /\ tail = 2 /\ tailPrev = 1 /\ due = Null
  /\ head = 2 /\ first = 1 /\ tailCopy = 1 /\ fresh = Null

\* The nodes from n on, cut off when there are more than were ever made.
Chain(n) ==
  LET last(s) == s[Len(s)]
      c[k \in 0..Len(nodes)] ==
        IF k = 0 THEN <<n>>
        ELSE IF nodes[last(c[k - 1])].next = Null THEN c[k - 1]
        ELSE Append(c[k - 1], nodes[last(c[k - 1])].next)
  IN  c[Len(nodes)]

-----------------------------------------------------------------------------
(* The producer *)

\* A node of the cache, if the copy of tail_prev or else tail_prev itself is
\* beyond `first'; a new one otherwise.  The value goes into it.
PushAlloc(t) ==
  /\ tailCopy' = IF first = tailCopy THEN tailPrev ELSE tailCopy
  /\ LET reuse == first # tailCopy'
         n == IF reuse THEN first ELSE Len(nodes) + 1
     IN  /\ fresh' = n
         /\ first' = IF reuse THEN nodes[n].next ELSE first
         /\ nodes' = [i \in 1..Len(nodes) \cup {n} |->
                        IF i = n THEN [value |-> t, next |-> Null] ELSE nodes[i]]
  /\ UNCHANGED <<head, tail, tailPrev, due>>

PushLink ==
  /\ nodes' = [nodes EXCEPT ![head].next = fresh]
  /\ head' = fresh /\ fresh' = Null
  /\ UNCHANGED <<first, tailCopy, tail, tailPrev, due>>

-----------------------------------------------------------------------------
(* The consumer *)

\* The node pop and peek look at: the tail is a sentinel.
Front == nodes[tail].next
HasData == Front # Null
FrontValue == nodes[Front].value

Pop ==
  /\ nodes' = [nodes EXCEPT ![Front].value = None]
  /\ tail' = Front /\ due' = tail
  /\ UNCHANGED <<head, first, tailCopy, fresh, tailPrev>>

\* The node the producer may reuse nodes up to.  Mutant: the new tail.
HandedBack_Mutant == tail
HandedBack == due

\* The stream packet asks for a cache of 128 nodes.  An unbounded queue (bound 0)
\* and a bounded one both come here: cached_nodes never grows, so that the bound is
\* not reached and every node is marked as cached.
Recycle ==
  /\ due # Null
  /\ tailPrev' = HandedBack /\ due' = Null
  /\ UNCHANGED <<nodes, head, first, tailCopy, fresh, tail>>

-----------------------------------------------------------------------------
\* What is on the queue, in order.
queue ==
  LET c == Chain(tail) IN [i \in 1..(Len(c) - 1) |-> nodes[c[i + 1]].value]

\* Every node is on the list from `first', which Drop frees, exactly once, or in
\* the hands of a push: none leaks and none is reachable twice.  The producer
\* never writes to a node the consumer may look at; the assertions of push and
\* pop hold: the nodes that can be reused are empty, the queued ones full.
NodesOwned ==
  LET all == Chain(first)
      at(n) == CHOOSE i \in 1..Len(all) : all[i] = n
      inUse == {all[i] : i \in 1..Len(all)}
  IN  /\ inUse \cup ({fresh} \ {Null}) = 1..Len(nodes)
      /\ Len(all) + (IF fresh = Null THEN 0 ELSE 1) = Len(nodes)
      /\ tail \in inUse /\ all[Len(all)] = head
      /\ tailPrev \in inUse /\ at(tailPrev) < at(tail)
      /\ tailCopy \in inUse /\ at(tailCopy) <= at(tailPrev)
      /\ \A i \in 1..Len(all) : (nodes[all[i]].value = None) <=> (i <= at(tail))
=============================================================================
