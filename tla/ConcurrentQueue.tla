--------------------------- MODULE ConcurrentQueue ---------------------------
(***************************************************************************)
(* ConcurrentQueue<T> (src/structure/concurrent_queue.h): a std::queue and *)
(* a size_ counter.  push and pop each run under mutex_ and are one step;  *)
(* size() and empty() read size_ without the lock.  The only reader of     *)
(* size_ is the thread that pops, so a read in the middle of another       *)
(* thread's push sees the value before it, as a read before the push does. *)
(***************************************************************************)
EXTENDS Integers, Sequences

VARIABLES
    items,   \* queue_
    size     \* size_

\* push: queue_.push(item); ++size_.
Push(x) ==
    /\ items' = Append(items, x)
    /\ size' = size + 1

\* Mutant: pop leaves size_ as it was.
PopNoDecrement ==
    /\ items' = Tail(items)
    /\ size' = size

\* pop: front(), queue_.pop(), --size_ (front() of an empty std::queue is
\* undefined, so the caller must know the queue is not empty).
Pop ==
    /\ items' = Tail(items)
    /\ size' = size - 1

\* The item pop returns.
Front == Head(items)

\* empty(): size_ == 0, read without mutex_.
Empty == size = 0

=============================================================================
