------------------------------ MODULE ByteQueue -----------------------------
(***************************************************************************)
(* What CSimpleBuffer is to the code that uses it: a queue of bytes.  The  *)
(* bytes put into it are numbered 1, 2, 3...                               *)
(***************************************************************************)
EXTENDS Naturals, Sequences

CONSTANT MaxPut  \* bound on the number of bytes put in

VARIABLES
  queue,  \* the bytes held
  put     \* how many were put in so far

queueVars == <<queue, put>>

QueueInit == queue = <<>> /\ put = 0

Enqueue ==
  \E n \in 0..(MaxPut - put) :
    /\ put' = put + n
    /\ queue' = queue \o [i \in 1..n |-> put + i]

Dequeue ==
  /\ \E n \in 0..Len(queue) : queue' = SubSeq(queue, n + 1, Len(queue))
  /\ UNCHANGED put

QueueSpec == QueueInit /\ [][Enqueue \/ Dequeue]_queueVars
=============================================================================
