----------------------------- MODULE MCLibrary ------------------------------
(***************************************************************************)
(* The parts of the library and of im_client that can be looked at alone,  *)
(* in one instance for TLC: a behaviour of this module is a behaviour of   *)
(* one of them, while the others stay in an initial state.                 *)
(***************************************************************************)
EXTENDS SelectStream, AcceptLoop, SimpleBuffer, PduCodec, FixedStream,
        LoadGen, LockedRef, EventThread, LogFile

CONSTANTS ca, cb, cc, cd, t1, t2, oa, ob, la, w1, w2, w3, ps, qs, rs, p1, p2, q1, r1

VARIABLE part  \* the one that runs

vars == <<part, selectVars, acceptVars, bufferVars, codecVars, fixedVars,
          loadVars, refVars, workerVars, logVars>>

Parts == {"select", "accept", "buffer", "codec", "fixed", "load", "ref", "worker", "log"}

-----------------------------------------------------------------------------
(* Constants.                                                              *)

\* Ids whose digits differ from one another and from their reverse, the largest
\* id, and 0.
SomeIds == {0, 27, Power[4] - 1}
SomeData == {<<>>, <<0>>, <<3, 1>>}

\* Every width, values at the ends of their range, and strings from none to one
\* more character than a byte counts.
SomeItems ==
  {[kind |-> "unsigned", n |-> 1, val |-> Base - 1], [kind |-> "unsigned", n |-> 4, val |-> 27],
   [kind |-> "signed", n |-> 1, val |-> -1], [kind |-> "signed", n |-> 2, val |-> -(Power[2] \div 2)],
   [kind |-> "string", val |-> <<>>], [kind |-> "string", val |-> <<1, 2>>],
   [kind |-> "stdstring", val |-> <<3, 1, 2>>], [kind |-> "stdstring", val |-> <<3, 1, 2, 1>>],
   [kind |-> "data", n |-> 2, val |-> <<0, 3>>], [kind |-> "data", n |-> 4, val |-> <<2>>]}

\* Two objects that share a lock.
Shared == [o \in {oa, ob} |-> la]

\* A process with two threads, and two others with the same bits of their ids.
ThreadProc == [t \in {p1, p2, q1, r1} |-> CASE t \in {p1, p2} -> ps [] t = q1 -> qs [] t = r1 -> rs]
ProcId == [s \in {ps, qs, rs} |-> CASE s = ps -> 1 [] s = qs -> 2 [] s = rs -> 6]
Lines == [t \in {p1, p2, q1, r1} |-> IF t = p1 THEN 2 ELSE 1]

-----------------------------------------------------------------------------

Init ==
  /\ part \in Parts
  /\ SelectInit /\ AcceptInit /\ BufferInit /\ CodecInit /\ FixedInit
  /\ LoadInit /\ RefInit /\ WorkerInit /\ LogInit
  /\ part # "select" => connected
  /\ part # "load" => dstMax = DstMin
  /\ part # "ref" => holds[t1][oa] = 1

Next ==
  /\ UNCHANGED part
  /\ IF part = "select" THEN SelectNext ELSE UNCHANGED selectVars
  /\ IF part = "accept" THEN AcceptNext ELSE UNCHANGED acceptVars
  /\ IF part = "buffer" THEN BufferNext ELSE UNCHANGED bufferVars
  /\ IF part = "codec" THEN CodecNext ELSE UNCHANGED codecVars
  /\ IF part = "fixed" THEN FixedNext ELSE UNCHANGED fixedVars
  /\ IF part = "load" THEN LoadNext ELSE UNCHANGED loadVars
  /\ IF part = "ref" THEN RefNext ELSE UNCHANGED refVars
  /\ IF part = "worker" THEN WorkerNext ELSE UNCHANGED workerVars
  /\ IF part = "log" THEN LogNext ELSE UNCHANGED logVars

\* What the parts with liveness assume of the scheduling, when it is they that
\* run: event loops go on, threads run and a mutex that is free again and again
\* is given to each.
Fairness ==
  /\ WF_selectVars(part = "select" /\ Report)
  /\ WF_selectVars(part = "select" /\ OnWrite)
  /\ WF_selectVars(part = "select" /\ PeerReads)
  /\ \A t \in Threads : /\ WF_refVars(part = "ref" /\ RefStep(t))
                        /\ SF_refVars(part = "ref" /\ Lock(t))

Spec == Init /\ [][Next]_vars /\ Fairness
=============================================================================
