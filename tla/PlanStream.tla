------------------------------ MODULE PlanStream ------------------------------
(***************************************************************************)
(* What the worker-side encoder of the streamed-spawn hand-off promises to *)
(* its reader.  Descriptors are numbered in the order the planner emits    *)
(* them.  The stream is a sequence of messages; each one carries the next  *)
(* descriptors, at least one and at most MaxBatchDescriptors of them, and  *)
(* a summary may be issued only when everything taken has been sent, with  *)
(* the exact totals.                                                       *)
(***************************************************************************)
EXTENDS Naturals

CONSTANT MaxBatchDescriptors

VARIABLES
  taken,     \* number of descriptors taken from the planner
  sent,      \* number of descriptors already carried by a message
  batches,   \* number of batch messages issued; the next one's sequence number
  answer     \* the last thing handed to the caller

streamVars == <<taken, sent, batches, answer>>

Nothing == [kind |-> "nothing"]
Batch(seq, first, last) ==
  [kind |-> "batch", seq |-> seq, first |-> first, last |-> last]
Summary(total, count) ==
  [kind |-> "summary", total |-> total, batches |-> count]

Init ==
  /\ taken = 0
  /\ sent = 0
  /\ batches = 0
  /\ answer = Nothing

\* A call that issues no message: it may or may not have taken a descriptor.
Hold ==
  /\ taken' \in {taken, taken + 1}
  /\ answer' = Nothing
  /\ UNCHANGED <<sent, batches>>

\* A call that issues the next batch.  A descriptor taken by the same call is
\* either in the batch or waits for the next one, but it is never skipped.
Send ==
  /\ taken' \in {taken, taken + 1}
  /\ \E n \in 1..MaxBatchDescriptors :
       /\ sent + n <= taken'
       /\ sent' = sent + n
  /\ answer' = Batch(batches, sent + 1, sent')
  /\ batches' = batches + 1

Close ==
  /\ sent = taken
  /\ answer' = Summary(sent, batches)
  /\ UNCHANGED <<taken, sent, batches>>

Next == Hold \/ Send \/ Close

Spec == Init /\ [][Next]_streamVars
===============================================================================
