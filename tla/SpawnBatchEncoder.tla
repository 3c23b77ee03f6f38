--------------------------- MODULE SpawnBatchEncoder ---------------------------
(***************************************************************************)
(* streamed_spawn.SpawnBatchEncoder: the object with which the             *)
(* dependency_graph worker packs descriptors into batch messages capped in *)
(* bytes and in descriptors, and closes the stream with a summary.         *)
(*                                                                         *)
(* A descriptor is its number in the stream; of its JSON only the length   *)
(* matters.  `offsets' is a history variable: descriptor d occupies the    *)
(* bytes offsets[d] .. offsets[d + 1] of the concatenation of everything   *)
(* accepted, so the length of any message is known without consulting the  *)
(* encoder's own `pendingBytes'.                                           *)
(***************************************************************************)
EXTENDS Integers, Sequences, FiniteSets

CONSTANTS
  MaxMessageBytes,      \* cap on one message (100 KiB in the code)
  MaxBatchDescriptors,  \* cap on the descriptors of one message (200)
  EnvelopeBase,         \* bytes of a batch envelope without its sequence number
  Radix,                \* base the sequence number is written in (10)
  PartSizes,            \* encoded lengths a descriptor may have
  SummarySizes,         \* encoded lengths a summary may have
  MaxTaken              \* bound: descriptors accepted in one behaviour

ASSUME CapAssumption ==
  /\ MaxMessageBytes \in Nat \ {0}
  /\ MaxBatchDescriptors \in Nat \ {0}

ASSUME SizeAssumption ==
  /\ EnvelopeBase \in Nat
  /\ Radix \in Nat \ {0, 1}
  /\ PartSizes \subseteq Nat \ {0}
  /\ SummarySizes \subseteq Nat
  /\ MaxTaken \in Nat

VARIABLES
  parts,               \* the pending batch: descriptor numbers, in order
  pendingBytes,        \* the encoder's own account of the pending batch
  batchesEmitted,      \* sequence number of the pending batch
  descriptorsEmitted,
  offsets,             \* history: see above
  returned             \* what the last call returned or raised

encoderVars == <<parts, pendingBytes, batchesEmitted, descriptorsEmitted>>
vars == <<parts, pendingBytes, batchesEmitted, descriptorsEmitted, offsets, returned>>

-------------------------------------------------------------------------------
\* Lengths.

Digits(n) == 1 + Cardinality({k \in 1..n : Radix^k <= n})

EnvelopeBytes(seq) == EnvelopeBase + Digits(seq)

\* Descriptors accepted so far.
Taken == Len(offsets) - 1

\* Length of the comma-joined encodings of the descriptors first..last.
JoinedBytes(first, last) == offsets[last + 1] - offsets[first] + (last - first)

\* Length of a batch message as it leaves _emit.
MessageBytes(m) ==
  EnvelopeBytes(m.seq) + JoinedBytes(m.descriptors[1], m.descriptors[Len(m.descriptors)])

-------------------------------------------------------------------------------
\* What a call hands back.

None == [kind |-> "none"]
ValueError == [kind |-> "error"]
Message(seq, ds) == [kind |-> "batch", seq |-> seq, descriptors |-> ds]
Summary(total, batches) == [kind |-> "summary", total |-> total, batches |-> batches]

Init ==
  /\ parts = <<>>
  /\ pendingBytes = 0
  /\ batchesEmitted = 0
  /\ descriptorsEmitted = 0
  /\ offsets = <<0>>
  /\ returned = None

\* The descriptor being added gets the next number and the next bytes.
Accept(size) == offsets' = Append(offsets, offsets[Len(offsets)] + size)
Incoming == Taken + 1

Refuse ==
  /\ returned' = ValueError
  /\ UNCHANGED <<parts, pendingBytes, batchesEmitted, descriptorsEmitted, offsets>>

\* Mutants: the comma count of an empty batch taken as -1,
\* and a sequence number that is not advanced.
EmitBytesBelowZero(ds, rest, bytes) ==
  /\ returned' = Message(batchesEmitted, ds)
  /\ descriptorsEmitted' = descriptorsEmitted + Len(ds)
  /\ batchesEmitted' = batchesEmitted + 1
  /\ parts' = rest
  /\ pendingBytes' = bytes + Len(rest) - 1

EmitKeepsSeq(ds, rest, bytes) ==
  /\ returned' = Message(batchesEmitted, ds)
  /\ descriptorsEmitted' = descriptorsEmitted + Len(ds)
  /\ parts' = rest
  /\ pendingBytes' = bytes
  /\ UNCHANGED batchesEmitted

\* _emit of the batch ds, leaving the batch `rest' of `bytes' bytes pending.
Emit(ds, rest, bytes) ==
  /\ returned' = Message(batchesEmitted, ds)
  /\ descriptorsEmitted' = descriptorsEmitted + Len(ds)
  /\ batchesEmitted' = batchesEmitted + 1
  /\ parts' = rest
  /\ pendingBytes' = bytes

\* A mutant: the count cap flushes before the incoming descriptor is appended.
ExtendDropsIncoming(bytes) ==
  LET ds == Append(parts, Incoming)
  IN  IF Len(ds) >= MaxBatchDescriptors
        THEN Emit(parts, <<>>, 0)
        ELSE /\ parts' = ds
             /\ pendingBytes' = bytes
             /\ returned' = None
             /\ UNCHANGED <<batchesEmitted, descriptorsEmitted>>

\* Append the incoming descriptor, and emit at the count cap.
Extend(bytes) ==
  LET ds == Append(parts, Incoming)
  IN  IF Len(ds) >= MaxBatchDescriptors
        THEN Emit(ds, <<>>, 0)
        ELSE /\ parts' = ds
             /\ pendingBytes' = bytes
             /\ returned' = None
             /\ UNCHANGED <<batchesEmitted, descriptorsEmitted>>

FitsAlone(size, seq) == EnvelopeBytes(seq) + size <= MaxMessageBytes

\* A mutant: the projection leaves out the comma before the new descriptor.
FitsPendingNoComma(size) ==
  EnvelopeBytes(batchesEmitted) + pendingBytes + size <= MaxMessageBytes

FitsPending(size) ==
  EnvelopeBytes(batchesEmitted) + pendingBytes + 1 + size <= MaxMessageBytes

\* add(), no descriptor pending.
AddFirst(size) ==
  /\ parts = <<>>
  /\ IF FitsAlone(size, batchesEmitted)
       THEN Accept(size) /\ Extend(size)
       ELSE Refuse

\* A mutant: the comma is projected but not accounted.
AddToPendingNoComma(size) ==
  /\ parts # <<>>
  /\ FitsPending(size)
  /\ Accept(size)
  /\ Extend(pendingBytes + size)

\* add(), the descriptor joins the pending batch.
AddToPending(size) ==
  /\ parts # <<>>
  /\ FitsPending(size)
  /\ Accept(size)
  /\ Extend(pendingBytes + 1 + size)

\* add(), the descriptor overflows the pending batch and starts the next one.
AddAfterFlush(size) ==
  /\ parts # <<>>
  /\ ~FitsPending(size)
  /\ IF FitsAlone(size, batchesEmitted + 1)
       THEN Accept(size) /\ Emit(parts, <<Incoming>>, size)
       ELSE Refuse

Add ==
  /\ Taken < MaxTaken
  /\ \E size \in PartSizes : AddFirst(size) \/ AddToPending(size) \/ AddAfterFlush(size)

Flush ==
  /\ UNCHANGED offsets
  /\ IF parts = <<>>
       THEN returned' = None /\ UNCHANGED encoderVars
       ELSE Emit(parts, <<>>, 0)

EncodeSummary ==
  /\ \E size \in SummarySizes :
       returned' = IF parts = <<>> /\ size <= MaxMessageBytes
                     THEN Summary(descriptorsEmitted, batchesEmitted)
                     ELSE ValueError
  /\ UNCHANGED <<parts, pendingBytes, batchesEmitted, descriptorsEmitted, offsets>>

Next == Add \/ Flush \/ EncodeSummary

Spec == Init /\ [][Next]_vars

-------------------------------------------------------------------------------
\* Properties.

Answers ==
  {None, ValueError}
    \cup [kind : {"batch"}, seq : Nat, descriptors : Seq(Nat \ {0})]
    \cup [kind : {"summary"}, total : Nat, batches : Nat]

TypeOK ==
  /\ parts \in Seq(Nat \ {0})
  /\ pendingBytes \in Nat
  /\ batchesEmitted \in Nat
  /\ descriptorsEmitted \in Nat
  /\ offsets \in Seq(Nat)
  /\ Len(offsets) >= 1
  /\ returned \in Answers

\* The pending batch is exactly the accepted descriptors that no message has
\* carried yet, in planner order: none is lost, duplicated or overtaken.
PendingIsTheRemainder ==
  /\ Taken = descriptorsEmitted + Len(parts)
  /\ \A i \in 1..Len(parts) : parts[i] = descriptorsEmitted + i

\* The encoder's byte account of the pending batch is the length _emit will
\* produce ("what makes the size accounting exact rather than approximate").
AccountIsExact ==
  pendingBytes =
    IF parts = <<>> THEN 0 ELSE JoinedBytes(parts[1], parts[Len(parts)])

\* Whatever is pending can be emitted under its own sequence number, and the
\* count cap has not been reached: flush() can never produce an oversized message.
PendingIsFlushable ==
  /\ Len(parts) < MaxBatchDescriptors
  /\ parts # <<>> => EnvelopeBytes(batchesEmitted) + pendingBytes <= MaxMessageBytes

\* No message handed to the transport exceeds either cap, with the length of
\* the message measured on the descriptors it carries; in particular the growth
\* of the sequence number by one digit never pushes one over.
MessageFits ==
  returned.kind = "batch" =>
    /\ returned.descriptors # <<>>
    /\ Len(returned.descriptors) <= MaxBatchDescriptors
    /\ MessageBytes(returned) <= MaxMessageBytes

\* A summary is issued only when every accepted descriptor is in a message, and
\* then carries the number of descriptors and of messages of the whole stream.
SummaryIsComplete ==
  returned.kind = "summary" =>
    /\ returned.total = Taken
    /\ returned.batches = batchesEmitted

\* The encoder implements the stream the primary relies on.
Delivered(r) ==
  CASE r.kind = "batch" ->
         [kind |-> "batch", seq |-> r.seq, first |-> r.descriptors[1],
          last |-> r.descriptors[Len(r.descriptors)]]
    [] r.kind = "summary" -> r
    [] OTHER -> [kind |-> "nothing"]

Stream == INSTANCE PlanStream WITH
  taken <- Taken, sent <- descriptorsEmitted, batches <- batchesEmitted,
  answer <- Delivered(returned)

RefinesPlanStream == Stream!Spec
===============================================================================
