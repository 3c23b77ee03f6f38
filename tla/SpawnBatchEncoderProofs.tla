------------------------ MODULE SpawnBatchEncoderProofs ------------------------
(***************************************************************************)
(* Proofs about SpawnBatchEncoder, for every cap, every set of sizes and   *)
(* every stream: the conjunction of its invariants is inductive, and it    *)
(* implements PlanStream.                                                  *)
(***************************************************************************)
EXTENDS SpawnBatchEncoder, FiniteSetTheorems, TLAPS

USE DEF Taken, Incoming

\* The inductive invariant.  The byte account bounds the message only because it
\* is exact, and it is exact only because the pending batch is contiguous.
EncoderInv ==
  /\ TypeOK
  /\ PendingIsTheRemainder
  /\ AccountIsExact
  /\ PendingIsFlushable
  /\ MessageFits
  /\ SummaryIsComplete

\* The length of an envelope is a number, whatever the sequence number.
LEMMA EnvelopeIsNat == \A n \in Nat : EnvelopeBytes(n) \in Nat
<1> SUFFICES ASSUME NEW n \in Nat PROVE EnvelopeBytes(n) \in Nat
  OBVIOUS
<1> DEFINE S == {k \in 1..n : Radix^k <= n}
<1>1. IsFiniteSet(1..n)
  BY FS_Interval
<1>2. IsFiniteSet(S)
  BY <1>1, FS_Subset
<1>3. Cardinality(S) \in Nat
  BY <1>2, FS_CardinalityType
<1> QED BY <1>3, SizeAssumption DEF EnvelopeBytes, Digits

\* Accepting a descriptor adds one offset and keeps the others.
LEMMA AcceptOffsets ==
  ASSUME TypeOK, NEW size \in Nat, Accept(size)
  PROVE  /\ offsets' \in Seq(Nat)
         /\ Len(offsets') = Len(offsets) + 1
         /\ \A i \in 1..Len(offsets) : offsets'[i] = offsets[i]
         /\ offsets'[Len(offsets) + 1] = offsets[Len(offsets)] + size
BY DEF TypeOK, Accept

\* The initial state satisfies the invariant: no descriptor, no message.
LEMMA InitInv == Init => EncoderInv
<1> SUFFICES ASSUME Init PROVE EncoderInv
  OBVIOUS
<1> USE DEF Init
<1>1. TypeOK
  BY DEF TypeOK, Answers, None
<1>2. PendingIsTheRemainder /\ AccountIsExact
  BY DEF PendingIsTheRemainder, AccountIsExact
<1>3. PendingIsFlushable
  BY CapAssumption DEF PendingIsFlushable
<1>4. MessageFits /\ SummaryIsComplete
  BY DEF MessageFits, SummaryIsComplete, None
<1> QED BY <1>1, <1>2, <1>3, <1>4 DEF EncoderInv

\* A refused call changes nothing but the answer.
LEMMA RefuseInv == EncoderInv /\ Refuse => EncoderInv'
<1> SUFFICES ASSUME EncoderInv, Refuse PROVE EncoderInv'
  OBVIOUS
<1>1. TypeOK'
  BY DEF EncoderInv, TypeOK, Refuse, Answers, ValueError
<1>2. (PendingIsTheRemainder /\ AccountIsExact /\ PendingIsFlushable)'
  BY DEF EncoderInv, Refuse, PendingIsTheRemainder, AccountIsExact, JoinedBytes,
         PendingIsFlushable
<1>3. (MessageFits /\ SummaryIsComplete)'
  BY DEF Refuse, MessageFits, SummaryIsComplete, ValueError
<1> QED BY <1>1, <1>2, <1>3 DEF EncoderInv

\* What the invariant says of the pending batch, in numbers: n offsets, k pending
\* descriptors after e emitted ones.
LEMMA PendingFacts ==
  ASSUME EncoderInv
  PROVE  /\ Len(offsets) \in Nat \ {0} /\ Len(parts) \in Nat
         /\ descriptorsEmitted \in Nat
         /\ Len(offsets) = descriptorsEmitted + Len(parts) + 1
         /\ \A i \in 1..Len(offsets) : offsets[i] \in Nat
         /\ \A i \in 1..Len(parts) : parts[i] = descriptorsEmitted + i
         /\ parts = <<>> => pendingBytes = 0 /\ Len(parts) = 0
         /\ parts # <<>> =>
              /\ Len(parts) >= 1
              /\ pendingBytes = offsets[Len(offsets)] - offsets[descriptorsEmitted + 1]
                                  + (Len(parts) - 1)
<1>1. /\ Len(offsets) \in Nat \ {0} /\ Len(parts) \in Nat
      /\ descriptorsEmitted \in Nat
      /\ Len(offsets) = descriptorsEmitted + Len(parts) + 1
  BY DEF EncoderInv, TypeOK, PendingIsTheRemainder
<1>2. \A i \in 1..Len(offsets) : offsets[i] \in Nat
  BY DEF EncoderInv, TypeOK
<1>3. \A i \in 1..Len(parts) : parts[i] = descriptorsEmitted + i
  BY DEF EncoderInv, PendingIsTheRemainder
<1>4. parts = <<>> => pendingBytes = 0 /\ Len(parts) = 0
  BY DEF EncoderInv, AccountIsExact
<1>5. ASSUME parts # <<>>
      PROVE  /\ Len(parts) >= 1
             /\ pendingBytes = offsets[Len(offsets)] - offsets[descriptorsEmitted + 1]
                                 + (Len(parts) - 1)
  <2>1. Len(parts) >= 1
    BY <1>5 DEF EncoderInv, TypeOK
  <2>2. pendingBytes = JoinedBytes(parts[1], parts[Len(parts)])
    BY <1>5 DEF EncoderInv, AccountIsExact
  <2>3. parts[1] = descriptorsEmitted + 1 /\ parts[Len(parts)] = descriptorsEmitted + Len(parts)
    BY <1>1, <1>3, <2>1
  <2>4. JoinedBytes(descriptorsEmitted + 1, descriptorsEmitted + Len(parts))
          = offsets[descriptorsEmitted + Len(parts) + 1] - offsets[descriptorsEmitted + 1]
              + ((descriptorsEmitted + Len(parts)) - (descriptorsEmitted + 1))
    BY DEF JoinedBytes
  <2>5. (descriptorsEmitted + Len(parts)) - (descriptorsEmitted + 1) = Len(parts) - 1
    BY <1>1
  <2> QED BY <1>1, <2>1, <2>2, <2>3, <2>4, <2>5
<1> QED BY <1>1, <1>2, <1>3, <1>4, <1>5

\* Appending the incoming descriptor keeps the pending batch contiguous.
LEMMA AppendIncoming ==
  ASSUME EncoderInv
  PROVE  LET ds == Append(parts, Incoming)
         IN  /\ ds \in Seq(Nat \ {0})
             /\ Len(ds) = Len(parts) + 1
             /\ \A i \in 1..(Len(parts) + 1) : ds[i] = descriptorsEmitted + i
<1> DEFINE ds == Append(parts, Incoming)
<1>1. Incoming \in Nat \ {0} /\ Incoming = descriptorsEmitted + (Len(parts) + 1)
  BY PendingFacts
<1>2. parts \in Seq(Nat \ {0})
  BY DEF EncoderInv, TypeOK
<1> HIDE DEF Incoming
<1>3. ds \in Seq(Nat \ {0}) /\ Len(ds) = Len(parts) + 1
  BY <1>1, <1>2
<1>4. \A i \in 1..Len(parts) : ds[i] = parts[i]
  BY <1>2
<1>5. ds[Len(parts) + 1] = Incoming
  BY <1>2
<1> HIDE DEF ds
<1>6. \A i \in 1..(Len(parts) + 1) : ds[i] = descriptorsEmitted + i
  <2>1. Len(parts) \in Nat /\ \A i \in 1..Len(parts) : parts[i] = descriptorsEmitted + i
    BY PendingFacts
  <2>2. \A i \in 1..(Len(parts) + 1) : i \in 1..Len(parts) \/ i = Len(parts) + 1
    BY <2>1
  <2> QED BY ONLY <1>1, <1>4, <1>5, <2>1, <2>2
<1> QED BY <1>3, <1>6 DEF ds

\* The length of a run of descriptors that ends with the one just accepted.
LEMMA JoinedAfterAccept ==
  ASSUME EncoderInv, NEW size \in Nat, Accept(size)
  PROVE  offsets'[descriptorsEmitted + Len(parts) + 2] - offsets'[descriptorsEmitted + 1]
             + Len(parts)
           = IF parts = <<>> THEN size ELSE pendingBytes + 1 + size
<1> DEFINE n == Len(offsets)
           k == Len(parts)
           e == descriptorsEmitted
<1>1. /\ \A i \in 1..n : offsets'[i] = offsets[i]
      /\ offsets'[n + 1] = offsets[n] + size
  BY AcceptOffsets DEF EncoderInv
<1>2. /\ n \in Nat \ {0} /\ k \in Nat /\ e \in Nat /\ n = e + k + 1
      /\ \A i \in 1..n : offsets[i] \in Nat
      /\ parts = <<>> => pendingBytes = 0 /\ k = 0
      /\ parts # <<>> => k >= 1 /\ pendingBytes = offsets[n] - offsets[e + 1] + (k - 1)
  BY PendingFacts
<1>3. QED
  <2> HIDE DEF n, k, e
  <2>1. e + 1 \in 1..n /\ n \in 1..n
    BY <1>2
  <2>2. /\ offsets'[e + 1] = offsets[e + 1] /\ offsets[e + 1] \in Nat /\ offsets[n] \in Nat
    BY <1>1, <1>2, <2>1
  <2>3. e + k + 2 = n + 1
    BY <1>2
  <2>4. CASE parts = <<>>
    <3>1. k = 0 /\ e + 1 = n
      BY <1>2, <2>4
    <3>2. offsets'[n + 1] - offsets'[e + 1] + k = size
      BY <1>1, <2>2, <3>1
    <3> QED BY <2>3, <2>4, <3>2 DEF n, k, e
  <2>5. CASE parts # <<>>
    <3>1. offsets'[n + 1] - offsets'[e + 1] + k = pendingBytes + 1 + size
      <4>1. pendingBytes = offsets[n] - offsets[e + 1] + (k - 1) /\ k \in Nat
        BY <1>2, <2>5
      <4>2. offsets'[n + 1] = offsets[n] + size
        BY <1>1
      <4>3. (offsets[n] + size) - offsets[e + 1] + k
              = (offsets[n] - offsets[e + 1] + (k - 1)) + 1 + size
        <5>1. \A a, b, c, d \in Int : (b + d) - a + c = (b - a + (c - 1)) + 1 + d
          OBVIOUS
        <5>2. size \in Int /\ offsets[n] \in Int /\ offsets[e + 1] \in Int /\ k \in Int
          BY <2>2, <4>1
        <5> QED BY ONLY <5>1, <5>2
      <4> QED BY <2>2, <4>1, <4>2, <4>3
    <3> QED BY <2>3, <2>5, <3>1 DEF n, k, e
  <2> QED BY <2>4, <2>5

\* The incoming descriptor joins the pending batch, which is emitted when the
\* count cap is reached.
LEMMA ExtendInv ==
  ASSUME EncoderInv, NEW size \in Nat, Accept(size),
         NEW bytes \in Nat, Extend(bytes),
         bytes = IF parts = <<>> THEN size ELSE pendingBytes + 1 + size,
         EnvelopeBytes(batchesEmitted) + bytes <= MaxMessageBytes
  PROVE  EncoderInv'
<1> DEFINE ds == Append(parts, Incoming)
           k == Len(parts)
           e == descriptorsEmitted
<1>1. /\ ds \in Seq(Nat \ {0}) /\ Len(ds) = k + 1
      /\ \A i \in 1..(k + 1) : ds[i] = e + i
  BY AppendIncoming
<1>2. /\ offsets' \in Seq(Nat) /\ Len(offsets') = Len(offsets) + 1
  BY AcceptOffsets DEF EncoderInv
<1>3. /\ k \in Nat /\ e \in Nat /\ Len(offsets) = e + k + 1
  BY PendingFacts
<1>4. bytes = offsets'[e + k + 2] - offsets'[e + 1] + k
  BY JoinedAfterAccept
<1>5. batchesEmitted \in Nat /\ pendingBytes \in Nat /\ EnvelopeBytes(batchesEmitted) \in Nat
  BY EnvelopeIsNat DEF EncoderInv, TypeOK
<1>6. ds[1] = e + 1 /\ ds[k + 1] = e + k + 1
  BY <1>1, <1>3
<1>7. ds # <<>>
  BY <1>1, <1>3
<1>8. CASE Len(ds) >= MaxBatchDescriptors
  <2>1. /\ returned' = [kind |-> "batch", seq |-> batchesEmitted, descriptors |-> ds]
        /\ descriptorsEmitted' = e + (k + 1)
        /\ batchesEmitted' = batchesEmitted + 1
        /\ parts' = <<>> /\ pendingBytes' = 0
    BY <1>1, <1>8 DEF Extend, Emit, Message
  <2> HIDE DEF ds, e, k
  <2>2. TypeOK'
    <3>1. returned' \in Answers
      BY <1>1, <1>5, <2>1 DEF Answers
    <3> QED BY <1>2, <1>3, <1>5, <2>1, <3>1 DEF TypeOK
  <2>3. PendingIsTheRemainder'
    BY <1>2, <1>3, <2>1 DEF PendingIsTheRemainder
  <2>4. AccountIsExact'
    BY <2>1 DEF AccountIsExact
  <2>5. PendingIsFlushable'
    BY <2>1, CapAssumption DEF PendingIsFlushable
  <2>6. MessageFits'
    <3>1. Len(ds) <= MaxBatchDescriptors
      BY <1>1, <1>3, CapAssumption DEF EncoderInv, PendingIsFlushable, k
    <3>2. /\ returned'.kind = "batch" /\ returned'.seq = batchesEmitted
          /\ returned'.descriptors = ds
      BY <2>1
    <3>3. MessageBytes(returned)'
            = EnvelopeBytes(batchesEmitted)
                + (offsets'[ds[k + 1] + 1] - offsets'[ds[1]] + (ds[k + 1] - ds[1]))
      BY <1>1, <3>2 DEF MessageBytes, JoinedBytes
    <3>4. ds[k + 1] + 1 = e + k + 2 /\ ds[k + 1] - ds[1] = k
      BY <1>3, <1>6
    <3>5. MessageBytes(returned)' = EnvelopeBytes(batchesEmitted) + bytes
      BY <1>4, <1>6, <3>3, <3>4
    <3> QED BY <1>7, <3>1, <3>2, <3>5 DEF MessageFits
  <2>7. SummaryIsComplete'
    BY <2>1 DEF SummaryIsComplete
  <2> QED BY <2>2, <2>3, <2>4, <2>5, <2>6, <2>7 DEF EncoderInv
<1>9. CASE ~(Len(ds) >= MaxBatchDescriptors)
  <2>1. /\ returned' = None
        /\ descriptorsEmitted' = e
        /\ batchesEmitted' = batchesEmitted
        /\ parts' = ds /\ pendingBytes' = bytes
    BY <1>9 DEF Extend
  <2> HIDE DEF ds, e, k
  <2>2. TypeOK'
    <3>1. returned' \in Answers
      BY <2>1 DEF Answers
    <3>2. offsets' \in Seq(Nat) /\ Len(offsets') >= 1
      BY <1>2, <1>3
    <3> QED BY <1>1, <1>3, <1>5, <2>1, <3>1, <3>2 DEF TypeOK
  <2>3. PendingIsTheRemainder'
    <3>1. Taken' = e + (k + 1)
      <4>1. Len(offsets') - 1 = e + (k + 1)
        BY ONLY <1>2, <1>3
      <4> QED BY <4>1 DEF Taken
    <3>2. descriptorsEmitted' = e /\ Len(parts') = k + 1 /\ \A i \in 1..(k + 1) : parts'[i] = e + i
      BY ONLY <1>1, <2>1
    <3> QED BY ONLY <3>1, <3>2 DEF PendingIsTheRemainder
  <2>4. AccountIsExact'
    <3>1. JoinedBytes(parts[1], parts[Len(parts)])'
            = offsets'[ds[k + 1] + 1] - offsets'[ds[1]] + (ds[k + 1] - ds[1])
      BY <1>1, <2>1 DEF JoinedBytes
    <3>2. ds[k + 1] + 1 = e + k + 2 /\ ds[k + 1] - ds[1] = k
      BY <1>3, <1>6
    <3>3. JoinedBytes(parts[1], parts[Len(parts)])' = pendingBytes'
      BY <1>4, <1>6, <2>1, <3>1, <3>2
    <3> QED BY <1>7, <2>1, <3>3 DEF AccountIsExact
  <2>5. PendingIsFlushable'
    BY <1>1, <1>3, <1>9, <2>1, CapAssumption DEF PendingIsFlushable
  <2>6. (MessageFits /\ SummaryIsComplete)'
    BY <2>1 DEF MessageFits, SummaryIsComplete, None
  <2> QED BY <2>2, <2>3, <2>4, <2>5, <2>6 DEF EncoderInv
<1> QED BY <1>8, <1>9

\* Emitting the pending batch as it is: the message has the length the account
\* says, measured with the offsets of before or after the call.
LEMMA EmitPendingFits ==
  ASSUME EncoderInv, parts # <<>>,
         \A i \in 1..Len(offsets) : offsets'[i] = offsets[i],
         returned' = Message(batchesEmitted, parts)
  PROVE  /\ returned' \in Answers
         /\ MessageFits'
         /\ SummaryIsComplete'
<1> DEFINE n == Len(offsets)
           k == Len(parts)
           e == descriptorsEmitted
<1>1. /\ n \in Nat \ {0} /\ k \in Nat /\ e \in Nat /\ n = e + k + 1
      /\ \A i \in 1..k : parts[i] = e + i
      /\ k >= 1 /\ pendingBytes = offsets[n] - offsets[e + 1] + (k - 1)
  BY PendingFacts
<1>2. parts \in Seq(Nat \ {0}) /\ batchesEmitted \in Nat
  BY DEF EncoderInv, TypeOK
<1>3. /\ returned'.kind = "batch" /\ returned'.seq = batchesEmitted
      /\ returned'.descriptors = parts
  BY DEF Message
<1>4. returned' \in Answers
  BY <1>2 DEF Answers, Message
<1>5. parts[1] = e + 1 /\ parts[k] = e + k
  BY <1>1
<1>6. MessageBytes(returned)'
        = EnvelopeBytes(batchesEmitted)
            + (offsets'[parts[k] + 1] - offsets'[parts[1]] + (parts[k] - parts[1]))
  BY <1>3 DEF MessageBytes, JoinedBytes
<1> HIDE DEF n, k, e
<1>7. /\ parts[k] + 1 = n /\ parts[k] - parts[1] = k - 1
      /\ offsets'[n] = offsets[n] /\ offsets'[e + 1] = offsets[e + 1]
  <2>1. e + 1 \in 1..n /\ n \in 1..n
    BY <1>1
  <2>2. offsets'[n] = offsets[n] /\ offsets'[e + 1] = offsets[e + 1]
    BY <2>1 DEF n
  <2> QED BY <1>1, <1>5, <2>2
<1>8. MessageBytes(returned)' = EnvelopeBytes(batchesEmitted) + pendingBytes
  BY <1>1, <1>5, <1>6, <1>7
<1>9. EnvelopeBytes(batchesEmitted) + pendingBytes <= MaxMessageBytes /\ k < MaxBatchDescriptors
  BY DEF EncoderInv, PendingIsFlushable, k
<1>10. MessageFits'
  BY <1>1, <1>3, <1>8, <1>9, CapAssumption DEF MessageFits, k
<1>11. SummaryIsComplete'
  BY <1>3 DEF SummaryIsComplete
<1> QED BY <1>4, <1>10, <1>11

\* The descriptor overflows the pending batch: that one goes, this one waits.
LEMMA OverflowInv ==
  ASSUME EncoderInv, parts # <<>>, NEW size \in Nat, Accept(size),
         Emit(parts, <<Incoming>>, size),
         ~FitsPending(size), FitsAlone(size, batchesEmitted + 1)
  PROVE  EncoderInv'
<1> DEFINE n == Len(offsets)
           k == Len(parts)
           e == descriptorsEmitted
<1>1. /\ n \in Nat \ {0} /\ k \in Nat /\ e \in Nat /\ n = e + k + 1 /\ k >= 1
      /\ \A i \in 1..n : offsets[i] \in Nat
  BY PendingFacts
<1>2. /\ offsets' \in Seq(Nat) /\ Len(offsets') = n + 1
      /\ \A i \in 1..n : offsets'[i] = offsets[i]
      /\ offsets'[n + 1] = offsets[n] + size
  BY AcceptOffsets DEF EncoderInv
<1>3. /\ returned' = Message(batchesEmitted, parts)
      /\ descriptorsEmitted' = e + k /\ batchesEmitted' = batchesEmitted + 1
      /\ parts' = <<n>> /\ pendingBytes' = size
  BY <1>1 DEF Emit
<1>4. batchesEmitted \in Nat
  BY DEF EncoderInv, TypeOK
<1>5. returned' \in Answers /\ MessageFits' /\ SummaryIsComplete'
  BY <1>2, <1>3, EmitPendingFits
<1>6. Len(parts') = 1 /\ parts'[1] = n /\ parts' # <<>>
  BY <1>3
<1>7. 1 < MaxBatchDescriptors
  BY <1>1, CapAssumption DEF EncoderInv, PendingIsFlushable
<1>8. JoinedBytes(parts[1], parts[Len(parts)])' = offsets'[n + 1] - offsets'[n] + (n - n)
  BY <1>6 DEF JoinedBytes
<1> HIDE DEF n, k, e
<1>9. TypeOK'
  <2>1. <<n>> \in Seq(Nat \ {0})
    BY <1>1
  <2> QED BY <1>1, <1>2, <1>3, <1>4, <1>5, <2>1 DEF TypeOK
<1>10. PendingIsTheRemainder'
  BY <1>1, <1>2, <1>3, <1>6 DEF PendingIsTheRemainder
<1>11. AccountIsExact'
  <2>1. offsets'[n + 1] = offsets[n] + size /\ offsets'[n] = offsets[n] /\ offsets[n] \in Nat
    BY <1>1, <1>2
  <2>2. offsets'[n + 1] - offsets'[n] + (n - n) = size
    BY <1>1, <2>1
  <2> QED BY <1>3, <1>6, <1>8, <2>2 DEF AccountIsExact
<1>12. PendingIsFlushable'
  BY <1>3, <1>6, <1>7 DEF PendingIsFlushable, FitsAlone
<1> QED BY <1>5, <1>9, <1>10, <1>11, <1>12 DEF EncoderInv

\* add() in its three forms.
LEMMA AddInv == EncoderInv /\ Add => EncoderInv'
<1> SUFFICES ASSUME EncoderInv, NEW size \in PartSizes,
                    AddFirst(size) \/ AddToPending(size) \/ AddAfterFlush(size)
             PROVE  EncoderInv'
  BY DEF Add
<1>1. size \in Nat
  BY SizeAssumption
<1>2. CASE AddFirst(size)
  <2>1. CASE FitsAlone(size, batchesEmitted)
    BY <1>1, <1>2, <2>1, ExtendInv DEF AddFirst, FitsAlone
  <2>2. CASE ~FitsAlone(size, batchesEmitted)
    BY <1>2, <2>2, RefuseInv DEF AddFirst
  <2> QED BY <2>1, <2>2
<1>3. CASE AddToPending(size)
  <2>1. pendingBytes \in Nat /\ batchesEmitted \in Nat /\ EnvelopeBytes(batchesEmitted) \in Nat
    BY EnvelopeIsNat DEF EncoderInv, TypeOK
  <2>2. EnvelopeBytes(batchesEmitted) + (pendingBytes + 1 + size) <= MaxMessageBytes
    BY <1>1, <1>3, <2>1 DEF AddToPending, FitsPending
  <2>3. pendingBytes + 1 + size \in Nat
    BY <1>1, <2>1
  <2>4. parts # <<>> /\ Accept(size) /\ Extend(pendingBytes + 1 + size)
    BY <1>3 DEF AddToPending
  <2> HIDE DEF Incoming
  <2> QED BY <1>1, <2>2, <2>3, <2>4, ExtendInv
<1>4. CASE AddAfterFlush(size)
  <2>1. CASE FitsAlone(size, batchesEmitted + 1)
    BY <1>1, <1>4, <2>1, OverflowInv DEF AddAfterFlush
  <2>2. CASE ~FitsAlone(size, batchesEmitted + 1)
    BY <1>4, <2>2, RefuseInv DEF AddAfterFlush
  <2> QED BY <2>1, <2>2
<1> QED BY <1>2, <1>3, <1>4

\* flush().
LEMMA FlushInv == EncoderInv /\ Flush => EncoderInv'
<1> SUFFICES ASSUME EncoderInv, Flush PROVE EncoderInv'
  OBVIOUS
<1>1. offsets' = offsets
  BY DEF Flush
<1>2. CASE parts = <<>>
  <2>1. UNCHANGED <<parts, pendingBytes, batchesEmitted, descriptorsEmitted>> /\ returned' = None
    BY <1>2 DEF Flush, encoderVars
  <2>2. TypeOK'
    BY <1>1, <2>1 DEF EncoderInv, TypeOK, Answers, None
  <2>3. (PendingIsTheRemainder /\ AccountIsExact /\ PendingIsFlushable)'
    BY <1>1, <2>1 DEF EncoderInv, PendingIsTheRemainder, AccountIsExact, JoinedBytes,
       PendingIsFlushable
  <2>4. (MessageFits /\ SummaryIsComplete)'
    BY <2>1 DEF MessageFits, SummaryIsComplete, None
  <2> QED BY <2>2, <2>3, <2>4 DEF EncoderInv
<1>3. CASE parts # <<>>
  <2>1. /\ returned' = Message(batchesEmitted, parts)
        /\ descriptorsEmitted' = descriptorsEmitted + Len(parts)
        /\ batchesEmitted' = batchesEmitted + 1
        /\ parts' = <<>> /\ pendingBytes' = 0
    BY <1>3 DEF Flush, Emit
  <2>2. returned' \in Answers /\ MessageFits' /\ SummaryIsComplete'
    BY <1>1, <1>3, <2>1, EmitPendingFits
  <2>3. /\ Len(offsets) = descriptorsEmitted + Len(parts) + 1
        /\ Len(parts) \in Nat /\ descriptorsEmitted \in Nat
    BY PendingFacts
  <2>4. TypeOK'
    BY <1>1, <2>1, <2>2, <2>3 DEF EncoderInv, TypeOK
  <2>5. PendingIsTheRemainder'
    BY <1>1, <2>1, <2>3 DEF PendingIsTheRemainder
  <2>6. (AccountIsExact /\ PendingIsFlushable)'
    BY <2>1, CapAssumption DEF AccountIsExact, PendingIsFlushable
  <2> QED BY <2>2, <2>4, <2>5, <2>6 DEF EncoderInv
<1> QED BY <1>2, <1>3

\* encode_summary().
LEMMA SummaryInv == EncoderInv /\ EncodeSummary => EncoderInv'
<1> SUFFICES ASSUME EncoderInv, EncodeSummary PROVE EncoderInv'
  OBVIOUS
<1>1. UNCHANGED <<parts, pendingBytes, batchesEmitted, descriptorsEmitted, offsets>>
  BY DEF EncodeSummary
<1>2. (PendingIsTheRemainder /\ AccountIsExact /\ PendingIsFlushable)'
  BY <1>1 DEF EncoderInv, PendingIsTheRemainder, AccountIsExact, JoinedBytes,
     PendingIsFlushable
<1>3. \/ returned' = ValueError
      \/ parts = <<>> /\ returned' = Summary(descriptorsEmitted, batchesEmitted)
  BY DEF EncodeSummary
<1>4. TypeOK'
  BY <1>1, <1>3 DEF EncoderInv, TypeOK, Answers, ValueError, Summary
<1>5. MessageFits'
  BY <1>3 DEF MessageFits, ValueError, Summary
<1>6. SummaryIsComplete'
  <2>1. CASE returned' = ValueError
    BY <2>1 DEF SummaryIsComplete, ValueError
  <2>2. CASE parts = <<>> /\ returned' = Summary(descriptorsEmitted, batchesEmitted)
    <3>1. Len(offsets) - 1 = descriptorsEmitted
      BY <2>2, PendingFacts
    <3> QED BY <1>1, <2>2, <3>1 DEF SummaryIsComplete, Summary
  <2> QED BY <1>3, <2>1, <2>2
<1> QED BY <1>2, <1>4, <1>5, <1>6 DEF EncoderInv

\* A step that changes nothing.
LEMMA StutterInv == EncoderInv /\ UNCHANGED vars => EncoderInv'
BY DEF EncoderInv, vars, TypeOK, PendingIsTheRemainder, AccountIsExact, JoinedBytes,
       PendingIsFlushable, MessageFits, MessageBytes, SummaryIsComplete

\* Every reachable state of the encoder satisfies its invariants, whatever the caps,
\* the base of the sequence number and the sizes of the descriptors.
THEOREM EncoderCorrect == Spec => []EncoderInv
<1>1. EncoderInv /\ [Next]_vars => EncoderInv'
  BY AddInv, FlushInv, SummaryInv, StutterInv DEF Next
<1> QED BY InitInv, <1>1, PTL DEF Spec

\* In particular no message exceeds a cap.
THEOREM MessagesFit == Spec => []MessageFits
<1>1. EncoderInv => MessageFits
  BY DEF EncoderInv
<1> QED BY EncoderCorrect, <1>1, PTL

\* And nothing accepted is lost, duplicated or reordered.
THEOREM NothingIsLost == Spec => []PendingIsTheRemainder
<1>1. EncoderInv => PendingIsTheRemainder
  BY DEF EncoderInv
<1> QED BY EncoderCorrect, <1>1, PTL

\* And the byte account the caps are checked against is the size of the payload.
THEOREM AccountHolds == Spec => []AccountIsExact
<1>1. EncoderInv => AccountIsExact
  BY DEF EncoderInv
<1> QED BY EncoderCorrect, <1>1, PTL

\* The encoder's variables keep their types.
THEOREM EncoderTyped == Spec => []TypeOK
<1>1. EncoderInv => TypeOK
  BY DEF EncoderInv
<1> QED BY EncoderCorrect, <1>1, PTL

-------------------------------------------------------------------------------
\* The refinement.

\* A call that emits the n first pending descriptors (the incoming one among them
\* or not) is a Send of the abstract stream.
LEMMA EmitIsSend ==
  ASSUME EncoderInv, NEW ds \in Seq(Nat \ {0}), NEW n \in 1..MaxBatchDescriptors,
         Len(ds) = n, ds[1] = descriptorsEmitted + 1, ds[n] = descriptorsEmitted + n,
         returned' = Message(batchesEmitted, ds),
         descriptorsEmitted' = descriptorsEmitted + n,
         batchesEmitted' = batchesEmitted + 1,
         Taken' \in {Taken, Taken + 1}, descriptorsEmitted + n <= Taken'
  PROVE  Stream!Send
<1>1. Delivered(returned)' = Stream!Batch(batchesEmitted, descriptorsEmitted + 1, descriptorsEmitted')
  BY DEF Delivered, Message, Stream!Batch
<1> QED BY <1>1 DEF Stream!Send

\* add() and flush() when they emit, add() when it does not.
LEMMA ExtendRefines ==
  ASSUME EncoderInv, NEW size \in Nat, Accept(size), NEW bytes \in Nat, Extend(bytes)
  PROVE  Stream!Next
<1> DEFINE ds == Append(parts, Incoming)
           k == Len(parts)
           e == descriptorsEmitted
<1>1. /\ ds \in Seq(Nat \ {0}) /\ Len(ds) = k + 1
      /\ \A i \in 1..(k + 1) : ds[i] = e + i
  BY AppendIncoming
<1>2. /\ k \in Nat /\ e \in Nat /\ Len(offsets) = e + k + 1
      /\ Len(offsets') = Len(offsets) + 1
  BY PendingFacts, AcceptOffsets DEF EncoderInv
<1>3. Taken' = Taken + 1 /\ Taken' = e + (k + 1)
  BY <1>2
<1>4. CASE Len(ds) >= MaxBatchDescriptors
  <2>1. /\ returned' = Message(batchesEmitted, ds)
        /\ descriptorsEmitted' = e + (k + 1)
        /\ batchesEmitted' = batchesEmitted + 1
    BY <1>1, <1>4 DEF Extend, Emit
  <2>2. k + 1 \in 1..MaxBatchDescriptors
    BY <1>2, CapAssumption DEF EncoderInv, PendingIsFlushable
  <2>3. ds[1] = e + 1 /\ ds[k + 1] = e + (k + 1)
    BY <1>1, <1>2
  <2>4. Taken' \in {Taken, Taken + 1} /\ e + (k + 1) <= Taken'
    BY <1>2, <1>3
  <2> HIDE DEF ds, Taken
  <2>5. Stream!Send
    BY <1>1, <2>1, <2>2, <2>3, <2>4, EmitIsSend
  <2> QED BY <2>5 DEF Stream!Next
<1>5. CASE ~(Len(ds) >= MaxBatchDescriptors)
  <2>1. returned' = None /\ UNCHANGED <<batchesEmitted, descriptorsEmitted>>
    BY <1>5 DEF Extend
  <2>2. Delivered(returned)' = Stream!Nothing
    BY <2>1 DEF Delivered, None, Stream!Nothing
  <2> QED BY <1>3, <2>1, <2>2 DEF Stream!Next, Stream!Hold
<1> QED BY <1>4, <1>5

\* Emitting the pending batch as it is.
LEMMA EmitPendingRefines ==
  ASSUME EncoderInv, parts # <<>>,
         returned' = Message(batchesEmitted, parts),
         descriptorsEmitted' = descriptorsEmitted + Len(parts),
         batchesEmitted' = batchesEmitted + 1,
         Taken' \in {Taken, Taken + 1}
  PROVE  Stream!Next
<1> DEFINE k == Len(parts)
<1>1. /\ k \in Nat /\ k >= 1 /\ descriptorsEmitted \in Nat
      /\ Taken = descriptorsEmitted + k
      /\ \A i \in 1..k : parts[i] = descriptorsEmitted + i
  <2>1. /\ k \in Nat /\ descriptorsEmitted \in Nat
        /\ Len(offsets) = descriptorsEmitted + k + 1
        /\ \A i \in 1..k : parts[i] = descriptorsEmitted + i
    BY PendingFacts
  <2>2. k >= 1
    BY PendingFacts
  <2>3. Taken = descriptorsEmitted + k
    BY ONLY <2>1 DEF Taken
  <2> QED BY <2>1, <2>2, <2>3
<1>2. parts \in Seq(Nat \ {0})
  BY DEF EncoderInv, TypeOK
<1>3. k \in 1..MaxBatchDescriptors
  BY <1>1, CapAssumption DEF EncoderInv, PendingIsFlushable
<1>4. parts[1] = descriptorsEmitted + 1 /\ parts[k] = descriptorsEmitted + k
  BY <1>1
<1>5. descriptorsEmitted + k <= Taken'
  BY <1>1
<1> HIDE DEF Taken
<1>6. Stream!Send
  BY <1>2, <1>3, <1>4, <1>5, EmitIsSend
<1> QED BY <1>6 DEF Stream!Next

\* A call that is refused, or has nothing to emit.
LEMMA SilentRefines ==
  ASSUME returned' \in {None, ValueError},
         UNCHANGED <<batchesEmitted, descriptorsEmitted, offsets>>
  PROVE  Stream!Next
<1>1. Delivered(returned)' = Stream!Nothing
  BY DEF Delivered, None, ValueError, Stream!Nothing
<1> QED BY <1>1 DEF Stream!Next, Stream!Hold

\* Every step of the encoder is a step of the stream, or changes nothing in it.
LEMMA StepRefines == EncoderInv /\ [Next]_vars => [Stream!Next]_(Stream!streamVars)
<1> SUFFICES ASSUME EncoderInv, [Next]_vars PROVE [Stream!Next]_(Stream!streamVars)
  OBVIOUS
<1>1. CASE Add
  <2> PICK size \in PartSizes :
        AddFirst(size) \/ AddToPending(size) \/ AddAfterFlush(size)
    BY <1>1 DEF Add
  <2>1. size \in Nat /\ pendingBytes \in Nat
    BY SizeAssumption DEF EncoderInv, TypeOK
  <2>2. ASSUME Refuse PROVE Stream!Next
    BY <2>2, SilentRefines DEF Refuse
  <2>3. CASE AddFirst(size)
    BY <2>1, <2>2, <2>3, ExtendRefines DEF AddFirst
  <2>4. CASE AddToPending(size)
    <3>1. pendingBytes + 1 + size \in Nat
      BY <2>1
    <3>2. Accept(size) /\ Extend(pendingBytes + 1 + size)
      BY <2>4 DEF AddToPending
    <3> QED BY <2>1, <3>1, <3>2, ExtendRefines
  <2>5. CASE AddAfterFlush(size)
    <3>1. CASE FitsAlone(size, batchesEmitted + 1)
      <4>1. parts # <<>> /\ Accept(size) /\ Emit(parts, <<Incoming>>, size)
        BY <2>5, <3>1 DEF AddAfterFlush
      <4>2. Taken' \in {Taken, Taken + 1}
        BY <2>1, <4>1, AcceptOffsets DEF EncoderInv, TypeOK
      <4> QED BY <4>1, <4>2, EmitPendingRefines DEF Emit
    <3>2. CASE ~FitsAlone(size, batchesEmitted + 1)
      BY <2>2, <2>5, <3>2 DEF AddAfterFlush
    <3> QED BY <3>1, <3>2
  <2> QED BY <2>3, <2>4, <2>5
<1>2. CASE Flush
  <2>1. offsets' = offsets
    BY <1>2 DEF Flush
  <2>2. CASE parts = <<>>
    BY <1>2, <2>1, <2>2, SilentRefines DEF Flush, encoderVars
  <2>3. CASE parts # <<>>
    <3>1. Emit(parts, <<>>, 0)
      BY <1>2, <2>3 DEF Flush
    <3> QED BY <2>1, <2>3, <3>1, EmitPendingRefines DEF Emit
  <2> QED BY <2>2, <2>3
<1>3. CASE EncodeSummary
  <2>1. UNCHANGED <<parts, batchesEmitted, descriptorsEmitted, offsets>>
    BY <1>3 DEF EncodeSummary
  <2>2. CASE returned' = ValueError
    BY <2>1, <2>2, SilentRefines
  <2>3. CASE parts = <<>> /\ returned' = Summary(descriptorsEmitted, batchesEmitted)
    <3>1. Taken = descriptorsEmitted
      BY <2>3, PendingFacts
    <3>2. Delivered(returned)' = Stream!Summary(descriptorsEmitted, batchesEmitted)
      BY <2>3 DEF Delivered, Summary, Stream!Summary
    <3> QED BY <2>1, <3>1, <3>2 DEF Stream!Next, Stream!Close
  <2> QED BY <1>3, <2>2, <2>3 DEF EncodeSummary
<1>4. CASE UNCHANGED vars
  BY <1>4 DEF vars, Stream!streamVars, Delivered
<1> QED BY <1>1, <1>2, <1>3, <1>4 DEF Next

\* The encoder implements the stream: every message it hands to the transport is
\* the next piece of the plan, and the summary closes a complete stream.
THEOREM EncoderImplementsStream == Spec => RefinesPlanStream
<1>1. Init => Stream!Init
  BY DEF Init, Stream!Init, Delivered, None, Stream!Nothing
<1> QED BY <1>1, StepRefines, EncoderCorrect, PTL DEF Spec, RefinesPlanStream, Stream!Spec

================================================================================
