-------------------------- MODULE RingBufferProofs --------------------------
(***************************************************************************)
(* Proofs about RingBuffer, for every capacity, every set of samples and   *)
(* every bound on a transfer: the two copies never touch the same slot and *)
(* the buffer implements the queue of SampleQueue.                         *)
(***************************************************************************)
EXTENDS RingBuffer, SequenceTheorems, TLAPS

-----------------------------------------------------------------------------
(* Index arithmetic: what the two masks do to the sums and differences the  *)
(* code forms.                                                              *)

\* size() is the distance from the read to the write index around the circle
\* of 2 * BufferSize index values.
LEMMA UsedValue ==
    ASSUME NEW w \in Indices, NEW r \in Indices
    PROVE  /\ Used(w, r) = IF w >= r THEN w - r ELSE w - r + 2 * BufferSize
           /\ Used(w, r) \in 0 .. 2 * BufferSize - 1
<1> DEFINE K == 2 * BufferSize
<1>1. K \in Nat \ {0} /\ w \in 0 .. K - 1 /\ r \in 0 .. K - 1
  BY BufferSizeAssumption DEF Indices
<1>2. ASSUME w >= r PROVE (w - r) % K = w - r
  <2>1. w - r \in 0 .. K - 1 BY <1>1, <1>2
  <2> QED BY <1>1, <2>1
<1>3. ASSUME ~(w >= r) PROVE (w - r) % K = w - r + K
  <2>1. w - r \in (-K) .. (-1) BY <1>1, <1>3
  <2> HIDE DEF K
  <2> QED BY <1>1, <2>1
<1> QED BY <1>1, <1>2, <1>3 DEF Used, Big

\* An index advanced by at most the capacity and masked is an index again.
LEMMA Advance ==
    ASSUME NEW i \in Indices, NEW n \in 0 .. BufferSize
    PROVE  /\ Big(i + n) \in Indices
           /\ Big(i + n) = IF i + n < 2 * BufferSize THEN i + n
                           ELSE i + n - 2 * BufferSize
<1> DEFINE K == 2 * BufferSize
<1>1. K \in Nat \ {0} /\ i \in 0 .. K - 1 /\ n \in 0 .. K
  BY BufferSizeAssumption DEF Indices
<1>2. ASSUME i + n < K PROVE (i + n) % K = i + n
  <2>1. i + n \in 0 .. K - 1 BY <1>1, <1>2
  <2> HIDE DEF K
  <2> QED BY <1>1, <2>1
<1>3. ASSUME ~(i + n < K) PROVE (i + n) % K = i + n - K
  <2>1. i + n \in K .. 2 * K - 1 BY <1>1, <1>3, BufferSizeAssumption DEF Indices
  <2> HIDE DEF K
  <2> QED BY <1>1, <2>1
<1> QED BY <1>1, <1>2, <1>3 DEF Big, Indices

\* Publishing a push of n elements adds n to the size.
LEMMA UsedAfterPush ==
    ASSUME NEW w \in Indices, NEW r \in Indices, NEW n \in 0 .. BufferSize,
           n + Used(w, r) <= BufferSize
    PROVE  Used(Big(w + n), r) = Used(w, r) + n
<1> DEFINE v == Big(w + n)
<1>1. /\ v \in Indices
      /\ v = IF w + n < 2 * BufferSize THEN w + n ELSE w + n - 2 * BufferSize
  BY Advance
<1>2. Used(w, r) = IF w >= r THEN w - r ELSE w - r + 2 * BufferSize
  BY UsedValue
<1> HIDE DEF v
<1>3. Used(v, r) = IF v >= r THEN v - r ELSE v - r + 2 * BufferSize
  BY <1>1, UsedValue
<1>4. Used(v, r) = Used(w, r) + n
  BY <1>1, <1>2, <1>3, BufferSizeAssumption DEF Indices
<1> QED BY <1>4 DEF v

\* Publishing a pop of n elements takes n from the size.
LEMMA UsedAfterPop ==
    ASSUME NEW w \in Indices, NEW r \in Indices, NEW n \in 0 .. BufferSize,
           n <= Used(w, r)
    PROVE  Used(w, Big(r + n)) = Used(w, r) - n
<1> DEFINE v == Big(r + n)
<1>1. /\ v \in Indices
      /\ v = IF r + n < 2 * BufferSize THEN r + n ELSE r + n - 2 * BufferSize
  BY Advance
<1>2. Used(w, r) = IF w >= r THEN w - r ELSE w - r + 2 * BufferSize
  BY UsedValue
<1> HIDE DEF v
<1>3. Used(w, v) = IF w >= v THEN w - v ELSE w - v + 2 * BufferSize
  BY <1>1, UsedValue
<1>4. Used(w, v) = Used(w, r) - n
  BY <1>1, <1>2, <1>3, BufferSizeAssumption DEF Indices
<1> QED BY <1>4 DEF v

\* A slot number is what is left of an index after whole turns of the storage.
LEMMA SlotValue ==
    ASSUME NEW i \in 0 .. 3 * BufferSize - 1
    PROVE  /\ Slot(i) \in Slots
           /\ Slot(i) = IF i < BufferSize THEN i
                        ELSE IF i < 2 * BufferSize THEN i - BufferSize
                        ELSE i - 2 * BufferSize
<1>1. CASE i \in 0 .. BufferSize - 1
  BY <1>1, BufferSizeAssumption DEF Slot, Slots
<1>2. CASE i \in BufferSize .. 2 * BufferSize - 1
  <2>1. i % BufferSize = i - BufferSize BY <1>2, BufferSizeAssumption
  <2> QED BY <1>2, <2>1, BufferSizeAssumption DEF Slot, Slots
<1>3. CASE i \in 2 * BufferSize .. 3 * BufferSize - 1
  <2>1. i % BufferSize = i - 2 * BufferSize BY <1>3, BufferSizeAssumption
  <2> QED BY <1>3, <2>1, BufferSizeAssumption DEF Slot, Slots
<1> QED BY <1>1, <1>2, <1>3, BufferSizeAssumption

\* Masking an index to its published range does not change its slot.
LEMMA SlotOfBig ==
    ASSUME NEW i \in Indices, NEW n \in 0 .. BufferSize,
           NEW k \in 0 .. BufferSize, n + k < BufferSize
    PROVE  Slot(Big(i + n) + k) = Slot(i + n + k)
<1>1. Big(i + n) \in Indices BY Advance
<1>2. /\ i + n + k \in 0 .. 3 * BufferSize - 1
      /\ Big(i + n) + k \in 0 .. 3 * BufferSize - 1
  BY <1>1, BufferSizeAssumption DEF Indices
<1>3. CASE i + n < 2 * BufferSize BY <1>3, Advance
<1>4. CASE ~(i + n < 2 * BufferSize)
  <2>1. Big(i + n) = i + n - 2 * BufferSize BY <1>4, Advance
  <2>2. Big(i + n) + k < BufferSize BY <2>1, BufferSizeAssumption DEF Indices
  <2> QED BY <1>2, <1>4, <2>1, <2>2, SlotValue, BufferSizeAssumption DEF Indices
<1> QED BY <1>3, <1>4

\* Fewer than BufferSize elements apart, two elements have different slots.
LEMMA SlotInjective ==
    ASSUME NEW i \in Indices, NEW k \in 0 .. BufferSize - 1,
           NEW l \in 0 .. BufferSize - 1, k # l
    PROVE  Slot(i + k) # Slot(i + l)
<1>1. i + k \in 0 .. 3 * BufferSize - 1 /\ i + l \in 0 .. 3 * BufferSize - 1
  BY BufferSizeAssumption DEF Indices
<1> QED BY <1>1, SlotValue, BufferSizeAssumption DEF Indices

\* The slot k places behind the write index is the slot size() + k places
\* behind the read index.
LEMMA SlotFromReader ==
    ASSUME NEW w \in Indices, NEW r \in Indices, NEW k \in 0 .. BufferSize - 1,
           Used(w, r) + k < BufferSize
    PROVE  Slot(w + k) = Slot(r + Used(w, r) + k)
<1> DEFINE u == Used(w, r)
<1>1. u = IF w >= r THEN w - r ELSE w - r + 2 * BufferSize
  BY UsedValue
<1> HIDE DEF u
<1>2. /\ w + k \in 0 .. 3 * BufferSize - 1
      /\ u \in Nat
      /\ r + u + k \in 0 .. 3 * BufferSize - 1
  <2>1. u \in 0 .. 2 * BufferSize - 1 /\ u + k < BufferSize BY UsedValue DEF u
  <2> QED BY <2>1, BufferSizeAssumption DEF Indices
<1>3. CASE w >= r
  <2>1. r + u + k = w + k BY <1>1, <1>3 DEF Indices
  <2> QED BY <2>1 DEF u
<1>4. CASE ~(w >= r)
  <2>1. r + u + k = w + k + 2 * BufferSize BY <1>1, <1>4, BufferSizeAssumption DEF Indices
  <2>2. w + k < BufferSize BY <1>2, <2>1, BufferSizeAssumption DEF Indices
  <2>3. Slot(r + u + k) = Slot(w + k)
    BY <1>2, <2>1, <2>2, SlotValue, BufferSizeAssumption DEF Indices
  <2> QED BY <2>3 DEF u
<1> QED BY <1>3, <1>4

-----------------------------------------------------------------------------
(* The invariant.                                                           *)

\* The slot push writes next lies outside of what pop may read, and outside
\* of what push has written: both facts follow from PushFits.
LEMMA FreshSlot ==
    ASSUME Inv, writer.done < writer.count
    PROVE  /\ Slot(mWriteIndex + writer.done) \in Slots
           /\ \A k \in 0 .. Used(mWriteIndex, mReadIndex) - 1 :
                 Slot(mReadIndex + k) # Slot(mWriteIndex + writer.done)
           /\ \A k \in 0 .. writer.done - 1 :
                 Slot(mWriteIndex + k) # Slot(mWriteIndex + writer.done)
<1> DEFINE u == Used(mWriteIndex, mReadIndex)
<1>1. /\ mWriteIndex \in Indices /\ mReadIndex \in Indices
      /\ writer.done \in 0 .. BufferSize - 1
      /\ u \in Nat /\ u + writer.done < BufferSize
  BY UsedValue, BufferSizeAssumption DEF Inv, TypeOK, PushFits, Calls
<1>2. Slot(mWriteIndex + writer.done) = Slot(mReadIndex + (u + writer.done))
  <2>1. mReadIndex + u + writer.done = mReadIndex + (u + writer.done)
    BY <1>1 DEF Indices
  <2>2. Slot(mWriteIndex + writer.done) = Slot(mReadIndex + u + writer.done)
    BY <1>1, SlotFromReader
  <2> QED BY <2>1, <2>2
<1> HIDE DEF u
<1>3. ASSUME NEW k \in 0 .. u - 1
      PROVE  Slot(mReadIndex + k) # Slot(mReadIndex + (u + writer.done))
  <2>1. /\ k \in 0 .. BufferSize - 1 /\ u + writer.done \in 0 .. BufferSize - 1
        /\ k # u + writer.done
    BY <1>1, BufferSizeAssumption
  <2> QED BY <1>1, <2>1, SlotInjective
<1>4. ASSUME NEW k \in 0 .. writer.done - 1
      PROVE  Slot(mWriteIndex + k) # Slot(mWriteIndex + writer.done)
  <2>1. k \in 0 .. BufferSize - 1 /\ k # writer.done BY <1>1, BufferSizeAssumption
  <2> QED BY <1>1, <2>1, SlotInjective
<1>5. Slot(mWriteIndex + writer.done) \in Slots
  <2>1. mWriteIndex + writer.done \in 0 .. 3 * BufferSize - 1
    BY <1>1, BufferSizeAssumption DEF Indices
  <2> QED BY <2>1, SlotValue
<1> QED BY <1>2, <1>3, <1>4, <1>5 DEF u

LEMMA InitInv == Init => Inv
<1> SUFFICES ASSUME Init PROVE Inv OBVIOUS
<1>1. 0 \in Indices BY BufferSizeAssumption DEF Indices
<1>2. Used(0, 0) = 0 BY <1>1, UsedValue DEF Indices
<1> QED
  BY <1>1, <1>2, BufferSizeAssumption
  DEF Init, Inv, TypeOK, PushFits, PopFits, WriterCopied, ReaderCopied,
      NoCall, Calls, NoTransfer, Transfers

LEMMA PushBeginInv ==
    ASSUME Inv, NEW samples \in Batches, PushBegin(samples)
    PROVE  Inv'
<1> DEFINE u == Used(mWriteIndex, mReadIndex)
           n == Smaller(Len(samples), BufferSize - u)
<1>1. u \in Nat /\ u <= BufferSize /\ BufferSize - u # 0
  <2>1. u \in 0 .. 2 * BufferSize - 1 BY UsedValue DEF Inv, TypeOK
  <2> QED BY <2>1, BufferSizeAssumption DEF Inv, TypeOK, PushFits, PushBegin, Calls
<1>2. /\ writer.count = 0
      /\ writer' = [count |-> n, done |-> 0, samples |-> SubSeq(samples, 1, n)]
      /\ UNCHANGED <<mBuffer, mWriteIndex, mReadIndex, reader, last>>
  BY DEF PushBegin
<1>3. samples \in Seq(Sample) /\ Len(samples) \in Nat \ {0}
  BY MaxTransferAssumption DEF Batches
<1> HIDE DEF u
<1>4. n \in 1 .. BufferSize /\ n <= BufferSize - u /\ n <= Len(samples)
  BY <1>1, <1>3, BufferSizeAssumption DEF Smaller
<1> HIDE DEF n
<1>5. SubSeq(samples, 1, n) \in Seq(Sample) /\ Len(SubSeq(samples, 1, n)) = n
  BY <1>3, <1>4
<1>6. TypeOK'
  BY <1>2, <1>4, <1>5, BufferSizeAssumption DEF Inv, TypeOK, Calls
<1>7. PushFits' /\ PopFits'
  BY <1>1, <1>2, <1>4, BufferSizeAssumption DEF Inv, PushFits, PopFits, u
<1>8. WriterCopied' /\ ReaderCopied'
  BY <1>2 DEF Inv, WriterCopied, ReaderCopied
<1> QED BY <1>6, <1>7, <1>8 DEF Inv

LEMMA PushCopyInv ==
    ASSUME Inv, PushCopy
    PROVE  Inv'
<1> DEFINE s == Slot(mWriteIndex + writer.done)
<1>1. /\ writer.done < writer.count
      /\ mBuffer' = [mBuffer EXCEPT ![s] = writer.samples[writer.done + 1]]
      /\ writer' = [writer EXCEPT !.done = writer.done + 1]
      /\ UNCHANGED <<mWriteIndex, mReadIndex, reader, last>>
  BY DEF PushCopy
<1>2. /\ s \in Slots
      /\ \A k \in 0 .. Used(mWriteIndex, mReadIndex) - 1 : Slot(mReadIndex + k) # s
      /\ \A k \in 0 .. writer.done - 1 : Slot(mWriteIndex + k) # s
  BY <1>1, FreshSlot
<1>3. /\ mBuffer \in [Slots -> Sample]
      /\ writer \in Calls /\ reader \in Calls
      /\ Len(writer.samples) = writer.count
      /\ mWriteIndex \in Indices /\ mReadIndex \in Indices
      /\ reader.done <= reader.count
      /\ Used(mWriteIndex, mReadIndex) \in Int
  BY UsedValue DEF Inv, TypeOK
<1> HIDE DEF s
<1>4. writer.samples[writer.done + 1] \in Sample
  BY <1>1, <1>3 DEF Calls
<1>5. /\ writer' \in Calls /\ writer'.count = writer.count
      /\ writer'.done = writer.done + 1 /\ writer'.samples = writer.samples
  BY <1>1, <1>3, BufferSizeAssumption DEF Calls
<1>6. TypeOK'
  <2>1. mBuffer' \in [Slots -> Sample] BY <1>1, <1>2, <1>3, <1>4
  <2> QED BY <1>1, <1>3, <1>5, <2>1 DEF Inv, TypeOK, Calls
<1>7. PushFits' /\ PopFits'
  BY <1>1, <1>5 DEF Inv, PushFits, PopFits
<1>8. WriterCopied'
  <2> SUFFICES ASSUME NEW k \in 0 .. writer.done
               PROVE  mBuffer'[Slot(mWriteIndex + k)] = writer.samples[k + 1]
    BY <1>1, <1>3, <1>5 DEF WriterCopied, Calls
  <2>1. CASE k = writer.done BY <1>1, <1>2, <1>3, <2>1 DEF s
  <2>2. CASE k # writer.done
    <3>1. k \in 0 .. writer.done - 1 BY <1>3, <2>2 DEF Calls
    <3>2. Slot(mWriteIndex + k) \in Slots
      <4>1. mWriteIndex + k \in 0 .. 3 * BufferSize - 1
        BY <1>3, <3>1, BufferSizeAssumption DEF Indices, Calls
      <4> QED BY <4>1, SlotValue
    <3> QED BY <1>1, <1>2, <1>3, <3>1, <3>2 DEF Inv, WriterCopied
  <2> QED BY <2>1, <2>2
<1>9. ReaderCopied'
  <2> SUFFICES ASSUME NEW k \in 0 .. reader.done - 1
               PROVE  reader.samples[k + 1] = mBuffer'[Slot(mReadIndex + k)]
    BY <1>1 DEF ReaderCopied
  <2>1. k \in 0 .. Used(mWriteIndex, mReadIndex) - 1
    BY <1>3 DEF Inv, PopFits, Calls
  <2>2. Slot(mReadIndex + k) \in Slots
    <3>1. mReadIndex + k \in 0 .. 3 * BufferSize - 1
      BY <1>3, BufferSizeAssumption DEF Indices, Calls
    <3> QED BY <3>1, SlotValue
  <2> QED BY <1>1, <1>2, <1>3, <2>1, <2>2 DEF Inv, ReaderCopied
<1> QED BY <1>6, <1>7, <1>8, <1>9 DEF Inv

\* Publishing a push makes what was copied part of the contents: the size
\* grows by what push held, and what pop works on stays where it is.
LEMMA PushPublishInv ==
    ASSUME Inv, PushPublish
    PROVE  /\ Inv'
           /\ Used(mWriteIndex, mReadIndex)'
                = Used(mWriteIndex, mReadIndex) + writer.count
<1>1. /\ mWriteIndex' = Big(mWriteIndex + writer.count)
      /\ last' = [call |-> "push", samples |-> writer.samples]
      /\ writer' = NoCall
      /\ UNCHANGED <<mBuffer, mReadIndex, reader>>
  BY DEF PushPublish
<1>2. /\ writer.count \in 0 .. BufferSize
      /\ mWriteIndex \in Indices /\ mReadIndex \in Indices
      /\ writer.count + Used(mWriteIndex, mReadIndex) <= BufferSize
      /\ reader.count <= Used(mWriteIndex, mReadIndex)
      /\ reader.count \in Int
  BY DEF Inv, TypeOK, PushFits, PopFits, Calls
<1>3. mWriteIndex' \in Indices BY <1>1, <1>2, Advance
<1>4. Used(mWriteIndex', mReadIndex') = Used(mWriteIndex, mReadIndex) + writer.count
  BY <1>1, <1>2, UsedAfterPush
<1>5. Used(mWriteIndex, mReadIndex) \in Int BY <1>2, UsedValue
<1>6. TypeOK' BY <1>1, <1>3, BufferSizeAssumption DEF Inv, TypeOK, NoCall, Calls, Transfers
<1>7. PushFits' /\ PopFits'
  BY <1>1, <1>2, <1>4, <1>5, BufferSizeAssumption DEF PushFits, PopFits, NoCall
<1>8. WriterCopied' /\ ReaderCopied'
  BY <1>1 DEF Inv, WriterCopied, ReaderCopied, NoCall
<1> QED BY <1>4, <1>6, <1>7, <1>8 DEF Inv

LEMMA PopBeginInv ==
    ASSUME Inv, NEW numSamples \in 1 .. MaxTransfer, PopBegin(numSamples)
    PROVE  Inv'
<1> DEFINE u == Used(mWriteIndex, mReadIndex)
           n == Smaller(numSamples, u)
<1>1. u \in Nat /\ u <= BufferSize
  <2>1. u \in 0 .. 2 * BufferSize - 1 BY UsedValue DEF Inv, TypeOK
  <2>2. writer.count \in Nat BY DEF Inv, TypeOK, Calls
  <2>3. writer.count + u <= BufferSize BY DEF Inv, PushFits
  <2> HIDE DEF u
  <2> QED BY <2>1, <2>2, <2>3, BufferSizeAssumption
<1>2. /\ reader' = [count |-> n, done |-> 0, samples |-> << >>]
      /\ UNCHANGED <<mBuffer, mWriteIndex, mReadIndex, writer, last>>
  BY DEF PopBegin
<1> HIDE DEF u
<1>3. n \in 0 .. BufferSize /\ n <= u
  BY <1>1, BufferSizeAssumption, MaxTransferAssumption DEF Smaller
<1> HIDE DEF n
<1>4. TypeOK' BY <1>2, <1>3, BufferSizeAssumption DEF Inv, TypeOK, Calls
<1>5. PushFits' /\ PopFits' BY <1>2, <1>3 DEF Inv, PushFits, PopFits, u
<1>6. WriterCopied' /\ ReaderCopied'
  BY <1>2 DEF Inv, WriterCopied, ReaderCopied
<1> QED BY <1>4, <1>5, <1>6 DEF Inv

LEMMA PopCopyInv ==
    ASSUME Inv, PopCopy
    PROVE  Inv'
<1> DEFINE x == mBuffer[Slot(mReadIndex + reader.done)]
<1>1. /\ reader.done < reader.count
      /\ reader' = [reader EXCEPT !.done = reader.done + 1,
                                  !.samples = Append(reader.samples, x)]
      /\ UNCHANGED <<mBuffer, mWriteIndex, mReadIndex, writer, last>>
  BY DEF PopCopy
<1>2. /\ reader \in Calls /\ Len(reader.samples) = reader.done
      /\ mBuffer \in [Slots -> Sample] /\ mReadIndex \in Indices
  BY DEF Inv, TypeOK
<1>3. x \in Sample
  <2>1. mReadIndex + reader.done \in 0 .. 3 * BufferSize - 1
    <3>1. reader.done < reader.count BY <1>1
    <3> QED BY <3>1, <1>2, BufferSizeAssumption DEF Indices, Calls
  <2>2. Slot(mReadIndex + reader.done) \in Slots BY <2>1, SlotValue
  <2> QED BY <1>2, <2>2
<1> HIDE DEF x
<1>4. /\ reader'.count = reader.count /\ reader'.done = reader.done + 1
      /\ reader'.samples = Append(reader.samples, x)
      /\ reader' \in Calls
  <2>1. reader.samples \in Seq(Sample) /\ reader.done + 1 \in 0 .. BufferSize
    <3>1. reader.done < reader.count BY <1>1
    <3> QED BY <1>2, <3>1, BufferSizeAssumption DEF Calls
  <2>2. Append(reader.samples, x) \in Seq(Sample) BY <1>3, <2>1
  <2> QED BY <1>1, <1>2, <2>1, <2>2 DEF Calls
<1>5. TypeOK'
  <2>1. Len(reader'.samples) = reader'.done /\ reader'.done <= reader'.count
    <3>1. reader.samples \in Seq(Sample) /\ reader.done \in Int /\ reader.count \in Int
      BY <1>2 DEF Calls
    <3>2. reader.done < reader.count BY <1>1
    <3> QED BY <1>2, <1>4, <3>1, <3>2
  <2> QED BY <1>1, <1>4, <2>1 DEF Inv, TypeOK
<1>6. PushFits' /\ PopFits' BY <1>1, <1>4 DEF Inv, PushFits, PopFits
<1>7. WriterCopied' BY <1>1 DEF Inv, WriterCopied
<1>8. ReaderCopied'
  <2>1. reader.samples \in Seq(Sample) /\ reader.done \in Nat BY <1>2 DEF Calls
  <2>2. mBuffer' = mBuffer /\ mReadIndex' = mReadIndex BY <1>1
  <2>3. reader'.samples = Append(reader.samples, x) /\ reader'.done - 1 = reader.done
    BY <1>4, <2>1
  <2>4. ASSUME NEW k \in 0 .. reader.done
        PROVE  Append(reader.samples, x)[k + 1] = mBuffer[Slot(mReadIndex + k)]
    <3>1. CASE k = reader.done BY <1>2, <2>1, <3>1 DEF x
    <3>2. CASE k # reader.done
      BY <1>2, <2>1, <3>2 DEF Inv, ReaderCopied
    <3> QED BY <3>1, <3>2
  <2> QED BY <2>2, <2>3, <2>4 DEF ReaderCopied
<1> QED BY <1>5, <1>6, <1>7, <1>8 DEF Inv

LEMMA PopPublishInv ==
    ASSUME Inv, PopPublish
    PROVE  /\ Inv'
           /\ Used(mWriteIndex, mReadIndex)'
                = Used(mWriteIndex, mReadIndex) - reader.count
<1>1. /\ mReadIndex' = Big(mReadIndex + reader.count)
      /\ last' = [call |-> "pop", samples |-> reader.samples]
      /\ reader' = NoCall
      /\ UNCHANGED <<mBuffer, mWriteIndex, writer>>
  BY DEF PopPublish
<1>2. /\ reader.count \in 0 .. BufferSize
      /\ writer.count \in Int
      /\ mWriteIndex \in Indices /\ mReadIndex \in Indices
      /\ writer.count + Used(mWriteIndex, mReadIndex) <= BufferSize
      /\ reader.count <= Used(mWriteIndex, mReadIndex)
  BY DEF Inv, TypeOK, PushFits, PopFits, Calls
<1>3. mReadIndex' \in Indices BY <1>1, <1>2, Advance
<1>4. Used(mWriteIndex', mReadIndex') = Used(mWriteIndex, mReadIndex) - reader.count
  BY <1>1, <1>2, UsedAfterPop
<1>5. Used(mWriteIndex, mReadIndex) \in Int BY <1>2, UsedValue
<1>6. TypeOK' BY <1>1, <1>3, BufferSizeAssumption DEF Inv, TypeOK, NoCall, Calls, Transfers
<1>7. PushFits' /\ PopFits'
  BY <1>1, <1>2, <1>4, <1>5, BufferSizeAssumption DEF PushFits, PopFits, NoCall
<1>8. WriterCopied' /\ ReaderCopied'
  BY <1>1 DEF Inv, WriterCopied, ReaderCopied, NoCall
<1> QED BY <1>4, <1>6, <1>7, <1>8 DEF Inv

LEMMA ClearInv ==
    ASSUME Inv, Clear
    PROVE  Inv' /\ Used(mWriteIndex, mReadIndex)' = 0
<1>1. /\ writer.count = 0 /\ reader.count = 0
      /\ mWriteIndex' = 0 /\ mReadIndex' = 0
      /\ UNCHANGED <<mBuffer, writer, reader, last>>
  BY DEF Clear
<1>2. 0 \in Indices BY BufferSizeAssumption DEF Indices
<1>3. Used(0, 0) = 0 BY <1>2, UsedValue DEF Indices
<1>4. Used(mWriteIndex', mReadIndex') = 0 BY <1>1, <1>3
<1>5. TypeOK' BY <1>1, <1>2 DEF Inv, TypeOK
<1>6. writer.done = 0 /\ reader.done = 0 BY <1>1 DEF Inv, TypeOK, Calls
<1>7. PushFits' /\ PopFits' /\ WriterCopied' /\ ReaderCopied'
  BY <1>1, <1>4, <1>6, BufferSizeAssumption
  DEF PushFits, PopFits, WriterCopied, ReaderCopied
<1> QED BY <1>4, <1>5, <1>7 DEF Inv

LEMMA StepInv == Inv /\ [Next]_vars => Inv'
<1> SUFFICES ASSUME Inv, [Next]_vars PROVE Inv' OBVIOUS
<1>1. ASSUME NEW samples \in Batches, PushBegin(samples) PROVE Inv'
  BY <1>1, PushBeginInv
<1>2. CASE PushCopy BY <1>2, PushCopyInv
<1>3. CASE PushPublish BY <1>3, PushPublishInv
<1>4. ASSUME NEW n \in 1 .. MaxTransfer, PopBegin(n) PROVE Inv'
  BY <1>4, PopBeginInv
<1>5. CASE PopCopy BY <1>5, PopCopyInv
<1>6. CASE PopPublish BY <1>6, PopPublishInv
<1>7. CASE Clear BY <1>7, ClearInv
<1>8. CASE UNCHANGED vars
  BY <1>8 DEF vars, Inv, TypeOK, PushFits, PopFits, WriterCopied, ReaderCopied
<1> QED BY <1>1, <1>2, <1>3, <1>4, <1>5, <1>6, <1>7, <1>8 DEF Next, Push, Pop

\* The invariant holds throughout: in particular every variable keeps its
\* type, a push never outgrows the free space it saw and a pop never reads
\* past what was published, for every interleaving of the two threads.
THEOREM Invariance == Spec => []Inv
<1>1. Init => Inv BY InitInv
<1>2. Inv /\ [Next]_vars => Inv' BY StepInv
<1> QED BY <1>1, <1>2, PTL DEF Spec

-----------------------------------------------------------------------------
(* What the invariant is for.                                               *)

LEMMA InvNoDataRace == Inv => NoDataRace
<1> SUFFICES ASSUME Inv,
                    NEW k \in 0 .. writer.count - 1,
                    NEW l \in 0 .. reader.count - 1
             PROVE  Slot(mWriteIndex + k) # Slot(mReadIndex + l)
  BY DEF NoDataRace, WriteSlots, ReadSlots
<1> DEFINE u == Used(mWriteIndex, mReadIndex)
<1>1. /\ mWriteIndex \in Indices /\ mReadIndex \in Indices
      /\ writer.count \in 0 .. BufferSize /\ reader.count \in 0 .. BufferSize
      /\ u \in Nat /\ writer.count + u <= BufferSize /\ reader.count <= u
  BY UsedValue, BufferSizeAssumption DEF Inv, TypeOK, PushFits, PopFits, Calls
<1>2. k \in 0 .. BufferSize - 1 /\ u + k < BufferSize
  BY <1>1, BufferSizeAssumption
<1>3. Slot(mWriteIndex + k) = Slot(mReadIndex + u + k)
  BY <1>1, <1>2, SlotFromReader
<1> HIDE DEF u
<1>4. mReadIndex + u + k = mReadIndex + (u + k) BY <1>1 DEF Indices
<1>5. /\ u + k \in 0 .. BufferSize - 1 /\ l \in 0 .. BufferSize - 1
      /\ u + k # l
  BY <1>1, <1>2, BufferSizeAssumption
<1>6. Slot(mReadIndex + (u + k)) # Slot(mReadIndex + l)
  BY <1>1, <1>5, SlotInjective
<1> QED BY <1>3, <1>4, <1>6

\* However the two calls interleave, push never writes a slot that the pop in
\* progress is still going to read or has read: the buffer needs no lock.
THEOREM NoRace == Spec => []NoDataRace
<1> QED BY Invariance, InvNoDataRace, PTL

\* Contents is a sequence of samples as long as size() says.
LEMMA ContentsType ==
    ASSUME Inv
    PROVE  /\ Contents \in Seq(Sample)
           /\ Len(Contents) = Used(mWriteIndex, mReadIndex)
           /\ Used(mWriteIndex, mReadIndex) \in 0 .. BufferSize
<1> DEFINE u == Used(mWriteIndex, mReadIndex)
<1>1. /\ mWriteIndex \in Indices /\ mReadIndex \in Indices
      /\ writer.count \in Nat /\ mBuffer \in [Slots -> Sample]
      /\ writer.count + u <= BufferSize
  BY DEF Inv, TypeOK, PushFits, Calls
<1>2. u \in 0 .. 2 * BufferSize - 1 BY <1>1, UsedValue
<1> HIDE DEF u
<1>3. u \in 0 .. BufferSize BY <1>1, <1>2, BufferSizeAssumption
<1>4. ASSUME NEW k \in 1 .. u PROVE mBuffer[Slot(mReadIndex + k - 1)] \in Sample
  <2>1. mReadIndex + k - 1 \in 0 .. 3 * BufferSize - 1
    BY <1>1, <1>3, BufferSizeAssumption DEF Indices
  <2> QED BY <1>1, <2>1, SlotValue
<1>5. Contents = [k \in 1 .. u |-> mBuffer[Slot(mReadIndex + k - 1)]]
  BY DEF Contents, u
<1> QED BY <1>3, <1>4, <1>5 DEF u

\* The copy of push writes outside of the contents.
LEMMA PushCopyContents ==
    ASSUME Inv, PushCopy
    PROVE  Contents' = Contents /\ last' = last
<1> DEFINE s == Slot(mWriteIndex + writer.done)
           u == Used(mWriteIndex, mReadIndex)
<1>1. /\ mBuffer' = [mBuffer EXCEPT ![s] = writer.samples[writer.done + 1]]
      /\ mWriteIndex' = mWriteIndex /\ mReadIndex' = mReadIndex /\ last' = last
      /\ writer.done < writer.count
  BY DEF PushCopy
<1>2. \A k \in 0 .. u - 1 : Slot(mReadIndex + k) # s
  BY <1>1, FreshSlot
<1>3. mBuffer \in [Slots -> Sample] /\ mReadIndex \in Indices /\ u \in 0 .. BufferSize
  BY ContentsType DEF Inv, TypeOK
<1> HIDE DEF s, u
<1>4. ASSUME NEW k \in 1 .. u
      PROVE  mBuffer'[Slot(mReadIndex + k - 1)] = mBuffer[Slot(mReadIndex + k - 1)]
  <2>1. mReadIndex + k - 1 \in 0 .. 3 * BufferSize - 1
    BY <1>3, BufferSizeAssumption DEF Indices
  <2>2. Slot(mReadIndex + k - 1) \in Slots BY <2>1, SlotValue
  <2>3. k - 1 \in 0 .. u - 1 /\ mReadIndex + (k - 1) = mReadIndex + k - 1
    BY <1>3 DEF Indices
  <2>4. Slot(mReadIndex + k - 1) # s BY <1>2, <2>3
  <2> QED BY <1>1, <1>3, <2>2, <2>4
<1>5. /\ Contents = [k \in 1 .. u |-> mBuffer[Slot(mReadIndex + k - 1)]]
      /\ Contents' = [k \in 1 .. u |-> mBuffer'[Slot(mReadIndex + k - 1)]]
  BY <1>1 DEF Contents, u
<1> QED BY <1>1, <1>4, <1>5

\* Publishing a push is the Push of SampleQueue.
LEMMA PushPublishRefines ==
    ASSUME Inv, PushPublish
    PROVE  Queue!Push
<1> DEFINE u == Used(mWriteIndex, mReadIndex)
           n == writer.count
           batch == writer.samples
<1>1. /\ mBuffer' = mBuffer /\ mReadIndex' = mReadIndex
      /\ last' = [call |-> "push", samples |-> batch]
      /\ n # 0 /\ writer.done = n
  BY DEF PushPublish
<1>2. /\ mWriteIndex \in Indices /\ mReadIndex \in Indices
      /\ n \in 0 .. BufferSize /\ batch \in Seq(Sample) /\ Len(batch) = n
      /\ n + u <= BufferSize /\ u \in 0 .. BufferSize
  BY ContentsType DEF Inv, TypeOK, PushFits, Calls
<1>3. Used(mWriteIndex', mReadIndex') = u + n BY PushPublishInv
<1>4. \A k \in 0 .. n - 1 : mBuffer[Slot(mWriteIndex + k)] = batch[k + 1]
  BY <1>1 DEF Inv, WriterCopied
<1> HIDE DEF u, n, batch
<1>5. ASSUME NEW k \in u + 1 .. u + n
      PROVE  mBuffer[Slot(mReadIndex + k - 1)] = batch[k - u]
  <2>1. /\ k - u - 1 \in 0 .. n - 1 /\ k - u - 1 \in 0 .. BufferSize - 1
        /\ u + (k - u - 1) < BufferSize
        /\ mReadIndex + u + (k - u - 1) = mReadIndex + k - 1
        /\ (k - u - 1) + 1 = k - u
    BY <1>2, BufferSizeAssumption DEF Indices
  <2>2. Slot(mWriteIndex + (k - u - 1)) = Slot(mReadIndex + u + (k - u - 1))
    BY <1>2, <2>1, SlotFromReader DEF u
  <2>3. mBuffer[Slot(mWriteIndex + (k - u - 1))] = batch[(k - u - 1) + 1]
    BY <1>4, <2>1
  <2> QED BY <2>1, <2>2, <2>3
<1>6. /\ Contents = [k \in 1 .. u |-> mBuffer[Slot(mReadIndex + k - 1)]]
      /\ Contents' = [k \in 1 .. u + n |-> mBuffer[Slot(mReadIndex + k - 1)]]
  BY <1>1, <1>3 DEF Contents, u
<1>7. Contents' = Contents \o batch
  <2>1. /\ Contents \in Seq(Sample) /\ Len(Contents) = u BY ContentsType DEF u
  <2>2. ASSUME NEW k \in 1 .. u + n
        PROVE  Contents'[k] = IF k <= u THEN Contents[k] ELSE batch[k - u]
    <3>1. CASE k <= u BY <1>2, <1>6, <3>1
    <3>2. CASE ~(k <= u)
      <4>1. k \in u + 1 .. u + n BY <1>2, <3>2
      <4> QED BY <1>5, <1>6, <3>2, <4>1
    <3> QED BY <3>1, <3>2
  <2>3. Contents' \in Seq(Sample) /\ Len(Contents') = u + n
    <3>1. ASSUME NEW k \in 1 .. u + n PROVE Contents'[k] \in Sample
      BY <1>2, <2>1, <2>2
    <3> QED BY <1>2, <1>6, <3>1
  <2>4. /\ Contents \o batch \in Seq(Sample) /\ Len(Contents \o batch) = u + n
        /\ \A k \in 1 .. u + n : (Contents \o batch)[k]
                                   = IF k <= u THEN Contents[k] ELSE batch[k - u]
    BY <1>2, <2>1, ConcatProperties
  <2>5. \A k \in 1 .. u + n : Contents'[k] = (Contents \o batch)[k]
    BY <2>2, <2>4
  <2> QED BY <2>3, <2>4, <2>5, SeqEqual
<1>8. n \in 1 .. BufferSize - Len(Contents) /\ batch \in [1 .. n -> Sample]
  <2>1. Len(Contents) = u BY ContentsType DEF u
  <2> QED BY <1>1, <1>2, <2>1, BufferSizeAssumption
<1> QED BY <1>1, <1>7, <1>8 DEF Queue!Push

\* Publishing a pop is the Pop of SampleQueue.
LEMMA PopPublishRefines ==
    ASSUME Inv, PopPublish
    PROVE  Queue!Pop
<1> DEFINE u == Used(mWriteIndex, mReadIndex)
           n == reader.count
<1>1. /\ mBuffer' = mBuffer /\ last' = [call |-> "pop", samples |-> reader.samples]
      /\ mReadIndex' = Big(mReadIndex + n)
      /\ n # 0 /\ reader.done = n
  BY DEF PopPublish
<1>2. /\ mReadIndex \in Indices
      /\ n \in 0 .. BufferSize /\ n <= u /\ u \in 0 .. BufferSize
      /\ reader.samples \in Seq(Sample) /\ Len(reader.samples) = n
  BY <1>1, ContentsType DEF Inv, TypeOK, PopFits, Calls
<1>3. Used(mWriteIndex', mReadIndex') = u - n BY PopPublishInv
<1>4. \A k \in 0 .. n - 1 : reader.samples[k + 1] = mBuffer[Slot(mReadIndex + k)]
  BY <1>1 DEF Inv, ReaderCopied
<1>5. Contents \in Seq(Sample) /\ Len(Contents) = u BY ContentsType
<1> HIDE DEF u, n
<1>6. ASSUME NEW k \in 1 .. u - n
      PROVE  mBuffer[Slot(Big(mReadIndex + n) + k - 1)]
               = mBuffer[Slot(mReadIndex + (n + k) - 1)]
  <2>1. /\ k - 1 \in 0 .. BufferSize /\ n + (k - 1) < BufferSize
        /\ mReadIndex + n + (k - 1) = mReadIndex + (n + k) - 1
    BY <1>2, BufferSizeAssumption DEF Indices
  <2>2. Slot(Big(mReadIndex + n) + (k - 1)) = Slot(mReadIndex + n + (k - 1))
    BY <1>2, <2>1, SlotOfBig
  <2>3. Big(mReadIndex + n) + (k - 1) = Big(mReadIndex + n) + k - 1
    <3>1. Big(mReadIndex + n) \in Indices BY <1>2, Advance
    <3> QED BY <1>2, <3>1 DEF Indices
  <2> QED BY <2>1, <2>2, <2>3
<1>7. /\ Contents = [k \in 1 .. u |-> mBuffer[Slot(mReadIndex + k - 1)]]
      /\ Contents' = [k \in 1 .. u - n |->
                        mBuffer[Slot(Big(mReadIndex + n) + k - 1)]]
  BY <1>1, <1>3 DEF Contents, u
<1>8. reader.samples = SubSeq(Contents, 1, n)
  <2>1. SubSeq(Contents, 1, n) = [k \in 1 .. n |-> Contents[k]] BY <1>2, <1>5
  <2>2. reader.samples = [k \in 1 .. n |-> reader.samples[k]] BY <1>2
  <2>3. ASSUME NEW k \in 1 .. n PROVE reader.samples[k] = Contents[k]
    <3>1. k - 1 \in 0 .. n - 1 /\ (k - 1) + 1 = k /\ mReadIndex + (k - 1) = mReadIndex + k - 1
      BY <1>2 DEF Indices
    <3>2. reader.samples[(k - 1) + 1] = mBuffer[Slot(mReadIndex + (k - 1))]
      BY <1>4, <3>1
    <3> QED BY <1>2, <1>7, <3>1, <3>2
  <2> QED BY <2>1, <2>2, <2>3
<1>9. Contents' = SubSeq(Contents, n + 1, Len(Contents))
  <2>1. SubSeq(Contents, n + 1, u) = [k \in 1 .. u - n |-> Contents[n + k]]
    BY <1>2, <1>5
  <2>2. ASSUME NEW k \in 1 .. u - n
        PROVE  mBuffer[Slot(Big(mReadIndex + n) + k - 1)] = Contents[n + k]
    <3>1. n + k \in 1 .. u BY <1>2
    <3> QED BY <1>6, <1>7, <3>1
  <2> QED BY <1>5, <1>7, <2>1, <2>2
<1>10. n \in 1 .. Len(Contents) BY <1>1, <1>2, <1>5
<1> QED BY <1>1, <1>8, <1>9, <1>10 DEF Queue!Pop

LEMMA InitRefines == Init => Queue!Init
<1> SUFFICES ASSUME Init PROVE Queue!Init OBVIOUS
<1>1. Inv BY InitInv
<1>2. Used(mWriteIndex, mReadIndex) = 0
  BY UsedValue, BufferSizeAssumption DEF Init, Indices
<1>3. Contents = << >> BY <1>1, <1>2, ContentsType
<1> QED BY <1>3 DEF Init, NoTransfer, Queue!Init

LEMMA StepRefines ==
    Inv /\ [Next]_vars => [Queue!Next]_<<Contents, last>>
<1> SUFFICES ASSUME Inv, [Next]_vars
             PROVE  Queue!Next \/ UNCHANGED <<Contents, last>>
  OBVIOUS
<1>1. ASSUME NEW samples \in Batches, PushBegin(samples)
      PROVE  UNCHANGED <<Contents, last>>
  BY <1>1 DEF PushBegin, Contents
<1>2. CASE PushCopy BY <1>2, PushCopyContents
<1>3. CASE PushPublish BY <1>3, PushPublishRefines DEF Queue!Next
<1>4. ASSUME NEW n \in 1 .. MaxTransfer, PopBegin(n)
      PROVE  UNCHANGED <<Contents, last>>
  BY <1>4 DEF PopBegin, Contents
<1>5. CASE PopCopy BY <1>5 DEF PopCopy, Contents
<1>6. CASE PopPublish BY <1>6, PopPublishRefines DEF Queue!Next
<1>7. CASE Clear
  <2>1. Inv' /\ Used(mWriteIndex, mReadIndex)' = 0 BY <1>7, ClearInv
  <2>2. Contents' = << >> BY <2>1 DEF Contents
  <2> QED BY <1>7, <2>2 DEF Clear, Queue!Clear, Queue!Next
<1>8. CASE UNCHANGED vars BY <1>8 DEF vars, Contents
<1> QED BY <1>1, <1>2, <1>3, <1>4, <1>5, <1>6, <1>7, <1>8 DEF Next, Push, Pop

\* The lock-free buffer implements the bounded first-in first-out queue its
\* header promises: what pop returns is what push was given, once, in order
\* and unchanged, for every capacity and every interleaving.
THEOREM Refinement == Spec => ImplementsQueue
<1>1. Init => Queue!Init BY InitRefines
<1>2. Inv /\ [Next]_vars => [Queue!Next]_<<Contents, last>> BY StepRefines
<1> QED BY <1>1, <1>2, Invariance, PTL DEF ImplementsQueue, Spec, Queue!Spec
=============================================================================
