----------------------------- MODULE RingBuffer -----------------------------
(***************************************************************************)
(* The lock-free ring buffer of AV Capture/Kernel/RingBuffer.h: one writer *)
(* thread calls push, one reader thread calls pop, and no lock is taken.   *)
(*                                                                         *)
(* mWriteIndex and mReadIndex run modulo 2 * BufferSize (mBigMask), one    *)
(* bit more than a slot number needs, so that a full buffer and an empty   *)
(* one differ; a slot is an index modulo BufferSize (mSmallMask).  A call  *)
(* reads both indices, copies its samples one after the other, and only    *)
(* then publishes its own index: each of these is a step of its own here,  *)
(* so that the two threads interleave inside push and pop.                 *)
(*                                                                         *)
(* Atomic<uint32_t>::get is a load followed by a full barrier and          *)
(* Atomic<uint32_t>::set a full barrier followed by a store: the steps of  *)
(* a thread reach the other one in program order.                          *)
(***************************************************************************)
EXTENDS Integers, Sequences

CONSTANTS
    BufferSize,   \* mBufferSize: capacity in elements, a power of two >= 4
    Sample,       \* the values an element can hold
    MaxTransfer   \* bound: elements asked for in one call of push or pop

ASSUME BufferSizeAssumption == BufferSize \in Nat \ {0}
ASSUME MaxTransferAssumption == MaxTransfer \in Nat \ {0}

VARIABLES
    mBuffer,      \* the storage: slot -> sample
    mWriteIndex,  \* index of the next writable element, published by push
    mReadIndex,   \* index of the next readable element, published by pop
    writer,       \* the locals of the push in progress
    reader,       \* the locals of the pop in progress
    last          \* the last completed call: what push took or pop returned

vars == <<mBuffer, mWriteIndex, mReadIndex, writer, reader, last>>

Slots == 0 .. BufferSize - 1
Indices == 0 .. 2 * BufferSize - 1

Big(i) == i % (2 * BufferSize)     \* i & mBigMask
Slot(i) == i % BufferSize          \* i & mSmallMask

\* RingBuffer::size(), from a pair of index values.
Used(writeIndex, readIndex) == Big(writeIndex - readIndex)

Smaller(a, b) == IF a <= b THEN a ELSE b

\* A non-empty batch of samples handed to push.
Batches == UNION {[1 .. n -> Sample] : n \in 1 .. MaxTransfer}

\* count = 0: the thread is outside of the call.  Otherwise done of the
\* count elements of samples have been copied.
NoCall == [count |-> 0, done |-> 0, samples |-> << >>]

NoTransfer == [call |-> "none", samples |-> << >>]

\* The storage comes from new char[]: its first contents are arbitrary.
Init ==
    /\ mBuffer \in [Slots -> Sample]
    /\ mWriteIndex = 0
    /\ mReadIndex = 0
    /\ writer = NoCall
    /\ reader = NoCall
    /\ last = NoTransfer

-----------------------------------------------------------------------------
\* RingBuffer::push

\* A push that forgets to cut its request.
PushBeginUncut(samples) ==
    /\ writer.count = 0
    /\ BufferSize - Used(mWriteIndex, mReadIndex) # 0
    /\ Len(samples) <= BufferSize
    /\ writer' = [count |-> Len(samples), done |-> 0, samples |-> samples]
    /\ UNCHANGED <<mBuffer, mWriteIndex, mReadIndex, reader, last>>

\* Both indices are read and the request is cut to the free space seen; the
\* reader may free more while the copy runs.  A full buffer returns 0.
PushBegin(samples) ==
    LET free == BufferSize - Used(mWriteIndex, mReadIndex)
        n == Smaller(Len(samples), free)
    IN /\ writer.count = 0
       /\ free # 0
       /\ writer' = [count |-> n, done |-> 0, samples |-> SubSeq(samples, 1, n)]
       /\ UNCHANGED <<mBuffer, mWriteIndex, mReadIndex, reader, last>>

\* One element of memcpy.  The two halves of a copy that wraps are the same
\* elements in the same order.
PushCopy ==
    /\ writer.done < writer.count
    /\ mBuffer' = [mBuffer EXCEPT ![Slot(mWriteIndex + writer.done)] =
                                      writer.samples[writer.done + 1]]
    /\ writer' = [writer EXCEPT !.done = @ + 1]
    /\ UNCHANGED <<mWriteIndex, mReadIndex, reader, last>>

\* A push that publishes before its copy is over.
PushPublishEarly ==
    /\ writer.count # 0
    /\ mWriteIndex' = Big(mWriteIndex + writer.count)
    /\ last' = [call |-> "push", samples |-> writer.samples]
    /\ writer' = NoCall
    /\ UNCHANGED <<mBuffer, mReadIndex, reader>>

\* "this should be the last operation"
PushPublish ==
    /\ writer.count # 0
    /\ writer.done = writer.count
    /\ mWriteIndex' = Big(mWriteIndex + writer.count)
    /\ last' = [call |-> "push", samples |-> writer.samples]
    /\ writer' = NoCall
    /\ UNCHANGED <<mBuffer, mReadIndex, reader>>

-----------------------------------------------------------------------------
\* RingBuffer::pop

\* A pop that does not cut its request to what there is.
PopBeginUncut(numSamples) ==
    /\ reader.count = 0
    /\ Used(mWriteIndex, mReadIndex) # 0
    /\ numSamples <= BufferSize
    /\ reader' = [count |-> numSamples, done |-> 0, samples |-> << >>]
    /\ UNCHANGED <<mBuffer, mWriteIndex, mReadIndex, writer, last>>

\* The request is cut to the elements seen; push may add more meanwhile.  An
\* empty buffer returns 0.
PopBegin(numSamples) ==
    LET size == Used(mWriteIndex, mReadIndex)
    IN /\ reader.count = 0
       /\ size # 0
       /\ reader' = [count |-> Smaller(numSamples, size), done |-> 0,
                     samples |-> << >>]
       /\ UNCHANGED <<mBuffer, mWriteIndex, mReadIndex, writer, last>>

PopCopy ==
    /\ reader.done < reader.count
    /\ reader' = [reader EXCEPT
                    !.done = @ + 1,
                    !.samples = Append(@, mBuffer[Slot(mReadIndex + reader.done)])]
    /\ UNCHANGED <<mBuffer, mWriteIndex, mReadIndex, writer, last>>

PopPublish ==
    /\ reader.count # 0
    /\ reader.done = reader.count
    /\ mReadIndex' = Big(mReadIndex + reader.count)
    /\ last' = [call |-> "pop", samples |-> reader.samples]
    /\ reader' = NoCall
    /\ UNCHANGED <<mBuffer, mWriteIndex, writer>>

\* RingBuffer::clear, which its callers may use only while neither thread is
\* inside push or pop.
Clear ==
    /\ writer.count = 0
    /\ reader.count = 0
    /\ mWriteIndex' = 0
    /\ mReadIndex' = 0
    /\ UNCHANGED <<mBuffer, writer, reader, last>>

-----------------------------------------------------------------------------
Push == (\E samples \in Batches : PushBegin(samples)) \/ PushCopy \/ PushPublish
Pop == (\E n \in 1 .. MaxTransfer : PopBegin(n)) \/ PopCopy \/ PopPublish

Next == Push \/ Pop \/ Clear

Spec == Init /\ [][Next]_vars

-----------------------------------------------------------------------------
\* The locals of a call: never more elements copied than the call is for.
\* push holds its whole batch, pop what it has copied out so far.
Calls == [count : 0 .. BufferSize, done : 0 .. BufferSize, samples : Seq(Sample)]

Transfers == [call : {"none", "push", "pop"}, samples : Seq(Sample)]

\* Every variable keeps its type, whatever the threads do.
TypeOK ==
    /\ mBuffer \in [Slots -> Sample]
    /\ mWriteIndex \in Indices
    /\ mReadIndex \in Indices
    /\ writer \in Calls
    /\ reader \in Calls
    /\ writer.done <= writer.count /\ Len(writer.samples) = writer.count
    /\ reader.done <= reader.count /\ Len(reader.samples) = reader.done
    /\ last \in Transfers

\* The push in progress still has room for all it is going to write, although
\* it cut its request to a read index that may be stale by the time it copies:
\* pop only ever makes room.
PushFits == writer.count + Used(mWriteIndex, mReadIndex) <= BufferSize

\* The pop in progress still has all it is going to return: push only ever
\* adds elements.
PopFits == reader.count <= Used(mWriteIndex, mReadIndex)

\* What push has copied so far is still in its slots, not yet published.
WriterCopied ==
    \A k \in 0 .. writer.done - 1 :
        mBuffer[Slot(mWriteIndex + k)] = writer.samples[k + 1]

\* What pop has copied so far is still what the slots hold.
ReaderCopied ==
    \A k \in 0 .. reader.done - 1 :
        reader.samples[k + 1] = mBuffer[Slot(mReadIndex + k)]

\* The inductive invariant.
Inv == TypeOK /\ PushFits /\ PopFits /\ WriterCopied /\ ReaderCopied

WriteSlots == {Slot(mWriteIndex + k) : k \in 0 .. writer.count - 1}
ReadSlots == {Slot(mReadIndex + k) : k \in 0 .. reader.count - 1}

\* No element is copied out by pop while push overwrites it: the slots the
\* two calls in progress work on are disjoint (no lock guards either copy).
NoDataRace == WriteSlots \cap ReadSlots = {}

\* The elements between the read and the write index, oldest first.
Contents ==
    [k \in 1 .. Used(mWriteIndex, mReadIndex) |-> mBuffer[Slot(mReadIndex + k - 1)]]

\* What RingBuffer.h promises, stated on a sequence: see SampleQueue.
Queue == INSTANCE SampleQueue WITH Capacity <- BufferSize, queue <- Contents

\* Every push and pop, as its caller sees it, acts on a bounded first-in
\* first-out queue: samples come out once, in order and unchanged.
ImplementsQueue == Queue!Spec
=============================================================================
