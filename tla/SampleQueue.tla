---------------------------- MODULE SampleQueue ----------------------------
(***************************************************************************)
(* What RingBuffer.h promises to its single writer and its single reader:  *)
(* a first-in first-out queue of at most Capacity samples.  push appends   *)
(* as much of its batch as there is room for, pop removes samples from the *)
(* front and returns them, clear empties the queue.                        *)
(***************************************************************************)
EXTENDS Integers, Sequences

CONSTANTS Capacity, Sample

VARIABLES
    queue,    \* the samples pushed and not yet popped, oldest first
    last      \* the last completed call: what push took or pop returned

Init ==
    /\ queue = << >>
    /\ last = [call |-> "none", samples |-> << >>]

Push ==
    \E n \in 1 .. Capacity - Len(queue) :
        \E batch \in [1 .. n -> Sample] :
            /\ queue' = queue \o batch
            /\ last' = [call |-> "push", samples |-> batch]

Pop ==
    \E n \in 1 .. Len(queue) :
        /\ last' = [call |-> "pop", samples |-> SubSeq(queue, 1, n)]
        /\ queue' = SubSeq(queue, n + 1, Len(queue))

Clear ==
    /\ queue' = << >>
    /\ UNCHANGED last

Next == Push \/ Pop \/ Clear

Spec == Init /\ [][Next]_<<queue, last>>
=============================================================================
