----------------------------- MODULE AppProofs ------------------------------
(***************************************************************************)
(* Proofs about the app. The way of sound and pictures: AudioPlayback      *)
(* (both halves of the audio, for any sizes of frames, packets and         *)
(* captures), VideoCapture (for any number of frames and packets) and      *)
(* LatencyProbe (for any number of pings and any time). Calling the other  *)
(* device (CallSession, for every set of peers) and what the user then     *)
(* does to it: recording there (Recording, for any number of taps) and     *)
(* moving its dock (MotionControl, for any drags, deceleration and way of  *)
(* holding it), and which way up the picture is (Orientation, for any      *)
(* turns of both devices).                                                 *)
(***************************************************************************)
EXTENDS AudioPlayback, LatencyProbe, Recording, CallSession, Orientation,
        SequenceTheorems, FiniteSetTheorems, TLAPS

-----------------------------------------------------------------------------
(* Sequences and numbers.                                                   *)
LEMMA Widens ==
  ASSUME NEW S, NEW T, S \subseteq T, NEW s \in Seq(S) PROVE s \in Seq(T)
<1>1. s \in [1 .. Len(s) -> S] /\ Len(s) \in Nat BY LenProperties
<1>2. s \in [1 .. Len(s) -> T] BY <1>1
<1>3. \A i \in 1 .. Len(s) : s[i] \in T BY <1>2
<1>4. s = [i \in 1 .. Len(s) |-> s[i]] BY <1>1
<1>5. [i \in 1 .. Len(s) |-> s[i]] \in Seq(T) BY <1>1, <1>3, IsASeq
<1> QED BY <1>4, <1>5

\* A function on 1 .. n as a sequence.
LEMMA AsSequence ==
  ASSUME NEW S, NEW n \in Nat, NEW f \in [1 .. n -> S]
  PROVE  f \in Seq(S) /\ Len(f) = n
<1>1. f = [i \in 1 .. n |-> f[i]] /\ \A i \in 1 .. n : f[i] \in S OBVIOUS
<1>2. [i \in 1 .. n |-> f[i]] \in Seq(S) BY <1>1, IsASeq
<1>3. f \in Seq(S) BY <1>1, <1>2
<1>4. DOMAIN f = 1 .. Len(f) /\ Len(f) \in Nat BY <1>3, LenProperties
<1>5. 1 .. Len(f) = 1 .. n BY <1>4
<1>6. Len(f) = n
  <2>1. \A i \in Nat : i \in 1 .. Len(f) <=> i \in 1 .. n BY <1>5
  <2>2. CASE Len(f) < n
    <3>1. Len(f) + 1 \in 1 .. n BY <1>4, <2>2
    <3> QED BY <1>4, <2>1, <3>1
  <2>3. CASE n < Len(f)
    <3>1. n + 1 \in 1 .. Len(f) BY <1>4, <2>3
    <3> QED BY <1>4, <2>1, <3>1
  <2> QED BY <1>4, <2>2, <2>3
<1> QED BY <1>3, <1>6

LEMMA ProductGrows ==
  ASSUME NEW a \in Nat, NEW b \in Nat, NEW c \in Nat, a <= b
  PROVE  c * a <= c * b /\ c * a \in Nat /\ c * b \in Nat
OBVIOUS

LEMMA QuotientIs ==
  ASSUME NEW x \in Nat, NEW d \in Nat \ {0}
  PROVE  x \div d \in Nat /\ d * (x \div d) <= x /\ x < d * (x \div d) + d
         /\ d * (x \div d) \in Nat
OBVIOUS

-----------------------------------------------------------------------------
\* FIFOBuffer, with elements of S.
Buffers(S) ==
    {b \in [memory : Seq(S), position : Nat, count : Nat] :
        b.position + b.count <= Len(b.memory)}

LEMMA BeginIs ==
  ASSUME NEW S, NEW b \in Buffers(S)
  PROVE  /\ Begin(b) \in Seq(S) /\ Len(Begin(b)) = b.count
         /\ \A i \in 1 .. b.count : Begin(b)[i] = b.memory[b.position + i]
<1>1. /\ b.memory \in Seq(S) /\ b.position \in Nat /\ b.count \in Nat
      /\ Len(b.memory) \in Nat /\ b.position + b.count <= Len(b.memory)
  BY DEF Buffers
<1> DEFINE m == b.position + 1
           n == b.position + b.count
<1>2. \A i \in m .. n : b.memory[i] \in S
  <2> SUFFICES ASSUME NEW i \in m .. n PROVE b.memory[i] \in S OBVIOUS
  <2>1. i \in 1 .. Len(b.memory) BY <1>1
  <2> QED BY <1>1, <2>1, ElementOfSeq
<1>3. m \in Int /\ n \in Int /\ n - m + 1 = b.count /\ (m <= n <=> b.count > 0)
      /\ \A i \in 1 .. b.count : m + i - 1 = b.position + i
  BY <1>1
<1>4. Begin(b) = SubSeq(b.memory, m, n) BY DEF Begin
<1> HIDE DEF m, n
<1> QED BY <1>1, <1>2, <1>3, <1>4, SubSeqProperties

LEMMA OverIs ==
  ASSUME NEW S, NEW s \in Seq(S), NEW memory \in Seq(S), Len(s) <= Len(memory)
  PROVE  /\ Over(s, memory) \in Seq(S) /\ Len(Over(s, memory)) = Len(memory)
         /\ \A i \in 1 .. Len(s) : Over(s, memory)[i] = s[i]
<1>1. /\ Len(s) \in Nat /\ DOMAIN s = 1 .. Len(s) /\ Len(memory) \in Nat
      /\ DOMAIN memory = 1 .. Len(memory)
  BY LenProperties
<1>2. Over(s, memory)
        = [i \in 1 .. Len(memory) |-> IF i \in 1 .. Len(s) THEN s[i] ELSE memory[i]]
  BY <1>1 DEF Over
<1>3. Over(s, memory) \in [1 .. Len(memory) -> S] BY <1>1, <1>2
<1>4. Over(s, memory) \in Seq(S) /\ Len(Over(s, memory)) = Len(memory)
  BY <1>1, <1>3, AsSequence
<1> QED BY <1>1, <1>2, <1>4

LEMMA NoisesIs ==
  ASSUME NEW S, 0 \in S, NEW n \in Nat
  PROVE  Noises(n) \in Seq(S) /\ Len(Noises(n)) = n /\ Noises(n) \in [1 .. n -> S]
<1>1. Noises(n) \in [1 .. n -> S] BY DEF Noises, Noise
<1> QED BY <1>1, AsSequence

LEMMA RoundUpIs ==
  ASSUME NEW n \in Nat PROVE RoundUp(n) \in Nat /\ n <= RoundUp(n)
<1>1. Step \in Nat \ {0} BY SizesAssumption
<1>2. n + Step - 1 \in Nat BY <1>1
<1> DEFINE x == n + Step - 1
<1>3. x \in Nat /\ x = n + Step - 1 BY <1>2
<1> HIDE DEF x
<1>4. Step * (x \div Step) \in Nat /\ x < Step * (x \div Step) + Step
  BY <1>1, <1>3, QuotientIs
<1>5. RoundUp(n) = Step * (x \div Step) BY DEF RoundUp, x
<1> QED BY <1>1, <1>3, <1>4, <1>5

\* What ensureCapacity gives has room for n samples from its first place on, and
\* begins with the same samples.
LEMMA EnsureCapacityKeeps ==
  ASSUME NEW S, 0 \in S, NEW b \in Buffers(S), NEW n \in Nat, b.count <= n
  PROVE  LET room == EnsureCapacity(b, n)
         IN /\ room \in Buffers(S) /\ room.count = b.count /\ room.position = 0
            /\ n <= Len(room.memory)
            /\ \A i \in 1 .. b.count : room.memory[i] = Begin(b)[i]
<1>1. /\ b.memory \in Seq(S) /\ b.position \in Nat /\ b.count \in Nat
      /\ Len(b.memory) \in Nat /\ b.position + b.count <= Len(b.memory)
      /\ b \in [memory : Seq(S), position : Nat, count : Nat]
  BY DEF Buffers
<1>2. /\ Begin(b) \in Seq(S) /\ Len(Begin(b)) = b.count
      /\ \A i \in 1 .. b.count : Begin(b)[i] = b.memory[b.position + i]
  BY BeginIs
<1>3. ASSUME NEW memory \in Seq(S), n <= Len(memory), b.count <= Len(memory),
             NEW room, room = [b EXCEPT !.memory = Over(Begin(b), memory), !.position = 0]
      PROVE  /\ room \in Buffers(S) /\ room.count = b.count /\ room.position = 0
             /\ n <= Len(room.memory)
             /\ \A i \in 1 .. b.count : room.memory[i] = Begin(b)[i]
  <2>1. /\ Over(Begin(b), memory) \in Seq(S)
        /\ Len(Over(Begin(b), memory)) = Len(memory)
        /\ \A i \in 1 .. b.count : Over(Begin(b), memory)[i] = Begin(b)[i]
    BY <1>2, <1>3, OverIs
  <2>2. /\ room \in [memory : Seq(S), position : Nat, count : Nat]
        /\ room.memory = Over(Begin(b), memory) /\ room.position = 0 /\ room.count = b.count
    BY <1>1, <1>3, <2>1
  <2>3. room.position + room.count <= Len(room.memory) BY <1>1, <1>3, <2>1, <2>2
  <2> QED BY <1>3, <2>1, <2>2, <2>3 DEF Buffers
<1>4. CASE n > Len(b.memory)
  <2>1. Noises(RoundUp(n)) \in Seq(S) /\ Len(Noises(RoundUp(n))) = RoundUp(n)
        /\ n <= RoundUp(n) /\ RoundUp(n) \in Nat
    BY RoundUpIs, NoisesIs
  <2>2. b.count <= Len(Noises(RoundUp(n))) BY <1>1, <2>1
  <2>3. EnsureCapacity(b, n)
          = [b EXCEPT !.memory = Over(Begin(b), Noises(RoundUp(n))), !.position = 0]
    BY <1>4 DEF EnsureCapacity
  <2> QED BY <1>3, <2>1, <2>2, <2>3
<1>5. CASE ~(n > Len(b.memory)) /\ b.position # 0
  <2>1. n <= Len(b.memory) /\ b.count <= Len(b.memory) BY <1>1, <1>5
  <2>2. EnsureCapacity(b, n)
          = [b EXCEPT !.memory = Over(Begin(b), b.memory), !.position = 0]
    BY <1>5 DEF EnsureCapacity, Rewind
  <2> QED BY <1>1, <1>3, <2>1, <2>2
<1>6. CASE ~(n > Len(b.memory)) /\ b.position = 0
  <2>1. EnsureCapacity(b, n) = b BY <1>6 DEF EnsureCapacity, Rewind
  <2>2. n <= Len(b.memory) BY <1>1, <1>6
  <2>3. \A i \in 1 .. b.count : b.memory[i] = Begin(b)[i] BY <1>2, <1>6
  <2> QED BY <1>6, <2>1, <2>2, <2>3
<1> QED BY <1>4, <1>5, <1>6

\* push puts the samples behind those there.
LEMMA PushIs ==
  ASSUME NEW S, 0 \in S, NEW b \in Buffers(S), NEW s \in Seq(S)
  PROVE  /\ Push(b, s) \in Buffers(S) /\ Push(b, s).count = b.count + Len(s)
         /\ \A i \in 1 .. b.count : Begin(Push(b, s))[i] = Begin(b)[i]
         /\ \A i \in 1 .. Len(s) : Begin(Push(b, s))[b.count + i] = s[i]
<1> DEFINE room == EnsureCapacity(b, b.count + Len(s))
<1>1. b.count \in Nat /\ Len(s) \in Nat /\ DOMAIN s = 1 .. Len(s)
  BY LenProperties DEF Buffers
<1>2. /\ room \in Buffers(S) /\ room.count = b.count /\ room.position = 0
      /\ b.count + Len(s) <= Len(room.memory)
      /\ \A i \in 1 .. b.count : room.memory[i] = Begin(b)[i]
  <2>1. b.count + Len(s) \in Nat /\ b.count <= b.count + Len(s) BY <1>1
  <2> QED BY <2>1, EnsureCapacityKeeps
<1>a. Push(b, s)
        = [room EXCEPT
             !.memory = [i \in DOMAIN room.memory |-> IF i - b.count \in DOMAIN s
                                                      THEN s[i - b.count] ELSE room.memory[i]],
             !.count = room.count + Len(s)]
  BY DEF Push
<1> HIDE DEF room
<1>3. /\ room.memory \in Seq(S) /\ Len(room.memory) \in Nat
      /\ DOMAIN room.memory = 1 .. Len(room.memory)
      /\ room \in [memory : Seq(S), position : Nat, count : Nat]
  BY <1>2, LenProperties DEF Buffers
<1> DEFINE memory == [i \in 1 .. Len(room.memory) |->
                         IF i - b.count \in 1 .. Len(s) THEN s[i - b.count] ELSE room.memory[i]]
<1>4. memory \in Seq(S) /\ Len(memory) = Len(room.memory)
  <2>1. memory \in [1 .. Len(room.memory) -> S] BY <1>1, <1>3
  <2> HIDE DEF memory
  <2> QED BY <1>3, <2>1, AsSequence
<1>5. Push(b, s) = [room EXCEPT !.memory = memory, !.count = b.count + Len(s)]
  BY <1>1, <1>2, <1>3, <1>a
<1>6. /\ \A i \in 1 .. b.count : memory[i] = Begin(b)[i]
      /\ \A i \in 1 .. Len(s) : memory[b.count + i] = s[i]
  BY <1>1, <1>2, <1>3
<1> HIDE DEF memory
<1>7. /\ Push(b, s) \in [memory : Seq(S), position : Nat, count : Nat]
      /\ Push(b, s).memory = memory /\ Push(b, s).position = 0
      /\ Push(b, s).count = b.count + Len(s)
  <2>1. b.count + Len(s) \in Nat BY <1>1
  <2>2. /\ room \in [memory : Seq(S), position : Nat, count : Nat] /\ room.position = 0
        /\ memory \in Seq(S)
    BY <1>2, <1>3, <1>4
  <2> QED BY <1>5, <2>1, <2>2
<1>8. Push(b, s) \in Buffers(S) BY <1>1, <1>2, <1>4, <1>7 DEF Buffers
<1>9. \A i \in 1 .. b.count + Len(s) : Begin(Push(b, s))[i] = memory[i]
  <2>1. \A i \in 1 .. Push(b, s).count : Begin(Push(b, s))[i] = memory[0 + i]
    BY <1>7, <1>8, BeginIs
  <2> QED BY <1>1, <1>7, <2>1
<1>10. ASSUME NEW i \in 1 .. b.count PROVE Begin(Push(b, s))[i] = Begin(b)[i]
  <2>1. i \in 1 .. b.count + Len(s) BY <1>1
  <2> QED BY <1>6, <1>9, <2>1
<1>11. ASSUME NEW i \in 1 .. Len(s) PROVE Begin(Push(b, s))[b.count + i] = s[i]
  <2>1. b.count + i \in 1 .. b.count + Len(s) BY <1>1
  <2> QED BY <1>6, <1>9, <2>1
<1> QED BY <1>7, <1>8, <1>10, <1>11

LEMMA PopIs ==
  ASSUME NEW S, NEW b \in Buffers(S), NEW n \in Nat
  PROVE  /\ Pop(b, n) \in Buffers(S)
         /\ Pop(b, n).count = IF n >= b.count THEN 0 ELSE b.count - n
         /\ \A i \in 1 .. Pop(b, n).count : Begin(Pop(b, n))[i] = Begin(b)[n + i]
<1>1. /\ b.memory \in Seq(S) /\ b.position \in Nat /\ b.count \in Nat
      /\ Len(b.memory) \in Nat /\ b.position + b.count <= Len(b.memory)
      /\ b \in [memory : Seq(S), position : Nat, count : Nat]
  BY DEF Buffers
<1>2. CASE n >= b.count
  <2>1. Pop(b, n) = [b EXCEPT !.count = 0] BY <1>2 DEF Pop
  <2>2. Pop(b, n) \in Buffers(S) /\ Pop(b, n).count = 0 BY <1>1, <2>1 DEF Buffers
  <2> QED BY <1>2, <2>2
<1>3. CASE ~(n >= b.count)
  <2>1. Pop(b, n) = [b EXCEPT !.count = b.count - n, !.position = b.position + n]
    BY <1>3 DEF Pop
  <2>2. b.count - n \in Nat /\ b.position + n \in Nat BY <1>1, <1>3
  <2>3. /\ Pop(b, n) \in [memory : Seq(S), position : Nat, count : Nat]
        /\ Pop(b, n).memory = b.memory /\ Pop(b, n).count = b.count - n
        /\ Pop(b, n).position = b.position + n
    BY <1>1, <2>1, <2>2
  <2>4. Pop(b, n) \in Buffers(S) BY <1>1, <2>2, <2>3 DEF Buffers
  <2>5. \A i \in 1 .. b.count - n : Begin(Pop(b, n))[i] = b.memory[b.position + n + i]
    BY <2>3, <2>4, BeginIs
  <2>6. \A i \in 1 .. b.count - n : Begin(b)[n + i] = b.memory[b.position + n + i]
    <3> SUFFICES ASSUME NEW i \in 1 .. b.count - n
                 PROVE  Begin(b)[n + i] = b.memory[b.position + n + i]
      OBVIOUS
    <3>1. n + i \in 1 .. b.count /\ b.position + (n + i) = b.position + n + i
      BY <1>1, <1>3
    <3> QED BY <3>1, BeginIs
  <2> QED BY <1>3, <2>3, <2>4, <2>5, <2>6
<1> QED BY <1>2, <1>3

-----------------------------------------------------------------------------
\* What had been played when the first i of the sequence had.
Reached(s, i) ==
    IF i = 0 THEN 0 ELSE IF IsSilence(s[i]) THEN Pushed(s[i]) ELSE s[i]

\* Each sample is the one behind that before it, silence plays what is reached.
WithoutGap(s) ==
    \A i \in 1 .. Len(s) :
        IF IsSilence(s[i]) THEN Pushed(s[i]) = Reached(s, i - 1)
                           ELSE s[i] = Reached(s, i - 1) + 1

LEMMA ReachedFront ==
  ASSUME NEW s \in Seq(Int), NEW t \in Seq(Int), NEW i \in 0 .. Len(s)
  PROVE  Reached(s \o t, i) = Reached(s, i)
<1>1. CASE i = 0 BY <1>1 DEF Reached
<1>2. CASE i # 0
  <2>1. i \in 1 .. Len(s) /\ i \in 1 .. Len(s) + Len(t) /\ i <= Len(s)
    BY <1>2, LenProperties
  <2>2. (s \o t)[i] = s[i] BY <2>1, ConcatProperties
  <2> QED BY <1>2, <2>2 DEF Reached
<1> QED BY <1>1, <1>2

\* Samples that follow those played, one after the other, leave no gap.
LEMMA PlaySamples ==
  ASSUME NEW s \in Seq(Int), NEW t \in Seq(Int), WithoutGap(s), Reached(s, Len(s)) \in Nat,
         \A i \in 1 .. Len(t) : t[i] = Reached(s, Len(s)) + i
  PROVE  /\ WithoutGap(s \o t) /\ s \o t \in Seq(Int)
         /\ Reached(s \o t, Len(s \o t)) = Reached(s, Len(s)) + Len(t)
<1> DEFINE u == s \o t
           r == Reached(s, Len(s))
<1>1. /\ Len(s) \in Nat /\ Len(t) \in Nat /\ u \in Seq(Int) /\ Len(u) = Len(s) + Len(t)
      /\ \A i \in 1 .. Len(s) + Len(t) : u[i] = IF i <= Len(s) THEN s[i] ELSE t[i - Len(s)]
  BY LenProperties, ConcatProperties
<1>2. \A i \in 0 .. Len(s) : Reached(u, i) = Reached(s, i) BY ReachedFront
<1>3. r \in Nat /\ \A i \in 1 .. Len(t) : t[i] = r + i OBVIOUS
<1> HIDE DEF u, r
<1>4. \A i \in 1 .. Len(t) : u[Len(s) + i] = r + i
  <2> SUFFICES ASSUME NEW i \in 1 .. Len(t) PROVE u[Len(s) + i] = r + i OBVIOUS
  <2>1. /\ Len(s) + i \in 1 .. Len(s) + Len(t) /\ ~(Len(s) + i <= Len(s))
        /\ Len(s) + i - Len(s) = i
    BY <1>1
  <2>2. u[Len(s) + i] = t[Len(s) + i - Len(s)] BY <1>1, <2>1
  <2> QED BY <1>3, <2>1, <2>2
<1>5. \A i \in 0 .. Len(t) : Reached(u, Len(s) + i) = r + i
  <2> SUFFICES ASSUME NEW i \in 0 .. Len(t) PROVE Reached(u, Len(s) + i) = r + i OBVIOUS
  <2>1. CASE i = 0
    <3>1. Len(s) + i = Len(s) /\ Len(s) \in 0 .. Len(s) BY <1>1, <2>1
    <3> QED BY <1>2, <1>3, <2>1, <3>1 DEF r
  <2>2. CASE i # 0
    <3>1. u[Len(s) + i] = r + i BY <1>1, <1>4, <2>2
    <3>2. Len(s) + i # 0 /\ ~(r + i < 0) BY <1>1, <1>3, <2>2
    <3> QED BY <3>1, <3>2 DEF Reached, IsSilence
  <2> QED BY <2>1, <2>2
<1>6. ASSUME NEW i \in 1 .. Len(u)
      PROVE  IF IsSilence(u[i]) THEN Pushed(u[i]) = Reached(u, i - 1)
                                ELSE u[i] = Reached(u, i - 1) + 1
  <2>1. CASE i <= Len(s)
    <3>1. u[i] = s[i] /\ i \in 1 .. Len(s) /\ i - 1 \in 0 .. Len(s) BY <1>1, <2>1
    <3>2. Reached(u, i - 1) = Reached(s, i - 1) BY <1>2, <3>1
    <3> QED BY <3>1, <3>2 DEF WithoutGap
  <2>2. CASE ~(i <= Len(s))
    <3>1. PICK k \in 1 .. Len(t) : i = Len(s) + k
      <4>1. i - Len(s) \in 1 .. Len(t) /\ i = Len(s) + (i - Len(s)) BY <1>1, <2>2
      <4> QED BY <4>1
    <3>2. u[i] = r + k BY <1>4, <3>1
    <3>3. k - 1 \in 0 .. Len(t) /\ i - 1 = Len(s) + (k - 1) BY <1>1, <3>1
    <3>4. Reached(u, i - 1) = r + (k - 1) BY <1>5, <3>3
    <3>5. r + k = r + (k - 1) + 1 /\ ~(r + k < 0) BY <1>3
    <3> QED BY <3>2, <3>4, <3>5 DEF IsSilence
  <2> QED BY <2>1, <2>2
<1>7. WithoutGap(u) BY <1>6 DEF WithoutGap
<1>8. Reached(u, Len(u)) = r + Len(t)
  <2>1. Len(t) \in 0 .. Len(t) BY <1>1
  <2> QED BY <1>1, <1>5, <2>1
<1> QED BY <1>1, <1>7, <1>8 DEF u, r

\* Silence leaves all as it is.
LEMMA PlaySilence ==
  ASSUME NEW s \in Seq(Int), NEW t \in Seq(Int), WithoutGap(s), Reached(s, Len(s)) \in Nat,
         \A i \in 1 .. Len(t) : t[i] = -1 - Reached(s, Len(s))
  PROVE  /\ WithoutGap(s \o t) /\ s \o t \in Seq(Int)
         /\ Reached(s \o t, Len(s \o t)) = Reached(s, Len(s))
<1> DEFINE u == s \o t
           r == Reached(s, Len(s))
<1>1. /\ Len(s) \in Nat /\ Len(t) \in Nat /\ u \in Seq(Int) /\ Len(u) = Len(s) + Len(t)
      /\ \A i \in 1 .. Len(s) + Len(t) : u[i] = IF i <= Len(s) THEN s[i] ELSE t[i - Len(s)]
  BY LenProperties, ConcatProperties
<1>2. \A i \in 0 .. Len(s) : Reached(u, i) = Reached(s, i) BY ReachedFront
<1>3. r \in Nat /\ \A i \in 1 .. Len(t) : t[i] = -1 - r OBVIOUS
<1> HIDE DEF u, r
<1>4. \A i \in 1 .. Len(t) : u[Len(s) + i] = -1 - r
  <2> SUFFICES ASSUME NEW i \in 1 .. Len(t) PROVE u[Len(s) + i] = -1 - r OBVIOUS
  <2>1. /\ Len(s) + i \in 1 .. Len(s) + Len(t) /\ ~(Len(s) + i <= Len(s))
        /\ Len(s) + i - Len(s) = i
    BY <1>1
  <2>2. u[Len(s) + i] = t[Len(s) + i - Len(s)] BY <1>1, <2>1
  <2> QED BY <1>3, <2>1, <2>2
<1>5. \A i \in 0 .. Len(t) : Reached(u, Len(s) + i) = r
  <2> SUFFICES ASSUME NEW i \in 0 .. Len(t) PROVE Reached(u, Len(s) + i) = r OBVIOUS
  <2>1. CASE i = 0
    <3>1. Len(s) + i = Len(s) /\ Len(s) \in 0 .. Len(s) BY <1>1, <2>1
    <3> QED BY <1>2, <1>3, <2>1, <3>1 DEF r
  <2>2. CASE i # 0
    <3>1. u[Len(s) + i] = -1 - r BY <1>1, <1>4, <2>2
    <3>2. Len(s) + i # 0 /\ -1 - r < 0 /\ -1 - (-1 - r) = r BY <1>1, <1>3, <2>2
    <3> QED BY <3>1, <3>2 DEF Reached, IsSilence, Pushed
  <2> QED BY <2>1, <2>2
<1>6. ASSUME NEW i \in 1 .. Len(u)
      PROVE  IF IsSilence(u[i]) THEN Pushed(u[i]) = Reached(u, i - 1)
                                ELSE u[i] = Reached(u, i - 1) + 1
  <2>1. CASE i <= Len(s)
    <3>1. u[i] = s[i] /\ i \in 1 .. Len(s) /\ i - 1 \in 0 .. Len(s) BY <1>1, <2>1
    <3>2. Reached(u, i - 1) = Reached(s, i - 1) BY <1>2, <3>1
    <3> QED BY <3>1, <3>2 DEF WithoutGap
  <2>2. CASE ~(i <= Len(s))
    <3>1. PICK k \in 1 .. Len(t) : i = Len(s) + k
      <4>1. i - Len(s) \in 1 .. Len(t) /\ i = Len(s) + (i - Len(s)) BY <1>1, <2>2
      <4> QED BY <4>1
    <3>2. u[i] = -1 - r BY <1>4, <3>1
    <3>3. k - 1 \in 0 .. Len(t) /\ i - 1 = Len(s) + (k - 1) BY <1>1, <3>1
    <3>4. Reached(u, i - 1) = r BY <1>5, <3>3
    <3>5. -1 - r < 0 /\ -1 - (-1 - r) = r BY <1>3
    <3> QED BY <3>2, <3>4, <3>5 DEF IsSilence, Pushed
  <2> QED BY <2>1, <2>2
<1>7. WithoutGap(u) BY <1>6 DEF WithoutGap
<1>8. Reached(u, Len(u)) = r
  <2>1. Len(t) \in 0 .. Len(t) BY <1>1
  <2> QED BY <1>1, <1>5, <2>1
<1> QED BY <1>1, <1>7, <1>8 DEF u, r

-----------------------------------------------------------------------------
\* What was played, what is in the buffer and what waits to be pushed.
PInv ==
    /\ PlaybackTypeOK
    /\ WithoutGap(played)
    /\ Reached(played, Len(played)) \in Nat
    /\ \A i \in 1 .. playbackBuffer.count :
          Begin(playbackBuffer)[i] = Reached(played, Len(played)) + i
    /\ \A i \in 1 .. decoded : mDecodeBuffer[i] = received - decoded + i
    /\ Reached(played, Len(played)) + playbackBuffer.count + decoded = received

LEMMA PInvInit == AInit => PInv
<1> SUFFICES ASSUME AInit PROVE PInv OBVIOUS
<1>1. /\ half \in {"record", "play"}
      /\ playbackBuffer = [memory |-> Noises(Step), position |-> 0, count |-> 0]
      /\ mDecodeBuffer = Noises(FrameSamples * MaxFramesPerPacket)
      /\ decoded = 0 /\ receivedPackets = 0 /\ received = 0
      /\ played = << >>
  BY DEF AInit, PlaybackInit
<1>2. Step \in Nat /\ FrameSamples * MaxFramesPerPacket \in Nat /\ MaxReceived \in Nat
  BY PlaybackAssumption, SizesAssumption
<1>3. /\ Noises(Step) \in Seq(0 .. 0) /\ Len(Noises(Step)) = Step
      /\ Noises(FrameSamples * MaxFramesPerPacket)
           \in [1 .. FrameSamples * MaxFramesPerPacket -> 0 .. 0]
  <2>1. 0 \in 0 .. 0 OBVIOUS
  <2> QED BY <1>2, <2>1, NoisesIs
<1>4. /\ playbackBuffer \in [memory : Seq(0 .. received), position : Nat, count : Nat]
      /\ playbackBuffer.count = 0
      /\ playbackBuffer.position + playbackBuffer.count <= Len(playbackBuffer.memory)
  BY <1>1, <1>2, <1>3
<1>5. << >> \in Seq(Int) /\ Len(<< >>) = 0 BY EmptySeq
<1>6. PlaybackTypeOK BY <1>1, <1>2, <1>3, <1>4, <1>5 DEF PlaybackTypeOK
<1>7. WithoutGap(played) /\ Reached(played, Len(played)) = 0
  BY <1>1, <1>5 DEF WithoutGap, Reached
<1> QED BY <1>1, <1>4, <1>6, <1>7 DEF PInv

\* A packet's frames fit into the decoder's buffer.
LEMMA PacketFits ==
  ASSUME NEW size \in PacketBytes, NEW n, n = FrameSamples * (size \div FrameBytes)
  PROVE  n \in Nat /\ n <= FrameSamples * MaxFramesPerPacket
<1>1. /\ size \in Nat /\ size <= FrameBytes * (MaxFramesPerPacket + 1) - 1
      /\ FrameBytes \in Nat \ {0} /\ FrameSamples \in Nat /\ MaxFramesPerPacket \in Nat
  BY PlaybackAssumption, SizesAssumption
<1> DEFINE q == size \div FrameBytes
<1>2. q \in Nat /\ FrameBytes * q <= size /\ FrameBytes * q \in Nat BY <1>1, QuotientIs
<1>3. n = FrameSamples * q OBVIOUS
<1> HIDE DEF q
<1>4. q <= MaxFramesPerPacket
  <2> SUFFICES ASSUME MaxFramesPerPacket + 1 <= q PROVE FALSE BY <1>1, <1>2
  <2>1. /\ FrameBytes * (MaxFramesPerPacket + 1) <= FrameBytes * q
        /\ FrameBytes * (MaxFramesPerPacket + 1) \in Nat
    BY <1>1, <1>2, ProductGrows
  <2> QED BY <1>1, <1>2, <2>1
<1> QED BY <1>1, <1>2, <1>3, <1>4, ProductGrows

LEMMA PInvNext == PInv /\ [ANext]_avars => PInv'
<1> SUFFICES ASSUME PInv, [ANext]_avars PROVE PInv' OBVIOUS
<1> DEFINE room == FrameSamples * MaxFramesPerPacket
           r == Reached(played, Len(played))
<1>0. /\ received \in Nat /\ decoded \in Nat /\ decoded <= room /\ room \in Nat
      /\ playbackBuffer \in Buffers(0 .. received) /\ played \in Seq(Int)
      /\ mDecodeBuffer \in [1 .. room -> 0 .. received]
      /\ WithoutGap(played) /\ r \in Nat /\ playbackBuffer.count \in Nat
      /\ r + playbackBuffer.count + decoded = received
      /\ receivedPackets \in 0 .. MaxReceived /\ MaxReceived \in Nat
  BY SizesAssumption, PlaybackAssumption DEF PInv, PlaybackTypeOK, Buffers
<1> HIDE DEF room, r
<1>d. /\ received \in Nat /\ decoded \in Nat /\ r \in Nat /\ playbackBuffer.count \in Nat
      /\ received - decoded = r + playbackBuffer.count
  <2>1. /\ received \in Nat /\ decoded \in Nat /\ r \in Nat /\ playbackBuffer.count \in Nat
        /\ r + playbackBuffer.count + decoded = received
    BY <1>0
  <2> QED BY <2>1
<1>a. \A i \in 1 .. playbackBuffer.count : Begin(playbackBuffer)[i] = r + i BY DEF PInv, r
<1>b. \A i \in 1 .. decoded : mDecodeBuffer[i] = received - decoded + i BY DEF PInv
<1>c. half' \in {"record", "play"} BY DEF PInv, PlaybackTypeOK, ANext, avars
<1>1. CASE UNCHANGED playback
  <2>1. UNCHANGED <<playbackBuffer, mDecodeBuffer, decoded, receivedPackets, received, played>>
    BY <1>1 DEF playback
  <2> QED BY <1>c, <2>1 DEF PInv, PlaybackTypeOK, Begin
<1>2. ASSUME NEW size \in PacketBytes, Decode(size) PROVE PInv'
  <2> DEFINE n == FrameSamples * (size \div FrameBytes)
  <2>1. n \in Nat /\ n <= room BY PacketFits DEF room
  <2>2. /\ decoded = 0 /\ receivedPackets' = receivedPackets + 1
        /\ receivedPackets < MaxReceived
        /\ UNCHANGED <<playbackBuffer, played>>
    BY <1>2 DEF Decode
  <2>3. receivedPackets' \in 0 .. MaxReceived BY <1>0, <2>2
  <2>4. CASE UNCHANGED <<mDecodeBuffer, decoded, received>>
    BY <1>c, <2>2, <2>3, <2>4 DEF PInv, PlaybackTypeOK, Begin
  <2>5. CASE /\ mDecodeBuffer' = Over([i \in 1 .. n |-> received + i], mDecodeBuffer)
             /\ decoded' = n /\ received' = received + n
    <3> HIDE DEF n, room, r
    <3>1. received' \in Nat /\ 0 .. received \subseteq 0 .. received' BY <1>0, <2>1, <2>5
    <3>2. playbackBuffer \in Buffers(0 .. received')
      <4>1. playbackBuffer.memory \in Seq(0 .. received')
        BY <1>0, <3>1, Widens DEF Buffers
      <4> QED BY <1>0, <4>1 DEF Buffers
    <3> DEFINE new == [i \in 1 .. n |-> received + i]
    <3>3. /\ new \in Seq(0 .. received') /\ Len(new) = n
          /\ \A i \in 1 .. n : new[i] = received + i
      <4>1. new \in [1 .. n -> 0 .. received'] BY <1>0, <2>1, <2>5
      <4>2. \A i \in 1 .. n : new[i] = received + i OBVIOUS
      <4> HIDE DEF new
      <4> QED BY <2>1, <4>1, <4>2, AsSequence
    <3>4. mDecodeBuffer \in Seq(0 .. received') /\ Len(mDecodeBuffer) = room
      <4>1. mDecodeBuffer \in [1 .. room -> 0 .. received'] BY <1>0, <3>1
      <4> QED BY <1>0, <4>1, AsSequence
    <3>5. mDecodeBuffer' = Over(new, mDecodeBuffer) BY <2>5
    <3> HIDE DEF new
    <3>6. /\ mDecodeBuffer' \in Seq(0 .. received') /\ Len(mDecodeBuffer') = room
          /\ \A i \in 1 .. n : mDecodeBuffer'[i] = received + i
      BY <2>1, <3>3, <3>4, <3>5, OverIs
    <3>7. mDecodeBuffer' \in [1 .. room -> 0 .. received'] BY <3>6, LenProperties
    <3>8. PlaybackTypeOK'
      <4>1. decoded' \in 0 .. room BY <1>0, <2>1, <2>5
      <4> QED BY <1>0, <1>c, <2>2, <2>3, <3>1, <3>2, <3>7, <4>1
              DEF PlaybackTypeOK, Buffers, room
    <3>9. \A i \in 1 .. decoded' : mDecodeBuffer'[i] = received' - decoded' + i
      <4>1. received' - decoded' = received /\ decoded' = n BY <1>0, <2>1, <2>5
      <4> QED BY <3>6, <4>1
    <3>10. Begin(playbackBuffer)' = Begin(playbackBuffer) /\ r' = r
      BY <2>2 DEF Begin, r
    <3>11. r' + playbackBuffer'.count + decoded' = received' BY <1>0, <2>1, <2>2, <2>5, <3>10
    <3> QED BY <1>0, <1>a, <2>2, <3>8, <3>9, <3>10, <3>11 DEF PInv, r, WithoutGap
  <2> QED BY <1>2, <2>4, <2>5 DEF Decode
<1>3. CASE PushDecoded
  <2> DEFINE s == SubSeq(mDecodeBuffer, 1, decoded)
  <2>1. /\ playbackBuffer' = Push(playbackBuffer, s) /\ decoded' = 0
        /\ UNCHANGED <<mDecodeBuffer, receivedPackets, received, played>>
    BY <1>3 DEF PushDecoded
  <2>2. s \in Seq(0 .. received) /\ Len(s) = decoded
        /\ \A i \in 1 .. decoded : s[i] = mDecodeBuffer[i]
    <3>1. \A i \in 1 .. decoded : mDecodeBuffer[i] \in 0 .. received
      <4> HIDE DEF room, r
      <4> QED BY <1>0
    <3>2. decoded - 1 + 1 = decoded /\ (1 <= decoded <=> decoded # 0) BY <1>0
    <3>3. \A i \in 1 .. decoded : 1 + i - 1 = i BY <1>0
    <3> QED BY <1>0, <3>1, <3>2, <3>3, SubSeqProperties
  <2> HIDE DEF s, room, r
  <2>3. 0 \in 0 .. received BY <1>0
  <2>4. /\ playbackBuffer' \in Buffers(0 .. received)
        /\ playbackBuffer'.count = playbackBuffer.count + decoded
        /\ \A i \in 1 .. playbackBuffer.count : Begin(playbackBuffer)'[i] = r + i
        /\ \A i \in 1 .. decoded :
              Begin(playbackBuffer)'[playbackBuffer.count + i] = received - decoded + i
    <3>1. Begin(playbackBuffer)' = Begin(Push(playbackBuffer, s)) BY <2>1 DEF Begin
    <3>2. /\ Push(playbackBuffer, s) \in Buffers(0 .. received)
          /\ Push(playbackBuffer, s).count = playbackBuffer.count + Len(s)
          /\ \A i \in 1 .. playbackBuffer.count :
                Begin(Push(playbackBuffer, s))[i] = Begin(playbackBuffer)[i]
          /\ \A i \in 1 .. Len(s) :
                Begin(Push(playbackBuffer, s))[playbackBuffer.count + i] = s[i]
      <4> DEFINE S == 0 .. received
      <4>1. playbackBuffer \in Buffers(S) /\ s \in Seq(S) /\ 0 \in S BY <1>0, <2>2, <2>3
      <4> HIDE DEF S
      <4>2. Push(playbackBuffer, s) \in Buffers(S) BY <4>1, PushIs
      <4>3. Push(playbackBuffer, s).count = playbackBuffer.count + Len(s) BY <4>1, PushIs
      <4>4. \A i \in 1 .. playbackBuffer.count :
              Begin(Push(playbackBuffer, s))[i] = Begin(playbackBuffer)[i]
        BY <4>1, PushIs
      <4>5. \A i \in 1 .. Len(s) :
              Begin(Push(playbackBuffer, s))[playbackBuffer.count + i] = s[i]
        BY <4>1, PushIs
      <4> QED BY <4>2, <4>3, <4>4, <4>5 DEF S
    <3>3. \A i \in 1 .. playbackBuffer.count : Begin(playbackBuffer)'[i] = r + i
      BY <1>a, <3>1, <3>2
    <3>4. ASSUME NEW i \in 1 .. decoded
          PROVE  Begin(playbackBuffer)'[playbackBuffer.count + i] = received - decoded + i
      BY <1>b, <2>2, <3>1, <3>2
    <3> QED BY <2>1, <2>2, <3>2, <3>3, <3>4
  <2>5. r' = r BY <2>1 DEF r
  <2>6. \A i \in 1 .. playbackBuffer'.count : Begin(playbackBuffer)'[i] = r' + i
    <3> SUFFICES ASSUME NEW i \in 1 .. playbackBuffer.count + decoded
                 PROVE  Begin(playbackBuffer)'[i] = r + i
      BY <2>4, <2>5
    <3>1. CASE i <= playbackBuffer.count
      <4>1. i \in 1 .. playbackBuffer.count BY <1>0, <3>1
      <4> QED BY <2>4, <4>1
    <3>2. CASE ~(i <= playbackBuffer.count)
      <4>1. PICK k \in 1 .. decoded : i = playbackBuffer.count + k
        <5>1. /\ i - playbackBuffer.count \in 1 .. decoded
              /\ i = playbackBuffer.count + (i - playbackBuffer.count)
          BY <1>0, <3>2
        <5> QED BY <5>1
      <4>2. Begin(playbackBuffer)'[i] = received - decoded + k BY <2>4, <4>1
      <4>3. received - decoded + k = r + i BY <1>d, <4>1
      <4> QED BY <4>2, <4>3
    <3> QED BY <3>1, <3>2
  <2>7. r' + playbackBuffer'.count + decoded' = received' BY <1>0, <2>1, <2>4, <2>5
  <2>8. PlaybackTypeOK'
    <3>1. decoded' \in 0 .. room BY <1>0, <2>1
    <3> QED BY <1>0, <1>c, <2>1, <2>4, <3>1 DEF PlaybackTypeOK, Buffers, room
  <2>9. \A i \in 1 .. decoded' : mDecodeBuffer'[i] = received' - decoded' + i BY <2>1
  <2> QED BY <1>0, <2>1, <2>5, <2>6, <2>7, <2>8, <2>9 DEF PInv, r, WithoutGap
<1>4. ASSUME NEW n \in PlaybackSizes, Play(n) PROVE PInv'
  <2>1. n \in Nat BY PlaybackAssumption
  <2>2. /\ playbackBuffer' = Pop(playbackBuffer, n)
        /\ UNCHANGED <<mDecodeBuffer, decoded, receivedPackets, received>>
    BY <1>4 DEF Play
  <2>b. /\ Begin(playbackBuffer) \in Seq(0 .. received)
        /\ Len(Begin(playbackBuffer)) = playbackBuffer.count
    BY <1>0, BeginIs
  <2>3. /\ playbackBuffer' \in Buffers(0 .. received)
        /\ playbackBuffer'.count
             = IF n >= playbackBuffer.count THEN 0 ELSE playbackBuffer.count - n
        /\ \A i \in 1 .. playbackBuffer'.count :
              Begin(playbackBuffer)'[i] = Begin(playbackBuffer)[n + i]
    <3>1. Begin(playbackBuffer)' = Begin(playbackBuffer') BY DEF Begin
    <3> QED BY <1>0, <2>1, <2>2, <3>1, PopIs
  <2> HIDE DEF room
  <2>4. /\ WithoutGap(played') /\ played' \in Seq(Int)
        /\ Reached(played', Len(played'))
             = r + (IF n >= playbackBuffer.count THEN playbackBuffer.count ELSE n)
    <3>1. CASE n - playbackBuffer.count <= 0
      <4> DEFINE t == SubSeq(Begin(playbackBuffer), 1, n)
      <4>1. played' = played \o t BY <1>4, <3>1 DEF Play
      <4>2. t \in Seq(Int) /\ Len(t) = n /\ \A i \in 1 .. n : t[i] = r + i
        <5>1. \A i \in 1 .. n : i \in 1 .. playbackBuffer.count BY <1>0, <2>1, <3>1
        <5>2. \A i \in 1 .. n : Begin(playbackBuffer)[i] = r + i BY <1>a, <5>1
        <5>3. \A i \in 1 .. n : Begin(playbackBuffer)[i] \in Int
          <6> HIDE DEF r
          <6> QED BY <1>0, <2>1, <5>2
        <5>4. n - 1 + 1 = n /\ (1 <= n <=> n # 0) /\ \A i \in 1 .. n : 1 + i - 1 = i BY <2>1
        <5> QED BY <2>1, <5>2, <5>3, <5>4, SubSeqProperties
      <4> HIDE DEF t
      <4>3. WithoutGap(played \o t) /\ played \o t \in Seq(Int)
            /\ Reached(played \o t, Len(played \o t)) = r + n
        BY <1>0, <4>2, PlaySamples DEF r
      <4>4. n = IF n >= playbackBuffer.count THEN playbackBuffer.count ELSE n
        BY <1>0, <2>1, <3>1
      <4> QED BY <4>1, <4>3, <4>4
    <3>2. CASE ~(n - playbackBuffer.count <= 0)
      <4> DEFINE t == Begin(playbackBuffer)
                 m == n - playbackBuffer.count
                 z == [i \in 1 .. m |-> Silence]
                 s == played \o t
      <4>1. played' = played \o t \o z BY <1>4, <3>2 DEF Play
      <4>2. t \in Seq(Int) /\ Len(t) = playbackBuffer.count
        <5>1. 0 .. received \subseteq Int BY <1>0
        <5> QED BY <2>b, <5>1, Widens
      <4>3. /\ WithoutGap(s) /\ s \in Seq(Int)
            /\ Reached(s, Len(s)) = r + playbackBuffer.count
        <5>1. \A i \in 1 .. Len(t) : t[i] = r + i BY <1>a, <4>2
        <5> HIDE DEF t
        <5> QED BY <1>0, <4>2, <5>1, PlaySamples DEF r
      <4>4. m \in Nat /\ Silence \in Int /\ Silence = -1 - (r + playbackBuffer.count)
        <5> HIDE DEF r
        <5>1. received - decoded = r + playbackBuffer.count BY <1>d
        <5>2. Silence = -1 - (r + playbackBuffer.count) BY <5>1 DEF Silence
        <5>3. -1 - (r + playbackBuffer.count) \in Int BY <1>0
        <5>4. m \in Nat BY <1>0, <2>1, <3>2
        <5> QED BY <5>2, <5>3, <5>4
      <4>5. z \in Seq(Int) /\ Len(z) = m /\ \A i \in 1 .. m : z[i] = Silence
        <5> HIDE DEF m, t, s, r
        <5>1. z \in [1 .. m -> Int] /\ \A i \in 1 .. m : z[i] = Silence BY <4>4
        <5> HIDE DEF z
        <5> QED BY <4>4, <5>1, AsSequence
      <4> HIDE DEF z, m, t, s, r
      <4>6. Reached(s, Len(s)) \in Nat BY <1>0, <4>3
      <4>7. \A i \in 1 .. Len(z) : z[i] = -1 - Reached(s, Len(s)) BY <4>3, <4>4, <4>5
      <4>8. /\ WithoutGap(s \o z) /\ s \o z \in Seq(Int)
            /\ Reached(s \o z, Len(s \o z)) = Reached(s, Len(s))
        BY <4>3, <4>5, <4>6, <4>7, PlaySilence
      <4>9. played' = s \o z BY <4>1 DEF s
      <4>10. n >= playbackBuffer.count BY <1>0, <2>1, <3>2
      <4> QED BY <4>3, <4>8, <4>9, <4>10
    <3> QED BY <3>1, <3>2
  <2> HIDE DEF r
  <2>5. Reached(played', Len(played')) \in Nat BY <1>0, <2>1, <2>4
  <2>6. Reached(played', Len(played')) + playbackBuffer'.count + decoded' = received'
    BY <1>0, <2>1, <2>2, <2>3, <2>4
  <2>7. \A i \in 1 .. playbackBuffer'.count :
          Begin(playbackBuffer)'[i] = Reached(played', Len(played')) + i
    <3> SUFFICES ASSUME NEW i \in 1 .. playbackBuffer'.count
                 PROVE  Begin(playbackBuffer)'[i] = Reached(played', Len(played')) + i
      OBVIOUS
    <3>1. CASE n >= playbackBuffer.count
      <4>1. playbackBuffer'.count = 0 BY <2>3, <3>1
      <4> QED BY <4>1
    <3>2. CASE ~(n >= playbackBuffer.count)
      <4>1. /\ playbackBuffer'.count = playbackBuffer.count - n
            /\ Reached(played', Len(played')) = r + n
        BY <2>3, <2>4, <3>2
      <4>2. n + i \in 1 .. playbackBuffer.count BY <1>0, <2>1, <3>2, <4>1
      <4>3. Begin(playbackBuffer)'[i] = r + (n + i) BY <1>a, <2>3, <4>2
      <4> QED BY <1>0, <2>1, <4>1, <4>3
    <3> QED BY <3>1, <3>2
  <2>8. PlaybackTypeOK'
    <3>1. /\ playbackBuffer' \in [memory : Seq(0 .. received'), position : Nat, count : Nat]
          /\ playbackBuffer'.position + playbackBuffer'.count <= Len(playbackBuffer'.memory)
      BY <2>2, <2>3 DEF Buffers
    <3>2. decoded' \in 0 .. room BY <1>0, <2>2
    <3> QED BY <1>0, <1>c, <2>2, <2>4, <3>1, <3>2 DEF PlaybackTypeOK, room
  <2>9. \A i \in 1 .. decoded' : mDecodeBuffer'[i] = received' - decoded' + i BY <1>b, <2>2
  <2> QED BY <2>4, <2>5, <2>6, <2>7, <2>8, <2>9 DEF PInv
<1> QED BY <1>1, <1>2, <1>3, <1>4 DEF ANext, avars, PlaybackNext

\* All that was received is played, in order and once, wherever the samples are
\* in the buffer's memory, and silence only for want of them; for any sizes.
THEOREM Playback == ASpec => []PlaybackInv
<1>1. PInv => PlaybackInv
  <2> SUFFICES ASSUME PInv PROVE PlayedInOrder /\ SilentWhenEmpty
    BY DEF PInv, PlaybackInv
  <2>1. \A i : PlayedUpTo(i) = Reached(played, i) BY DEF PlayedUpTo, Reached
  <2>2. PlayedInOrder BY <2>1 DEF PInv, PlayedInOrder, WithoutGap
  <2>3. SilentWhenEmpty BY <2>1 DEF PInv, SilentWhenEmpty, WithoutGap
  <2> QED BY <2>2, <2>3
<1> QED BY <1>1, PInvInit, PInvNext, PTL DEF ASpec

-----------------------------------------------------------------------------
\* Recording.  The samples of mEncodeBuffer that are still to send.
Ready ==
    IF sendQueue # << >> THEN Head(sendQueue)
    ELSE IF encoder.at = "encoded" THEN encoder.samples ELSE 0

\* The lock says where the threads are, and the encoder waits for the sender.
Threads ==
    /\ recordLock = "device" <=> device.at # "idle"
    /\ recordLock = "encoder" <=> encoder.at = "encoded"
    /\ Len(sendQueue) <= 1
    /\ encoder.at # "idle" => sendQueue = << >>
    /\ encoder.at = "encoded" => encoder.samples > 0
    /\ encodeQueue + (IF device.at = "idle" THEN 0 ELSE 1) <= captures
    /\ device.unused \in {0, device.length}
    /\ device.at = "render" => device.unused = 0

\* Samples in the buffer that were recorded: the room of a callback that has not
\* rendered yet is behind them.
Filled == IF device.at = "render" THEN device.position ELSE recordBuffer.count

\* The last sample that left the buffer.
Taken == captured - Filled

Multiple(n) == \E k \in Nat : n = FrameSamples * k

\* The samples sent, those ready to be and those in the buffer follow each other.
Whole ==
    /\ device.unused = 0
    /\ Taken >= 0
    /\ \A i \in 1 .. Filled : Begin(recordBuffer)[i] = Taken + i
    /\ \A i \in 1 .. Ready : /\ mEncodeBuffer[i] = mEncodeBuffer[1] + i - 1
                             /\ mEncodeBuffer[i] \in 1 .. Taken
    /\ Multiple(Ready) /\ Multiple(Len(sent))
    /\ \A i \in 1 .. Len(sent) : /\ sent[i] \in 1 .. Taken
                                 /\ Ready > 0 => sent[i] < mEncodeBuffer[1]
    /\ \A i \in 1 .. Len(sent) - 1 : sent[i] < sent[i + 1]
    /\ \A i \in 1 .. Len(sent) - 1 :
          i % FrameSamples # 0 => sent[i + 1] = sent[i] + 1

CInv == TypeOK /\ Threads /\ (errors = 0 => Whole)

LEMMA MultipleHasNoRest ==
  ASSUME NEW n \in Nat, Multiple(n) PROVE n % FrameSamples = 0
<1> PICK k \in Nat : n = FrameSamples * k BY DEF Multiple
<1>0. FrameSamples \in Nat \ {0} BY SizesAssumption
<1> DEFINE q == n \div FrameSamples
           m == n % FrameSamples
<1>1. /\ q \in Nat /\ m \in Nat /\ m < FrameSamples
      /\ n = FrameSamples * q + m
  BY <1>0
<1> HIDE DEF q
<1>2. m = FrameSamples * k - FrameSamples * q BY <1>0, <1>1
<1>3. CASE k <= q
  <2>1. FrameSamples * k <= FrameSamples * q /\ FrameSamples * q \in Nat
        /\ FrameSamples * k \in Nat
    BY <1>0, <1>1, <1>3, ProductGrows
  <2> QED BY <1>1, <1>2, <2>1
<1>4. CASE q + 1 <= k
  <2>1. FrameSamples * (q + 1) <= FrameSamples * k /\ FrameSamples * k \in Nat
        /\ FrameSamples * (q + 1) \in Nat /\ FrameSamples * q \in Nat
    BY <1>0, <1>1, <1>4, ProductGrows
  <2>2. FrameSamples * (q + 1) = FrameSamples * q + FrameSamples BY <1>0, <1>1
  <2> QED BY <1>0, <1>1, <1>2, <2>1, <2>2
<1> QED BY <1>1, <1>3, <1>4

LEMMA MultiplesAdd ==
  ASSUME NEW n \in Nat, NEW m \in Nat, Multiple(n), Multiple(m) PROVE Multiple(n + m)
<1> PICK k \in Nat : n = FrameSamples * k BY DEF Multiple
<1> PICK l \in Nat : m = FrameSamples * l BY DEF Multiple
<1>1. n + m = FrameSamples * (k + l) /\ k + l \in Nat BY SizesAssumption
<1> QED BY <1>1 DEF Multiple

LEMMA CInvInit == AInit => CInv
<1> SUFFICES ASSUME Init PROVE CInv BY DEF AInit
<1> USE DEF Init
<1>0. FrameSamples * MaxFramesPerPacket \in Nat /\ Step \in Nat BY SizesAssumption
<1>1. /\ recordBuffer \in Buffers(0 .. captured) /\ recordBuffer.count = 0
      /\ sent \in Seq(0 .. captured) /\ Len(sent) = 0
      /\ sendQueue \in Seq(1 .. FrameSamples * MaxFramesPerPacket) /\ Len(sendQueue) = 0
  <2>1. Noises(Step) \in Seq(0 .. captured) /\ Len(Noises(Step)) = Step BY <1>0, NoisesIs
  <2> QED BY <1>0, <2>1, EmptySeq DEF Buffers
<1>2. mEncodeBuffer \in [1 .. FrameSamples * MaxFramesPerPacket -> 0 .. captured]
  <2>1. 0 \in 0 .. captured OBVIOUS
  <2> QED BY <1>0, <2>1, NoisesIs
<1>3. TypeOK BY <1>0, <1>1, <1>2 DEF TypeOK, SampleOrNoise, Idle, NoBlock, Buffers
<1>4. Ready = 0 BY DEF Ready, NoBlock
<1>5. Threads BY <1>1 DEF Threads, Idle, NoBlock
<1>6. Multiple(0)
  <2>1. 0 = FrameSamples * 0 BY SizesAssumption
  <2> QED BY <2>1 DEF Multiple
<1>7. Whole BY <1>1, <1>4, <1>6 DEF Whole, Filled, Taken, Idle
<1> QED BY <1>3, <1>5, <1>7 DEF CInv

-----------------------------------------------------------------------------
\* The types of the sequences, and how long they are.
LEMMA CaptureTypes ==
  ASSUME TypeOK
  PROVE  /\ recordBuffer \in Buffers(0 .. captured) /\ recordBuffer.count \in Nat
         /\ sent \in Seq(0 .. captured) /\ Len(sent) \in Nat
         /\ sendQueue \in Seq(1 .. FrameSamples * MaxFramesPerPacket)
         /\ Len(sendQueue) \in Nat
         /\ captured \in Nat /\ captures \in Nat /\ errors \in Nat /\ encodeQueue \in Nat
         /\ device.position \in Nat /\ device.length \in Nat /\ device.unused \in Nat
         /\ (sendQueue # << >> => Head(sendQueue) \in 1 .. FrameSamples * MaxFramesPerPacket)
         /\ Ready \in Nat /\ Ready <= FrameSamples * MaxFramesPerPacket
         /\ Filled \in Nat /\ Taken \in Int /\ Filled <= recordBuffer.count
         /\ FrameSamples * MaxFramesPerPacket \in Nat
         /\ mEncodeBuffer \in [1 .. FrameSamples * MaxFramesPerPacket -> 0 .. captured]
<1>1. /\ recordBuffer \in Buffers(0 .. captured) /\ sent \in Seq(0 .. captured)
      /\ sendQueue \in Seq(1 .. FrameSamples * MaxFramesPerPacket)
      /\ mEncodeBuffer \in [1 .. FrameSamples * MaxFramesPerPacket -> 0 .. captured]
      /\ captured \in Nat /\ captures \in Nat /\ errors \in Nat
      /\ encoder.samples \in 0 .. FrameSamples * MaxFramesPerPacket
  BY DEF TypeOK, SampleOrNoise, Buffers
<1>2. Len(sent) \in Nat /\ Len(sendQueue) \in Nat /\ recordBuffer.count \in Nat
  BY <1>1, LenProperties DEF Buffers
<1>3. FrameSamples * MaxFramesPerPacket \in Nat BY SizesAssumption
<1>4. sendQueue # << >> => Head(sendQueue) \in 1 .. FrameSamples * MaxFramesPerPacket
  BY <1>1, HeadTailProperties
<1>5. Ready \in 0 .. FrameSamples * MaxFramesPerPacket BY <1>1, <1>3, <1>4 DEF Ready
<1>6. encodeQueue \in Nat BY DEF TypeOK
<1>7. device.position \in Nat /\ device.length \in Nat /\ device.unused \in Nat
  <2>1. device \in [at : {"idle", "render", "finish"}, position : Nat,
                   length : CaptureSizes \cup {0}, unused : CaptureSizes \cup {0}]
    BY DEF TypeOK
  <2>2. CaptureSizes \cup {0} \subseteq Nat BY SizesAssumption
  <2> QED BY <2>1, <2>2
<1>8. Filled \in Nat /\ Taken \in Int /\ Filled <= recordBuffer.count
  BY <1>1, <1>2, <1>7 DEF Filled, Taken, TypeOK
<1> QED BY <1>1, <1>2, <1>3, <1>4, <1>5, <1>6, <1>7, <1>8

\* What push(numSamples) gives begins with what was there, at the front.
LEMMA PushRoomIs ==
  ASSUME NEW S, 0 \in S, NEW b \in Buffers(S), NEW n \in Nat
  PROVE  /\ PushRoom(b, n) \in Buffers(S) /\ PushRoom(b, n).count = b.count + n
         /\ PushRoom(b, n).position = 0
         /\ \A i \in 1 .. b.count : Begin(PushRoom(b, n))[i] = Begin(b)[i]
<1> DEFINE room == EnsureCapacity(b, b.count + n)
<1>1. b.count \in Nat /\ b.count + n \in Nat /\ b.count <= b.count + n BY DEF Buffers
<1>2. /\ room \in Buffers(S) /\ room.count = b.count /\ room.position = 0
      /\ b.count + n <= Len(room.memory)
      /\ \A i \in 1 .. b.count : room.memory[i] = Begin(b)[i]
  BY <1>1, EnsureCapacityKeeps
<1>3. PushRoom(b, n) = [room EXCEPT !.count = room.count + n] BY DEF PushRoom
<1> HIDE DEF room
<1>4. /\ PushRoom(b, n) \in Buffers(S) /\ PushRoom(b, n).count = b.count + n
      /\ PushRoom(b, n).position = 0 /\ PushRoom(b, n).memory = room.memory
  <2>1. room \in [memory : Seq(S), position : Nat, count : Nat] BY <1>2 DEF Buffers
  <2>2. /\ PushRoom(b, n) \in [memory : Seq(S), position : Nat, count : Nat]
        /\ PushRoom(b, n).count = b.count + n /\ PushRoom(b, n).position = 0
        /\ PushRoom(b, n).memory = room.memory
    BY <1>1, <1>2, <1>3, <2>1
  <2>3. 0 + (b.count + n) <= Len(PushRoom(b, n).memory) BY <1>1, <1>2, <2>2
  <2> QED BY <2>2, <2>3 DEF Buffers
<1>5. ASSUME NEW i \in 1 .. b.count PROVE Begin(PushRoom(b, n))[i] = Begin(b)[i]
  <2>1. i \in 1 .. b.count + n /\ 0 + i = i BY <1>1
  <2>2. Begin(PushRoom(b, n))[i] = PushRoom(b, n).memory[0 + i] BY <1>4, <2>1, BeginIs
  <2> QED BY <1>2, <1>4, <2>1, <2>2
<1> QED BY <1>4, <1>5

LEMMA GetRecordBufferKeeps ==
  ASSUME CInv, NEW length \in CaptureSizes, GetRecordBuffer(length) PROVE CInv'
<1> DEFINE L == recordBuffer.count
<1>0. /\ length \in Nat \ {0} /\ L \in Nat /\ captured \in Nat
      /\ recordBuffer \in Buffers(0 .. captured)
      /\ captures \in Nat /\ encodeQueue \in Nat
  BY SizesAssumption, CaptureTypes DEF CInv
<1>1. /\ recordLock' = "device" /\ captures' = captures + 1
      /\ device' = [at |-> "render", position |-> recordBuffer'.position + L,
                    length |-> length, unused |-> 0]
      /\ recordBuffer' = PushRoom(recordBuffer, length)
      /\ UNCHANGED <<captured, errors, encodeQueue, encoder, mEncodeBuffer, sendQueue, sent>>
      /\ device.at = "idle" /\ recordLock = "none"
  BY DEF GetRecordBuffer
<1>2. /\ recordBuffer' \in Buffers(0 .. captured) /\ recordBuffer'.count = L + length
      /\ recordBuffer'.position = 0
      /\ \A i \in 1 .. L : Begin(recordBuffer')[i] = Begin(recordBuffer)[i]
  <2>1. 0 \in 0 .. captured BY <1>0
  <2> QED BY <1>0, <1>1, <2>1, PushRoomIs
<1>3. Ready' = Ready BY <1>1 DEF Ready
<1> HIDE DEF L
<1>4. device' = [at |-> "render", position |-> L, length |-> length, unused |-> 0]
  BY <1>0, <1>1, <1>2
<1>5. TypeOK'
  <2>1. device' \in [at : {"idle", "render", "finish"}, position : Nat,
                     length : CaptureSizes \cup {0}, unused : CaptureSizes \cup {0}]
    BY <1>0, <1>4
  <2>2. captures' \in Nat /\ encodeQueue' \in 0 .. captures' BY <1>0, <1>1 DEF CInv, TypeOK
  <2> QED BY <1>1, <1>2, <1>4, <2>1, <2>2 DEF CInv, TypeOK, SampleOrNoise, Buffers
<1>6. Threads'
  <2>1. encodeQueue + 0 <= captures BY <1>1 DEF CInv, Threads
  <2>2. encodeQueue' + 1 <= captures' BY <1>0, <1>1, <2>1
  <2> QED BY <1>1, <1>4, <2>2 DEF CInv, Threads
<1>7. ASSUME errors' = 0 PROVE Whole'
  <2>1. Whole BY <1>1, <1>7 DEF CInv
  <2>2. Filled = L /\ Filled' = L /\ Taken' = Taken BY <1>1, <1>4 DEF Filled, Taken, L
  <2>3. \A i \in 1 .. Filled' : Begin(recordBuffer')[i] = Taken' + i
    BY <1>2, <2>1, <2>2 DEF Whole
  <2> QED BY <1>1, <1>3, <1>4, <2>1, <2>2, <2>3 DEF Whole
<1> QED BY <1>5, <1>6, <1>7 DEF CInv

LEMMA RenderKeeps == ASSUME CInv, Render PROVE CInv'
<1> DEFINE L == recordBuffer.count
           p == device.position
           n == device.length
           M == Len(recordBuffer.memory)
<1>0. /\ L \in Nat /\ p \in Nat /\ n \in Nat /\ captured \in Nat /\ Ready \in Nat
      /\ M \in Nat /\ recordBuffer.memory \in [1 .. M -> 0 .. captured]
      /\ recordBuffer \in Buffers(0 .. captured)
      /\ sent \in Seq(0 .. captured) /\ FrameSamples * MaxFramesPerPacket \in Nat
      /\ mEncodeBuffer \in [1 .. FrameSamples * MaxFramesPerPacket -> 0 .. captured]
  BY CaptureTypes, LenProperties DEF CInv, Buffers
<1>1. /\ device.at = "render" /\ p + n = L /\ recordBuffer.position = 0 /\ L <= M
      /\ recordBuffer' = [recordBuffer EXCEPT !.memory =
            [i \in 1 .. M |-> IF i - p \in 1 .. n THEN captured + i - p
                              ELSE recordBuffer.memory[i]]]
      /\ captured' = captured + n /\ device' = [device EXCEPT !.at = "finish"]
      /\ UNCHANGED <<recordLock, captures, errors, encodeQueue, encoder, mEncodeBuffer,
                     sendQueue, sent>>
  <2>1. DOMAIN recordBuffer.memory = 1 .. M BY <1>0
  <2>2. /\ device.at = "render" /\ p + n = L /\ recordBuffer.position = 0
        /\ 0 + L <= M
    BY DEF Render, CInv, TypeOK
  <2> HIDE DEF L, p, n, M
  <2>3. recordBuffer' = [recordBuffer EXCEPT !.memory =
            [i \in 1 .. M |-> IF i - p \in 1 .. n THEN captured + i - p
                              ELSE recordBuffer.memory[i]]]
    BY <2>1 DEF Render, p, n
  <2>4. /\ captured' = captured + n /\ device' = [device EXCEPT !.at = "finish"]
        /\ UNCHANGED <<recordLock, captures, errors, encodeQueue, encoder, mEncodeBuffer,
                       sendQueue, sent>>
    BY DEF Render, n
  <2>5. L <= M BY <1>0, <2>2
  <2> QED BY <2>2, <2>3, <2>4, <2>5, Zenon
<1>2. Ready' = Ready BY <1>1 DEF Ready
<1>3. \A i \in 1 .. L : Begin(recordBuffer)[i] = recordBuffer.memory[i]
  <2>1. \A i \in 1 .. L : Begin(recordBuffer)[i] = recordBuffer.memory[0 + i]
    BY <1>0, <1>1, BeginIs
  <2> QED BY <1>0, <2>1
<1> HIDE DEF L, p, n, M
<1> DEFINE memory == [i \in 1 .. M |-> IF i - p \in 1 .. n THEN captured + i - p
                                       ELSE recordBuffer.memory[i]]
<1>4. memory \in Seq(0 .. captured') /\ Len(memory) = M
  <2>1. ASSUME NEW i \in 1 .. M PROVE memory[i] \in 0 .. captured + n
    <3>1. recordBuffer.memory[i] \in Nat /\ recordBuffer.memory[i] <= captured BY <1>0
    <3>2. CASE i - p \in 1 .. n BY <1>0, <3>2
    <3>3. CASE ~(i - p \in 1 .. n) BY <1>0, <3>1, <3>3
    <3> QED BY <3>2, <3>3
  <2>2. memory \in [1 .. M -> 0 .. captured']
    <3> HIDE DEF memory
    <3>1. memory = [i \in 1 .. M |-> memory[i]] BY DEF memory
    <3> QED BY <1>1, <2>1, <3>1
  <2> HIDE DEF memory
  <2> QED BY <1>0, <2>2, AsSequence
<1>5. /\ recordBuffer' \in Buffers(0 .. captured') /\ recordBuffer'.memory = memory
      /\ recordBuffer'.count = L /\ recordBuffer'.position = 0
  <2> HIDE DEF memory
  <2>1. /\ recordBuffer \in [memory : Seq(0 .. captured), position : Nat, count : Nat]
        /\ recordBuffer.count = L
    BY <1>0 DEF Buffers, L
  <2>2. recordBuffer' = [recordBuffer EXCEPT !.memory = memory] BY <1>1 DEF memory
  <2>3. /\ recordBuffer' \in [memory : Seq(0 .. captured'), position : Nat, count : Nat]
        /\ recordBuffer'.memory = memory /\ recordBuffer'.count = L
        /\ recordBuffer'.position = 0
    BY <1>1, <1>4, <2>1, <2>2
  <2>4. 0 + L <= Len(recordBuffer'.memory) BY <1>0, <1>1, <1>4, <2>3
  <2> QED BY <2>3, <2>4 DEF Buffers
<1>6. /\ \A i \in 1 .. L : Begin(recordBuffer')[i] = memory[i]
      /\ \A i \in 1 .. p : memory[i] = recordBuffer.memory[i]
      /\ \A i \in 1 .. n : memory[p + i] = captured + i
  <2>1. \A i \in 1 .. L : Begin(recordBuffer')[i] = memory[i]
    <3> HIDE DEF memory
    <3>1. \A i \in 1 .. L : Begin(recordBuffer')[i] = recordBuffer'.memory[0 + i]
      BY <1>5, BeginIs
    <3> QED BY <1>0, <1>5, <3>1
  <2>2. ASSUME NEW i \in 1 .. p PROVE memory[i] = recordBuffer.memory[i]
    <3>1. i \in 1 .. M /\ ~(i - p \in 1 .. n) BY <1>0, <1>1
    <3> QED BY <3>1
  <2>3. ASSUME NEW i \in 1 .. n PROVE memory[p + i] = captured + i
    <3>1. p + i \in 1 .. M /\ (p + i) - p \in 1 .. n /\ captured + (p + i) - p = captured + i
      BY <1>0, <1>1
    <3> QED BY <3>1
  <2> QED BY <2>1, <2>2, <2>3
<1> HIDE DEF memory
<1>7. /\ device' \in [at : {"idle", "render", "finish"}, position : Nat,
                      length : CaptureSizes \cup {0}, unused : CaptureSizes \cup {0}]
      /\ device'.at = "finish" /\ device'.unused = device.unused
      /\ device'.length = n /\ device'.position = p
  BY <1>1 DEF CInv, TypeOK, p, n
<1>8. TypeOK'
  <2>1. 0 .. captured \subseteq 0 .. captured' /\ captured' \in Nat BY <1>0, <1>1
  <2>2. sent \in Seq(0 .. captured') BY <1>0, <2>1, Widens
  <2>3. mEncodeBuffer \in [1 .. FrameSamples * MaxFramesPerPacket -> 0 .. captured']
    BY <1>0, <2>1
  <2> QED BY <1>1, <1>5, <1>7, <2>1, <2>2, <2>3 DEF CInv, TypeOK, SampleOrNoise, Buffers
<1>9. Threads' BY <1>1, <1>7 DEF CInv, Threads, n
<1>10. ASSUME errors' = 0 PROVE Whole'
  <2>1. Whole BY <1>1, <1>10 DEF CInv
  <2>2. Filled = p /\ Filled' = L BY <1>1, <1>5, <1>7 DEF Filled, p
  <2>3. Taken = captured - p /\ Taken' = Taken BY <1>0, <1>1, <2>2 DEF Taken
  <2>4. ASSUME NEW i \in 1 .. L PROVE Begin(recordBuffer')[i] = Taken + i
    <3>1. i \in 1 .. p \/ (i - p \in 1 .. n /\ p + (i - p) = i) BY <1>0, <1>1
    <3>2. CASE i \in 1 .. p
      <4>1. i \in 1 .. L /\ Begin(recordBuffer)[i] = recordBuffer.memory[i]
        BY <1>0, <1>1, <1>3, <3>2
      <4>2. Begin(recordBuffer)[i] = Taken + i BY <2>1, <2>2, <3>2 DEF Whole
      <4> QED BY <1>6, <3>2, <4>1, <4>2
    <3>3. CASE i - p \in 1 .. n /\ p + (i - p) = i
      <4>1. memory[i] = captured + (i - p) BY <1>6, <3>3
      <4> QED BY <1>0, <1>6, <2>3, <4>1
    <3> QED BY <3>1, <3>2, <3>3
  <2>5. device'.unused = 0 /\ Taken' >= 0 /\ Len(sent') = Len(sent)
    BY <1>1, <1>7, <2>1, <2>3 DEF Whole
  <2> QED BY <1>1, <1>2, <2>1, <2>2, <2>3, <2>4, <2>5 DEF Whole
<1> QED BY <1>8, <1>9, <1>10 DEF CInv

LEMMA RenderFailsKeeps == ASSUME CInv, RenderFails PROVE CInv'
<1>0. /\ captured \in Nat /\ device.length \in Nat /\ errors \in Nat
      /\ sent \in Seq(0 .. captured) /\ recordBuffer \in Buffers(0 .. captured)
      /\ recordBuffer \in [memory : Seq(0 .. captured), position : Nat, count : Nat]
      /\ mEncodeBuffer \in [1 .. FrameSamples * MaxFramesPerPacket -> 0 .. captured]
  BY CaptureTypes DEF CInv, Buffers
<1>1. /\ device.at = "render" /\ errors' = errors + 1 /\ captured' = captured + device.length
      /\ device' = [device EXCEPT !.at = "finish", !.unused = device.length]
      /\ UNCHANGED <<recordBuffer, recordLock, captures, encodeQueue, encoder, mEncodeBuffer,
                     sendQueue, sent>>
      /\ device \in [at : {"idle", "render", "finish"}, position : Nat,
                     length : CaptureSizes \cup {0}, unused : CaptureSizes \cup {0}]
  BY DEF RenderFails, CInv, TypeOK
<1>2. /\ device' \in [at : {"idle", "render", "finish"}, position : Nat,
                      length : CaptureSizes \cup {0}, unused : CaptureSizes \cup {0}]
      /\ device'.at = "finish" /\ device'.unused = device.length
      /\ device'.length = device.length /\ device'.position = device.position
  BY <1>1
<1>3. 0 .. captured \subseteq 0 .. captured' /\ captured' \in Nat /\ errors' \in Nat
  BY <1>0, <1>1
<1>4. /\ sent \in Seq(0 .. captured')
      /\ recordBuffer \in [memory : Seq(0 .. captured'), position : Nat, count : Nat]
      /\ mEncodeBuffer \in [1 .. FrameSamples * MaxFramesPerPacket -> 0 .. captured']
  <2>1. sent \in Seq(0 .. captured') /\ recordBuffer.memory \in Seq(0 .. captured')
    BY <1>0, <1>3, Widens
  <2>2. mEncodeBuffer \in [1 .. FrameSamples * MaxFramesPerPacket -> 0 .. captured']
    BY <1>0, <1>3
  <2>3. recordBuffer \in [memory : Seq(0 .. captured'), position : Nat, count : Nat]
    BY <1>0, <2>1
  <2> QED BY <2>1, <2>2, <2>3
<1>5. TypeOK' BY <1>1, <1>2, <1>3, <1>4 DEF CInv, TypeOK, SampleOrNoise
<1>6. Threads' BY <1>1, <1>2 DEF CInv, Threads
<1>7. errors' # 0 BY <1>0, <1>1
<1> QED BY <1>5, <1>6, <1>7 DEF CInv

LEMMA FinishRecordingBufferKeeps == ASSUME CInv, FinishRecordingBuffer PROVE CInv'
<1> DEFINE L == recordBuffer.count
           n == device.unused
<1>0. /\ L \in Nat /\ n \in Nat /\ recordBuffer \in Buffers(0 .. captured)
      /\ encodeQueue \in Nat /\ captures \in Nat /\ captured \in Nat
      /\ device.position \in Nat /\ device.length \in Nat
  BY CaptureTypes DEF CInv
<1>1. /\ device.at = "finish" /\ recordLock' = "none" /\ encodeQueue' = encodeQueue + 1
      /\ device' = Idle /\ recordBuffer' = Pop(recordBuffer, n)
      /\ UNCHANGED <<captured, captures, errors, encoder, mEncodeBuffer, sendQueue, sent>>
  BY DEF FinishRecordingBuffer
<1> HIDE DEF n
<1>2. /\ recordBuffer' \in Buffers(0 .. captured)
      /\ recordBuffer'.count = IF n >= L THEN 0 ELSE L - n
      /\ \A i \in 1 .. recordBuffer'.count : Begin(recordBuffer')[i] = Begin(recordBuffer)[n + i]
  BY <1>0, <1>1, PopIs
<1> HIDE DEF L
<1>3. Ready' = Ready BY <1>1 DEF Ready
<1>4. encodeQueue' + 0 <= captures'
  <2>1. encodeQueue + 1 <= captures BY <1>1 DEF CInv, Threads
  <2> QED BY <1>0, <1>1, <2>1
<1>5. TypeOK'
  <2>1. encodeQueue' \in 0 .. captures' BY <1>0, <1>1, <1>4
  <2> QED BY <1>1, <1>2, <2>1 DEF CInv, TypeOK, SampleOrNoise, Idle, Buffers
<1>6. Threads' BY <1>1, <1>4 DEF CInv, Threads, Idle
<1>7. ASSUME errors' = 0 PROVE Whole'
  <2>1. Whole BY <1>1, <1>7 DEF CInv
  <2>2. n = 0 BY <2>1 DEF Whole, n
  <2>3. recordBuffer'.count = L
        /\ \A i \in 1 .. L : Begin(recordBuffer')[i] = Begin(recordBuffer)[i]
    <3>1. recordBuffer'.count = L /\ \A i \in 1 .. L : n + i = i BY <1>0, <1>2, <2>2
    <3> QED BY <1>2, <3>1
  <2>4. Filled = L /\ Filled' = L /\ Taken' = Taken
    BY <1>1, <2>3 DEF Filled, Taken, L, Idle
  <2>5. \A i \in 1 .. Filled' : Begin(recordBuffer')[i] = Taken' + i
    BY <2>1, <2>3, <2>4 DEF Whole
  <2> QED BY <1>1, <1>3, <2>1, <2>4, <2>5 DEF Whole, Idle
<1> QED BY <1>5, <1>6, <1>7 DEF CInv

-----------------------------------------------------------------------------
LEMMA WaitKeeps == ASSUME CInv, WaitForSending \/ NothingToEncode PROVE CInv'
<1>1. UNCHANGED <<recordBuffer, recordLock, device, captured, captures, errors,
                  mEncodeBuffer, sendQueue, sent>>
  BY DEF WaitForSending, NothingToEncode, microphone
<1>2. /\ encoder' \in {[at |-> "waited", samples |-> 0], NoBlock}
      /\ encoder'.at # "idle" => sendQueue = << >>
      /\ encoder.at # "encoded"
      /\ encodeQueue' = encodeQueue \/ (encodeQueue > 0 /\ encodeQueue' = encodeQueue - 1)
  BY DEF WaitForSending, NothingToEncode, NoBlock
<1>3. /\ encodeQueue \in Nat /\ captures \in Nat /\ encodeQueue <= captures
      /\ encodeQueue + (IF device.at = "idle" THEN 0 ELSE 1) <= captures
      /\ FrameSamples * MaxFramesPerPacket \in Nat
  BY CaptureTypes DEF CInv, TypeOK, Threads
<1>4. /\ encodeQueue' \in 0 .. captures
      /\ encodeQueue' + (IF device.at = "idle" THEN 0 ELSE 1) <= captures
  <2>1. CASE encodeQueue' = encodeQueue BY <1>3, <2>1
  <2>2. CASE encodeQueue > 0 /\ encodeQueue' = encodeQueue - 1
    <3>1. CASE device.at = "idle" BY <1>3, <2>2, <3>1
    <3>2. CASE device.at # "idle" BY <1>3, <2>2, <3>2
    <3> QED BY <3>1, <3>2
  <2> QED BY <1>2, <2>1, <2>2
<1>5. /\ encoder'.at # "encoded"
      /\ encoder' \in [at : {"idle", "waited", "encoded"},
                       samples : 0 .. FrameSamples * MaxFramesPerPacket]
  BY <1>2, <1>3 DEF NoBlock
<1>6. Ready' = Ready BY <1>1, <1>2, <1>5 DEF Ready
<1>7. TypeOK' BY <1>1, <1>4, <1>5 DEF CInv, TypeOK, SampleOrNoise
<1>8. Threads' BY <1>1, <1>2, <1>4, <1>5 DEF CInv, Threads
<1>9. ASSUME errors' = 0 PROVE Whole' BY <1>1, <1>6, <1>9 DEF CInv, Whole, Filled, Taken
<1> QED BY <1>7, <1>8, <1>9 DEF CInv

LEMMA EncodeKeeps == ASSUME CInv, Encode PROVE CInv'
<1> DEFINE L == recordBuffer.count
           W == WholeFrames
           m == FrameSamples * Fewer(W, MaxFramesPerPacket)
           n == FrameSamples * W
           room == FrameSamples * MaxFramesPerPacket
<1>0. /\ L \in Nat /\ recordBuffer \in Buffers(0 .. captured)
      /\ \A i \in 1 .. L : Begin(recordBuffer)[i] \in 0 .. captured
      /\ mEncodeBuffer \in [1 .. room -> 0 .. captured] /\ room \in Nat
      /\ captured \in Nat /\ Len(sent) \in Nat
  <2>1. recordBuffer \in Buffers(0 .. captured) BY CaptureTypes DEF CInv
  <2>2. Begin(recordBuffer) \in Seq(0 .. captured) /\ Len(Begin(recordBuffer)) = L
    BY <2>1, BeginIs
  <2> QED BY <2>1, <2>2, CaptureTypes, ElementOfSeq DEF CInv
<1>1. /\ encoder.at = "waited" /\ recordLock = "none" /\ W >= 1
      /\ recordLock' = "encoder" /\ encoder' = [at |-> "encoded", samples |-> m]
      /\ mEncodeBuffer' = [i \in 1 .. room |->
                              IF i <= m THEN Begin(recordBuffer)[i] ELSE mEncodeBuffer[i]]
      /\ recordBuffer' = Pop(recordBuffer, n)
      /\ UNCHANGED <<device, captured, captures, errors, encodeQueue, sendQueue, sent>>
  BY <1>0 DEF Encode, microphone
<1>2. W \in Nat /\ n \in Nat /\ n <= L BY <1>0, SizesAssumption, QuotientIs DEF WholeFrames
<1>3. /\ m \in Nat /\ m <= n /\ m <= room /\ m >= 1
      /\ Fewer(W, MaxFramesPerPacket) \in Nat
  <2> DEFINE k == Fewer(W, MaxFramesPerPacket)
  <2>1. k \in Nat /\ k <= W /\ k <= MaxFramesPerPacket /\ 1 <= k
    BY <1>1, <1>2, SizesAssumption DEF Fewer
  <2>2. FrameSamples * 1 = FrameSamples /\ FrameSamples \in Nat /\ FrameSamples >= 1
        /\ MaxFramesPerPacket \in Nat
    BY SizesAssumption
  <2> HIDE DEF k, W
  <2>3. /\ FrameSamples * k \in Nat /\ FrameSamples * k <= FrameSamples * W
        /\ FrameSamples * k <= FrameSamples * MaxFramesPerPacket
        /\ FrameSamples * 1 <= FrameSamples * k
    BY <1>2, <2>1, <2>2, ProductGrows
  <2> QED BY <2>1, <2>2, <2>3 DEF k
<1>m. Multiple(m) BY <1>3 DEF Multiple
<1> HIDE DEF W, m, n
<1>4. /\ recordBuffer' \in Buffers(0 .. captured) /\ recordBuffer'.count = L - n
      /\ \A i \in 1 .. L - n : Begin(recordBuffer')[i] = Begin(recordBuffer)[n + i]
  <2>1. /\ recordBuffer' \in Buffers(0 .. captured)
        /\ recordBuffer'.count = IF n >= recordBuffer.count THEN 0 ELSE recordBuffer.count - n
        /\ \A i \in 1 .. recordBuffer'.count : Begin(recordBuffer')[i] = Begin(recordBuffer)[n + i]
    BY <1>0, <1>1, <1>2, PopIs
  <2>2. recordBuffer'.count = L - n BY <1>0, <1>2, <2>1
  <2> QED BY <2>1, <2>2
<1> HIDE DEF L, room
<1>5. /\ mEncodeBuffer' \in [1 .. room -> 0 .. captured]
      /\ \A i \in 1 .. m : mEncodeBuffer'[i] = Begin(recordBuffer)[i] /\ i \in 1 .. L
  <2>1. \A i \in 1 .. room : i <= m => Begin(recordBuffer)[i] \in 0 .. captured
    <3>1. \A i \in 1 .. room : i <= m => i \in 1 .. L BY <1>0, <1>2, <1>3
    <3> QED BY <1>0, <3>1
  <2>2. mEncodeBuffer' \in [1 .. room -> 0 .. captured] BY <1>0, <1>1, <2>1
  <2>3. \A i \in 1 .. m : i \in 1 .. room /\ i <= m /\ i \in 1 .. L BY <1>0, <1>2, <1>3
  <2> QED BY <1>1, <2>2, <2>3
<1>6. sendQueue = << >> /\ Ready' = m /\ Ready = 0 /\ device.at = "idle"
  BY <1>1 DEF CInv, Threads, TypeOK, Ready
<1>7. TypeOK'
  <2>1. m \in 0 .. room BY <1>0, <1>3
  <2> QED BY <1>1, <1>4, <1>5, <1>6, <2>1 DEF CInv, TypeOK, SampleOrNoise, room, Buffers
<1>8. Threads' BY <1>1, <1>3, <1>6 DEF CInv, Threads
<1>9. ASSUME errors' = 0 PROVE Whole'
  <2>1. Whole BY <1>1, <1>9 DEF CInv
  <2>2. Filled = L /\ Filled' = L - n BY <1>1, <1>4, <1>6 DEF Filled, L
  <2>3. /\ Taken = captured - L /\ Taken' = Taken + n /\ Taken \in Int /\ Taken >= 0
    BY <1>0, <1>1, <1>2, <2>1, <2>2 DEF Taken, Whole
  <2>4. \A i \in 1 .. L - n : Begin(recordBuffer')[i] = Taken' + i
    <3> SUFFICES ASSUME NEW i \in 1 .. L - n
                 PROVE  Begin(recordBuffer')[i] = Taken + n + i
      BY <2>3
    <3>1. n + i \in 1 .. L BY <1>0, <1>2
    <3>2. Begin(recordBuffer)[n + i] = Taken + (n + i) BY <2>1, <2>2, <3>1 DEF Whole
    <3> QED BY <1>2, <1>4, <2>3, <3>2
  <2>5. ASSUME NEW i \in 1 .. m
        PROVE  mEncodeBuffer'[i] = Taken + i /\ mEncodeBuffer'[i] \in 1 .. Taken'
    <3>1. mEncodeBuffer'[i] = Begin(recordBuffer)[i] /\ i \in 1 .. L BY <1>5
    <3>2. Begin(recordBuffer)[i] = Taken + i BY <2>1, <2>2, <3>1 DEF Whole
    <3> QED BY <1>2, <1>3, <2>3, <3>1, <3>2
  <2>6. ASSUME NEW i \in 1 .. m
        PROVE  mEncodeBuffer'[i] = mEncodeBuffer'[1] + i - 1
    <3>1. mEncodeBuffer'[1] = Taken + 1 BY <1>3, <2>5
    <3> QED BY <2>3, <2>5, <3>1
  <2>7. ASSUME NEW i \in 1 .. Len(sent)
        PROVE  sent[i] \in 1 .. Taken' /\ sent[i] < mEncodeBuffer'[1]
    <3>1. sent[i] \in 1 .. Taken BY <2>1 DEF Whole
    <3>2. mEncodeBuffer'[1] = Taken + 1 BY <1>3, <2>5
    <3> QED BY <1>2, <2>3, <3>1, <3>2
  <2>8. device'.unused = 0 /\ Taken' >= 0 BY <1>1, <1>2, <2>1, <2>3 DEF Whole
  <2> HIDE DEF Taken
  <2> QED BY <1>1, <1>6, <1>m, <2>1, <2>2, <2>4, <2>5, <2>6, <2>7, <2>8 DEF Whole
<1> QED BY <1>7, <1>8, <1>9 DEF CInv

LEMMA DispatchSendKeeps == ASSUME CInv, DispatchSend PROVE CInv'
<1>1. /\ encoder.at = "encoded" /\ sendQueue' = Append(sendQueue, encoder.samples)
      /\ recordLock' = "none" /\ encoder' = NoBlock
      /\ UNCHANGED <<recordBuffer, device, captured, captures, errors, encodeQueue,
                     mEncodeBuffer, sent>>
  BY DEF DispatchSend, microphone
<1>2. /\ sendQueue = << >> /\ recordLock = "encoder" /\ device.at = "idle"
      /\ encoder.samples \in 1 .. FrameSamples * MaxFramesPerPacket
      /\ FrameSamples * MaxFramesPerPacket \in Nat
  BY <1>1, CaptureTypes DEF CInv, Threads, TypeOK
<1>3. sendQueue' = <<encoder.samples>> BY <1>1, <1>2
<1>4. /\ sendQueue' \in Seq(1 .. FrameSamples * MaxFramesPerPacket)
      /\ Len(sendQueue') = 1 /\ sendQueue' # << >> /\ Head(sendQueue') = encoder.samples
  BY <1>2, <1>3
<1>5. Ready' = Ready BY <1>1, <1>2, <1>4 DEF Ready
<1>6. TypeOK' BY <1>1, <1>2, <1>4 DEF CInv, TypeOK, SampleOrNoise, NoBlock
<1>7. Threads' BY <1>1, <1>2, <1>4 DEF CInv, Threads, NoBlock
<1>8. ASSUME errors' = 0 PROVE Whole' BY <1>1, <1>5, <1>8 DEF CInv, Whole, Filled, Taken
<1> QED BY <1>6, <1>7, <1>8 DEF CInv

LEMMA SendKeeps == ASSUME CInv, Send PROVE CInv'
<1> DEFINE L == Len(sent)
           m == Ready
           live == SubSeq(mEncodeBuffer, 1, Head(sendQueue))
<1>0. /\ L \in Nat /\ sent \in Seq(0 .. captured) /\ m \in Nat
      /\ m <= FrameSamples * MaxFramesPerPacket
      /\ FrameSamples * MaxFramesPerPacket \in Nat
      /\ mEncodeBuffer \in [1 .. FrameSamples * MaxFramesPerPacket -> 0 .. captured]
      /\ sendQueue \in Seq(1 .. FrameSamples * MaxFramesPerPacket)
  BY CaptureTypes DEF CInv
<1>1. /\ sendQueue # << >> /\ sent' = sent \o live /\ sendQueue' = Tail(sendQueue)
      /\ UNCHANGED <<recordBuffer, recordLock, device, captured, captures, errors, encodeQueue,
                     encoder, mEncodeBuffer>>
  BY DEF Send, microphone
<1>2. m = Head(sendQueue) /\ encoder.at = "idle"
  BY <1>1 DEF Ready, CInv, Threads
<1>3. live \in Seq(0 .. captured) /\ Len(live) = m
      /\ \A i \in 1 .. m : live[i] = mEncodeBuffer[i]
  <2>1. \A i \in 1 .. m : mEncodeBuffer[i] \in 0 .. captured
    <3>1. \A i \in 1 .. m : i \in 1 .. FrameSamples * MaxFramesPerPacket BY <1>0
    <3> HIDE DEF m
    <3> QED BY <1>0, <3>1
  <2>2. live = SubSeq(mEncodeBuffer, 1, m) BY <1>2
  <2> HIDE DEF m, live
  <2>3. m \in Int /\ (IF 1 <= m THEN m - 1 + 1 ELSE 0) = m /\ m - 1 + 1 = m
        /\ \A i \in 1 .. m : 1 + i - 1 = i
    BY <1>0
  <2> QED BY <2>1, <2>2, <2>3, SubSeqProperties
<1> HIDE DEF live, m
<1>4. /\ sent' \in Seq(0 .. captured) /\ Len(sent') = L + m
      /\ \A i \in 1 .. L : sent'[i] = sent[i]
      /\ \A i \in 1 .. m : sent'[L + i] = mEncodeBuffer[i]
  <2>1. /\ sent \o live \in Seq(0 .. captured) /\ Len(sent \o live) = L + m
        /\ \A i \in 1 .. L + m : (sent \o live)[i] = IF i <= L THEN sent[i] ELSE live[i - L]
    BY <1>0, <1>3, ConcatProperties
  <2>2. ASSUME NEW i \in 1 .. L PROVE sent'[i] = sent[i]
    <3>1. i \in 1 .. L + m /\ i <= L BY <1>0
    <3> QED BY <1>1, <2>1, <3>1
  <2>3. ASSUME NEW i \in 1 .. m PROVE sent'[L + i] = mEncodeBuffer[i]
    <3>1. L + i \in 1 .. L + m /\ ~(L + i <= L) /\ (L + i) - L = i BY <1>0
    <3>2. (sent \o live)[L + i] = live[(L + i) - L] BY <2>1, <3>1
    <3> QED BY <1>1, <1>3, <3>1, <3>2
  <2> QED BY <1>1, <2>1, <2>2, <2>3
<1>5. /\ sendQueue' \in Seq(1 .. FrameSamples * MaxFramesPerPacket)
      /\ Len(sendQueue') = 0 /\ sendQueue' = << >>
  <2>1. /\ Tail(sendQueue) \in Seq(1 .. FrameSamples * MaxFramesPerPacket)
        /\ Len(Tail(sendQueue)) = Len(sendQueue) - 1
    BY <1>0, <1>1, HeadTailProperties
  <2>2. Len(sendQueue) \in Nat \ {0} BY <1>0, <1>1, EmptySeq
  <2>3. Len(sendQueue) <= 1 BY DEF CInv, Threads
  <2>4. Len(sendQueue') = 0 BY <1>1, <2>1, <2>2, <2>3
  <2> QED BY <1>1, <2>1, <2>4, EmptySeq
<1>6. Ready' = 0 BY <1>1, <1>2, <1>5 DEF Ready
<1> HIDE DEF L
<1>7. TypeOK' BY <1>1, <1>4, <1>5 DEF CInv, TypeOK, SampleOrNoise
<1>8. Threads' BY <1>1, <1>5 DEF CInv, Threads
<1>9. ASSUME errors' = 0 PROVE Whole'
  <2>1. Whole BY <1>1, <1>9 DEF CInv
  <2>2. /\ \A i \in 1 .. m : /\ mEncodeBuffer[i] = mEncodeBuffer[1] + i - 1
                            /\ mEncodeBuffer[i] \in 1 .. Taken
        /\ Multiple(m) /\ Multiple(L)
        /\ \A i \in 1 .. L : sent[i] \in 1 .. Taken /\ (m > 0 => sent[i] < mEncodeBuffer[1])
        /\ \A i \in 1 .. L - 1 : sent[i] < sent[i + 1]
        /\ \A i \in 1 .. L - 1 : i % FrameSamples # 0 => sent[i + 1] = sent[i] + 1
    BY <2>1 DEF Whole, m, L
  <2>3. Multiple(L + m) BY <1>0, <2>2, MultiplesAdd
  <2>4. L % FrameSamples = 0 BY <1>0, <2>2, MultipleHasNoRest
  <2>5. Multiple(0)
    <3>1. 0 = FrameSamples * 0 BY SizesAssumption
    <3> QED BY <3>1 DEF Multiple
  <2>6. ASSUME NEW i \in 1 .. L + m PROVE sent'[i] \in 1 .. Taken
    <3>1. i \in 1 .. L \/ (i - L \in 1 .. m /\ L + (i - L) = i) BY <1>0
    <3>2. CASE i \in 1 .. L BY <1>4, <2>2, <3>2
    <3>3. CASE i - L \in 1 .. m /\ L + (i - L) = i
      <4>1. sent'[i] = mEncodeBuffer[i - L] BY <1>4, <3>3
      <4> QED BY <2>2, <3>3, <4>1
    <3> QED BY <3>1, <3>2, <3>3
  <2>7. ASSUME NEW i \in 1 .. L + m - 1
        PROVE  /\ sent'[i] < sent'[i + 1]
               /\ i % FrameSamples # 0 => sent'[i + 1] = sent'[i] + 1
    <3>1. i \in 1 .. L - 1 \/ i = L \/ i - L \in 1 .. m - 1 BY <1>0
    <3>2. CASE i \in 1 .. L - 1
      <4>1. i \in 1 .. L /\ i + 1 \in 1 .. L BY <1>0, <3>2
      <4> QED BY <1>4, <2>2, <3>2, <4>1
    <3>3. CASE i = L /\ L > 0
      <4>1. i \in 1 .. L /\ m > 0 /\ 1 \in 1 .. m /\ L + 1 = i + 1 BY <1>0, <3>3
      <4>2. sent'[i] = sent[i] /\ sent'[i + 1] = mEncodeBuffer[1] BY <1>4, <4>1
      <4> QED BY <2>2, <2>4, <3>3, <4>1, <4>2
    <3>4. CASE i - L \in 1 .. m - 1
      <4>1. /\ i - L \in 1 .. m /\ (i - L) + 1 \in 1 .. m
            /\ L + (i - L) = i /\ L + ((i - L) + 1) = i + 1 /\ 1 \in 1 .. m
        BY <1>0, <3>4
      <4>2. sent'[i] = mEncodeBuffer[i - L] BY <1>4, <4>1
      <4>3. sent'[i + 1] = mEncodeBuffer[(i - L) + 1] BY <1>4, <4>1
      <4>4. mEncodeBuffer[1] \in Int BY <2>2, <4>1
      <4>5. mEncodeBuffer[(i - L) + 1] = mEncodeBuffer[i - L] + 1
            /\ mEncodeBuffer[i - L] \in Int
        BY <1>0, <2>2, <4>1, <4>4
      <4> QED BY <4>2, <4>3, <4>5
    <3> QED BY <1>0, <3>1, <3>2, <3>3, <3>4
  <2>8. device'.unused = 0 /\ Filled' = Filled /\ Taken' = Taken
        /\ recordBuffer' = recordBuffer
    BY <1>1, <2>1 DEF Whole, Filled, Taken
  <2>9. Taken' >= 0 /\ \A i \in 1 .. Filled' : Begin(recordBuffer')[i] = Taken' + i
    BY <2>1, <2>8 DEF Whole
  <2>10. (1 .. 0) = {} /\ ~(0 > 0) OBVIOUS
  <2>11. Multiple(Ready)' /\ Multiple(Len(sent))' BY <1>4, <1>6, <2>3, <2>5 DEF Multiple
  <2>12. \A i \in 1 .. Ready' : /\ mEncodeBuffer'[i] = mEncodeBuffer'[1] + i - 1
                                /\ mEncodeBuffer'[i] \in 1 .. Taken'
    BY <1>6, <2>10
  <2>13. \A i \in 1 .. Len(sent') : /\ sent'[i] \in 1 .. Taken'
                                    /\ Ready' > 0 => sent'[i] < mEncodeBuffer'[1]
    BY <1>4, <1>6, <2>6, <2>8, <2>10
  <2>14. \A i \in 1 .. Len(sent') - 1 :
            sent'[i] < sent'[i + 1] /\ (i % FrameSamples # 0 => sent'[i + 1] = sent'[i] + 1)
    <3> SUFFICES ASSUME NEW i \in 1 .. Len(sent') - 1
                 PROVE  /\ sent'[i] < sent'[i + 1]
                        /\ i % FrameSamples # 0 => sent'[i + 1] = sent'[i] + 1
      OBVIOUS
    <3>1. i \in 1 .. L + m - 1 BY <1>0, <1>4
    <3> QED BY <2>7, <3>1
  <2> QED BY <2>8, <2>9, <2>11, <2>12, <2>13, <2>14, Zenon DEF Whole
<1> QED BY <1>7, <1>8, <1>9 DEF CInv

LEMMA CInvNext == CInv /\ [ANext]_avars => CInv'
<1> SUFFICES ASSUME CInv, [ANext]_avars PROVE CInv' OBVIOUS
<1>1. CASE UNCHANGED vars
  <2>1. UNCHANGED <<recordBuffer, recordLock, device, captured, captures, errors, encodeQueue,
                    encoder, mEncodeBuffer, sendQueue, sent>>
    BY <1>1 DEF vars, microphone
  <2> QED BY <2>1 DEF CInv, TypeOK, SampleOrNoise, Threads, Whole, Ready, Filled, Taken
<1>2. ASSUME NEW length \in CaptureSizes, GetRecordBuffer(length) PROVE CInv'
  BY <1>2, GetRecordBufferKeeps
<1>3. CASE Render BY <1>3, RenderKeeps
<1>4. CASE RenderFails BY <1>4, RenderFailsKeeps
<1>5. CASE FinishRecordingBuffer BY <1>5, FinishRecordingBufferKeeps
<1>6. CASE WaitForSending \/ NothingToEncode BY <1>6, WaitKeeps
<1>7. CASE Encode BY <1>7, EncodeKeeps
<1>8. CASE DispatchSend BY <1>8, DispatchSendKeeps
<1>9. CASE Send BY <1>9, SendKeeps
<1> QED BY <1>1, <1>2, <1>3, <1>4, <1>5, <1>6, <1>7, <1>8, <1>9
        DEF ANext, avars, Next, DeviceNext, EncoderNext

\* As long as the audio unit renders without error, what is sent is what was
\* recorded, in order and once; for any sizes of frames, packets and captures.
THEOREM Capture == ASpec => []AudioCaptureInv
<1>1. CInv => AudioCaptureInv
  <2> SUFFICES ASSUME CInv, errors = 0
               PROVE  /\ \A i \in 1 .. Len(sent) - 1 : sent[i] < sent[i + 1]
                      /\ \A i \in 1 .. Len(sent) - 1 :
                            i % FrameSamples # 0 => sent[i + 1] = sent[i] + 1
                      /\ Len(sent) > 0 => sent[1] # Noise
    BY DEF CInv, AudioCaptureInv, SentInOrder
  <2>1. Len(sent) \in Nat BY CaptureTypes DEF CInv
  <2>2. Len(sent) > 0 => sent[1] \in 1 .. Taken
    <3>1. Len(sent) > 0 => 1 \in 1 .. Len(sent) BY <2>1
    <3> QED BY <3>1 DEF CInv, Whole
  <2>3. Len(sent) > 0 => sent[1] # Noise BY <2>2, CaptureTypes DEF CInv, Noise
  <2> QED BY <2>3 DEF CInv, Whole
<1> QED BY <1>1, CInvInit, CInvNext, PTL DEF ASpec

\* A whole frame that was recorded has somebody on the way to encode it.
FrameAwaited ==
    recordBuffer.count >= FrameSamples =>
        encodeQueue > 0 \/ device.at # "idle" \/ encoder.at = "waited"

\* The steps that are left: a callback fills its room and finishes, which makes
\* a block; the block waits, encodes, dispatches; and what it dispatched is sent.
DeviceLeads ==
    CASE device.at = "idle" -> 0 [] device.at = "render" -> 6 [] device.at = "finish" -> 5

EncoderLeads ==
    CASE encoder.at = "idle" -> 0 [] encoder.at = "waited" -> 3
      [] encoder.at = "encoded" -> 2

StepsLeft == DeviceLeads + 4 * encodeQueue + EncoderLeads + Len(sendQueue)

LEMMA StepsLeftKnown ==
    CInv => /\ DeviceLeads \in Nat /\ EncoderLeads \in Nat /\ encodeQueue \in Nat
            /\ Len(sendQueue) \in Nat /\ StepsLeft \in Nat
<1> SUFFICES ASSUME CInv
             PROVE  /\ DeviceLeads \in Nat /\ EncoderLeads \in Nat /\ encodeQueue \in Nat
                    /\ Len(sendQueue) \in Nat
  BY DEF StepsLeft
<1>1. /\ device.at \in {"idle", "render", "finish"}
      /\ encoder.at \in {"idle", "waited", "encoded"}
      /\ captures \in Nat /\ encodeQueue \in 0 .. captures
      /\ sendQueue \in Seq(1 .. FrameSamples * MaxFramesPerPacket)
  BY DEF CInv, TypeOK
<1>2. DeviceLeads \in Nat BY <1>1 DEF DeviceLeads
<1>3. EncoderLeads \in Nat BY <1>1 DEF EncoderLeads
<1>4. encodeQueue \in Nat BY <1>1
<1>5. Len(sendQueue) \in Nat BY <1>1, LenProperties
<1> QED BY <1>2, <1>3, <1>4, <1>5

\* Where nothing is left to be done, everything is at rest.
LEMMA NothingLeft ==
    CInv /\ FrameAwaited /\ StepsLeft = 0 =>
        recordBuffer.count < FrameSamples /\ sendQueue = << >> /\ recordLock = "none"
<1> SUFFICES ASSUME CInv, FrameAwaited, StepsLeft = 0
             PROVE  recordBuffer.count < FrameSamples /\ sendQueue = << >>
                    /\ recordLock = "none"
  OBVIOUS
<1>1. DeviceLeads = 0 /\ EncoderLeads = 0 /\ encodeQueue = 0 /\ Len(sendQueue) = 0
  BY StepsLeftKnown DEF StepsLeft
<1>2. device.at = "idle"
  <2>1. device.at \in {"idle", "render", "finish"} BY DEF CInv, TypeOK
  <2> QED BY <1>1, <2>1 DEF DeviceLeads
<1>3. encoder.at = "idle"
  <2>1. encoder.at \in {"idle", "waited", "encoded"} BY DEF CInv, TypeOK
  <2> QED BY <1>1, <2>1 DEF EncoderLeads
<1>4. sendQueue = << >>
  <2>1. sendQueue \in Seq(1 .. FrameSamples * MaxFramesPerPacket) BY DEF CInv, TypeOK
  <2> QED BY <1>1, <2>1, EmptySeq
<1>5. recordLock = "none" BY <1>2, <1>3 DEF CInv, Threads, TypeOK
<1>6. recordBuffer.count < FrameSamples
  <2>1. recordBuffer.count \in Nat BY CaptureTypes DEF CInv
  <2> QED BY <1>1, <1>2, <1>3, <2>1, SizesAssumption DEF FrameAwaited
<1> QED BY <1>4, <1>5, <1>6

LEMMA StepsAreTaken ==
    CInv /\ FrameAwaited /\ Next =>
        /\ FrameAwaited'
        /\ StepsLeft' < StepsLeft \/ \E length \in CaptureSizes : GetRecordBuffer(length)
<1> SUFFICES ASSUME CInv, FrameAwaited, Next
             PROVE  /\ FrameAwaited'
                    /\ \/ StepsLeft' < StepsLeft
                       \/ \E length \in CaptureSizes : GetRecordBuffer(length)
  OBVIOUS
<1>1. /\ device \in [at : {"idle", "render", "finish"}, position : Nat,
                     length : CaptureSizes \cup {0}, unused : CaptureSizes \cup {0}]
      /\ encoder \in [at : {"idle", "waited", "encoded"},
                      samples : 0 .. FrameSamples * MaxFramesPerPacket]
  BY DEF CInv, TypeOK
<1>2. /\ DeviceLeads \in Nat /\ EncoderLeads \in Nat /\ encodeQueue \in Nat
      /\ Len(sendQueue) \in Nat
  BY StepsLeftKnown
<1> PICK d \in Nat, q \in Nat, e \in Nat, s \in Nat :
       DeviceLeads = d /\ encodeQueue = q /\ EncoderLeads = e /\ Len(sendQueue) = s
  BY <1>2
<1>3. StepsLeft = d + 4 * q + e + s BY DEF StepsLeft
<1>4. device' = device => DeviceLeads' = d BY DEF DeviceLeads
<1>5. encoder' = encoder => EncoderLeads' = e BY DEF EncoderLeads
<1>6. ASSUME NEW length \in CaptureSizes, GetRecordBuffer(length)
      PROVE  FrameAwaited' /\ \E l \in CaptureSizes : GetRecordBuffer(l)
  <2>1. device'.at = "render" BY <1>6 DEF GetRecordBuffer
  <2> QED BY <1>6, <2>1 DEF FrameAwaited
<1>7. CASE Render \/ RenderFails
  <2>1. /\ device.at = "render" /\ device'.at = "finish"
        /\ UNCHANGED <<encodeQueue, encoder, sendQueue>>
    BY <1>1, <1>7 DEF Render, RenderFails
  <2>2. d = 6 /\ DeviceLeads' = 5 BY <2>1 DEF DeviceLeads
  <2>3. StepsLeft' = 5 + 4 * q + e + s BY <1>5, <2>1, <2>2 DEF StepsLeft
  <2> QED BY <1>3, <2>1, <2>2, <2>3 DEF FrameAwaited
<1>8. CASE FinishRecordingBuffer
  <2>1. /\ device.at = "finish" /\ device' = Idle /\ encodeQueue' = q + 1
        /\ UNCHANGED <<encoder, sendQueue>>
    BY <1>8 DEF FinishRecordingBuffer
  <2>2. d = 5 /\ DeviceLeads' = 0 BY <2>1 DEF DeviceLeads, Idle
  <2>3. StepsLeft' = 0 + 4 * (q + 1) + e + s BY <1>5, <2>1, <2>2 DEF StepsLeft
  <2> QED BY <1>3, <2>1, <2>2, <2>3 DEF FrameAwaited
<1>9. CASE WaitForSending
  <2>1. /\ encoder.at = "idle" /\ q > 0 /\ encodeQueue' = q - 1 /\ encoder'.at = "waited"
        /\ UNCHANGED <<device, sendQueue>>
    BY <1>9 DEF WaitForSending, NoBlock, microphone
  <2>2. e = 0 /\ EncoderLeads' = 3 BY <2>1 DEF EncoderLeads
  <2>3. StepsLeft' = d + 4 * (q - 1) + 3 + s BY <1>4, <2>1, <2>2 DEF StepsLeft
  <2> QED BY <1>3, <2>1, <2>2, <2>3 DEF FrameAwaited
<1>10. CASE NothingToEncode
  <2>1. /\ encoder.at = "waited" /\ WholeFrames < 1 /\ encoder'.at = "idle"
        /\ UNCHANGED <<recordBuffer, device, encodeQueue, sendQueue>>
    BY <1>10 DEF NothingToEncode, NoBlock, microphone
  <2>2. e = 3 /\ EncoderLeads' = 0 BY <2>1 DEF EncoderLeads
  <2>3. StepsLeft' = d + 4 * q + 0 + s BY <1>4, <2>1, <2>2 DEF StepsLeft
  <2>4. FrameAwaited'
    <3>1. recordBuffer.count \in Nat BY CaptureTypes DEF CInv
    <3>2. WholeFrames \in Nat /\ recordBuffer.count < FrameSamples * WholeFrames + FrameSamples
      BY <3>1, SizesAssumption, QuotientIs DEF WholeFrames
    <3>3. WholeFrames = 0 BY <2>1, <3>2
    <3>4. FrameSamples * 0 = 0 /\ FrameSamples \in Nat BY SizesAssumption
    <3>5. recordBuffer.count < FrameSamples BY <3>2, <3>3, <3>4
    <3> QED BY <2>1, <3>1, <3>4, <3>5 DEF FrameAwaited
  <2> QED BY <1>3, <2>2, <2>3, <2>4
<1>11. CASE Encode
  <2> DEFINE n == FrameSamples * WholeFrames
  <2>1. /\ encoder.at = "waited" /\ encoder'.at = "encoded"
        /\ recordBuffer' = Pop(recordBuffer, n)
        /\ UNCHANGED <<device, encodeQueue, sendQueue>>
    BY <1>11 DEF Encode, microphone
  <2>2. e = 3 /\ EncoderLeads' = 2 BY <2>1 DEF EncoderLeads
  <2>3. StepsLeft' = d + 4 * q + 2 + s BY <1>4, <2>1, <2>2 DEF StepsLeft
  <2>4. FrameAwaited'
    <3>1. recordBuffer.count \in Nat /\ recordBuffer \in Buffers(0 .. captured)
      BY CaptureTypes DEF CInv
    <3>2. n \in Nat /\ n <= recordBuffer.count /\ recordBuffer.count < n + FrameSamples
      BY <3>1, SizesAssumption, QuotientIs DEF WholeFrames
    <3> HIDE DEF n
    <3>3. recordBuffer'.count = recordBuffer.count - n
      <4>1. recordBuffer'.count = IF n >= recordBuffer.count THEN 0 ELSE recordBuffer.count - n
        BY <2>1, <3>1, <3>2, PopIs
      <4> QED BY <3>1, <3>2, <4>1
    <3>4. recordBuffer'.count < FrameSamples /\ recordBuffer'.count \in Nat
      BY <3>1, <3>2, <3>3, SizesAssumption
    <3> QED BY <3>4, SizesAssumption DEF FrameAwaited
  <2> QED BY <1>3, <2>2, <2>3, <2>4
<1>12. CASE DispatchSend
  <2>1. /\ encoder.at = "encoded" /\ encoder'.at = "idle"
        /\ sendQueue' = Append(sendQueue, encoder.samples)
        /\ UNCHANGED <<recordBuffer, device, encodeQueue>>
    BY <1>12 DEF DispatchSend, NoBlock, microphone
  <2>2. e = 2 /\ EncoderLeads' = 0 BY <2>1 DEF EncoderLeads
  <2>3. Len(sendQueue') = s + 1
    <3>1. /\ sendQueue \in Seq(1 .. FrameSamples * MaxFramesPerPacket)
          /\ encoder.samples \in 1 .. FrameSamples * MaxFramesPerPacket
          /\ FrameSamples * MaxFramesPerPacket \in Nat
      BY <2>1, CaptureTypes DEF CInv, Threads, TypeOK
    <3> QED BY <2>1, <3>1, AppendProperties
  <2>4. StepsLeft' = d + 4 * q + 0 + (s + 1) BY <1>4, <2>1, <2>2, <2>3 DEF StepsLeft
  <2> QED BY <1>3, <2>1, <2>2, <2>4 DEF FrameAwaited
<1>13. CASE Send
  <2>1. /\ sendQueue # << >> /\ sendQueue' = Tail(sendQueue)
        /\ UNCHANGED <<recordBuffer, device, encodeQueue, encoder>>
    BY <1>13 DEF Send, microphone
  <2>2. s \in Nat \ {0} /\ Len(sendQueue') = s - 1
    <3>1. sendQueue \in Seq(1 .. FrameSamples * MaxFramesPerPacket) BY DEF CInv, TypeOK
    <3> QED BY <2>1, <3>1, HeadTailProperties, EmptySeq
  <2>3. StepsLeft' = d + 4 * q + e + (s - 1) BY <1>4, <1>5, <2>1, <2>2 DEF StepsLeft
  <2> QED BY <1>3, <2>1, <2>2, <2>3 DEF FrameAwaited
<1> QED BY <1>6, <1>7, <1>8, <1>9, <1>10, <1>11, <1>12, <1>13
        DEF Next, DeviceNext, EncoderNext

\* Every step of the threads but a new callback of the audio unit brings them
\* nearer to rest, and at rest the lock is free and everything recorded is sent
\* but the beginning of a frame: no block is missing for a frame, and none waits
\* for another for ever.
THEOREM ComesToRest ==
    ASpec => /\ [](StepsLeft = 0 =>
                     /\ recordBuffer.count < FrameSamples
                     /\ sendQueue = << >> /\ recordLock = "none")
             /\ [][\/ StepsLeft' < StepsLeft
                   \/ \E length \in CaptureSizes : GetRecordBuffer(length)]_vars
<1> DEFINE AtRest == /\ recordBuffer.count < FrameSamples
                     /\ sendQueue = << >> /\ recordLock = "none"
           Nearer == \/ StepsLeft' < StepsLeft
                     \/ \E length \in CaptureSizes : GetRecordBuffer(length)
<1>1. AInit => FrameAwaited
  <2>1. AInit => recordBuffer.count = 0 BY DEF AInit, Init
  <2> QED BY <2>1, SizesAssumption DEF FrameAwaited
<1>2. CInv /\ FrameAwaited /\ [ANext]_avars => FrameAwaited' /\ [Nearer]_vars
  <2>1. UNCHANGED vars /\ FrameAwaited => FrameAwaited'
    BY DEF vars, microphone, FrameAwaited
  <2>2. [ANext]_avars => Next \/ UNCHANGED vars BY DEF ANext, avars
  <2> QED BY <2>1, <2>2, StepsAreTaken
<1>3. CInv /\ FrameAwaited => (StepsLeft = 0 => AtRest) BY NothingLeft
<1> QED BY <1>1, <1>2, <1>3, CInvInit, CInvNext, PTL DEF ASpec

-----------------------------------------------------------------------------
(* The frames of the camera.                                                *)

\* What VideoCapture and LatencyProbe assume of their constants.
VideoSizes ==
    /\ MaxPackets \in Nat \ {0} /\ MaxFrames \in Nat
    /\ MaxTime \in Nat /\ MaxPings \in Nat

LEMMA SizesKnown == VideoSizes
BY VideoSizesAssumption, ProbeAssumption DEF VideoSizes

Frames(n) == [frame : 1 .. n, packets : 1 .. MaxPackets]
Packets(n) == [frame : 1 .. n, data : 0 .. n]

\* The blocks that have ended, the one on the queue and the frame that is to
\* be dispatched are distinct frames the camera has handed over.
TypeInv ==
    /\ VideoSizes /\ VideoTypeOK
    /\ packetsSent + Len(frameQueue) + (IF encoded = NoFrame THEN 0 ELSE 1) <= frames
    /\ encoded # NoFrame => encoded.frame = outputBuffer
    /\ \A i \in 1 .. Len(frameQueue) : frameQueue[i].frame <= outputBuffer

\* Frames are numbered from 1, so that no frame is NoFrame.
LEMMA FrameIsSome ==
    ASSUME NEW n \in Nat, NEW f \in Frames(n)
    PROVE  f # NoFrame /\ f.frame \in 1 .. n /\ f.packets \in 1 .. MaxPackets
BY DEF Frames, NoFrame

\* A call of SendPacketEx is for the frame on the queue, and what it sends, if
\* anything, is in the buffer.
LEMMA CallIsFor ==
    ASSUME NEW p \in {Packet, NotSent}, frames \in Nat, outputBuffer \in 0 .. frames,
           Head(frameQueue) = frameQueue[1], frameQueue[1].frame \in 1 .. frames
    PROVE  /\ p \in Packets(frames) /\ p.frame = frameQueue[1].frame
           /\ p.data \in {outputBuffer, 0} /\ p.data \in 0 .. outputBuffer
<1> DEFINE f == frameQueue[1].frame
<1>1. PICK d \in {outputBuffer, 0} : p = [frame |-> f, data |-> d]
  <2>1. Packet = [frame |-> f, data |-> outputBuffer] BY DEF Packet
  <2>2. NotSent = [frame |-> f, data |-> 0] BY DEF NotSent
  <2> HIDE DEF f
  <2>3. p = Packet \/ p = NotSent OBVIOUS
  <2> QED BY <2>1, <2>2, <2>3, Zenon
<1>2. f \in 1 .. frames OBVIOUS
<1> HIDE DEF f
<1>3. d \in 0 .. frames /\ d \in 0 .. outputBuffer OBVIOUS
<1>4. p.frame = f /\ p.data = d BY <1>1
<1>5. p \in [frame : 1 .. frames, data : 0 .. frames] BY <1>1, <1>2, <1>3
<1> QED BY <1>3, <1>4, <1>5 DEF Packets, f

\* The last call for a frame is made, or its first call that fails.
LEMMA LastCall ==
    ASSUME SendLastPacket \/ SendFails
    PROVE  /\ frameQueue # << >> /\ frameQueue' = Tail(frameQueue)
           /\ packetsSent' = packetsSent + 1
           /\ frames' = frames /\ encoded' = encoded /\ outputBuffer' = outputBuffer
           /\ \E p \in {Packet, NotSent} : wire' = Append(wire, p)
<1>1. CASE SendLastPacket
  <2>1. wire' = Append(wire, Packet) BY <1>1 DEF SendLastPacket
  <2>2. \E p \in {Packet, NotSent} : wire' = Append(wire, p) BY <2>1
  <2> QED BY <1>1, <2>2 DEF SendLastPacket
<1>2. CASE SendFails
  <2>1. wire' = Append(wire, NotSent) BY <1>2 DEF SendFails
  <2>2. \E p \in {Packet, NotSent} : wire' = Append(wire, p) BY <2>1
  <2> QED BY <1>2, <2>2 DEF SendFails
<1> QED BY <1>1, <1>2

LEMMA InitType == VideoSizes /\ VideoInit => TypeInv
<1> SUFFICES ASSUME VideoSizes, VideoInit PROVE TypeInv OBVIOUS
<1>1. frameQueue \in Seq(Frames(0)) /\ wire \in Seq(Packets(0)) /\ Len(frameQueue) = 0
  BY EmptySeq DEF VideoInit
<1> QED BY <1>1 DEF VideoSizes, VideoInit, TypeInv, VideoTypeOK, Frames, Packets

LEMMA NextType == TypeInv /\ [VideoNext]_(videovars) => TypeInv'
<1> SUFFICES ASSUME TypeInv, [VideoNext]_(videovars) PROVE TypeInv' OBVIOUS
<1>s. VideoSizes BY DEF TypeInv
<1> USE <1>s DEF VideoSizes
<1>0. /\ frames \in Nat /\ packetsSent \in Nat /\ Len(frameQueue) \in Nat
      /\ frameQueue \in Seq(Frames(frames)) /\ wire \in Seq(Packets(frames))
      /\ encoded \in Frames(frames) \cup {NoFrame}
      /\ outputBuffer \in 0 .. frames
  BY DEF TypeInv, VideoTypeOK, Frames, Packets
<1>1. ASSUME frames' = frames + 1
      PROVE  frameQueue \in Seq(Frames(frames')) /\ wire \in Seq(Packets(frames'))
  <2>1. Frames(frames) \subseteq Frames(frames') BY <1>0, <1>1 DEF Frames
  <2>2. Packets(frames) \subseteq Packets(frames') BY <1>0, <1>1 DEF Packets
  <2> QED BY <1>0, <2>1, <2>2, SeqMonotonic
<1>2. ASSUME NEW n \in 1 .. MaxPackets, EncodeFrame(n) PROVE TypeInv'
  <2>1. frameQueue' \in Seq(Frames(frames')) /\ wire' \in Seq(Packets(frames'))
    BY <1>1, <1>2 DEF EncodeFrame
  <2>2. encoded' \in Frames(frames') BY <1>0, <1>2 DEF EncodeFrame, Frames
  <2>3. encoded' # NoFrame BY <2>2, <1>0, <1>2, FrameIsSome DEF EncodeFrame
  <2>4. \A i \in 1 .. Len(frameQueue) : frameQueue[i].frame <= frames'
    BY <1>0, <1>2, ElementOfSeq, FrameIsSome DEF EncodeFrame
  <2> QED BY <1>0, <1>2, <2>1, <2>2, <2>3, <2>4
          DEF EncodeFrame, TypeInv, VideoTypeOK, Frames, Packets
<1>3. CASE EncodeFails
  <2>1. frameQueue' \in Seq(Frames(frames')) /\ wire' \in Seq(Packets(frames'))
    BY <1>1, <1>3 DEF EncodeFails
  <2> QED BY <1>0, <1>3, <2>1 DEF EncodeFails, TypeInv, VideoTypeOK, Frames, Packets
<1>4. CASE DispatchFrame
  <2>1. encoded \in Frames(frames) BY <1>0, <1>4 DEF DispatchFrame
  <2>2. /\ frameQueue' \in Seq(Frames(frames)) /\ Len(frameQueue') = 1
        /\ frameQueue'[1] = encoded
    BY <1>0, <1>4, <2>1, AppendProperties, EmptySeq DEF DispatchFrame
  <2>3. Len(frameQueue) = 0 BY <1>4, EmptySeq DEF DispatchFrame
  <2> QED BY <1>0, <1>4, <2>1, <2>2, <2>3
          DEF DispatchFrame, TypeInv, VideoTypeOK, Frames, Packets
<1>5. ASSUME frameQueue # << >>
      PROVE  /\ Len(frameQueue) \in Nat \ {0} /\ Head(frameQueue) = frameQueue[1]
             /\ frameQueue[1] \in Frames(frames)
             /\ Append(wire, Packet) \in Seq(Packets(frames))
             /\ Append(wire, NotSent) \in Seq(Packets(frames))
  <2>1. Len(frameQueue) \in Nat \ {0} BY <1>0, <1>5, EmptySeq
  <2>2. Head(frameQueue) = frameQueue[1] BY <1>0, <1>5
  <2>3. frameQueue[1] \in Frames(frames) BY <1>0, <2>1, ElementOfSeq
  <2>4. frameQueue[1].frame <= outputBuffer BY <2>1 DEF TypeInv
  <2>5. frameQueue[1].frame \in 1 .. frames BY <1>0, <2>3, FrameIsSome
  <2>6. Packet \in Packets(frames) /\ NotSent \in Packets(frames)
    BY <1>0, <2>2, <2>5, CallIsFor
  <2> QED BY <1>0, <2>1, <2>2, <2>3, <2>6, AppendProperties
<1>6. CASE SendPacket
  <2>1. frameQueue # << >> BY <1>6 DEF SendPacket
  <2> DEFINE rest == [frameQueue[1] EXCEPT !.packets = @ - 1]
  <2>2. frameQueue[1].packets \in 2 .. MaxPackets
    BY <1>0, <1>5, <1>6, <2>1, FrameIsSome DEF SendPacket
  <2>3. rest \in Frames(frames) /\ rest.frame = frameQueue[1].frame
    BY <1>5, <2>1, <2>2 DEF Frames
  <2>4. frameQueue' = [frameQueue EXCEPT ![1] = rest] BY <1>6 DEF SendPacket
  <2> HIDE DEF rest
  <2>5. /\ frameQueue' \in Seq(Frames(frames)) /\ Len(frameQueue') = Len(frameQueue)
        /\ \A j \in 1 .. Len(frameQueue) :
              frameQueue'[j] = IF j = 1 THEN rest ELSE frameQueue[j]
    BY <1>0, <1>5, <2>1, <2>3, <2>4, ExceptSeq
  <2>6. \A i \in 1 .. Len(frameQueue') : frameQueue'[i].frame <= outputBuffer
    BY <2>3, <2>5 DEF TypeInv
  <2> QED BY <1>0, <1>5, <1>6, <2>1, <2>5, <2>6
          DEF SendPacket, TypeInv, VideoTypeOK, Frames, Packets
<1>7. CASE SendLastPacket \/ SendFails
  <2>1. frameQueue # << >> BY <1>7 DEF SendLastPacket, SendFails
  <2>2. /\ frameQueue' \in Seq(Frames(frames)) /\ Len(frameQueue') = Len(frameQueue) - 1
        /\ \A i \in 1 .. Len(frameQueue') : frameQueue'[i] = frameQueue[i + 1]
    BY <1>0, <1>7, <2>1, HeadTailProperties DEF SendLastPacket, SendFails
  <2>3. \A i \in 1 .. Len(frameQueue') : frameQueue'[i].frame <= outputBuffer
    BY <1>0, <2>2 DEF TypeInv
  <2>4. /\ wire' \in Seq(Packets(frames)) /\ packetsSent' = packetsSent + 1
        /\ UNCHANGED <<frames, encoded, outputBuffer>>
    BY <1>5, <1>7, <2>1, LastCall
  <2> QED BY <1>0, <1>5, <2>1, <2>2, <2>3, <2>4 DEF TypeInv, VideoTypeOK, Frames, Packets
<1>8. CASE UNCHANGED videovars
  BY <1>8 DEF videovars, TypeInv, VideoTypeOK
<1> QED BY <1>2, <1>3, <1>4, <1>6, <1>7, <1>8 DEF VideoNext, SendFrame

-----------------------------------------------------------------------------
\* No frame that can still be sent lies between the frame and the data of a
\* packet that was.
CloseInv ==
    /\ Len(frameQueue) \in {0, 1}
    /\ \A i \in 1 .. Len(wire) :
          /\ wire[i].frame <= outputBuffer /\ wire[i].data <= outputBuffer
          /\ frameQueue # << >> =>
                /\ wire[i].frame <= frameQueue[1].frame
                /\ frameQueue[1].frame \notin wire[i].frame + 1 .. wire[i].data - 1
          /\ \A j \in 1 .. Len(wire) :
                wire[j].frame \notin wire[i].frame + 1 .. wire[i].data - 1

LEMMA InitClose == VideoInit => CloseInv
BY EmptySeq DEF VideoInit, CloseInv

\* What a packet carries is the frame encoded last, and its own frame is the
\* newest one sent.
LEMMA PacketClose ==
    ASSUME TypeInv, CloseInv, frameQueue # << >>,
           NEW p \in {Packet, NotSent}, wire' = Append(wire, p),
           outputBuffer' = outputBuffer,
           frameQueue' # << >> => frameQueue'[1].frame = frameQueue[1].frame,
           Len(frameQueue') \in {0, 1}
    PROVE  CloseInv'
<1> DEFINE f == frameQueue[1].frame
<1>1. /\ wire \in Seq(Packets(frames)) /\ Len(wire) \in Nat /\ outputBuffer \in 0 .. frames
      /\ frameQueue \in Seq(Frames(frames)) /\ frames \in Nat
  BY DEF VideoSizes, TypeInv, VideoTypeOK, Frames, Packets
<1>2. Len(frameQueue) = 1
  <2>1. Len(frameQueue) \in Nat \ {0} BY <1>1, EmptySeq
  <2>2. Len(frameQueue) \in {0, 1} BY DEF CloseInv
  <2> QED BY <1>1, <2>1, <2>2
<1>3. f \in 1 .. frames /\ f <= outputBuffer
  BY <1>1, <1>2, ElementOfSeq, FrameIsSome DEF TypeInv
<1>4. p \in Packets(frames) /\ p.frame = f /\ p.data \in 0 .. outputBuffer
  <2>1. Head(frameQueue) = frameQueue[1] BY <1>1, <1>2
  <2>2. p.data \in 0 .. outputBuffer /\ p \in Packets(frames) /\ p.frame = f
    BY <1>1, <1>3, <2>1, CallIsFor
  <2> QED BY <2>2
<1>5. /\ Len(wire') = Len(wire) + 1 /\ wire'[Len(wire) + 1] = p
      /\ \A i \in 1 .. Len(wire) : wire'[i] = wire[i]
  BY <1>1, <1>4, AppendProperties
<1>6. \A i \in 1 .. Len(wire) : wire[i].frame \in 1 .. frames /\ wire[i].data \in 0 .. frames
  <2> SUFFICES ASSUME NEW i \in 1 .. Len(wire)
               PROVE  wire[i].frame \in 1 .. frames /\ wire[i].data \in 0 .. frames
    OBVIOUS
  <2>1. wire[i] \in Packets(frames) BY <1>1, ElementOfSeq
  <2> QED BY <2>1 DEF Packets
<1> HIDE DEF f
<1>7. ASSUME NEW i \in 1 .. Len(wire) + 1
      PROVE  /\ wire'[i].frame <= f /\ wire'[i].data <= outputBuffer
             /\ f \notin wire'[i].frame + 1 .. wire'[i].data - 1
  <2>1. CASE i = Len(wire) + 1 BY <1>1, <1>3, <1>4, <1>5, <2>1
  <2>2. CASE i \in 1 .. Len(wire)
    BY <1>5, <1>6, <2>2 DEF CloseInv, f
  <2> QED BY <1>1, <2>1, <2>2
<1>8. ASSUME NEW i \in 1 .. Len(wire) + 1, NEW j \in 1 .. Len(wire) + 1
      PROVE  wire'[j].frame \notin wire'[i].frame + 1 .. wire'[i].data - 1
  <2>1. CASE j = Len(wire) + 1 BY <1>4, <1>5, <1>7, <2>1
  <2>2. CASE j \in 1 .. Len(wire) /\ i \in 1 .. Len(wire) BY <1>5, <2>2 DEF CloseInv
  <2>3. CASE j \in 1 .. Len(wire) /\ i = Len(wire) + 1
    <3>1. wire'[j].frame <= f /\ wire'[i].frame = f BY <1>4, <1>5, <1>7, <2>3
    <3> QED BY <1>3, <1>5, <1>6, <2>3, <3>1
  <2> QED BY <1>1, <2>1, <2>2, <2>3
<1>9. \A i \in 1 .. Len(wire) + 1 : wire'[i].frame <= outputBuffer
  <2> SUFFICES ASSUME NEW i \in 1 .. Len(wire) + 1 PROVE wire'[i].frame <= outputBuffer
    OBVIOUS
  <2>1. wire'[i].frame \in 1 .. frames BY <1>1, <1>3, <1>4, <1>5, <1>6
  <2>2. wire'[i].frame <= f BY <1>7
  <2> QED BY <1>1, <1>3, <2>1, <2>2
<1> QED BY <1>5, <1>7, <1>8, <1>9 DEF CloseInv, f

LEMMA NextClose == TypeInv /\ CloseInv /\ [VideoNext]_(videovars) => CloseInv'
<1> SUFFICES ASSUME TypeInv, CloseInv, [VideoNext]_(videovars) PROVE CloseInv' OBVIOUS
<1>0. /\ wire \in Seq(Packets(frames)) /\ Len(wire) \in Nat
      /\ outputBuffer \in 0 .. frames /\ frames \in Nat
      /\ frameQueue \in Seq(Frames(frames)) /\ Len(frameQueue) \in {0, 1}
      /\ \A i \in 1 .. Len(wire) : wire[i].frame \in Nat /\ wire[i].data \in Nat
  <2>1. wire \in Seq(Packets(frames)) /\ frameQueue \in Seq(Frames(frames))
    BY DEF TypeInv, VideoTypeOK, Frames, Packets
  <2>2. ASSUME NEW i \in 1 .. Len(wire) PROVE wire[i].frame \in Nat /\ wire[i].data \in Nat
    <3>1. wire[i] \in Packets(frames) BY <2>1, ElementOfSeq
    <3> QED BY <3>1 DEF VideoSizes, Packets, TypeInv, VideoTypeOK
  <2> QED BY <2>1, <2>2 DEF VideoSizes, TypeInv, VideoTypeOK, CloseInv
<1>1. ASSUME NEW n \in 1 .. MaxPackets, EncodeFrame(n) PROVE CloseInv'
  <2>1. outputBuffer <= outputBuffer' /\ outputBuffer' \in Nat
    BY <1>0, <1>1 DEF EncodeFrame
  <2>2. \A i \in 1 .. Len(wire) :
           wire[i].frame <= outputBuffer' /\ wire[i].data <= outputBuffer'
    BY <1>0, <2>1 DEF CloseInv
  <2> QED BY <1>1, <2>2 DEF EncodeFrame, CloseInv
<1>2. CASE EncodeFails BY <1>2 DEF EncodeFails, CloseInv
<1>3. CASE DispatchFrame
  <2>1. encoded \in Frames(frames) /\ encoded.frame = outputBuffer
    BY <1>3 DEF DispatchFrame, TypeInv, VideoTypeOK, Frames
  <2>2. Len(frameQueue') = 1 /\ frameQueue'[1] = encoded
    BY <1>0, <1>3, <2>1, AppendProperties, EmptySeq DEF DispatchFrame
  <2>3. ASSUME NEW i \in 1 .. Len(wire)
        PROVE  /\ wire[i].frame <= outputBuffer
               /\ outputBuffer \notin wire[i].frame + 1 .. wire[i].data - 1
    BY <1>0 DEF CloseInv
  <2> QED BY <1>3, <2>1, <2>2, <2>3 DEF DispatchFrame, CloseInv
<1>4. CASE SendPacket
  <2>1. frameQueue # << >> /\ Len(frameQueue) = 1 BY <1>0, <1>4, EmptySeq DEF SendPacket
  <2>2. frameQueue[1] \in Frames(frames) BY <1>0, <2>1, ElementOfSeq
  <2>3. Len(frameQueue') = 1 /\ frameQueue'[1].frame = frameQueue[1].frame
    BY <1>0, <1>4, <2>1, <2>2 DEF SendPacket, Frames
  <2> QED BY <1>4, <2>1, <2>3, PacketClose DEF SendPacket
<1>5. CASE SendLastPacket \/ SendFails
  <2>1. frameQueue # << >> /\ Len(frameQueue) = 1
    BY <1>0, <1>5, EmptySeq DEF SendLastPacket, SendFails
  <2>2. Len(frameQueue') = 0 /\ frameQueue' = << >>
    BY <1>0, <1>5, <2>1, HeadTailProperties, EmptySeq DEF SendLastPacket, SendFails
  <2>3. PICK p \in {Packet, NotSent} : wire' = Append(wire, p) /\ outputBuffer' = outputBuffer
    BY <1>5, LastCall
  <2> QED BY <2>1, <2>2, <2>3, PacketClose
<1>6. CASE UNCHANGED videovars BY <1>6 DEF videovars, CloseInv
<1> QED BY <1>1, <1>2, <1>3, <1>4, <1>5, <1>6 DEF VideoNext, SendFrame

LEMMA CloseStaysClose == TypeInv /\ CloseInv => StaysClose
<1> SUFFICES ASSUME TypeInv, CloseInv PROVE StaysClose OBVIOUS
<1>1. Len(frameQueue) <= 1
  <2>1. Len(frameQueue) \in {0, 1} BY DEF CloseInv
  <2>2. \A n \in {0, 1} : n <= 1 OBVIOUS
  <2> QED BY <2>1, <2>2
<1>2. ASSUME NEW i \in 1 .. Len(wire), NEW j \in 1 .. Len(wire),
             NEW between \in wire[i].frame + 1 .. wire[i].data - 1
      PROVE  wire[j].frame # between
  BY DEF CloseInv
<1> QED BY <1>1, <1>2 DEF StaysClose

-----------------------------------------------------------------------------
\* The variables keep their types; every block that has ended, is under way or
\* waits to be dispatched has a frame of its own.
THEOREM FrameTypes == VideoSpec => []VideoTypeOK
<1>1. TypeInv => VideoTypeOK BY DEF TypeInv
<1> QED BY <1>1, SizesKnown, InitType, NextType, PTL DEF VideoSpec

\* However many frames the camera takes and however many packets they need, at
\* most one block is on the send queue, and a packet whose data the encoder has
\* overwritten holds the frame that is sent next: no frame between the two is
\* ever sent.
THEOREM Close == VideoSpec => []StaysClose
BY SizesKnown, CloseStaysClose, InitType, NextType, InitClose, NextClose, PTL DEF VideoSpec

-----------------------------------------------------------------------------
\* The frame is on its way to the network, of which the queue holds one at most.
InHand(f) == encoded.frame = f \/ (frameQueue # << >> /\ frameQueue[1].frame = f)

\* The steps until the queues are empty.
ToSend ==
    (IF encoded = NoFrame THEN 0 ELSE encoded.packets + 1)
        + (IF frameQueue = << >> THEN 0 ELSE frameQueue[1].packets)

LastSent == wire[Len(wire)].frame

LEMMA LeavesSent ==
    ASSUME TypeInv, CloseInv, VideoNext
    PROVE  /\ \A f \in 1 .. MaxFrames : InHand(f) /\ ~InHand(f)' => LastSent' = f
           /\ ToSend' < ToSend \/ frames' > frames
<1> DEFINE Goal == /\ \A f \in 1 .. MaxFrames : InHand(f) /\ ~InHand(f)' => LastSent' = f
                   /\ ToSend' < ToSend \/ frames' > frames
<1>1. /\ frames \in Nat /\ frameQueue \in Seq(Frames(frames)) /\ Len(frameQueue) \in {0, 1}
      /\ encoded \in Frames(frames) \cup {NoFrame} /\ wire \in Seq(Packets(frames))
      /\ outputBuffer \in 0 .. frames
  BY DEF TypeInv, VideoSizes, VideoTypeOK, Frames, Packets, CloseInv
<1>2. NoFrame.frame = 0 BY DEF NoFrame
<1>3. encoded # NoFrame => encoded.packets \in Nat BY <1>1, FrameIsSome DEF TypeInv, VideoSizes
<1>4. frameQueue # << >> =>
        /\ Len(frameQueue) = 1 /\ Head(frameQueue) = frameQueue[1]
        /\ frameQueue[1] \in Frames(frames) /\ frameQueue[1].packets \in 1 .. MaxPackets
        /\ frameQueue[1].frame \in 1 .. frames /\ frameQueue[1].frame <= outputBuffer
  <2> SUFFICES ASSUME frameQueue # << >>
               PROVE  /\ Len(frameQueue) = 1 /\ Head(frameQueue) = frameQueue[1]
                      /\ frameQueue[1] \in Frames(frames)
                      /\ frameQueue[1].packets \in 1 .. MaxPackets
                      /\ frameQueue[1].frame \in 1 .. frames
                      /\ frameQueue[1].frame <= outputBuffer
    OBVIOUS
  <2>1. Len(frameQueue) = 1 BY <1>1, EmptySeq
  <2>2. frameQueue[1] \in Frames(frames) BY <1>1, <2>1, ElementOfSeq
  <2>3. frameQueue[1].frame <= outputBuffer BY <2>1 DEF TypeInv
  <2>4. Head(frameQueue) = frameQueue[1] BY <1>1
  <2> QED BY <1>1, <2>1, <2>2, <2>3, <2>4, FrameIsSome
<1>5. MaxPackets \in Nat \ {0} BY DEF TypeInv, VideoSizes
<1>6. ASSUME (\E n \in 1 .. MaxPackets : EncodeFrame(n)) \/ EncodeFails PROVE Goal
  <2>1. /\ encoded = NoFrame /\ frames' = frames + 1 /\ frameQueue' = frameQueue
    BY <1>6 DEF EncodeFrame, EncodeFails
  <2> QED BY <1>1, <1>2, <2>1 DEF InHand
<1>7. CASE DispatchFrame
  <2>1. /\ encoded # NoFrame /\ frameQueue = << >>
        /\ encoded' = NoFrame /\ frameQueue' = Append(frameQueue, encoded)
    BY <1>7 DEF DispatchFrame
  <2>2. encoded \in Frames(frames) BY <1>1, <2>1
  <2>3. frameQueue' # << >> /\ frameQueue'[1] = encoded
    BY <1>1, <2>1, <2>2, AppendProperties, EmptySeq
  <2>4. \A f \in 1 .. MaxFrames : InHand(f) => InHand(f)' BY <2>1, <2>3 DEF InHand
  <2>5. ToSend = encoded.packets + 1 + 0 /\ ToSend' = 0 + encoded.packets
    BY <2>1, <2>3 DEF ToSend
  <2> QED BY <1>3, <2>1, <2>4, <2>5
<1>8. CASE SendPacket
  <2>1. /\ frameQueue # << >> /\ encoded' = encoded
        /\ frameQueue' = [frameQueue EXCEPT ![1].packets = @ - 1]
    BY <1>8 DEF SendPacket
  <2>2. 1 \in DOMAIN frameQueue BY <1>1, <1>4, <2>1
  <2>3. /\ frameQueue'[1].frame = frameQueue[1].frame
        /\ frameQueue'[1].packets = frameQueue[1].packets - 1
    BY <1>4, <2>1, <2>2 DEF Frames
  <2>4. frameQueue' # << >> BY <2>1, <2>2
  <2>5. \A f \in 1 .. MaxFrames : InHand(f) => InHand(f)' BY <2>1, <2>3, <2>4 DEF InHand
  <2>6. PICK e \in Nat : e = IF encoded = NoFrame THEN 0 ELSE encoded.packets + 1 BY <1>3
  <2>7. ToSend = e + frameQueue[1].packets /\ ToSend' = e + (frameQueue[1].packets - 1)
    BY <2>1, <2>3, <2>4, <2>6 DEF ToSend
  <2>8. ToSend' < ToSend BY <1>4, <1>5, <2>1, <2>7
  <2> QED BY <2>5, <2>8
<1>9. CASE SendLastPacket \/ SendFails
  <2>0. PICK p \in {Packet, NotSent} : wire' = Append(wire, p)
    BY <1>9, LastCall
  <2>1. /\ frameQueue # << >> /\ encoded' = encoded /\ frameQueue' = Tail(frameQueue)
        /\ wire' = Append(wire, p)
    BY <1>9, <2>0, LastCall
  <2>2. frameQueue' = << >> BY <1>1, <1>4, <2>1, HeadTailProperties, EmptySeq
  <2>3. p \in Packets(frames) /\ p.frame = frameQueue[1].frame
    BY <1>1, <1>4, <2>1, CallIsFor
  <2>4. LastSent' = frameQueue[1].frame BY <1>1, <2>1, <2>3, AppendProperties DEF LastSent
  <2>5. \A f \in 1 .. MaxFrames : InHand(f) /\ ~InHand(f)' => LastSent' = f
    BY <2>1, <2>4 DEF InHand
  <2>6. PICK e \in Nat : e = IF encoded = NoFrame THEN 0 ELSE encoded.packets + 1 BY <1>3
  <2>7. ToSend = e + frameQueue[1].packets /\ ToSend' = e + 0
    BY <2>1, <2>2, <2>6 DEF ToSend
  <2>8. ToSend' < ToSend BY <1>4, <1>5, <2>1, <2>7
  <2> QED BY <2>5, <2>8
<1> QED BY <1>6, <1>7, <1>8, <1>9 DEF VideoNext, SendFrame

\* A frame that was encoded does not leave the queues but when a packet of it has
\* been sent or could not be, and every step that does not take a new frame from
\* the camera brings the queues nearer to being empty.
THEOREM FramesLeaveSent ==
    VideoSpec =>
        [][/\ \A f \in 1 .. MaxFrames : InHand(f) /\ ~InHand(f)' => LastSent' = f
           /\ ToSend' < ToSend \/ frames' > frames]_videovars
<1> DEFINE Leaves ==
             /\ \A f \in 1 .. MaxFrames : InHand(f) /\ ~InHand(f)' => LastSent' = f
             /\ ToSend' < ToSend \/ frames' > frames
<1>1. TypeInv /\ CloseInv /\ [VideoNext]_videovars => [Leaves]_videovars BY LeavesSent
<1> HIDE DEF Leaves
<1>2. VideoSpec => [][Leaves]_videovars
  BY <1>1, SizesKnown, InitType, NextType, InitClose, NextClose, PTL DEF VideoSpec
<1> QED BY <1>2 DEF Leaves

-----------------------------------------------------------------------------
(* The latency probe.                                                       *)

Steps == {"none", "compared", "taken"}

\* The pings were begun one after the other, the last of them at pingSendTime,
\* and the pong being handled answers one that was sent.
ProbeInv ==
    /\ VideoSizes /\ ProbeTypeOK
    /\ timed => pingPacketUID < MaxPings
    /\ begun \in Seq(Nat)
    /\ \A i, j \in 1 .. Len(begun) : i <= j => begun[i] <= begun[j]
    /\ \A i \in 1 .. Len(begun) : begun[i] <= now
    /\ begun # << >> => pingSendTime = begun[Len(begun)]
    /\ pong \in [step : Steps, uid : 0 .. pingPacketUID, now : 0 .. now]
    /\ pong.step # "none" => pong.uid # 0
    /\ shown \in [uid : Nat, at : Nat, latency : Int, last : Nat]
    /\ shown # Nothing => shown.uid # 0
    /\ LatencyMeasured

LEMMA InitProbe ==
    VideoSizes /\ part \in {"frames", "probe"} /\ ProbeInit => ProbeInv
<1> SUFFICES ASSUME VideoSizes, part \in {"frames", "probe"}, ProbeInit PROVE ProbeInv
  OBVIOUS
<1>1. begun \in Seq(Nat) /\ Len(begun) = 0 BY EmptySeq DEF ProbeInit
<1>2. ProbeTypeOK
  <2>1. start \in {"no", "created", "callbacks", "running"} BY DEF ProbeInit
  <2>2. now \in 0 .. MaxTime /\ pingSendTime \in 0 .. now /\ pingPacketUID \in 0 .. MaxPings
    BY DEF VideoSizes, ProbeInit
  <2>3. timed \in BOOLEAN /\ Len(begun) = pingPacketUID + (IF timed THEN 1 ELSE 0)
    <3>1. ~timed /\ timed \in BOOLEAN /\ pingPacketUID = 0 BY DEF ProbeInit
    <3> QED BY <1>1, <3>1
  <2>4. network \subseteq [name : {"ping", "pong"}, uid : 1 .. pingPacketUID]
    BY DEF ProbeInit
  <2>5. pong.step \in {"none", "compared", "taken"} /\ pong.now \in 0 .. now
    BY DEF ProbeInit
  <2>6. shown.at \in 0 .. now /\ shown.last \in shown.uid .. Len(begun)
    BY <1>1 DEF ProbeInit, Nothing
  <2> QED BY <2>1, <2>2, <2>3, <2>4, <2>5, <2>6 DEF ProbeTypeOK
<1> QED BY <1>1, <1>2
        DEF ProbeInit, ProbeInv, Steps, LatencyMeasured, Nothing

LEMMA NextProbe ==
    ASSUME ProbeInv, part' = part, ProbeNext \/ UNCHANGED probe
    PROVE  ProbeInv'
<1> DEFINE L == Len(begun)
<1>s. VideoSizes BY DEF ProbeInv
<1> USE <1>s DEF VideoSizes, Steps
<1>0. /\ now \in Nat /\ pingSendTime \in Nat /\ pingPacketUID \in Nat /\ timed \in BOOLEAN
      /\ L = pingPacketUID + (IF timed THEN 1 ELSE 0) /\ L \in Nat
  BY DEF ProbeInv, ProbeTypeOK
<1>a. begun \in Seq(Nat) /\ (begun # << >> => L # 0)
  BY EmptySeq DEF ProbeInv
<1>b. \A i \in 1 .. L : begun[i] \in Nat /\ begun[i] <= now
  BY <1>a, ElementOfSeq DEF ProbeInv
<1>c. \A i, j \in 1 .. L : i <= j => begun[i] <= begun[j]
  BY DEF ProbeInv
<1>d. shown # Nothing => shown.uid \in 1 .. L /\ shown.last \in 0 .. L
  BY <1>0 DEF ProbeInv, ProbeTypeOK
<1>1. ASSUME now' \in 0 .. MaxTime, now <= now', UNCHANGED <<ping, network, pong, shown>>,
             start' \in {"no", "created", "callbacks", "running"}
      PROVE  ProbeInv'
  <2>1. UNCHANGED <<pingSendTime, pingPacketUID, timed, begun>> BY <1>1 DEF ping
  <2>2. ProbeTypeOK' BY <1>0, <1>1, <2>1 DEF ProbeInv, ProbeTypeOK
  <2>3. \A i \in 1 .. L : begun[i] <= now' BY <1>0, <1>1, <1>b
  <2>4. pong \in [step : Steps, uid : 0 .. pingPacketUID, now : 0 .. now']
    BY <1>0, <1>1 DEF ProbeInv
  <2> QED BY <1>1, <2>1, <2>2, <2>3, <2>4 DEF ProbeInv, LatencyMeasured
<1>2. CASE Clock
  <2>1. now' = now + 1 /\ now < MaxTime /\ UNCHANGED <<start, ping, network, pong, shown>>
    BY <1>2 DEF Clock
  <2>2. now' \in 0 .. MaxTime /\ now <= now' BY <1>0, <2>1
  <2> QED BY <1>1, <2>1, <2>2 DEF ProbeInv, ProbeTypeOK
<1>3. CASE CreateInstance \/ SetCallbacks \/ StartCapture
  <2>1. /\ UNCHANGED <<now, ping, network, pong, shown>>
        /\ start' \in {"no", "created", "callbacks", "running"}
    BY <1>3 DEF CreateInstance, SetCallbacks, StartCapture
  <2>2. now' \in 0 .. MaxTime /\ now <= now'
    BY <1>0, <2>1 DEF ProbeInv, ProbeTypeOK
  <2> QED BY <1>1, <2>1, <2>2
<1>4. CASE NotePingTime
  <2>1. UNCHANGED <<start, now, pingPacketUID, network, pong, shown>> /\ pingSendTime' = now
        /\ timed = FALSE /\ timed' = TRUE /\ pingPacketUID < MaxPings
    BY <1>0, <1>4 DEF NotePingTime
  <2>2. /\ begun' \in Seq(Nat) /\ Len(begun') = L + 1 /\ begun'[L + 1] = now
        /\ \A i \in 1 .. L : begun'[i] = begun[i]
    BY <1>0, <1>a, <1>4, AppendProperties DEF NotePingTime
  <2>3. ProbeTypeOK' BY <1>0, <2>1, <2>2 DEF ProbeInv, ProbeTypeOK
  <2>4. \A i \in 1 .. L + 1 : begun'[i] <= now /\ begun'[i] \in Nat
    BY <1>0, <1>b, <2>2
  <2>5. \A i, j \in 1 .. L + 1 : i <= j => begun'[i] <= begun'[j]
    BY <1>0, <1>b, <1>c, <2>2, <2>4
  <2>6. LatencyMeasured'
    BY <1>0, <1>d, <2>1, <2>2 DEF ProbeInv, LatencyMeasured
  <2>7. begun' # << >> => pingSendTime' = begun'[Len(begun')] BY <2>1, <2>2
  <2> QED BY <1>0, <2>1, <2>2, <2>3, <2>4, <2>5, <2>6, <2>7 DEF ProbeInv
<1>5. CASE SendPing
  <2>1. /\ UNCHANGED <<start, now, pingSendTime, begun, pong, shown>>
        /\ timed = TRUE /\ timed' = FALSE /\ pingPacketUID' = pingPacketUID + 1
        /\ network' = network \cup {[name |-> "ping", uid |-> pingPacketUID']}
    BY <1>0, <1>5 DEF SendPing
  <2>3. pingPacketUID' \in 0 .. MaxPings /\ pingPacketUID < MaxPings
    BY <1>0, <2>1 DEF ProbeInv, ProbeTypeOK
  <2>4. network' \subseteq [name : {"ping", "pong"}, uid : 1 .. pingPacketUID']
    <3>1. [name : {"ping", "pong"}, uid : 1 .. pingPacketUID]
             \subseteq [name : {"ping", "pong"}, uid : 1 .. pingPacketUID']
      BY <1>0, <2>1
    <3> QED BY <1>0, <2>1, <3>1 DEF ProbeInv, ProbeTypeOK
  <2>5. Len(begun) = pingPacketUID' + (IF timed' THEN 1 ELSE 0) /\ timed' \in BOOLEAN
    <3>1. L = pingPacketUID + 1 BY <1>0, <2>1
    <3>2. ~timed' /\ timed' \in BOOLEAN BY <2>1
    <3> QED BY <1>0, <2>1, <3>1, <3>2
  <2>6. ProbeTypeOK' BY <1>0, <2>1, <2>3, <2>4, <2>5 DEF ProbeInv, ProbeTypeOK
  <2>7. pong \in [step : Steps, uid : 0 .. pingPacketUID', now : 0 .. now]
    BY <1>0, <2>1 DEF ProbeInv
  <2> QED BY <1>0, <2>1, <2>6, <2>7 DEF ProbeInv, LatencyMeasured
<1>6. ASSUME NEW uid \in 1 .. MaxPings, OnPing(uid) PROVE ProbeInv'
  <2>1. UNCHANGED <<start, now, pingSendTime, pingPacketUID, timed, begun, pong, shown>>
        /\ network' = network \cup {[name |-> "pong", uid |-> uid]}
        /\ [name |-> "ping", uid |-> uid] \in network
    BY <1>6 DEF OnPing, ping
  <2>2. network' \subseteq [name : {"ping", "pong"}, uid : 1 .. pingPacketUID]
    BY <1>0, <2>1 DEF ProbeInv, ProbeTypeOK
  <2>3. ProbeTypeOK' BY <1>0, <2>1, <2>2 DEF ProbeInv, ProbeTypeOK
  <2> QED BY <2>1, <2>3 DEF ProbeInv, LatencyMeasured
<1>7. ASSUME NEW uid \in 1 .. MaxPings, OnPong(uid) PROVE ProbeInv'
  <2>1. UNCHANGED <<start, now, pingSendTime, pingPacketUID, timed, begun, network, shown>>
        /\ [name |-> "pong", uid |-> uid] \in network
        /\ pong' = IF uid = pingPacketUID
                   THEN [step |-> "compared", uid |-> uid, now |-> 0] ELSE pong
    BY <1>7 DEF OnPong, ping
  <2>2. /\ pong' \in [step : Steps, uid : 0 .. pingPacketUID, now : 0 .. now]
        /\ pong'.step # "none" => pong'.uid # 0
    BY <1>0, <2>1 DEF ProbeInv
  <2>3. ProbeTypeOK' BY <1>0, <2>1, <2>2 DEF ProbeInv, ProbeTypeOK
  <2> QED BY <2>1, <2>2, <2>3 DEF ProbeInv, LatencyMeasured
<1>8. CASE TakeTime
  <2>1. UNCHANGED <<start, now, pingSendTime, pingPacketUID, timed, begun, network, shown>>
        /\ pong.step = "compared" /\ pong' = [pong EXCEPT !.step = "taken", !.now = now]
    BY <1>8 DEF TakeTime, ping
  <2>2. /\ pong' \in [step : Steps, uid : 0 .. pingPacketUID, now : 0 .. now]
        /\ pong'.step # "none" => pong'.uid # 0
    <3>1. pong' = [step |-> "taken", uid |-> pong.uid, now |-> now] /\ pong.uid # 0
          /\ pong.uid \in 0 .. pingPacketUID
      BY <2>1 DEF ProbeInv
    <3> QED BY <1>0, <3>1
  <2>3. ProbeTypeOK' BY <1>0, <2>1, <2>2 DEF ProbeInv, ProbeTypeOK
  <2> QED BY <2>1, <2>2, <2>3 DEF ProbeInv, LatencyMeasured
<1>9. CASE ShowLatency
  <2>1. /\ UNCHANGED <<start, now, pingSendTime, pingPacketUID, timed, begun, network>>
        /\ pong.step = "taken" /\ pong' = [step |-> "none", uid |-> 0, now |-> 0]
        /\ shown' = [uid |-> pong.uid, at |-> pong.now, latency |-> pong.now - pingSendTime,
                     last |-> L]
    BY <1>9 DEF ShowLatency, ping
  <2>2. pong.uid \in 1 .. L /\ pong.now \in 0 .. now
    <3>1. pong \in [step : Steps, uid : 0 .. pingPacketUID, now : 0 .. now]
          /\ pong.uid # 0
      BY <2>1 DEF ProbeInv
    <3> QED BY <1>0, <3>1
  <2>3. /\ pong' \in [step : Steps, uid : 0 .. pingPacketUID, now : 0 .. now]
        /\ pong'.step = "none"
    BY <1>0, <2>1
  <2>4. /\ shown' \in [uid : Nat, at : Nat, latency : Int, last : Nat] /\ shown'.uid # 0
        /\ shown'.at \in 0 .. now /\ shown'.last \in shown'.uid .. L
    BY <1>0, <2>1, <2>2
  <2>5. pingSendTime = begun[L] /\ begun[pong.uid] <= begun[L] /\ begun[pong.uid] \in Nat
    <3>1. begun # << >> BY <1>0, <2>2, EmptySeq
    <3> QED BY <1>0, <1>b, <1>c, <2>2, <3>1 DEF ProbeInv
  <2>6. LatencyMeasured'
    BY <1>0, <2>1, <2>2, <2>5 DEF LatencyMeasured
  <2>7. ProbeTypeOK' BY <1>0, <2>1, <2>3, <2>4 DEF ProbeInv, ProbeTypeOK
  <2> QED BY <2>1, <2>3, <2>4, <2>6, <2>7 DEF ProbeInv
<1>10. CASE UNCHANGED probe
  BY <1>10 DEF probe, ping, ProbeInv, ProbeTypeOK, LatencyMeasured
<1> QED BY <1>2, <1>3, <1>4, <1>5, <1>6, <1>7, <1>8, <1>9, <1>10 DEF ProbeNext

\* Whichever of the two takes a step.
LEMMA NextBoth ==
    TypeInv /\ CloseInv /\ ProbeInv /\ [LNext]_(lvars)
        => TypeInv' /\ CloseInv' /\ ProbeInv'
<1> SUFFICES ASSUME TypeInv, CloseInv, ProbeInv, [LNext]_(lvars)
             PROVE  TypeInv' /\ CloseInv' /\ ProbeInv'
  OBVIOUS
<1>1. part' = part /\ [VideoNext]_(videovars) /\ (ProbeNext \/ UNCHANGED probe)
  BY DEF LNext, lvars
<1> QED BY <1>1, NextType, NextClose, NextProbe

\* The latency shown answers the ping it is a pong to: it is what has passed
\* since that ping was begun, or less if another was begun while the pong was
\* handled; for any number of pings, however they are lost, repeated and
\* overtaken.
THEOREM Latency == LSpec => []LatencyInv
<1>1. LInit => TypeInv /\ CloseInv /\ ProbeInv
  BY SizesKnown, InitType, InitClose, InitProbe DEF LInit
<1>2. ProbeInv => LatencyInv BY DEF ProbeInv, LatencyInv
<1> QED BY <1>1, <1>2, NextBoth, PTL DEF LSpec

\* StaysClose of the two side by side.
THEOREM CloseBesideProbe == LSpec => []StaysClose
<1>1. LInit => TypeInv /\ CloseInv /\ ProbeInv
  BY SizesKnown, InitType, InitClose, InitProbe DEF LInit
<1>2. TypeInv /\ CloseInv => StaysClose BY CloseStaysClose
<1> QED BY <1>1, <1>2, NextBoth, PTL DEF LSpec

-----------------------------------------------------------------------------
(* Recording.                                                               *)

\* Unless taps have crossed, the devices take turns; what the one says last, on
\* its way or heard, is the flag of the other whenever that one is not about to
\* answer.  Commands do not matter: each is answered.
LastSaid(messages, flag) == IF messages = << >> THEN flag ELSE messages[Len(messages)].value

AnswersInv ==
    ~crossed =>
        /\ ~(ViewersTurn /\ RecordersTurn)
        /\ ~RecordersTurn /\ main = "idle" => isRecording = LastSaid(toViewer, showing)
        /\ ~ViewersTurn => showing = LastSaid(toRecorder, isRecording)

RecordingInv == RecordingTypeOK /\ AnswersInv

\* What a queue holds.
LEMMA Contents ==
    ASSUME NEW q \in Seq(Messages)
    PROVE  /\ CommandsIn(q) \cup ResponsesIn(q) = 1 .. Len(q)
           /\ CommandsIn(q) = {} /\ ResponsesIn(q) = {} <=> q = << >>
           /\ IsFiniteSet(CommandsIn(q)) /\ Cardinality(CommandsIn(q)) \in Nat
           /\ IsFiniteSet(ResponsesIn(q)) /\ Cardinality(ResponsesIn(q)) \in Nat
           /\ Len(q) \in Nat
<1>1. Len(q) \in Nat /\ (q = << >> <=> Len(q) = 0) BY EmptySeq
<1>2. CommandsIn(q) \cup ResponsesIn(q) = 1 .. Len(q) BY DEF CommandsIn, ResponsesIn
<1>3. IsFiniteSet(1 .. Len(q)) BY <1>1, FS_Interval
<1>4. IsFiniteSet(CommandsIn(q)) /\ IsFiniteSet(ResponsesIn(q)) BY <1>2, <1>3, FS_Subset
<1>5. 1 .. Len(q) = {} <=> Len(q) = 0
  <2>1. \A n \in Nat : 1 .. n = {} <=> n = 0
    <3> SUFFICES ASSUME NEW n \in Nat, n # 0 PROVE 1 .. n # {} OBVIOUS
    <3>1. 1 \in 1 .. n OBVIOUS
    <3> QED BY <3>1
  <2> QED BY <1>1, <2>1
<1>6. Cardinality(CommandsIn(q)) \in Nat /\ Cardinality(ResponsesIn(q)) \in Nat
  BY <1>4, FS_CardinalityType
<1> QED BY <1>1, <1>2, <1>4, <1>5, <1>6

LEMMA One ==
    ASSUME NEW S, IsFiniteSet(S), NEW T, NEW x, T = S \cup {x}, x \notin S
    PROVE  Cardinality(T) = Cardinality(S) + 1 /\ Cardinality(S) = Cardinality(T) - 1
<1>1. Cardinality(T) = Cardinality(S) + 1 BY FS_AddElement
<1>2. Cardinality(S) \in Nat BY FS_CardinalityType
<1> QED BY <1>1, <1>2

\* A packet is sent,
LEMMA Sent ==
    ASSUME NEW q \in Seq(Messages), NEW p \in Messages
    PROVE  /\ Append(q, p) \in Seq(Messages) /\ Append(q, p) # << >>
           /\ Append(q, p)[Len(Append(q, p))] = p
           /\ p.isResponse =>
                  /\ CommandsIn(Append(q, p)) = CommandsIn(q)
                  /\ ResponsesIn(Append(q, p)) # {}
                  /\ Cardinality(ResponsesIn(Append(q, p))) = Cardinality(ResponsesIn(q)) + 1
           /\ ~p.isResponse =>
                  /\ ResponsesIn(Append(q, p)) = ResponsesIn(q)
                  /\ CommandsIn(Append(q, p)) # {}
                  /\ Cardinality(CommandsIn(Append(q, p))) = Cardinality(CommandsIn(q)) + 1
<1> DEFINE n == Len(q)
           a == Append(q, p)
<1>0. IsFiniteSet(CommandsIn(q)) /\ IsFiniteSet(ResponsesIn(q)) BY Contents
<1>1. /\ n \in Nat /\ a \in Seq(Messages) /\ a # << >> /\ Len(a) = n + 1 /\ a[n + 1] = p
      /\ \A i \in 1 .. n : a[i] = q[i]
  BY Contents, AppendProperties
<1>2. 1 .. n + 1 = (1 .. n) \cup {n + 1} /\ n + 1 \notin 1 .. n BY <1>1
<1>3. CASE p.isResponse
  <2>1. ResponsesIn(a) = ResponsesIn(q) \cup {n + 1} /\ n + 1 \notin ResponsesIn(q)
    BY <1>1, <1>2, <1>3 DEF ResponsesIn
  <2>2. CommandsIn(a) = CommandsIn(q) BY <1>1, <1>2, <1>3 DEF CommandsIn
  <2>3. Cardinality(ResponsesIn(a)) = Cardinality(ResponsesIn(q)) + 1
    BY <1>0, <2>1, One, Zenon
  <2> QED BY <1>1, <1>3, <2>1, <2>2, <2>3
<1>4. CASE ~p.isResponse
  <2>1. CommandsIn(a) = CommandsIn(q) \cup {n + 1} /\ n + 1 \notin CommandsIn(q)
    BY <1>1, <1>2, <1>4 DEF CommandsIn
  <2>2. ResponsesIn(a) = ResponsesIn(q) BY <1>1, <1>2, <1>4 DEF ResponsesIn
  <2>3. Cardinality(CommandsIn(a)) = Cardinality(CommandsIn(q)) + 1
    BY <1>0, <2>1, One, Zenon
  <2> QED BY <1>1, <1>4, <2>1, <2>2, <2>3
<1> QED BY <1>3, <1>4

\* as many are behind the first,
LEMMA Behind ==
    ASSUME NEW S, IsFiniteSet(S), S \subseteq Nat, NEW n \in Nat,
           NEW T, T \subseteq 1 .. n, S = {i + 1 : i \in T}
    PROVE  IsFiniteSet(T) /\ Cardinality(S) = Cardinality(T)
<1>1. IsFiniteSet(T)
  <2>1. IsFiniteSet(1 .. n) BY FS_Interval
  <2> QED BY <2>1, FS_Subset
<1> DEFINE f == [i \in T |-> i + 1]
<1>2. ExistsBijection(T, S)
  <2>1. \A i \in T : i \in Nat OBVIOUS
  <2>2. f \in [T -> S] OBVIOUS
  <2>3. \A i, j \in T : f[i] = f[j] => i = j BY <2>1
  <2>4. \A x \in S : \E i \in T : f[i] = x OBVIOUS
  <2>5. f \in Bijection(T, S)
    BY <2>2, <2>3, <2>4 DEF Bijection, Injection, IsInjective, Surjection
  <2> QED BY <2>5 DEF ExistsBijection
<1>3. Cardinality(S) = Cardinality(T) BY <1>1, <1>2, FS_Bijection
<1> QED BY <1>1, <1>3

\* and received.
LEMMA Received ==
    ASSUME NEW q \in Seq(Messages), q # << >>
    PROVE  /\ Head(q) \in Messages /\ Tail(q) \in Seq(Messages)
           /\ Head(q).isResponse \in BOOLEAN /\ Head(q).value \in BOOLEAN
           /\ Tail(q) = << >> => q[Len(q)] = Head(q)
           /\ Tail(q) # << >> => Tail(q)[Len(Tail(q))] = q[Len(q)]
           /\ CommandsIn(q) = {} => CommandsIn(Tail(q)) = {}
           /\ ResponsesIn(q) = {} => ResponsesIn(Tail(q)) = {}
           /\ Head(q).isResponse =>
                  /\ ResponsesIn(q) # {}
                  /\ Cardinality(CommandsIn(Tail(q))) = Cardinality(CommandsIn(q))
                  /\ Cardinality(ResponsesIn(Tail(q))) = Cardinality(ResponsesIn(q)) - 1
           /\ ~Head(q).isResponse =>
                  /\ CommandsIn(q) # {}
                  /\ Cardinality(ResponsesIn(Tail(q))) = Cardinality(ResponsesIn(q))
                  /\ Cardinality(CommandsIn(Tail(q))) = Cardinality(CommandsIn(q)) - 1
<1> DEFINE n == Len(q)
           t == Tail(q)
           Up(T) == {i + 1 : i \in T}
<1>1. /\ n \in Nat \ {0} /\ Head(q) = q[1] /\ Head(q) \in Messages
      /\ t \in Seq(Messages) /\ Len(t) = n - 1 /\ \A i \in 1 .. Len(t) : t[i] = q[i + 1]
  <2>1. n \in Nat \ {0} BY EmptySeq
  <2> QED BY <2>1, HeadTailProperties
<1>2. Head(q).isResponse \in BOOLEAN /\ Head(q).value \in BOOLEAN BY <1>1 DEF Messages
<1>3. n - 1 \in Nat /\ 1 \in 1 .. n /\ \A i \in 1 .. n - 1 : i + 1 \in 2 .. n
  BY <1>1
<1>4. \A i \in 2 .. n : i - 1 \in 1 .. n - 1 /\ i = (i - 1) + 1 BY <1>1
<1>5. /\ CommandsIn(q) \ {1} = Up(CommandsIn(t))
      /\ ResponsesIn(q) \ {1} = Up(ResponsesIn(t))
  <2>1. \A i \in (1 .. n) \ {1} : i \in 2 .. n BY <1>1
  <2>2. \A i \in 1 .. n - 1 : i + 1 \in (1 .. n) \ {1} BY <1>1
  <2>3. \A i \in 1 .. n - 1 : t[i] = q[i + 1] BY <1>1
  <2>4. /\ CommandsIn(t) = {i \in 1 .. n - 1 : ~q[i + 1].isResponse}
        /\ ResponsesIn(t) = {i \in 1 .. n - 1 : q[i + 1].isResponse}
    BY <1>1, <2>3 DEF CommandsIn, ResponsesIn
  <2>5. CommandsIn(q) \ {1} = Up(CommandsIn(t))
    <3>1. ASSUME NEW i \in CommandsIn(q) \ {1} PROVE i \in Up(CommandsIn(t))
      <4>1. i \in 2 .. n /\ ~q[i].isResponse BY <2>1 DEF CommandsIn
      <4>2. i - 1 \in CommandsIn(t) BY <1>4, <2>4, <4>1
      <4> QED BY <1>4, <4>1, <4>2
    <3>2. ASSUME NEW i \in CommandsIn(t) PROVE i + 1 \in CommandsIn(q) \ {1}
      BY <2>2, <2>4 DEF CommandsIn
    <3> QED BY <3>1, <3>2
  <2>6. ResponsesIn(q) \ {1} = Up(ResponsesIn(t))
    <3>1. ASSUME NEW i \in ResponsesIn(q) \ {1} PROVE i \in Up(ResponsesIn(t))
      <4>1. i \in 2 .. n /\ q[i].isResponse BY <2>1 DEF ResponsesIn
      <4>2. i - 1 \in ResponsesIn(t) BY <1>4, <2>4, <4>1
      <4> QED BY <1>4, <4>1, <4>2
    <3>2. ASSUME NEW i \in ResponsesIn(t) PROVE i + 1 \in ResponsesIn(q) \ {1}
      BY <2>2, <2>4 DEF ResponsesIn
    <3> QED BY <3>1, <3>2
  <2> QED BY <2>5, <2>6
<1>6. /\ IsFiniteSet(CommandsIn(q) \ {1}) /\ IsFiniteSet(ResponsesIn(q) \ {1})
      /\ CommandsIn(q) \ {1} \subseteq Nat /\ ResponsesIn(q) \ {1} \subseteq Nat
  <2>1. CommandsIn(q) \ {1} \subseteq 1 .. n /\ ResponsesIn(q) \ {1} \subseteq 1 .. n
    BY DEF CommandsIn, ResponsesIn
  <2>2. IsFiniteSet(1 .. n) BY <1>1, FS_Interval
  <2>3. 1 .. n \subseteq Nat BY <1>1
  <2>4. IsFiniteSet(CommandsIn(q) \ {1}) BY <2>1, <2>2, FS_Subset
  <2>5. IsFiniteSet(ResponsesIn(q) \ {1}) BY <2>1, <2>2, FS_Subset
  <2> QED BY <2>1, <2>3, <2>4, <2>5, Zenon
<1>7. CommandsIn(t) \subseteq 1 .. n - 1 /\ ResponsesIn(t) \subseteq 1 .. n - 1
  BY <1>1 DEF CommandsIn, ResponsesIn
<1>8. /\ Cardinality(CommandsIn(q) \ {1}) = Cardinality(CommandsIn(t))
      /\ Cardinality(ResponsesIn(q) \ {1}) = Cardinality(ResponsesIn(t))
  BY <1>3, <1>5, <1>6, <1>7, Behind
<1>9. ASSUME Head(q).isResponse
      PROVE  /\ ResponsesIn(q) # {}
             /\ Cardinality(CommandsIn(t)) = Cardinality(CommandsIn(q))
             /\ Cardinality(ResponsesIn(t)) = Cardinality(ResponsesIn(q)) - 1
  <2>1. 1 \in ResponsesIn(q) /\ CommandsIn(q) \ {1} = CommandsIn(q)
    BY <1>1, <1>3, <1>9 DEF CommandsIn, ResponsesIn
  <2>2. Cardinality(ResponsesIn(q) \ {1}) = Cardinality(ResponsesIn(q)) - 1
    <3>1. ResponsesIn(q) = (ResponsesIn(q) \ {1}) \cup {1} /\ 1 \notin ResponsesIn(q) \ {1}
      BY <2>1
    <3> QED BY <1>6, <3>1, One, Zenon
  <2>3. ResponsesIn(q) # {} BY <2>1
  <2>4. Cardinality(CommandsIn(t)) = Cardinality(CommandsIn(q)) BY <1>8, <2>1
  <2>5. Cardinality(ResponsesIn(t)) = Cardinality(ResponsesIn(q)) - 1 BY <1>8, <2>2
  <2> QED BY <2>3, <2>4, <2>5
<1>10. ASSUME ~Head(q).isResponse
      PROVE  /\ CommandsIn(q) # {}
             /\ Cardinality(ResponsesIn(t)) = Cardinality(ResponsesIn(q))
             /\ Cardinality(CommandsIn(t)) = Cardinality(CommandsIn(q)) - 1
  <2>1. 1 \in CommandsIn(q) /\ ResponsesIn(q) \ {1} = ResponsesIn(q)
    BY <1>1, <1>3, <1>10 DEF CommandsIn, ResponsesIn
  <2>2. Cardinality(CommandsIn(q) \ {1}) = Cardinality(CommandsIn(q)) - 1
    <3>1. CommandsIn(q) = (CommandsIn(q) \ {1}) \cup {1} /\ 1 \notin CommandsIn(q) \ {1}
      BY <2>1
    <3> QED BY <1>6, <3>1, One, Zenon
  <2>3. CommandsIn(q) # {} BY <2>1
  <2>4. Cardinality(ResponsesIn(t)) = Cardinality(ResponsesIn(q)) BY <1>8, <2>1
  <2>5. Cardinality(CommandsIn(t)) = Cardinality(CommandsIn(q)) - 1 BY <1>8, <2>2
  <2> QED BY <2>3, <2>4, <2>5
<1>11. /\ CommandsIn(q) = {} => CommandsIn(t) = {}
       /\ ResponsesIn(q) = {} => ResponsesIn(t) = {}
  <2>1. ASSUME NEW T, NEW S, S \ {1} = Up(T), S = {} PROVE T = {}
    <3>1. \A i \in T : i + 1 \in Up(T) OBVIOUS
    <3> QED BY <2>1, <3>1
  <2> QED BY <1>5, <2>1
<1>12. ASSUME t = << >> PROVE q[n] = Head(q)
  <2>1. Len(t) = 0 BY <1>12, EmptySeq
  <2>3. \A k \in Nat : k - 1 = 0 => k = 1 OBVIOUS
  <2>2. n = 1 BY <1>1, <2>1, <2>3
  <2> QED BY <1>1, <2>2
<1>13. ASSUME t # << >> PROVE t[Len(t)] = q[n]
  <2>1. Len(t) \in 1 .. Len(t) BY <1>1, <1>13, EmptySeq
  <2>2. t[Len(t)] = q[Len(t) + 1] BY <1>1, <2>1
  <2>3. Len(t) + 1 = n BY <1>1
  <2> QED BY <2>2, <2>3
<1> QED BY <1>1, <1>2, <1>9, <1>10, <1>11, <1>12, <1>13

LEMMA RecordingStarts == RecordingInit => RecordingInv
<1> SUFFICES ASSUME RecordingInit PROVE RecordingInv OBVIOUS
<1>1. << >> \in Seq(Messages) /\ CommandsIn(<< >>) = {} /\ ResponsesIn(<< >>) = {}
  <2>1. << >> \in Seq(Messages) BY EmptySeq
  <2> QED BY <2>1, Contents
<1>2. toRecorder = << >> /\ toViewer = << >> /\ main = "idle" BY DEF RecordingInit
<1>3. Flags BY <1>1, <1>2 DEF RecordingInit, Flags
<1>4. Executing = 0 /\ Stopping = 0 BY DEF RecordingInit, Executing, Stopping
<1>5. Cardinality(CommandsIn(toRecorder)) = 0 BY <1>1, <1>2, FS_EmptySet
<1>6. Counters BY <1>4, <1>5, MaxTapsAssumption DEF RecordingInit, Counters
<1>7. AnswersInv BY <1>1, <1>2 DEF RecordingInit, AnswersInv, ViewersTurn, RecordersTurn, LastSaid
<1> QED BY <1>3, <1>6, <1>7 DEF RecordingInv, RecordingTypeOK

-----------------------------------------------------------------------------
\* What is said is a packet.
LEMMA Said ==
    ASSUME NEW value \in BOOLEAN
    PROVE  /\ Command(value) \in Messages /\ ~Command(value).isResponse
           /\ Response(value) \in Messages /\ Response(value).isResponse
           /\ Command(value).value = value /\ Response(value).value = value
BY DEF Command, Response, Messages

\* The answer makes the last packet agree with isRecording.
LEMMA RespondAgrees ==
    ASSUME Flags, AnswersInv, Respond, main # "idle",
           UNCHANGED <<isRecording, showing, crossed, toRecorder>>
    PROVE  toViewer' \in Seq(Messages) /\ main' = "idle" /\ AnswersInv'
<1>1. toViewer \in Seq(Messages) /\ isRecording \in BOOLEAN BY DEF Flags
<1>2. toViewer' = Append(toViewer, Response(isRecording)) /\ main' = "idle" BY DEF Respond
<1>3. /\ toViewer' \in Seq(Messages) /\ toViewer' # << >>
      /\ toViewer'[Len(toViewer')] = Response(isRecording)
      /\ CommandsIn(toViewer') = CommandsIn(toViewer) /\ ResponsesIn(toViewer') # {}
  BY <1>1, <1>2, Said, Sent
<1>4. ViewersTurn /\ ViewersTurn' /\ RecordersTurn' = RecordersTurn
  BY <1>3 DEF ViewersTurn, RecordersTurn
<1>5. LastSaid(toViewer', showing') = isRecording BY <1>1, <1>3, Said DEF LastSaid
<1> QED BY <1>2, <1>3, <1>4, <1>5 DEF AnswersInv

\* A step that leaves flags and packets alone, and main idle or busy as it was.
LEMMA NothingSaid ==
    ASSUME AnswersInv, UNCHANGED <<crossed, showing, isRecording, toRecorder, toViewer>>,
           main' = "idle" <=> main = "idle"
    PROVE  AnswersInv'
BY DEF AnswersInv, ViewersTurn, RecordersTurn, LastSaid

\* The counters after a step, given as numbers.
LEMMA CountersHold ==
    ASSUME NEW c \in Nat, NEW e \in Nat, NEW s \in Nat, NEW t \in 0 .. MaxTaps,
           Cardinality(CommandsIn(toRecorder)') = c, Executing' = e, Stopping' = s, taps' = t,
           stopBlocks' \in Nat, finishing' \in Nat, handlers' \in Nat, resets' \in Nat,
           c + e + s <= t
    PROVE  Counters'
BY DEF Counters

-----------------------------------------------------------------------------
LEMMA FlagsGoOn == RecordingInv /\ [RecordingNext]_recordingvars => Flags' /\ AnswersInv'
<1> SUFFICES ASSUME RecordingInv, [RecordingNext]_recordingvars
             PROVE  Flags' /\ AnswersInv'
  OBVIOUS
<1> USE DEF viewer, underway, flags, media, blocks, RecordingInv, RecordingTypeOK
<1>0. toRecorder \in Seq(Messages) /\ toViewer \in Seq(Messages)
      /\ showing \in BOOLEAN /\ isRecording \in BOOLEAN /\ crossed \in BOOLEAN
  BY DEF Flags
<1>1. CASE TripleTap
  <2>1. /\ toRecorder' = Append(toRecorder, Command(~showing))
        /\ crossed' = (crossed \/ RecordersTurn)
        /\ UNCHANGED <<showing, toViewer, isRecording, main>>
    BY <1>1 DEF TripleTap
  <2>2. (~showing) \in BOOLEAN OBVIOUS
  <2>3. /\ toRecorder' \in Seq(Messages) /\ CommandsIn(toRecorder') # {}
        /\ ResponsesIn(toRecorder') = ResponsesIn(toRecorder)
    BY <1>0, <2>1, <2>2, Said, Sent
  <2>4. crossed' \in BOOLEAN BY <1>0, <2>1 DEF RecordersTurn
  <2>5. Flags' BY <1>1, <2>3, <2>4 DEF TripleTap, Flags
  <2>6. RecordersTurn' = RecordersTurn /\ ViewersTurn'
    BY <2>1, <2>3 DEF RecordersTurn, ViewersTurn
  <2>7. AnswersInv' BY <2>1, <2>6 DEF AnswersInv, LastSaid
  <2> QED BY <2>5, <2>7
<1>2. CASE RemoteRecordStarted
  <2>1. /\ toViewer # << >> /\ Head(toViewer).isResponse
        /\ showing' = Head(toViewer).value /\ toViewer' = Tail(toViewer)
        /\ UNCHANGED <<crossed, toRecorder, isRecording, main>>
    BY <1>2 DEF RemoteRecordStarted
  <2>2. toViewer' \in Seq(Messages) /\ showing' \in BOOLEAN BY <1>0, <2>1, Received
  <2>3. Flags' BY <1>2, <2>2 DEF RemoteRecordStarted, Flags
  <2>4. ASSUME ~crossed' PROVE AnswersInv'
    <3>1. ViewersTurn /\ ~RecordersTurn
      BY <1>0, <2>1, <2>4, Received DEF AnswersInv, ViewersTurn
    <3>2. ~RecordersTurn' BY <1>0, <2>1, <3>1, Received DEF RecordersTurn
    <3>3. ASSUME main = "idle" PROVE isRecording = LastSaid(toViewer', showing')
      <4>1. isRecording = toViewer[Len(toViewer)].value
        BY <2>1, <2>4, <3>1, <3>3 DEF AnswersInv, LastSaid
      <4>2. CASE toViewer' = << >> BY <1>0, <2>1, <4>1, <4>2, Received DEF LastSaid
      <4>3. CASE toViewer' # << >> BY <1>0, <2>1, <4>1, <4>3, Received DEF LastSaid
      <4> QED BY <4>2, <4>3
    <3>4. ASSUME ~ViewersTurn' PROVE showing' = LastSaid(toRecorder', isRecording')
      <4>1. toViewer' = << >> /\ toRecorder' = << >> /\ main = "idle"
        BY <1>0, <2>1, <2>2, <3>2, <3>4, Contents DEF ViewersTurn, RecordersTurn
      <4> QED BY <2>1, <3>3, <4>1 DEF LastSaid
    <3> QED BY <2>1, <3>2, <3>3, <3>4 DEF AnswersInv
  <2> QED BY <2>3, <2>4 DEF AnswersInv
<1>16. CASE ViewerCommanded
  <2>1. /\ toViewer # << >> /\ ~Head(toViewer).isResponse
        /\ showing' = Head(toViewer).value /\ toViewer' = Tail(toViewer)
        /\ toRecorder' = Append(toRecorder, Response(showing'))
        /\ UNCHANGED <<crossed, isRecording, main>>
    BY <1>16 DEF ViewerCommanded
  <2>2. toViewer' \in Seq(Messages) /\ showing' \in BOOLEAN BY <1>0, <2>1, Received
  <2>3. /\ toRecorder' \in Seq(Messages) /\ toRecorder' # << >>
        /\ toRecorder'[Len(toRecorder')].value = showing'
        /\ CommandsIn(toRecorder') = CommandsIn(toRecorder)
        /\ ResponsesIn(toRecorder') # {}
    BY <1>0, <2>1, <2>2, Said, Sent
  <2>4. Flags' BY <1>16, <2>2, <2>3 DEF ViewerCommanded, Flags
  <2>5. ASSUME ~crossed' PROVE AnswersInv'
    <3>1. RecordersTurn /\ ~ViewersTurn
      BY <1>0, <2>1, <2>5, Received DEF AnswersInv, RecordersTurn
    <3>2. RecordersTurn' BY <2>3 DEF RecordersTurn
    <3>3. ~ViewersTurn' BY <1>0, <2>1, <2>3, <3>1, Received DEF ViewersTurn
    <3>4. showing' = LastSaid(toRecorder', isRecording') BY <2>3 DEF LastSaid
    <3> QED BY <3>2, <3>3, <3>4 DEF AnswersInv
  <2> QED BY <2>4, <2>5 DEF AnswersInv
<1>17. CASE RecorderTaps
  <2>1. /\ toViewer' = Append(toViewer, Command(~isRecording)) /\ main = "idle"
        /\ crossed' = (crossed \/ ViewersTurn)
        /\ UNCHANGED <<showing, toRecorder, isRecording, main>>
    BY <1>17 DEF RecorderTaps
  <2>2. (~isRecording) \in BOOLEAN OBVIOUS
  <2>3. /\ toViewer' \in Seq(Messages) /\ CommandsIn(toViewer') # {}
        /\ ResponsesIn(toViewer') = ResponsesIn(toViewer)
    BY <1>0, <2>1, <2>2, Said, Sent
  <2>4. crossed' \in BOOLEAN BY <1>0, <2>1 DEF ViewersTurn
  <2>5. Flags' BY <1>17, <2>3, <2>4 DEF RecorderTaps, Flags
  <2>6. ViewersTurn' = ViewersTurn /\ RecordersTurn'
    BY <2>1, <2>3 DEF RecordersTurn, ViewersTurn
  <2>7. AnswersInv' BY <2>1, <2>6 DEF AnswersInv, LastSaid
  <2> QED BY <2>5, <2>7
<1>18. CASE ViewerRecordStarted
  <2>1. /\ toRecorder # << >> /\ Head(toRecorder).isResponse /\ main = "idle"
        /\ isRecording' = Head(toRecorder).value /\ toRecorder' = Tail(toRecorder)
        /\ UNCHANGED <<crossed, toViewer, showing, main>>
    BY <1>18 DEF ViewerRecordStarted
  <2>2. toRecorder' \in Seq(Messages) /\ isRecording' \in BOOLEAN BY <1>0, <2>1, Received
  <2>3. Flags' BY <1>18, <2>2 DEF ViewerRecordStarted, Flags
  <2>4. ASSUME ~crossed' PROVE AnswersInv'
    <3>1. RecordersTurn /\ ~ViewersTurn
      BY <1>0, <2>1, <2>4, Received DEF AnswersInv, RecordersTurn
    <3>2. ~ViewersTurn' BY <1>0, <2>1, <3>1, Received DEF ViewersTurn
    <3>3. showing = LastSaid(toRecorder', isRecording')
      <4>1. showing = toRecorder[Len(toRecorder)].value
        BY <2>1, <2>4, <3>1 DEF AnswersInv, LastSaid
      <4>2. CASE toRecorder' = << >> BY <1>0, <2>1, <4>1, <4>2, Received DEF LastSaid
      <4>3. CASE toRecorder' # << >> BY <1>0, <2>1, <4>1, <4>3, Received DEF LastSaid
      <4> QED BY <4>2, <4>3
    <3>4. ASSUME ~RecordersTurn' PROVE isRecording' = LastSaid(toViewer', showing')
      <4>1. toViewer' = << >> /\ toRecorder' = << >>
        BY <1>0, <2>1, <2>2, <3>2, <3>4, Contents DEF ViewersTurn, RecordersTurn
      <4> QED BY <2>1, <3>3, <4>1 DEF LastSaid
    <3> QED BY <2>1, <3>2, <3>3, <3>4 DEF AnswersInv
  <2> QED BY <2>3, <2>4 DEF AnswersInv
<1>3. CASE CommandReceived
  <2>1. /\ toRecorder # << >> /\ ~Head(toRecorder).isResponse
        /\ isRecording' = Head(toRecorder).value /\ ordered' = Head(toRecorder).value
        /\ toRecorder' = Tail(toRecorder)
        /\ UNCHANGED <<crossed, toViewer, showing>>
        /\ main' \in {"setup", "stop"}
    BY <1>3 DEF CommandReceived
  <2>2. toRecorder' \in Seq(Messages) /\ isRecording' \in BOOLEAN /\ ordered' \in BOOLEAN
    BY <1>0, <2>1, Received
  <2>3. Flags' BY <1>3, <2>1, <2>2 DEF CommandReceived, Flags
  <2>4. ASSUME ~crossed' PROVE AnswersInv'
    <3>1. ViewersTurn /\ ~RecordersTurn
      BY <1>0, <2>1, <2>4, Received DEF AnswersInv, ViewersTurn
    <3>2. ~RecordersTurn' BY <1>0, <2>1, <3>1, Received DEF RecordersTurn
    <3>3. ViewersTurn' /\ main' # "idle" BY <2>1 DEF ViewersTurn
    <3> QED BY <3>2, <3>3 DEF AnswersInv
  <2> QED BY <2>3, <2>4 DEF AnswersInv
<1>19. CASE SetupAllowed BY <1>19, NothingSaid DEF SetupAllowed, Flags
<1>4. CASE SetupRefused BY <1>4, NothingSaid DEF SetupRefused, Flags
<1>5. ASSUME NEW inputs \in {"both", "video", "audio", "none"}, SetupWriter(inputs)
      PROVE  Flags' /\ AnswersInv'
  BY <1>5, NothingSaid DEF SetupWriter, Flags
<1>6. CASE SetupLoaded BY <1>6, NothingSaid DEF SetupLoaded, Flags
<1>7. CASE StartRecord
  <2>1. toViewer' \in Seq(Messages) /\ main' = "idle" /\ AnswersInv'
    BY <1>7, RespondAgrees DEF StartRecord
  <2> QED BY <1>7, <2>1 DEF StartRecord, Flags
<1>8. CASE StopRecord
  <2>1. toViewer' \in Seq(Messages) /\ main' = "idle" /\ AnswersInv'
    BY <1>8, RespondAgrees DEF StopRecord
  <2> QED BY <1>8, <2>1 DEF StopRecord, Flags
<1>9. CASE StopBlockBegins BY <1>9, NothingSaid DEF StopBlockBegins, Flags
<1>10. CASE FinishWriting
  <2>1. /\ showing' = showing /\ toRecorder' = toRecorder /\ toViewer' = toViewer
        /\ crossed' = crossed /\ ordered' = ordered
        /\ isRecording' = isRecording /\ main' = main
        /\ state' = state /\ refused' = refused /\ audio' = audio
        /\ mAudioInput' = mAudioInput /\ mAudioFormatDescription' = mAudioFormatDescription
    BY <1>10 DEF FinishWriting
  <2>2. writer' \in {"nil", "ready", "writing", "finishing"}
    BY <1>10 DEF FinishWriting, Flags
  <2>3. aborted' \in BOOLEAN BY <1>10 DEF FinishWriting, Flags
  <2>4. Flags' BY <2>1, <2>2, <2>3 DEF Flags
  <2>5. AnswersInv' BY <2>1, NothingSaid
  <2> QED BY <2>4, <2>5
<1>11. CASE CompletionHandler BY <1>11, NothingSaid DEF CompletionHandler, Flags
<1>12. CASE ResetRest BY <1>12, NothingSaid DEF ResetRest, Flags
<1>13. CASE AudioBufferReceived BY <1>13, NothingSaid DEF AudioBufferReceived, Flags
<1>14. CASE AudioBufferAppended
  <2>1. AnswersInv' BY <1>14, NothingSaid DEF AudioBufferAppended
  <2>2. audio' \in BOOLEAN /\ aborted' \in BOOLEAN
    BY <1>14, Zenon DEF AudioBufferAppended, Flags
  <2>3. Flags' BY <1>14, <2>2 DEF AudioBufferAppended, Flags
  <2> QED BY <2>1, <2>3
<1>15. CASE UNCHANGED recordingvars BY <1>15, NothingSaid DEF recordingvars, Flags
<1> QED
  BY <1>1, <1>2, <1>3, <1>4, <1>5, <1>6, <1>7, <1>8, <1>9, <1>10, <1>11, <1>12,
     <1>13, <1>14, <1>15, <1>16, <1>17, <1>18, <1>19
  DEF RecordingNext, ViewerNext, MainNext, StopNext

LEMMA CountersGoOn == RecordingInv /\ [RecordingNext]_recordingvars => Counters'
<1> SUFFICES ASSUME Flags, Counters, [RecordingNext]_recordingvars PROVE Counters'
  BY DEF RecordingInv, RecordingTypeOK
<1> USE DEF viewer, underway, flags, media, blocks
<1> DEFINE Commands == Cardinality(CommandsIn(toRecorder))
<1>0. /\ Commands \in Nat /\ toRecorder \in Seq(Messages) /\ taps \in 0 .. MaxTaps
      /\ stopBlocks \in Nat /\ finishing \in Nat /\ handlers \in Nat /\ resets \in Nat
      /\ Executing \in Nat /\ Stopping \in Nat
      /\ Commands + Executing + Stopping <= taps
      /\ toViewer \in Seq(Messages) /\ showing \in BOOLEAN
  <2>1. Executing \in Nat BY DEF Executing
  <2>2. Stopping \in Nat BY DEF Counters, Stopping
  <2> QED BY <2>1, <2>2, Contents DEF Flags, Counters
<1> PICK c \in Nat, e \in Nat, s \in Nat, t \in 0 .. MaxTaps :
       /\ Commands = c /\ Executing = e /\ Stopping = s /\ taps = t
       /\ c + e + s <= t
  BY <1>0
<1>1. CASE TripleTap
  <2>1. (~showing) \in BOOLEAN OBVIOUS
  <2>2. Commands' = c + 1 BY <1>0, <1>1, <2>1, Said, Sent DEF TripleTap
  <2>3. Executing' = e /\ Stopping' = s BY <1>1 DEF TripleTap, Executing, Stopping
  <2>4. taps' = t + 1 /\ t + 1 \in 0 .. MaxTaps
    BY <1>0, <1>1, MaxTapsAssumption DEF TripleTap
  <2>5. c + 1 + e + s <= t + 1 /\ c + 1 \in Nat BY MaxTapsAssumption
  <2> QED BY <1>0, <1>1, <2>2, <2>3, <2>4, <2>5, CountersHold DEF TripleTap
<1>10. CASE RecorderTaps
  <2>1. Commands' = c /\ Executing' = e /\ Stopping' = s
    BY <1>10 DEF RecorderTaps, Executing, Stopping
  <2>2. taps' = t + 1 /\ t + 1 \in 0 .. MaxTaps
    BY <1>0, <1>10, MaxTapsAssumption DEF RecorderTaps
  <2>3. c + e + s <= t + 1 BY MaxTapsAssumption
  <2> QED BY <1>0, <1>10, <2>1, <2>2, <2>3, CountersHold DEF RecorderTaps
<1>11. CASE ViewerCommanded
  <2>1. /\ toViewer # << >> /\ showing' = Head(toViewer).value
        /\ toRecorder' = Append(toRecorder, Response(showing'))
    BY <1>11 DEF ViewerCommanded
  <2>2. showing' \in BOOLEAN BY <1>0, <2>1, Received
  <2>3. Commands' = c BY <1>0, <2>1, <2>2, Said, Sent
  <2>4. Executing' = e /\ Stopping' = s BY <1>11 DEF ViewerCommanded, Executing, Stopping
  <2> QED BY <1>0, <1>11, <2>3, <2>4, CountersHold DEF ViewerCommanded
<1>12. CASE ViewerRecordStarted
  <2>1. Commands' = c BY <1>0, <1>12, Received DEF ViewerRecordStarted
  <2>2. Executing' = e /\ Stopping' = s
    BY <1>12 DEF ViewerRecordStarted, Executing, Stopping
  <2> QED BY <1>0, <1>12, <2>1, <2>2, CountersHold DEF ViewerRecordStarted
<1>2. CASE CommandReceived
  <2>1. c \in Nat \ {0} /\ Commands' = c - 1
    <3>1. /\ toRecorder # << >> /\ ~Head(toRecorder).isResponse
          /\ toRecorder' = Tail(toRecorder)
      BY <1>2 DEF CommandReceived
    <3>2. Commands' = c - 1 BY <1>0, <3>1, Received
    <3>3. CommandsIn(toRecorder) # {} BY <1>0, <3>1, Received
    <3>4. c # 0 BY <1>0, <3>3, Contents, FS_EmptySet
    <3> QED BY <3>2, <3>4
  <2>2. e = 0 /\ Executing' = 1 BY <1>2 DEF CommandReceived, Executing
  <2>3. Stopping' = s BY <1>2 DEF CommandReceived, Stopping
  <2>4. (c - 1) + 1 + s <= t /\ c - 1 \in Nat BY <2>1, <2>2, MaxTapsAssumption
  <2> QED BY <1>0, <1>2, <2>1, <2>2, <2>3, <2>4, CountersHold DEF CommandReceived
<1>3. CASE StopRecord
  <2>1. e = 1 /\ Executing' = 0 BY <1>3 DEF StopRecord, Respond, Executing
  <2>2. stopBlocks' \in Nat /\ (Stopping' = s \/ Stopping' = s + 1)
    BY <1>0, <1>3 DEF StopRecord, Stopping
  <2>3. c + 0 + s <= t /\ c + 0 + (s + 1) <= t /\ s + 1 \in Nat
    BY <2>1, MaxTapsAssumption
  <2>4. CASE Stopping' = s BY <1>0, <1>3, <2>1, <2>2, <2>3, <2>4, CountersHold DEF StopRecord
  <2>5. CASE Stopping' = s + 1
    BY <1>0, <1>3, <2>1, <2>2, <2>3, <2>5, CountersHold DEF StopRecord
  <2> QED BY <2>2, <2>4, <2>5
<1>4. CASE StartRecord
  <2>1. e = 1 /\ Executing' = 0 BY <1>4 DEF StartRecord, Respond, Executing
  <2>2. Stopping' = s BY <1>4 DEF StartRecord, Stopping
  <2>3. c + 0 + s <= t BY <2>1, MaxTapsAssumption
  <2> QED BY <1>0, <1>4, <2>1, <2>2, <2>3, CountersHold DEF StartRecord
<1>5. CASE StopNext \/ CompletionHandler \/ ResetRest
  <2>1. Executing' = e /\ UNCHANGED <<taps, toRecorder>>
    BY <1>5 DEF StopNext, StopBlockBegins, FinishWriting, CompletionHandler, ResetRest,
                Executing
  <2>2. /\ stopBlocks' \in Nat /\ finishing' \in Nat /\ handlers' \in Nat /\ resets' \in Nat
        /\ Stopping' = s \/ (s - 1 \in Nat /\ Stopping' = s - 1)
    <3>1. CASE StopBlockBegins BY <1>0, <3>1 DEF StopBlockBegins, Stopping
    <3>2. CASE FinishWriting
      <4>1. /\ finishing - 1 \in Nat /\ finishing' = finishing - 1
            /\ handlers' = handlers + 1 \/ handlers' = handlers
            /\ UNCHANGED <<stopBlocks, resets>>
        BY <1>0, <3>2 DEF FinishWriting
      <4>2. CASE handlers' = handlers + 1 BY <1>0, <4>1, <4>2 DEF Stopping
      <4>3. CASE handlers' = handlers BY <1>0, <4>1, <4>3 DEF Stopping
      <4> QED BY <4>1, <4>2, <4>3
    <3>3. CASE CompletionHandler BY <1>0, <3>3 DEF CompletionHandler, Stopping
    <3>4. CASE ResetRest BY <1>0, <3>4 DEF ResetRest, Stopping
    <3> QED BY <1>5, <3>1, <3>2, <3>3, <3>4 DEF StopNext
  <2>3. c + e + (s - 1) <= t BY MaxTapsAssumption
  <2> QED BY <1>0, <2>1, <2>2, <2>3, CountersHold
<1>6. CASE /\ UNCHANGED <<taps, toRecorder, stopBlocks, finishing, handlers, resets>>
           /\ (main = "idle" <=> main' = "idle")
  <2>1. Executing' = Executing /\ Stopping' = Stopping BY <1>6 DEF Executing, Stopping
  <2> QED BY <1>6, <2>1 DEF Counters
<1>7. ASSUME NEW inputs \in {"both", "video", "audio", "none"}, SetupWriter(inputs)
      PROVE  Counters'
  BY <1>6, <1>7 DEF SetupWriter
<1>8. CASE RemoteRecordStarted \/ SetupRefused \/ SetupAllowed \/ SetupLoaded
  BY <1>6, <1>8 DEF RemoteRecordStarted, SetupRefused, SetupAllowed, SetupLoaded
<1>9. CASE AudioBufferReceived \/ AudioBufferAppended \/ UNCHANGED recordingvars
  BY <1>6, <1>9 DEF AudioBufferReceived, AudioBufferAppended, recordingvars
<1> QED
  BY <1>1, <1>2, <1>3, <1>4, <1>5, <1>7, <1>8, <1>9, <1>10, <1>11, <1>12
  DEF RecordingNext, ViewerNext, MainNext, StopNext

LEMMA RecordingGoesOn == RecordingInv /\ [RecordingNext]_recordingvars => RecordingInv'
BY FlagsGoOn, CountersGoOn DEF RecordingInv, RecordingTypeOK

-----------------------------------------------------------------------------
\* The variables keep their types, and there are never more stop blocks,
\* handlers and resets under way than there were taps.
THEOREM RecordingTypes == RecordingSpec => []RecordingTypeOK
<1>1. RecordingInv => RecordingTypeOK BY DEF RecordingInv
<1> QED BY <1>1, RecordingStarts, RecordingGoesOn, PTL DEF RecordingSpec

\* Whenever every packet has arrived, both devices say the same of the
\* recording, whatever MediaOutput does, unless taps of both users have crossed.
THEOREM BothAgree == RecordingSpec => []DevicesAgree
<1>1. ASSUME RecordingInv, toRecorder = << >>, toViewer = << >>, main = "idle", ~crossed
      PROVE  showing = isRecording
  <2>1. ~RecordersTurn
    BY <1>1, Contents DEF RecordingInv, RecordingTypeOK, Flags, RecordersTurn
  <2> QED BY <1>1, <2>1 DEF RecordingInv, AnswersInv, LastSaid
<1>2. RecordingInv => DevicesAgree BY <1>1 DEF DevicesAgree
<1> QED BY <1>2, RecordingStarts, RecordingGoesOn, PTL DEF RecordingSpec

-----------------------------------------------------------------------------
\* The steps that what is under way can still lead to: a command to start is
\* set up, loaded, started and answered, one to stop answered, dispatched,
\* finished, handled and reset; one to the viewer is answered.
ExecutionLeads ==
    CASE main = "idle" -> 0 [] main = "setup" -> 5 [] main = "replace" -> 4
      [] main = "loaded" -> 3 [] main = "start" -> 2 [] main = "stop" -> 6

StopLeads == 4 * stopBlocks + 3 * finishing + 2 * handlers + resets

AudioLeads == IF audio THEN 1 ELSE 0

RecorderLeads == 7 * Cardinality(CommandsIn(toRecorder)) + Cardinality(ResponsesIn(toRecorder))
ViewerLeads == 2 * Cardinality(CommandsIn(toViewer)) + Cardinality(ResponsesIn(toViewer))

Work == RecorderLeads + ViewerLeads + ExecutionLeads + StopLeads + AudioLeads

\* The least that a step may take from the work.
LEMMA WorkFalls ==
    ASSUME NEW c \in Nat, NEW e \in Nat, NEW r \in Nat, NEW s \in Nat, NEW a \in Nat,
           NEW c1 \in Nat, NEW e1 \in Nat, NEW r1 \in Nat, NEW s1 \in Nat, NEW a1 \in Nat,
           RecorderLeads = c, ExecutionLeads = e, ViewerLeads = r, StopLeads = s,
           AudioLeads = a,
           RecorderLeads' = c1, ExecutionLeads' = e1, ViewerLeads' = r1, StopLeads' = s1,
           AudioLeads' = a1,
           c1 + e1 + r1 + s1 + a1 < c + e + r + s + a
    PROVE  Work' < Work
BY DEF Work

LEMMA WorkIsDone ==
    RecordingInv /\ RecordingNext
        => Work' < Work \/ TripleTap \/ RecorderTaps \/ AudioBufferReceived
<1> SUFFICES ASSUME RecordingInv, RecordingNext, ~TripleTap, ~RecorderTaps,
                    ~AudioBufferReceived
             PROVE  Work' < Work
  OBVIOUS
<1> USE DEF viewer, underway, flags, media, blocks
<1>1. /\ toRecorder \in Seq(Messages) /\ toViewer \in Seq(Messages)
      /\ isRecording \in BOOLEAN /\ showing \in BOOLEAN
      /\ main \in {"idle", "setup", "replace", "loaded", "start", "stop"}
  BY DEF RecordingInv, RecordingTypeOK, Flags
<1>2. stopBlocks \in Nat /\ finishing \in Nat /\ handlers \in Nat /\ resets \in Nat
  BY DEF RecordingInv, RecordingTypeOK, Counters
<1>3. ExecutionLeads \in Nat BY <1>1 DEF ExecutionLeads
<1>4. StopLeads \in Nat BY <1>2 DEF StopLeads
<1>5. AudioLeads \in Nat BY DEF AudioLeads
<1>b. /\ Cardinality(CommandsIn(toRecorder)) \in Nat
      /\ Cardinality(ResponsesIn(toRecorder)) \in Nat
      /\ Cardinality(CommandsIn(toViewer)) \in Nat
      /\ Cardinality(ResponsesIn(toViewer)) \in Nat
  BY <1>1, Contents
<1>6. RecorderLeads \in Nat /\ ViewerLeads \in Nat BY <1>b DEF RecorderLeads, ViewerLeads
<1> PICK c \in Nat, e \in Nat, r \in Nat, s \in Nat, a \in Nat :
       /\ RecorderLeads = c /\ ExecutionLeads = e /\ ViewerLeads = r /\ StopLeads = s
       /\ AudioLeads = a
  BY <1>3, <1>4, <1>5, <1>6
\* What a step leaves alone leads to as much as before.
<1>7. UNCHANGED <<stopBlocks, finishing, handlers, resets>> => StopLeads' = s BY DEF StopLeads
<1>8. main' = main => ExecutionLeads' = e BY DEF ExecutionLeads
<1>9. audio' = audio => AudioLeads' = a BY DEF AudioLeads
<1>c. toRecorder' = toRecorder => RecorderLeads' = c BY DEF RecorderLeads
<1>d. toViewer' = toViewer => ViewerLeads' = r BY DEF ViewerLeads
\* A packet that is received is a step less, a command more than that.
<1>e. ASSUME toViewer # << >>, toViewer' = Tail(toViewer)
      PROVE  \E n \in Nat : /\ ViewerLeads' = n /\ n < r
                            /\ ~Head(toViewer).isResponse => n + 1 < r
  <2>1. toViewer' \in Seq(Messages) BY <1>1, <1>e, Received
  <2>2. /\ Cardinality(CommandsIn(toViewer')) \in Nat
        /\ Cardinality(ResponsesIn(toViewer')) \in Nat
    BY <2>1, Contents
  <2>3. CASE Head(toViewer).isResponse
    BY <1>1, <1>b, <1>e, <2>2, <2>3, Received DEF ViewerLeads
  <2>4. CASE ~Head(toViewer).isResponse
    BY <1>1, <1>b, <1>e, <2>2, <2>4, Received DEF ViewerLeads
  <2> QED BY <2>3, <2>4
<1>f. ASSUME toRecorder # << >>, toRecorder' = Tail(toRecorder)
      PROVE  \E n \in Nat : /\ RecorderLeads' = n /\ n < c
                            /\ ~Head(toRecorder).isResponse => n + 7 = c
  <2>1. toRecorder' \in Seq(Messages) BY <1>1, <1>f, Received
  <2>2. /\ Cardinality(CommandsIn(toRecorder')) \in Nat
        /\ Cardinality(ResponsesIn(toRecorder')) \in Nat
    BY <2>1, Contents
  <2>3. CASE Head(toRecorder).isResponse
    BY <1>1, <1>b, <1>f, <2>2, <2>3, Received DEF RecorderLeads
  <2>4. CASE ~Head(toRecorder).isResponse
    <3>1. /\ Cardinality(CommandsIn(toRecorder')) = Cardinality(CommandsIn(toRecorder)) - 1
          /\ Cardinality(ResponsesIn(toRecorder')) = Cardinality(ResponsesIn(toRecorder))
      BY <1>1, <1>f, <2>4, Received
    <3>2. RecorderLeads' \in Nat BY <2>2 DEF RecorderLeads
    <3>3. RecorderLeads' + 7 = RecorderLeads BY <1>b, <2>2, <3>1 DEF RecorderLeads
    <3>4. PICK n \in Nat : RecorderLeads' = n BY <3>2
    <3>5. n + 7 = c BY <3>3, <3>4
    <3>6. n < c BY <3>5
    <3> QED BY <2>4, <3>4, <3>5, <3>6
  <2> QED BY <2>3, <2>4
<1>10. CASE RemoteRecordStarted
  <2>1. /\ toViewer # << >> /\ toViewer' = Tail(toViewer)
        /\ UNCHANGED <<toRecorder, main, stopBlocks, finishing, handlers, resets, audio>>
    BY <1>10 DEF RemoteRecordStarted
  <2> PICK n \in Nat : ViewerLeads' = n /\ n < r BY <2>1, <1>e
  <2>2. c + e + n + s + a < c + e + r + s + a OBVIOUS
  <2> QED BY <1>c, <1>7, <1>8, <1>9, <2>1, <2>2, WorkFalls
<1>16. CASE ViewerCommanded
  <2>1. /\ toViewer # << >> /\ toViewer' = Tail(toViewer) /\ ~Head(toViewer).isResponse
        /\ showing' = Head(toViewer).value
        /\ toRecorder' = Append(toRecorder, Response(showing'))
        /\ UNCHANGED <<main, stopBlocks, finishing, handlers, resets, audio>>
    BY <1>16 DEF ViewerCommanded
  <2> PICK n \in Nat : ViewerLeads' = n /\ n + 1 < r BY <2>1, <1>e
  <2>2. showing' \in BOOLEAN BY <1>1, <2>1, Received
  <2>3. /\ CommandsIn(toRecorder') = CommandsIn(toRecorder)
        /\ Cardinality(ResponsesIn(toRecorder')) = Cardinality(ResponsesIn(toRecorder)) + 1
    BY <1>1, <2>1, <2>2, Said, Sent
  <2>4. RecorderLeads' = c + 1 BY <1>b, <2>3 DEF RecorderLeads
  <2>5. c + 1 \in Nat /\ (c + 1) + e + n + s + a < c + e + r + s + a OBVIOUS
  <2> QED BY <1>7, <1>8, <1>9, <2>1, <2>4, <2>5, WorkFalls
<1>17. CASE ViewerRecordStarted
  <2>1. /\ toRecorder # << >> /\ toRecorder' = Tail(toRecorder)
        /\ UNCHANGED <<toViewer, main, stopBlocks, finishing, handlers, resets, audio>>
    BY <1>17 DEF ViewerRecordStarted
  <2> PICK n \in Nat : RecorderLeads' = n /\ n < c BY <2>1, <1>f
  <2>2. n + e + r + s + a < c + e + r + s + a OBVIOUS
  <2> QED BY <1>d, <1>7, <1>8, <1>9, <2>1, <2>2, WorkFalls
<1>11. CASE CommandReceived
  <2>1. /\ toRecorder # << >> /\ toRecorder' = Tail(toRecorder)
        /\ ~Head(toRecorder).isResponse
        /\ main = "idle"
        /\ UNCHANGED <<toViewer, stopBlocks, finishing, handlers, resets, audio>>
    BY <1>11, Zenon DEF CommandReceived
  <2>0. main' \in {"setup", "stop"} BY <1>11, Zenon DEF CommandReceived
  <2> PICK m \in Nat : RecorderLeads' = m /\ m + 7 = c BY <2>1, <1>f
  <2>3. e = 0 BY <2>1 DEF ExecutionLeads
  <2>4. PICK n \in {5, 6} : ExecutionLeads' = n BY <2>0 DEF ExecutionLeads
  <2>5. m + n + r + s + a < c + e + r + s + a BY <2>3, <2>4
  <2>6. n \in Nat BY <2>4
  <2> QED BY <1>d, <1>7, <1>9, <2>1, <2>4, <2>5, <2>6, WorkFalls
<1>12. CASE SetupRefused \/ SetupAllowed \/ SetupLoaded
            \/ \E inputs \in {"both", "video", "audio", "none"} : SetupWriter(inputs)
  <2>1. /\ \/ main = "setup" /\ main' \in {"start", "replace"}
           \/ main = "replace" /\ main' = "loaded"
           \/ main = "loaded" /\ main' = "start"
        /\ UNCHANGED <<toRecorder, toViewer, stopBlocks, finishing, handlers, resets, audio>>
    BY <1>12 DEF SetupRefused, SetupAllowed, SetupLoaded, SetupWriter
  <2>2. PICK n \in {2, 3, 4} : ExecutionLeads' = n BY <2>1 DEF ExecutionLeads
  <2>3. n < e BY <2>1, <2>2 DEF ExecutionLeads
  <2>4. n \in Nat /\ c + n + r + s + a < c + e + r + s + a BY <2>2, <2>3
  <2> QED BY <1>7, <1>9, <1>c, <1>d, <2>1, <2>2, <2>4, WorkFalls
<1>13. CASE StartRecord \/ StopRecord
  <2>1. /\ toViewer' = Append(toViewer, Response(isRecording)) /\ main' = "idle"
        /\ UNCHANGED <<toRecorder, finishing, handlers, resets, audio>>
    BY <1>13 DEF StartRecord, StopRecord, Respond
  <2>2. ViewerLeads' = r + 1
    <3>1. /\ CommandsIn(toViewer') = CommandsIn(toViewer)
          /\ Cardinality(ResponsesIn(toViewer')) = Cardinality(ResponsesIn(toViewer)) + 1
      BY <1>1, <2>1, Said, Sent
    <3> QED BY <1>b, <3>1 DEF ViewerLeads
  <2>3. ExecutionLeads' = 0 BY <2>1 DEF ExecutionLeads
  <2>4. CASE StartRecord
    <3>1. main = "start" /\ stopBlocks' = stopBlocks BY <2>4 DEF StartRecord
    <3>2. e = 2 BY <3>1 DEF ExecutionLeads
    <3>3. r + 1 \in Nat /\ c + 0 + (r + 1) + s + a < c + e + r + s + a BY <3>2
    <3> QED BY <1>7, <1>9, <1>c, <2>1, <2>2, <2>3, <3>1, <3>3, WorkFalls
  <2>5. CASE StopRecord
    <3>1. main = "stop" /\ stopBlocks' \in {stopBlocks, stopBlocks + 1}
      BY <2>5 DEF StopRecord
    <3>2. e = 6 BY <3>1 DEF ExecutionLeads
    <3>3. StopLeads' \in {StopLeads, StopLeads + 4}
      <4>1. CASE stopBlocks' = stopBlocks BY <2>1, <4>1 DEF StopLeads
      <4>2. CASE stopBlocks' = stopBlocks + 1 BY <1>2, <2>1, <4>2 DEF StopLeads
      <4> QED BY <3>1, <4>1, <4>2
    <3> PICK n \in {s, s + 4} : StopLeads' = n BY <3>3
    <3>4. n \in Nat /\ r + 1 \in Nat /\ c + 0 + (r + 1) + n + a < c + e + r + s + a BY <3>2
    <3> QED BY <1>9, <1>c, <2>1, <2>2, <2>3, <3>4, WorkFalls
  <2> QED BY <1>13, <2>4, <2>5
<1>14. CASE StopNext \/ CompletionHandler \/ ResetRest
  <2>1. UNCHANGED <<toRecorder, toViewer, main, audio>>
    BY <1>14 DEF StopNext, StopBlockBegins, FinishWriting, CompletionHandler, ResetRest
  <2>2. StopLeads' \in Nat /\ StopLeads' < StopLeads
    <3>1. CASE StopBlockBegins BY <1>2, <3>1 DEF StopBlockBegins, StopLeads
    <3>2. CASE FinishWriting
      <4>1. /\ finishing - 1 \in Nat /\ finishing' = finishing - 1
            /\ handlers' \in {handlers, handlers + 1}
            /\ UNCHANGED <<stopBlocks, resets>>
        BY <1>2, <3>2 DEF FinishWriting
      <4>2. CASE handlers' = handlers + 1 BY <1>2, <4>1, <4>2 DEF StopLeads
      <4>3. CASE handlers' = handlers BY <1>2, <4>1, <4>3 DEF StopLeads
      <4> QED BY <4>1, <4>2, <4>3
    <3>3. CASE CompletionHandler BY <1>2, <3>3 DEF CompletionHandler, StopLeads
    <3>4. CASE ResetRest BY <1>2, <3>4 DEF ResetRest, StopLeads
    <3> QED BY <1>14, <3>1, <3>2, <3>3, <3>4 DEF StopNext
  <2>3. PICK n \in Nat : StopLeads' = n /\ n < s BY <2>2
  <2>4. c + e + r + n + a < c + e + r + s + a BY <2>3
  <2> QED BY <1>8, <1>9, <1>c, <1>d, <2>1, <2>3, <2>4, WorkFalls
<1>15. CASE AudioBufferAppended
  <2>1. /\ audio /\ ~audio'
        /\ UNCHANGED <<toRecorder, toViewer, main, stopBlocks, finishing, handlers, resets>>
    BY <1>15 DEF AudioBufferAppended
  <2>2. a = 1 /\ AudioLeads' = 0 BY <2>1 DEF AudioLeads
  <2>3. c + e + r + s + 0 < c + e + r + s + a BY <2>2
  <2> QED BY <1>7, <1>8, <1>c, <1>d, <2>1, <2>2, <2>3, WorkFalls
<1> QED
  BY <1>10, <1>11, <1>12, <1>13, <1>14, <1>15, <1>16, <1>17
  DEF RecordingNext, ViewerNext, MainNext

\* Every step but a tap of either user and a new buffer of audio uses up
\* something: no command, answer, block or handler leads to more of them for
\* ever, even when taps cross, and when nobody taps any more, recording comes to
\* rest.
THEOREM Quiesces ==
    RecordingSpec =>
        [][\/ Work' < Work
           \/ TripleTap \/ RecorderTaps \/ AudioBufferReceived]_recordingvars
<1>1. RecordingInv /\ [RecordingNext]_recordingvars
        => [\/ Work' < Work
            \/ TripleTap \/ RecorderTaps \/ AudioBufferReceived]_recordingvars
  BY WorkIsDone
<1> QED BY <1>1, RecordingStarts, RecordingGoesOn, PTL DEF RecordingSpec

-----------------------------------------------------------------------------
(* Moving the dock.                                                         *)

\* What MotionControl assumes of its constants.
Controls ==
    /\ Drags \subseteq Velocities
    /\ Decel \in Nat \ {0}
    /\ MaxInFlight \in Nat

LEMMA ControlsKnown == Controls
BY DragsAssumption, DecelAssumption, MaxInFlightAssumption DEF Controls, Velocities

\* Zeros are the last packet on its way.  A dock that has missed nothing has
\* stopped when they have arrived, when the call has ended, and before it is
\* found; without a call nothing is on its way.
ZerosLast ==
    /\ lastSentAreZeros /\ channel # << >> => channel[Len(channel)] = Stopped
    /\ obeys => /\ lastSentAreZeros /\ channel = << >> => dock = Stopped
                /\ ~inCall \/ connected = "waiting" => dock = Stopped
    /\ ~inCall => channel = << >>

ControlInv == Controls /\ ControlTypeOK /\ ZerosLast

LEMMA ControlStarts == Controls /\ ControlInit => ControlInv
<1> SUFFICES ASSUME Controls, ControlInit PROVE ControlInv OBVIOUS
<1> USE DEF Controls, ControlInit, Stopped
<1>1. Stopped \in Velocities BY DEF Velocities
<1>2. /\ velocities \in Seq(Drags) /\ Len(velocities) = 0
      /\ channel \in Seq(Velocities) /\ Len(channel) = 0
  BY EmptySeq
<1>3. Len(velocities) <= WindowSize /\ Len(channel) <= MaxInFlight
  BY <1>2 DEF WindowSize
<1>4. ZerosLast BY DEF ZerosLast
<1>5. ControlTypeOK BY <1>1, <1>2, <1>3, Zenon DEF ControlTypeOK
<1> QED BY <1>4, <1>5 DEF ControlInv

\* The average of one or two velocities is one, and so is a lower one.
LEMMA InRange ==
    ASSUME NEW a \in -100 .. 100, NEW b \in -100 .. 100, Decel \in Nat \ {0}
    PROVE  /\ Quotient(a + b, 2) \in -100 .. 100
           /\ Slower(a) \in -100 .. 100
           /\ a * 1 \in -100 .. 100 /\ a * (-1) \in -100 .. 100
BY DEF Quotient, Slower

\* The moving average's window holds no more than its size.
LEMMA WindowMoves ==
    ASSUME Drags \subseteq Velocities, Decel \in Nat \ {0},
           NEW window \in Seq(Drags), Len(window) <= 2, NEW drag \in Drags,
           NEW longer, longer = Append(window, drag),
           NEW next, next = Newest(longer)
    PROVE  /\ next \in Seq(Drags) /\ Len(next) <= 2
           /\ MovingAverage(next) \in Velocities
<1>1. longer \in Seq(Drags) /\ longer # << >> /\ Len(longer) = Len(window) + 1
  BY AppendProperties
<1>2. next \in Seq(Drags) /\ (Len(next) = 1 \/ Len(next) = 2)
  <2>1. CASE Len(longer) > 2
    <3>1. Tail(longer) \in Seq(Drags) /\ Len(Tail(longer)) = Len(longer) - 1
      BY <1>1, HeadTailProperties
    <3>2. next = Tail(longer) BY <2>1 DEF Newest, WindowSize
    <3>3. Len(window) \in Nat OBVIOUS
    <3>4. Len(longer) = 3 BY <1>1, <2>1, <3>3
    <3> QED BY <3>1, <3>2, <3>4
  <2>2. CASE ~(Len(longer) > 2)
    <3>1. next = longer BY <2>2 DEF Newest, WindowSize
    <3>2. Len(window) \in Nat OBVIOUS
    <3>3. Len(longer) = 1 \/ Len(longer) = 2 BY <1>1, <2>2, <3>2
    <3> QED BY <1>1, <3>1, <3>3
  <2> QED BY <2>1, <2>2
<1>3. /\ next[1] \in Velocities /\ next[Len(next)] \in Velocities
  <2>1. next[1] \in Drags /\ next[Len(next)] \in Drags BY <1>2
  <2> QED BY <2>1
<1>4. MovingAverage(next) \in Velocities
  <2>1. /\ {next[1].pan, next[1].tilt} \subseteq -100 .. 100
        /\ {next[Len(next)].pan, next[Len(next)].tilt} \subseteq -100 .. 100
    BY <1>3 DEF Velocities
  <2>2. /\ Quotient(next[1].pan + next[Len(next)].pan, 2) \in -100 .. 100
        /\ Quotient(next[1].tilt + next[Len(next)].tilt, 2) \in -100 .. 100
    BY <2>1, InRange
  <2> QED BY <1>3, <2>2 DEF MovingAverage, Velocities
<1>5. Len(next) <= 2
  <2>1. CASE Len(next) = 1 BY <2>1
  <2>2. CASE Len(next) = 2 BY <2>2
  <2> QED BY <1>2, <2>1, <2>2
<1> QED BY <1>2, <1>4, <1>5

LEMMA ControlGoesOn == ControlInv /\ [ControlNext]_(controlvars) => ControlInv'
<1> SUFFICES ASSUME ControlInv, [ControlNext]_(controlvars) PROVE ControlInv' OBVIOUS
<1> USE DEF ControlInv, user, way, remote
<1>0. Controls' BY DEF Controls, Velocities
<1>a. channel \in Seq(Velocities) /\ average \in Velocities
  BY DEF ControlTypeOK
<1>1. CASE GestureBegins
  <2>1. Stopped \in Velocities BY DEF Stopped, Velocities
  <2> QED BY <1>0, <1>1, <2>1 DEF GestureBegins, ControlTypeOK, ZerosLast
<1>2. ASSUME NEW drag \in Drags, GestureMoves(drag) PROVE ControlInv'
  <2>1. /\ velocities' \in Seq(Drags) /\ Len(velocities') <= 2
        /\ average' \in Velocities
    BY <1>2, WindowMoves DEF Controls, GestureMoves, ControlTypeOK, WindowSize
  <2>2. UNCHANGED <<timerOn, lastSentAreZeros, inCall, channel, obeys, orientation,
                    connected, dock>>
        /\ gesture' = "changed"
    BY <1>2 DEF GestureMoves
  <2>3. ControlTypeOK' BY <2>1, <2>2 DEF ControlTypeOK, WindowSize
  <2> QED BY <1>0, <2>2, <2>3 DEF ZerosLast
<1>3. CASE GestureEnds
  <2>1. << >> \in Seq(Drags) /\ Len(<< >>) = 0 BY EmptySeq
  <2>2. velocities' \in Seq(Drags) /\ Len(velocities') <= 2
    <3>1. velocities' = velocities \/ velocities' = << >> BY <1>3 DEF GestureEnds
    <3>2. velocities \in Seq(Drags) /\ Len(velocities) <= 2
      BY DEF ControlTypeOK, WindowSize
    <3>3. CASE velocities' = << >>
      <4>1. Len(velocities') = 0 BY <2>1, <3>3, Zenon
      <4> QED BY <2>1, <3>3, <4>1
    <3> QED BY <3>1, <3>2, <3>3
  <2> QED BY <1>0, <1>3, <2>2
          DEF GestureEnds, ControlTypeOK, ZerosLast, WindowSize
<1>4. CASE SendTimerFire
  <2>1. average' \in Velocities
    <3>1. {average.pan, average.tilt} \subseteq -100 .. 100 BY <1>a DEF Velocities
    <3>2. /\ Slower(average.pan) \in -100 .. 100
          /\ Slower(average.tilt) \in -100 .. 100
      BY <3>1, InRange DEF Controls
    <3> QED BY <1>4, <3>2 DEF SendTimerFire, Velocities
  <2>2. UNCHANGED <<gesture, velocities, timerOn, inCall, orientation, connected, dock>>
    BY <1>4 DEF SendTimerFire
  <2>3. CASE lastSentAreZeros /\ average = Stopped
    <3>1. UNCHANGED <<channel, obeys, lastSentAreZeros>>
      BY <1>4, <2>3 DEF SendTimerFire, SendGalileoControl
    <3> QED BY <1>0, <2>1, <2>2, <3>1 DEF ControlTypeOK, ZerosLast
  <2>4. CASE ~(lastSentAreZeros /\ average = Stopped) /\ inCall
    <3>1. /\ channel' = Append(channel, average) /\ lastSentAreZeros' = (average = Stopped)
          /\ obeys' = obeys
      BY <1>4, <2>4 DEF SendTimerFire, SendGalileoControl, SendControlPacket
    <3>2. /\ channel' \in Seq(Velocities) /\ channel' # << >>
          /\ Len(channel') = Len(channel) + 1 /\ channel'[Len(channel')] = average
      BY <1>a, <3>1, AppendProperties
    <3>3. Len(channel') <= MaxInFlight
      <4>1. Len(channel) \in Nat /\ Len(channel) < MaxInFlight
        BY <1>4, <1>a DEF SendTimerFire
      <4> QED BY <3>2, <4>1 DEF Controls
    <3>4. ControlTypeOK' BY <2>1, <2>2, <3>1, <3>2, <3>3 DEF ControlTypeOK
    <3>5. ZerosLast' BY <2>2, <2>4, <3>1, <3>2 DEF ZerosLast, Stopped
    <3> QED BY <1>0, <3>4, <3>5
  <2>5. CASE ~(lastSentAreZeros /\ average = Stopped) /\ ~inCall
    <3>1. /\ channel' = channel /\ lastSentAreZeros' = (average = Stopped)
          /\ obeys' = FALSE
      BY <1>4, <2>5 DEF SendTimerFire, SendGalileoControl, SendControlPacket
    <3>2. ControlTypeOK' BY <2>1, <2>2, <3>1 DEF ControlTypeOK
    <3>3. ZerosLast' BY <2>2, <2>5, <3>1 DEF ZerosLast
    <3> QED BY <1>0, <3>2, <3>3
  <2> QED BY <2>3, <2>4, <2>5
<1>5. CASE ControlCommandReceived
  <2>1. /\ channel # << >> /\ channel' = Tail(channel)
        /\ UNCHANGED <<gesture, velocities, average, timerOn, lastSentAreZeros, inCall,
                       orientation, connected>>
    BY <1>5 DEF ControlCommandReceived
  <2>2. /\ Len(channel) \in Nat \ {0} /\ Head(channel) \in Velocities
        /\ Tail(channel) \in Seq(Velocities) /\ Len(Tail(channel)) = Len(channel) - 1
        /\ \A i \in 1 .. Len(Tail(channel)) : Tail(channel)[i] = channel[i + 1]
        /\ Head(channel) = channel[1]
        /\ (Tail(channel) = << >> <=> Len(Tail(channel)) = 0)
    <3>1. /\ Head(channel) \in Velocities
          /\ Tail(channel) \in Seq(Velocities) /\ Len(Tail(channel)) = Len(channel) - 1
          /\ \A i \in 1 .. Len(Tail(channel)) : Tail(channel)[i] = channel[i + 1]
      BY <1>a, <2>1, HeadTailProperties
    <3>2. Len(channel) \in Nat \ {0} /\ Head(channel) = channel[1] BY <1>a, <2>1, EmptySeq
    <3>3. Tail(channel) = << >> <=> Len(Tail(channel)) = 0 BY <3>1, EmptySeq
    <3> QED BY <3>1, <3>2, <3>3
  <2>3. dock' \in Velocities /\ obeys' \in BOOLEAN
    <3>1. CASE connected # "yes"
      BY <1>5, <3>1 DEF ControlCommandReceived, ControlTypeOK
    <3>2. CASE connected = "yes"
      <4>1. {Head(channel).pan, Head(channel).tilt, dock.tilt} \subseteq -100 .. 100
        BY <2>2 DEF Velocities, ControlTypeOK
      <4>2. Head(channel).pan * PanModifier \in -100 .. 100
        BY <4>1, InRange DEF PanModifier, Controls
      <4>3. /\ dock' = [pan |-> Head(channel).pan * PanModifier,
                        tilt |-> IF IsLandscape THEN Head(channel).tilt ELSE dock.tilt]
            /\ obeys' = (dock'.tilt = Head(channel).tilt)
        BY <1>5, <3>2 DEF ControlCommandReceived
      <4>4. dock' \in Velocities BY <4>1, <4>2, <4>3 DEF Velocities
      <4> QED BY <4>3, <4>4
    <3> QED BY <3>1, <3>2
  <2>4. Len(channel') <= MaxInFlight
    <3>1. Len(channel) <= MaxInFlight BY DEF ControlTypeOK
    <3> QED BY <2>1, <2>2, <3>1 DEF Controls
  <2>5. ControlTypeOK' BY <2>1, <2>2, <2>3, <2>4 DEF ControlTypeOK
  <2>6. ASSUME lastSentAreZeros, channel' # << >>
        PROVE  channel'[Len(channel')] = Stopped
    <3>1. channel[Len(channel)] = Stopped BY <2>1, <2>6 DEF ZerosLast
    <3>2. Len(channel') \in 1 .. Len(Tail(channel)) BY <2>1, <2>2, <2>6
    <3>3. channel'[Len(channel')] = channel[Len(channel') + 1] BY <2>1, <2>2, <3>2
    <3>4. Len(channel') + 1 = Len(channel) BY <2>1, <2>2
    <3> QED BY <3>1, <3>3, <3>4
  <2>7. ASSUME obeys', lastSentAreZeros, channel' = << >> PROVE dock' = Stopped
    <3>1. CASE connected # "yes"
      BY <1>5, <2>7, <3>1 DEF ControlCommandReceived, ZerosLast
    <3>2. CASE connected = "yes"
      <4>1. Len(channel) = 1 BY <2>1, <2>2, <2>7
      <4>2. Head(channel) = Stopped BY <2>1, <2>2, <2>7, <4>1 DEF ZerosLast
      <4>3. dock' = [pan |-> Head(channel).pan * PanModifier,
                     tilt |-> IF IsLandscape THEN Head(channel).tilt ELSE dock.tilt]
            /\ dock'.tilt = Head(channel).tilt
        BY <1>5, <2>7, <3>2 DEF ControlCommandReceived
      <4>4. Head(channel).pan = 0 /\ Head(channel).tilt = 0 BY <4>2 DEF Stopped
      <4>5. 0 * PanModifier = 0 BY DEF PanModifier
      <4> QED BY <4>3, <4>4, <4>5 DEF Stopped
    <3> QED BY <3>1, <3>2
  <2>8. ASSUME obeys', connected = "waiting" PROVE dock' = Stopped
    BY <1>5, <2>8 DEF ControlCommandReceived, ZerosLast
  <2>9. inCall BY <2>1 DEF ZerosLast
  <2>10. ZerosLast' BY <2>1, <2>6, <2>7, <2>8, <2>9 DEF ZerosLast, Stopped
  <2> QED BY <1>0, <2>5, <2>10
<1>6. CASE DockConnects
  BY <1>0, <1>6 DEF DockConnects, ControlTypeOK, ZerosLast
<1>7. ASSUME NEW o \in Orientations, DeviceRotates(o) PROVE ControlInv'
  BY <1>0, <1>7 DEF DeviceRotates, ControlTypeOK, ZerosLast
<1>9. CASE DockDisconnects
  BY <1>0, <1>9 DEF DockDisconnects, ControlTypeOK, ZerosLast
<1>10. CASE CallEnds
  <2>1. << >> \in Seq(Velocities) /\ Len(<< >>) = 0 BY EmptySeq
  <2>2. /\ channel' = << >> /\ inCall' = FALSE
        /\ obeys' = (obeys /\ lastSentAreZeros /\ channel = << >>)
        /\ UNCHANGED <<gesture, velocities, average, timerOn, lastSentAreZeros,
                       orientation, connected, dock>>
    BY <1>10 DEF CallEnds
  <2>3. Len(channel') = 0 BY <2>1, <2>2, Zenon
  <2>4. channel' \in Seq(Velocities) /\ Len(channel') <= MaxInFlight
    BY <2>1, <2>2, <2>3 DEF Controls
  <2>5. ControlTypeOK' BY <2>2, <2>4 DEF ControlTypeOK
  <2>6. ZerosLast' BY <2>2 DEF ZerosLast, Stopped, ControlTypeOK
  <2> QED BY <1>0, <2>5, <2>6
<1>11. CASE CallBegins
  <2>1. << >> \in Seq(Drags) /\ Len(<< >>) = 0 BY EmptySeq
  <2>2. velocities' \in Seq(Drags) /\ Len(velocities') <= WindowSize
    <3>1. velocities' = << >> BY <1>11 DEF CallBegins
    <3>2. Len(velocities') = 0 BY <2>1, <3>1, Zenon
    <3> QED BY <2>1, <3>1, <3>2 DEF WindowSize
  <2>3. average' \in Velocities BY <1>11 DEF CallBegins, Stopped, Velocities
  <2>4. ControlTypeOK' BY <1>11, <2>2, <2>3 DEF CallBegins, ControlTypeOK
  <2>5. ZerosLast' BY <1>11 DEF CallBegins, ZerosLast, Stopped, ControlTypeOK
  <2> QED BY <1>0, <2>4, <2>5
<1>8. CASE UNCHANGED controlvars
  BY <1>0, <1>8 DEF controlvars, ControlTypeOK, ZerosLast
<1> QED BY <1>1, <1>2, <1>3, <1>4, <1>5, <1>6, <1>7, <1>8, <1>9, <1>10, <1>11
       DEF ControlNext

\* What a drag left is fading: how fast the dock is about to be told to turn.
Magnitude(v) == IF v >= 0 THEN v ELSE -v
Speed == Magnitude(average.pan) + Magnitude(average.tilt)

Windowed ==
    velocities \in Seq(Drags) /\ Len(velocities) <= 2 /\ average \in Velocities

LEMMA SlowsDown ==
    ASSUME NEW v \in -100 .. 100, Decel \in Nat \ {0}
    PROVE  /\ Slower(v) \in -100 .. 100
           /\ Magnitude(v) \in Nat /\ Magnitude(Slower(v)) \in Nat
           /\ Magnitude(Slower(v)) <= Magnitude(v)
           /\ v # 0 => Magnitude(Slower(v)) < Magnitude(v)
BY DEF Slower, Magnitude

\* A step of the timer slows the dock down, unless it is told to stand still.
LEMMA TimerSlows ==
    ASSUME Decel \in Nat \ {0}, average \in Velocities, SendTimerFire
    PROVE  /\ average' \in Velocities /\ Speed' <= Speed
           /\ average # Stopped => Speed' < Speed
<1>1. /\ average.pan \in -100 .. 100 /\ average.tilt \in -100 .. 100
      /\ average = [pan |-> average.pan, tilt |-> average.tilt]
  BY DEF Velocities
<1>2. average' = [pan |-> Slower(average.pan), tilt |-> Slower(average.tilt)]
  BY DEF SendTimerFire
<1>3. average'.pan = Slower(average.pan) /\ average'.tilt = Slower(average.tilt)
  BY <1>2
<1>4. average' \in Velocities BY <1>1, <1>2, SlowsDown DEF Velocities
<1>5. average # Stopped => average.pan # 0 \/ average.tilt # 0
  BY <1>1 DEF Stopped
<1>6. /\ Speed = Magnitude(average.pan) + Magnitude(average.tilt)
      /\ Speed' = Magnitude(Slower(average.pan)) + Magnitude(Slower(average.tilt))
  BY <1>3 DEF Speed, Magnitude
<1>7. /\ Magnitude(average.pan) \in Nat /\ Magnitude(average.tilt) \in Nat
      /\ Magnitude(Slower(average.pan)) \in Nat
      /\ Magnitude(Slower(average.tilt)) \in Nat
      /\ Magnitude(Slower(average.pan)) <= Magnitude(average.pan)
      /\ Magnitude(Slower(average.tilt)) <= Magnitude(average.tilt)
      /\ average.pan # 0 => Magnitude(Slower(average.pan)) < Magnitude(average.pan)
      /\ average.tilt # 0 => Magnitude(Slower(average.tilt)) < Magnitude(average.tilt)
  BY <1>1, SlowsDown
<1> QED BY <1>4, <1>5, <1>6, <1>7

\* Only a finger that moves makes the dock turn faster.
LEMMA WindowGoesOn ==
    Windowed /\ [ControlNext]_controlvars =>
        /\ Windowed'
        /\ Speed' <= Speed \/ \E drag \in Drags : GestureMoves(drag)
        /\ SendTimerFire => average = Stopped \/ Speed' < Speed
<1> SUFFICES ASSUME Windowed, [ControlNext]_controlvars
             PROVE  /\ Windowed'
                    /\ Speed' <= Speed \/ \E drag \in Drags : GestureMoves(drag)
                    /\ SendTimerFire => average = Stopped \/ Speed' < Speed
  OBVIOUS
<1> USE DEF Windowed
<1>1. Drags \subseteq Velocities /\ Decel \in Nat \ {0}
  BY DragsAssumption, DecelAssumption DEF Velocities
<1>2. average.pan \in -100 .. 100 /\ average.tilt \in -100 .. 100 BY DEF Velocities
<1>3. Speed \in Nat
  <2>1. Magnitude(average.pan) \in Nat /\ Magnitude(average.tilt) \in Nat
    BY <1>1, <1>2, SlowsDown
  <2> QED BY <2>1 DEF Speed
<1>4. SendTimerFire => average = Stopped \/ Speed' < Speed BY <1>1, TimerSlows
<1>5. UNCHANGED average => Speed' <= Speed BY <1>3 DEF Speed, Magnitude
<1>6. CASE GestureBegins
  <2>1. velocities' = velocities /\ average' = Stopped BY <1>6 DEF GestureBegins
  <2>2. Stopped \in Velocities BY DEF Stopped, Velocities
  <2>3. Speed' = 0 BY <2>1 DEF Speed, Magnitude, Stopped
  <2> QED BY <1>3, <1>4, <2>1, <2>2, <2>3
<1>7. ASSUME NEW drag \in Drags, GestureMoves(drag)
      PROVE  Windowed' /\ \E d \in Drags : GestureMoves(d)
  <2>1. /\ velocities' \in Seq(Drags) /\ Len(velocities') <= 2
        /\ average' \in Velocities
    BY <1>1, <1>7, WindowMoves DEF GestureMoves
  <2> QED BY <1>7, <2>1
<1>8. CASE GestureEnds
  <2>1. average' = average /\ (velocities' = velocities \/ velocities' = << >>)
    BY <1>8 DEF GestureEnds
  <2>2. << >> \in Seq(Drags) /\ Len(<< >>) = 0 BY EmptySeq
  <2>3. velocities' \in Seq(Drags) /\ Len(velocities') <= 2
    <3>1. CASE velocities' = velocities BY <3>1
    <3>2. CASE velocities' = << >>
      <4>1. Len(velocities') = 0 BY <2>2, <3>2, Zenon
      <4> QED BY <2>2, <3>2, <4>1
    <3> QED BY <2>1, <3>1, <3>2
  <2> QED BY <1>4, <1>5, <2>1, <2>3
<1>9. CASE SendTimerFire
  <2>1. velocities' = velocities BY <1>9 DEF SendTimerFire
  <2> QED BY <1>1, <1>4, <1>9, <2>1, TimerSlows
<1>10. CASE \/ ControlCommandReceived \/ DockConnects \/ DockDisconnects \/ CallEnds
            \/ \E o \in Orientations : DeviceRotates(o)
            \/ UNCHANGED controlvars
  <2>1. UNCHANGED <<velocities, average>>
    BY <1>10 DEF ControlCommandReceived, DockConnects, DockDisconnects, DeviceRotates,
                 CallEnds, controlvars, user
  <2> QED BY <1>4, <1>5, <2>1
<1>11. CASE CallBegins
  <2>1. velocities' = << >> /\ average' = Stopped BY <1>11 DEF CallBegins
  <2>2. << >> \in Seq(Drags) /\ Len(<< >>) = 0 BY EmptySeq
  <2>3. Len(velocities') = 0 BY <2>1, <2>2, Zenon
  <2>4. Stopped \in Velocities BY DEF Stopped, Velocities
  <2>5. Speed' = 0 BY <2>1 DEF Speed, Magnitude, Stopped
  <2> QED BY <1>3, <1>4, <2>1, <2>2, <2>3, <2>4, <2>5
<1> QED BY <1>4, <1>6, <1>7, <1>8, <1>9, <1>10, <1>11 DEF ControlNext

\* Nothing but a finger that moves makes the dock turn faster, and each time the
\* timer fires it is told to turn slower than the time before, until it is told
\* to stand still: however the device is held, whatever is on its way and whether
\* or not there is a dock and a call.
THEOREM Fades ==
    ControlSpec =>
        [][/\ Speed' <= Speed \/ \E drag \in Drags : GestureMoves(drag)
           /\ SendTimerFire => average = Stopped \/ Speed' < Speed]_controlvars
<1>1. ControlInit => Windowed
  <2>1. Stopped \in Velocities BY DEF Stopped, Velocities
  <2>2. << >> \in Seq(Drags) /\ Len(<< >>) = 0 BY EmptySeq
  <2> SUFFICES ASSUME ControlInit PROVE Windowed OBVIOUS
  <2>3. velocities = << >> /\ average = Stopped BY DEF ControlInit
  <2>4. Len(velocities) = 0 BY <2>2, <2>3, Zenon
  <2> QED BY <2>1, <2>2, <2>3, <2>4 DEF Windowed
<1>2. Windowed /\ [ControlNext]_controlvars =>
          Windowed' /\ [/\ Speed' <= Speed \/ \E drag \in Drags : GestureMoves(drag)
                        /\ SendTimerFire => average = Stopped \/ Speed' < Speed]_controlvars
  BY WindowGoesOn
<1> QED BY <1>1, <1>2, PTL DEF ControlSpec

LEMMA StopIsLast == ControlInv => MotionControlInv
BY DEF ControlInv, ZerosLast, MotionControlInv, ZerosAreEnough

\* When the user's device has stopped sending and everything has arrived, the
\* dock stands still unless it has missed a command, whatever it was told before
\* and while it was being found, however it was held, lost and found again and
\* however often the call ended and another began.
THEOREM ZerosStop == ControlSpec => []MotionControlInv
BY StopIsLast, ControlsKnown, ControlStarts, ControlGoesOn, PTL DEF ControlSpec

-----------------------------------------------------------------------------
(* The way up of the picture.                                               *)

Held == Positions \cup {"Unknown"}
OnTheWay == Held \cup {"address"}

\* The last orientation of the peer that was sent: the last one on its way, or
\* the one heard.
LastOf(row, heard, o) ==
    IF \E i \in 1 .. Len(row) : row[i] # "address"
    THEN \E i \in 1 .. Len(row) :
            row[i] = o /\ \A j \in i + 1 .. Len(row) : row[j] = "address"
    ELSE heard = o

LastTold == LastOf(packets, currentRemoteOrientation, peerHeld)

\* What is known of this device, what the peer has told, and what the picture
\* is turned by.
PictureInv ==
    /\ PictureTypeOK
    /\ held \notin Unsent => currentLocalOrientation = held /\ labels = held
    /\ peerReady /\ peerHeld \notin Unsent => LastTold
    /\ Disparity(currentLocalOrientation, currentRemoteOrientation) => isRotated180
    /\ Agreement(currentLocalOrientation, currentRemoteOrientation) => ~isRotated180

LEMMA PictureStarts == PictureInit /\ watched \in {"control", "picture"} => PictureInv
<1> SUFFICES ASSUME PictureInit, watched \in {"control", "picture"} PROVE PictureInv OBVIOUS
<1>1. packets \in Seq(OnTheWay) BY EmptySeq DEF PictureInit
<1> QED BY <1>1 DEF PictureInit, PictureInv, PictureTypeOK, OnTheWay, Held, Unsent, Disparity,
                    Agreement, Landscape

\* However the picture was turned, it is turned where it would be upside down
\* and not where it would not.
LEMMA TurnedRight ==
    ASSUME isRotated180 \in BOOLEAN, NEW mine \in Held, NEW theirs
    PROVE  /\ Rotated(mine, theirs) \in BOOLEAN
           /\ Disparity(mine, theirs) => Rotated(mine, theirs)
           /\ Agreement(mine, theirs) => ~Rotated(mine, theirs)
<1>1. ~(Disparity(mine, theirs) /\ Agreement(mine, theirs))
  BY DEF Disparity, Agreement, Landscape
<1>2. theirs = "PortraitUpsideDown" /\ mine \in Landscape => ~Agreement(mine, theirs)
  BY DEF Agreement, Landscape
<1>3. Disparity(mine, theirs) \in BOOLEAN /\ Agreement(mine, theirs) \in BOOLEAN
  BY DEF Disparity, Agreement
<1> QED BY <1>1, <1>2, <1>3 DEF Rotated

LEMMA ThisDevice ==
    ASSUME PictureInv, NEW o \in Held, held' = o, Noticed(o) \/ LocalOrientationDidChange(o),
           labels' = (IF o \in Unsent THEN labels ELSE o) \/ (held = o /\ labels' = labels),
           UNCHANGED <<watched, peerReady, peerHeld, currentRemoteOrientation, packets,
                       streams>>,
           ready' \in BOOLEAN
    PROVE  PictureInv'
<1> USE DEF PictureInv
<1>1. /\ currentLocalOrientation' \in Held /\ isRotated180' \in BOOLEAN
      /\ Disparity(currentLocalOrientation', currentRemoteOrientation) => isRotated180'
      /\ Agreement(currentLocalOrientation', currentRemoteOrientation) => ~isRotated180'
      /\ o \notin Unsent => currentLocalOrientation' = o
  <2>1. isRotated180 \in BOOLEAN /\ currentLocalOrientation \in Held
    BY DEF PictureTypeOK, Held
  <2>2. CASE LocalOrientationDidChange(o)
    <3>1. currentLocalOrientation' = o /\ isRotated180' = Rotated(o, currentRemoteOrientation)
      BY <2>2 DEF LocalOrientationDidChange
    <3> QED BY <2>1, <3>1, TurnedRight
  <2>3. CASE o \in Unsent /\ UNCHANGED here BY <2>1, <2>3 DEF here
  <2> QED BY <2>2, <2>3 DEF Noticed
<1>2. labels' \in Held /\ (o \notin Unsent => labels' = o)
  BY DEF PictureTypeOK, Held
<1>3. PictureTypeOK' BY <1>1, <1>2 DEF PictureTypeOK, Held
<1>4. LastTold' = LastTold BY DEF LastTold, LastOf
<1>5. Disparity(currentLocalOrientation, currentRemoteOrientation)'
        = Disparity(currentLocalOrientation', currentRemoteOrientation)
      /\ Agreement(currentLocalOrientation, currentRemoteOrientation)'
        = Agreement(currentLocalOrientation', currentRemoteOrientation)
  BY DEF Disparity, Agreement, Landscape
<1> QED BY <1>1, <1>2, <1>3, <1>4, <1>5

\* What is told last is the last of the packets, an address tells nothing,
LEMMA ToldLast ==
    ASSUME NEW row \in Seq(OnTheWay), NEW heard, NEW o \in Held, o # "address"
    PROVE  Append(row, o) \in Seq(OnTheWay) /\ LastOf(Append(row, o), heard, o)
<1> DEFINE longer == Append(row, o)
<1>1. /\ longer \in Seq(OnTheWay) /\ Len(longer) = Len(row) + 1
      /\ longer[Len(row) + 1] = o /\ Len(row) \in Nat
  BY AppendProperties DEF OnTheWay
<1> HIDE DEF longer
<1>2. Len(row) + 1 \in 1 .. Len(longer) /\ \A j \in Len(row) + 1 + 1 .. Len(longer) : FALSE
  BY <1>1
<1>3. LastOf(longer, heard, o) BY <1>1, <1>2 DEF LastOf
<1> QED BY <1>1, <1>3 DEF longer

LEMMA AddressTellsNothing ==
    ASSUME NEW row \in Seq(OnTheWay), NEW heard, NEW o, LastOf(row, heard, o)
    PROVE  Append(row, "address") \in Seq(OnTheWay)
           /\ LastOf(Append(row, "address"), heard, o)
<1> DEFINE longer == Append(row, "address")
<1>1. /\ longer \in Seq(OnTheWay) /\ Len(longer) = Len(row) + 1
      /\ longer[Len(row) + 1] = "address" /\ Len(row) \in Nat
      /\ \A i \in 1 .. Len(row) : longer[i] = row[i]
  BY AppendProperties DEF OnTheWay
<1> HIDE DEF longer
<1>2. LastOf(longer, heard, o)
  <2>1. CASE \E i \in 1 .. Len(row) : row[i] # "address"
    <3>1. PICK k \in 1 .. Len(row) :
            row[k] = o /\ \A j \in k + 1 .. Len(row) : row[j] = "address"
      BY <2>1 DEF LastOf
    <3>2. k \in 1 .. Len(longer) /\ longer[k] = o
          /\ \A j \in k + 1 .. Len(longer) : longer[j] = "address"
      BY <1>1, <3>1
    <3>3. \E i \in 1 .. Len(longer) : longer[i] # "address"
      <4>1. PICK i \in 1 .. Len(row) : row[i] # "address" BY <2>1
      <4>2. i \in 1 .. Len(longer) /\ longer[i] # "address" BY <1>1, <4>1
      <4> QED BY <4>2
    <3> QED BY <3>2, <3>3 DEF LastOf
  <2>2. CASE \A i \in 1 .. Len(row) : row[i] = "address"
    <3>1. \A i \in 1 .. Len(longer) : longer[i] = "address" BY <1>1, <2>2
    <3> QED BY <2>2, <3>1 DEF LastOf
  <2> QED BY <2>1, <2>2
<1> QED BY <1>1, <1>2 DEF longer

\* and receiving the first packet does not change what was told last.
LEMMA ReceivedIsTold ==
    ASSUME NEW row \in Seq(OnTheWay), NEW heard, NEW o, o # "address", row # << >>,
           LastOf(row, heard, o)
    PROVE  /\ Tail(row) \in Seq(OnTheWay) /\ Head(row) \in OnTheWay
           /\ LastOf(Tail(row), IF Head(row) = "address" THEN heard ELSE Head(row), o)
<1> DEFINE rest == Tail(row)
           told  == IF Head(row) = "address" THEN heard ELSE Head(row)
<1>1. /\ rest \in Seq(OnTheWay) /\ Len(rest) = Len(row) - 1
      /\ Len(row) \in Nat \ {0} /\ Head(row) = row[1] /\ row[1] \in OnTheWay
      /\ \A i \in 1 .. Len(rest) : rest[i] = row[i + 1]
  BY HeadTailProperties
<1>2. told = (IF row[1] = "address" THEN heard ELSE row[1]) BY <1>1
<1> HIDE DEF rest, told
<1>3. CASE \E i \in 1 .. Len(rest) : rest[i] # "address"
  <2>1. PICK i \in 1 .. Len(rest) : rest[i] # "address" BY <1>3
  <2>2. i + 1 \in 1 .. Len(row) /\ row[i + 1] # "address" BY <1>1, <2>1
  <2>3. PICK k \in 1 .. Len(row) :
          row[k] = o /\ \A j \in k + 1 .. Len(row) : row[j] = "address"
    BY <2>2 DEF LastOf
  <2>4. k >= i + 1 BY <2>2, <2>3
  <2>5. k - 1 \in 1 .. Len(rest) /\ rest[k - 1] = o BY <1>1, <2>1, <2>3, <2>4
  <2>6. \A j \in k - 1 + 1 .. Len(rest) : rest[j] = "address"
    <3> SUFFICES ASSUME NEW j \in k - 1 + 1 .. Len(rest) PROVE rest[j] = "address" OBVIOUS
    <3>1. j \in 1 .. Len(rest) /\ j + 1 \in k + 1 .. Len(row) BY <1>1, <2>1, <2>4
    <3> QED BY <1>1, <2>3, <3>1
  <2>7. LastOf(rest, told, o) BY <1>3, <2>5, <2>6 DEF LastOf
  <2> QED BY <1>1, <2>7 DEF rest, told
<1>4. CASE \A i \in 1 .. Len(rest) : rest[i] = "address"
  <2>1. \A i \in 2 .. Len(row) : row[i] = "address"
    <3> SUFFICES ASSUME NEW i \in 2 .. Len(row) PROVE row[i] = "address" OBVIOUS
    <3>1. i - 1 \in 1 .. Len(rest) /\ rest[i - 1] = row[i - 1 + 1] BY <1>1
    <3> QED BY <1>4, <3>1
  <2>2. told = o
    <3>1. CASE row[1] = "address"
      <4>1. \A i \in 1 .. Len(row) : row[i] = "address" BY <1>1, <2>1, <3>1
      <4> QED BY <1>2, <3>1, <4>1 DEF LastOf
    <3>2. CASE row[1] # "address"
      <4>1. 1 \in 1 .. Len(row) BY <1>1
      <4>2. PICK k \in 1 .. Len(row) :
              row[k] = o /\ \A j \in k + 1 .. Len(row) : row[j] = "address"
        BY <3>2, <4>1 DEF LastOf
      <4>3. k = 1
        <5>1. k \in 2 .. Len(row) => row[k] = "address" BY <2>1
        <5> QED BY <1>1, <4>2, <5>1
      <4> QED BY <1>2, <3>2, <4>2, <4>3
    <3> QED BY <3>1, <3>2
  <2>3. LastOf(rest, told, o) BY <1>4, <2>2 DEF LastOf
  <2> QED BY <1>1, <2>3 DEF rest, told
<1> QED BY <1>3, <1>4

LEMMA PictureGoesOn == PictureInv /\ [PictureNext]_picture /\ UNCHANGED watched => PictureInv'
<1> SUFFICES ASSUME PictureInv, [PictureNext]_picture, UNCHANGED watched PROVE PictureInv'
  OBVIOUS
<1>1. /\ packets \in Seq(OnTheWay) /\ held \in Held /\ peerHeld \in Held
      /\ currentLocalOrientation \in Held /\ currentRemoteOrientation \in Held
      /\ labels \in Held /\ isRotated180 \in BOOLEAN
  BY DEF PictureInv, PictureTypeOK, OnTheWay, Held
<1>2. ASSUME NEW o \in Positions, DeviceTurns(o) PROVE PictureInv'
  BY <1>1, <1>2, ThisDevice DEF DeviceTurns, Held, PictureInv, PictureTypeOK
<1>3. CASE SendOrientationTimer
  BY <1>1, <1>3, ThisDevice DEF SendOrientationTimer, PictureInv, PictureTypeOK
<1>4. CASE NetworkControllerIsReady
  BY <1>1, <1>4, ThisDevice DEF NetworkControllerIsReady, PictureInv, PictureTypeOK
<1>5. ASSUME UNCHANGED <<watched, ready, held, shows, labels, streams>>, peerReady' \in BOOLEAN,
             peerHeld' \in Held, packets' \in Seq(OnTheWay),
             peerReady' /\ peerHeld' \notin Unsent => LastTold'
      PROVE  PictureInv'
  BY <1>5 DEF PictureInv, PictureTypeOK, OnTheWay, Held, shows, here, Disparity, Agreement,
              Landscape
<1>6. ASSUME peerHeld' \in Held, Told(peerHeld'), peerReady' = peerReady
      PROVE  packets' \in Seq(OnTheWay) /\ (peerReady' /\ peerHeld' \notin Unsent => LastTold')
  <2>1. peerHeld' # "address" BY <1>6, PositionsAssumption DEF Held
  <2>2. CASE peerReady /\ peerHeld' \notin Unsent
    <3>1. packets' = Append(packets, peerHeld') BY <1>6, <2>2 DEF Told
    <3> QED BY <1>1, <1>6, <2>1, <3>1, ToldLast DEF LastTold
  <2>3. CASE ~(peerReady /\ peerHeld' \notin Unsent) BY <1>1, <1>6, <2>3 DEF Told
  <2> QED BY <2>2, <2>3
<1>7. ASSUME NEW o \in Positions, PeerTurns(o) PROVE PictureInv'
  <2>1. peerHeld' = o /\ peerHeld' \in Held /\ Told(peerHeld') /\ peerReady' = peerReady
        /\ UNCHANGED <<watched, ready, held, shows, labels, streams>>
    BY <1>7 DEF PeerTurns, Held
  <2>2. peerReady' \in BOOLEAN BY <2>1 DEF PictureInv, PictureTypeOK
  <2> QED BY <1>5, <1>6, <2>1, <2>2
<1>8. CASE PeerOrientationTimer
  <2>1. peerHeld' = peerHeld /\ Told(peerHeld') /\ peerReady' = peerReady
        /\ UNCHANGED <<watched, ready, held, shows, labels, streams>>
    BY <1>8 DEF PeerOrientationTimer
  <2>2. peerReady' \in BOOLEAN BY <2>1 DEF PictureInv, PictureTypeOK
  <2> QED BY <1>1, <1>5, <1>6, <2>1, <2>2
<1>9. CASE PeerIsReady
  <2>1. packets' = packets \o <<peerHeld, "address">> /\ peerReady' = TRUE
        /\ UNCHANGED <<watched, ready, held, peerHeld, shows, labels, streams>>
    BY <1>9 DEF PeerIsReady
  <2>2. packets' = Append(Append(packets, peerHeld), "address") BY <1>1, <2>1 DEF OnTheWay
  <2>3. peerHeld # "address" BY <1>1, PositionsAssumption DEF Held
  <2>4. Append(packets, peerHeld) \in Seq(OnTheWay)
        /\ LastOf(Append(packets, peerHeld), currentRemoteOrientation, peerHeld)
    BY <1>1, <2>3, ToldLast
  <2>5. packets' \in Seq(OnTheWay) /\ LastOf(packets', currentRemoteOrientation, peerHeld)
    BY <2>2, <2>4, AddressTellsNothing
  <2>6. LastTold' BY <2>1, <2>5 DEF LastTold, shows
  <2> QED BY <1>1, <1>5, <2>1, <2>5, <2>6
<1>10. CASE OrientationReceived \/ AddressReceived
  <2> DEFINE told == IF Head(packets) = "address" THEN currentRemoteOrientation ELSE Head(packets)
  <2>1. /\ packets # << >> /\ packets' = Tail(packets) /\ currentRemoteOrientation' = told
        /\ UNCHANGED <<watched, ready, peerReady, held, peerHeld, currentLocalOrientation, labels>>
        /\ \/ isRotated180' = Rotated(currentLocalOrientation, told)
           \/ isRotated180' = isRotated180 /\ told = currentRemoteOrientation
        /\ streams' \in {streams, {"video", "audio"}}
    BY <1>10 DEF OrientationReceived, AddressReceived, shows, here
  <2>2. Tail(packets) \in Seq(OnTheWay) /\ Head(packets) \in OnTheWay
    BY <1>1, <2>1, HeadTailProperties
  <2>3. told \in Held BY <1>1, <2>2 DEF OnTheWay
  <2> HIDE DEF told
  <2>4. peerReady /\ peerHeld \notin Unsent => LastOf(packets', told, peerHeld)
    <3>1. peerHeld # "address" BY <1>1, PositionsAssumption DEF Held
    <3> QED BY <1>1, <2>1, <3>1, ReceivedIsTold DEF told, PictureInv, LastTold
  <2>5. /\ isRotated180' \in BOOLEAN
        /\ Disparity(currentLocalOrientation, told) => isRotated180'
        /\ Agreement(currentLocalOrientation, told) => ~isRotated180'
    BY <1>1, <2>1, <2>3, TurnedRight DEF PictureInv
  <2>6. PictureTypeOK'
    BY <1>1, <2>1, <2>2, <2>3, <2>5 DEF PictureInv, PictureTypeOK, Held, OnTheWay
  <2>7. (peerReady /\ peerHeld \notin Unsent => LastTold)' BY <2>1, <2>4 DEF LastTold, Unsent
  <2>8. (Disparity(currentLocalOrientation, currentRemoteOrientation) => isRotated180)'
        /\ (Agreement(currentLocalOrientation, currentRemoteOrientation) => ~isRotated180)'
    BY <2>1, <2>5 DEF Disparity, Agreement, Landscape
  <2>9. (held \notin Unsent => currentLocalOrientation = held /\ labels = held)'
    BY <2>1 DEF PictureInv, Unsent
  <2> QED BY <2>6, <2>7, <2>8, <2>9 DEF PictureInv
<1>11. CASE UNCHANGED picture
  BY <1>11 DEF picture, shows, here, PictureInv, PictureTypeOK, LastTold, LastOf, Disparity, Agreement,
               Landscape
<1> QED BY <1>2, <1>3, <1>4, <1>7, <1>8, <1>9, <1>10, <1>11 DEF PictureNext

\* When all is told, it is right.
LEMMA ToldIsRight == PictureInv => PictureTypeOK /\ RightWhenTold
<1> SUFFICES ASSUME PictureInv PROVE PictureTypeOK /\ RightWhenTold OBVIOUS
<1>1. ASSUME peerReady, \A i \in 1 .. Len(packets) : packets[i] = "address",
             held \notin Unsent, peerHeld \notin Unsent
      PROVE  currentRemoteOrientation = peerHeld
  BY <1>1 DEF PictureInv, LastTold, LastOf
<1> QED BY <1>1 DEF PictureInv, RightWhenTold, PictureIsRight

\* The whole of it, dock and picture: zeros stop the dock, and once the peer is
\* connected the picture is right whenever nothing of how it is held is on its
\* way, whatever was turned, sent and lost before.
THEOREM PictureAndDock == OSpec => []OrientationInv
<1> DEFINE Both == ControlInv /\ PictureInv
<1>1. Controls /\ OInit => Both BY ControlStarts, PictureStarts DEF OInit
<1>2. ASSUME Both, [ONext]_ovars PROVE Both'
  <2>1. [ControlNext]_controlvars /\ [PictureNext]_picture /\ UNCHANGED watched
    BY <1>2 DEF ONext, ovars
  <2> QED BY <1>2, <2>1, ControlGoesOn, PictureGoesOn
<1>3. Both => OrientationInv BY StopIsLast, ToldIsRight DEF OrientationInv
<1> QED BY <1>1, <1>2, <1>3, ControlsKnown, PTL DEF OSpec

-----------------------------------------------------------------------------
(* The call.                                                                *)

\* The three invariants of the call, inductive together with the types: a
\* lobby row can be touched only while no connection stands, a connection
\* finds a game screen to be showing on.
CallInv ==
    /\ CallTypeOK
    /\ NoOrphanConnection /\ CallIsOnScreen /\ CallIsLinked

LEMMA CallStarts == CallInit => CallInv
BY DEF CallInit, NoLinks, CallInv, CallTypeOK, NoOrphanConnection,
   CallIsOnScreen, CallIsLinked

\* After the session manager has been restarted there is nothing to be said of
\* connections.
LEMMA CallRestarted ==
    ASSUME link' = NoLinks, sessionState' = "Disconnected"
    PROVE  (NoOrphanConnection /\ CallIsOnScreen /\ CallIsLinked)'
BY DEF NoLinks, NoOrphanConnection, CallIsOnScreen, CallIsLinked

\* disconnectCurrentCall leaves no connection: if it does not restart the
\* session manager there was none.
LEMMA CallEnded ==
    ASSUME CallInv, DisconnectCurrentCall
    PROVE  /\ (NoOrphanConnection /\ CallIsOnScreen /\ CallIsLinked)'
           /\ sessionState' = "Disconnected"
           /\ currentConfPeerID' \in Peer \cup {NoPeer}
           /\ gameDelegate' \in BOOLEAN /\ videoShown' \in BOOLEAN
           /\ lobbyAppearing' \in BOOLEAN /\ available' \in BOOLEAN
           /\ link' \in [Peer -> {"none", "calling", "accepted", "connected"}]
           /\ calls' \subseteq {"accept", "deny", "cancelConnect", "disconnectFromAllPeers"}
<1>1. CASE gameDelegate /\ ConnectionIsDead /\ calls' = {} /\ UNCHANGED currentConfPeerID
  <2>1. link' = NoLinks /\ sessionState' = "Disconnected"
    BY <1>1 DEF ConnectionIsDead, SetupSession
  <2> QED BY <1>1, <2>1, CallRestarted DEF ConnectionIsDead, SetupSession,
             NoLinks, CallInv, CallTypeOK
<1>2. CASE /\ ~gameDelegate
           /\ sessionState # "Disconnected"
           /\ calls' = {"disconnectFromAllPeers"} \cup
                 (IF sessionState = "Connecting" THEN {"cancelConnect"} ELSE {})
           /\ link' = NoLinks
           /\ available' = TRUE
           /\ sessionState' = "Disconnected"
           /\ currentConfPeerID' = NoPeer
           /\ UNCHANGED <<gameDelegate, videoShown, lobbyAppearing>>
  BY <1>2, CallRestarted DEF NoLinks, CallInv, CallTypeOK
<1>3. CASE /\ ~gameDelegate
           /\ sessionState = "Disconnected"
           /\ calls' = {}
           /\ UNCHANGED <<sessionState, currentConfPeerID, gameDelegate, videoShown,
                          lobbyAppearing, link, available>>
  BY <1>3 DEF CallInv, CallTypeOK, NoOrphanConnection, CallIsOnScreen,
     CallIsLinked
<1> QED BY <1>1, <1>2, <1>3 DEF DisconnectCurrentCall

LEMMA CallGoesOn == CallInv /\ [CallNext]_(callvars) => CallInv'
<1> SUFFICES ASSUME CallInv, [CallNext]_(callvars) PROVE CallInv' OBVIOUS
<1> USE PeerAssumption
<1>1. CASE DismissAlert
  <2>1. CASE gameDelegate
    <3>1. ConnectionIsDead BY <1>1, <2>1 DEF DismissAlert
    <3>2. link' = NoLinks /\ sessionState' = "Disconnected"
      BY <3>1 DEF ConnectionIsDead, SetupSession
    <3>3. CallTypeOK'
      BY <1>1, <2>1, <3>1 DEF DismissAlert, ConnectionIsDead, SetupSession,
         NoLinks, CallInv, CallTypeOK
    <3> QED BY <3>2, <3>3, CallRestarted DEF CallInv
  <2>2. CASE ~gameDelegate
    <3>1. CallTypeOK' BY <1>1, <2>2 DEF DismissAlert, CallInv, CallTypeOK
    <3> QED BY <1>1, <2>2, <3>1
            DEF DismissAlert, CallInv, CallTypeOK, NoOrphanConnection,
                CallIsOnScreen, CallIsLinked
  <2> QED BY <2>1, <2>2 DEF CallInv, CallTypeOK
<1>2. CASE LobbyAppears
  <2>1. link' = NoLinks /\ sessionState' = "Disconnected"
    BY <1>2 DEF LobbyAppears, SetupSession
  <2>2. CallTypeOK' BY <1>2 DEF LobbyAppears, SetupSession, NoLinks, CallInv,
                        CallTypeOK
  <2> QED BY <2>1, <2>2, CallRestarted DEF CallInv
<1>3. CASE WillTerminate
  <2>1. DisconnectCurrentCall BY <1>3 DEF WillTerminate
  <2>2. CallTypeOK' BY <1>3, <2>1, CallEnded DEF WillTerminate, CallInv, CallTypeOK
  <2> QED BY <2>1, <2>2, CallEnded DEF CallInv
<1>4. CASE WillResume
  <2>1. link' = NoLinks /\ sessionState' = "Disconnected"
    BY <1>4 DEF WillResume, SetupSession
  <2>2. CallTypeOK' BY <1>4 DEF WillResume, SetupSession, NoLinks, CallInv,
                        CallTypeOK
  <2> QED BY <2>1, <2>2, CallRestarted DEF CallInv
<1>5. CASE SessionFailed
  <2>1. DisconnectCurrentCall BY <1>5 DEF SessionFailed
  <2>2. CallTypeOK' BY <1>5, <2>1, CallEnded DEF SessionFailed, CallInv, CallTypeOK
  <2> QED BY <2>1, <2>2, CallEnded DEF CallInv
<1>6. ASSUME NEW p \in Peer, ConnectionFailed(p) PROVE CallInv'
  <2>1. CallTypeOK' BY <1>6 DEF ConnectionFailed, CallInv, CallTypeOK
  <2>2. sessionState' = "Disconnected"
    BY <1>6 DEF ConnectionFailed
  <2> QED BY <1>6, <2>1, <2>2
          DEF ConnectionFailed, CallInv, CallTypeOK, NoOrphanConnection,
              CallIsOnScreen, CallIsLinked
<1>7. ASSUME NEW p \in Peer, PeerConnected(p) PROVE CallInv'
  <2>1. CallTypeOK' BY <1>7 DEF PeerConnected, CallInv, CallTypeOK
  <2>2. gameDelegate BY <1>7 DEF PeerConnected, Pending, CallInv,
                        NoOrphanConnection
  <2>3. NoOrphanConnection' /\ CallIsOnScreen'
    BY <1>7, <2>2 DEF PeerConnected, NoOrphanConnection, CallIsOnScreen
  <2>4. CallIsLinked' BY <1>7 DEF PeerConnected, CallIsLinked, CallInv, CallTypeOK
  <2> QED BY <2>1, <2>3, <2>4 DEF CallInv
<1>8. ASSUME NEW p \in Peer, SelectPeer(p) PROVE CallInv'
  <2>1. CallTypeOK' BY <1>8 DEF SelectPeer, CallInv, CallTypeOK
  <2>2. NoOrphanConnection' /\ CallIsOnScreen'
    BY <1>8 DEF SelectPeer, CallInv, CallTypeOK, NoOrphanConnection,
       CallIsOnScreen
  <2>3. link[p] # "connected" BY <1>8 DEF SelectPeer, CallInv, CallIsOnScreen
  <2>4. CallIsLinked'
    BY <1>8, <2>3 DEF SelectPeer, CallInv, CallTypeOK, CallIsLinked, Pending
  <2> QED BY <2>1, <2>2, <2>4 DEF CallInv
<1>9. ASSUME NEW p \in Peer, ConnectionRequest(p) PROVE CallInv'
  <2>1. CASE sessionState = "Disconnected"
    <3>1. CallTypeOK' BY <1>9, <2>1 DEF ConnectionRequest, CallInv, CallTypeOK
    <3>2. NoOrphanConnection' /\ CallIsOnScreen'
      BY <1>9, <2>1 DEF ConnectionRequest, CallInv, CallTypeOK, NoOrphanConnection,
         CallIsOnScreen
    <3>3. CallIsLinked'
      BY <1>9, <2>1 DEF ConnectionRequest, CallInv, CallTypeOK, CallIsLinked,
         Pending
    <3> QED BY <3>1, <3>2, <3>3 DEF CallInv
  <2>2. CASE sessionState # "Disconnected"
    <3>1. CallTypeOK' BY <1>9, <2>2 DEF ConnectionRequest, CallInv, CallTypeOK
    <3> QED BY <1>9, <2>2, <3>1
            DEF ConnectionRequest, CallInv, NoOrphanConnection, CallIsOnScreen,
                CallIsLinked
  <2> QED BY <2>1, <2>2
<1>10. ASSUME NEW p \in Peer, PeerDisconnected(p) PROVE CallInv'
  <2>1. DisconnectCurrentCall BY <1>10 DEF PeerDisconnected
  <2>2. CallTypeOK' BY <1>10, <2>1, CallEnded DEF PeerDisconnected, CallInv, CallTypeOK
  <2> QED BY <2>1, <2>2, CallEnded DEF CallInv
<1>11. ASSUME NEW p \in Peer, PeerAvailable(p) \/ PeerUnavailable(p) PROVE CallInv'
  <2>1. CallTypeOK' BY <1>11 DEF PeerAvailable, PeerUnavailable, gkSession,
                        CallInv, CallTypeOK
  <2> QED BY <1>11, <2>1
          DEF PeerAvailable, PeerUnavailable, gkSession, CallInv,
              NoOrphanConnection,
              CallIsOnScreen, CallIsLinked
<1>12. CASE UNCHANGED callvars
  BY <1>12 DEF callvars, manager, screen, gkSession, CallInv, CallTypeOK,
     NoOrphanConnection,
               CallIsOnScreen, CallIsLinked
<1> QED
  BY <1>1, <1>2, <1>3, <1>4, <1>5, <1>6, <1>7, <1>8, <1>9, <1>10, <1>11, <1>12
  DEF CallNext, AttemptEnds

\* A connection never stands, and is never being set up, without a game screen
\* to take it.
THEOREM NeverOrphaned == CallSpec => []NoOrphanConnection
BY CallStarts, CallGoesOn, PTL DEF CallSpec, CallInv

\* The peer the manager sends to is connected to it, the one it waits for is
\* still being waited for.
THEOREM AlwaysLinked == CallSpec => []CallIsLinked
BY CallStarts, CallGoesOn, PTL DEF CallSpec, CallInv

\* No call stands behind the lobby.
THEOREM AlwaysOnScreen == CallSpec => []CallIsOnScreen
BY CallStarts, CallGoesOn, PTL DEF CallSpec, CallInv

\* Whatever GameKit calls, the manager's variables stay in their types.
THEOREM CallTypes == CallSpec => []CallTypeOK
<1>1. CallInv => CallTypeOK BY DEF CallInv
<1> QED BY <1>1, CallStarts, CallGoesOn, PTL DEF CallSpec

\* The session has a delegate whenever the app is active, and whenever an attempt
\* waits for GameKit's answer.
Listening == (active => delegate) /\ (sessionState = "Connecting" => delegate)

LEMMA ListensOn == Listening /\ [CallNext]_callvars => Listening'
<1> SUFFICES ASSUME Listening, [CallNext]_callvars PROVE Listening' OBVIOUS
<1> USE DEF Listening
<1>1. CASE DismissAlert
  <2>1. delegate' = delegate /\ active' = active /\ sessionState' = "Disconnected"
    BY <1>1 DEF DismissAlert, ConnectionIsDead, SetupSession
  <2> QED BY <2>1
<1>2. CASE LobbyAppears \/ WillResume
  BY <1>2 DEF LobbyAppears, WillResume
<1>3. ASSUME DisconnectCurrentCall PROVE sessionState' = "Disconnected"
  BY <1>3 DEF DisconnectCurrentCall, ConnectionIsDead, SetupSession
<1>4. CASE WillTerminate BY <1>3, <1>4 DEF WillTerminate
<1>5. CASE SessionFailed \/ \E p \in Peer : PeerDisconnected(p)
  BY <1>3, <1>5 DEF SessionFailed, PeerDisconnected
<1>6. ASSUME NEW p \in Peer,
             \/ ConnectionFailed(p) \/ PeerConnected(p) \/ SelectPeer(p)
             \/ ConnectionRequest(p) \/ PeerAvailable(p) \/ PeerUnavailable(p)
      PROVE  Listening'
  BY <1>6 DEF ConnectionFailed, PeerConnected, SelectPeer, ConnectionRequest,
     PeerAvailable, PeerUnavailable, gkSession
<1>7. CASE UNCHANGED callvars BY <1>7 DEF callvars, manager, gkSession
<1> QED BY <1>1, <1>2, <1>4, <1>5, <1>6, <1>7 DEF CallNext, AttemptEnds

\* An attempt is never waited for in vain: GameKit still owes an answer to it,
\* the session still has somebody to hear that, and whichever answer comes, to
\* this attempt or an earlier one, ends the wait.
THEOREM AnswersAreHeard ==
    CallSpec => /\ [](sessionState = "Connecting" =>
                        delegate /\ link[currentConfPeerID] \in Pending)
                /\ [][AttemptEnds => sessionState' # "Connecting"]_callvars
<1>1. CallInit => Listening BY DEF CallInit, Listening
<1>2. CallInv /\ Listening
        => (sessionState = "Connecting" => delegate /\ link[currentConfPeerID] \in Pending)
  BY DEF CallInv, CallIsLinked, Listening
<1>3. [CallNext]_callvars => [AttemptEnds => sessionState' # "Connecting"]_callvars
  BY DEF AttemptEnds, ConnectionFailed, PeerConnected
<1> QED BY <1>1, <1>2, <1>3, ListensOn, CallStarts, CallGoesOn, PTL DEF CallSpec
=============================================================================
