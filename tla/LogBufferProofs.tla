-------------------------- MODULE LogBufferProofs --------------------------
(***************************************************************************)
(* LogBuffer implements BoundedFifo for every LOG_BUFFER_SIZE of at least  *)
(* two and loses no message.  The arithmetic modulo the size is replaced   *)
(* by case distinctions first; the argument is then which slot is which.   *)
(***************************************************************************)
EXTENDS LogBuffer, SequenceTheorems, TLAPS

N == LOG_BUFFER_SIZE

\* Number of messages, and slot of the i-th, of a ring with head h and tail t.
Cnt(h, t) == IF t >= h THEN t - h ELSE N - h + t
At(h, i) == IF h + i - 1 < N THEN h + i - 1 ELSE h + i - 1 - N

\* The slots between h and t of ring b are filled, and what they hold.
FilledRing(b, h, t) == \A i \in 1 .. Cnt(h, t) : b[At(h, i)] \in Messages
Ring(b, h, t) == [i \in 1 .. (t - h) % N |-> b[(h + i - 1) % N]]

\* c is what they hold, oldest first.
Holds(c, b, h, t) ==
  /\ c \in Seq(Messages)
  /\ Len(c) = Cnt(h, t)
  /\ \A i \in 1 .. Cnt(h, t) : c[i] = b[At(h, i)]

Filled == FilledRing(buffer, head, tail)

IInv == LogTypeOK /\ Filled /\ NothingLost

-----------------------------------------------------------------------------
\* x % N where x lies one ring's length around 0 .. N - 1.
LEMMA ModFacts ==
  /\ \A x \in 0 .. N - 1 : x % N = x
  /\ \A x \in N .. 2 * N - 1 : x % N = x - N
  /\ \A x \in -N .. -1 : x % N = x + N
<1> USE SizeAssumption DEF N
<1>1. ASSUME NEW x \in 0 .. N - 1 PROVE x % N = x
  BY <1>1
<1>2. ASSUME NEW x \in N .. 2 * N - 1 PROVE x % N = x - N
  BY <1>2
<1>3. ASSUME NEW x \in -N .. -1 PROVE x % N = x + N
  BY <1>3
<1>4. QED BY <1>1, <1>2, <1>3

\* The code's modular expressions for the number of messages and for the slot
\* of the i-th one, as plain sums and differences.
LEMMA RingFacts ==
  ASSUME NEW h \in Slots, NEW t \in Slots
  PROVE  /\ (t - h) % N = Cnt(h, t)
         /\ Cnt(h, t) \in 0 .. N - 1
         /\ \A i \in 1 .. Cnt(h, t) : (h + i - 1) % N = At(h, i) /\ At(h, i) \in Slots
         /\ Succ(h) \in Slots
         /\ Succ(h) = IF h + 1 = N THEN 0 ELSE h + 1
<1>0. N \in Nat \ {0, 1} /\ Slots = 0 .. N - 1
  BY SizeAssumption DEF N, Slots
<1>1. (t - h) % N = Cnt(h, t)
  <2>1. CASE t >= h
    <3>1. t - h \in 0 .. N - 1
      BY <1>0, <2>1
    <3>2. QED BY <2>1, <3>1, ModFacts DEF Cnt
  <2>2. CASE ~(t >= h)
    <3>1. t - h \in -N .. -1 /\ (t - h) + N = N - h + t
      BY <1>0, <2>2
    <3>2. QED BY <2>2, <3>1, ModFacts DEF Cnt
  <2>3. QED BY <2>1, <2>2
<1>2. Cnt(h, t) \in 0 .. N - 1
  BY <1>0 DEF Cnt
<1>3. ASSUME NEW i \in 1 .. Cnt(h, t)
      PROVE  (h + i - 1) % N = At(h, i) /\ At(h, i) \in Slots
  <2>1. h + i - 1 \in 0 .. 2 * N - 1
    BY <1>0, <1>2
  <2>2. CASE h + i - 1 < N
    <3>1. h + i - 1 \in 0 .. N - 1
      BY <1>0, <2>1, <2>2
    <3>2. QED BY <1>0, <2>2, <3>1, ModFacts DEF At
  <2>3. CASE ~(h + i - 1 < N)
    <3>1. h + i - 1 \in N .. 2 * N - 1 /\ h + i - 1 - N \in 0 .. N - 1
      BY <1>0, <1>2, <2>1, <2>3
    <3>2. PICK x \in N .. 2 * N - 1 : x = h + i - 1
      BY <3>1
    <3>3. x % N = x - N
      BY ModFacts, Zenon
    <3>4. (h + i - 1) % N = x - N
      BY <3>2, <3>3, Zenon
    <3>5. QED BY <1>0, <2>3, <3>1, <3>2, <3>4 DEF At
  <2>4. QED BY <2>2, <2>3
<1>4. Succ(h) = IF h + 1 = N THEN 0 ELSE h + 1
  <2>1. CASE h + 1 = N
    <3>1. h + 1 \in N .. 2 * N - 1 /\ (h + 1) - N = 0
      BY <1>0, <2>1
    <3>2. QED BY <2>1, <3>1, ModFacts DEF Succ, N
  <2>2. CASE h + 1 # N
    <3>1. h + 1 \in 0 .. N - 1
      BY <1>0, <2>2
    <3>2. QED BY <2>2, <3>1, ModFacts DEF Succ, N
  <2>3. QED BY <2>1, <2>2
<1>5. Succ(h) \in Slots
  BY <1>0, <1>4
<1>6. QED BY <1>1, <1>2, <1>3, <1>4, <1>5

\* The contents are a sequence of messages.
LEMMA ContentsFacts ==
  ASSUME NEW b, NEW h \in Slots, NEW t \in Slots, FilledRing(b, h, t)
  PROVE  Holds(Ring(b, h, t), b, h, t)
<1> DEFINE n == Cnt(h, t)
<1>1. /\ (t - h) % N = n
      /\ n \in 0 .. N - 1
      /\ \A i \in 1 .. n : (h + i - 1) % N = At(h, i)
  BY RingFacts
<1>2. Ring(b, h, t) = [i \in 1 .. n |-> b[At(h, i)]]
  BY <1>1 DEF Ring
<1>3. n \in Nat
  BY <1>1, SizeAssumption DEF N
<1>4. \A i \in 1 .. n : b[At(h, i)] \in Messages
  BY DEF FilledRing
<1> HIDE DEF n
<1>5. Ring(b, h, t) \in Seq(Messages) /\ Len(Ring(b, h, t)) = n
  BY <1>2, <1>3, <1>4
<1>6. QED BY <1>2, <1>5 DEF n, Holds

\* The contents are the slots from head on, as many as the distance to tail.
LEMMA ContentsIsRing ==
  Contents = Ring(buffer, head, tail) /\ Contents' = Ring(buffer', head', tail')
BY DEF Contents, Ring, N

\* What the consumer holds is a sequence of messages.
LEMMA MessageSeq == {<<>>} \cup {<<m>> : m \in Messages} \subseteq Seq(Messages)
<1>1. ASSUME NEW m \in Messages PROVE <<m>> \in Seq(Messages)
  OBVIOUS
<1>2. QED BY <1>1, EmptySeq

-----------------------------------------------------------------------------
\* enqueue appends to the contents: the slot at tail is none of theirs.
LEMMA EnqueueStep ==
  ASSUME IInv, NEW m \in Messages, Enqueue(m)
  PROVE  IInv' /\ Contents' = Append(Contents, m) /\ Len(Contents) < N - 1
<1> DEFINE n == Cnt(head, tail)
<1>1. /\ head \in Slots /\ tail \in Slots /\ buffer \in [Slots -> Messages \cup {<<>>}]
      /\ buffer' = [buffer EXCEPT ![tail] = m]
      /\ tail' = Succ(tail) /\ head' = head /\ tail' # head
      /\ accepted' = Append(accepted, m)
      /\ UNCHANGED <<consumer_running, message, serial, console>>
  BY DEF IInv, LogTypeOK, Enqueue, IsFull
<1>2. N \in Nat \ {0, 1} /\ Slots = 0 .. N - 1
  BY SizeAssumption DEF N, Slots
<1>3. tail' \in Slots /\ tail' = IF tail + 1 = N THEN 0 ELSE tail + 1
  BY <1>1, RingFacts
<1>4. n \in 0 .. N - 1 /\ \A i \in 1 .. n : At(head, i) \in Slots
  BY <1>1, RingFacts
<1>5. Cnt(head', tail') = n + 1 /\ n < N - 1
  BY <1>1, <1>2, <1>3 DEF Cnt
<1>6. At(head, n + 1) = tail /\ \A i \in 1 .. n : At(head, i) # tail
  BY <1>1, <1>2 DEF Cnt, At
<1>7. \A i \in 1 .. n : buffer'[At(head, i)] = buffer[At(head, i)]
  BY <1>1, <1>4, <1>6
<1>8. buffer'[At(head, n + 1)] = m
  BY <1>1, <1>6
<1>9. Filled'
  <2>1. ASSUME NEW i \in 1 .. n + 1 PROVE buffer'[At(head, i)] \in Messages
    <3>1. CASE i = n + 1
      BY <1>8, <3>1
    <3>2. CASE i # n + 1
      <4>1. i \in 1 .. n
        BY <1>4, <3>2
      <4>2. QED BY <1>7, <4>1 DEF IInv, Filled, FilledRing
    <3>3. QED BY <3>1, <3>2
  <2>2. QED BY <1>1, <1>5, <2>1 DEF Filled, FilledRing
<1>10. LogTypeOK'
  <2>1. accepted' \in Seq(Messages)
    BY <1>1 DEF IInv, LogTypeOK
  <2>2. buffer' \in [Slots -> Messages \cup {<<>>}]
    BY <1>1
  <2>3. QED BY <1>1, <1>3, <2>1, <2>2 DEF IInv, LogTypeOK
<1>11. /\ Contents \in Seq(Messages) /\ Len(Contents) = n
       /\ \A i \in 1 .. n : Contents[i] = buffer[At(head, i)]
  <2>1. Holds(Contents, buffer, head, tail)
    BY <1>1, ContentsFacts, ContentsIsRing, Zenon DEF IInv, Filled
  <2>2. QED BY <2>1 DEF Holds
<1>12. /\ Contents' \in Seq(Messages) /\ Len(Contents') = n + 1
       /\ \A i \in 1 .. n + 1 : Contents'[i] = buffer'[At(head, i)]
  <2>1. FilledRing(buffer', head', tail')
    BY <1>9 DEF Filled
  <2>2. Holds(Contents', buffer', head', tail')
    BY <1>1, <1>3, <2>1, ContentsFacts, ContentsIsRing, Zenon
  <2>3. QED BY <1>1, <1>5, <2>2 DEF Holds
<1> HIDE DEF n
<1>13. Contents' = Append(Contents, m)
  <2>1. /\ Append(Contents, m) \in Seq(Messages)
        /\ Len(Append(Contents, m)) = n + 1
        /\ \A i \in 1 .. n : Append(Contents, m)[i] = Contents[i]
        /\ Append(Contents, m)[n + 1] = m
    BY <1>11, AppendProperties
  <2>2. ASSUME NEW i \in 1 .. n + 1 PROVE Contents'[i] = Append(Contents, m)[i]
    <3>1. CASE i = n + 1
      BY <1>8, <1>12, <2>1, <3>1
    <3>2. CASE i # n + 1
      <4>1. i \in 1 .. n
        BY <1>4, <3>2
      <4>2. QED BY <1>7, <1>11, <1>12, <2>1, <4>1
    <3>3. QED BY <3>1, <3>2
  <2>3. QED BY <1>12, <2>1, <2>2, SeqEqual
<1>14. NothingLost'
  <2>1. serial \in Seq(Messages) /\ message \in Seq(Messages)
    BY MessageSeq DEF IInv, LogTypeOK
  <2>2. serial \o message \in Seq(Messages)
    BY <2>1, ConcatProperties
  <2>3. (serial \o message) \o Append(Contents, m) = Append((serial \o message) \o Contents, m)
    BY <1>11, <2>2
  <2>4. QED BY <1>1, <1>13, <2>3 DEF IInv, NothingLost
<1>15. QED BY <1>5, <1>9, <1>10, <1>11, <1>13, <1>14 DEF IInv, n

\* dequeue removes the head of the contents.
LEMMA DequeueStep ==
  ASSUME IInv, Dequeue
  PROVE  /\ IInv'
         /\ Contents # <<>> /\ message = <<>>
         /\ Contents' = Tail(Contents) /\ message' = <<Head(Contents)>>
<1> DEFINE n == Cnt(head, tail)
<1>1. /\ head \in Slots /\ tail \in Slots /\ head # tail
      /\ message = <<>> /\ message' = <<buffer[head]>>
      /\ head' = Succ(head)
      /\ UNCHANGED <<buffer, tail, consumer_running, serial, console, accepted>>
  BY DEF IInv, LogTypeOK, Dequeue, IsEmpty
<1>2. N \in Nat \ {0, 1} /\ Slots = 0 .. N - 1
  BY SizeAssumption DEF N, Slots
<1>3. head' \in Slots /\ head' = IF head + 1 = N THEN 0 ELSE head + 1
  BY <1>1, RingFacts
<1>4. n \in 1 .. N - 1 /\ Cnt(head', tail') = n - 1
  BY <1>1, <1>2, <1>3 DEF Cnt
<1>5. At(head, 1) = head /\ \A i \in 1 .. n - 1 : At(head', i) = At(head, i + 1)
  <2>1. At(head, 1) = head
    BY <1>1, <1>2 DEF At
  <2>2. ASSUME NEW i \in 1 .. n - 1 PROVE At(head', i) = At(head, i + 1)
    <3>1. CASE head + 1 = N
      BY <1>1, <1>2, <1>3, <1>4, <3>1 DEF At
    <3>2. CASE head + 1 # N
      BY <1>1, <1>2, <1>3, <1>4, <3>2 DEF At
    <3>3. QED BY <3>1, <3>2
  <2>3. QED BY <2>1, <2>2
<1>6. /\ Contents \in Seq(Messages) /\ Len(Contents) = n
      /\ \A i \in 1 .. n : Contents[i] = buffer[At(head, i)]
  <2>1. Holds(Contents, buffer, head, tail)
    BY <1>1, ContentsFacts, ContentsIsRing, Zenon DEF IInv, Filled
  <2>2. QED BY <2>1 DEF Holds
<1>7. Contents # <<>> /\ Head(Contents) = buffer[head] /\ buffer[head] \in Messages
  <2>1. Contents # <<>>
    BY <1>4, <1>6
  <2>2. Head(Contents) = Contents[1] /\ Contents[1] \in Messages
    BY <1>4, <1>6, ElementOfSeq
  <2>3. QED BY <1>4, <1>5, <1>6, <2>1, <2>2
<1>8. Filled'
  <2>1. ASSUME NEW i \in 1 .. n - 1 PROVE buffer'[At(head', i)] \in Messages
    <3>1. i + 1 \in 1 .. n
      BY <1>4
    <3>2. QED BY <1>1, <1>5, <3>1 DEF IInv, Filled, FilledRing
  <2>2. QED BY <1>4, <2>1 DEF Filled, FilledRing
<1>9. LogTypeOK'
  BY <1>1, <1>3, <1>7 DEF IInv, LogTypeOK
<1>10. /\ Contents' \in Seq(Messages) /\ Len(Contents') = n - 1
       /\ \A i \in 1 .. n - 1 : Contents'[i] = buffer[At(head, i + 1)]
  <2>1. FilledRing(buffer', head', tail') /\ tail' \in Slots
    BY <1>1, <1>8 DEF Filled
  <2>2. Holds(Contents', buffer', head', tail')
    BY <1>3, <2>1, ContentsFacts, ContentsIsRing, Zenon
  <2>3. QED BY <1>1, <1>4, <1>5, <2>2 DEF Holds
<1> HIDE DEF n
<1>11. Contents' = Tail(Contents)
  <2>1. /\ Tail(Contents) \in Seq(Messages)
        /\ Len(Tail(Contents)) = n - 1
        /\ \A i \in 1 .. n - 1 : Tail(Contents)[i] = Contents[i + 1]
    BY <1>6, <1>7, HeadTailProperties
  <2>2. ASSUME NEW i \in 1 .. n - 1 PROVE Contents'[i] = Tail(Contents)[i]
    <3>1. i + 1 \in 1 .. n
      BY <1>4
    <3>2. QED BY <1>6, <1>10, <2>1, <3>1
  <2>3. QED BY <1>10, <2>1, <2>2, SeqEqual
<1>12. NothingLost'
  <2>1. serial \in Seq(Messages) /\ <<Head(Contents)>> \in Seq(Messages)
    BY <1>7 DEF IInv, LogTypeOK
  <2>2. /\ Tail(Contents) \in Seq(Messages)
        /\ <<Head(Contents)>> \o Tail(Contents) = Contents
    BY <1>6, <1>7, HeadTailProperties
  <2>3. (serial \o <<Head(Contents)>>) \o Tail(Contents) = serial \o Contents
    BY <2>1, <2>2, ConcatAssociative
  <2>4. (serial \o <<>>) \o Contents = serial \o Contents
    BY <2>1, ConcatEmptySeq
  <2>5. QED BY <1>1, <1>7, <1>11, <2>3, <2>4 DEF IInv, NothingLost
<1>13. QED BY <1>1, <1>7, <1>8, <1>9, <1>11, <1>12 DEF IInv

\* The output takes the consumer's message and leaves the ring alone.
LEMMA OutputStep ==
  ASSUME IInv, Output
  PROVE  IInv' /\ message # <<>> /\ message' = <<>> /\ Contents' = Contents
<1>1. /\ message # <<>> /\ message' = <<>>
      /\ serial' = serial \o message
      /\ console' = IF Head(message) \in Errors THEN console \o message ELSE console
      /\ UNCHANGED <<buffer, head, tail, consumer_running, accepted>>
  BY DEF Output
<1>2. PICK m \in Messages : message = <<m>>
  BY <1>1 DEF IInv, LogTypeOK
<1>3. LogTypeOK'
  <2>1. serial' \in Seq(Messages)
    BY <1>1, <1>2 DEF IInv, LogTypeOK
  <2>2. console' \in Seq(Errors)
    BY <1>1, <1>2 DEF IInv, LogTypeOK
  <2>3. QED BY <1>1, <2>1, <2>2 DEF IInv, LogTypeOK
<1>4. Contents' = Contents /\ Filled'
  BY <1>1 DEF Contents, IInv, Filled
<1>5. NothingLost'
  <2>1. serial \o message \in Seq(Messages)
    BY <1>2 DEF IInv, LogTypeOK
  <2>2. (serial \o message) \o <<>> = serial \o message
    BY <2>1, ConcatEmptySeq
  <2>3. QED BY <1>1, <1>4, <2>2 DEF IInv, NothingLost
<1>6. QED BY <1>1, <1>3, <1>4, <1>5 DEF IInv

\* start_consumer, and steps that change nothing.
LEMMA OtherStep ==
  ASSUME IInv, StartConsumer \/ UNCHANGED logVars
  PROVE  IInv' /\ Contents' = Contents /\ message' = message
<1>1. /\ UNCHANGED <<buffer, head, tail, message, serial, console, accepted>>
      /\ consumer_running' \in BOOLEAN
  BY DEF StartConsumer, logVars, IInv, LogTypeOK
<1>2. Contents' = Contents /\ Filled'
  BY <1>1 DEF Contents, IInv, Filled
<1>3. QED BY <1>1, <1>2 DEF IInv, LogTypeOK, NothingLost

\* init() leaves the buffer empty.
LEMMA InitInv == LogInit => IInv /\ Contents = <<>>
<1> SUFFICES ASSUME LogInit PROVE IInv /\ Contents = <<>>
  OBVIOUS
<1>1. N \in Nat \ {0, 1} /\ Slots = 0 .. N - 1 /\ head = 0 /\ tail = 0
  BY SizeAssumption DEF N, Slots, LogInit
<1>2. Cnt(head, tail) = 0
  BY <1>1 DEF Cnt
<1>3. Filled
  BY <1>2 DEF Filled, FilledRing
<1>4. Contents \in Seq(Messages) /\ Len(Contents) = 0
  <2>1. head \in Slots /\ tail \in Slots
    BY <1>1
  <2>2. Holds(Contents, buffer, head, tail)
    BY <1>3, <2>1, ContentsFacts, ContentsIsRing, Zenon DEF Filled
  <2>3. QED BY <1>2, <2>2 DEF Holds
<1>5. Contents = <<>>
  BY <1>4, EmptySeq
<1>6. LogTypeOK
  <2>1. <<>> \in Seq(Messages) /\ <<>> \in Seq(Errors)
    BY EmptySeq
  <2>2. 0 \in Slots
    BY <1>1
  <2>3. QED BY <2>1, <2>2 DEF LogInit, LogTypeOK
<1>7. NothingLost
  BY <1>5 DEF LogInit, NothingLost
<1>8. QED BY <1>3, <1>5, <1>6, <1>7 DEF IInv

-----------------------------------------------------------------------------
\* The inductive invariant holds in every reachable state.
THEOREM Invariance == LogSpec => []IInv
<1>1. IInv /\ [LogNext]_logVars => IInv'
  BY EnqueueStep, DequeueStep, OutputStep, OtherStep DEF LogNext
<1>2. QED BY <1>1, InitInv, PTL DEF LogSpec

\* Every accepted message is printed, in the consumer's hands or in the
\* buffer, in the order of acceptance, for every size of the buffer.
THEOREM NothingLostHolds == LogSpec => []NothingLost
<1>1. IInv => NothingLost
  BY DEF IInv
<1>2. QED BY <1>1, Invariance, PTL

\* get_message_count returns the number of messages in the buffer.
THEOREM CountExactHolds == LogSpec => []CountExact
<1>1. IInv => CountExact
  <2> SUFFICES ASSUME IInv PROVE CountExact
    OBVIOUS
  <2>1. Len(Contents) = Cnt(head, tail)
    BY ContentsFacts, ContentsIsRing DEF IInv, LogTypeOK, Filled, Holds
  <2>2. QED BY <2>1 DEF CountExact, GetMessageCount, Cnt, N
<1>2. QED BY <1>1, Invariance, PTL

\* The ring buffer with its wrapping indices is a bounded first-in first-out
\* queue.
THEOREM Refinement == LogSpec => ImplementsFifo
<1>1. LogInit => Fifo!Init
  BY InitInv DEF LogInit, Fifo!Init
<1>2. IInv /\ [LogNext]_logVars => [Fifo!Next]_<<Contents, message>>
  <2> SUFFICES ASSUME IInv, [LogNext]_logVars PROVE [Fifo!Next]_<<Contents, message>>
    OBVIOUS
  <2>1. ASSUME NEW m \in Messages, Enqueue(m) PROVE Fifo!Put(m)
    <3>1. message' = message
      BY <2>1 DEF Enqueue
    <3>2. QED BY <2>1, <3>1, EnqueueStep DEF Fifo!Put, N
  <2>2. ASSUME Dequeue PROVE Fifo!Get
    BY <2>2, DequeueStep DEF Fifo!Get
  <2>3. ASSUME Output PROVE Fifo!Finish
    BY <2>3, OutputStep DEF Fifo!Finish
  <2>4. CASE StartConsumer \/ UNCHANGED logVars
    BY <2>4, OtherStep
  <2>5. QED BY <2>1, <2>2, <2>3, <2>4 DEF LogNext, Fifo!Next
<1>3. QED BY <1>1, <1>2, Invariance, PTL DEF LogSpec, ImplementsFifo, Fifo!Spec

=============================================================================
