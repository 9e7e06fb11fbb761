---------------------------- MODULE QueueLemmas ----------------------------
(***************************************************************************)
(* What the queue operations of the kernel do to a sequence without        *)
(* duplicates: which elements it holds afterwards, each of them once.      *)
(***************************************************************************)
EXTENDS Integers, Sequences, Functions, SequenceTheorems, TLAPS

\* Appending an element that is not on the queue adds it, once: list_add_tail,
\* Mutex::addWaiter.
LEMMA AppendFacts ==
  ASSUME NEW S, NEW s \in Seq(S), NEW e \in S
  PROVE  /\ Append(s, e) \in Seq(S)
         /\ Len(Append(s, e)) = Len(s) + 1
         /\ Range(Append(s, e)) = Range(s) \cup {e}
         /\ IsInjective(s) /\ e \notin Range(s) => IsInjective(Append(s, e))
<1>1. /\ Append(s, e) \in Seq(S)
      /\ Len(Append(s, e)) = Len(s) + 1
      /\ \A i \in 1 .. Len(s) : Append(s, e)[i] = s[i]
      /\ Append(s, e)[Len(s) + 1] = e
  BY AppendProperties
<1>2. Len(s) \in Nat /\ DOMAIN s = 1 .. Len(s) /\ DOMAIN Append(s, e) = 1 .. Len(s) + 1
  BY <1>1, LenProperties
<1>3. Range(Append(s, e)) = Range(s) \cup {e}
  BY <1>1, <1>2 DEF Range
<1>4. ASSUME IsInjective(s), e \notin Range(s) PROVE IsInjective(Append(s, e))
  BY <1>1, <1>2, <1>4 DEF Range, IsInjective
<1>5. QED BY <1>1, <1>3, <1>4

\* Taking the head off a queue without duplicates removes that element:
\* list_del_init, Mutex::wakeNextWaiter.
LEMMA TailFacts ==
  ASSUME NEW S, NEW s \in Seq(S), s # <<>>
  PROVE  /\ Head(s) \in S
         /\ Head(s) \in Range(s)
         /\ Tail(s) \in Seq(S)
         /\ Len(Tail(s)) = Len(s) - 1
         /\ IsInjective(s) => Range(Tail(s)) = Range(s) \ {Head(s)}
         /\ IsInjective(s) => IsInjective(Tail(s))
<1>1. /\ Head(s) \in S
      /\ Tail(s) \in Seq(S)
      /\ Len(Tail(s)) = Len(s) - 1
      /\ \A i \in 1 .. Len(Tail(s)) : Tail(s)[i] = s[i + 1]
  BY HeadTailProperties
<1>2. /\ Len(s) \in Nat \ {0}
      /\ DOMAIN s = 1 .. Len(s)
      /\ DOMAIN Tail(s) = 1 .. Len(s) - 1
      /\ Head(s) = s[1]
  BY <1>1, LenProperties, EmptySeq, HeadTailProperties
<1>3. Head(s) \in Range(s)
  BY <1>2 DEF Range
<1>4. ASSUME IsInjective(s)
      PROVE  Range(Tail(s)) = Range(s) \ {Head(s)} /\ IsInjective(Tail(s))
  <2>1. ASSUME NEW x \in Range(Tail(s)) PROVE x \in Range(s) \ {Head(s)}
    BY <1>1, <1>2, <1>4 DEF Range, IsInjective
  <2>2. ASSUME NEW x \in Range(s), x # Head(s) PROVE x \in Range(Tail(s))
    <3>1. PICK i \in 1 .. Len(s) : x = s[i]
      BY <1>2 DEF Range
    <3>2. i - 1 \in 1 .. Len(s) - 1 /\ Tail(s)[i - 1] = s[(i - 1) + 1]
      BY <1>1, <1>2, <2>2, <3>1
    <3>3. x = Tail(s)[i - 1]
      BY <3>1, <3>2
    <3>4. QED BY <1>2, <3>2, <3>3 DEF Range
  <2>3. IsInjective(Tail(s))
    BY <1>1, <1>2, <1>4 DEF IsInjective
  <2>4. QED BY <2>1, <2>2, <2>3
<1>5. QED BY <1>1, <1>3, <1>4

\* Adding an element that is not on the queue at its front: insert into a free
\* list.
LEMMA ConsFacts ==
  ASSUME NEW S, NEW s \in Seq(S), NEW e \in S
  PROVE  /\ <<e>> \o s \in Seq(S)
         /\ Range(<<e>> \o s) = Range(s) \cup {e}
         /\ IsInjective(s) /\ e \notin Range(s) => IsInjective(<<e>> \o s)
<1> DEFINE r == <<e>> \o s
<1>1. /\ <<e>> \in Seq(S) /\ Len(<<e>>) = 1 /\ <<e>>[1] = e
      /\ Len(s) \in Nat /\ DOMAIN s = 1 .. Len(s)
  BY LenProperties
<1>2. /\ r \in Seq(S)
      /\ Len(r) = 1 + Len(s)
      /\ \A i \in 1 .. 1 + Len(s) : r[i] = IF i <= 1 THEN <<e>>[i] ELSE s[i - 1]
  BY <1>1, ConcatProperties
<1> HIDE DEF r
<1>3. DOMAIN r = 1 .. 1 + Len(s) /\ r[1] = e
  BY <1>1, <1>2, LenProperties
<1>4. \A i \in 1 .. Len(s) : i + 1 \in DOMAIN r /\ r[i + 1] = s[i]
  BY <1>1, <1>2, <1>3
<1>5. \A j \in DOMAIN r : j # 1 => j - 1 \in 1 .. Len(s) /\ r[j] = s[j - 1]
  BY <1>1, <1>2, <1>3
<1>6. 1 \in DOMAIN r
  BY <1>1, <1>3
<1>7. Range(r) = Range(s) \cup {e}
  <2>1. ASSUME NEW x \in Range(r) PROVE x \in Range(s) \cup {e}
    BY <1>1, <1>3, <1>5, <2>1 DEF Range
  <2>2. ASSUME NEW x \in Range(s) PROVE x \in Range(r)
    BY <1>1, <1>4, <2>2 DEF Range
  <2>3. e \in Range(r)
    BY <1>3, <1>6 DEF Range
  <2>4. QED BY <2>1, <2>2, <2>3
<1>8. ASSUME IsInjective(s), e \notin Range(s) PROVE IsInjective(r)
  <2>1. ASSUME NEW j \in DOMAIN r, NEW k \in DOMAIN r, r[j] = r[k] PROVE j = k
    <3>1. \A i \in 1 .. Len(s) : s[i] # e
      BY <1>1, <1>8 DEF Range
    <3>2. j = 1 <=> k = 1
      BY <1>3, <1>5, <2>1, <3>1
    <3>3. CASE j # 1
      <4>1. s[j - 1] = s[k - 1] /\ j - 1 \in 1 .. Len(s) /\ k - 1 \in 1 .. Len(s)
        BY <1>5, <2>1, <3>2, <3>3
      <4>2. j - 1 = k - 1
        BY <1>1, <1>8, <4>1 DEF IsInjective
      <4>3. QED BY <1>1, <1>3, <4>2
    <3>4. QED BY <3>2, <3>3
  <2>2. QED BY <2>1 DEF IsInjective
<1>9. QED BY <1>2, <1>7, <1>8 DEF r

\* The empty queue.
LEMMA EmptyQueue == Range(<<>>) = {} /\ IsInjective(<<>>) /\ Len(<<>>) = 0
BY DEF Range, IsInjective

\* a is s before position i, b is s after it, r is s without it.
Before(s, i, a) == Len(a) = i - 1 /\ \A j \in 1 .. i - 1 : a[j] = s[j]
After(s, i, b) == Len(b) = Len(s) - i /\ \A j \in 1 .. Len(s) - i : b[j] = s[i + j]
Without(s, i, r) ==
  /\ Len(r) = Len(s) - 1
  /\ \A j \in 1 .. Len(s) - 1 : r[j] = IF j < i THEN s[j] ELSE s[j + 1]

\* Joining what is before position i of s with what is after it gives s
\* without that position.
LEMMA JoinFacts ==
  ASSUME NEW S, NEW a \in Seq(S), NEW b \in Seq(S), NEW s \in Seq(S),
         NEW i \in 1 .. Len(s), Before(s, i, a), After(s, i, b)
  PROVE  a \o b \in Seq(S) /\ Without(s, i, a \o b)
<1> USE DEF Before, After
<1>0. Len(s) \in Nat
  BY LenProperties
<1>1. /\ a \o b \in Seq(S)
      /\ Len(a \o b) = Len(a) + Len(b)
      /\ \A j \in 1 .. Len(a) + Len(b) :
           (a \o b)[j] = IF j <= Len(a) THEN a[j] ELSE b[j - Len(a)]
  BY ConcatProperties, Zenon
<1>2. Len(a) + Len(b) = Len(s) - 1
  BY <1>0
<1> DEFINE r == a \o b
<1>3. \A j \in 1 .. Len(s) - 1 : r[j] = IF j <= i - 1 THEN a[j] ELSE b[j - (i - 1)]
  BY <1>1, <1>2, Zenon
<1> HIDE DEF r
<1>4. ASSUME NEW j \in 1 .. Len(s) - 1 PROVE r[j] = IF j < i THEN s[j] ELSE s[j + 1]
  <2>1. CASE j < i
    BY <1>0, <1>3, <2>1
  <2>2. CASE ~(j < i)
    <3>1. j - (i - 1) \in 1 .. Len(s) - i /\ i + (j - (i - 1)) = j + 1
      BY <1>0, <2>2
    <3>2. b[j - (i - 1)] = s[i + (j - (i - 1))]
      BY <1>0, <3>1
    <3>3. QED BY <1>0, <1>3, <2>2, <3>1, <3>2
  <2>3. QED BY <2>1, <2>2
<1>5. QED BY <1>1, <1>2, <1>4, Zenon DEF r, Without

\* A queue without duplicates that lacks position i of another one lacks the
\* element that is there, and only that one.
LEMMA GapFacts ==
  ASSUME NEW S, NEW s \in Seq(S), NEW i \in 1 .. Len(s), IsInjective(s),
         NEW r \in Seq(S), Without(s, i, r)
  PROVE  Range(r) = Range(s) \ {s[i]} /\ IsInjective(r)
<1>1. /\ Len(s) \in Nat
      /\ DOMAIN s = 1 .. Len(s)
      /\ DOMAIN r = 1 .. Len(s) - 1
      /\ \A j \in 1 .. Len(s) - 1 : r[j] = IF j < i THEN s[j] ELSE s[j + 1]
  BY LenProperties DEF Without
<1> DEFINE K(j) == IF j < i THEN j ELSE j + 1
<1>K. \A j \in 1 .. Len(s) - 1 : K(j) \in 1 .. Len(s) /\ K(j) # i /\ r[j] = s[K(j)]
  BY <1>1
<1>I. \A j, k \in 1 .. Len(s) - 1 : K(j) = K(k) => j = k
  BY <1>1
<1>S. \A j, k \in 1 .. Len(s) : s[j] = s[k] => j = k
  BY <1>1, Zenon DEF IsInjective
<1> HIDE DEF K
<1>2. ASSUME NEW x \in Range(r) PROVE x \in Range(s) \ {s[i]}
  <2>1. PICK j \in 1 .. Len(s) - 1 : x = r[j]
    BY <1>1, <1>2, Zenon DEF Range
  <2>2. x = s[K(j)] /\ K(j) \in 1 .. Len(s) /\ K(j) # i
    BY <1>K, <2>1, Zenon
  <2>3. x # s[i]
    BY <1>S, <2>2, Zenon
  <2>4. x \in Range(s)
    BY <1>1, <2>2, Zenon DEF Range
  <2>5. QED BY <2>3, <2>4
<1>3. ASSUME NEW x \in Range(s), x # s[i] PROVE x \in Range(r)
  <2>1. PICK j \in 1 .. Len(s) : x = s[j] /\ j # i
    BY <1>1, <1>3 DEF Range
  <2>2. CASE j < i
    <3>1. j \in 1 .. Len(s) - 1 /\ r[j] = x
      BY <1>1, <2>1, <2>2
    <3>2. QED BY <1>1, <3>1, Zenon DEF Range
  <2>3. CASE j > i
    <3>1. j - 1 \in 1 .. Len(s) - 1 /\ ~(j - 1 < i) /\ (j - 1) + 1 = j
      BY <1>1, <2>3
    <3>2. r[j - 1] = x
      BY <1>1, <2>1, <3>1
    <3>3. QED BY <1>1, <3>1, <3>2, Zenon DEF Range
  <2>4. QED BY <1>1, <2>1, <2>2, <2>3
<1>4. IsInjective(r)
  <2>1. ASSUME NEW j \in DOMAIN r, NEW k \in DOMAIN r, r[j] = r[k] PROVE j = k
    <3>1. j \in 1 .. Len(s) - 1 /\ k \in 1 .. Len(s) - 1
      BY <1>1
    <3>2. K(j) \in 1 .. Len(s) /\ K(k) \in 1 .. Len(s) /\ s[K(j)] = s[K(k)]
      BY <1>K, <2>1, <3>1, Zenon
    <3>3. K(j) = K(k)
      BY <1>S, <3>2, Zenon
    <3>4. QED BY <1>I, <3>1, <3>3, Zenon
  <2>2. QED BY <2>1, Zenon DEF IsInjective
<1>5. QED BY <1>2, <1>3, <1>4

\* Cutting position i out of a queue without duplicates removes the element
\* that is there: Mutex::removeWaiter.
LEMMA CutFacts ==
  ASSUME NEW S, NEW s \in Seq(S), NEW i \in 1 .. Len(s), IsInjective(s)
  PROVE  LET r == SubSeq(s, 1, i - 1) \o SubSeq(s, i + 1, Len(s))
         IN  r \in Seq(S) /\ Range(r) = Range(s) \ {s[i]} /\ IsInjective(r)
<1> DEFINE a == SubSeq(s, 1, i - 1)
           b == SubSeq(s, i + 1, Len(s))
           r == a \o b
<1>1. Len(s) \in Nat /\ \A j \in 1 .. Len(s) : s[j] \in S
  BY LenProperties, ElementOfSeq
<1>2. a \in Seq(S) /\ Before(s, i, a)
  <2>1. i - 1 \in Int /\ \A j \in 1 .. i - 1 : s[j] \in S
    BY <1>1
  <2>2. QED BY <1>1, <2>1, SubSeqProperties DEF Before
<1>3. b \in Seq(S) /\ After(s, i, b)
  <2>1. i + 1 \in Int /\ Len(s) \in Int /\ \A j \in i + 1 .. Len(s) : s[j] \in S
    BY <1>1
  <2>2. /\ b \in Seq(S)
        /\ Len(b) = IF i + 1 <= Len(s) THEN Len(s) - (i + 1) + 1 ELSE 0
        /\ \A j \in 1 .. Len(s) - (i + 1) + 1 : b[j] = s[(i + 1) + j - 1]
    BY <2>1, SubSeqProperties
  <2>3. QED BY <1>1, <2>2 DEF After
<1> HIDE DEF a, b
<1>4. r \in Seq(S) /\ Without(s, i, r)
  BY <1>2, <1>3, JoinFacts, Zenon
<1> HIDE DEF r
<1>5. Range(r) = Range(s) \ {s[i]} /\ IsInjective(r)
  BY <1>4, GapFacts
<1>6. QED BY <1>4, <1>5, Zenon DEF r, a, b

=============================================================================
