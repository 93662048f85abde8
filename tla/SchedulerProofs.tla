--------------------------- MODULE SchedulerProofs ---------------------------
(***************************************************************************)
(* Facts about the ready queue that the proofs of every component use.     *)
(***************************************************************************)
EXTENDS Scheduler, SequenceTheorems, TLAPS

(* Appending an element that does not occur keeps the entries distinct.    *)
LEMMA EnqueueFacts ==
    ASSUME NEW S, NEW q \in Seq(S), NEW co \in S
    PROVE  /\ enqueue(q, co) \in Seq(S)
           /\ enqueue(q, co) # << >>
           /\ Range(enqueue(q, co)) = Range(q) \cup {co}
           /\ IsInjective(q) /\ co \notin Range(q) => IsInjective(enqueue(q, co))
<1>1. /\ enqueue(q, co) \in Seq(S)
      /\ Len(enqueue(q, co)) = Len(q) + 1
      /\ DOMAIN enqueue(q, co) = 1 .. (Len(q) + 1)
      /\ \A i \in 1 .. Len(q) : enqueue(q, co)[i] = q[i]
      /\ enqueue(q, co)[Len(q) + 1] = co
    BY DEF enqueue
<1>2. DOMAIN q = 1 .. Len(q) /\ Len(q) \in Nat
    OBVIOUS
<1>3. Range(enqueue(q, co)) = Range(q) \cup {co}
    BY <1>1, <1>2 DEF Range
<1>4. IsInjective(q) /\ co \notin Range(q) => IsInjective(enqueue(q, co))
    BY <1>1, <1>2 DEF IsInjective, Range
<1>5. enqueue(q, co) # << >>
    BY <1>1, <1>2
<1>. QED
    BY <1>1, <1>3, <1>4, <1>5

(* Taking the head off a queue without repetitions leaves the other ones.  *)
LEMMA DequeueFacts ==
    ASSUME NEW S, NEW q \in Seq(S), q # << >>
    PROVE  /\ Head(q) \in S /\ Tail(q) \in Seq(S)
           /\ Range(q) = Range(Tail(q)) \cup {Head(q)}
           /\ IsInjective(q) => IsInjective(Tail(q)) /\ Head(q) \notin Range(Tail(q))
<1>1. /\ Tail(q) \in Seq(S) /\ Head(q) \in S /\ Head(q) = q[1]
      /\ Len(q) \in Nat /\ Len(q) > 0 /\ Len(Tail(q)) = Len(q) - 1
      /\ \A i \in 1 .. Len(Tail(q)) : Tail(q)[i] = q[i + 1]
    OBVIOUS
<1>2. DOMAIN q = 1 .. Len(q) /\ DOMAIN Tail(q) = 1 .. (Len(q) - 1)
    BY <1>1
<1>3. Range(Tail(q)) \subseteq Range(q) /\ Head(q) \in Range(q)
    BY <1>1, <1>2 DEF Range
<1>4. Range(q) \subseteq Range(Tail(q)) \cup {Head(q)}
    <2>1. SUFFICES ASSUME NEW i \in 1 .. Len(q), i # 1
                   PROVE  q[i] \in Range(Tail(q))
        BY <1>1, <1>2 DEF Range
    <2>2. i - 1 \in 1 .. Len(Tail(q)) /\ q[i] = Tail(q)[i - 1]
        BY <1>1, <2>1
    <2>. QED
        BY <1>1, <1>2, <2>2 DEF Range
<1>5. IsInjective(q) => IsInjective(Tail(q)) /\ Head(q) \notin Range(Tail(q))
    BY <1>1, <1>2 DEF IsInjective, Range
<1>. QED
    BY <1>1, <1>3, <1>4, <1>5

(* The elements of two queues, one after the other.                        *)
LEMMA ConcatElements ==
    ASSUME NEW S, NEW q \in Seq(S), NEW r \in Seq(S)
    PROVE  /\ q \o r \in Seq(S)
           /\ Len(q) \in Nat /\ Len(r) \in Nat /\ Len(q \o r) = Len(q) + Len(r)
           /\ DOMAIN q = 1 .. Len(q) /\ DOMAIN r = 1 .. Len(r)
           /\ DOMAIN (q \o r) = 1 .. (Len(q) + Len(r))
           /\ \A i \in 1 .. (Len(q) + Len(r)) :
                (q \o r)[i] = IF i <= Len(q) THEN q[i] ELSE r[i - Len(q)]
OBVIOUS

(* A queue extended by another one with no element in common.              *)
LEMMA ConcatFacts ==
    ASSUME NEW S, NEW q \in Seq(S), NEW r \in Seq(S)
    PROVE  /\ q \o r \in Seq(S)
           /\ Range(q \o r) = Range(q) \cup Range(r)
           /\ IsInjective(q) /\ IsInjective(r) /\ Range(q) \cap Range(r) = {}
                => IsInjective(q \o r)
<1>1. /\ q \o r \in Seq(S)
      /\ Len(q) \in Nat /\ Len(r) \in Nat /\ Len(q \o r) = Len(q) + Len(r)
      /\ DOMAIN q = 1 .. Len(q) /\ DOMAIN r = 1 .. Len(r)
      /\ DOMAIN (q \o r) = 1 .. (Len(q) + Len(r))
      /\ \A i \in 1 .. (Len(q) + Len(r)) :
            (q \o r)[i] = IF i <= Len(q) THEN q[i] ELSE r[i - Len(q)]
    BY ConcatElements
<1>2. Range(q \o r) \subseteq Range(q) \cup Range(r)
    BY <1>1 DEF Range
<1>3. Range(q) \subseteq Range(q \o r)
    BY <1>1 DEF Range
<1>4. Range(r) \subseteq Range(q \o r)
    <2>1. SUFFICES ASSUME NEW j \in 1 .. Len(r) PROVE r[j] \in Range(q \o r)
        BY <1>1 DEF Range
    <2>2. /\ Len(q) + j \in 1 .. (Len(q) + Len(r))
          /\ (q \o r)[Len(q) + j] = r[j]
        BY <1>1
    <2>. QED
        BY <1>1, <2>2 DEF Range
<1>5. ASSUME IsInjective(q), IsInjective(r), Range(q) \cap Range(r) = {},
             NEW i \in 1 .. (Len(q) + Len(r)), NEW j \in 1 .. (Len(q) + Len(r)),
             (q \o r)[i] = (q \o r)[j]
      PROVE  i = j
    <2>1. CASE i <= Len(q) /\ j <= Len(q)
        BY <1>1, <1>5, <2>1 DEF IsInjective
    <2>2. CASE i > Len(q) /\ j > Len(q)
        <3>1. i - Len(q) \in DOMAIN r /\ j - Len(q) \in DOMAIN r
            BY <1>1, <2>2
        <3>2. r[i - Len(q)] = r[j - Len(q)]
            BY <1>1, <1>5, <2>2
        <3>3. i - Len(q) = j - Len(q)
            BY <1>5, <3>1, <3>2 DEF IsInjective
        <3>. QED
            BY <1>1, <3>3
    <2>3. ~(i <= Len(q) /\ j > Len(q))
        <3>1. SUFFICES ASSUME i <= Len(q), j > Len(q) PROVE FALSE
            OBVIOUS
        <3>2. i \in DOMAIN q /\ j - Len(q) \in DOMAIN r /\ q[i] = r[j - Len(q)]
            BY <1>1, <1>5, <3>1
        <3>. QED
            BY <1>5, <3>2 DEF Range
    <2>4. ~(j <= Len(q) /\ i > Len(q))
        <3>1. SUFFICES ASSUME j <= Len(q), i > Len(q) PROVE FALSE
            OBVIOUS
        <3>2. j \in DOMAIN q /\ i - Len(q) \in DOMAIN r /\ q[j] = r[i - Len(q)]
            BY <1>1, <1>5, <3>1
        <3>. QED
            BY <1>5, <3>2 DEF Range
    <2>. QED
        BY <1>1, <2>1, <2>2, <2>3, <2>4
<1>6. IsInjective(q) /\ IsInjective(r) /\ Range(q) \cap Range(r) = {}
            => IsInjective(q \o r)
    BY <1>1, <1>5 DEF IsInjective
<1>. QED
    BY <1>1, <1>2, <1>3, <1>4, <1>6

(* Cutting a queue in two keeps all of its elements.                       *)
LEMMA SplitFacts ==
    ASSUME NEW S, NEW q \in Seq(S), NEW n \in 1 .. Len(q)
    PROVE  /\ SubSeq(q, 1, n) \in Seq(S) /\ SubSeq(q, n + 1, Len(q)) \in Seq(S)
           /\ Range(q) = Range(SubSeq(q, 1, n)) \cup Range(SubSeq(q, n + 1, Len(q)))
           /\ IsInjective(q) => /\ IsInjective(SubSeq(q, 1, n))
                               /\ IsInjective(SubSeq(q, n + 1, Len(q)))
<1>. DEFINE a == SubSeq(q, 1, n)  b == SubSeq(q, n + 1, Len(q))
<1>1. /\ a \in Seq(S) /\ b \in Seq(S)
      /\ Len(q) \in Nat /\ n \in Nat /\ 1 <= n /\ n <= Len(q)
      /\ DOMAIN q = 1 .. Len(q) /\ DOMAIN a = 1 .. n /\ DOMAIN b = 1 .. (Len(q) - n)
      /\ \A i \in 1 .. n : a[i] = q[i]
      /\ \A i \in 1 .. (Len(q) - n) : b[i] = q[i + n]
    OBVIOUS
<1>. HIDE DEF a, b
<1>2. Range(a) \cup Range(b) \subseteq Range(q)
    <2>1. \A i \in 1 .. n : i \in 1 .. Len(q)
        BY <1>1
    <2>2. \A i \in 1 .. (Len(q) - n) : i + n \in 1 .. Len(q)
        BY <1>1
    <2>. QED
        BY <1>1, <2>1, <2>2 DEF Range
<1>3. Range(q) \subseteq Range(a) \cup Range(b)
    <2>1. SUFFICES ASSUME NEW i \in 1 .. Len(q), i > n PROVE q[i] \in Range(b)
        <3>1. \A i \in 1 .. Len(q) : i > n \/ i \in 1 .. n
            BY <1>1
        <3>. QED
            BY <1>1, <3>1 DEF Range
    <2>2. i - n \in 1 .. (Len(q) - n) /\ (i - n) + n = i
        BY <1>1, <2>1
    <2>3. b[i - n] = q[i]
        BY <1>1, <2>2
    <2>. QED
        BY <1>1, <2>2, <2>3 DEF Range
<1>4. ASSUME IsInjective(q) PROVE IsInjective(a) /\ IsInjective(b)
    <2>1. IsInjective(a)
        <3>1. \A i \in 1 .. n : i \in 1 .. Len(q)
            BY <1>1
        <3>. QED
            BY <1>1, <1>4, <3>1 DEF IsInjective
    <2>2. ASSUME NEW i \in 1 .. (Len(q) - n), NEW j \in 1 .. (Len(q) - n), b[i] = b[j]
          PROVE  i = j
        <3>1. /\ i + n \in 1 .. Len(q) /\ j + n \in 1 .. Len(q)
              /\ q[i + n] = q[j + n]
            BY <1>1, <2>2
        <3>2. i + n = j + n
            BY <1>1, <1>4, <3>1 DEF IsInjective
        <3>. QED
            BY <1>1, <3>2
    <2>. QED
        BY <1>1, <2>1, <2>2 DEF IsInjective
<1>. QED
    BY <1>1, <1>2, <1>3, <1>4 DEF a, b

=============================================================================
