---------------------------- MODULE SequenceProofs ----------------------------
(***************************************************************************)
(* Proofs about Sequence, for any range and reserve.                       *)
(***************************************************************************)
EXTENDS Sequence, TLAPS

\* Zenon proves what needs no arithmetic; the other leaves say SMT.
USE Zenon

NoRepeat(s) == \A i, j \in 1..Len(s) : s[i] = s[j] => i = j

\* The pool (c, s) with the values u in use is conserved.
Pool(c, s, u) ==
    /\ c \in Begin..End
    /\ s \in Seq(Values)
    /\ u \subseteq Values
    /\ NoRepeat(s)
    /\ Elems(s) \cap u = {}
    /\ Elems(s) \cup u = Begin..(c - 1)

\* acquire() adds the values from c on, so it keeps a pool conserved.
LEMMA AcquireLemma ==
    ASSUME NEW c, NEW s, NEW u, Pool(c, s, u)
    PROVE  /\ Pool(c + Batch(c), Acquired(c, s), u)
           /\ Len(Acquired(c, s)) = Len(s) + Batch(c)
           /\ Batch(c) \in Nat
           /\ Batch(c) = 0 => c = End
<1> USE RangeAssumption, ReserveAssumption
<1> DEFINE n == Batch(c)
           t == [i \in 1..n |-> c + i - 1]
           a == Acquired(c, s)
<1>1. /\ c \in Begin..End /\ s \in Seq(Values) /\ Len(s) \in Nat
      /\ NoRepeat(s) /\ Elems(s) \cap u = {} /\ Elems(s) \cup u = Begin..(c - 1)
  BY SMT DEF Pool
<1>2. n \in Nat /\ n <= End - c /\ (n = 0 => c = End)
  BY SMT, <1>1 DEF Batch
<1> HIDE DEF n
<1>3. t \in Seq(Values) /\ Len(t) = n /\ \A i \in 1..n : t[i] = c + i - 1
  <2>1. \A i \in 1..n : c + i - 1 \in Values
    BY SMT, <1>1, <1>2 DEF Values
  <2> QED
    BY SMT, <1>2, <2>1
<1>4. a = s \o t
  BY DEF Acquired, n
<1> HIDE DEF t, a
<1>5. /\ a \in Seq(Values)
      /\ Len(a) = Len(s) + n
      /\ \A i \in 1..Len(s) : a[i] = s[i]
      /\ \A i \in (Len(s) + 1)..(Len(s) + n) : a[i] = c + (i - Len(s)) - 1
  <2>1. a \in Seq(Values) /\ Len(a) = Len(s) + n
    <3>1. s \in Seq(Values) /\ t \in Seq(Values) /\ Len(t) = n
      BY <1>1, <1>3
    <3>2. Len(s \o t) = Len(s) + Len(t)
      BY SMT, <3>1
    <3>3. s \o t \in Seq(Values)
      BY SMT, <3>1
    <3> QED
      BY <1>4, <3>1, <3>2, <3>3
  <2>2. \A i \in 1..(Len(s) + Len(t)) : a[i] = IF i <= Len(s) THEN s[i] ELSE t[i - Len(s)]
    BY SMT, <1>1, <1>3, <1>4
  <2>3. \A i \in 1..Len(s) : a[i] = s[i]
    BY SMT, <1>1, <1>2, <1>3, <2>2
  <2>4. ASSUME NEW i \in (Len(s) + 1)..(Len(s) + n) PROVE a[i] = c + (i - Len(s)) - 1
    <3>1. i - Len(s) \in 1..n /\ ~(i <= Len(s)) /\ i \in 1..(Len(s) + n)
      BY SMT, <1>1, <1>2
    <3> QED
      BY <1>3, <2>2, <3>1
  <2> QED
    BY <2>1, <2>3, <2>4
<1>6. \A i \in 1..Len(s) : s[i] \in Elems(s) /\ s[i] < c /\ s[i] \in Int
  <2>1. \A i \in 1..Len(s) : s[i] \in Elems(s)
    BY DEF Elems
  <2>2. \A v \in Elems(s) : v \in Begin..(c - 1)
    BY <1>1
  <2> QED
    BY SMT, <1>1, <2>1, <2>2
<1>7. NoRepeat(a)
  <2> SUFFICES ASSUME NEW i \in 1..Len(a), NEW j \in 1..Len(a), a[i] = a[j]
               PROVE  i = j
    BY DEF NoRepeat
  <2>1. i \in 1..Len(s) \/ i \in (Len(s) + 1)..(Len(s) + n)
    BY SMT, <1>1, <1>2, <1>5
  <2>2. j \in 1..Len(s) \/ j \in (Len(s) + 1)..(Len(s) + n)
    BY SMT, <1>1, <1>2, <1>5
  <2>3. CASE i \in 1..Len(s) /\ j \in 1..Len(s)
    BY <1>1, <1>5, <2>3 DEF NoRepeat
  <2>4. CASE i \in (Len(s) + 1)..(Len(s) + n) /\ j \in (Len(s) + 1)..(Len(s) + n)
    BY SMT, <1>1, <1>5, <2>4
  <2>5. CASE i \in 1..Len(s) /\ j \in (Len(s) + 1)..(Len(s) + n)
    BY SMT, <1>1, <1>5, <1>6, <2>5
  <2>6. CASE j \in 1..Len(s) /\ i \in (Len(s) + 1)..(Len(s) + n)
    BY SMT, <1>1, <1>5, <1>6, <2>6
  <2> QED
    BY <2>1, <2>2, <2>3, <2>4, <2>5, <2>6
<1>8. Elems(a) = Elems(s) \cup (c..(c + n - 1))
  <2>1. ASSUME NEW v \in Elems(a) PROVE v \in Elems(s) \cup (c..(c + n - 1))
    <3>1. PICK i \in 1..Len(a) : v = a[i]
      BY DEF Elems
    <3>2. CASE i \in 1..Len(s)
      BY <1>5, <3>1, <3>2 DEF Elems
    <3>3. CASE i \in (Len(s) + 1)..(Len(s) + n)
      BY SMT, <1>1, <1>2, <1>5, <3>1, <3>3
    <3> QED
      BY SMT, <1>1, <1>2, <1>5, <3>2, <3>3
  <2>2. ASSUME NEW v \in Elems(s) PROVE v \in Elems(a)
    <3>1. PICK i \in 1..Len(s) : v = s[i]
      BY DEF Elems
    <3>2. i \in 1..Len(a) /\ a[i] = v
      BY SMT, <1>1, <1>2, <1>5, <3>1
    <3> QED
      BY <3>2 DEF Elems
  <2>3. ASSUME NEW v \in c..(c + n - 1) PROVE v \in Elems(a)
    <3> DEFINE i == Len(s) + (v - c) + 1
    <3>1. i \in (Len(s) + 1)..(Len(s) + n) /\ i \in 1..Len(a)
      BY SMT, <1>1, <1>2, <1>5
    <3>2. a[i] = c + (i - Len(s)) - 1
      BY <1>5, <3>1
    <3>3. a[i] = v
      BY SMT, <1>1, <3>2
    <3> QED
      BY <3>1, <3>3 DEF Elems
  <2> QED
    BY <2>1, <2>2, <2>3
<1>9. c + n \in Begin..End
  BY SMT, <1>1, <1>2
<1>10. Elems(a) \cap u = {}
  BY SMT, <1>1, <1>8
<1>11. Elems(a) \cup u = Begin..(c + n - 1)
  BY SMT, <1>1, <1>2, <1>8
<1> QED
  BY SMTT(20), <1>2, <1>5, <1>7, <1>9, <1>10, <1>11 DEF Pool, n, a

\* The elements after the head is taken.
LEMMA TailLemma ==
    ASSUME NEW s \in Seq(Values), s # <<>>, NoRepeat(s)
    PROVE  /\ Head(s) \in Elems(s)
           /\ Tail(s) \in Seq(Values)
           /\ NoRepeat(Tail(s))
           /\ Elems(Tail(s)) = Elems(s) \ {Head(s)}
<1>1. /\ Len(s) \in Nat \ {0} /\ Head(s) = s[1]
      /\ Tail(s) \in Seq(Values) /\ Len(Tail(s)) = Len(s) - 1
      /\ \A i \in 1..(Len(s) - 1) : Tail(s)[i] = s[i + 1]
  BY SMT
<1> DEFINE t == Tail(s)
<1> HIDE DEF t
<1>2. NoRepeat(t)
  <2> SUFFICES ASSUME NEW i \in 1..Len(t), NEW j \in 1..Len(t), t[i] = t[j]
               PROVE  i = j
    BY DEF NoRepeat
  <2>1. /\ i \in 1..(Len(s) - 1) /\ j \in 1..(Len(s) - 1)
        /\ i + 1 \in 1..Len(s) /\ j + 1 \in 1..Len(s)
    BY SMT, <1>1 DEF t
  <2>2. s[i + 1] = s[j + 1]
    BY <1>1, <2>1 DEF t
  <2> QED
    BY SMT, <2>1, <2>2 DEF NoRepeat
<1>3. ASSUME NEW v PROVE v \in Elems(t) <=> v \in Elems(s) /\ v # Head(s)
  <2>1. ASSUME v \in Elems(t) PROVE v \in Elems(s) /\ v # Head(s)
    <3>1. PICK i \in 1..Len(t) : v = t[i]
      BY <2>1 DEF Elems
    <3>2. i + 1 \in 1..Len(s) /\ i + 1 # 1 /\ v = s[i + 1] /\ 1 \in 1..Len(s)
      BY SMT, <1>1, <3>1 DEF t
    <3> QED
      BY <1>1, <3>2 DEF Elems, NoRepeat
  <2>2. ASSUME v \in Elems(s), v # Head(s) PROVE v \in Elems(t)
    <3>1. PICK i \in 1..Len(s) : v = s[i]
      BY <2>2 DEF Elems
    <3>2. i # 1
      BY <1>1, <2>2, <3>1
    <3>3. i - 1 \in 1..(Len(s) - 1) /\ (i - 1) + 1 = i
      BY SMT, <1>1, <3>1, <3>2
    <3>4. i - 1 \in 1..Len(t) /\ t[i - 1] = v
      BY <1>1, <3>1, <3>3 DEF t
    <3> QED
      BY <3>4 DEF Elems
  <2> QED
    BY <2>1, <2>2
<1>4. Head(s) \in Elems(s)
  BY SMT, <1>1 DEF Elems
<1> QED
  BY <1>1, <1>2, <1>3, <1>4 DEF t

\* The elements after a value is put back.
LEMMA AppendLemma ==
    ASSUME NEW s \in Seq(Values), NEW v \in Values, NoRepeat(s), v \notin Elems(s)
    PROVE  /\ Append(s, v) \in Seq(Values)
           /\ NoRepeat(Append(s, v))
           /\ Elems(Append(s, v)) = Elems(s) \cup {v}
<1> DEFINE t == Append(s, v)
<1>1. /\ t \in Seq(Values) /\ Len(s) \in Nat /\ Len(t) = Len(s) + 1
      /\ t[Len(s) + 1] = v
      /\ \A i \in 1..Len(s) : t[i] = s[i]
  BY SMT
<1> HIDE DEF t
<1>2. \A i \in 1..Len(t) : i \in 1..Len(s) \/ i = Len(s) + 1
  BY SMT, <1>1
<1>3. \A i \in 1..Len(s) : i \in 1..Len(t) /\ s[i] # v
  BY SMT, <1>1 DEF Elems
<1>4. NoRepeat(t)
  BY <1>1, <1>2, <1>3 DEF NoRepeat
<1>5. Len(s) + 1 \in 1..Len(t)
  BY SMT, <1>1
<1>6. Elems(t) = Elems(s) \cup {v}
  BY <1>1, <1>2, <1>3, <1>5 DEF Elems
<1> QED
  BY <1>1, <1>4, <1>6 DEF t

\* The elements after several values are put back.
LEMMA ConcatLemma ==
    ASSUME NEW s \in Seq(Values), NEW t \in Seq(Values), NoRepeat(s), NoRepeat(t),
           Elems(s) \cap Elems(t) = {}
    PROVE  /\ s \o t \in Seq(Values)
           /\ NoRepeat(s \o t)
           /\ Elems(s \o t) = Elems(s) \cup Elems(t)
<1>1. /\ s \o t \in Seq(Values) /\ Len(s) \in Nat /\ Len(t) \in Nat
      /\ Len(s \o t) = Len(s) + Len(t)
      /\ \A i \in 1..Len(s) + Len(t) : (s \o t)[i] = IF i <= Len(s) THEN s[i] ELSE t[i - Len(s)]
  BY SMT
<1>2. PICK a : a = s \o t
  OBVIOUS
<1>3. \A i \in 1..Len(a) :
        \/ i \in 1..Len(s) /\ a[i] = s[i] /\ s[i] \in Elems(s)
        \/ ~(i <= Len(s)) /\ i - Len(s) \in 1..Len(t) /\ a[i] = t[i - Len(s)] /\ t[i - Len(s)] \in Elems(t)
  <2> TAKE i \in 1..Len(a)
  <2>1. CASE i <= Len(s)
    BY SMT, <1>1, <1>2, <2>1 DEF Elems
  <2>2. CASE ~(i <= Len(s))
    <3>1. i - Len(s) \in 1..Len(t)
      BY SMT, <1>1, <1>2, <2>2
    <3>2. a[i] = t[i - Len(s)]
      BY <1>1, <1>2, <2>2
    <3> QED
      BY <2>2, <3>1, <3>2 DEF Elems
  <2> QED
    BY <2>1, <2>2
<1>4. \A i \in 1..Len(s) : i \in 1..Len(a) /\ a[i] = s[i]
  BY SMT, <1>1, <1>2
<1>5. \A i \in 1..Len(t) : Len(s) + i \in 1..Len(a) /\ a[Len(s) + i] = t[i]
  <2> TAKE i \in 1..Len(t)
  <2>1. Len(s) + i \in 1..Len(a) /\ ~(Len(s) + i <= Len(s)) /\ (Len(s) + i) - Len(s) = i
    BY SMT, <1>1, <1>2
  <2> QED
    BY <1>1, <1>2, <2>1
<1>6. NoRepeat(a)
  <2> SUFFICES ASSUME NEW i \in 1..Len(a), NEW j \in 1..Len(a), a[i] = a[j]
               PROVE  i = j
    BY DEF NoRepeat
  <2>1. CASE i \in 1..Len(s) /\ j \in 1..Len(s)
    BY <1>4, <2>1 DEF NoRepeat
  <2>2. CASE ~(i <= Len(s)) /\ ~(j <= Len(s))
    <3>1. i - Len(s) = j - Len(s)
      BY <1>3, <2>2 DEF NoRepeat
    <3> QED
      BY SMT, <1>1, <3>1
  <2> QED
    BY <1>3, <2>1, <2>2
<1>7. Elems(a) = Elems(s) \cup Elems(t)
  <2>1. \A v \in Elems(a) : v \in Elems(s) \cup Elems(t)
    BY <1>3 DEF Elems
  <2>2. \A v \in Elems(s) : v \in Elems(a)
    BY <1>4 DEF Elems
  <2>3. \A v \in Elems(t) : v \in Elems(a)
    BY <1>5 DEF Elems
  <2> QED
    BY <2>1, <2>2, <2>3
<1> QED
  BY <1>1, <1>2, <1>6, <1>7

(***************************************************************************)
(* The pool is conserved.                                                  *)
(***************************************************************************)

\* The constructor builds a conserved pool.
LEMMA PoolInit == Init => Pool(current, seqs, used)
<1> SUFFICES ASSUME Init PROVE Pool(current, seqs, used)
  OBVIOUS
<1>1. Pool(Begin, <<>>, {})
  BY SMT, RangeAssumption DEF Pool, NoRepeat, Elems, Values
<1> QED
  BY <1>1, AcquireLemma DEF Init

\* The queue next() takes from belongs to a conserved pool, and is empty only
\* when the range is exhausted.
LEMMA FilledLemma ==
    ASSUME Pool(current, seqs, used)
    PROVE  /\ Pool(FilledTo, Filled, used)
           /\ Filled = <<>> => FilledTo = End
<1>1. Len(seqs) \in Nat
  BY SMT DEF Pool
<1>2. CASE Short
  <2>1. /\ Pool(FilledTo, Filled, used)
        /\ Len(Filled) = Len(seqs) + Batch(current)
        /\ Batch(current) \in Nat
        /\ Batch(current) = 0 => current = End
    BY <1>2, AcquireLemma DEF Filled, FilledTo
  <2>2. Filled = <<>> => Batch(current) = 0
    BY SMT, <1>1, <2>1
  <2>3. Filled = <<>> => FilledTo = End
    BY SMT, <1>2, <2>1, <2>2, RangeAssumption DEF FilledTo
  <2> QED
    BY <2>1, <2>3
<1>3. CASE ~Short
  <2>1. Len(seqs) > 0
    BY SMT, <1>1, <1>3, ReserveAssumption, RangeAssumption DEF Short
  <2> QED
    BY SMT, <1>3, <2>1 DEF Filled, FilledTo
<1> QED
  BY <1>2, <1>3

\* next() takes the head of the queue.
LEMMA TakeLemma ==
    ASSUME NEW c, NEW s, NEW u, Pool(c, s, u), s # <<>>
    PROVE  /\ Pool(c, Tail(s), u \cup {Head(s)})
           /\ Head(s) \in Values /\ Head(s) \notin u
<1>1. /\ Head(s) \in Elems(s) /\ Tail(s) \in Seq(Values) /\ NoRepeat(Tail(s))
      /\ Elems(Tail(s)) = Elems(s) \ {Head(s)}
  BY TailLemma DEF Pool
<1>2. Elems(s) \subseteq Values
  BY SMT DEF Pool, Elems
<1> QED
  BY <1>1, <1>2 DEF Pool

\* release() of several values, one after the other.
LEMMA GiveLemma ==
    ASSUME NEW c, NEW s, NEW u, NEW t \in Seq(Values), Pool(c, s, u),
           NoRepeat(t), Elems(t) \subseteq u
    PROVE  Pool(c, s \o t, u \ Elems(t))
<1>1. Elems(s) \cap Elems(t) = {}
  BY DEF Pool
<1>2. /\ s \o t \in Seq(Values) /\ NoRepeat(s \o t)
      /\ Elems(s \o t) = Elems(s) \cup Elems(t)
  BY <1>1, ConcatLemma DEF Pool
<1> QED
  BY <1>1, <1>2 DEF Pool

\* next() and release() keep the pool conserved.
LEMMA PoolStep ==
    ASSUME Pool(current, seqs, used), [Next]_svars
    PROVE  Pool(current, seqs, used)'
<1>1. ASSUME NEW v \in Values, TakeNext(v) PROVE Pool(current, seqs, used)'
  <2>1. Pool(FilledTo, Filled, used) /\ (Filled = <<>> => FilledTo = End)
    BY FilledLemma
  <2>2. Filled # <<>>
    BY <1>1, <2>1 DEF TakeNext
  <2>3. /\ v = Head(Filled) /\ seqs' = Tail(Filled) /\ current' = FilledTo
        /\ used' = used \cup {v}
    BY <1>1, <2>2 DEF TakeNext
  <2>4. /\ v \in Elems(Filled) /\ seqs' \in Seq(Values) /\ NoRepeat(seqs')
        /\ Elems(seqs') = Elems(Filled) \ {v}
    BY <2>1, <2>2, <2>3, TailLemma DEF Pool
  <2> QED
    BY <2>1, <2>3, <2>4 DEF Pool
<1>2. ASSUME NEW v \in Values, Release(v) PROVE Pool(current, seqs, used)'
  <2>1. v \notin Elems(seqs) /\ v \in Elems(seqs) \cup used
    BY <1>2 DEF Release, Pool
  <2>2. /\ seqs' \in Seq(Values) /\ NoRepeat(seqs')
        /\ Elems(seqs') = Elems(seqs) \cup {v}
    BY <1>2, <2>1, AppendLemma DEF Release, Pool
  <2> QED
    BY <1>2, <2>1, <2>2 DEF Release, Pool
<1>3. CASE NextThrows
  BY <1>3 DEF NextThrows, Pool
<1>4. CASE UNCHANGED svars
  BY <1>4 DEF svars, Pool
<1> QED
  BY <1>1, <1>2, <1>3, <1>4 DEF Next

\* next() never hands out a value twice and the pool loses none, for any range
\* and reserve, as long as users release only what they have.
THEOREM AlwaysConserved == Spec => []Conserved
<1>1. Pool(current, seqs, used) => Conserved
  BY DEF Pool, Conserved, NoRepeat
<1> QED
  BY <1>1, PoolInit, PoolStep, PTL DEF Spec

\* When next() throws, every value of the range is in use.
THEOREM ThrowsExhausted == Spec => []ThrowsOnlyWhenExhausted
<1> DEFINE Inv == Pool(current, seqs, used) /\ ThrowsOnlyWhenExhausted
<1>1. Init => Inv
  BY PoolInit DEF Init, ThrowsOnlyWhenExhausted
<1>2. ASSUME Inv, [Next]_svars PROVE Inv'
  <2>1. Pool(current, seqs, used)'
    BY <1>2, PoolStep
  <2>2. CASE NextThrows
    <3>1. Pool(FilledTo, Filled, used) /\ Filled = <<>> /\ FilledTo = End
      BY <1>2, <2>2, FilledLemma DEF NextThrows
    <3>2. Elems(Filled) = {}
      BY SMT, <3>1 DEF Elems
    <3>3. used = Values
      BY <3>1, <3>2 DEF Pool, Values
    <3> QED
      BY <2>1, <2>2, <3>3 DEF NextThrows, ThrowsOnlyWhenExhausted
  <2>3. ASSUME NEW v \in Values, TakeNext(v) \/ Release(v) PROVE Inv'
    BY <2>1, <2>3 DEF TakeNext, Release, ThrowsOnlyWhenExhausted
  <2>4. CASE UNCHANGED svars
    BY <1>2, <2>1, <2>4 DEF svars, ThrowsOnlyWhenExhausted
  <2> QED
    BY <1>2, <2>2, <2>3, <2>4 DEF Next
<1> QED
  BY <1>1, <1>2, PTL DEF Spec

\* The two together: what TLC checks on six values holds for any range and reserve.
THEOREM AlwaysSound == Spec => []PoolSound
BY AlwaysConserved, ThrowsExhausted, PTL DEF PoolSound

=============================================================================
