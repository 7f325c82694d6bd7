--------------------------- MODULE LogViewsProofs ---------------------------
(***************************************************************************)
(* Proofs about the two views that lie over the logs: a session's, through *)
(* the pointers of its branches (BranchLog), and the decoded one with its  *)
(* caches (EventSourcedLog), for any threads, sessions, objects and calls. *)
(***************************************************************************)
EXTENDS BranchLog, EventSourcedLog, SequenceTheorems, FiniteSetTheorems, TLAPS

-----------------------------------------------------------------------------
(* Beginnings of sequences *)

\* u is a beginning of v.
Begins(u, v) == Sink!First(Len(u), v) = u

LEMMA ShorterNat ==
  ASSUME NEW m \in Nat, NEW n \in Nat
  PROVE  /\ Sink!Shorter(m, n) \in Nat
         /\ Sink!Shorter(m, n) <= m /\ Sink!Shorter(m, n) <= n
         /\ m <= n => Sink!Shorter(m, n) = m
         /\ n <= m => Sink!Shorter(m, n) = n
BY DEF Sink!Shorter

LEMMA FirstType ==
  ASSUME NEW S, NEW v \in Seq(S), NEW n \in Nat
  PROVE  /\ Sink!First(n, v) \in Seq(S)
         /\ Len(Sink!First(n, v)) = Sink!Shorter(n, Len(v))
         /\ \A i \in 1..Sink!Shorter(n, Len(v)) : Sink!First(n, v)[i] = v[i]
<1>1. Len(v) \in Nat
  BY LenProperties
<1>2. PICK k \in Nat : k = Sink!Shorter(n, Len(v)) /\ k <= Len(v)
  BY <1>1, ShorterNat
<1>3. \A i \in 1..k : v[i] \in S
  BY <1>1, <1>2, ElementOfSeq
<1>4. /\ SubSeq(v, 1, k) \in Seq(S) /\ Len(SubSeq(v, 1, k)) = k
      /\ \A i \in 1..k : SubSeq(v, 1, k)[i] = v[i]
  BY <1>2, <1>3, SubSeqProperties
<1>5. QED
  BY <1>2, <1>4 DEF Sink!First

LEMMA FirstIs ==
  ASSUME NEW S, NEW v \in Seq(S), NEW n \in Nat, NEW k \in Nat, k = Sink!Shorter(n, Len(v)),
         NEW f, f = Sink!First(n, v)
  PROVE  f \in Seq(S) /\ Len(f) = k /\ \A i \in 1..k : f[i] = v[i]
BY FirstType

\* What makes a sequence the first n of another.
LEMMA IsFirst ==
  ASSUME NEW S, NEW v \in Seq(S), NEW n \in Nat, NEW u \in Seq(S),
         Len(u) = Sink!Shorter(n, Len(v)), \A i \in 1..Len(u) : u[i] = v[i]
  PROVE  Sink!First(n, v) = u
<1>0. Len(u) \in Nat
  BY LenProperties
<1>1. PICK f : f = Sink!First(n, v)
  OBVIOUS
<1>2. f \in Seq(S) /\ Len(f) = Len(u) /\ \A i \in 1..Len(u) : f[i] = v[i]
  BY <1>0, <1>1, FirstIs
<1>20. \A i \in 1..Len(f) : f[i] = u[i]
  BY <1>2
<1>3. f = u
  BY <1>2, <1>20, SeqEqual
<1>4. QED
  BY <1>1, <1>3

LEMMA FirstAll ==
  ASSUME NEW S, NEW v \in Seq(S), NEW n \in Nat, Len(v) <= n
  PROVE  Sink!First(n, v) = v
<1>1. Len(v) \in Nat
  BY LenProperties
<1>2. Sink!Shorter(n, Len(v)) = Len(v)
  BY <1>1, ShorterNat
<1>3. QED
  BY <1>2, IsFirst

LEMMA EmptyFirst ==
  ASSUME NEW S, NEW v \in Seq(S)
  PROVE  Sink!First(0, v) = <<>>
<1>1. Len(v) \in Nat
  BY LenProperties
<1>2. 0 = Sink!Shorter(0, Len(v))
  BY <1>1, ShorterNat
<1>3. PICK f : f = Sink!First(0, v)
  OBVIOUS
<1>4. f \in Seq(S) /\ Len(f) = 0
  BY <1>2, <1>3, FirstIs
<1>5. QED
  BY <1>3, <1>4, EmptySeq

LEMMA FirstFirst ==
  ASSUME NEW S, NEW v \in Seq(S), NEW m \in Nat, NEW n \in Nat
  PROVE  Sink!First(m, Sink!First(n, v)) = Sink!First(Sink!Shorter(m, n), v)
<1>1. Len(v) \in Nat
  BY LenProperties
<1>2. PICK f \in Seq(S) : f = Sink!First(n, v)
  BY FirstType
<1>3. PICK k \in Nat : k = Sink!Shorter(m, n)
  BY ShorterNat
<1>4. PICK g : g = Sink!First(k, v)
  OBVIOUS
<1>5. PICK j \in Nat : j = Sink!Shorter(k, Len(v))
  BY <1>1, ShorterNat
<1>50. g \in Seq(S) /\ Len(g) = j /\ \A i \in 1..j : g[i] = v[i]
  BY <1>4, <1>5, FirstIs
<1>6. PICK l \in Nat : l = Sink!Shorter(n, Len(v))
  BY <1>1, ShorterNat
<1>60. Len(f) = l /\ \A i \in 1..l : f[i] = v[i]
  BY <1>2, <1>6, FirstIs
<1>7. j = Sink!Shorter(m, l) /\ j <= l
  BY <1>1, <1>3, <1>5, <1>6 DEF Sink!Shorter
<1>8. \A i \in 1..Len(g) : g[i] = f[i]
  BY <1>50, <1>60, <1>7
<1>9. Sink!First(m, f) = g
  BY <1>50, <1>60, <1>7, <1>8, IsFirst
<1>10. QED
  BY <1>2, <1>3, <1>4, <1>9

LEMMA FirstOfConcat ==
  ASSUME NEW S, NEW u \in Seq(S), NEW v \in Seq(S), NEW n \in Nat
  PROVE  /\ n <= Len(u) => Sink!First(n, u \o v) = Sink!First(n, u)
         /\ n >= Len(u) => Sink!First(n, u \o v) = u \o Sink!First(n - Len(u), v)
<1>1. PICK k \in Nat : k = Len(u)
  BY LenProperties
<1>2. PICK l \in Nat : l = Len(v)
  BY LenProperties
<1>3. PICK w \in Seq(S) : w = u \o v
  BY ConcatProperties
<1>4. /\ Len(w) = k + l
      /\ \A i \in 1..(k + l) : w[i] = IF i <= k THEN u[i] ELSE v[i - k]
  BY <1>1, <1>2, <1>3, ConcatProperties
<1>5. CASE n <= k
  <2>0. n = Sink!Shorter(n, Len(u))
    BY <1>1, <1>5, ShorterNat
  <2>01. PICK f : f = Sink!First(n, u)
    OBVIOUS
  <2>1. f = Sink!First(n, u) /\ f \in Seq(S) /\ Len(f) = n /\ \A i \in 1..n : f[i] = u[i]
    BY <2>0, <2>01, FirstIs
  <2>2. Len(f) = Sink!Shorter(n, Len(w))
    BY <1>4, <1>5, <2>1 DEF Sink!Shorter
  <2>3. \A i \in 1..Len(f) : f[i] = w[i]
    BY <1>4, <1>5, <2>1
  <2>4. Sink!First(n, w) = f
    BY <2>1, <2>2, <2>3, IsFirst
  <2>5. n = k => Sink!First(n - k, v) = <<>> /\ f = u
    <3>1. SUFFICES ASSUME n = k PROVE Sink!First(n - k, v) = <<>> /\ f = u
      OBVIOUS
    <3>2. f = u
      BY <1>1, <2>1, <3>1, FirstAll
    <3>5. Sink!First(0, v) = <<>>
      BY EmptyFirst
    <3>6. QED
      BY <3>1, <3>2, <3>5
  <2>6. u \o <<>> = u
    BY ConcatEmptySeq
  <2>7. QED
    BY <1>1, <1>3, <1>5, <2>1, <2>4, <2>5, <2>6
<1>6. CASE n > k
  <2>1. PICK d \in Nat : d = n - k
    BY <1>6
  <2>2. PICK j \in Nat : j = Sink!Shorter(d, l) /\ j <= d /\ j <= l
    BY ShorterNat
  <2>30. PICK f : f = Sink!First(d, v)
    OBVIOUS
  <2>3. f = Sink!First(d, v) /\ f \in Seq(S) /\ Len(f) = j /\ \A i \in 1..j : f[i] = v[i]
    <3>1. j = Sink!Shorter(d, Len(v))
      BY <1>2, <2>2
    <3>2. QED
      BY <2>1, <2>2, <2>30, <3>1, FirstIs
  <2>4. PICK g \in Seq(S) : g = u \o f
    BY <2>3, ConcatProperties
  <2>5. /\ Len(g) = k + j
        /\ \A i \in 1..(k + j) : g[i] = IF i <= k THEN u[i] ELSE f[i - k]
    <3>1. /\ Len(u \o f) = Len(u) + Len(f)
          /\ \A i \in 1..(Len(u) + Len(f)) :
               (u \o f)[i] = IF i <= Len(u) THEN u[i] ELSE f[i - Len(u)]
      BY <2>3, ConcatProperties, ZenonT(60)
    <3>2. QED
      BY <1>1, <2>3, <2>4, <3>1
  <2>6. Len(g) = Sink!Shorter(n, Len(w))
    BY <1>4, <1>6, <2>1, <2>2, <2>5 DEF Sink!Shorter
  <2>7. \A i \in 1..Len(g) : g[i] = w[i]
    <3>1. SUFFICES ASSUME NEW i \in 1..(k + j) PROVE g[i] = w[i]
      BY <2>5
    <3>2. i \in 1..(k + l)
      BY <2>2
    <3>3. CASE i <= k
      BY <1>4, <2>5, <3>2, <3>3
    <3>4. CASE i > k
      <4>1. i - k \in 1..j
        BY <3>4
      <4>2. QED
        BY <1>4, <2>3, <2>5, <3>2, <3>4, <4>1
    <3>5. QED
      BY <3>3, <3>4
  <2>8. Sink!First(n, w) = g
    BY <2>6, <2>7, IsFirst
  <2>9. QED
    BY <1>1, <1>3, <1>6, <2>1, <2>3, <2>4, <2>8
<1>7. QED
  BY <1>1, <1>5, <1>6

\* What is first in a beginning is first in the whole.
LEMMA FirstOfBeginning ==
  ASSUME NEW S, NEW u \in Seq(S), NEW v \in Seq(S), Begins(u, v), NEW n \in Nat, n <= Len(u)
  PROVE  Sink!First(n, v) = Sink!First(n, u)
<1>1. Len(u) \in Nat
  BY LenProperties
<1>2. Sink!First(n, Sink!First(Len(u), v)) = Sink!First(Sink!Shorter(n, Len(u)), v)
  BY <1>1, FirstFirst
<1>3. Sink!Shorter(n, Len(u)) = n
  BY <1>1, ShorterNat
<1>4. QED
  BY <1>2, <1>3 DEF Begins

LEMMA EmptyBegins ==
  ASSUME NEW S, NEW v \in Seq(S)
  PROVE  Begins(<<>>, v) /\ Sink!First(0, v) = <<>>
<1>1. Len(<<>>) = 0
  BY EmptySeq
<1>2. QED
  BY <1>1, EmptyFirst DEF Begins

LEMMA BeginsConcat ==
  ASSUME NEW S, NEW u \in Seq(S), NEW v \in Seq(S), NEW w \in Seq(S), Begins(v, w)
  PROVE  Begins(u \o v, u \o w)
<1>1. PICK k \in Nat : k = Len(u)
  BY LenProperties
<1>2. PICK l \in Nat : l = Len(v)
  BY LenProperties
<1>3. Len(u \o v) = k + l
  BY <1>1, <1>2, ConcatProperties
<1>4. k + l \in Nat /\ k + l >= Len(u) /\ k + l - Len(u) = Len(v)
  BY <1>1, <1>2
<1>5. Sink!First(k + l, u \o w) = u \o Sink!First(k + l - Len(u), w)
  BY <1>4, FirstOfConcat
<1>6. QED
  BY <1>3, <1>4, <1>5 DEF Begins

LEMMA BeginsRefl ==
  ASSUME NEW S, NEW v \in Seq(S)
  PROVE  Begins(v, v)
BY FirstAll, LenProperties DEF Begins

LEMMA OwnRecordsType ==
  ASSUME NEW s \in Session, NEW n \in 0..MaxRecords
  PROVE  /\ Sink!OwnRecords(s, n) \in Seq(Record)
         /\ Len(Sink!OwnRecords(s, n)) = n
         /\ \A i \in 1..n : Sink!OwnRecords(s, n)[i] = <<s, i>>
<1>1. n \in Nat /\ \A i \in 1..n : i \in 1..MaxRecords
  BY BoundsAssumption
<1>2. Sink!OwnRecords(s, n) = [i \in 1..n |-> <<s, i>>]
  BY DEF Sink!OwnRecords
<1>3. \A i \in 1..n : <<s, i>> \in Record
  BY <1>1 DEF Record
<1>4. Sink!OwnRecords(s, n) \in [1..n -> Record]
  BY <1>2, <1>3
<1>5. QED
  BY <1>1, <1>2, <1>4, SeqDef, LenProperties

\* A session's log as it was once is the beginning of what it is.
LEMMA OwnRecordsFirst ==
  ASSUME NEW s \in Session, NEW o \in 0..MaxRecords, NEW n \in Nat
  PROVE  /\ Sink!First(n, Sink!OwnRecords(s, o)) = Sink!OwnRecords(s, Sink!Shorter(o, n))
         /\ Sink!Shorter(o, n) \in 0..MaxRecords
<1>1. o \in Nat /\ o <= MaxRecords /\ MaxRecords \in Nat
  BY BoundsAssumption
<1>2. PICK k \in 0..MaxRecords : k = Sink!Shorter(o, n) /\ k = Sink!Shorter(n, o) /\ k <= o
  BY <1>1 DEF Sink!Shorter
<1>3. PICK v \in Seq(Record) : v = Sink!OwnRecords(s, o) /\ Len(v) = o /\ \A i \in 1..o : v[i] = <<s, i>>
  BY OwnRecordsType
<1>4. PICK u \in Seq(Record) : u = Sink!OwnRecords(s, k) /\ Len(u) = k /\ \A i \in 1..k : u[i] = <<s, i>>
  BY OwnRecordsType
<1>5. ASSUME NEW i \in 1..Len(u) PROVE u[i] = v[i]
  <2>1. i \in 1..k /\ i \in 1..o
    BY <1>1, <1>2, <1>4
  <2>2. QED
    BY <1>3, <1>4, <2>1
<1>6. Sink!First(n, v) = u
  BY <1>2, <1>3, <1>4, <1>5, IsFirst
<1>7. QED
  BY <1>2, <1>3, <1>4, <1>6

LEMMA OwnRecordsGrow ==
  ASSUME NEW s \in Session, NEW o \in 0..MaxRecords, NEW n \in 0..MaxRecords, o <= n
  PROVE  Begins(Sink!OwnRecords(s, o), Sink!OwnRecords(s, n))
<1>1. o \in Nat /\ n \in Nat
  BY BoundsAssumption
<1>2. Sink!Shorter(n, o) = o
  BY <1>1, ShorterNat
<1>3. QED
  BY <1>1, <1>2, OwnRecordsFirst, OwnRecordsType DEF Begins

\* How many more records a read wants that has n.
Rest(n, max) == IF n < max THEN max - n ELSE 0

\* Records, and n of s's own log after them.
Followed(u, s, n) == u \o Sink!OwnRecords(s, n)

\* A read that has u, of the parent's v, and wants m of s in all.
Resumes(s, o, v, c, m, u, wanted) ==
  /\ s \in Session /\ o \in 0..MaxRecords /\ v \in Seq(Record) /\ u \in Seq(Record)
  /\ c \in Nat /\ c <= Len(v) /\ m \in Nat
  /\ u = Sink!First(Sink!Shorter(c, m), v)
  /\ wanted \in Nat /\ wanted = Rest(Len(u), m)

\* What it has once it has read the log it is at.
LEMMA EmittedIs ==
  ASSUME NEW s, NEW o, NEW v, NEW c, NEW m, NEW u, NEW wanted,
         Resumes(s, o, v, c, m, u, wanted)
  PROVE  Followed(u, s, Sink!Shorter(o, wanted)) = Sink!First(m, Followed(Sink!First(c, v), s, o))
<1> USE DEF Resumes, Followed
<1>1. PICK k \in Nat : k = Len(v)
  BY LenProperties
<1>2. PICK p \in Seq(Record) : p = Sink!First(c, v) /\ Len(p) = c
  BY <1>1, FirstType, ShorterNat
<1>3. PICK q \in Seq(Record) : q = Sink!OwnRecords(s, o)
  BY OwnRecordsType
<1>4. PICK x \in Seq(Record) : x = Sink!OwnRecords(s, Sink!Shorter(o, wanted))
  BY OwnRecordsFirst, OwnRecordsType
<1>5. x = Sink!First(wanted, q)
  BY <1>3, <1>4, OwnRecordsFirst
<1>6. CASE m <= c
  <2>1. Sink!Shorter(c, m) = m /\ Sink!Shorter(m, c) = m
    BY <1>6, ShorterNat
  <2>20. u = Sink!First(m, v) /\ m = Sink!Shorter(m, Len(v))
    BY <1>1, <1>6, <2>1, ShorterNat
  <2>2. u = Sink!First(m, v) /\ Len(u) = m
    BY <2>20, FirstIs
  <2>3. wanted = 0
    BY <2>2 DEF Rest
  <2>4. x = <<>>
    BY <1>3, <1>5, <2>3, EmptyBegins
  <2>5. Sink!First(m, p \o q) = Sink!First(m, p)
    BY <1>2, <1>3, <1>6, FirstOfConcat
  <2>6. Sink!First(m, p) = Sink!First(m, v)
    BY <1>2, <2>1, FirstFirst
  <2>7. u \o <<>> = u
    BY ConcatEmptySeq
  <2>8. QED
    BY <1>2, <1>3, <1>4, <2>2, <2>4, <2>5, <2>6, <2>7
<1>7. CASE m > c
  <2>1. Sink!Shorter(c, m) = c
    BY <1>7, ShorterNat
  <2>2. u = p /\ Len(u) = c
    BY <1>2, <2>1
  <2>3. wanted = m - c
    BY <1>7, <2>2 DEF Rest
  <2>4. Sink!First(m, p \o q) = p \o Sink!First(m - c, q)
    <3>0. m >= Len(p)
      BY <1>2, <1>7
    <3>1. Sink!First(m, p \o q) = p \o Sink!First(m - Len(p), q)
      BY <3>0, FirstOfConcat, SMTT(30)
    <3>2. QED
      BY <1>2, <3>1
  <2>5. QED
    BY <1>2, <1>3, <1>4, <1>5, <2>2, <2>3, <2>4
<1>8. QED
  BY <1>6, <1>7

-----------------------------------------------------------------------------
(* Induction over the depth: a set of numbers with 0, and with each number's   *)
(* next one up to n, has them all.                                             *)

LEMMA Smallest ==
  ASSUME NEW n \in Nat, NEW S \in SUBSET (0..n), S # {}
  PROVE  \E m \in S : \A k \in S : m <= k
<1> DEFINE R == StrictSubsetOrdering(0..n)
           T == {0..k : k \in S}
<1>1. IsFiniteSet(0..n)
  BY FS_Interval
<1>2. IsWellFoundedOn(R, SUBSET (0..n))
  BY <1>1, FS_StrictSubsetOrderingWellFounded, FS_FiniteSubsetsOfFinite
<1>3. T \subseteq SUBSET (0..n) /\ T # {}
  <2>1. \A k \in S : 0..k \in SUBSET (0..n)
    OBVIOUS
  <2>2. PICK k \in S : TRUE
    OBVIOUS
  <2>3. 0..k \in T
    OBVIOUS
  <2>4. QED
    BY <2>1, <2>3
<1>4. PICK x \in T : \A y \in T : ~(<<y, x>> \in R)
  <2> HIDE DEF R, T
  <2>1. QED
    BY <1>2, <1>3, WFMin
<1>5. PICK m \in S : x = 0..m
  BY <1>4
<1>6. ASSUME NEW k \in S PROVE m <= k
  <2>1. SUFFICES ASSUME k < m PROVE FALSE
    OBVIOUS
  <2>2. 0..k \in T /\ 0..k \subseteq 0..m /\ m \in 0..m /\ m \notin 0..k
    BY <2>1
  <2>3. 0..k \in SUBSET (0..n) /\ 0..m \in SUBSET (0..n)
    OBVIOUS
  <2>4. <<0..k, 0..m>> \in R
    BY <2>2, <2>3 DEF StrictSubsetOrdering
  <2>5. QED
    BY <1>4, <1>5, <2>2, <2>4
<1>7. QED
  BY <1>6

LEMMA Upwards ==
  ASSUME NEW n \in Nat, NEW S, 0 \in S,
         \A k \in 0..n : k # n /\ k \in S => k + 1 \in S
  PROVE  \A k \in 0..n : k \in S
<1> DEFINE B == {k \in 0..n : k \notin S}
<1>1. SUFFICES ASSUME B # {} PROVE FALSE
  OBVIOUS
<1>2. PICK m \in B : \A k \in B : m <= k
  <2>1. B \in SUBSET (0..n)
    OBVIOUS
  <2> HIDE DEF B
  <2>2. QED
    BY <1>1, <2>1, Smallest
<1>3. m \in 0..n /\ m \notin S /\ m # 0
  BY <1>2
<1>4. m - 1 \in 0..n /\ m - 1 # n /\ m - 1 + 1 = m
  BY <1>3
<1>5. m - 1 \in S
  BY <1>2, <1>4
<1>6. QED
  BY <1>3, <1>4, <1>5

-----------------------------------------------------------------------------
(* What sessions show, as a function of the pointers and of the lengths of     *)
(* the logs                                                                    *)

Ptr == [parent : Session, count : Nat]
Ptrs == [Session -> Ptr \cup {NoBranch}]
Lengths == [Session -> 0..MaxRecords]

BelowNext(ptr, B) == {x \in Session : ptr[x] # NoBranch /\ ptr[x].parent \in B}

BelowOf(ptr) == CHOOSE below : below = [i \in 0..MaxBranchDepth + 1 |->
  IF i = 0 THEN Session
  ELSE {x \in Session : ptr[x] # NoBranch /\ ptr[x].parent \in below[i - 1]}]

ShownNext(ptr, w, d, h) == [x \in Session |->
  (IF d = 0 \/ ptr[x] = NoBranch THEN <<>> ELSE Sink!First(ptr[x].count, h[ptr[x].parent]))
  \o Sink!OwnRecords(x, w[x])]

ShownOf(ptr, w) == CHOOSE shown : shown = [d \in 0..MaxBranchDepth |-> [x \in Session |->
  (IF d = 0 \/ ptr[x] = NoBranch THEN <<>>
   ELSE Sink!First(ptr[x].count, shown[d - 1][ptr[x].parent]))
  \o Sink!OwnRecords(x, w[x])]]

Shown(ptr, w, s) == ShownOf(ptr, w)[MaxBranchDepth][s]
Deep(ptr, s) == s \in BelowOf(ptr)[MaxBranchDepth + 1]

\* These are the abstract sink's views.
LEMMA ViewIsShown ==
  /\ \A s \in Session : Sink!View(s) = Shown(pointer, own, s)
  /\ \A s \in Session : Sink!View(s)' = Shown(pointer', own', s)
  /\ \A s \in Session : Sink!TooDeep(s) <=> Deep(pointer, s)
  /\ \A s \in Session : Sink!TooDeep(s)' <=> Deep(pointer', s)
BY DEF Sink!View, Sink!TooDeep, Shown, ShownOf, Deep, BelowOf

LEMMA DepthNat == MaxBranchDepth \in Nat /\ MaxBranchDepth + 1 \in Nat
BY BoundsAssumption

LEMMA BelowExists ==
  ASSUME NEW ptr
  PROVE  \E f : f = [i \in 0..MaxBranchDepth + 1 |->
           IF i = 0 THEN Session ELSE BelowNext(ptr, f[i - 1])]
<1> DEFINE UpTo(k, f) == f = [i \in 0..k |-> IF i = 0 THEN Session ELSE BelowNext(ptr, f[i - 1])]
           S == {k \in Nat : \E f : UpTo(k, f)}
<1>1. 0 \in S
  <2> DEFINE f == [i \in 0..0 |-> Session]
  <2>1. \A i \in 0..0 : i = 0
    OBVIOUS
  <2>2. UpTo(0, f)
    BY <2>1
  <2> HIDE DEF f, UpTo
  <2>3. QED
    BY <2>2
<1>2. ASSUME NEW k \in Nat, k \in S PROVE k + 1 \in S
  <2>1. PICK f : UpTo(k, f)
    BY <1>2
  <2> DEFINE g == [i \in 0..(k + 1) |-> IF i = k + 1 THEN BelowNext(ptr, f[k]) ELSE f[i]]
  <2>2. ASSUME NEW i \in 0..(k + 1)
        PROVE  g[i] = IF i = 0 THEN Session ELSE BelowNext(ptr, g[i - 1])
    <3>1. CASE i = 0
      <4>1. g[i] = f[i] /\ f[i] = Session
        BY <2>1, <3>1
      <4>2. QED
        BY <3>1, <4>1
    <3>2. CASE i = k + 1
      <4>1. i - 1 = k /\ k \in 0..(k + 1) /\ k # k + 1 /\ i # 0
        BY <3>2
      <4>2. g[k] = f[k]
        BY <4>1
      <4>3. g[i] = BelowNext(ptr, f[k])
        BY <3>2
      <4>4. QED
        BY <4>1, <4>2, <4>3
    <3>3. CASE i # 0 /\ i # k + 1
      <4>1. i \in 0..k /\ i - 1 \in 0..(k + 1) /\ i - 1 # k + 1
        BY <3>3
      <4>2. g[i] = f[i] /\ g[i - 1] = f[i - 1]
        BY <3>3, <4>1
      <4>3. f[i] = BelowNext(ptr, f[i - 1])
        BY <2>1, <3>3, <4>1
      <4>4. QED
        BY <3>3, <4>2, <4>3
    <3>4. QED
      BY <3>1, <3>2, <3>3
  <2>3. UpTo(k + 1, g)
    <3>1. g = [i \in 0..(k + 1) |-> g[i]]
      OBVIOUS
    <3> HIDE DEF g
    <3>2. QED
      BY <2>2, <3>1
  <2> HIDE DEF g, UpTo
  <2>4. QED
    BY <2>3
<1>3. MaxBranchDepth + 1 \in S
  <2> HIDE DEF S
  <2>1. \A k \in 0..(MaxBranchDepth + 1) : k # MaxBranchDepth + 1 /\ k \in S => k + 1 \in S
    BY <1>2, DepthNat
  <2>2. \A k \in 0..(MaxBranchDepth + 1) : k \in S
    BY <1>1, <2>1, DepthNat, Upwards
  <2>3. MaxBranchDepth + 1 \in 0..(MaxBranchDepth + 1)
    BY DepthNat
  <2>4. QED
    BY <2>2, <2>3
<1>4. PICK f : UpTo(MaxBranchDepth + 1, f)
  BY <1>3
<1>5. QED
  BY <1>4

LEMMA BelowStep ==
  ASSUME NEW ptr
  PROVE  /\ BelowOf(ptr)[0] = Session
         /\ \A i \in 0..MaxBranchDepth : BelowOf(ptr)[i + 1] = BelowNext(ptr, BelowOf(ptr)[i])
<1> DEFINE E(f) == f = [i \in 0..MaxBranchDepth + 1 |->
             IF i = 0 THEN Session ELSE BelowNext(ptr, f[i - 1])]
<1>1. E(BelowOf(ptr))
  <2>1. \E f : E(f)
    BY BelowExists
  <2>2. BelowOf(ptr) = CHOOSE f : E(f)
    BY DEF BelowOf, BelowNext
  <2> HIDE DEF E
  <2>3. QED
    BY <2>1, <2>2
<1>2. 0 \in 0..(MaxBranchDepth + 1)
  BY DepthNat
<1>3. BelowOf(ptr)[0] = Session
  BY <1>1, <1>2, Zenon
<1>4. ASSUME NEW i \in 0..MaxBranchDepth
      PROVE  BelowOf(ptr)[i + 1] = BelowNext(ptr, BelowOf(ptr)[i])
  <2>1. PICK j \in 0..(MaxBranchDepth + 1) : j = i + 1 /\ j # 0 /\ j - 1 = i
    BY DepthNat
  <2>2. BelowOf(ptr)[j] = BelowNext(ptr, BelowOf(ptr)[j - 1])
    BY <1>1, <2>1, Zenon
  <2>3. QED
    BY <2>1, <2>2
<1>5. QED
  BY <1>3, <1>4

LEMMA ShownExists ==
  ASSUME NEW ptr, NEW w
  PROVE  \E f : f = [d \in 0..MaxBranchDepth |-> ShownNext(ptr, w, d, f[d - 1])]
<1> DEFINE UpTo(k, f) == f = [d \in 0..k |-> ShownNext(ptr, w, d, f[d - 1])]
           S == {k \in Nat : \E f : UpTo(k, f)}
<1>0. ASSUME NEW h, NEW g PROVE ShownNext(ptr, w, 0, h) = ShownNext(ptr, w, 0, g)
  BY DEF ShownNext
<1>1. 0 \in S
  <2> DEFINE f == [d \in 0..0 |-> ShownNext(ptr, w, 0, <<>>)]
  <2>1. ASSUME NEW d \in 0..0 PROVE f[d] = ShownNext(ptr, w, d, f[d - 1])
    <3>1. d = 0 /\ f[d] = ShownNext(ptr, w, 0, <<>>)
      OBVIOUS
    <3> HIDE DEF f
    <3>2. QED
      BY <1>0, <3>1
  <2>2. UpTo(0, f)
    <3>1. f = [d \in 0..0 |-> f[d]]
      OBVIOUS
    <3> HIDE DEF f
    <3>2. QED
      BY <2>1, <3>1
  <2> HIDE DEF f, UpTo
  <2>3. QED
    BY <2>2
<1>2. ASSUME NEW k \in Nat, k \in S PROVE k + 1 \in S
  <2>1. PICK f : UpTo(k, f)
    BY <1>2
  <2> DEFINE g == [d \in 0..(k + 1) |-> IF d = k + 1 THEN ShownNext(ptr, w, d, f[k]) ELSE f[d]]
  <2>2. ASSUME NEW d \in 0..(k + 1)
        PROVE  g[d] = ShownNext(ptr, w, d, g[d - 1])
    <3>1. CASE d = 0
      <4>1. g[d] = f[d] /\ f[d] = ShownNext(ptr, w, 0, f[d - 1])
        BY <2>1, <3>1
      <4> HIDE DEF g
      <4>2. QED
        BY <1>0, <3>1, <4>1
    <3>2. CASE d = k + 1
      <4>1. d - 1 = k /\ k \in 0..(k + 1) /\ k # k + 1
        BY <3>2
      <4>2. g[k] = f[k]
        BY <4>1
      <4>3. g[d] = ShownNext(ptr, w, d, f[k])
        BY <3>2
      <4> HIDE DEF g
      <4>4. QED
        BY <4>1, <4>2, <4>3
    <3>3. CASE d # 0 /\ d # k + 1
      <4>1. d \in 0..k /\ d - 1 \in 0..(k + 1) /\ d - 1 # k + 1
        BY <3>3
      <4>2. g[d] = f[d] /\ g[d - 1] = f[d - 1]
        BY <3>3, <4>1
      <4>3. f[d] = ShownNext(ptr, w, d, f[d - 1])
        BY <2>1, <3>3, <4>1
      <4> HIDE DEF g
      <4>4. QED
        BY <4>2, <4>3
    <3>4. QED
      BY <3>1, <3>2, <3>3
  <2>3. UpTo(k + 1, g)
    <3>1. g = [d \in 0..(k + 1) |-> g[d]]
      OBVIOUS
    <3> HIDE DEF g
    <3>2. QED
      BY <2>2, <3>1
  <2> HIDE DEF g, UpTo
  <2>4. QED
    BY <2>3
<1>3. MaxBranchDepth \in S
  <2> HIDE DEF S
  <2>1. \A k \in 0..MaxBranchDepth : k # MaxBranchDepth /\ k \in S => k + 1 \in S
    BY <1>2, DepthNat
  <2>2. \A k \in 0..MaxBranchDepth : k \in S
    BY <1>1, <2>1, DepthNat, Upwards
  <2>3. MaxBranchDepth \in 0..MaxBranchDepth
    BY DepthNat
  <2>4. QED
    BY <2>2, <2>3
<1>4. PICK f : UpTo(MaxBranchDepth, f)
  BY <1>3
<1>5. QED
  BY <1>4

\* What a branch shows of what its parent does, and then of its own log.
OnParent(ptr, w, x, h) ==
  Sink!First(ptr[x].count, h[ptr[x].parent]) \o Sink!OwnRecords(x, w[x])

LEMMA ShownStep ==
  ASSUME NEW ptr, NEW w, NEW d \in 0..MaxBranchDepth, NEW x \in Session
  PROVE  /\ d = 0 \/ ptr[x] = NoBranch =>
              ShownOf(ptr, w)[d][x] = <<>> \o Sink!OwnRecords(x, w[x])
         /\ d # 0 /\ ptr[x] # NoBranch =>
              ShownOf(ptr, w)[d][x] = OnParent(ptr, w, x, ShownOf(ptr, w)[d - 1])
<1> DEFINE E(f) == f = [k \in 0..MaxBranchDepth |-> ShownNext(ptr, w, k, f[k - 1])]
<1>1. E(ShownOf(ptr, w))
  <2>1. \E f : E(f)
    BY ShownExists, ZenonT(60)
  <2>2. ShownOf(ptr, w) = CHOOSE f : E(f)
    BY DEF ShownOf, ShownNext
  <2> HIDE DEF E
  <2>3. QED
    BY <2>1, <2>2
<1>2. PICK f : f = ShownOf(ptr, w)
  OBVIOUS
<1>3. f[d] = ShownNext(ptr, w, d, f[d - 1])
  BY <1>1, <1>2, Zenon
<1>4. f[d][x] = (IF d = 0 \/ ptr[x] = NoBranch THEN <<>>
            ELSE Sink!First(ptr[x].count, f[d - 1][ptr[x].parent]))
           \o Sink!OwnRecords(x, w[x])
  BY <1>3 DEF ShownNext
<1>5. QED
  BY <1>2, <1>4 DEF OnParent

\* What a session shows, one pointer after the other.
LEMMA ShownRoot ==
  ASSUME NEW ptr \in Ptrs, NEW w \in Lengths, NEW d \in 0..MaxBranchDepth, NEW x \in Session,
         d = 0 \/ ptr[x] = NoBranch
  PROVE  ShownOf(ptr, w)[d][x] = Sink!OwnRecords(x, w[x])
<1>1. w[x] \in 0..MaxRecords
  BY DEF Lengths
<1>2. PICK v \in Seq(Record) : v = Sink!OwnRecords(x, w[x])
  BY <1>1, OwnRecordsType
<1>3. ShownOf(ptr, w)[d][x] = <<>> \o v
  BY <1>2, ShownStep
<1>4. <<>> \o v = v
  BY ConcatEmptySeq
<1>5. QED
  BY <1>2, <1>3, <1>4

LEMMA ShownBranch ==
  ASSUME NEW ptr \in Ptrs, NEW w \in Lengths, NEW d \in 0..MaxBranchDepth, NEW x \in Session,
         d # 0, ptr[x] # NoBranch
  PROVE  /\ ShownOf(ptr, w)[d][x] = OnParent(ptr, w, x, ShownOf(ptr, w)[d - 1])
         /\ ptr[x].parent \in Session /\ ptr[x].count \in Nat
         /\ d - 1 \in 0..MaxBranchDepth
<1>1. d - 1 \in 0..MaxBranchDepth
  BY DepthNat
<1>2. ptr[x].parent \in Session /\ ptr[x].count \in Nat
  BY DEF Ptrs, Ptr
<1>3. ShownOf(ptr, w)[d][x] = OnParent(ptr, w, x, ShownOf(ptr, w)[d - 1])
  BY ShownStep
<1>4. QED
  BY <1>1, <1>2, <1>3

Times(k) == k * MaxRecords

LEMMA TimesNext ==
  /\ Times(1) = MaxRecords
  /\ \A k \in Nat : /\ Times(k) \in Nat /\ Times(k + 1) = Times(k) + MaxRecords
                    /\ MaxRecords <= Times(k + 1)
  /\ Unlimited = Times(MaxBranchDepth + 1) + 1
<1>1. MaxRecords \in Nat /\ MaxBranchDepth \in Nat
  BY BoundsAssumption
<1>2. \A k \in Nat : k * MaxRecords \in Nat /\ (k + 1) * MaxRecords = k * MaxRecords + MaxRecords
  BY <1>1
<1>3. 1 * MaxRecords = MaxRecords
  BY <1>1
<1>4. QED
  BY <1>1, <1>2, <1>3 DEF Times, Unlimited

LEMMA ShownTypeAt ==
  ASSUME NEW ptr \in Ptrs, NEW w \in Lengths
  PROVE  \A d \in 0..MaxBranchDepth : \A x \in Session :
           /\ ShownOf(ptr, w)[d][x] \in Seq(Record)
           /\ Len(ShownOf(ptr, w)[d][x]) <= Times(d + 1)
<1> DEFINE S == {d \in Nat : \A x \in Session :
                   /\ ShownOf(ptr, w)[d][x] \in Seq(Record)
                   /\ Len(ShownOf(ptr, w)[d][x]) <= Times(d + 1)}
<1>1. 0 \in S
  <2>1. ASSUME NEW x \in Session
        PROVE  /\ ShownOf(ptr, w)[0][x] \in Seq(Record)
               /\ Len(ShownOf(ptr, w)[0][x]) <= Times(0 + 1)
    <3>1. ShownOf(ptr, w)[0][x] = Sink!OwnRecords(x, w[x])
      BY DepthNat, ShownRoot
    <3>2. PICK n \in 0..MaxRecords : n = w[x]
      BY DEF Lengths
    <3>3. Sink!OwnRecords(x, n) \in Seq(Record) /\ Len(Sink!OwnRecords(x, n)) = n
      BY OwnRecordsType
    <3>4. n <= Times(0 + 1)
      BY TimesNext, BoundsAssumption
    <3>5. QED
      BY <3>1, <3>2, <3>3, <3>4
  <2>2. QED
    BY <2>1
<1>2. ASSUME NEW k \in 0..MaxBranchDepth, k # MaxBranchDepth, k \in S PROVE k + 1 \in S
  <2>1. PICK d \in 0..MaxBranchDepth : d = k + 1 /\ d # 0 /\ d - 1 = k
    BY <1>2, DepthNat
  <2>2. ASSUME NEW x \in Session
        PROVE  /\ ShownOf(ptr, w)[d][x] \in Seq(Record)
               /\ Len(ShownOf(ptr, w)[d][x]) <= Times(d + 1)
    <3>1. PICK n \in 0..MaxRecords : n = w[x]
      BY DEF Lengths
    <3>2. PICK q \in Seq(Record) : q = Sink!OwnRecords(x, n) /\ Len(q) = n
      BY OwnRecordsType
    <3>3. Times(k + 1) \in Nat /\ Times(d + 1) = Times(k + 1) + MaxRecords
          /\ MaxRecords <= Times(d + 1) /\ n <= MaxRecords /\ n \in Nat /\ MaxRecords \in Nat
      <4>1. k \in Nat /\ k + 1 \in Nat /\ d \in Nat /\ n \in Nat /\ MaxRecords \in Nat /\ n <= MaxRecords
        BY <2>1, BoundsAssumption
      <4>2. Times(d) \in Nat /\ Times(d + 1) = Times(d) + MaxRecords /\ MaxRecords <= Times(d + 1)
        BY <4>1, TimesNext
      <4>3. QED
        BY <2>1, <4>1, <4>2
    <3>4. CASE ptr[x] = NoBranch
      BY <3>1, <3>2, <3>3, <3>4, ShownRoot
    <3>5. CASE ptr[x] # NoBranch
      <4>1. PICK y \in Session : y = ptr[x].parent
        BY <2>1, <3>5, ShownBranch
      <4>2. PICK c \in Nat : c = ptr[x].count
        BY <2>1, <3>5, ShownBranch
      <4>3. PICK v \in Seq(Record) : v = ShownOf(ptr, w)[k][y] /\ Len(v) <= Times(k + 1)
        BY <1>2
      <4>4. ShownOf(ptr, w)[d][x] = Sink!First(c, v) \o q
        <5>1. ShownOf(ptr, w)[d][x] = OnParent(ptr, w, x, ShownOf(ptr, w)[d - 1])
          BY <2>1, <3>5, ShownBranch
        <5>2. QED
          BY <2>1, <3>1, <3>2, <4>1, <4>2, <4>3, <5>1 DEF OnParent
      <4>5. PICK l \in Nat : l = Len(v)
        BY LenProperties
      <4>6. PICK p : p = Sink!First(c, v)
        OBVIOUS
      <4>7. p \in Seq(Record) /\ Len(p) \in Nat /\ Len(p) <= l
        <5>1. PICK j \in Nat : j = Sink!Shorter(c, Len(v)) /\ j <= l
          BY <4>5, ShorterNat
        <5>2. p \in Seq(Record) /\ Len(p) = j
          BY <4>6, <5>1, FirstIs
        <5>3. QED
          BY <5>1, <5>2
      <4>8. p \o q \in Seq(Record) /\ Len(p \o q) = Len(p) + n
        BY <3>2, <4>7, ConcatProperties
      <4>9. Len(p) + n <= Times(d + 1)
        BY <3>3, <4>3, <4>5, <4>7
      <4>10. QED
        BY <4>4, <4>6, <4>8, <4>9
    <3>6. QED
      BY <3>4, <3>5
  <2>3. QED
    BY <2>1, <2>2
<1>3. \A d \in 0..MaxBranchDepth : d \in S
  <2> HIDE DEF S
  <2>1. QED
    BY <1>1, <1>2, DepthNat, Upwards
<1>4. QED
  BY <1>3

LEMMA ShownType ==
  ASSUME NEW ptr \in Ptrs, NEW w \in Lengths, NEW x \in Session
  PROVE  /\ Shown(ptr, w, x) \in Seq(Record)
         /\ Len(Shown(ptr, w, x)) \in Nat
         /\ Len(Shown(ptr, w, x)) < Unlimited
<1>1. MaxBranchDepth \in 0..MaxBranchDepth
  BY DepthNat
<1>2. PICK v \in Seq(Record) : v = Shown(ptr, w, x) /\ Len(v) <= Times(MaxBranchDepth + 1)
  BY <1>1, ShownTypeAt DEF Shown
<1>3. Len(v) \in Nat /\ Times(MaxBranchDepth + 1) \in Nat /\ Unlimited = Times(MaxBranchDepth + 1) + 1
  BY LenProperties, TimesNext, DepthNat
<1>4. QED
  BY <1>2, <1>3

\* Fewer sessions have more sessions above them.
LEMMA BelowShrinks ==
  ASSUME NEW ptr
  PROVE  \A i \in 0..MaxBranchDepth : BelowOf(ptr)[i + 1] \subseteq BelowOf(ptr)[i]
<1> DEFINE S == {i \in Nat : BelowOf(ptr)[i + 1] \subseteq BelowOf(ptr)[i]}
<1>1. 0 \in S
  <2>1. BelowOf(ptr)[0 + 1] = BelowNext(ptr, BelowOf(ptr)[0]) /\ BelowOf(ptr)[0] = Session
    BY BelowStep, DepthNat
  <2>2. QED
    BY <2>1 DEF BelowNext
<1>2. ASSUME NEW k \in 0..MaxBranchDepth, k # MaxBranchDepth, k \in S PROVE k + 1 \in S
  <2>1. PICK d \in 0..MaxBranchDepth : d = k + 1 /\ d \in Nat
    BY <1>2, DepthNat
  <2>2. BelowOf(ptr)[d + 1] = BelowNext(ptr, BelowOf(ptr)[d])
    BY BelowStep
  <2>3. BelowOf(ptr)[d] = BelowNext(ptr, BelowOf(ptr)[k])
    BY <2>1, BelowStep
  <2>4. BelowOf(ptr)[d] \subseteq BelowOf(ptr)[k]
    BY <1>2, <2>1
  <2>5. BelowOf(ptr)[d + 1] \subseteq BelowOf(ptr)[d]
    BY <2>2, <2>3, <2>4 DEF BelowNext
  <2>6. QED
    BY <2>1, <2>5
<1>3. \A d \in 0..MaxBranchDepth : d \in S
  <2> HIDE DEF S
  <2>1. QED
    BY <1>1, <1>2, DepthNat, Upwards
<1>4. QED
  BY <1>3

\* A session is not below more than it has above it.
LEMMA NotBelow ==
  ASSUME NEW ptr, NEW d \in 0..MaxBranchDepth, NEW x \in Session
  PROVE  /\ d = 0 /\ x \notin BelowOf(ptr)[1] /\ ptr[x] # NoBranch => ptr[x].parent \notin Session
         /\ d # 0 /\ x \notin BelowOf(ptr)[d + 1] /\ ptr[x] # NoBranch
              => ptr[x].parent \notin BelowOf(ptr)[d]
         /\ ptr[x] = NoBranch => x \notin BelowOf(ptr)[d + 1]
         /\ ptr[x] # NoBranch /\ ptr[x].parent \notin BelowOf(ptr)[d] => x \notin BelowOf(ptr)[d + 1]
         /\ d = 0 /\ ptr[x] # NoBranch /\ ptr[x].parent \in Session => x \in BelowOf(ptr)[1]
<1>1. BelowOf(ptr)[d + 1] = BelowNext(ptr, BelowOf(ptr)[d])
  BY BelowStep
<1>2. d = 0 => BelowOf(ptr)[1] = BelowNext(ptr, Session)
  <2>1. BelowOf(ptr)[0] = Session
    BY BelowStep
  <2>2. d = 0 => d + 1 = 1
    OBVIOUS
  <2>3. QED
    BY <1>1, <2>1, <2>2
<1>3. \A B : x \in BelowNext(ptr, B) <=> ptr[x] # NoBranch /\ ptr[x].parent \in B
  BY DEF BelowNext
<1>4. x \in BelowOf(ptr)[d + 1] <=> ptr[x] # NoBranch /\ ptr[x].parent \in BelowOf(ptr)[d]
  BY <1>1, <1>3
<1>5. d = 0 => (x \in BelowOf(ptr)[1] <=> ptr[x] # NoBranch /\ ptr[x].parent \in Session)
  BY <1>2, <1>3
<1>6. QED
  BY <1>4, <1>5

\* What a session shows is settled once there is nothing above it any more.
LEMMA ShownSettles ==
  ASSUME NEW ptr \in Ptrs, NEW w \in Lengths
  PROVE  \A d \in 0..MaxBranchDepth : \A x \in Session : x \notin BelowOf(ptr)[d + 1] =>
           \A e \in d..MaxBranchDepth : ShownOf(ptr, w)[e][x] = ShownOf(ptr, w)[d][x]
<1> DEFINE S == {d \in Nat : \A x \in Session : x \notin BelowOf(ptr)[d + 1] =>
             \A e \in d..MaxBranchDepth : ShownOf(ptr, w)[e][x] = ShownOf(ptr, w)[d][x]}
<1>1. 0 \in S
  <2>1. ASSUME NEW x \in Session, x \notin BelowOf(ptr)[0 + 1], NEW e \in 0..MaxBranchDepth
        PROVE  ShownOf(ptr, w)[e][x] = ShownOf(ptr, w)[0][x]
    <3>1. 0 \in 0..MaxBranchDepth /\ x \notin BelowOf(ptr)[1]
      BY <2>1, DepthNat
    <3>2. ptr[x] # NoBranch => ptr[x].parent \in Session
      BY DEF Ptrs, Ptr
    <3>3. ptr[x] = NoBranch
      BY <3>1, <3>2, NotBelow
    <3>4. ShownOf(ptr, w)[e][x] = Sink!OwnRecords(x, w[x])
      BY <3>3, ShownRoot
    <3>5. ShownOf(ptr, w)[0][x] = Sink!OwnRecords(x, w[x])
      BY <3>1, <3>3, ShownRoot
    <3>6. QED
      BY <3>4, <3>5
  <2>2. QED
    BY <2>1
<1>2. ASSUME NEW k \in 0..MaxBranchDepth, k # MaxBranchDepth, k \in S PROVE k + 1 \in S
  <2>1. PICK d \in 0..MaxBranchDepth : d = k + 1 /\ d # 0 /\ d - 1 = k /\ d \in Nat
    BY <1>2, DepthNat
  <2>2. ASSUME NEW x \in Session, x \notin BelowOf(ptr)[d + 1], NEW e \in d..MaxBranchDepth
        PROVE  ShownOf(ptr, w)[e][x] = ShownOf(ptr, w)[d][x]
    <3>1. e \in 0..MaxBranchDepth /\ e # 0 /\ e - 1 \in k..MaxBranchDepth
      BY <2>1, DepthNat
    <3>2. CASE ptr[x] = NoBranch
      <4>1. ShownOf(ptr, w)[e][x] = Sink!OwnRecords(x, w[x])
        BY <3>1, <3>2, ShownRoot
      <4>2. ShownOf(ptr, w)[d][x] = Sink!OwnRecords(x, w[x])
        BY <3>2, ShownRoot
      <4>3. QED
        BY <4>1, <4>2
    <3>3. CASE ptr[x] # NoBranch
      <4>1. PICK y \in Session : y = ptr[x].parent
        BY <2>1, <3>3, ShownBranch
      <4>2. y \notin BelowOf(ptr)[k + 1]
        BY <2>1, <2>2, <3>3, <4>1, NotBelow
      <4>3. ShownOf(ptr, w)[e - 1][y] = ShownOf(ptr, w)[k][y]
        BY <1>2, <3>1, <4>2
      <4>4. ShownOf(ptr, w)[e][x] = Sink!First(ptr[x].count, ShownOf(ptr, w)[e - 1][y])
                                      \o Sink!OwnRecords(x, w[x])
        <5>1. ShownOf(ptr, w)[e][x] = OnParent(ptr, w, x, ShownOf(ptr, w)[e - 1])
          BY <3>1, <3>3, ShownBranch
        <5>2. QED
          BY <4>1, <5>1 DEF OnParent
      <4>5. ShownOf(ptr, w)[d][x] = Sink!First(ptr[x].count, ShownOf(ptr, w)[k][y])
                                      \o Sink!OwnRecords(x, w[x])
        <5>1. ShownOf(ptr, w)[d][x] = OnParent(ptr, w, x, ShownOf(ptr, w)[d - 1])
          BY <2>1, <3>3, ShownBranch
        <5>2. QED
          BY <2>1, <4>1, <5>1 DEF OnParent
      <4>6. QED
        BY <4>3, <4>4, <4>5
    <3>4. QED
      BY <3>2, <3>3
  <2>3. d \in S
    BY <2>1, <2>2
  <2>4. QED
    BY <2>1, <2>3
<1>3. \A d \in 0..MaxBranchDepth : d \in S
  <2> HIDE DEF S
  <2>1. QED
    BY <1>1, <1>2, DepthNat, Upwards
<1>4. QED
  BY <1>3

LEMMA OwnShown ==
  ASSUME NEW ptr \in Ptrs, NEW w \in Lengths, NEW x \in Session, ptr[x] = NoBranch
  PROVE  Shown(ptr, w, x) = Sink!OwnRecords(x, w[x]) /\ ~Deep(ptr, x)
<1>1. MaxBranchDepth \in 0..MaxBranchDepth
  BY DepthNat
<1>2. QED
  BY <1>1, ShownRoot, NotBelow DEF Shown, Deep

\* A branch that can be read has a parent that can, and shows the beginning of
\* what its parent shows before its own records.
LEMMA BranchShown ==
  ASSUME NEW ptr \in Ptrs, NEW w \in Lengths, NEW x \in Session, ptr[x] # NoBranch, ~Deep(ptr, x)
  PROVE  /\ ptr[x].parent \in Session /\ ptr[x].count \in Nat /\ ~Deep(ptr, ptr[x].parent)
         /\ Shown(ptr, w, x) = Sink!First(ptr[x].count, Shown(ptr, w, ptr[x].parent))
                                 \o Sink!OwnRecords(x, w[x])
<1>1. PICK D \in 0..MaxBranchDepth : D = MaxBranchDepth
  BY DepthNat
<1>2. PICK y \in Session : y = ptr[x].parent
  BY DEF Ptrs, Ptr
<1>3. ptr[x].count \in Nat
  BY DEF Ptrs, Ptr
<1>4. x \notin BelowOf(ptr)[D + 1]
  BY <1>1 DEF Deep
<1>5. D # 0
  BY <1>2, <1>4, NotBelow
<1>6. y \notin BelowOf(ptr)[D]
  BY <1>2, <1>4, <1>5, NotBelow
<1>7. ~Deep(ptr, y)
  BY <1>1, <1>6, BelowShrinks DEF Deep
<1>8. D - 1 \in 0..MaxBranchDepth /\ D - 1 + 1 = D /\ D \in (D - 1)..MaxBranchDepth
  BY <1>1, <1>5, DepthNat
<1>9. ShownOf(ptr, w)[D][y] = ShownOf(ptr, w)[D - 1][y]
  <2>1. PICK k \in 0..MaxBranchDepth : k = D - 1 /\ k + 1 = D /\ D \in k..MaxBranchDepth
    BY <1>8
  <2>2. y \notin BelowOf(ptr)[k + 1]
    BY <1>6, <2>1
  <2>3. ShownOf(ptr, w)[D][y] = ShownOf(ptr, w)[k][y]
    BY <2>1, <2>2, ShownSettles
  <2>4. QED
    BY <2>1, <2>3
<1>10. ShownOf(ptr, w)[D][x] = Sink!First(ptr[x].count, ShownOf(ptr, w)[D - 1][y])
                                 \o Sink!OwnRecords(x, w[x])
  <2>1. ShownOf(ptr, w)[D][x] = OnParent(ptr, w, x, ShownOf(ptr, w)[D - 1])
    BY <1>2, <1>5, ShownBranch
  <2>2. QED
    BY <1>2, <2>1 DEF OnParent
<1>11. QED
  BY <1>1, <1>2, <1>3, <1>7, <1>9, <1>10 DEF Shown

-----------------------------------------------------------------------------
(* What growing logs and new pointers do to it *)

\* Every pointer is to a parent that can be read and shows as many records.
Within(ptr, w) ==
  \A x \in Session : ptr[x] # NoBranch =>
    ~Deep(ptr, ptr[x].parent) /\ ptr[x].count <= Len(Shown(ptr, w, ptr[x].parent))

LEMMA ShownGrows ==
  ASSUME NEW ptr \in Ptrs, NEW w \in Lengths, NEW v \in Lengths, Within(ptr, w),
         \A x \in Session : w[x] <= v[x]
  PROVE  \A x \in Session : ~Deep(ptr, x) => Begins(Shown(ptr, w, x), Shown(ptr, v, x))
<1> DEFINE S == {d \in Nat : \A x \in Session : x \notin BelowOf(ptr)[d + 1] /\ ~Deep(ptr, x) =>
                   Begins(Shown(ptr, w, x), Shown(ptr, v, x))}
<1>1. ASSUME NEW x \in Session
      PROVE  /\ Sink!OwnRecords(x, w[x]) \in Seq(Record) /\ Sink!OwnRecords(x, v[x]) \in Seq(Record)
             /\ Begins(Sink!OwnRecords(x, w[x]), Sink!OwnRecords(x, v[x]))
  <2>1. w[x] \in 0..MaxRecords /\ v[x] \in 0..MaxRecords /\ w[x] <= v[x]
    BY DEF Lengths
  <2>2. QED
    BY <2>1, OwnRecordsType, OwnRecordsGrow
<1>2. ASSUME NEW x \in Session, ptr[x] = NoBranch
      PROVE  Begins(Shown(ptr, w, x), Shown(ptr, v, x))
  <2>1. Shown(ptr, w, x) = Sink!OwnRecords(x, w[x]) /\ Shown(ptr, v, x) = Sink!OwnRecords(x, v[x])
    BY <1>2, OwnShown
  <2>2. QED
    BY <1>1, <2>1
<1>3. ASSUME NEW x \in Session, ptr[x] # NoBranch, ~Deep(ptr, x),
             Begins(Shown(ptr, w, ptr[x].parent), Shown(ptr, v, ptr[x].parent))
      PROVE  Begins(Shown(ptr, w, x), Shown(ptr, v, x))
  <2>1. PICK y \in Session : y = ptr[x].parent
    BY <1>3, BranchShown
  <2>2. PICK c \in Nat : c = ptr[x].count
    BY <1>3, BranchShown
  <2>3. PICK s \in Seq(Record) : s = Shown(ptr, w, y)
    BY ShownType
  <2>4. PICK t \in Seq(Record) : t = Shown(ptr, v, y)
    BY ShownType
  <2>5. c <= Len(s) /\ Begins(s, t)
    BY <1>3, <2>1, <2>2, <2>3, <2>4 DEF Within
  <2>6. Sink!First(c, t) = Sink!First(c, s)
    BY <2>5, FirstOfBeginning
  <2>7. PICK p \in Seq(Record) : p = Sink!First(c, s)
    BY FirstType
  <2>8. Shown(ptr, w, x) = p \o Sink!OwnRecords(x, w[x])
    BY <1>3, <2>1, <2>2, <2>3, <2>7, BranchShown
  <2>9. Shown(ptr, v, x) = p \o Sink!OwnRecords(x, v[x])
    <3>1. Shown(ptr, v, x) = Sink!First(ptr[x].count, Shown(ptr, v, ptr[x].parent))
                               \o Sink!OwnRecords(x, v[x])
      BY <1>3, BranchShown
    <3>2. Sink!First(ptr[x].count, Shown(ptr, v, ptr[x].parent)) = p
      BY <2>1, <2>2, <2>4, <2>6, <2>7
    <3>3. QED
      BY <3>1, <3>2
  <2>10. Begins(p \o Sink!OwnRecords(x, w[x]), p \o Sink!OwnRecords(x, v[x]))
    BY <1>1, BeginsConcat
  <2>11. QED
    BY <2>8, <2>9, <2>10
<1>4. 0 \in S
  <2>1. ASSUME NEW x \in Session, x \notin BelowOf(ptr)[0 + 1] PROVE ptr[x] = NoBranch
    <3>1. ptr[x] # NoBranch => ptr[x].parent \in Session
      BY DEF Ptrs, Ptr
    <3>2. QED
      BY <2>1, <3>1, NotBelow, DepthNat
  <2>2. QED
    BY <1>2, <2>1
<1>5. ASSUME NEW k \in 0..MaxBranchDepth, k # MaxBranchDepth, k \in S PROVE k + 1 \in S
  <2>1. PICK d \in 0..MaxBranchDepth : d = k + 1 /\ d # 0 /\ d \in Nat
    BY <1>5, DepthNat
  <2>2. ASSUME NEW x \in Session, x \notin BelowOf(ptr)[d + 1], ~Deep(ptr, x), ptr[x] # NoBranch
        PROVE  Begins(Shown(ptr, w, x), Shown(ptr, v, x))
    <3>1. ptr[x].parent \in Session /\ ~Deep(ptr, ptr[x].parent)
      BY <2>2, BranchShown
    <3>2. ptr[x].parent \notin BelowOf(ptr)[k + 1]
      BY <2>1, <2>2, NotBelow
    <3>3. Begins(Shown(ptr, w, ptr[x].parent), Shown(ptr, v, ptr[x].parent))
      BY <1>5, <3>1, <3>2
    <3>4. QED
      BY <1>3, <2>2, <3>3
  <2>3. d \in S
    BY <1>2, <2>1, <2>2
  <2>4. QED
    BY <2>1, <2>3
<1>6. \A d \in 0..MaxBranchDepth : d \in S
  <2> HIDE DEF S
  <2>1. QED
    BY <1>4, <1>5, DepthNat, Upwards
<1>7. MaxBranchDepth \in S
  BY <1>6, DepthNat
<1>8. QED
  BY <1>7 DEF Deep

\* Only s gets a new pointer, and no session is a branch of it.
Spares(ptr, ptr2, s) ==
  \A x \in Session : x # s =>
    ptr2[x] = ptr[x] /\ (ptr[x] # NoBranch => ptr[x].parent # s)

\* That changes nothing for the others.
LEMMA ShownKept ==
  ASSUME NEW ptr \in Ptrs, NEW ptr2 \in Ptrs, NEW w \in Lengths, NEW s,
         Spares(ptr, ptr2, s)
  PROVE  \A x \in Session : x # s =>
           Shown(ptr2, w, x) = Shown(ptr, w, x) /\ (Deep(ptr2, x) <=> Deep(ptr, x))
<1>0. \A x \in Session : x # s =>
        ptr2[x] = ptr[x] /\ (ptr[x] # NoBranch => ptr[x].parent # s)
  BY DEF Spares
<1> DEFINE S == {d \in Nat : \A x \in Session : x # s =>
                   ShownOf(ptr2, w)[d][x] = ShownOf(ptr, w)[d][x]}
           T == {d \in Nat : \A x \in Session : x # s =>
                   (x \in BelowOf(ptr2)[d] <=> x \in BelowOf(ptr)[d])}
<1>1. 0 \in S
  <2>1. ASSUME NEW x \in Session, x # s PROVE ShownOf(ptr2, w)[0][x] = ShownOf(ptr, w)[0][x]
    <3>1. ShownOf(ptr2, w)[0][x] = Sink!OwnRecords(x, w[x])
      BY ShownRoot, DepthNat
    <3>2. ShownOf(ptr, w)[0][x] = Sink!OwnRecords(x, w[x])
      BY ShownRoot, DepthNat
    <3>3. QED
      BY <3>1, <3>2
  <2>2. QED
    BY <2>1
<1>2. ASSUME NEW k \in 0..MaxBranchDepth, k # MaxBranchDepth, k \in S PROVE k + 1 \in S
  <2>1. PICK d \in 0..MaxBranchDepth : d = k + 1 /\ d # 0 /\ d - 1 = k /\ d \in Nat
    BY <1>2, DepthNat
  <2>2. ASSUME NEW x \in Session, x # s PROVE ShownOf(ptr2, w)[d][x] = ShownOf(ptr, w)[d][x]
    <3>1. ptr2[x] = ptr[x]
      BY <1>0, <2>2
    <3>2. CASE ptr[x] = NoBranch
      <4>1. ShownOf(ptr2, w)[d][x] = Sink!OwnRecords(x, w[x])
        BY <3>1, <3>2, ShownRoot
      <4>2. ShownOf(ptr, w)[d][x] = Sink!OwnRecords(x, w[x])
        BY <3>2, ShownRoot
      <4>3. QED
        BY <4>1, <4>2
    <3>3. CASE ptr[x] # NoBranch
      <4>1. PICK y \in Session : y = ptr[x].parent /\ y # s
        BY <1>0, <2>1, <2>2, <3>3, ShownBranch
      <4>2. ShownOf(ptr2, w)[k][y] = ShownOf(ptr, w)[k][y]
        BY <1>2, <4>1
      <4>3. ShownOf(ptr, w)[d][x] = Sink!First(ptr[x].count, ShownOf(ptr, w)[k][y])
                                      \o Sink!OwnRecords(x, w[x])
        <5>1. ShownOf(ptr, w)[d][x] = OnParent(ptr, w, x, ShownOf(ptr, w)[d - 1])
          BY <2>1, <3>3, ShownBranch
        <5>2. QED
          BY <2>1, <4>1, <5>1 DEF OnParent
      <4>4. ShownOf(ptr2, w)[d][x] = Sink!First(ptr[x].count, ShownOf(ptr2, w)[k][y])
                                       \o Sink!OwnRecords(x, w[x])
        <5>1. ptr2[x] # NoBranch
          BY <3>1, <3>3
        <5>2. ShownOf(ptr2, w)[d][x] = OnParent(ptr2, w, x, ShownOf(ptr2, w)[d - 1])
          BY <2>1, <5>1, ShownBranch
        <5>3. QED
          BY <2>1, <3>1, <4>1, <5>2 DEF OnParent
      <4>5. QED
        BY <4>2, <4>3, <4>4
    <3>4. QED
      BY <3>2, <3>3
  <2>3. d \in S
    BY <2>1, <2>2
  <2>4. QED
    BY <2>1, <2>3
<1>3. 0 \in T
  <2>1. BelowOf(ptr2)[0] = BelowOf(ptr)[0]
    BY BelowStep
  <2>2. QED
    BY <2>1
<1>4. ASSUME NEW k \in 0..(MaxBranchDepth + 1), k # MaxBranchDepth + 1, k \in T PROVE k + 1 \in T
  <2>1. k \in 0..MaxBranchDepth /\ k + 1 \in Nat
    BY <1>4, DepthNat
  <2>2. BelowOf(ptr2)[k + 1] = BelowNext(ptr2, BelowOf(ptr2)[k])
    BY <2>1, BelowStep
  <2>3. BelowOf(ptr)[k + 1] = BelowNext(ptr, BelowOf(ptr)[k])
    BY <2>1, BelowStep
  <2>4. ASSUME NEW x \in Session, x # s
        PROVE  x \in BelowOf(ptr2)[k + 1] <=> x \in BelowOf(ptr)[k + 1]
    <3>1. ptr[x] # NoBranch => ptr[x].parent \in Session /\ ptr[x].parent # s
      BY <1>0, <2>4 DEF Ptrs, Ptr
    <3>2. ptr[x] # NoBranch =>
            (ptr[x].parent \in BelowOf(ptr2)[k] <=> ptr[x].parent \in BelowOf(ptr)[k])
      BY <1>4, <3>1
    <3>3. QED
      BY <1>0, <2>2, <2>3, <2>4, <3>2 DEF BelowNext
  <2>5. QED
    BY <2>1, <2>4
<1>5. MaxBranchDepth \in S
  <2> HIDE DEF S
  <2>1. \A d \in 0..MaxBranchDepth : d \in S
    BY <1>1, <1>2, DepthNat, Upwards
  <2>2. QED
    BY <2>1, DepthNat
<1>6. MaxBranchDepth + 1 \in T
  <2> HIDE DEF T
  <2>1. \A d \in 0..(MaxBranchDepth + 1) : d \in T
    BY <1>3, <1>4, DepthNat, Upwards
  <2>2. QED
    BY <2>1, DepthNat
<1>7. QED
  BY <1>5, <1>6 DEF Shown, Deep

\* A way up of at most MaxBranchDepth pointers leads from a session that can be
\* read.
LEMMA WayNotDeep ==
  ASSUME NEW ptr \in Ptrs, NEW n \in 1..(MaxBranchDepth + 1), NEW q, \A i \in 1..n : q[i] \in Session,
         ptr[q[n]] = NoBranch,
         \A i \in 1..n : i # n => ptr[q[i]] # NoBranch /\ ptr[q[i]].parent = q[i + 1]
  PROVE  ~Deep(ptr, q[1])
<1> DEFINE S == {j \in Nat : q[n - j] \notin BelowOf(ptr)[j + 1]}
           T == {j \in Nat : q[1] \notin BelowOf(ptr)[n + j]}
<1>1. n \in Nat /\ n - 1 \in Nat /\ n >= 1 /\ MaxBranchDepth \in Nat /\ n - 1 <= MaxBranchDepth
  BY DepthNat
<1>2. 0 \in S
  <2>1. n - 0 = n /\ n \in 1..n /\ 0 \in 0..MaxBranchDepth /\ q[n] \in Session
    BY <1>1
  <2>2. q[n] \notin BelowOf(ptr)[0 + 1]
    BY <2>1, NotBelow
  <2>3. QED
    BY <2>1, <2>2
<1>3. ASSUME NEW j \in 0..(n - 1), j # n - 1, j \in S PROVE j + 1 \in S
  <2>1. PICK d \in 0..MaxBranchDepth : d = j + 1 /\ d # 0 /\ d \in Nat
    BY <1>1, <1>3
  <2>2. PICK i \in 1..n : i = n - d /\ i # n /\ i + 1 = n - j /\ i + 1 \in 1..n
    BY <1>1, <1>3, <2>1
  <2>3. ptr[q[i]].parent = q[n - j] /\ ptr[q[i]] # NoBranch /\ q[i] \in Session
    BY <2>2
  <2>4. ptr[q[i]].parent \notin BelowOf(ptr)[d]
    BY <1>3, <2>1, <2>3
  <2>5. q[i] \notin BelowOf(ptr)[d + 1]
    BY <2>3, <2>4, NotBelow
  <2>6. d \in S
    BY <2>1, <2>2, <2>5
  <2>7. QED
    BY <2>1, <2>6
<1>4. n - 1 \in S
  <2> HIDE DEF S
  <2>1. \A j \in 0..(n - 1) : j \in S
    BY <1>1, <1>2, <1>3, Upwards
  <2>2. QED
    BY <1>1, <2>1
<1>5. 0 \in T
  <2>1. n - (n - 1) = 1 /\ n - 1 + 1 = n /\ n + 0 = n
    BY <1>1
  <2>2. q[1] \notin BelowOf(ptr)[n]
    BY <1>4, <2>1
  <2>3. QED
    BY <2>1, <2>2
<1>6. PICK m \in Nat : m = MaxBranchDepth + 1 - n
  BY <1>1
<1>7. ASSUME NEW j \in 0..m, j # m, j \in T PROVE j + 1 \in T
  <2>1. PICK i \in 0..MaxBranchDepth : i = n + j /\ i + 1 = n + (j + 1) /\ j + 1 \in Nat
    BY <1>1, <1>6, <1>7
  <2>2. q[1] \notin BelowOf(ptr)[i]
    BY <1>7, <2>1
  <2>3. q[1] \notin BelowOf(ptr)[i + 1]
    BY <2>2, BelowShrinks
  <2>4. QED
    BY <2>1, <2>3
<1>8. m \in T
  <2> HIDE DEF T
  <2>1. \A j \in 0..m : j \in T
    BY <1>5, <1>7, Upwards
  <2>2. QED
    BY <2>1
<1>9. n + m = MaxBranchDepth + 1
  BY <1>1, <1>6
<1>10. QED
  BY <1>8, <1>9 DEF Deep

-----------------------------------------------------------------------------
(* Types and the mutexes of the pointers *)

Frame == [session : Session, max : Nat]

\* What a thread at a label may have in its variables.
Fits(l, c, p, i, o, r) ==
  /\ l \in Labels /\ c \in CallType \cup {NoCall} /\ p \in Seq(Frame)
  /\ i \in Nat /\ i <= Len(p) /\ o \in Seq(Record) /\ r \in ResultType
  /\ l \in {"up", "emit"} => p # <<>> /\ c.op \in {"read", "branch"}
  /\ l # "emit" => i = 0 /\ o = <<>>
  /\ l \notin {"up", "emit"} => p = <<>>
  /\ l = "emit" => i > 0
  /\ l = "idle" <=> c = NoCall
  /\ l = "append" => c.op = "append"
  /\ l \in {"lock", "check", "publish"} => c.op = "branch"

\* A step of one thread.
Sets(t, l, c, p, i, o, r) ==
  /\ pc' = [pc EXCEPT ![t] = l] /\ call' = [call EXCEPT ![t] = c]
  /\ path' = [path EXCEPT ![t] = p] /\ at' = [at EXCEPT ![t] = i]
  /\ out' = [out EXCEPT ![t] = o] /\ result' = [result EXCEPT ![t] = r]

FilesType ==
  /\ own \in [Session -> 0..MaxRecords] /\ used \subseteq Session
  /\ pointer \in [Session -> [parent : Session, count : Nat] \cup {NoBranch}]
  /\ known \subseteq Session
  /\ faults \in 0..MaxFaults

ThreadsType ==
  /\ DOMAIN pc = Thread /\ DOMAIN call = Thread /\ DOMAIN path = Thread
  /\ DOMAIN at = Thread /\ DOMAIN out = Thread /\ DOMAIN result = Thread
  /\ pc = [t \in Thread |-> pc[t]] /\ call = [t \in Thread |-> call[t]]
  /\ path = [t \in Thread |-> path[t]] /\ at = [t \in Thread |-> at[t]]
  /\ out = [t \in Thread |-> out[t]] /\ result = [t \in Thread |-> result[t]]
  /\ \A t \in Thread : Fits(pc[t], call[t], path[t], at[t], out[t], result[t])

MutexType ==
  /\ mutex \in [Process -> [Session -> Thread \cup {"free"}]]
  /\ \A t \in Thread, p \in Process, s \in Session :
       mutex[p][s] = t <=> /\ p = ProcessOf[t] /\ pc[t] \in {"check", "publish"}
                           /\ s = call[t].session

\* The type invariant, by thread, and which calls are where.
TypeInv == FilesType /\ ThreadsType /\ MutexType

LEMMA TypeInvIsTypeOK == TypeInv => TypeOK
<1> SUFFICES ASSUME TypeInv PROVE TypeOK
  OBVIOUS
<1>1. /\ pc \in [Thread -> Labels] /\ call \in [Thread -> CallType \cup {NoCall}]
      /\ path \in [Thread -> Seq(Frame)] /\ out \in [Thread -> Seq(Record)]
      /\ result \in [Thread -> ResultType] /\ at \in [Thread -> Nat]
  BY DEF TypeInv, ThreadsType, Fits
<1>2. \A t \in Thread : at[t] \in 0..Len(path[t])
  BY LenProperties DEF TypeInv, ThreadsType, Fits
<1>3. \A t \in Thread : pc[t] \in {"up", "emit"} => path[t] # <<>>
  BY DEF TypeInv, ThreadsType, Fits
<1>4. QED
  BY <1>1, <1>2, <1>3 DEF TypeInv, FilesType, MutexType, TypeOK, Frame

LEMMA CallFields ==
  ASSUME NEW c \in CallType
  PROVE  /\ c.op \in {"append", "read", "branch"}
         /\ c.session \in Session /\ Uses(c) \in Session
         /\ c.op = "read" => c.max \in Nat \ {0}
         /\ c.op = "branch" => /\ c.session \notin Roots /\ c.parent \in Session
                               /\ c.count \in Nat /\ c.session # c.parent
BY DEF CallType, Uses

LEMMA NoCallIsNoCall == NoCall \notin CallType
<1>1. NoCall.op = "none"
  BY DEF NoCall
<1>2. QED
  BY <1>1, CallFields

\* What a thread inside a call has.
LEMMA InCall ==
  ASSUME TypeInv, NEW t \in Thread, pc[t] # "idle"
  PROVE  call[t] \in CallType
BY DEF TypeInv, ThreadsType, Fits

LEMMA StatusType ==
  ASSUME NEW code \in {"none", "ok", "error", "exists", "invalid"}
  PROVE  Sink!Status(code) \in ResultType
BY EmptySeq DEF Sink!Status, ResultType

LEMMA RecordsType ==
  ASSUME NEW rs \in Seq(Record)
  PROVE  Sink!Records(rs) \in ResultType
BY DEF Sink!Records, ResultType

LEMMA EmittedType ==
  ASSUME TypeInv, NEW t \in Thread, at[t] > 0
  PROVE  Emitted(t) \in Seq(Record)
<1>1. path[t] \in Seq(Frame) /\ out[t] \in Seq(Record) /\ at[t] \in Nat /\ at[t] <= Len(path[t])
  BY DEF TypeInv, ThreadsType, Fits
<1>2. Len(path[t]) \in Nat /\ Len(out[t]) \in Nat
  BY <1>1, LenProperties
<1>3. at[t] \in 1..Len(path[t])
  BY <1>1, <1>2
<1>4. PICK f \in Frame : f = path[t][at[t]]
  BY <1>1, <1>3, ElementOfSeq
<1>5. f.session \in Session /\ f.max \in Nat
  BY DEF Frame
<1>6. PICK wanted \in Nat : wanted = IF Len(out[t]) < f.max THEN f.max - Len(out[t]) ELSE 0
  BY <1>2, <1>5
<1>7. own[f.session] \in 0..MaxRecords
  BY <1>5 DEF TypeInv, FilesType
<1>8. PICK n \in 0..MaxRecords : n = Sink!Shorter(own[f.session], wanted)
  BY <1>6, <1>7, BoundsAssumption DEF Sink!Shorter
<1>9. Emitted(t) = out[t] \o Sink!OwnRecords(f.session, n)
  BY <1>4, <1>6, <1>8 DEF Emitted
<1>10. QED
  BY <1>1, <1>5, <1>9, OwnRecordsType, ConcatProperties

\* A step of one thread: the others keep their variables.
LEMMA LocalStep ==
  ASSUME ThreadsType, NEW t \in Thread,
         NEW l, NEW c, NEW p, NEW i, NEW o, NEW r,
         Sets(t, l, c, p, i, o, r)
  PROVE  /\ Fits(l, c, p, i, o, r) => ThreadsType'
         /\ pc'[t] = l /\ call'[t] = c /\ path'[t] = p
         /\ at'[t] = i /\ out'[t] = o /\ result'[t] = r
         /\ \A u \in Thread : u # t =>
              /\ pc'[u] = pc[u] /\ call'[u] = call[u] /\ path'[u] = path[u]
              /\ at'[u] = at[u] /\ out'[u] = out[u] /\ result'[u] = result[u]
<1>1. /\ pc'[t] = l /\ call'[t] = c /\ path'[t] = p
      /\ at'[t] = i /\ out'[t] = o /\ result'[t] = r
  BY DEF Sets, ThreadsType
<1>2. \A u \in Thread : u # t =>
              /\ pc'[u] = pc[u] /\ call'[u] = call[u] /\ path'[u] = path[u]
              /\ at'[u] = at[u] /\ out'[u] = out[u] /\ result'[u] = result[u]
  BY DEF Sets, ThreadsType
<1>3. /\ DOMAIN pc' = Thread /\ DOMAIN call' = Thread /\ DOMAIN path' = Thread
      /\ DOMAIN at' = Thread /\ DOMAIN out' = Thread /\ DOMAIN result' = Thread
  BY DEF Sets, ThreadsType
<1>4. /\ pc' = [u \in Thread |-> pc'[u]] /\ call' = [u \in Thread |-> call'[u]]
      /\ path' = [u \in Thread |-> path'[u]] /\ at' = [u \in Thread |-> at'[u]]
      /\ out' = [u \in Thread |-> out'[u]] /\ result' = [u \in Thread |-> result'[u]]
  BY <1>3 DEF Sets, ThreadsType
<1>5. ASSUME Fits(l, c, p, i, o, r), NEW u \in Thread
      PROVE  Fits(pc'[u], call'[u], path'[u], at'[u], out'[u], result'[u])
  <2>1. CASE u = t
    BY <1>1, <1>5, <2>1
  <2>2. CASE u # t
    BY <1>2, <2>2 DEF ThreadsType
  <2>3. QED
    BY <2>1, <2>2
<1>6. QED
  BY <1>1, <1>2, <1>3, <1>4, <1>5 DEF ThreadsType
\* A call that ends.
LEMMA FinishSets ==
  ASSUME ThreadsType, NEW t \in Thread, NEW r, Finish(t, r), call' = call
  PROVE  Sets(t, "return", call[t], <<>>, 0, <<>>, r)
BY DEF ThreadsType, Finish, Goto, Sets

\* A mutex that nobody takes or gives back.
LEMMA MutexStays ==
  ASSUME TypeInv, NEW t \in Thread, mutex' = mutex,
         \A u \in Thread : u # t => pc'[u] = pc[u] /\ call'[u] = call[u],
         \/ pc'[t] \notin {"check", "publish"} /\ pc[t] \notin {"check", "publish"}
         \/ /\ pc'[t] \in {"check", "publish"} /\ pc[t] \in {"check", "publish"}
            /\ call'[t] = call[t]
  PROVE  MutexType'
BY DEF TypeInv, MutexType

LEMMA MutexTaken ==
  ASSUME TypeInv, NEW t \in Thread, TakeMutex(t),
         \A u \in Thread : u # t => pc'[u] = pc[u] /\ call'[u] = call[u],
         pc'[t] = "check", call'[t] = call[t]
  PROVE  MutexType'
<1>1. PICK P \in Process : P = ProcessOf[t]
  BY ThreadsAssumption
<1>2. PICK x \in Session : x = call[t].session
  BY InCall, CallFields DEF TakeMutex
<1>3. mutex \in [Process -> [Session -> Thread \cup {"free"}]]
  BY DEF TypeInv, MutexType
<1>4. mutex[P][x] = "free" /\ mutex' = [mutex EXCEPT ![P][x] = t]
  BY <1>1, <1>2 DEF TakeMutex
<1>5. mutex' \in [Process -> [Session -> Thread \cup {"free"}]]
  BY <1>3, <1>4
<1>6. /\ mutex'[P][x] = t
      /\ \A q \in Process, y \in Session :
           q # P \/ y # x => mutex'[q][y] = mutex[q][y]
  BY <1>3, <1>4
<1>7. \A u \in Thread : mutex[P][x] # u
  BY <1>4, ThreadsAssumption
<1>8. pc[t] \notin {"check", "publish"}
  BY DEF TakeMutex
<1>9. ASSUME NEW u \in Thread, NEW q \in Process, NEW y \in Session
      PROVE  mutex'[q][y] = u <=> /\ q = ProcessOf[u] /\ pc'[u] \in {"check", "publish"}
                                  /\ y = call'[u].session
  <2>1. mutex[q][y] = u <=> /\ q = ProcessOf[u] /\ pc[u] \in {"check", "publish"}
                            /\ y = call[u].session
    BY DEF TypeInv, MutexType
  <2>2. CASE u = t
    BY <1>1, <1>2, <1>6, <1>8, <2>1, <2>2
  <2>3. CASE u # t
    <3>1. pc'[u] = pc[u] /\ call'[u] = call[u]
      BY <2>3
    <3>2. CASE q = P /\ y = x
      BY <1>6, <1>7, <2>1, <2>3, <3>1, <3>2
    <3>3. CASE q # P \/ y # x
      BY <1>6, <2>1, <3>1, <3>3
    <3>4. QED
      BY <3>2, <3>3
  <2>4. QED
    BY <2>2, <2>3
<1>10. QED
  BY <1>5, <1>9 DEF MutexType

LEMMA MutexReleased ==
  ASSUME TypeInv, NEW t \in Thread, Release(t), pc[t] \in {"check", "publish"},
         \A u \in Thread : u # t => pc'[u] = pc[u] /\ call'[u] = call[u],
         pc'[t] = "return"
  PROVE  MutexType'
<1>1. PICK P \in Process : P = ProcessOf[t]
  BY ThreadsAssumption
<1>2. PICK x \in Session : x = call[t].session
  BY InCall, CallFields
<1>3. mutex \in [Process -> [Session -> Thread \cup {"free"}]]
  BY DEF TypeInv, MutexType
<1>4. mutex[P][x] = t /\ mutex' = [mutex EXCEPT ![P][x] = "free"]
  BY <1>1, <1>2 DEF Release, TypeInv, MutexType
<1>5. mutex' \in [Process -> [Session -> Thread \cup {"free"}]]
  BY <1>3, <1>4
<1>6. /\ mutex'[P][x] = "free"
      /\ \A q \in Process, y \in Session :
           q # P \/ y # x => mutex'[q][y] = mutex[q][y]
  BY <1>3, <1>4
<1>7. "free" \notin Thread
  BY ThreadsAssumption
<1>9. ASSUME NEW u \in Thread, NEW q \in Process, NEW y \in Session
      PROVE  mutex'[q][y] = u <=> /\ q = ProcessOf[u] /\ pc'[u] \in {"check", "publish"}
                                  /\ y = call'[u].session
  <2>1. mutex[q][y] = u <=> /\ q = ProcessOf[u] /\ pc[u] \in {"check", "publish"}
                            /\ y = call[u].session
    BY DEF TypeInv, MutexType
  <2>2. CASE u = t
    BY <1>1, <1>2, <1>6, <1>7, <2>1, <2>2
  <2>3. CASE u # t
    <3>1. pc'[u] = pc[u] /\ call'[u] = call[u]
      BY <2>3
    <3>2. CASE q = P /\ y = x
      BY <1>4, <1>6, <1>7, <2>1, <2>3, <3>1, <3>2
    <3>3. CASE q # P \/ y # x
      BY <1>6, <2>1, <3>1, <3>3
    <3>4. QED
      BY <3>2, <3>3
  <2>4. QED
    BY <2>2, <2>3
<1>10. QED
  BY <1>5, <1>9 DEF MutexType

LEMMA FinishKeepsType ==
  ASSUME TypeInv, NEW t \in Thread, NEW r \in ResultType, Finish(t, r), call' = call,
         pc[t] # "idle",
         \/ mutex' = mutex /\ pc[t] \notin {"check", "publish"}
         \/ Release(t) /\ pc[t] \in {"check", "publish"}
  PROVE  ThreadsType' /\ MutexType'
<1>1. ThreadsType
  BY DEF TypeInv
<1>2. Sets(t, "return", call[t], <<>>, 0, <<>>, r)
  BY <1>1, FinishSets
<1>3. Fits("return", call[t], <<>>, 0, <<>>, r)
  <2>1. call[t] \in CallType /\ call[t] # NoCall
    BY InCall, NoCallIsNoCall
  <2>2. <<>> \in Seq(Frame) /\ <<>> \in Seq(Record) /\ Len(<<>>) = 0
    BY EmptySeq
  <2>3. QED
    BY <2>1, <2>2 DEF Fits, Labels
<1>4. /\ ThreadsType' /\ pc'[t] = "return"
      /\ \A u \in Thread : u # t => pc'[u] = pc[u] /\ call'[u] = call[u]
  BY <1>1, <1>2, <1>3, LocalStep
<1>5. CASE mutex' = mutex /\ pc[t] \notin {"check", "publish"}
  BY <1>4, <1>5, MutexStays
<1>6. CASE Release(t) /\ pc[t] \in {"check", "publish"}
  BY <1>4, <1>6, MutexReleased
<1>7. QED
  BY <1>4, <1>5, <1>6

LEMMA MoveKeepsType ==
  ASSUME TypeInv, NEW t \in Thread,
         NEW l, NEW c, NEW p, NEW i, NEW o, NEW r,
         Sets(t, l, c, p, i, o, r), Fits(l, c, p, i, o, r), mutex' = mutex,
         l \notin {"check", "publish"}, pc[t] \notin {"check", "publish"}
  PROVE  ThreadsType' /\ MutexType'
<1>1. ThreadsType
  BY DEF TypeInv
<1>2. /\ ThreadsType' /\ pc'[t] = l
      /\ \A u \in Thread : u # t => pc'[u] = pc[u] /\ call'[u] = call[u]
  BY <1>1, LocalStep
<1>3. QED
  BY <1>2, MutexStays

LEMMA FaultType ==
  ASSUME TypeInv, Fault
  PROVE  faults' \in 0..MaxFaults
BY BoundsAssumption DEF TypeInv, FilesType, Fault

\* What the variables of a thread are.
LEMMA ThreadFacts ==
  ASSUME TypeInv, NEW t \in Thread
  PROVE  /\ Fits(pc[t], call[t], path[t], at[t], out[t], result[t])
         /\ path[t] \in Seq(Frame) /\ Len(path[t]) \in Nat
         /\ at[t] \in Nat /\ at[t] <= Len(path[t])
         /\ out[t] \in Seq(Record) /\ Len(out[t]) \in Nat
         /\ result[t] \in ResultType
<1>1. Fits(pc[t], call[t], path[t], at[t], out[t], result[t])
  BY DEF TypeInv, ThreadsType
<1>2. QED
  BY <1>1, LenProperties DEF Fits

\* The frame a read is to go on from.
LEMMA TopType ==
  ASSUME TypeInv, NEW t \in Thread, pc[t] = "up"
  PROVE  Top(t) \in Frame /\ Len(path[t]) \in Nat \ {0}
<1>1. path[t] \in Seq(Frame) /\ path[t] # <<>>
  BY ThreadFacts DEF Fits
<1>2. Len(path[t]) \in Nat /\ Len(path[t]) # 0
  BY <1>1, EmptySeq, LenProperties
<1>3. QED
  BY <1>1, <1>2, ElementOfSeq DEF Top

LEMMA UnlimitedType == Unlimited \in Nat
BY BoundsAssumption DEF Unlimited

LEMMA FirstFrameType ==
  ASSUME NEW c \in CallType
  PROVE  LET m == IF c.op = "read" THEN c.max ELSE Unlimited
         IN  /\ <<[session |-> Uses(c), max |-> m]>> \in Seq(Frame)
             /\ Len(<<[session |-> Uses(c), max |-> m]>>) = 1
<1> DEFINE m == IF c.op = "read" THEN c.max ELSE Unlimited
<1>1. m \in Nat /\ Uses(c) \in Session
  BY CallFields, UnlimitedType
<1> HIDE DEF m
<1>2. PICK f \in Frame : f = [session |-> Uses(c), max |-> m]
  BY <1>1 DEF Frame
<1>3. <<f>> \in Seq(Frame) /\ Len(<<f>>) = 1
  OBVIOUS
<1>4. QED
  BY <1>2, <1>3 DEF m

LEMMA CallKeepsType ==
  ASSUME TypeInv, NEW t \in Thread, Call(t)
  PROVE  TypeInv'
<1>1. PICK c \in CallsOf[t] :
         /\ call' = [call EXCEPT ![t] = c]
         /\ IF c.op = "append" THEN Goto(t, "append") /\ UNCHANGED path
            ELSE /\ Goto(t, "up")
                 /\ path' = [path EXCEPT ![t] = <<[session |-> Uses(c),
                      max |-> IF c.op = "read" THEN c.max ELSE Unlimited]>>]
  BY DEF Call
<1>2. c \in CallType /\ c # NoCall
  BY CallsAssumption, NoCallIsNoCall
<1>3. /\ pc[t] = "idle" /\ mutex' = mutex /\ UNCHANGED <<own, used, pointer, known, faults>>
      /\ UNCHANGED <<at, out, result>>
  BY DEF Call, files
<1>4. /\ path[t] = <<>> /\ at[t] = 0 /\ out[t] = <<>> /\ result[t] \in ResultType
      /\ path[t] \in Seq(Frame) /\ out[t] \in Seq(Record)
  BY <1>3, ThreadFacts DEF Fits
<1>5. ThreadsType
  BY DEF TypeInv
<1>6. CASE c.op = "append"
  <2>1. Sets(t, "append", c, <<>>, 0, <<>>, result[t])
    BY <1>1, <1>3, <1>4, <1>5, <1>6 DEF Sets, Goto, ThreadsType
  <2>2. Fits("append", c, <<>>, 0, <<>>, result[t])
    BY <1>2, <1>4, <1>6, EmptySeq DEF Fits, Labels
  <2>3. ThreadsType' /\ MutexType'
    BY <1>3, <2>1, <2>2, MoveKeepsType
  <2>4. QED
    BY <1>3, <2>3 DEF TypeInv, FilesType
<1>7. CASE c.op # "append"
  <2>1. PICK p : p = <<[session |-> Uses(c),
                      max |-> IF c.op = "read" THEN c.max ELSE Unlimited]>>
    OBVIOUS
  <2>2. p \in Seq(Frame) /\ Len(p) = 1
    BY <1>2, <2>1, FirstFrameType
  <2>3. p # <<>>
    BY <2>1
  <2>4. Sets(t, "up", c, p, 0, <<>>, result[t])
    BY <1>1, <1>3, <1>4, <1>5, <1>7, <2>1 DEF Sets, Goto, ThreadsType
  <2>5. Fits("up", c, p, 0, <<>>, result[t])
    BY <1>2, <1>4, <1>7, <2>2, <2>3, CallFields DEF Fits, Labels
  <2>6. ThreadsType' /\ MutexType'
    BY <1>3, <2>4, <2>5, MoveKeepsType
  <2>7. QED
    BY <1>3, <2>6 DEF TypeInv, FilesType
<1>8. QED
  BY <1>6, <1>7

LEMMA AppendKeepsType ==
  ASSUME TypeInv, NEW t \in Thread, AppendRecord(t) \/ AppendFails(t)
  PROVE  TypeInv'
<1>1. pc[t] = "append" /\ UNCHANGED <<pointer, mutex, call, known>>
  BY DEF AppendRecord, AppendFails
<1>2. PICK s \in Session : s = call[t].session
  BY <1>1, InCall, CallFields
<1>3. own \in [Session -> 0..MaxRecords] /\ used \subseteq Session
  BY DEF TypeInv, FilesType
<1>4. /\ own' \in [Session -> 0..MaxRecords] /\ used' \subseteq Session
      /\ faults' \in 0..MaxFaults
  <2>1. own[s] < MaxRecords => [own EXCEPT ![s] = @ + 1] \in [Session -> 0..MaxRecords]
    BY <1>3, BoundsAssumption
  <2>2. CASE AppendRecord(t)
    BY <1>2, <1>3, <2>1, <2>2 DEF AppendRecord, TypeInv, FilesType
  <2>3. CASE AppendFails(t)
    <3>1. faults' \in 0..MaxFaults
      BY <2>3, FaultType DEF AppendFails, TypeInv, FilesType
    <3>2. QED
      BY <1>2, <1>3, <2>1, <2>3, <3>1 DEF AppendFails
  <2>4. QED
    BY <2>2, <2>3
<1>5. PICK r \in ResultType : Finish(t, r)
  BY StatusType DEF AppendRecord, AppendFails
<1>6. ThreadsType' /\ MutexType'
  BY <1>1, <1>5, FinishKeepsType
<1>7. QED
  BY <1>1, <1>4, <1>6 DEF TypeInv, FilesType

LEMMA UpKeepsType ==
  ASSUME TypeInv, NEW t \in Thread, ToParent(t) \/ ToRecords(t)
  PROVE  TypeInv'
<1>1. pc[t] = "up" /\ UNCHANGED <<own, used, pointer, mutex, call, out, result, known, faults>>
  BY DEF ToParent, ToRecords, files
<1>2. ThreadsType /\ Fits("up", call[t], path[t], at[t], out[t], result[t])
  BY <1>1, ThreadFacts DEF TypeInv
<1>3. Len(path[t]) \in Nat \ {0} /\ Top(t) \in Frame
  BY <1>1, TopType
<1>4. CASE ToParent(t)
  <2>1. PICK b \in [parent : Session, count : Nat] : b = pointer[Top(t).session]
    BY <1>3, <1>4 DEF ToParent, TypeInv, FilesType, Frame
  <2>2. PICK f : f = [session |-> b.parent, max |-> ParentLimit(b, Top(t).max)]
    OBVIOUS
  <2>3. f \in Frame
    BY <1>3, <2>1, <2>2, ShorterNat DEF Frame, ParentLimit
  <2>4. PICK p : p = Append(path[t], f)
    OBVIOUS
  <2>5. p \in Seq(Frame) /\ Len(p) = Len(path[t]) + 1
    BY <1>2, <2>3, <2>4, AppendProperties DEF Fits
  <2>6. p # <<>>
    BY <1>3, <2>5, EmptySeq
  <2>7. Sets(t, "up", call[t], p, at[t], out[t], result[t])
    BY <1>1, <1>2, <1>4, <2>1, <2>2, <2>4 DEF ToParent, ThreadsType, Sets
  <2>8. Fits("up", call[t], p, at[t], out[t], result[t])
    BY <1>2, <1>3, <2>5, <2>6 DEF Fits
  <2>9. ThreadsType' /\ MutexType'
    BY <1>1, <2>7, <2>8, MoveKeepsType
  <2>10. QED
    BY <1>1, <2>9 DEF TypeInv, FilesType
<1>5. CASE ToRecords(t)
  <2>1. Sets(t, "emit", call[t], path[t], Len(path[t]), out[t], result[t])
    BY <1>1, <1>2, <1>5 DEF ToRecords, ThreadsType, Sets, Goto
  <2>2. Fits("emit", call[t], path[t], Len(path[t]), out[t], result[t])
    BY <1>2, <1>3 DEF Fits, Labels
  <2>3. ThreadsType' /\ MutexType'
    BY <1>1, <2>1, <2>2, MoveKeepsType
  <2>4. QED
    BY <1>1, <2>3 DEF TypeInv, FilesType
<1>6. QED
  BY <1>4, <1>5

LEMMA EmitKeepsType ==
  ASSUME TypeInv, NEW t \in Thread,
         TooDeep(t) \/ EmitOf(t) \/ EndRead(t) \/ ReadFails(t)
  PROVE  TypeInv'
<1>1. /\ pc[t] \in {"up", "emit"} /\ pc[t] # "idle" /\ pc[t] \notin {"check", "publish"}
      /\ UNCHANGED <<own, used, pointer, mutex, call, known>>
  BY DEF TooDeep, EmitOf, EndRead, ReadFails, files
<1>2. faults' \in 0..MaxFaults
  BY FaultType DEF TooDeep, EmitOf, EndRead, ReadFails, TypeInv, FilesType
<1>3. ThreadsType /\ Fits(pc[t], call[t], path[t], at[t], out[t], result[t])
  BY ThreadFacts DEF TypeInv
<1>4. ThreadsType' /\ MutexType'
  <2>1. CASE TooDeep(t) \/ ReadFails(t)
    <3>1. Finish(t, Sink!Status("error"))
      BY <2>1 DEF TooDeep, ReadFails
    <3>2. Sink!Status("error") \in ResultType
      BY StatusType
    <3>3. QED
      BY <1>1, <3>1, <3>2, FinishKeepsType
  <2>2. CASE EndRead(t)
    <3>1. Finish(t, Sink!Records(Emitted(t))) /\ at[t] > 0
      BY <2>2 DEF EndRead
    <3>2. Sink!Records(Emitted(t)) \in ResultType
      BY <3>1, EmittedType, RecordsType
    <3>3. QED
      BY <1>1, <3>1, <3>2, FinishKeepsType
  <2>3. CASE EmitOf(t)
    <3>1. /\ pc[t] = "emit" /\ at[t] > 1
          /\ UNCHANGED <<path, pc, result>>
          /\ out' = [out EXCEPT ![t] = Emitted(t)] /\ at' = [at EXCEPT ![t] = at[t] - 1]
      BY <2>3 DEF EmitOf, ThreadsType
    <3>2. Emitted(t) \in Seq(Record)
      BY <3>1, EmittedType, ThreadFacts
    <3>3. at[t] \in Nat /\ Len(path[t]) \in Nat /\ at[t] <= Len(path[t])
      BY ThreadFacts
    <3>4. at[t] - 1 \in Nat /\ at[t] - 1 <= Len(path[t]) /\ at[t] - 1 > 0
      BY <3>1, <3>3
    <3>5. Sets(t, "emit", call[t], path[t], at[t] - 1, Emitted(t), result[t])
      BY <1>1, <1>3, <3>1 DEF Sets, ThreadsType
    <3>6. Fits("emit", call[t], path[t], at[t] - 1, Emitted(t), result[t])
      BY <1>3, <3>1, <3>2, <3>4 DEF Fits, Labels
    <3>7. QED
      BY <1>1, <3>5, <3>6, MoveKeepsType
  <2>4. QED
    BY <2>1, <2>2, <2>3
<1>5. QED
  BY <1>1, <1>2, <1>4 DEF TypeInv, FilesType

LEMMA ValidateKeepsType ==
  ASSUME TypeInv, NEW t \in Thread, Validate(t)
  PROVE  TypeInv'
<1>1. /\ pc[t] = "emit" /\ call[t].op = "branch"
      /\ UNCHANGED <<own, used, pointer, mutex, call, known, faults>>
  BY DEF Validate, files
<1>2. ThreadsType /\ Fits(pc[t], call[t], path[t], at[t], out[t], result[t])
  BY ThreadFacts DEF TypeInv
<1>3. ThreadsType' /\ MutexType'
  <2>1. CASE call[t].count > Len(Emitted(t))
    BY <1>1, <2>1, FinishKeepsType, StatusType DEF Validate
  <2>2. CASE ~(call[t].count > Len(Emitted(t)))
    <3>1. Sets(t, "lock", call[t], <<>>, 0, <<>>, result[t])
      BY <1>1, <1>2, <2>2 DEF Validate, ThreadsType, Sets, Goto
    <3>2. Fits("lock", call[t], <<>>, 0, <<>>, result[t])
      BY <1>1, <1>2, EmptySeq DEF Fits, Labels
    <3>3. QED
      BY <1>1, <3>1, <3>2, MoveKeepsType
  <2>3. QED
    BY <2>1, <2>2
<1>4. QED
  BY <1>1, <1>3 DEF TypeInv, FilesType

LEMMA CheckKeepsType ==
  ASSUME TypeInv, NEW t \in Thread, TakeMutex(t) \/ CheckUse(t)
  PROVE  TypeInv'
<1>1. /\ pc[t] \in {"lock", "check"}
      /\ UNCHANGED <<own, used, pointer, call, known, faults>>
  BY DEF TakeMutex, CheckUse, files
<1>2. ThreadsType /\ Fits(pc[t], call[t], path[t], at[t], out[t], result[t])
  BY ThreadFacts DEF TypeInv
<1>3. ThreadsType' /\ MutexType'
  <2>1. CASE TakeMutex(t)
    <3>1. Sets(t, "check", call[t], path[t], at[t], out[t], result[t])
      BY <1>1, <1>2, <2>1 DEF TakeMutex, reading, ThreadsType, Sets, Goto
    <3>2. Fits("check", call[t], path[t], at[t], out[t], result[t])
      BY <1>2, <2>1 DEF Fits, Labels, TakeMutex
    <3>3. /\ ThreadsType' /\ pc'[t] = "check" /\ call'[t] = call[t]
          /\ \A u \in Thread : u # t => pc'[u] = pc[u] /\ call'[u] = call[u]
      BY <1>2, <3>1, <3>2, LocalStep
    <3>4. QED
      BY <2>1, <3>3, MutexTaken
  <2>2. CASE CheckUse(t) /\ InUse(call[t].session)
    <3>1. pc[t] = "check" /\ Release(t) /\ Finish(t, Sink!Status("exists"))
      BY <2>2 DEF CheckUse
    <3>2. Sink!Status("exists") \in ResultType
      BY StatusType
    <3>3. QED
      BY <1>1, <3>1, <3>2, FinishKeepsType
  <2>3. CASE CheckUse(t) /\ ~InUse(call[t].session)
    <3>1. Sets(t, "publish", call[t], path[t], at[t], out[t], result[t])
      BY <1>1, <1>2, <2>3 DEF CheckUse, reading, ThreadsType, Sets, Goto
    <3>2. Fits("publish", call[t], path[t], at[t], out[t], result[t])
      BY <1>2, <2>3 DEF Fits, Labels, CheckUse
    <3>3. /\ ThreadsType' /\ pc'[t] = "publish" /\ call'[t] = call[t]
          /\ \A u \in Thread : u # t => pc'[u] = pc[u] /\ call'[u] = call[u]
      BY <1>2, <3>1, <3>2, LocalStep
    <3>4. mutex' = mutex /\ pc[t] = "check"
      BY <2>3 DEF CheckUse
    <3>5. QED
      BY <3>3, <3>4, MutexStays
  <2>4. QED
    BY <2>1, <2>2, <2>3
<1>4. QED
  BY <1>1, <1>3 DEF TypeInv, FilesType

LEMMA PublishKeepsType ==
  ASSUME TypeInv, NEW t \in Thread, Publish(t) \/ PublishFails(t)
  PROVE  TypeInv'
<1>1. pc[t] = "publish" /\ Release(t) /\ UNCHANGED <<own, used, call, known>>
  BY DEF Publish, PublishFails, files
<1>2. faults' \in 0..MaxFaults
  BY FaultType DEF Publish, PublishFails, TypeInv, FilesType
<1>3. /\ call[t].session \in Session
      /\ [parent |-> call[t].parent, count |-> call[t].count] \in [parent : Session, count : Nat]
  <2>1. call[t] \in CallType /\ call[t].op = "branch"
    BY <1>1, InCall, ThreadFacts DEF Fits
  <2>2. QED
    BY <2>1, CallFields
<1>4. pointer' \in [Session -> [parent : Session, count : Nat] \cup {NoBranch}]
  BY <1>3 DEF Publish, PublishFails, files, TypeInv, FilesType
<1>5. PICK code \in {"ok", "error", "exists"} : Finish(t, Sink!Status(code))
  BY DEF Publish, PublishFails
<1>6. Sink!Status(code) \in ResultType
  BY StatusType
<1>7. ThreadsType' /\ MutexType'
  BY <1>1, <1>5, <1>6, FinishKeepsType
<1>8. QED
  BY <1>1, <1>2, <1>4, <1>7 DEF TypeInv, FilesType

LEMMA ReturnKeepsType ==
  ASSUME TypeInv, NEW t \in Thread, Return(t)
  PROVE  TypeInv'
<1>1. /\ pc[t] = "return"
      /\ UNCHANGED <<own, used, pointer, mutex, path, at, out, faults>>
  BY DEF Return, files, reading
<1>2. ThreadsType /\ Fits(pc[t], call[t], path[t], at[t], out[t], result[t])
  BY ThreadFacts DEF TypeInv
<1>3. PICK r \in ResultType : r = Sink!Status("none")
  BY StatusType
<1>4. Sets(t, "idle", NoCall, path[t], at[t], out[t], r)
  BY <1>1, <1>2, <1>3 DEF Return, ThreadsType, Sets, Goto
<1>5. Fits("idle", NoCall, path[t], at[t], out[t], r)
  BY <1>1, <1>2 DEF Fits, Labels
<1>6. ThreadsType' /\ MutexType'
  BY <1>1, <1>4, <1>5, MoveKeepsType
<1>7. call[t].session \in Session
  BY <1>1, InCall, CallFields
<1>8. known' \subseteq Session
  BY <1>7 DEF Return, TypeInv, FilesType
<1>9. QED
  BY <1>1, <1>6, <1>8 DEF TypeInv, FilesType

LEMMA CrashKeepsType ==
  ASSUME TypeInv, NEW p \in Process, Crash(p)
  PROVE  TypeInv'
<1>1. UNCHANGED <<own, used, pointer, known>> /\ faults' \in 0..MaxFaults
  BY FaultType DEF Crash, files
<1>2. PICK r \in ResultType : r = Sink!Status("none")
  BY StatusType
<1>3. Fits("idle", NoCall, <<>>, 0, <<>>, r)
  BY EmptySeq DEF Fits, Labels
<1>4. /\ pc' = [t \in Thread |-> IF ProcessOf[t] = p THEN "idle" ELSE pc[t]]
      /\ call' = [t \in Thread |-> IF ProcessOf[t] = p THEN NoCall ELSE call[t]]
      /\ path' = [t \in Thread |-> IF ProcessOf[t] = p THEN <<>> ELSE path[t]]
      /\ at' = [t \in Thread |-> IF ProcessOf[t] = p THEN 0 ELSE at[t]]
      /\ out' = [t \in Thread |-> IF ProcessOf[t] = p THEN <<>> ELSE out[t]]
      /\ result' = [t \in Thread |-> IF ProcessOf[t] = p THEN r ELSE result[t]]
  BY <1>2 DEF Crash
<1>5. ThreadsType'
  <2>1. ASSUME NEW t \in Thread
        PROVE  Fits(pc'[t], call'[t], path'[t], at'[t], out'[t], result'[t])
    <3>1. CASE ProcessOf[t] = p
      BY <1>3, <1>4, <3>1
    <3>2. CASE ProcessOf[t] # p
      BY <1>4, <3>2, ThreadFacts
    <3>3. QED
      BY <3>1, <3>2
  <2>2. QED
    BY <1>4, <2>1 DEF ThreadsType
<1>6. MutexType'
  <2>1. mutex \in [Process -> [Session -> Thread \cup {"free"}]]
    BY DEF TypeInv, MutexType
  <2>2. mutex' = [mutex EXCEPT ![p] = [s \in Session |-> "free"]]
    BY DEF Crash
  <2>3. mutex' \in [Process -> [Session -> Thread \cup {"free"}]]
    BY <2>1, <2>2
  <2>4. /\ \A s \in Session : mutex'[p][s] = "free"
        /\ \A q \in Process, s \in Session : q # p => mutex'[q][s] = mutex[q][s]
    BY <2>1, <2>2
  <2>5. ASSUME NEW t \in Thread, NEW q \in Process, NEW s \in Session
        PROVE  mutex'[q][s] = t <=> /\ q = ProcessOf[t] /\ pc'[t] \in {"check", "publish"}
                                    /\ s = call'[t].session
    <3>1. mutex[q][s] = t <=> /\ q = ProcessOf[t] /\ pc[t] \in {"check", "publish"}
                              /\ s = call[t].session
      BY DEF TypeInv, MutexType
    <3>2. CASE ProcessOf[t] = p
      BY <1>4, <2>4, <3>1, <3>2, ThreadsAssumption
    <3>3. CASE ProcessOf[t] # p
      BY <1>4, <2>4, <3>1, <3>3, ThreadsAssumption
    <3>4. QED
      BY <3>2, <3>3
  <2>6. QED
    BY <2>3, <2>5 DEF MutexType
<1>7. QED
  BY <1>1, <1>5, <1>6 DEF TypeInv, FilesType

LEMMA InitType == Init => TypeInv
<1> SUFFICES ASSUME Init PROVE TypeInv
  OBVIOUS
<1>1. Fits("idle", NoCall, <<>>, 0, <<>>, Sink!Status("none"))
  BY EmptySeq, StatusType DEF Fits, Labels
<1>2. ThreadsType
  BY <1>1 DEF Init, ThreadsType
<1>3. MutexType
  BY ThreadsAssumption DEF Init, MutexType
<1>4. FilesType
  BY BoundsAssumption, SessionsAssumption DEF Init, FilesType
<1>5. QED
  BY <1>2, <1>3, <1>4 DEF TypeInv

LEMMA StepType == TypeInv /\ [Next]_vars => TypeInv'
<1> SUFFICES ASSUME TypeInv, [Next]_vars PROVE TypeInv'
  OBVIOUS
<1>1. CASE UNCHANGED vars
  BY <1>1 DEF vars, TypeInv, FilesType, ThreadsType, MutexType
<1>2. ASSUME NEW t \in Thread, Call(t) PROVE TypeInv'
  BY <1>2, CallKeepsType
<1>3. ASSUME NEW t \in Thread, Step(t) PROVE TypeInv'
  BY <1>3, AppendKeepsType, UpKeepsType, EmitKeepsType, ValidateKeepsType, CheckKeepsType,
     PublishKeepsType, ReturnKeepsType DEF Step
<1>4. ASSUME NEW p \in Process, Crash(p) PROVE TypeInv'
  BY <1>4, CrashKeepsType
<1>5. QED
  BY <1>1, <1>2, <1>3, <1>4 DEF Next

LEMMA TypeHolds == Spec => []TypeInv
BY InitType, StepType, PTL DEF Spec

\* Every variable of BranchLog keeps its type, and a mutex has one holder, for
\* any sessions, threads and calls.
THEOREM BranchTypeCorrect == Spec => []TypeOK
BY TypeHolds, TypeInvIsTypeOK, PTL

-----------------------------------------------------------------------------
(* Callers that keep to branches whose creation has returned                   *)

\* The files of the sessions: a session is used, or has branches, only after its
\* creation, and a pointer is to a parent that can be read and is long enough.
FilesOK(ptr, w, us, k) ==
  /\ ptr \in Ptrs /\ w \in Lengths /\ k \subseteq Session
  /\ Roots \subseteq k /\ us \subseteq k /\ Within(ptr, w)
  /\ \A s \in Session :
       /\ s \in k => s \in Roots \/ ptr[s] # NoBranch
       /\ s \notin us => w[s] = 0
       /\ ptr[s] # NoBranch => s \notin Roots /\ ptr[s].parent \in k

\* How many records a call's session is to show.
Wanted(c) == IF c.op = "read" THEN c.max ELSE Unlimited

\* What a way up is: from the call's session on, by the pointers.
WayOK(ptr, k, c, p) ==
  /\ p[1] = [session |-> Uses(c), max |-> Wanted(c)]
  /\ \A i \in 1..Len(p) :
       /\ p[i].session \in k
       /\ i # Len(p) =>
            /\ ptr[p[i].session] # NoBranch
            /\ p[i + 1] = [session |-> ptr[p[i].session].parent,
                           max |-> ParentLimit(ptr[p[i].session], p[i].max)]

\* What has been emitted: what the session shows that was read last.
OutOK(ptr, w, p, i, o) ==
  /\ Len(p) <= MaxBranchDepth + 1
  /\ ptr[p[Len(p)].session] = NoBranch
  /\ i = Len(p) => o = <<>>
  /\ i # Len(p) => o = Sink!First(p[i + 1].max, Shown(ptr, w, p[i + 1].session))

\* What a call has found out that still holds.
CallOK(ptr, w, k, l, c, p, i, o, r) ==
  /\ l # "idle" => Uses(c) \in k
  /\ l = "return" /\ c.op = "branch" /\ r.code \in {"ok", "exists"} =>
       c.session \in k \/ ptr[c.session] # NoBranch
  /\ l \in {"lock", "check", "publish"} =>
       ~Deep(ptr, c.parent) /\ c.count <= Len(Shown(ptr, w, c.parent))
  /\ l \in {"up", "emit"} => WayOK(ptr, k, c, p)
  /\ l = "emit" => OutOK(ptr, w, p, i, o)

\* What no step takes away.
Kept(ptr, w, k, ptr2, w2, k2) ==
  /\ k \subseteq k2
  /\ \A x \in Session : ptr[x] # NoBranch => ptr2[x] = ptr[x]
  /\ \A x \in k :
       /\ ptr2[x] = ptr[x] /\ (Deep(ptr2, x) <=> Deep(ptr, x))
       /\ ~Deep(ptr, x) => Begins(Shown(ptr, w, x), Shown(ptr2, w2, x))

BranchInv ==
  /\ TypeInv /\ FilesOK(pointer, own, used, known)
  /\ \A t \in Thread :
       CallOK(pointer, own, known, pc[t], call[t], path[t], at[t], out[t], result[t])

LEMMA BeginsLen ==
  ASSUME NEW S, NEW u \in Seq(S), NEW v \in Seq(S), Begins(u, v)
  PROVE  Len(u) <= Len(v)
<1>1. PICK k \in Nat : k = Len(u)
  BY LenProperties
<1>2. PICK l \in Nat : l = Len(v)
  BY LenProperties
<1>3. PICK j \in Nat : j = Sink!Shorter(k, Len(v)) /\ j <= l
  BY <1>2, ShorterNat
<1>4. PICK f : f = Sink!First(k, v)
  OBVIOUS
<1>5. Len(f) = j
  BY <1>3, <1>4, FirstIs
<1>6. f = u
  BY <1>1, <1>4 DEF Begins
<1>7. QED
  BY <1>1, <1>2, <1>3, <1>5, <1>6

\* A log has grown.
LEMMA FilesGrow ==
  ASSUME NEW ptr, NEW w, NEW us, NEW k, FilesOK(ptr, w, us, k),
         NEW v \in Lengths, NEW vs, us \subseteq vs, vs \subseteq k,
         \A x \in Session : w[x] <= v[x] /\ (x \notin vs => v[x] = 0)
  PROVE  FilesOK(ptr, v, vs, k) /\ Kept(ptr, w, k, ptr, v, k)
<1>1. ptr \in Ptrs /\ w \in Lengths /\ Within(ptr, w) /\ k \subseteq Session
  BY DEF FilesOK
<1>2. \A x \in Session : ~Deep(ptr, x) => Begins(Shown(ptr, w, x), Shown(ptr, v, x))
  BY <1>1, ShownGrows
<1>3. ASSUME NEW x \in Session, ptr[x] # NoBranch
      PROVE  ~Deep(ptr, ptr[x].parent) /\ ptr[x].count <= Len(Shown(ptr, v, ptr[x].parent))
  <2>1. PICK y \in Session : y = ptr[x].parent
    BY <1>1, <1>3 DEF Ptrs, Ptr
  <2>2. PICK c \in Nat : c = ptr[x].count
    BY <1>1, <1>3 DEF Ptrs, Ptr
  <2>3. ~Deep(ptr, y) /\ c <= Len(Shown(ptr, w, y))
    BY <1>1, <1>3, <2>1, <2>2 DEF Within
  <2>4. PICK a \in Seq(Record) : a = Shown(ptr, w, y)
    BY <1>1, ShownType
  <2>5. PICK b \in Seq(Record) : b = Shown(ptr, v, y)
    BY <1>1, ShownType
  <2>6. Len(a) <= Len(b)
    BY <1>2, <2>3, <2>4, <2>5, BeginsLen
  <2>7. Len(a) \in Nat /\ Len(b) \in Nat
    BY LenProperties
  <2>8. QED
    BY <2>1, <2>2, <2>3, <2>4, <2>5, <2>6, <2>7
<1>4. Within(ptr, v)
  BY <1>3 DEF Within
<1>5. FilesOK(ptr, v, vs, k)
  BY <1>4 DEF FilesOK
<1>6. Kept(ptr, w, k, ptr, v, k)
  BY <1>1, <1>2 DEF Kept
<1>7. QED
  BY <1>5, <1>6

\* The sessions but s show what they showed.
OthersShown(ptr, ptr2, w, s) ==
  \A x \in Session : x # s =>
    (Deep(ptr2, x) <=> Deep(ptr, x)) /\ Shown(ptr2, w, x) = Shown(ptr, w, x)

\* A session that nobody uses becomes a branch of one that can be read.
Joins(ptr, w, us, k, s, b, ptr2) ==
  /\ FilesOK(ptr, w, us, k)
  /\ s \in Session \ Roots /\ ptr[s] = NoBranch
  /\ b \in Ptr /\ b.parent \in k
  /\ ~Deep(ptr, b.parent) /\ b.count <= Len(Shown(ptr, w, b.parent))
  /\ ptr2 = [ptr EXCEPT ![s] = b]

LEMMA FilesBranch ==
  ASSUME NEW ptr, NEW w, NEW us, NEW k, NEW s, NEW b, NEW ptr2,
         Joins(ptr, w, us, k, s, b, ptr2)
  PROVE  /\ FilesOK(ptr2, w, us, k) /\ Kept(ptr, w, k, ptr2, w, k)
         /\ s \notin k /\ ptr2[s] = b /\ b # NoBranch
         /\ OthersShown(ptr, ptr2, w, s) /\ Shown(ptr, w, s) = <<>>
<1> USE DEF Joins
<1>1. ptr \in Ptrs /\ w \in Lengths /\ Within(ptr, w) /\ k \subseteq Session
  BY DEF FilesOK
<1>2. ptr2 \in Ptrs /\ ptr2[s] = b /\ \A x \in Session : x # s => ptr2[x] = ptr[x]
  BY <1>1 DEF Ptrs
<1>3. s \notin k /\ s \notin us /\ w[s] = 0
  BY DEF FilesOK
<1>4. b # NoBranch
  BY SessionsAssumption DEF Ptr
<1>5. \A x \in Session : ptr[x] # NoBranch => ptr[x].parent # s
  BY <1>3 DEF FilesOK
<1>6. \A x \in Session : x # s =>
        Shown(ptr2, w, x) = Shown(ptr, w, x) /\ (Deep(ptr2, x) <=> Deep(ptr, x))
  <2>1. Spares(ptr, ptr2, s)
    BY <1>2, <1>5 DEF Spares
  <2>2. ptr \in Ptrs /\ ptr2 \in Ptrs /\ w \in Lengths
    BY <1>1, <1>2
  <2>3. QED
    BY <2>1, <2>2, ShownKept
<1>7. \A x \in k : x # s /\ x \in Session
  BY <1>1, <1>3
<1>8. ASSUME NEW x \in Session, ptr2[x] # NoBranch
      PROVE  /\ ~Deep(ptr2, ptr2[x].parent)
             /\ ptr2[x].count <= Len(Shown(ptr2, w, ptr2[x].parent))
  <2>1. CASE x = s
    BY <1>2, <1>6, <1>7, <2>1
  <2>2. CASE x # s
    <3>1. ptr2[x] = ptr[x] /\ ptr[x].parent \in Session /\ ptr[x].parent # s
      BY <1>1, <1>2, <1>5, <1>8, <2>2 DEF Ptrs, Ptr
    <3>2. ~Deep(ptr, ptr[x].parent) /\ ptr[x].count <= Len(Shown(ptr, w, ptr[x].parent))
      BY <1>1, <1>8, <3>1 DEF Within
    <3>3. QED
      BY <1>6, <3>1, <3>2
  <2>3. QED
    BY <2>1, <2>2
<1>9. Within(ptr2, w)
  BY <1>8 DEF Within
<1>10. FilesOK(ptr2, w, us, k)
  <2>1. ASSUME NEW x \in Session
        PROVE  /\ x \in k => x \in Roots \/ ptr2[x] # NoBranch
               /\ x \notin us => w[x] = 0
               /\ ptr2[x] # NoBranch => x \notin Roots /\ ptr2[x].parent \in k
    <3>1. CASE x = s
      BY <1>2, <1>3, <1>4, <3>1
    <3>2. CASE x # s
      BY <1>2, <3>2 DEF FilesOK
    <3>3. QED
      BY <3>1, <3>2
  <2>2. QED
    BY <1>1, <1>2, <1>9, <2>1 DEF FilesOK
<1>11. ASSUME NEW x \in k
       PROVE  /\ ptr2[x] = ptr[x] /\ (Deep(ptr2, x) <=> Deep(ptr, x))
              /\ Begins(Shown(ptr, w, x), Shown(ptr2, w, x))
  <2>1. x \in Session /\ x # s
    BY <1>7
  <2>2. Shown(ptr, w, x) \in Seq(Record)
    BY <1>1, <2>1, ShownType
  <2>3. Begins(Shown(ptr, w, x), Shown(ptr, w, x))
    BY <2>2, BeginsRefl
  <2>4. QED
    BY <1>2, <1>6, <2>1, <2>3
<1>12. Kept(ptr, w, k, ptr2, w, k)
  BY <1>2, <1>11 DEF Kept
<1>13. Shown(ptr, w, s) = <<>>
  <2>1. Shown(ptr, w, s) = Sink!OwnRecords(s, 0)
    BY <1>1, <1>3, OwnShown
  <2>2. Sink!OwnRecords(s, 0) \in Seq(Record) /\ Len(Sink!OwnRecords(s, 0)) = 0
    BY OwnRecordsType, BoundsAssumption
  <2>3. QED
    BY <2>1, <2>2, EmptySeq
<1>14. QED
  BY <1>2, <1>3, <1>4, <1>6, <1>10, <1>12, <1>13 DEF OthersShown

\* A session's creation has returned.
LEMMA FilesKnown ==
  ASSUME NEW ptr, NEW w, NEW us, NEW k, FilesOK(ptr, w, us, k),
         NEW k2, k \subseteq k2, k2 \subseteq Session,
         \A x \in k2 : x \in k \/ ptr[x] # NoBranch
  PROVE  FilesOK(ptr, w, us, k2) /\ Kept(ptr, w, k, ptr, w, k2)
<1>1. ptr \in Ptrs /\ w \in Lengths /\ k \subseteq Session
  BY DEF FilesOK
<1>2. ASSUME NEW x \in k PROVE Begins(Shown(ptr, w, x), Shown(ptr, w, x))
  <2>1. Shown(ptr, w, x) \in Seq(Record)
    BY <1>1, ShownType
  <2>2. QED
    BY <2>1, BeginsRefl
<1>3. Kept(ptr, w, k, ptr, w, k2)
  BY <1>2 DEF Kept
<1>4. FilesOK(ptr, w, us, k2)
  BY DEF FilesOK
<1>5. QED
  BY <1>3, <1>4

\* Two frames of a way, one above the other.
LEMMA FrameFacts ==
  ASSUME NEW ptr, NEW w, NEW us, NEW k, FilesOK(ptr, w, us, k), NEW c,
         NEW p \in Seq(Frame), WayOK(ptr, k, c, p),
         NEW i \in Nat, i >= 1, i < Len(p),
         NEW x, x = p[i].session, NEW y, y = p[i + 1].session,
         NEW m, m = p[i].max, NEW n, n = p[i + 1].max
  PROVE  /\ x \in k /\ y \in k /\ x \in Session /\ y \in Session
         /\ ptr[x] # NoBranch /\ ptr[x].parent = y /\ ptr[x].count \in Nat
         /\ m \in Nat /\ n \in Nat /\ n = Sink!Shorter(ptr[x].count, m) /\ n <= ptr[x].count
         /\ ~Deep(ptr, y) /\ ptr[x].count <= Len(Shown(ptr, w, y))
<1>1. Len(p) \in Nat
  BY LenProperties
<1>2. i \in 1..Len(p) /\ i + 1 \in 1..Len(p) /\ i # Len(p)
  BY <1>1
<1>3. p[i] \in Frame /\ p[i + 1] \in Frame
  BY <1>2, ElementOfSeq
<1>4. x \in Session /\ y \in Session /\ m \in Nat /\ n \in Nat
  BY <1>3 DEF Frame
<1>5. x \in k /\ y \in k
  BY <1>2 DEF WayOK
<1>6. /\ ptr[x] # NoBranch
      /\ p[i + 1] = [session |-> ptr[x].parent, max |-> ParentLimit(ptr[x], m)]
  BY <1>2 DEF WayOK
<1>7. ptr \in Ptrs /\ Within(ptr, w)
  BY DEF FilesOK
<1>8. ptr[x].count \in Nat
  BY <1>4, <1>6, <1>7 DEF Ptrs, Ptr
<1>9. ptr[x].parent = y /\ n = Sink!Shorter(ptr[x].count, m)
  BY <1>6 DEF ParentLimit
<1>10. n <= ptr[x].count
  BY <1>4, <1>8, <1>9, ShorterNat
<1>11. ~Deep(ptr, y) /\ ptr[x].count <= Len(Shown(ptr, w, y))
  BY <1>4, <1>6, <1>7, <1>9 DEF Within
<1>12. QED
  BY <1>4, <1>5, <1>6, <1>8, <1>9, <1>10, <1>11

\* What a thread has found out holds on, whatever the others do.
LEMMA CallKept ==
  ASSUME NEW ptr, NEW w, NEW us, NEW k, FilesOK(ptr, w, us, k),
         NEW ptr2 \in Ptrs, NEW w2 \in Lengths, NEW k2, Kept(ptr, w, k, ptr2, w2, k2),
         NEW l, NEW c, NEW p, NEW i, NEW o, NEW r,
         Fits(l, c, p, i, o, r), CallOK(ptr, w, k, l, c, p, i, o, r)
  PROVE  CallOK(ptr2, w2, k2, l, c, p, i, o, r)
<1>1. ptr \in Ptrs /\ w \in Lengths /\ k \subseteq Session /\ k \subseteq k2
  BY DEF FilesOK, Kept
<1>2. l # "idle" => Uses(c) \in k /\ Uses(c) \in k2
  BY <1>1 DEF CallOK
<1>3. l # "idle" => c \in CallType
  BY DEF Fits
<1>4. l = "return" /\ c.op = "branch" /\ r.code \in {"ok", "exists"} =>
        c.session \in k2 \/ ptr2[c.session] # NoBranch
  <2>1. SUFFICES ASSUME l = "return", c.op = "branch", r.code \in {"ok", "exists"}
                 PROVE  c.session \in k2 \/ ptr2[c.session] # NoBranch
    OBVIOUS
  <2>2. c.session \in Session
    BY <1>3, <2>1, CallFields
  <2>3. c.session \in k \/ ptr[c.session] # NoBranch
    BY <2>1 DEF CallOK
  <2>4. QED
    BY <1>1, <2>2, <2>3 DEF Kept
<1>5. l \in {"lock", "check", "publish"} =>
        ~Deep(ptr2, c.parent) /\ c.count <= Len(Shown(ptr2, w2, c.parent))
  <2>1. SUFFICES ASSUME l \in {"lock", "check", "publish"}
                 PROVE  ~Deep(ptr2, c.parent) /\ c.count <= Len(Shown(ptr2, w2, c.parent))
    OBVIOUS
  <2>2. c.op = "branch" /\ c \in CallType /\ l # "idle"
    BY <1>3, <2>1 DEF Fits
  <2>3. c.parent \in k /\ c.parent \in Session /\ c.count \in Nat
    BY <1>2, <2>2, CallFields DEF Uses
  <2>4. ~Deep(ptr, c.parent) /\ c.count <= Len(Shown(ptr, w, c.parent))
    BY <2>1 DEF CallOK
  <2>5. /\ ~Deep(ptr2, c.parent)
        /\ Begins(Shown(ptr, w, c.parent), Shown(ptr2, w2, c.parent))
    BY <2>3, <2>4 DEF Kept
  <2>6. PICK a \in Seq(Record) : a = Shown(ptr, w, c.parent)
    BY <1>1, <2>3, ShownType
  <2>7. PICK b \in Seq(Record) : b = Shown(ptr2, w2, c.parent)
    BY <2>3, ShownType
  <2>8. Len(a) <= Len(b)
    BY <2>5, <2>6, <2>7, BeginsLen
  <2>9. Len(a) \in Nat /\ Len(b) \in Nat
    BY LenProperties
  <2>10. c.count <= Len(b)
    BY <2>3, <2>4, <2>6, <2>8, <2>9
  <2>11. QED
    BY <2>5, <2>7, <2>10
<1>6. ASSUME WayOK(ptr, k, c, p) PROVE WayOK(ptr2, k2, c, p)
  <2>1. \A x \in k : x \in k2 /\ ptr2[x] = ptr[x]
    BY <1>1 DEF Kept
  <2>2. QED
    BY <1>6, <2>1 DEF WayOK
<1>7. ASSUME l = "emit", WayOK(ptr, k, c, p), OutOK(ptr, w, p, i, o)
      PROVE  OutOK(ptr2, w2, p, i, o)
  <2>1. p \in Seq(Frame) /\ p # <<>> /\ i \in Nat /\ i > 0 /\ i <= Len(p)
    BY <1>7 DEF Fits
  <2>2. Len(p) \in Nat /\ Len(p) # 0
    BY <2>1, LenProperties, EmptySeq
  <2>3. Len(p) \in 1..Len(p)
    BY <2>2
  <2>4. p[Len(p)].session \in k
    BY <1>7, <2>3 DEF WayOK
  <2>5. ptr2[p[Len(p)].session] = NoBranch
    BY <1>7, <2>4 DEF OutOK, Kept
  <2>6. ASSUME i # Len(p)
        PROVE  o = Sink!First(p[i + 1].max, Shown(ptr2, w2, p[i + 1].session))
    <3>0. i >= 1 /\ i < Len(p)
      BY <2>1, <2>2, <2>6
    <3>1. PICK y : y = p[i + 1].session
      OBVIOUS
    <3>2. PICK n : n = p[i + 1].max
      OBVIOUS
    <3>3. PICK x : x = p[i].session
      OBVIOUS
    <3>4. PICK m : m = p[i].max
      OBVIOUS
    <3>5. /\ y \in k /\ y \in Session /\ n \in Nat /\ ptr[x].count \in Nat
          /\ n <= ptr[x].count /\ ~Deep(ptr, y) /\ ptr[x].count <= Len(Shown(ptr, w, y))
      BY <1>7, <2>1, <3>0, <3>1, <3>2, <3>3, <3>4, FrameFacts
    <3>6. Begins(Shown(ptr, w, y), Shown(ptr2, w2, y))
      BY <3>5 DEF Kept
    <3>7. PICK a \in Seq(Record) : a = Shown(ptr, w, y)
      BY <1>1, <3>5, ShownType
    <3>8. PICK b \in Seq(Record) : b = Shown(ptr2, w2, y)
      BY <3>5, ShownType
    <3>9. n <= Len(a)
      <4>1. Len(a) \in Nat
        BY LenProperties
      <4>2. QED
        BY <3>5, <3>7, <4>1
    <3>10. Sink!First(n, b) = Sink!First(n, a)
      BY <3>5, <3>6, <3>7, <3>8, <3>9, FirstOfBeginning
    <3>11. o = Sink!First(n, Shown(ptr, w, y))
      BY <1>7, <2>6, <3>1, <3>2 DEF OutOK
    <3>12. QED
      BY <3>1, <3>2, <3>7, <3>8, <3>10, <3>11
  <2>7. QED
    BY <1>7, <2>5, <2>6 DEF OutOK
<1>8. QED
  BY <1>2, <1>4, <1>5, <1>6, <1>7 DEF CallOK

\* A read that has come back to a session has given what it wants of it.
LEMMA EmittedShown ==
  ASSUME BranchInv, NEW t \in Thread, pc[t] = "emit",
         NEW x, x = path[t][at[t]].session, NEW m, m = path[t][at[t]].max
  PROVE  /\ Emitted(t) = Sink!First(m, Shown(pointer, own, x))
         /\ x \in Session /\ m \in Nat /\ ~Deep(pointer, x)
<1>1. PICK p : p = path[t]
  OBVIOUS
<1>2. PICK i : i = at[t]
  OBVIOUS
<1>3. PICK o : o = out[t]
  OBVIOUS
<1>4. FilesOK(pointer, own, used, known) /\ pointer \in Ptrs /\ own \in Lengths
  BY DEF BranchInv, FilesOK
<1>5. WayOK(pointer, known, call[t], p) /\ OutOK(pointer, own, p, i, o)
  BY <1>1, <1>2, <1>3 DEF BranchInv, CallOK
<1>6. p \in Seq(Frame) /\ i \in Nat /\ i > 0 /\ i <= Len(p) /\ o \in Seq(Record)
  BY <1>1, <1>2, <1>3, ThreadFacts DEF BranchInv, Fits
<1>7. Len(p) \in Nat /\ Len(o) \in Nat
  BY <1>6, LenProperties
<1>8. i \in 1..Len(p)
  BY <1>6, <1>7
<1>9. p[i] \in Frame
  BY <1>6, <1>8, ElementOfSeq
<1>10. x \in Session /\ m \in Nat
  BY <1>1, <1>2, <1>9 DEF Frame
<1>11. own[x] \in 0..MaxRecords
  BY <1>4, <1>10 DEF Lengths
<1>12. PICK wanted \in Nat : wanted = Rest(Len(o), m)
  BY <1>7, <1>10 DEF Rest
<1>13. Emitted(t) = o \o Sink!OwnRecords(x, Sink!Shorter(own[x], wanted))
  BY <1>1, <1>2, <1>3, <1>12 DEF Emitted, Rest
<1>14. CASE i = Len(p)
  <2>1. o = <<>> /\ pointer[x] = NoBranch
    BY <1>1, <1>2, <1>5, <1>14 DEF OutOK
  <2>2. Len(o) = 0
    BY <2>1
  <2>3. wanted = m
    BY <1>10, <1>12, <2>2 DEF Rest
  <2>4. Shown(pointer, own, x) = Sink!OwnRecords(x, own[x]) /\ ~Deep(pointer, x)
    BY <1>4, <1>10, <2>1, OwnShown
  <2>5. /\ Sink!First(m, Sink!OwnRecords(x, own[x])) = Sink!OwnRecords(x, Sink!Shorter(own[x], m))
        /\ Sink!Shorter(own[x], m) \in 0..MaxRecords
    BY <1>10, <1>11, OwnRecordsFirst
  <2>6. PICK q \in Seq(Record) : q = Sink!OwnRecords(x, Sink!Shorter(own[x], m))
    BY <1>10, <2>5, OwnRecordsType
  <2>7. o \o q = q
    BY <2>1, ConcatEmptySeq
  <2>8. QED
    BY <1>10, <1>13, <2>3, <2>4, <2>5, <2>6, <2>7
<1>15. CASE i # Len(p)
  <2>1. PICK y : y = p[i + 1].session
    OBVIOUS
  <2>2. PICK n : n = p[i + 1].max
    OBVIOUS
  <2>3. i >= 1 /\ i < Len(p)
    BY <1>6, <1>7, <1>15
  <2>4. x = p[i].session /\ m = p[i].max
    BY <1>1, <1>2
  <2>5. /\ y \in Session /\ n \in Nat /\ pointer[x] # NoBranch /\ pointer[x].parent = y
        /\ pointer[x].count \in Nat /\ n = Sink!Shorter(pointer[x].count, m)
        /\ pointer[x].count <= Len(Shown(pointer, own, y))
    BY <1>4, <1>5, <1>6, <2>1, <2>2, <2>3, <2>4, FrameFacts, SMTT(30)
  <2>6. ~Deep(pointer, x)
    <3>1. CASE i = 1
      <4>1. Len(p) \in 1..(MaxBranchDepth + 1)
        BY <1>5, <1>6, <1>7, DepthNat DEF OutOK
      <4>2. PICK q : q = [j \in 1..Len(p) |-> p[j].session]
        OBVIOUS
      <4>3. \A j \in 1..Len(p) : q[j] \in Session
        <5>1. ASSUME NEW j \in 1..Len(p) PROVE q[j] \in Session
          <6>1. p[j] \in Frame
            BY <1>6, ElementOfSeq
          <6>2. QED
            BY <4>2, <6>1 DEF Frame
        <5>2. QED
          BY <5>1
      <4>4. pointer[q[Len(p)]] = NoBranch
        BY <1>5, <4>1, <4>2, <1>7 DEF OutOK
      <4>5. ASSUME NEW j \in 1..Len(p), j # Len(p)
            PROVE  pointer[q[j]] # NoBranch /\ pointer[q[j]].parent = q[j + 1]
        <5>1. j \in Nat /\ j >= 1 /\ j < Len(p) /\ j + 1 \in 1..Len(p)
          BY <1>7, <4>5
        <5>2. q[j] = p[j].session /\ q[j + 1] = p[j + 1].session
          BY <4>2, <5>1
        <5>3. PICK a : a = p[j].session
          OBVIOUS
        <5>4. PICK b : b = p[j + 1].session
          OBVIOUS
        <5>5. PICK c : c = p[j].max
          OBVIOUS
        <5>6. PICK d : d = p[j + 1].max
          OBVIOUS
        <5>7. pointer[a] # NoBranch /\ pointer[a].parent = b
          BY <1>4, <1>5, <1>6, <5>1, <5>3, <5>4, <5>5, <5>6, FrameFacts
        <5>8. QED
          BY <5>2, <5>3, <5>4, <5>7
      <4>6. ~Deep(pointer, q[1])
        <5>1. PICK N \in 1..(MaxBranchDepth + 1) : N = Len(p)
          BY <4>1
        <5>2. QED
          BY <1>4, <4>3, <4>4, <4>5, <5>1, WayNotDeep
      <4>7. QED
        BY <1>8, <2>4, <3>1, <4>2, <4>6
    <3>2. CASE i # 1
      <4>1. PICK j \in Nat : i = j + 1 /\ j >= 1 /\ j < Len(p)
        <5>1. i - 1 \in Nat /\ i = (i - 1) + 1 /\ i - 1 >= 1 /\ i - 1 < Len(p)
          BY <1>6, <1>7, <3>2
        <5>2. QED
          BY <5>1
      <4>2. PICK a : a = p[j].session
        OBVIOUS
      <4>3. PICK c : c = p[j].max
        OBVIOUS
      <4>4. x = p[j + 1].session /\ m = p[j + 1].max
        BY <2>4, <4>1
      <4>5. QED
        BY <1>4, <1>5, <1>6, <4>1, <4>2, <4>3, <4>4, FrameFacts
    <3>3. QED
      BY <3>1, <3>2
  <2>7. Shown(pointer, own, x) = Sink!First(pointer[x].count, Shown(pointer, own, y))
                                   \o Sink!OwnRecords(x, own[x])
    BY <1>4, <1>10, <2>5, <2>6, BranchShown
  <2>8. PICK v \in Seq(Record) : v = Shown(pointer, own, y)
    BY <1>4, <2>5, ShownType
  <2>9. PICK c \in Nat : c = pointer[x].count
    BY <2>5
  <2>10. o = Sink!First(Sink!Shorter(c, m), v)
    BY <1>5, <1>15, <2>1, <2>2, <2>5, <2>8, <2>9 DEF OutOK
  <2>11. c <= Len(v)
    BY <2>5, <2>8, <2>9
  <2>12. o \o Sink!OwnRecords(x, Sink!Shorter(own[x], wanted))
           = Sink!First(m, Sink!First(c, v) \o Sink!OwnRecords(x, own[x]))
    <3>1. Resumes(x, own[x], v, c, m, o, wanted)
      BY <1>6, <1>10, <1>11, <1>12, <2>8, <2>9, <2>10, <2>11 DEF Resumes
    <3>2. Followed(o, x, Sink!Shorter(own[x], wanted))
            = Sink!First(m, Followed(Sink!First(c, v), x, own[x]))
      BY <3>1, EmittedIs
    <3>3. QED
      BY <3>2 DEF Followed
  <2>13. QED
    BY <1>10, <1>13, <2>6, <2>7, <2>8, <2>9, <2>12
<1>16. QED
  BY <1>14, <1>15

-----------------------------------------------------------------------------
(* The steps *)

\* The files are good, and as good as they were.
FilesStep ==
  /\ FilesOK(pointer', own', used', known')
  /\ Kept(pointer, own, known, pointer', own', known')

LEMMA FilesStay ==
  ASSUME BranchInv, UNCHANGED <<own, used, pointer, known>>
  PROVE  FilesStep
<1>1. FilesOK(pointer, own, used, known)
  BY DEF BranchInv
<1>2. known \subseteq Session
  BY <1>1 DEF FilesOK
<1>3. Kept(pointer, own, known, pointer, own, known)
  BY <1>1, <1>2, FilesKnown
<1>4. QED
  BY <1>1, <1>3 DEF FilesStep

\* A step of one thread: what the others have found out holds on.
LEMMA ThreadStep ==
  ASSUME BranchInv, TypeInv', FilesStep, NEW t \in Thread,
         NEW l, NEW c, NEW p, NEW i, NEW o, NEW r,
         Sets(t, l, c, p, i, o, r),
         CallOK(pointer', own', known', l, c, p, i, o, r)
  PROVE  BranchInv'
<1>1. ThreadsType /\ FilesOK(pointer, own, used, known)
  BY DEF BranchInv, TypeInv
<1>2. /\ pc'[t] = l /\ call'[t] = c /\ path'[t] = p
      /\ at'[t] = i /\ out'[t] = o /\ result'[t] = r
      /\ \A u \in Thread : u # t =>
           /\ pc'[u] = pc[u] /\ call'[u] = call[u] /\ path'[u] = path[u]
           /\ at'[u] = at[u] /\ out'[u] = out[u] /\ result'[u] = result[u]
  BY <1>1, LocalStep
<1>3. pointer' \in Ptrs /\ own' \in Lengths
  BY DEF FilesStep, FilesOK
<1>4. ASSUME NEW u \in Thread
      PROVE  CallOK(pointer', own', known',
                    pc'[u], call'[u], path'[u], at'[u], out'[u], result'[u])
  <2>1. CASE u = t
    BY <1>2, <2>1
  <2>2. CASE u # t
    <3>1. CallOK(pointer, own, known, pc[u], call[u], path[u], at[u], out[u], result[u])
      BY DEF BranchInv
    <3>2. Fits(pc[u], call[u], path[u], at[u], out[u], result[u])
      BY <1>1 DEF ThreadsType
    <3>3. Kept(pointer, own, known, pointer', own', known')
      BY DEF FilesStep
    <3>4. CallOK(pointer', own', known',
                 pc[u], call[u], path[u], at[u], out[u], result[u])
      BY <1>1, <1>3, <3>1, <3>2, <3>3, CallKept
    <3>5. QED
      BY <1>2, <2>2, <3>4
  <2>3. QED
    BY <2>1, <2>2
<1>5. QED
  BY <1>4 DEF BranchInv, FilesStep

\* A call ends.
LEMMA FinishStep ==
  ASSUME BranchInv, TypeInv', FilesStep, NEW t \in Thread, pc[t] # "idle",
         NEW r, Finish(t, r), call' = call,
         call[t].op = "branch" /\ r.code \in {"ok", "exists"} =>
           call[t].session \in known' \/ pointer'[call[t].session] # NoBranch
  PROVE  BranchInv'
<1>1. ThreadsType
  BY DEF BranchInv, TypeInv
<1>2. Sets(t, "return", call[t], <<>>, 0, <<>>, r)
  BY <1>1, FinishSets
<1>3. Uses(call[t]) \in known'
  BY DEF BranchInv, CallOK, FilesStep, Kept
<1>4. CallOK(pointer', own', known', "return", call[t], <<>>, 0, <<>>, r)
  BY <1>3 DEF CallOK
<1>5. QED
  BY <1>2, <1>4, ThreadStep

LEMMA StatusCode ==
  ASSUME NEW code
  PROVE  Sink!Status(code).code = code
BY DEF Sink!Status

LEMMA CallStep ==
  ASSUME BranchInv, TypeInv', Disciplined, NEW t \in Thread, Call(t)
  PROVE  BranchInv'
<1>1. PICK c \in CallsOf[t] :
         /\ Disciplined => Uses(c) \in known
         /\ call' = [call EXCEPT ![t] = c]
         /\ IF c.op = "append" THEN Goto(t, "append") /\ UNCHANGED path
            ELSE /\ Goto(t, "up")
                 /\ path' = [path EXCEPT ![t] = <<[session |-> Uses(c),
                      max |-> IF c.op = "read" THEN c.max ELSE Unlimited]>>]
  BY DEF Call
<1>2. Uses(c) \in known
  BY <1>1
<1>3. /\ UNCHANGED <<own, used, pointer, known>> /\ UNCHANGED <<at, out, result>>
  BY DEF Call, files
<1>4. FilesStep /\ ThreadsType
  BY <1>3, FilesStay DEF BranchInv, TypeInv
<1>5. CASE c.op = "append"
  <2>1. Sets(t, "append", c, path[t], at[t], out[t], result[t])
    BY <1>1, <1>3, <1>4, <1>5 DEF Sets, Goto, ThreadsType
  <2>2. CallOK(pointer', own', known', "append", c, path[t], at[t], out[t], result[t])
    BY <1>2, <1>3 DEF CallOK
  <2>3. QED
    BY <1>4, <2>1, <2>2, ThreadStep
<1>6. CASE c.op # "append"
  <2>1. PICK f : f = [session |-> Uses(c), max |-> Wanted(c)]
    OBVIOUS
  <2>2. PICK p : p = <<f>>
    OBVIOUS
  <2>3. Sets(t, "up", c, p, at[t], out[t], result[t])
    BY <1>1, <1>3, <1>4, <1>6, <2>1, <2>2 DEF Sets, Goto, ThreadsType, Wanted
  <2>4. Len(p) = 1 /\ p[1] = f
    BY <2>2
  <2>5. WayOK(pointer, known, c, p)
    <3>1. \A i \in 1..Len(p) : i = 1 /\ p[i] = f
      BY <2>4
    <3>2. f.session = Uses(c)
      BY <2>1
    <3>3. QED
      BY <1>2, <2>1, <2>4, <3>1, <3>2 DEF WayOK
  <2>6. CallOK(pointer', own', known', "up", c, p, at[t], out[t], result[t])
    BY <1>2, <1>3, <2>5 DEF CallOK
  <2>7. QED
    BY <1>4, <2>3, <2>6, ThreadStep
<1>7. QED
  BY <1>5, <1>6

LEMMA AppendStep ==
  ASSUME BranchInv, TypeInv', NEW t \in Thread, AppendRecord(t) \/ AppendFails(t)
  PROVE  /\ BranchInv' /\ own' \in Lengths
         /\ \A x \in Session : own[x] <= own'[x]
<1>1. pc[t] = "append" /\ UNCHANGED <<pointer, mutex, call, known>>
  BY DEF AppendRecord, AppendFails
<1>2. call[t].op = "append" /\ Uses(call[t]) \in known
  BY <1>1, ThreadFacts DEF BranchInv, Fits, CallOK
<1>3. PICK s \in Session : s = call[t].session /\ s \in known
  BY <1>1, <1>2, InCall, CallFields DEF Uses, BranchInv
<1>4. FilesOK(pointer, own, used, known) /\ own \in Lengths /\ used \subseteq known
  BY DEF BranchInv, FilesOK
<1>5. own' \in Lengths
  BY DEF TypeInv, FilesType, Lengths
<1>6. /\ used \subseteq used' /\ used' \subseteq known
      /\ \A x \in Session : own[x] <= own'[x] /\ (x \notin used' => own'[x] = 0)
  <2>1. \A x \in Session : own[x] \in Nat /\ (x \notin used => own[x] = 0)
    BY <1>4 DEF FilesOK, Lengths
  <2>2. \/ own' = own /\ used' = used
        \/ /\ used' = used \cup {s}
           /\ own' = own \/ own' = [own EXCEPT ![s] = @ + 1]
    BY <1>3 DEF AppendRecord, AppendFails
  <2>3. used \subseteq used' /\ used' \subseteq known
    BY <1>3, <1>4, <2>2
  <2>4. ASSUME NEW x \in Session
        PROVE  own[x] <= own'[x] /\ (x \notin used' => own'[x] = 0)
    <3>1. own'[x] = own[x] \/ (x = s /\ own'[x] = own[x] + 1 /\ x \in used')
      BY <1>4, <2>2 DEF Lengths
    <3>2. QED
      BY <2>1, <2>3, <3>1
  <2>5. QED
    BY <2>3, <2>4
<1>7. FilesStep
  BY <1>1, <1>4, <1>5, <1>6, FilesGrow DEF FilesStep
<1>8. PICK r \in ResultType : Finish(t, r)
  BY StatusType DEF AppendRecord, AppendFails
<1>9. BranchInv'
  BY <1>1, <1>2, <1>7, <1>8, FinishStep
<1>10. QED
  BY <1>5, <1>6, <1>9

LEMMA UpStep ==
  ASSUME BranchInv, TypeInv', NEW t \in Thread, ToParent(t) \/ ToRecords(t)
  PROVE  BranchInv'
<1>1. /\ pc[t] = "up" /\ UNCHANGED <<own, used, pointer, known>>
      /\ UNCHANGED <<call, out, result>>
  BY DEF ToParent, ToRecords, files
<1>2. FilesStep /\ ThreadsType /\ FilesOK(pointer, own, used, known)
  BY <1>1, FilesStay DEF BranchInv, TypeInv
<1>3. Uses(call[t]) \in known /\ WayOK(pointer, known, call[t], path[t])
  BY <1>1 DEF BranchInv, CallOK
<1>4. /\ path[t] \in Seq(Frame) /\ Len(path[t]) \in Nat \ {0} /\ Top(t) \in Frame
      /\ out[t] = <<>>
  BY <1>1, ThreadFacts, TopType DEF BranchInv, Fits
<1>5. Top(t).session \in known /\ Top(t).session \in Session /\ Top(t).max \in Nat
  <2>1. Len(path[t]) \in 1..Len(path[t])
    BY <1>4
  <2>2. path[t][Len(path[t])].session \in known
    BY <1>3, <2>1 DEF WayOK
  <2>3. QED
    BY <1>4, <2>2 DEF Top, Frame
<1>6. CASE ToParent(t)
  <2>1. PICK b \in Ptr : b = pointer[Top(t).session] /\ b # NoBranch
    BY <1>2, <1>5, <1>6 DEF ToParent, FilesOK, Ptrs
  <2>2. PICK f : f = [session |-> b.parent, max |-> ParentLimit(b, Top(t).max)]
    OBVIOUS
  <2>3. f \in Frame
    BY <1>5, <2>1, <2>2, ShorterNat DEF Frame, ParentLimit, Ptr
  <2>4. PICK p : p = Append(path[t], f)
    OBVIOUS
  <2>5. PICK n \in Nat : n = Len(path[t]) /\ n >= 1
    BY <1>4
  <2>6. /\ p \in Seq(Frame) /\ Len(p) = n + 1 /\ p[n + 1] = f
        /\ \A i \in 1..n : p[i] = path[t][i]
    BY <1>4, <2>3, <2>4, <2>5, AppendProperties
  <2>7. Sets(t, "up", call[t], p, at[t], out[t], result[t])
    BY <1>1, <1>2, <1>6, <2>1, <2>2, <2>4 DEF ToParent, ThreadsType, Sets
  <2>8. f.session \in known
    BY <1>2, <1>5, <2>1, <2>2 DEF FilesOK
  <2>9. ASSUME NEW i \in 1..Len(p)
        PROVE  /\ p[i].session \in known
               /\ i # Len(p) =>
                    /\ pointer[p[i].session] # NoBranch
                    /\ p[i + 1] = [session |-> pointer[p[i].session].parent,
                                   max |-> ParentLimit(pointer[p[i].session], p[i].max)]
    <3>1. CASE i = n + 1
      BY <2>5, <2>6, <2>8, <3>1
    <3>2. CASE i = n
      <4>1. p[i] = Top(t) /\ p[i + 1] = f
        BY <2>5, <2>6, <3>2 DEF Top
      <4>2. QED
        BY <1>5, <2>1, <2>2, <4>1
    <3>3. CASE i # n + 1 /\ i # n
      <4>1. i \in 1..n /\ i + 1 \in 1..n /\ i # n
        BY <2>5, <2>6, <3>3
      <4>2. p[i] = path[t][i] /\ p[i + 1] = path[t][i + 1]
        BY <2>6, <4>1
      <4>3. QED
        BY <1>3, <2>5, <4>1, <4>2 DEF WayOK
    <3>4. QED
      BY <3>1, <3>2, <3>3
  <2>10. p[1] = [session |-> Uses(call[t]), max |-> Wanted(call[t])]
    BY <1>3, <2>5, <2>6 DEF WayOK
  <2>11. WayOK(pointer, known, call[t], p)
    BY <2>9, <2>10 DEF WayOK
  <2>12. CallOK(pointer', own', known', "up", call[t], p, at[t], out[t], result[t])
    BY <1>1, <1>3, <2>11 DEF CallOK
  <2>13. QED
    BY <1>2, <2>7, <2>12, ThreadStep
<1>7. CASE ToRecords(t)
  <2>1. Sets(t, "emit", call[t], path[t], Len(path[t]), out[t], result[t])
    BY <1>1, <1>2, <1>7 DEF ToRecords, ThreadsType, Sets, Goto
  <2>2. OutOK(pointer, own, path[t], Len(path[t]), out[t])
    BY <1>4, <1>7 DEF OutOK, ToRecords, Top
  <2>3. CallOK(pointer', own', known', "emit", call[t], path[t], Len(path[t]), out[t], result[t])
    BY <1>1, <1>3, <2>2 DEF CallOK
  <2>4. QED
    BY <1>2, <2>1, <2>3, ThreadStep
<1>8. QED
  BY <1>6, <1>7

LEMMA EmitStep ==
  ASSUME BranchInv, TypeInv', NEW t \in Thread,
         TooDeep(t) \/ EmitOf(t) \/ EndRead(t) \/ ReadFails(t)
  PROVE  BranchInv'
<1>1. /\ pc[t] \in {"up", "emit"} /\ pc[t] # "idle"
      /\ UNCHANGED <<own, used, pointer, known>> /\ call' = call
  BY DEF TooDeep, EmitOf, EndRead, ReadFails, files
<1>2. FilesStep /\ ThreadsType
  BY <1>1, FilesStay DEF BranchInv, TypeInv
<1>3. CASE TooDeep(t) \/ ReadFails(t)
  <2>1. PICK r : r = Sink!Status("error")
    OBVIOUS
  <2>2. Finish(t, r) /\ r.code = "error"
    BY <1>3, <2>1, StatusCode DEF TooDeep, ReadFails
  <2>3. QED
    BY <1>1, <1>2, <2>2, FinishStep
<1>4. CASE EndRead(t)
  <2>1. PICK r : r = Sink!Records(Emitted(t))
    OBVIOUS
  <2>2. Finish(t, r) /\ call[t].op = "read"
    BY <1>4, <2>1 DEF EndRead
  <2>3. QED
    BY <1>1, <1>2, <2>2, FinishStep
<1>5. CASE EmitOf(t)
  <2>1. /\ pc[t] = "emit" /\ at[t] > 1
        /\ UNCHANGED <<path, pc, result>>
        /\ out' = [out EXCEPT ![t] = Emitted(t)] /\ at' = [at EXCEPT ![t] = at[t] - 1]
    BY <1>2, <1>5 DEF EmitOf, ThreadsType
  <2>2. PICK x : x = path[t][at[t]].session
    OBVIOUS
  <2>3. PICK m : m = path[t][at[t]].max
    OBVIOUS
  <2>4. Emitted(t) = Sink!First(m, Shown(pointer, own, x))
    BY <2>1, <2>2, <2>3, EmittedShown
  <2>5. at[t] \in Nat /\ Len(path[t]) \in Nat /\ at[t] <= Len(path[t])
    BY ThreadFacts DEF BranchInv
  <2>6. PICK j \in Nat : j = at[t] - 1 /\ j + 1 = at[t] /\ j # Len(path[t])
    BY <2>1, <2>5
  <2>7. /\ Uses(call[t]) \in known /\ WayOK(pointer, known, call[t], path[t])
        /\ OutOK(pointer, own, path[t], at[t], out[t])
    BY <2>1 DEF BranchInv, CallOK
  <2>8. OutOK(pointer, own, path[t], j, Emitted(t))
    BY <2>2, <2>3, <2>4, <2>6, <2>7 DEF OutOK
  <2>9. Sets(t, "emit", call[t], path[t], j, Emitted(t), result[t])
    BY <1>1, <1>2, <2>1, <2>6 DEF Sets, ThreadsType
  <2>10. CallOK(pointer', own', known', "emit", call[t], path[t], j, Emitted(t), result[t])
    BY <1>1, <2>7, <2>8 DEF CallOK
  <2>11. QED
    BY <1>2, <2>9, <2>10, ThreadStep
<1>6. QED
  BY <1>3, <1>4, <1>5

\* The parent's records have been counted.
LEMMA ParentCounted ==
  ASSUME BranchInv, NEW t \in Thread, pc[t] = "emit", at[t] = 1, call[t].op = "branch"
  PROVE  /\ Emitted(t) = Shown(pointer, own, call[t].parent)
         /\ ~Deep(pointer, call[t].parent) /\ call[t].parent \in Session
         /\ call[t].count \in Nat
<1>1. PICK x : x = path[t][at[t]].session
  OBVIOUS
<1>2. PICK m : m = path[t][at[t]].max
  OBVIOUS
<1>3. /\ Emitted(t) = Sink!First(m, Shown(pointer, own, x))
      /\ x \in Session /\ m \in Nat /\ ~Deep(pointer, x)
  BY <1>1, <1>2, EmittedShown
<1>4. path[t][1] = [session |-> Uses(call[t]), max |-> Wanted(call[t])]
  BY DEF BranchInv, CallOK, WayOK
<1>5. x = call[t].parent /\ m = Unlimited
  BY <1>1, <1>2, <1>4 DEF Uses, Wanted
<1>6. pointer \in Ptrs /\ own \in Lengths
  BY DEF BranchInv, FilesOK
<1>7. PICK v \in Seq(Record) : v = Shown(pointer, own, x) /\ Len(v) \in Nat /\ Len(v) < Unlimited
  BY <1>3, <1>6, ShownType
<1>8. Sink!First(m, v) = v
  BY <1>3, <1>5, <1>7, FirstAll
<1>9. call[t].count \in Nat
  BY InCall, CallFields DEF BranchInv
<1>10. QED
  BY <1>3, <1>5, <1>7, <1>8, <1>9

LEMMA ValidateStep ==
  ASSUME BranchInv, TypeInv', NEW t \in Thread, Validate(t)
  PROVE  BranchInv'
<1>1. /\ pc[t] = "emit" /\ pc[t] # "idle" /\ at[t] = 1 /\ call[t].op = "branch"
      /\ UNCHANGED <<own, used, pointer, known>> /\ call' = call
  BY DEF Validate, files
<1>2. FilesStep /\ ThreadsType
  BY <1>1, FilesStay DEF BranchInv, TypeInv
<1>3. CASE call[t].count > Len(Emitted(t))
  <2>1. PICK r : r = Sink!Status("invalid")
    OBVIOUS
  <2>2. Finish(t, r) /\ r.code = "invalid"
    BY <1>3, <2>1, StatusCode DEF Validate
  <2>3. QED
    BY <1>1, <1>2, <2>2, FinishStep
<1>4. CASE ~(call[t].count > Len(Emitted(t)))
  <2>1. Sets(t, "lock", call[t], <<>>, 0, <<>>, result[t])
    BY <1>1, <1>2, <1>4 DEF Validate, ThreadsType, Sets, Goto
  <2>2. Emitted(t) = Shown(pointer, own, call[t].parent) /\ ~Deep(pointer, call[t].parent)
    BY <1>1, ParentCounted
  <2>3. call[t].count <= Len(Emitted(t))
    <3>1. call[t].count \in Nat /\ at[t] > 0
      BY <1>1, ParentCounted
    <3>2. Emitted(t) \in Seq(Record)
      BY <3>1, EmittedType DEF BranchInv
    <3>3. Len(Emitted(t)) \in Nat
      BY <3>2, LenProperties
    <3>4. QED
      BY <1>4, <3>1, <3>3
  <2>4. Uses(call[t]) \in known
    BY <1>1 DEF BranchInv, CallOK
  <2>5. CallOK(pointer', own', known', "lock", call[t], <<>>, 0, <<>>, result[t])
    BY <1>1, <2>2, <2>3, <2>4 DEF CallOK
  <2>6. QED
    BY <1>2, <2>1, <2>5, ThreadStep
<1>5. QED
  BY <1>3, <1>4

LEMMA CheckStep ==
  ASSUME BranchInv, TypeInv', NEW t \in Thread, TakeMutex(t) \/ CheckUse(t)
  PROVE  BranchInv'
<1>1. /\ pc[t] \in {"lock", "check"} /\ pc[t] # "idle"
      /\ UNCHANGED <<own, used, pointer, known>> /\ call' = call
  BY DEF TakeMutex, CheckUse, files
<1>2. FilesStep /\ ThreadsType
  BY <1>1, FilesStay DEF BranchInv, TypeInv
<1>3. CASE CheckUse(t) /\ InUse(call[t].session)
  <2>1. PICK r : r = Sink!Status("exists")
    OBVIOUS
  <2>2. Finish(t, r)
    BY <1>3, <2>1 DEF CheckUse
  <2>3. call[t].session \in known' \/ pointer'[call[t].session] # NoBranch
    BY <1>1, <1>3 DEF InUse, BranchInv, FilesOK
  <2>4. QED
    BY <1>1, <1>2, <2>2, <2>3, FinishStep
<1>4. CASE TakeMutex(t) \/ (CheckUse(t) /\ ~InUse(call[t].session))
  <2>1. PICK l \in {"check", "publish"} :
          Sets(t, l, call[t], path[t], at[t], out[t], result[t])
    BY <1>1, <1>2, <1>4 DEF TakeMutex, CheckUse, reading, ThreadsType, Sets, Goto
  <2>2. /\ Uses(call[t]) \in known
        /\ ~Deep(pointer, call[t].parent)
        /\ call[t].count <= Len(Shown(pointer, own, call[t].parent))
    BY <1>1 DEF BranchInv, CallOK
  <2>3. CallOK(pointer', own', known', l, call[t], path[t], at[t], out[t], result[t])
    BY <1>1, <2>1, <2>2 DEF CallOK
  <2>4. QED
    BY <1>2, <2>1, <2>3, ThreadStep
<1>5. QED
  BY <1>3, <1>4

\* What a creation that is about to publish its pointer has.
LEMMA PublishFacts ==
  ASSUME BranchInv, NEW t \in Thread, pc[t] = "publish"
  PROVE  /\ call[t].op = "branch" /\ call[t].session \in Session /\ call[t].session \notin Roots
         /\ call[t].parent \in known /\ call[t].parent \in Session /\ call[t].count \in Nat
         /\ ~Deep(pointer, call[t].parent)
         /\ call[t].count <= Len(Shown(pointer, own, call[t].parent))
<1>1. call[t].op = "branch" /\ call[t] \in CallType
  BY InCall, ThreadFacts DEF BranchInv, Fits
<1>2. Uses(call[t]) = call[t].parent
  BY <1>1 DEF Uses
<1>3. QED
  BY <1>1, <1>2, CallFields DEF BranchInv, CallOK

\* A pointer is published.
LEMMA Published ==
  ASSUME BranchInv, NEW t \in Thread, Publish(t)
  PROVE  LET s == call[t].session IN
         /\ FilesStep
         /\ own' = own /\ used' = used
         /\ s \in Session /\ s \notin known /\ pointer'[s] # NoBranch
         /\ OthersShown(pointer, pointer', own, s) /\ Shown(pointer, own, s) = <<>>
<1>1. PICK s : s = call[t].session
  OBVIOUS
<1>2. PICK b : b = [parent |-> call[t].parent, count |-> call[t].count]
  OBVIOUS
<1>3. /\ pc[t] = "publish" /\ pointer[s] = NoBranch /\ pointer' = [pointer EXCEPT ![s] = b]
      /\ UNCHANGED <<own, used, call, known>>
  BY <1>1, <1>2 DEF Publish
<1>4. /\ s \in Session /\ s \notin Roots /\ b \in Ptr /\ b.parent \in known
      /\ ~Deep(pointer, b.parent) /\ b.count <= Len(Shown(pointer, own, b.parent))
  <2>1. b.parent = call[t].parent /\ b.count = call[t].count
    BY <1>2
  <2>2. QED
    BY <1>1, <1>2, <1>3, <2>1, PublishFacts DEF Ptr
<1>5. FilesOK(pointer, own, used, known)
  BY DEF BranchInv
<1>6. /\ FilesOK(pointer', own, used, known) /\ Kept(pointer, own, known, pointer', own, known)
      /\ s \notin known /\ pointer'[s] = b /\ b # NoBranch
      /\ OthersShown(pointer, pointer', own, s) /\ Shown(pointer, own, s) = <<>>
  <2>1. Joins(pointer, own, used, known, s, b, pointer')
    BY <1>3, <1>4, <1>5 DEF Joins
  <2>2. QED
    BY <2>1, FilesBranch
<1>7. FilesStep
  BY <1>3, <1>6 DEF FilesStep
<1>8. QED
  BY <1>1, <1>3, <1>4, <1>6, <1>7

LEMMA PublishStep ==
  ASSUME BranchInv, TypeInv', NEW t \in Thread, Publish(t) \/ PublishFails(t)
  PROVE  BranchInv'
<1>1. pc[t] = "publish" /\ pc[t] # "idle" /\ UNCHANGED <<own, used, call, known>>
  BY DEF Publish, PublishFails, files
<1>2. CASE Publish(t)
  <2>1. FilesStep /\ pointer'[call[t].session] # NoBranch
    BY <1>2, Published
  <2>2. PICK r : Finish(t, r)
    BY <1>2 DEF Publish
  <2>3. QED
    BY <1>1, <2>1, <2>2, FinishStep
<1>3. CASE PublishFails(t)
  <2>1. pointer' = pointer
    BY <1>3 DEF PublishFails, files
  <2>2. FilesStep
    BY <1>1, <2>1, FilesStay
  <2>3. PICK code \in {"exists", "error"} :
          /\ Finish(t, Sink!Status(code))
          /\ code = "exists" => pointer[call[t].session] # NoBranch
    BY <1>3 DEF PublishFails
  <2>4. PICK r : r = Sink!Status(code)
    OBVIOUS
  <2>5. Finish(t, r) /\ r.code = code
    BY <2>3, <2>4, StatusCode
  <2>6. QED
    BY <1>1, <2>1, <2>2, <2>3, <2>5, FinishStep
<1>4. QED
  BY <1>2, <1>3

LEMMA ReturnStep ==
  ASSUME BranchInv, TypeInv', NEW t \in Thread, Return(t)
  PROVE  BranchInv'
<1>1. /\ pc[t] = "return"
      /\ UNCHANGED <<own, used, pointer, path, at, out>>
  BY DEF Return, files, reading
<1>2. ThreadsType /\ FilesOK(pointer, own, used, known) /\ known \subseteq Session
  BY DEF BranchInv, TypeInv, FilesOK
<1>3. known \subseteq known'
  BY DEF Return
<1>4. known' \subseteq Session
  BY DEF TypeInv, FilesType
<1>5. \A x \in known' : x \in known \/ pointer[x] # NoBranch
  <2>1. call[t].op = "branch" /\ result[t].code \in {"ok", "exists"} =>
          call[t].session \in known \/ pointer[call[t].session] # NoBranch
    BY <1>1 DEF BranchInv, CallOK
  <2>2. QED
    BY <2>1 DEF Return
<1>6. FilesStep
  BY <1>1, <1>2, <1>3, <1>4, <1>5, FilesKnown DEF FilesStep
<1>7. PICK r : r = Sink!Status("none")
  OBVIOUS
<1>8. Sets(t, "idle", NoCall, path[t], at[t], out[t], r)
  BY <1>1, <1>2, <1>7 DEF Return, ThreadsType, Sets, Goto
<1>9. CallOK(pointer', own', known', "idle", NoCall, path[t], at[t], out[t], r)
  BY DEF CallOK
<1>10. QED
  BY <1>6, <1>8, <1>9, ThreadStep

LEMMA CrashStep ==
  ASSUME BranchInv, TypeInv', NEW p \in Process, Crash(p)
  PROVE  BranchInv'
<1>1. UNCHANGED <<own, used, pointer, known>>
  BY DEF Crash, files
<1>2. FilesStep /\ ThreadsType
  BY <1>1, FilesStay DEF BranchInv, TypeInv
<1>3. ASSUME NEW u \in Thread
      PROVE  CallOK(pointer', own', known',
                    pc'[u], call'[u], path'[u], at'[u], out'[u], result'[u])
  <2>1. CASE ProcessOf[u] = p
    <3>1. pc'[u] = "idle"
      BY <2>1 DEF Crash
    <3>2. QED
      BY <3>1 DEF CallOK
  <2>2. CASE ProcessOf[u] # p
    <3>1. /\ pc'[u] = pc[u] /\ call'[u] = call[u] /\ path'[u] = path[u]
          /\ at'[u] = at[u] /\ out'[u] = out[u] /\ result'[u] = result[u]
      BY <2>2 DEF Crash
    <3>2. CallOK(pointer, own, known, pc[u], call[u], path[u], at[u], out[u], result[u])
      BY DEF BranchInv
    <3>3. QED
      BY <1>1, <3>1, <3>2
  <2>3. QED
    BY <2>1, <2>2
<1>4. QED
  BY <1>2, <1>3 DEF BranchInv, FilesStep

LEMMA InitBranch == Init => BranchInv
<1> SUFFICES ASSUME Init PROVE BranchInv
  OBVIOUS
<1>1. TypeInv
  BY InitType
<1>2. pointer \in Ptrs /\ own \in Lengths
  BY <1>1 DEF TypeInv, FilesType, Ptrs, Ptr, Lengths
<1>3. \A s \in Session : pointer[s] = NoBranch /\ own[s] = 0
  BY DEF Init
<1>4. Within(pointer, own)
  BY <1>3 DEF Within
<1>5. known = Roots /\ used = {} /\ Roots \subseteq Session
  BY SessionsAssumption DEF Init
<1>6. FilesOK(pointer, own, used, known)
  BY <1>2, <1>3, <1>4, <1>5 DEF FilesOK
<1>7. \A t \in Thread : pc[t] = "idle"
  BY DEF Init
<1>8. \A t \in Thread :
        CallOK(pointer, own, known, pc[t], call[t], path[t], at[t], out[t], result[t])
  BY <1>7 DEF CallOK
<1>9. QED
  BY <1>1, <1>6, <1>8 DEF BranchInv

LEMMA StepBranch == Disciplined /\ BranchInv /\ [Next]_vars => BranchInv'
<1> SUFFICES ASSUME Disciplined, BranchInv, [Next]_vars PROVE BranchInv'
  OBVIOUS
<1>0. TypeInv'
  BY StepType DEF BranchInv
<1>1. CASE UNCHANGED vars
  <2>1. UNCHANGED <<own, used, pointer, known, pc, call, path, at, out, result>>
    BY <1>1 DEF vars
  <2>2. QED
    BY <1>0, <2>1 DEF BranchInv
<1>2. ASSUME NEW t \in Thread, Call(t) PROVE BranchInv'
  BY <1>0, <1>2, CallStep
<1>3. ASSUME NEW t \in Thread, Step(t) PROVE BranchInv'
  BY <1>0, <1>3, AppendStep, UpStep, EmitStep, ValidateStep, CheckStep,
     PublishStep, ReturnStep DEF Step
<1>4. ASSUME NEW p \in Process, Crash(p) PROVE BranchInv'
  BY <1>0, <1>4, CrashStep
<1>5. QED
  BY <1>1, <1>2, <1>3, <1>4 DEF Next

LEMMA BranchHolds == Disciplined /\ Spec => []BranchInv
<1>1. Disciplined /\ Init => BranchInv
  BY InitBranch
<1>2. CASE Disciplined
  <2>1. BranchInv /\ [Next]_vars => BranchInv'
    BY <1>2, StepBranch
  <2>2. QED
    BY InitBranch, <2>1, PTL DEF Spec
<1>3. CASE ~Disciplined
  BY <1>3
<1>4. QED
  BY <1>2, <1>3

\* A branch's parent can be read, and shows the records the branch has of it.
WithinParent ==
  \A s \in Session : pointer[s] # NoBranch =>
    /\ ~Sink!TooDeep(pointer[s].parent)
    /\ pointer[s].count <= Len(Sink!View(pointer[s].parent))

\* CreateBranch counts its parent's records before it takes the mutex, and may
\* publish long after: when callers use a branch only once its creation has
\* returned, its pointer is never to more than the parent has.
THEOREM BranchesWithinParents == Disciplined /\ Spec => []WithinParent
<1>1. BranchInv => WithinParent
  <2> SUFFICES ASSUME BranchInv, NEW s \in Session, pointer[s] # NoBranch
               PROVE  /\ ~Sink!TooDeep(pointer[s].parent)
                      /\ pointer[s].count <= Len(Sink!View(pointer[s].parent))
    BY DEF WithinParent
  <2>1. pointer[s].parent \in Session
    BY DEF BranchInv, FilesOK, Ptrs, Ptr
  <2>2. /\ ~Deep(pointer, pointer[s].parent)
        /\ pointer[s].count <= Len(Shown(pointer, own, pointer[s].parent))
    BY DEF BranchInv, FilesOK, Within
  <2>3. QED
    BY <2>1, <2>2, ViewIsShown
<1>2. QED
  BY <1>1, BranchHolds, PTL

\* What one step does to what a session shows.
LEMMA StepGrows ==
  ASSUME BranchInv, BranchInv', [Next]_vars, NEW s \in Session, ~Deep(pointer, s)
  PROVE  Begins(Shown(pointer, own, s), Shown(pointer', own', s))
<1>1. pointer \in Ptrs /\ own \in Lengths /\ Within(pointer, own)
  BY DEF BranchInv, FilesOK
<1>2. Begins(Shown(pointer, own, s), Shown(pointer, own, s))
  <2>1. Shown(pointer, own, s) \in Seq(Record)
    BY <1>1, ShownType
  <2>2. QED
    BY <2>1, BeginsRefl
<1>3. CASE pointer' = pointer /\ own' = own
  BY <1>2, <1>3
<1>4. ASSUME NEW t \in Thread, AppendRecord(t) \/ AppendFails(t)
      PROVE  Begins(Shown(pointer, own, s), Shown(pointer', own', s))
  <2>1. pointer' = pointer
    BY <1>4 DEF AppendRecord, AppendFails
  <2>2. own' \in Lengths /\ \A x \in Session : own[x] <= own'[x]
    BY <1>4, AppendStep DEF BranchInv
  <2>3. Begins(Shown(pointer, own, s), Shown(pointer, own', s))
    BY <1>1, <2>2, ShownGrows
  <2>4. QED
    BY <2>1, <2>3
<1>5. ASSUME NEW t \in Thread, Publish(t)
      PROVE  Begins(Shown(pointer, own, s), Shown(pointer', own', s))
  <2>1. PICK x : x = call[t].session
    OBVIOUS
  <2>2. /\ own' = own /\ OthersShown(pointer, pointer', own, x)
        /\ Shown(pointer, own, x) = <<>>
    BY <1>5, <2>1, Published
  <2>3. CASE s = x
    <3>1. Shown(pointer', own', s) \in Seq(Record)
      BY ShownType DEF BranchInv, FilesOK
    <3>2. Begins(<<>>, Shown(pointer', own', s))
      BY <3>1, EmptyBegins
    <3>3. QED
      BY <2>2, <2>3, <3>2
  <2>4. CASE s # x
    <3>1. Shown(pointer', own, s) = Shown(pointer, own, s)
      BY <2>2, <2>4 DEF OthersShown
    <3>2. QED
      BY <1>2, <2>2, <3>1
  <2>5. QED
    BY <2>3, <2>4
<1>6. ASSUME NEW t \in Thread, Call(t) \/ Step(t),
             ~(AppendRecord(t) \/ AppendFails(t) \/ Publish(t))
      PROVE  pointer' = pointer /\ own' = own
  BY <1>6 DEF Call, Step, ToParent, ToRecords, TooDeep, EmitOf, EndRead, ReadFails, Validate,
     TakeMutex, CheckUse, PublishFails, Return, files
<1>7. ASSUME NEW p \in Process, Crash(p) PROVE pointer' = pointer /\ own' = own
  BY <1>7 DEF Crash, files
<1>8. CASE UNCHANGED vars
  BY <1>3, <1>8 DEF vars
<1>9. QED
  BY <1>3, <1>4, <1>5, <1>6, <1>7, <1>8 DEF Next

\* Append-only: what a session shows is a beginning of what it will show,
\* whoever appends to it or to its ancestors, or makes it a branch.
THEOREM BranchViewsGrow == Disciplined /\ Spec => ViewsGrow
<1> DEFINE Grow == \A s \in Session : ~Sink!TooDeep(s) =>
                     Sink!First(Len(Sink!View(s)), Sink!View(s)') = Sink!View(s)
<1>1. ASSUME BranchInv, BranchInv', [Next]_vars PROVE Grow
  <2> SUFFICES ASSUME NEW s \in Session, ~Sink!TooDeep(s)
               PROVE  Sink!First(Len(Sink!View(s)), Sink!View(s)') = Sink!View(s)
    OBVIOUS
  <2>1. ~Deep(pointer, s)
    BY ViewIsShown
  <2>2. Begins(Shown(pointer, own, s), Shown(pointer', own', s))
    BY <1>1, <2>1, StepGrows
  <2>3. Sink!View(s) = Shown(pointer, own, s) /\ Sink!View(s)' = Shown(pointer', own', s)
    BY ViewIsShown
  <2>4. QED
    BY <2>2, <2>3 DEF Begins
<1>2. BranchInv /\ BranchInv' /\ [Next]_vars => [Grow]_vars
  BY <1>1
<1>3. QED
  BY <1>2, BranchHolds, PTL DEF ViewsGrow, Spec

-----------------------------------------------------------------------------
(* The sink the callers see *)

\* What a thread at a label waits for, or what came of it.
RequestOf(l, c, r) ==
  CASE l = "idle" -> Sink!Idle
    [] l = "return" -> Sink!Answered(r)
    [] OTHER -> c

LEMMA RequestIs ==
  /\ SinkRequest = [t \in Thread |-> RequestOf(pc[t], call[t], result[t])]
  /\ SinkRequest' = [t \in Thread |-> RequestOf(pc'[t], call'[t], result'[t])]
BY DEF SinkRequest, RequestOf, Sink!Idle, Sink!Answered

LEMMA RequestCases ==
  ASSUME NEW l, NEW c, NEW r
  PROVE  /\ l = "idle" => RequestOf(l, c, r) = Sink!Idle
         /\ l = "return" => RequestOf(l, c, r) = Sink!Answered(r)
         /\ l # "idle" /\ l # "return" => RequestOf(l, c, r) = c
BY DEF RequestOf

LEMMA RequestAt ==
  ASSUME NEW t \in Thread
  PROVE  /\ pc[t] = "idle" => SinkRequest[t] = Sink!Idle
         /\ pc[t] = "return" => SinkRequest[t] = Sink!Answered(result[t])
         /\ pc[t] # "idle" /\ pc[t] # "return" => SinkRequest[t] = call[t]
BY RequestIs, RequestCases

\* A step of one thread changes its request only.
LEMMA RequestStep ==
  ASSUME ThreadsType, NEW t \in Thread,
         NEW l, NEW c, NEW p, NEW i, NEW o, NEW r, Sets(t, l, c, p, i, o, r)
  PROVE  SinkRequest' = [SinkRequest EXCEPT ![t] = RequestOf(l, c, r)]
<1>1. pc'[t] = l /\ call'[t] = c /\ result'[t] = r
  BY LocalStep
<1>2. \A u \in Thread : u # t => pc'[u] = pc[u] /\ call'[u] = call[u] /\ result'[u] = result[u]
  BY LocalStep
<1>3. PICK F : F = SinkRequest
  OBVIOUS
<1>4. PICK G : G = SinkRequest'
  OBVIOUS
<1>5. G[t] = RequestOf(l, c, r)
  BY <1>1, <1>4, RequestIs
<1>6. \A u \in Thread : u # t => G[u] = F[u]
  BY <1>2, <1>3, <1>4, RequestIs
<1>7. F = [u \in Thread |-> F[u]] /\ G = [u \in Thread |-> G[u]]
  <2>1. F = [u \in Thread |-> RequestOf(pc[u], call[u], result[u])]
    BY <1>3, RequestIs
  <2>2. G = [u \in Thread |-> RequestOf(pc'[u], call'[u], result'[u])]
    BY <1>4, RequestIs
  <2>3. QED
    BY <2>1, <2>2
<1>8. G = [F EXCEPT ![t] = RequestOf(l, c, r)]
  BY <1>5, <1>6, <1>7
<1>9. QED
  BY <1>3, <1>4, <1>8

\* A call that ends answers.
LEMMA FinishAnswers ==
  ASSUME TypeInv, NEW t \in Thread, NEW r, Finish(t, r), call' = call
  PROVE  Sink!Answer(t, r)
<1>1. ThreadsType
  BY DEF TypeInv
<1>2. SinkRequest' = [SinkRequest EXCEPT ![t] = RequestOf("return", call[t], r)]
  BY <1>1, FinishSets, RequestStep
<1>3. RequestOf("return", call[t], r) = Sink!Answered(r)
  BY RequestCases
<1>4. QED
  BY <1>2, <1>3 DEF Sink!Answer

\* A call that goes on asks what it asked.
LEMMA GoesOn ==
  ASSUME TypeInv, NEW t \in Thread, pc[t] \notin {"idle", "return"},
         call' = call, result' = result,
         \A u \in Thread : pc'[u] = pc[u] \/ (u = t /\ pc'[u] \notin {"idle", "return"}),
         UNCHANGED <<own, used, pointer>>
  PROVE  UNCHANGED Sink!vars
<1>1. \A u \in Thread : RequestOf(pc'[u], call'[u], result'[u]) = RequestOf(pc[u], call[u], result[u])
  BY RequestCases
<1>2. SinkRequest' = SinkRequest
  BY <1>1, RequestIs
<1>3. QED
  BY <1>2 DEF Sink!vars

LEMMA FailRefines ==
  ASSUME TypeInv, NEW t \in Thread, pc[t] \notin {"idle", "return"},
         Finish(t, Sink!Status("error")), call' = call, UNCHANGED <<own, used, pointer>>
  PROVE  Sink!Fail(t)
<1>1. Sink!Answer(t, Sink!Status("error"))
  BY FinishAnswers
<1>2. SinkRequest[t] = call[t] /\ call[t] \in CallType
  BY RequestAt, InCall
<1>3. SinkRequest[t].op \in {"append", "read", "branch"}
  BY <1>2, CallFields
<1>4. QED
  BY <1>1, <1>3 DEF Sink!Fail

LEMMA CallRefines ==
  ASSUME TypeInv, NEW t \in Thread, Call(t)
  PROVE  Sink!Call(t)
<1>1. PICK c \in CallsOf[t] :
         /\ call' = [call EXCEPT ![t] = c]
         /\ IF c.op = "append" THEN Goto(t, "append") /\ UNCHANGED path
            ELSE /\ Goto(t, "up")
                 /\ path' = [path EXCEPT ![t] = <<[session |-> Uses(c),
                      max |-> IF c.op = "read" THEN c.max ELSE Unlimited]>>]
  BY DEF Call
<1>2. PICK l \in {"append", "up"} : pc' = [pc EXCEPT ![t] = l]
  BY <1>1 DEF Goto
<1>3. PICK p : path' = [path EXCEPT ![t] = p]
  <2>1. UNCHANGED path => path' = [path EXCEPT ![t] = path[t]]
    BY DEF TypeInv, ThreadsType
  <2>2. QED
    BY <1>1, <2>1
<1>4. Sets(t, l, c, p, at[t], out[t], result[t]) /\ ThreadsType
  BY <1>1, <1>2, <1>3 DEF Call, Sets, TypeInv, ThreadsType
<1>5. SinkRequest' = [SinkRequest EXCEPT ![t] = RequestOf(l, c, result[t])]
  BY <1>4, RequestStep
<1>6. RequestOf(l, c, result[t]) = c
  BY <1>2, RequestCases
<1>7. SinkRequest[t] = Sink!Idle /\ UNCHANGED <<own, used, pointer>>
  BY RequestAt DEF Call, files
<1>8. QED
  BY <1>1, <1>5, <1>6, <1>7 DEF Sink!Call

LEMMA AppendRefines ==
  ASSUME TypeInv, NEW t \in Thread, AppendRecord(t) \/ AppendFails(t)
  PROVE  Sink!AppendRecord(t) \/ Sink!Fail(t)
<1>1. pc[t] = "append" /\ pc[t] \notin {"idle", "return"}
      /\ UNCHANGED <<pointer, mutex, call, known>>
  BY DEF AppendRecord, AppendFails
<1>2. SinkRequest[t] = call[t] /\ call[t].op = "append"
  BY <1>1, RequestAt, ThreadFacts DEF Fits
<1>3. CASE AppendRecord(t)
  <2>1. Sink!Answer(t, Sink!Status("ok"))
    BY <1>1, <1>3, FinishAnswers DEF AppendRecord
  <2>2. Sink!AppendRecord(t)
    BY <1>1, <1>2, <1>3, <2>1 DEF AppendRecord, Sink!AppendRecord
  <2>3. QED
    BY <2>2
<1>4. CASE AppendFails(t)
  <2>1. Finish(t, Sink!Status("error"))
    BY <1>4 DEF AppendFails
  <2>2. Sink!Answer(t, Sink!Status("error"))
    BY <1>1, <2>1, FinishAnswers
  <2>3. CASE UNCHANGED <<own, used>>
    BY <1>1, <2>1, <2>3, FailRefines
  <2>4. CASE ~(UNCHANGED <<own, used>>)
    <3>1. /\ used' = used \cup {call[t].session}
          /\ own' = own \/ own' = [own EXCEPT ![call[t].session] = @ + 1]
      BY <1>4, <2>4 DEF AppendFails
    <3>2. Sink!AppendRecord(t)
      BY <1>1, <1>2, <2>2, <3>1 DEF Sink!AppendRecord
    <3>3. QED
      BY <3>2
  <2>5. QED
    BY <2>3, <2>4
<1>5. QED
  BY <1>3, <1>4

\* A read that has come back to its session has seen, in several steps, what the
\* session shows at its last one.
LEMMA ReadRefines ==
  ASSUME BranchInv, NEW t \in Thread, EndRead(t)
  PROVE  Sink!Observe(t)
<1>1. /\ pc[t] = "emit" /\ at[t] = 1 /\ call[t].op = "read" /\ call' = call
      /\ UNCHANGED <<own, used, pointer>> /\ Finish(t, Sink!Records(Emitted(t)))
  BY DEF EndRead, files
<1>2. PICK x : x = path[t][at[t]].session
  OBVIOUS
<1>3. PICK m : m = path[t][at[t]].max
  OBVIOUS
<1>4. /\ Emitted(t) = Sink!First(m, Shown(pointer, own, x))
      /\ x \in Session /\ ~Deep(pointer, x)
  BY <1>1, <1>2, <1>3, EmittedShown
<1>5. path[t][1] = [session |-> Uses(call[t]), max |-> Wanted(call[t])]
  BY <1>1 DEF BranchInv, CallOK, WayOK
<1>6. x = call[t].session /\ m = call[t].max
  BY <1>1, <1>2, <1>3, <1>5 DEF Uses, Wanted
<1>7. ~Sink!TooDeep(x) /\ Sink!View(x) = Shown(pointer, own, x)
  BY <1>4, ViewIsShown
<1>8. SinkRequest[t] = call[t]
  BY <1>1, RequestAt
<1>9. Sink!Answer(t, Sink!Records(Sink!First(m, Sink!View(x))))
  <2>1. Sink!Answer(t, Sink!Records(Emitted(t)))
    BY <1>1, FinishAnswers DEF BranchInv
  <2>2. QED
    BY <1>4, <1>7, <2>1
<1>10. QED
  BY <1>1, <1>6, <1>7, <1>8, <1>9 DEF Sink!Observe

LEMMA ValidateRefines ==
  ASSUME BranchInv, NEW t \in Thread, Validate(t)
  PROVE  Sink!Refuse(t) \/ UNCHANGED Sink!vars
<1>1. /\ pc[t] = "emit" /\ at[t] = 1 /\ call[t].op = "branch" /\ call' = call
      /\ UNCHANGED <<own, used, pointer>>
  BY DEF Validate, files
<1>2. /\ Emitted(t) = Sink!View(call[t].parent) /\ ~Sink!TooDeep(call[t].parent)
  BY <1>1, ParentCounted, ViewIsShown
<1>3. CASE call[t].count > Len(Emitted(t))
  <2>1. Sink!Answer(t, Sink!Status("invalid"))
    BY <1>1, <1>3, FinishAnswers DEF Validate, BranchInv
  <2>2. SinkRequest[t] = call[t]
    BY <1>1, RequestAt
  <2>3. Sink!Refuse(t)
    BY <1>1, <1>2, <1>3, <2>1, <2>2 DEF Sink!Refuse
  <2>4. QED
    BY <2>3
<1>4. CASE ~(call[t].count > Len(Emitted(t)))
  <2>1. pc' = [pc EXCEPT ![t] = "lock"] /\ result' = result
    BY <1>4 DEF Validate, Goto
  <2>2. \A u \in Thread : pc'[u] = pc[u] \/ (u = t /\ pc'[u] \notin {"idle", "return"})
    BY <2>1 DEF BranchInv, TypeInv, ThreadsType
  <2>3. QED
    BY <1>1, <2>1, <2>2, GoesOn DEF BranchInv
<1>5. QED
  BY <1>3, <1>4

LEMMA CheckRefines ==
  ASSUME BranchInv, NEW t \in Thread, TakeMutex(t) \/ CheckUse(t)
  PROVE  Sink!Refuse(t) \/ UNCHANGED Sink!vars
<1>1. /\ pc[t] \in {"lock", "check"} /\ call[t].op = "branch" /\ call' = call
      /\ UNCHANGED <<own, used, pointer>>
  BY ThreadFacts DEF TakeMutex, CheckUse, files, BranchInv, Fits
<1>2. CASE CheckUse(t) /\ InUse(call[t].session)
  <2>1. Sink!Answer(t, Sink!Status("exists"))
    BY <1>1, <1>2, FinishAnswers DEF CheckUse, BranchInv
  <2>2. SinkRequest[t] = call[t]
    BY <1>1, RequestAt
  <2>3. Sink!Refuse(t)
    BY <1>1, <1>2, <2>1, <2>2 DEF Sink!Refuse, Sink!InUse, InUse
  <2>4. QED
    BY <2>3
<1>3. CASE TakeMutex(t) \/ (CheckUse(t) /\ ~InUse(call[t].session))
  <2>1. PICK l \in {"check", "publish"} : pc' = [pc EXCEPT ![t] = l] /\ result' = result
    BY <1>3 DEF TakeMutex, CheckUse, Goto
  <2>2. \A u \in Thread : pc'[u] = pc[u] \/ (u = t /\ pc'[u] \notin {"idle", "return"})
    BY <2>1 DEF BranchInv, TypeInv, ThreadsType
  <2>3. QED
    BY <1>1, <2>1, <2>2, GoesOn DEF BranchInv
<1>4. QED
  BY <1>2, <1>3

LEMMA PublishRefines ==
  ASSUME BranchInv, NEW t \in Thread, Publish(t) \/ PublishFails(t)
  PROVE  Sink!Branch(t) \/ Sink!Refuse(t) \/ Sink!Fail(t)
<1>1. pc[t] = "publish" /\ call' = call /\ own' = own /\ used' = used
  BY DEF Publish, PublishFails, files
<1>2. SinkRequest[t] = call[t]
  BY <1>1, RequestAt
<1>3. /\ call[t].op = "branch" /\ call[t].session \in Session /\ call[t].session \notin Roots
      /\ ~Sink!TooDeep(call[t].parent) /\ call[t].count <= Len(Sink!View(call[t].parent))
  BY <1>1, PublishFacts, ViewIsShown
<1>4. CASE Publish(t)
  <2>1. PICK code \in {"ok", "error"} : Finish(t, Sink!Status(code))
    BY <1>4 DEF Publish
  <2>2. Sink!Answer(t, Sink!Status(code))
    BY <1>1, <2>1, FinishAnswers DEF BranchInv
  <2>3. call[t].session \notin used /\ pointer[call[t].session] = NoBranch
    BY <1>4, Published DEF Publish, BranchInv, FilesOK
  <2>4. pointer' = [pointer EXCEPT ![call[t].session] =
          [parent |-> call[t].parent, count |-> call[t].count]]
    BY <1>4 DEF Publish
  <2>5. Sink!Branch(t)
    BY <1>1, <1>2, <1>3, <2>1, <2>2, <2>3, <2>4 DEF Sink!Branch, Sink!InUse
  <2>6. QED
    BY <2>5
<1>5. CASE PublishFails(t) /\ Finish(t, Sink!Status("error"))
  BY <1>1, <1>5, FailRefines DEF PublishFails, files, BranchInv
<1>6. CASE PublishFails(t) /\ ~Finish(t, Sink!Status("error"))
  <2>1. pointer[call[t].session] # NoBranch /\ Finish(t, Sink!Status("exists")) /\ pointer' = pointer
    BY <1>6 DEF PublishFails, files
  <2>2. Sink!Answer(t, Sink!Status("exists"))
    BY <1>1, <2>1, FinishAnswers DEF BranchInv
  <2>3. Sink!Refuse(t)
    BY <1>1, <1>2, <1>3, <2>1, <2>2 DEF Sink!Refuse, Sink!InUse
  <2>4. QED
    BY <2>3
<1>7. QED
  BY <1>4, <1>5, <1>6

LEMMA ReturnRefines ==
  ASSUME TypeInv, NEW t \in Thread, Return(t)
  PROVE  Sink!Return(t)
<1>1. PICK r : r = Sink!Status("none")
  OBVIOUS
<1>2. Sets(t, "idle", NoCall, path[t], at[t], out[t], r) /\ ThreadsType
  BY <1>1 DEF Return, reading, Sets, Goto, TypeInv, ThreadsType
<1>3. SinkRequest' = [SinkRequest EXCEPT ![t] = RequestOf("idle", NoCall, r)]
  BY <1>2, RequestStep
<1>4. RequestOf("idle", NoCall, r) = Sink!Idle
  BY RequestCases
<1>5. SinkRequest[t] = Sink!Answered(result[t]) /\ UNCHANGED <<own, used, pointer>>
  BY RequestAt DEF Return, files
<1>6. SinkRequest[t].op = "answered"
  BY <1>5 DEF Sink!Answered
<1>7. QED
  BY <1>3, <1>4, <1>5, <1>6 DEF Sink!Return

LEMMA CrashRefines ==
  ASSUME NEW p \in Process, Crash(p)
  PROVE  Sink!Die
<1>1. PICK Dead \in SUBSET Thread : Dead = {t \in Thread : ProcessOf[t] = p}
  OBVIOUS
<1>2. PICK r : r = Sink!Status("none")
  OBVIOUS
<1>3. \A u \in Thread :
        RequestOf(pc'[u], call'[u], result'[u])
          = IF u \in Dead THEN Sink!Idle ELSE RequestOf(pc[u], call[u], result[u])
  <2>1. ASSUME NEW u \in Dead PROVE RequestOf(pc'[u], call'[u], result'[u]) = Sink!Idle
    <3>1. pc'[u] = "idle"
      BY <1>1 DEF Crash
    <3>2. QED
      BY <3>1, RequestCases
  <2>2. ASSUME NEW u \in Thread, u \notin Dead
        PROVE  RequestOf(pc'[u], call'[u], result'[u]) = RequestOf(pc[u], call[u], result[u])
    <3>1. pc'[u] = pc[u] /\ call'[u] = call[u] /\ result'[u] = result[u]
      BY <1>1, <2>2 DEF Crash
    <3>2. QED
      BY <3>1
  <2>3. QED
    BY <2>1, <2>2
<1>4. SinkRequest' = [u \in Thread |-> IF u \in Dead THEN Sink!Idle ELSE SinkRequest[u]]
  BY <1>3, RequestIs
<1>5. UNCHANGED <<own, used, pointer>>
  BY DEF Crash, files
<1>6. QED
  BY <1>1, <1>4, <1>5 DEF Sink!Die

LEMMA ThreadRefines ==
  ASSUME BranchInv, NEW t \in Thread, Step(t)
  PROVE  Sink!Next \/ UNCHANGED Sink!vars
<1>0. TypeInv
  BY DEF BranchInv
<1>1. CASE AppendRecord(t) \/ AppendFails(t)
  BY <1>0, <1>1, AppendRefines DEF Sink!Next
<1>2. CASE ToParent(t) \/ ToRecords(t) \/ EmitOf(t)
  <2>1. /\ pc[t] \in {"up", "emit"} /\ UNCHANGED <<own, used, pointer>>
        /\ call' = call /\ result' = result
        /\ pc' = pc \/ pc' = [pc EXCEPT ![t] = "emit"]
    BY <1>2 DEF ToParent, ToRecords, EmitOf, files, Goto
  <2>2. \A u \in Thread : pc'[u] = pc[u] \/ (u = t /\ pc'[u] \notin {"idle", "return"})
    BY <1>0, <2>1 DEF TypeInv, ThreadsType
  <2>3. QED
    BY <1>0, <2>1, <2>2, GoesOn
<1>3. CASE TooDeep(t) \/ ReadFails(t)
  <2>1. /\ pc[t] \in {"up", "emit"} /\ UNCHANGED <<own, used, pointer>> /\ call' = call
        /\ Finish(t, Sink!Status("error"))
    BY <1>3 DEF TooDeep, ReadFails, files
  <2>2. QED
    BY <1>0, <2>1, FailRefines DEF Sink!Next
<1>4. CASE EndRead(t)
  BY <1>4, ReadRefines DEF Sink!Next
<1>5. CASE Validate(t)
  BY <1>5, ValidateRefines DEF Sink!Next
<1>6. CASE TakeMutex(t) \/ CheckUse(t)
  BY <1>6, CheckRefines DEF Sink!Next
<1>7. CASE Publish(t) \/ PublishFails(t)
  BY <1>7, PublishRefines DEF Sink!Next
<1>8. CASE Return(t)
  BY <1>0, <1>8, ReturnRefines DEF Sink!Next
<1>9. QED
  BY <1>1, <1>2, <1>3, <1>4, <1>5, <1>6, <1>7, <1>8 DEF Step

LEMMA BranchInitRefines == Init => Sink!Init
<1> SUFFICES ASSUME Init PROVE Sink!Init
  OBVIOUS
<1>1. \A t \in Thread : RequestOf(pc[t], call[t], result[t]) = Sink!Idle
  BY RequestCases DEF Init
<1>2. SinkRequest = [t \in Thread |-> Sink!Idle]
  BY <1>1, RequestIs
<1>3. QED
  BY <1>2 DEF Init, Sink!Init

\* Reads and creations, whose steps go from pointer to pointer and from log to log
\* under no lock, act at one instant each, whoever appends and creates meanwhile.
THEOREM BranchesImplementSink == Disciplined /\ Spec => ImplementsBranchSink
<1>1. ASSUME BranchInv, [Next]_vars PROVE Sink!Next \/ UNCHANGED Sink!vars
  <2>1. CASE UNCHANGED vars
    <3>1. SinkRequest' = SinkRequest
      BY <2>1, RequestIs DEF vars
    <3>2. QED
      BY <2>1, <3>1 DEF vars, Sink!vars
  <2>2. ASSUME NEW t \in Thread, Call(t) PROVE Sink!Next
    BY <1>1, <2>2, CallRefines DEF BranchInv, Sink!Next
  <2>3. ASSUME NEW t \in Thread, Step(t) PROVE Sink!Next \/ UNCHANGED Sink!vars
    BY <1>1, <2>3, ThreadRefines
  <2>4. ASSUME NEW p \in Process, Crash(p) PROVE Sink!Next
    BY <2>4, CrashRefines DEF Sink!Next
  <2>5. QED
    BY <1>1, <2>1, <2>2, <2>3, <2>4 DEF Next
<1>2. BranchInv /\ [Next]_vars => [Sink!Next]_(Sink!vars)
  BY <1>1
<1>3. QED
  BY <1>2, BranchInitRefines, BranchHolds, PTL DEF ImplementsBranchSink, Sink!Spec, Spec

-----------------------------------------------------------------------------
(***************************************************************************)
(* The caches of EventSourcedLog never show: the object implements         *)
(* EventSink.                                                              *)
(***************************************************************************)

\* A prefix of a log is a prefix of it with one more event.
LEMMA PrefixOfLonger ==
  ASSUME NEW S, NEW s \in Seq(S), NEW e \in S, NEW n \in 0..Len(s)
  PROVE  SubSeq(Append(s, e), 1, n) = SubSeq(s, 1, n)
BY AppendProperties, SubSeqProperties

\* A log is its own longest prefix.
LEMMA WholePrefix ==
  ASSUME NEW S, NEW s \in Seq(S)
  PROVE  SubSeq(s, 1, Len(s)) = s
BY SubSeqProperties, LenProperties

\* Parts of a log are sequences of events.
LEMMA PartType ==
  ASSUME NEW S, NEW s \in Seq(S), NEW m \in Nat, NEW n \in Nat, n <= Len(s)
  PROVE  SubSeq(s, m + 1, n) \in Seq(S)
BY SubSeqProperties, LenProperties, ElementOfSeq

\* A part that ends before it begins is empty.
LEMMA EmptyPart ==
  ASSUME NEW S, NEW s \in Seq(S), NEW m \in Nat, NEW n \in Nat, n <= m
  PROVE  SubSeq(s, m + 1, n) = <<>>
BY SubSeqProperties

CacheType == [loaded : BOOLEAN, key : Nat, value : Seq(Event)]

-----------------------------------------------------------------------------
(* Types and the mutex *)

LEMMA LogCallFields ==
  ASSUME NEW c \in LogCall
  PROVE  /\ c.op \in {"append", "load", "range"}
         /\ c.op = "append" => c.payload \in Event
         /\ c.op = "load" => c.cache \in Caches /\ c.from \in Nat
         /\ c.op = "range" => c.from \in Nat /\ c.to \in Nat
BY DEF LogCall

LEMMA NoLogCallType == NoLogCall \in LogCall
<1>1. NoLogCall \in [op : {"range"}, from : Nat, to : Nat]
  BY DEF NoLogCall, RangeOf
<1>2. QED
  BY <1>1 DEF LogCall

LEMMA LogInitType == LogInit => LogTypeOK
<1> SUFFICES ASSUME LogInit PROVE LogTypeOK
  OBVIOUS
<1>1. <<>> \in Seq(Event) /\ Len(<<>>) = 0
  BY EmptySeq
<1>2. NoLogCall \in LogCall
  BY NoLogCallType
<1>3. Empty \in CacheType /\ Records(<<>>) \in [ok : BOOLEAN, value : Seq(Event)]
  BY <1>1 DEF Empty, Records, CacheType
<1>4. \A t \in Caller : ~Inside(t) /\ object_mutex[ObjectOf[t]] # t
  BY ObjectsAssumption DEF LogInit, Inside
<1>5. QED
  BY <1>1, <1>2, <1>3, <1>4, BoundAssumption DEF LogInit, LogTypeOK, CacheType

\* A call that returns: what it leaves of the types is what it answers with.
LEMMA LeaveKeepsType ==
  ASSUME LogTypeOK, NEW t \in Caller, Inside(t),
         NEW r \in [ok : BOOLEAN, value : Seq(Event)], Leave(t, r),
         log' = log, cache' \in [Object -> [Caches -> CacheType]]
  PROVE  LogTypeOK'
<1>1. NoLogCall \in LogCall
  BY NoLogCallType
<1>2. /\ object_mutex' \in [Object -> Caller \cup {"free"}]
      /\ place' \in [Caller -> {"idle", "lock", "sink", "appended", "probe", "read"}]
      /\ asked' \in [Caller -> LogCall]
      /\ token' \in [Caller -> Nat]
      /\ reply' \in [Caller -> [ok : BOOLEAN, value : Seq(Event)]]
  BY <1>1, ObjectsAssumption DEF LogTypeOK, Leave
<1>3. ASSUME NEW u \in Caller
      PROVE  /\ Inside(u)' <=> object_mutex'[ObjectOf[u]] = u
             /\ place'[u] \in {"probe", "read"} => asked'[u].op = "load"
             /\ place'[u] = "sink" => asked'[u].op # "load"
             /\ place'[u] = "appended" => asked'[u].op = "append"
  <2>1. CASE u = t
    <3>1. place'[u] = "idle"
      BY <2>1 DEF LogTypeOK, Leave
    <3>2. object_mutex'[ObjectOf[u]] = "free"
      BY <2>1, ObjectsAssumption DEF LogTypeOK, Leave
    <3>3. u # "free"
      BY ObjectsAssumption
    <3>4. QED
      BY <3>1, <3>2, <3>3 DEF Inside
  <2>2. CASE u # t
    <3>1. place'[u] = place[u] /\ asked'[u] = asked[u]
      BY <2>2 DEF LogTypeOK, Leave
    <3>2. ObjectOf[u] # ObjectOf[t] => object_mutex'[ObjectOf[u]] = object_mutex[ObjectOf[u]]
      BY ObjectsAssumption DEF LogTypeOK, Leave
    <3>3. ObjectOf[u] = ObjectOf[t] => object_mutex[ObjectOf[u]] = t /\ object_mutex'[ObjectOf[u]] = "free"
      BY ObjectsAssumption DEF LogTypeOK, Leave
    <3>4. QED
      BY <2>2, <3>1, <3>2, <3>3, ObjectsAssumption DEF LogTypeOK, Inside
  <2>3. QED
    BY <2>1, <2>2
<1>4. QED
  BY <1>2, <1>3 DEF LogTypeOK, CacheType

\* A step of a thread inside a call that keeps its mutex.
LEMMA StayKeepsType ==
  ASSUME LogTypeOK, NEW t \in Caller, Inside(t),
         NEW s \in {"appended", "read"}, place' = [place EXCEPT ![t] = s],
         s = "appended" => asked[t].op = "append",
         s = "read" => asked[t].op = "load",
         log' \in Seq(Event), Len(log') <= MaxEvents, token' \in [Caller -> Nat],
         UNCHANGED <<object_mutex, cache, asked, reply>>
  PROVE  LogTypeOK'
<1>1. place' \in [Caller -> {"idle", "lock", "sink", "appended", "probe", "read"}]
  BY DEF LogTypeOK
<1>2. ASSUME NEW u \in Caller
      PROVE  /\ Inside(u)' <=> object_mutex'[ObjectOf[u]] = u
             /\ place'[u] \in {"probe", "read"} => asked'[u].op = "load"
             /\ place'[u] = "sink" => asked'[u].op # "load"
             /\ place'[u] = "appended" => asked'[u].op = "append"
  <2>1. CASE u = t
    BY <2>1 DEF LogTypeOK, Inside
  <2>2. CASE u # t
    BY <2>2 DEF LogTypeOK, Inside
  <2>3. QED
    BY <2>1, <2>2
<1>3. QED
  BY <1>1, <1>2 DEF LogTypeOK

LEMMA ReplyType ==
  ASSUME NEW v \in Seq(Event)
  PROVE  Records(v) \in [ok : BOOLEAN, value : Seq(Event)]
BY DEF Records

LEMMA ErrorType == Error \in [ok : BOOLEAN, value : Seq(Event)]
BY EmptySeq DEF Error

LEMMA CutType ==
  ASSUME NEW s \in Seq(Event), NEW n \in Nat
  PROVE  Cut(s, n) \in Seq(Event)
BY PartType, LenProperties DEF Cut

\* A thread that is not waiting at its next step is inside its call.
LEMMA LogStepType ==
  ASSUME LogTypeOK, NEW t \in Caller, LogStep(t)
  PROVE  LogTypeOK'
<1>1. CASE Lock(t)
  <2> DEFINE next == IF asked[t].op = "load" THEN "probe" ELSE "sink"
  <2>1. place' = [place EXCEPT ![t] = next]
    BY <1>1 DEF Lock
  <2>2. next \in {"probe", "sink"} /\ (next = "probe" <=> asked[t].op = "load")
    OBVIOUS
  <2> HIDE DEF next
  <2>3. /\ object_mutex' = [object_mutex EXCEPT ![ObjectOf[t]] = t] /\ object_mutex[ObjectOf[t]] = "free"
        /\ UNCHANGED <<log, cache, asked, token, reply>>
    BY <1>1 DEF Lock
  <2>4. object_mutex' \in [Object -> Caller \cup {"free"}]
    BY <2>3, ObjectsAssumption DEF LogTypeOK
  <2>5. place' \in [Caller -> {"idle", "lock", "sink", "appended", "probe", "read"}]
    BY <2>1, <2>2 DEF LogTypeOK
  <2>6. ASSUME NEW u \in Caller
        PROVE  /\ Inside(u)' <=> object_mutex'[ObjectOf[u]] = u
               /\ place'[u] \in {"probe", "read"} => asked'[u].op = "load"
               /\ place'[u] = "sink" => asked'[u].op # "load"
               /\ place'[u] = "appended" => asked'[u].op = "append"
    <3>1. CASE u = t
      <4>1. object_mutex'[ObjectOf[u]] = u /\ asked' = asked
        BY <2>3, <3>1, ObjectsAssumption DEF LogTypeOK
      <4>2. place'[u] = next
        BY <2>1, <3>1 DEF LogTypeOK
      <4>3. QED
        BY <2>2, <3>1, <4>1, <4>2 DEF Inside
    <3>2. CASE u # t
      <4>1. place'[u] = place[u] /\ asked' = asked
        BY <2>1, <2>3, <3>2 DEF LogTypeOK
      <4>2. object_mutex'[ObjectOf[u]] = u <=> object_mutex[ObjectOf[u]] = u
        BY <2>3, <3>2, ObjectsAssumption DEF LogTypeOK
      <4>3. QED
        BY <4>1, <4>2 DEF LogTypeOK, Inside
    <3>3. QED
      BY <3>1, <3>2
  <2>7. QED
    BY <2>3, <2>4, <2>5, <2>6 DEF LogTypeOK
<1>2. CASE SinkAppend(t)
  <2>1. Inside(t)
    BY <1>2 DEF SinkAppend, Inside
  <2>2. asked[t].payload \in Event
    BY <1>2, LogCallFields DEF SinkAppend, LogTypeOK
  <2>3. log' \in Seq(Event) /\ Len(log') <= MaxEvents
    BY <1>2, <2>2, AppendProperties, LenProperties, BoundAssumption DEF SinkAppend, LogTypeOK
  <2>4. /\ place' = [place EXCEPT ![t] = "appended"] /\ asked[t].op = "append"
        /\ UNCHANGED <<object_mutex, cache, asked, token, reply>>
    BY <1>2 DEF SinkAppend
  <2>5. token' \in [Caller -> Nat]
    BY <2>4 DEF LogTypeOK
  <2>6. QED
    BY <2>1, <2>3, <2>4, <2>5, StayKeepsType
<1>3. CASE DropCaches(t)
  <2>1. Inside(t)
    BY <1>3 DEF DropCaches, Inside
  <2>2. [k \in Caches |-> Empty] \in [Caches -> CacheType]
    BY EmptySeq DEF Empty, CacheType
  <2>3. cache' \in [Object -> [Caches -> CacheType]]
    BY <1>3, <2>2, ObjectsAssumption DEF DropCaches, LogTypeOK, CacheType
  <2>4. Records(<<>>) \in [ok : BOOLEAN, value : Seq(Event)]
    BY EmptySeq, ReplyType
  <2>5. Leave(t, Records(<<>>)) /\ log' = log
    BY <1>3 DEF DropCaches
  <2>6. QED
    BY <2>1, <2>3, <2>4, <2>5, LeaveKeepsType
<1>4. CASE SinkAppendFails(t) \/ LoadFails(t)
  <2>1. Inside(t)
    BY <1>4 DEF SinkAppendFails, LoadFails, Inside
  <2>2. Leave(t, Error) /\ log' = log /\ cache' = cache
    BY <1>4 DEF SinkAppendFails, LoadFails
  <2>3. cache' \in [Object -> [Caches -> CacheType]]
    BY <2>2 DEF LogTypeOK, CacheType
  <2>4. QED
    BY <2>1, <2>2, <2>3, ErrorType, LeaveKeepsType
<1>5. CASE ProbeHit(t)
  <2>1. Inside(t) /\ asked[t].op = "load"
    BY <1>5 DEF ProbeHit, Inside, LogTypeOK
  <2>2. Cached(t) \in CacheType /\ asked[t].from \in Nat
    BY <2>1, LogCallFields, ObjectsAssumption DEF Cached, LogTypeOK, CacheType
  <2>3. Cut(Cached(t).value, asked[t].from) \in Seq(Event)
    BY <2>2, CutType DEF CacheType
  <2>4. /\ Leave(t, Records(Cut(Cached(t).value, asked[t].from)))
        /\ log' = log /\ cache' = cache
    BY <1>5 DEF ProbeHit
  <2>5. cache' \in [Object -> [Caches -> CacheType]]
    BY <2>4 DEF LogTypeOK, CacheType
  <2>6. QED
    BY <2>1, <2>3, <2>4, <2>5, ReplyType, LeaveKeepsType
<1>6. CASE ProbeMiss(t)
  <2>1. Inside(t) /\ asked[t].op = "load"
    BY <1>6 DEF ProbeMiss, Inside, LogTypeOK
  <2>2. token' \in [Caller -> Nat]
    BY <1>6, LenProperties DEF ProbeMiss, LogTypeOK, Token
  <2>3. /\ place' = [place EXCEPT ![t] = "read"]
        /\ UNCHANGED <<log, object_mutex, cache, asked, reply>>
    BY <1>6 DEF ProbeMiss
  <2>4. log' \in Seq(Event) /\ Len(log') <= MaxEvents
    BY <2>3 DEF LogTypeOK
  <2>5. QED
    BY <2>1, <2>2, <2>3, <2>4, StayKeepsType
<1>7. CASE Read(t)
  <2>1. Inside(t) /\ asked[t].op = "load"
    BY <1>7 DEF Read, Inside, LogTypeOK
  <2>2. asked[t].cache \in Caches /\ asked[t].from \in Nat
    BY <2>1, LogCallFields DEF LogTypeOK
  <2>3. KeyOf(t) \in Nat /\ log \in Seq(Event)
    BY LenProperties DEF KeyOf, Token, LogTypeOK
  <2>4. cache' \in [Object -> [Caches -> CacheType]]
    BY <1>7, <2>2, <2>3, ObjectsAssumption DEF Read, LogTypeOK, CacheType
  <2>5. Records(Cut(log, asked[t].from)) \in [ok : BOOLEAN, value : Seq(Event)]
    BY <2>2, <2>3, CutType, ReplyType
  <2>6. Leave(t, Records(Cut(log, asked[t].from))) /\ log' = log
    BY <1>7 DEF Read
  <2>7. QED
    BY <2>1, <2>4, <2>5, <2>6, LeaveKeepsType
<1>8. CASE ReadRange(t)
  <2> DEFINE c == asked[t]
             inside == InLog(c.from, c.to)
             r == IF inside THEN Records(SubSeq(log, c.from + 1, c.to)) ELSE Error
  <2>1. Inside(t) /\ c \in LogCall /\ c.op = "range"
    BY <1>8 DEF ReadRange, Inside, LogTypeOK
  <2>2. c.from \in Nat /\ c.to \in Nat /\ log \in Seq(Event)
    BY <2>1, LogCallFields DEF LogTypeOK
  <2>3. inside => SubSeq(log, c.from + 1, c.to) \in Seq(Event)
    <3>1. CASE c.from = c.to
      BY <2>2, <3>1, EmptyPart, EmptySeq
    <3>2. CASE c.from # c.to
      BY <2>2, <3>2, PartType DEF InLog
    <3>3. QED
      BY <3>1, <3>2
  <2>4. r \in [ok : BOOLEAN, value : Seq(Event)]
    BY <2>3, ReplyType, ErrorType
  <2>5. Leave(t, r) /\ log' = log /\ cache' = cache
    BY <1>8 DEF ReadRange
  <2>6. cache' \in [Object -> [Caches -> CacheType]]
    BY <2>5 DEF LogTypeOK, CacheType
  <2> HIDE DEF r
  <2>7. QED
    BY <2>1, <2>4, <2>5, <2>6, LeaveKeepsType
<1>9. QED
  BY <1>1, <1>2, <1>3, <1>4, <1>5, <1>6, <1>7, <1>8 DEF LogStep

LEMMA LogNextType == LogTypeOK /\ [LogNext]_log_vars => LogTypeOK'
<1> SUFFICES ASSUME LogTypeOK, [LogNext]_log_vars PROVE LogTypeOK'
  OBVIOUS
<1>1. CASE UNCHANGED log_vars
  BY <1>1 DEF log_vars, LogTypeOK, Inside
<1>2. ASSUME NEW t \in Caller, Enter(t) PROVE LogTypeOK'
  <2>1. PICK c \in CallerCalls[t] : asked' = [asked EXCEPT ![t] = c]
    BY <1>2 DEF Enter
  <2>2. c \in LogCall
    BY CallersAssumption
  <2>3. asked' \in [Caller -> LogCall]
    BY <2>1, <2>2 DEF LogTypeOK
  <2>4. place' \in [Caller -> {"idle", "lock", "sink", "appended", "probe", "read"}]
    BY <1>2 DEF Enter, LogTypeOK
  <2>5. ASSUME NEW u \in Caller
        PROVE  /\ Inside(u)' <=> object_mutex'[ObjectOf[u]] = u
               /\ place'[u] \in {"probe", "read"} => asked'[u].op = "load"
               /\ place'[u] = "sink" => asked'[u].op # "load"
               /\ place'[u] = "appended" => asked'[u].op = "append"
    <3>1. CASE u = t
      BY <1>2, <3>1 DEF Enter, LogTypeOK, Inside
    <3>2. CASE u # t
      BY <1>2, <2>1, <3>2 DEF Enter, LogTypeOK, Inside
    <3>3. QED
      BY <3>1, <3>2
  <2>6. UNCHANGED <<log, object_mutex, cache, token, reply>>
    BY <1>2 DEF Enter
  <2>7. QED
    BY <2>3, <2>4, <2>5, <2>6 DEF LogTypeOK
<1>3. QED
  BY <1>1, <1>2, LogStepType DEF LogNext

-----------------------------------------------------------------------------
(* The caches *)

\* What a cache covers it still covers when the log has grown.
LEMMA CoversLonger ==
  ASSUME LogTypeOK, NEW c \in CacheType, Covers(c),
         log' = log \/ \E e \in Event : log' = Append(log, e)
  PROVE  Covers(c)'
<1>1. CASE log' = log
  BY <1>1 DEF Covers
<1>2. ASSUME NEW e \in Event, log' = Append(log, e) PROVE Covers(c)'
  <2>1. log \in Seq(Event) /\ c.value \in Seq(Event) /\ c.key \in Nat
    BY DEF LogTypeOK, CacheType
  <2>2. Len(c.value) \in 0..Len(log) /\ Len(log') = Len(log) + 1
    BY <1>2, <2>1, LenProperties, AppendProperties DEF Covers
  <2>3. SubSeq(log', 1, Len(c.value)) = SubSeq(log, 1, Len(c.value))
    BY <1>2, <2>1, <2>2, PrefixOfLonger
  <2>4. QED
    BY <2>1, <2>2, <2>3, LenProperties DEF Covers
<1>3. QED
  BY <1>1, <1>2

\* What a step does to the log, to the caches and to the tokens in hand.
LEMMA LogGrows ==
  ASSUME LogTypeOK, [LogNext]_log_vars
  PROVE  log' = log \/ \E e \in Event : log' = Append(log, e)
<1>1. ASSUME NEW t \in Caller, SinkAppend(t) PROVE \E e \in Event : log' = Append(log, e)
  BY <1>1, LogCallFields DEF SinkAppend, LogTypeOK
<1>2. ASSUME NEW t \in Caller, LogStep(t), ~SinkAppend(t) PROVE log' = log
  BY <1>2 DEF LogStep, Lock, DropCaches, SinkAppendFails, ProbeHit, ProbeMiss, Read,
     LoadFails, ReadRange
<1>3. QED
  BY <1>1, <1>2 DEF LogNext, Enter, log_vars

LEMMA CachesChange ==
  ASSUME LogTypeOK, [LogNext]_log_vars, NEW o \in Object, NEW k \in Caches
  PROVE  \/ cache'[o][k] = cache[o][k]
         \/ ~cache'[o][k].loaded
         \/ \E t \in Caller :
              /\ place[t] = "read" /\ log' = log
              /\ cache'[o][k] = [loaded |-> TRUE, key |-> KeyOf(t), value |-> log]
<1>1. ASSUME NEW t \in Caller, DropCaches(t)
      PROVE  cache'[o][k] = cache[o][k] \/ ~cache'[o][k].loaded
  <2>1. cache' = [cache EXCEPT ![ObjectOf[t]] = [i \in Caches |-> Empty]]
    BY <1>1 DEF DropCaches
  <2>2. CASE o = ObjectOf[t]
    BY <2>1, <2>2 DEF LogTypeOK, Empty
  <2>3. CASE o # ObjectOf[t]
    BY <2>1, <2>3 DEF LogTypeOK
  <2>4. QED
    BY <2>2, <2>3
<1>2. ASSUME NEW t \in Caller, Read(t)
      PROVE  \/ cache'[o][k] = cache[o][k]
             \/ /\ place[t] = "read" /\ log' = log
                /\ cache'[o][k] = [loaded |-> TRUE, key |-> KeyOf(t), value |-> log]
  BY <1>2 DEF Read, LogTypeOK
<1>3. ASSUME NEW t \in Caller, LogStep(t), ~DropCaches(t), ~Read(t) PROVE cache' = cache
  BY <1>3 DEF LogStep, Lock, SinkAppend, SinkAppendFails, ProbeHit, ProbeMiss,
     LoadFails, ReadRange
<1>4. QED
  BY <1>1, <1>2, <1>3 DEF LogNext, Enter, log_vars

LEMMA TokensChange ==
  ASSUME LogTypeOK, [LogNext]_log_vars, NEW t \in Caller, place'[t] = "read"
  PROVE  (place[t] = "read" /\ token'[t] = token[t]) \/ token'[t] = Len(log)
<1>1. CASE UNCHANGED log_vars
  BY <1>1 DEF log_vars
<1>2. ASSUME NEW u \in Caller, Enter(u) PROVE place[t] = "read" /\ token'[t] = token[t]
  BY <1>2 DEF Enter, LogTypeOK
<1>3. ASSUME NEW u \in Caller, Lock(u) \/ SinkAppend(u)
      PROVE  place[t] = "read" /\ token'[t] = token[t]
  <2>1. token' = token /\ \E s \in {"probe", "sink", "appended"} : place' = [place EXCEPT ![u] = s]
    BY <1>3 DEF Lock, SinkAppend
  <2>2. QED
    BY <2>1 DEF LogTypeOK
<1>4. ASSUME NEW u \in Caller, ProbeMiss(u)
      PROVE  (place[t] = "read" /\ token'[t] = token[t]) \/ token'[t] = Len(log)
  BY <1>4 DEF ProbeMiss, LogTypeOK, Token
<1>5. ASSUME NEW u \in Caller, NEW r, Leave(u, r)
      PROVE  place[t] = "read" /\ token'[t] = token[t]
  BY <1>5 DEF Leave, LogTypeOK
<1>6. ASSUME NEW u \in Caller, DropCaches(u) \/ SinkAppendFails(u) \/ ProbeHit(u)
               \/ Read(u) \/ LoadFails(u) \/ ReadRange(u)
      PROVE  \E r : Leave(u, r)
  BY <1>6 DEF DropCaches, SinkAppendFails, ProbeHit, Read, LoadFails, ReadRange
<1>7. QED
  BY <1>1, <1>2, <1>3, <1>4, <1>5, <1>6 DEF LogNext, LogStep

LEMMA NextCovers == LogTypeOK /\ CacheCovers /\ [LogNext]_log_vars => CacheCovers'
<1> SUFFICES ASSUME LogTypeOK, CacheCovers, [LogNext]_log_vars PROVE CacheCovers'
  OBVIOUS
<1>0. LogTypeOK' /\ Len(log) \in Nat /\ Len(log) <= Len(log') /\ Len(log') \in Nat
  <2>1. LogTypeOK'
    BY LogNextType
  <2>2. log \in Seq(Event)
    BY DEF LogTypeOK
  <2>3. QED
    BY <2>1, <2>2, LogGrows, AppendProperties, LenProperties
<1>1. ASSUME NEW o \in Object, NEW k \in Caches, cache'[o][k].loaded
      PROVE  Covers(cache[o][k])'
  <2>1. CASE cache'[o][k] = cache[o][k]
    <3>1. cache[o][k] \in CacheType /\ Covers(cache[o][k])
      BY <1>1, <2>1 DEF LogTypeOK, CacheType, CacheCovers
    <3> DEFINE c == cache[o][k]
    <3>2. Covers(cache[o][k])' <=> /\ Len(cache[o][k].value) <= Len(log')
                                   /\ cache[o][k].value = SubSeq(log', 1, Len(cache[o][k].value))
                                   /\ cache[o][k].key <= Len(cache[o][k].value)
      BY <2>1 DEF Covers
    <3>3. ASSUME NEW d \in CacheType, Covers(d)
          PROVE  /\ Len(d.value) <= Len(log')
                 /\ d.value = SubSeq(log', 1, Len(d.value))
                 /\ d.key <= Len(d.value)
      <4>1. Covers(d)'
        BY <3>3, CoversLonger, LogGrows
      <4>2. QED
        BY <4>1 DEF Covers
    <3>4. QED
      BY <3>1, <3>2, <3>3
  <2>2. ASSUME NEW t \in Caller, place[t] = "read", log' = log,
               cache'[o][k] = [loaded |-> TRUE, key |-> KeyOf(t), value |-> log]
        PROVE  Covers(cache[o][k])'
    <3>1. token[t] <= Len(log) /\ token[t] \in Nat /\ log \in Seq(Event)
      BY <2>2 DEF CacheCovers, LogTypeOK
    <3>2. KeyOf(t) <= Len(log) /\ Len(log) <= Len(log)
      BY <1>0, <3>1 DEF KeyOf, Token
    <3>3. log = SubSeq(log, 1, Len(log))
      BY <3>1, WholePrefix
    <3>4. QED
      BY <2>2, <3>2, <3>3 DEF Covers
  <2>3. QED
    BY <1>1, <2>1, <2>2, CachesChange
<1>2. ASSUME NEW t \in Caller, place'[t] = "read" PROVE token'[t] <= Len(log')
  <2>1. CASE place[t] = "read" /\ token'[t] = token[t]
    <3>1. token[t] <= Len(log) /\ token[t] \in Nat
      BY <2>1 DEF CacheCovers, LogTypeOK
    <3>2. QED
      BY <1>0, <2>1, <3>1
  <2>2. CASE token'[t] = Len(log)
    BY <1>0, <2>2
  <2>3. QED
    BY <1>2, <2>1, <2>2, TokensChange
<1>3. QED
  BY <1>1, <1>2 DEF CacheCovers

\* A cache stored under the log's own token holds the log: its value is a
\* prefix no shorter than the key.
LEMMA TransparentFromCovers == LogTypeOK /\ CacheCovers => CacheTransparent
<1> SUFFICES ASSUME LogTypeOK, CacheCovers, NEW t \in Caller, place[t] = "probe",
                    Hit(t, Token(log))
             PROVE  Cached(t).value = log
  BY DEF CacheTransparent
<1>1. asked[t].cache \in Caches /\ ObjectOf[t] \in Object
  BY LogCallFields, ObjectsAssumption DEF LogTypeOK
<1>2. Cached(t) \in CacheType /\ Covers(Cached(t)) /\ Cached(t).key = Len(log)
  BY <1>1 DEF Cached, Hit, Token, LogTypeOK, CacheType, CacheCovers
<1>3. log \in Seq(Event) /\ Cached(t).value \in Seq(Event)
  BY <1>2 DEF LogTypeOK, CacheType
<1>4. Len(Cached(t).value) = Len(log)
  BY <1>2, <1>3, LenProperties DEF Covers
<1>5. QED
  BY <1>2, <1>3, <1>4, WholePrefix DEF Covers

LEMMA InitCovers == LogInit => CacheCovers
BY DEF LogInit, CacheCovers, Empty

\* The types of the variables, and the mutex that covers a call from the probe
\* to the store of the cache.
THEOREM CacheTypeCorrect == LogSpec => []LogTypeOK
<1>1. QED
  BY LogInitType, LogNextType, PTL DEF LogSpec

\* Whatever a call would be answered from a cache is what the sink holds at
\* that moment, however many processes append meanwhile.
THEOREM CachesDoNotShow == LogSpec => []CacheTransparent
<1> DEFINE IInv == LogTypeOK /\ CacheCovers
<1>1. LogInit => IInv
  BY LogInitType, InitCovers
<1>2. IInv /\ [LogNext]_log_vars => IInv'
  BY LogNextType, NextCovers
<1>3. IInv => CacheTransparent
  BY TransparentFromCovers
<1>4. QED
  BY <1>1, <1>2, <1>3, PTL DEF LogSpec

-----------------------------------------------------------------------------
(* The refinement *)

\* What a caller waits for, by where it is in its call.
LEMMA LogRequestAt ==
  ASSUME LogTypeOK, NEW t \in Caller
  PROVE  /\ place[t] = "idle" => LogSinkRequest[t] = LogSink!Idle
         /\ place[t] = "appended" => LogSinkRequest[t] = LogSink!Effect(<<>>)
         /\ place[t] \in {"lock", "sink", "probe", "read"} =>
              LogSinkRequest[t] = SinkCall(asked[t])
BY DEF LogSinkRequest, LogSink!Idle, LogSink!Effect

LEMMA SinkCallOp ==
  ASSUME NEW c \in LogCall
  PROVE  /\ c.op = "append" => SinkCall(c) = c
         /\ c.op = "load" =>
              SinkCall(c) = [op |-> "read", from |-> c.from, max |-> MaxEvents]
         /\ c.op = "range" =>
              SinkCall(c) = [op |-> "read", from |-> c.from, max |-> c.to]
         /\ SinkCall(c).op \in {"append", "read"}
<1>1. /\ c.op = "append" => SinkCall(c) = c
      /\ c.op = "load" =>
           SinkCall(c) = [op |-> "read", from |-> c.from, max |-> MaxEvents]
      /\ c.op = "range" =>
           SinkCall(c) = [op |-> "read", from |-> c.from, max |-> c.to]
  BY DEF SinkCall
<1>2. QED
  BY <1>1, LogCallFields

\* Only the request of the thread that moves can change.
LEMMA LogRequestChange ==
  ASSUME NEW t \in Caller, \A u \in Caller \ {t} : place'[u] = place[u] /\ asked'[u] = asked[u]
  PROVE  LogSinkRequest' = [LogSinkRequest EXCEPT ![t] = LogSinkRequest'[t]]
BY DEF LogSinkRequest

LEMMA LeaveIsIdle ==
  ASSUME LogTypeOK, LogTypeOK', NEW t \in Caller, NEW r, Leave(t, r)
  PROVE  /\ LogSinkRequest' = [LogSinkRequest EXCEPT ![t] = LogSink!Idle]
         /\ reply' = [reply EXCEPT ![t] = r]
<1>1. \A u \in Caller \ {t} : place'[u] = place[u] /\ asked'[u] = asked[u]
  BY DEF Leave, LogTypeOK
<1>2. place'[t] = "idle" /\ reply' = [reply EXCEPT ![t] = r]
  BY DEF Leave, LogTypeOK
<1>3. LogSinkRequest'[t] = LogSink!Idle
  BY <1>2 DEF LogSinkRequest, LogSink!Idle
<1>4. QED
  BY <1>1, <1>2, <1>3, LogRequestChange

\* An error may end any call.
LEMMA LogFailRefines ==
  ASSUME LogTypeOK, LogTypeOK', NEW t \in Caller, Inside(t), Leave(t, Error), log' = log
  PROVE  LogSink!Fail(t)
<1>1. asked[t] \in LogCall /\ place[t] \in {"sink", "appended", "probe", "read"}
  BY DEF LogTypeOK, Inside
<1>2. LogSinkRequest[t].op # "idle"
  <2>1. CASE place[t] = "appended"
    BY <2>1, LogRequestAt DEF LogSink!Effect
  <2>2. CASE place[t] # "appended"
    BY <1>1, <2>2, LogRequestAt, SinkCallOp
  <2>3. QED
    BY <2>1, <2>2
<1>3. LogSinkRequest[t] # LogSink!Idle
  BY <1>2 DEF LogSink!Idle
<1>4. QED
  BY <1>3, LeaveIsIdle DEF LogSink!Fail, LogSink!Failed, Error

\* A read that succeeds with what the log holds takes effect as it returns.
LEMMA LogReadRefines ==
  ASSUME LogTypeOK, LogTypeOK', NEW t \in Caller, LogSinkRequest[t].op = "read",
         Leave(t, Records(LogSink!View(LogSinkRequest[t]))), log' = log
  PROVE  LogSink!Return(t)
BY LeaveIsIdle DEF LogSink!Return, LogSink!Succeeded, Records

\* A read of the records [a, b).
LEMMA ViewOfRead ==
  ASSUME NEW a \in Nat, NEW b \in Nat, NEW r, Len(log) \in Nat,
         r = [op |-> "read", from |-> a, max |-> b]
  PROVE  /\ b <= Len(log) => LogSink!View(r) = SubSeq(log, a + 1, b)
         /\ b >= Len(log) => LogSink!View(r) = SubSeq(log, a + 1, Len(log))
<1>1. r.op = "read" /\ r.from = a /\ r.max = b
  OBVIOUS
<1>2. r.op # "probe"
  BY <1>1
<1> DEFINE end == IF r.max < Len(log) THEN r.max ELSE Len(log)
<1>3. LogSink!View(r) = SubSeq(log, r.from + 1, end)
  BY <1>2, Zenon DEF LogSink!View
<1>4. (b <= Len(log) => end = b) /\ (b >= Len(log) => end = Len(log))
  BY <1>1
<1> HIDE DEF end
<1>5. QED
  BY <1>1, <1>3, <1>4

\* What a load asks of the sink is the whole log from its first event on.
LEMMA LoadView ==
  ASSUME LogTypeOK, NEW t \in Caller, asked[t].op = "load", place[t] \in {"probe", "read"}
  PROVE  /\ LogSinkRequest[t].op = "read"
         /\ LogSink!View(LogSinkRequest[t]) = Cut(log, asked[t].from)
<1>1. asked[t] \in LogCall
  BY DEF LogTypeOK
<1>2. LogSinkRequest[t] = [op |-> "read", from |-> asked[t].from, max |-> MaxEvents]
  BY <1>1, LogRequestAt, SinkCallOp
<1>3. Len(log) \in Nat /\ Len(log) <= MaxEvents /\ MaxEvents \in Nat
  BY LenProperties, BoundAssumption DEF LogTypeOK
<1>4. asked[t].from \in Nat
  BY <1>1, LogCallFields
<1>5. LogSink!View(LogSinkRequest[t]) = SubSeq(log, asked[t].from + 1, Len(log))
  BY <1>2, <1>3, <1>4, ViewOfRead
<1>6. QED
  BY <1>2, <1>5 DEF Cut

LEMMA LogStepRefines ==
  ASSUME LogTypeOK, LogTypeOK', CacheCovers, NEW t \in Caller, LogStep(t)
  PROVE  LogSink!Next \/ UNCHANGED LogSink!vars
<1>0. asked[t] \in LogCall
  BY DEF LogTypeOK
<1>1. CASE Lock(t)
  <2>1. /\ place[t] = "lock" /\ asked' = asked /\ log' = log /\ reply' = reply
        /\ \A u \in Caller \ {t} : place'[u] = place[u]
        /\ place'[t] \in {"probe", "sink"}
    BY <1>1 DEF Lock, LogTypeOK
  <2>2. LogSinkRequest'[t] = SinkCall(asked[t]) /\ LogSinkRequest[t] = SinkCall(asked[t])
    BY <2>1 DEF LogSinkRequest
  <2>3. LogSinkRequest' = [LogSinkRequest EXCEPT ![t] = LogSinkRequest[t]]
    BY <2>1, <2>2, LogRequestChange
  <2>4. LogSinkRequest' = LogSinkRequest
    BY <2>3 DEF LogSinkRequest
  <2>5. QED
    BY <2>1, <2>4 DEF LogSink!vars
<1>2. CASE SinkAppend(t)
  <2>1. /\ place[t] = "sink" /\ asked[t].op = "append" /\ asked' = asked /\ reply' = reply
        /\ log' = Append(log, asked[t].payload)
        /\ place'[t] = "appended" /\ \A u \in Caller \ {t} : place'[u] = place[u]
    BY <1>2 DEF SinkAppend, LogTypeOK
  <2>2. LogSinkRequest[t] = asked[t]
    BY <1>0, <2>1, LogRequestAt, SinkCallOp
  <2>3. LogSinkRequest'[t] = LogSink!Effect(<<>>)
    BY <2>1 DEF LogSinkRequest, LogSink!Effect
  <2>4. LogSinkRequest' = [LogSinkRequest EXCEPT ![t] = LogSink!Effect(<<>>)]
    BY <2>1, <2>3, LogRequestChange
  <2>5. LogSink!Commit(t)
    BY <2>1, <2>2, <2>4 DEF LogSink!Commit
  <2>6. QED
    BY <2>5 DEF LogSink!Next
<1>3. CASE DropCaches(t)
  <2>1. place[t] = "appended" /\ Leave(t, Records(<<>>)) /\ log' = log
    BY <1>3 DEF DropCaches
  <2>2. LogSinkRequest[t] = LogSink!Effect(<<>>)
    BY <2>1, LogRequestAt
  <2>3. LogSink!Return(t)
    BY <2>1, <2>2, LeaveIsIdle DEF LogSink!Return, LogSink!Effect, LogSink!Succeeded, Records
  <2>4. QED
    BY <2>3 DEF LogSink!Next
<1>4. CASE SinkAppendFails(t) \/ LoadFails(t)
  <2>1. Inside(t) /\ Leave(t, Error) /\ log' = log
    BY <1>4 DEF SinkAppendFails, LoadFails, Inside
  <2>2. QED
    BY <2>1, LogFailRefines DEF LogSink!Next
<1>5. CASE ProbeHit(t)
  <2>1. /\ place[t] = "probe" /\ ObjectOf[t] \in Probed /\ Hit(t, Token(log))
        /\ Leave(t, Records(Cut(Cached(t).value, asked[t].from)))
        /\ log' = log
    BY <1>5 DEF ProbeHit
  <2>2. Cached(t).value = log
    BY <2>1, TransparentFromCovers DEF CacheTransparent
  <2>3. asked[t].op = "load"
    BY <2>1 DEF LogTypeOK
  <2>4. LogSink!Return(t)
    BY <2>1, <2>2, <2>3, LoadView, LogReadRefines
  <2>5. QED
    BY <2>4 DEF LogSink!Next
<1>6. CASE ProbeMiss(t)
  <2>1. /\ place[t] = "probe" /\ asked' = asked /\ log' = log /\ reply' = reply
        /\ place'[t] = "read" /\ \A u \in Caller \ {t} : place'[u] = place[u]
    BY <1>6 DEF ProbeMiss, LogTypeOK
  <2>2. LogSinkRequest'[t] = SinkCall(asked[t]) /\ LogSinkRequest[t] = SinkCall(asked[t])
    BY <2>1 DEF LogSinkRequest
  <2>3. LogSinkRequest' = [LogSinkRequest EXCEPT ![t] = LogSinkRequest[t]]
    BY <2>1, <2>2, LogRequestChange
  <2>4. LogSinkRequest' = LogSinkRequest
    BY <2>3 DEF LogSinkRequest
  <2>5. QED
    BY <2>1, <2>4 DEF LogSink!vars
<1>7. CASE Read(t)
  <2>1. place[t] = "read" /\ Leave(t, Records(Cut(log, asked[t].from))) /\ log' = log
    BY <1>7 DEF Read
  <2>2. asked[t].op = "load"
    BY <2>1 DEF LogTypeOK
  <2>3. LogSink!Return(t)
    BY <2>1, <2>2, LoadView, LogReadRefines
  <2>4. QED
    BY <2>3 DEF LogSink!Next
<1>8. CASE ReadRange(t)
  <2> DEFINE c == asked[t]
             inside == InLog(c.from, c.to)
  <2>1. /\ place[t] = "sink" /\ c.op = "range" /\ log' = log
        /\ Leave(t, IF inside THEN Records(SubSeq(log, c.from + 1, c.to)) ELSE Error)
    BY <1>8 DEF ReadRange
  <2>2. LogSinkRequest[t] = [op |-> "read", from |-> c.from, max |-> c.to]
    BY <1>0, <2>1, LogRequestAt, SinkCallOp
  <2>3. CASE inside
    <3>1. c.from \in Nat /\ c.to \in Nat
      BY <1>0, <2>1, LogCallFields
    <3>2. Len(log) \in Nat
      BY LenProperties DEF LogTypeOK
    <3>3. LogSink!View(LogSinkRequest[t]) = SubSeq(log, c.from + 1, c.to)
      <4>1. CASE c.to <= Len(log)
        BY <2>2, <3>1, <3>2, <4>1, ViewOfRead
      <4>2. CASE ~(c.to <= Len(log))
        <5>1. c.from = c.to /\ c.to >= Len(log)
          BY <2>3, <3>1, <3>2, <4>2 DEF InLog
        <5>2. SubSeq(log, c.from + 1, c.to) = <<>> /\ SubSeq(log, c.from + 1, Len(log)) = <<>>
          BY <3>1, <3>2, <5>1, EmptyPart DEF LogTypeOK
        <5>3. QED
          BY <2>2, <3>1, <3>2, <5>1, <5>2, ViewOfRead
      <4>3. QED
        BY <4>1, <4>2
    <3>4. Leave(t, Records(SubSeq(log, c.from + 1, c.to)))
      BY <2>1, <2>3
    <3>5. Leave(t, Records(LogSink!View(LogSinkRequest[t])))
      BY <3>3, <3>4
    <3>6. LogSinkRequest[t].op = "read"
      BY <2>2
    <3>7. LogSink!Return(t)
      BY <2>1, <3>5, <3>6, LogReadRefines
    <3>8. QED
      BY <3>7 DEF LogSink!Next
  <2>4. CASE ~inside
    <3>1. Leave(t, Error) /\ Inside(t)
      BY <2>1, <2>4 DEF Inside
    <3>2. QED
      BY <2>1, <3>1, LogFailRefines DEF LogSink!Next
  <2>5. QED
    BY <2>3, <2>4
<1>9. QED
  BY <1>1, <1>2, <1>3, <1>4, <1>5, <1>6, <1>7, <1>8 DEF LogStep

LEMMA EnterRefines ==
  ASSUME LogTypeOK, LogTypeOK', NEW t \in Caller, Enter(t)
  PROVE  LogSink!Call(t)
<1>1. PICK c \in CallerCalls[t] : asked' = [asked EXCEPT ![t] = c]
  BY DEF Enter
<1>2. /\ place[t] = "idle" /\ place'[t] = "lock" /\ asked'[t] = c
      /\ log' = log /\ reply' = reply
      /\ \A u \in Caller \ {t} : place'[u] = place[u] /\ asked'[u] = asked[u]
  BY <1>1 DEF Enter, LogTypeOK
<1>3. LogSinkRequest[t] = LogSink!Idle /\ LogSinkRequest'[t] = SinkCall(c)
  BY <1>2, LogRequestAt DEF LogSinkRequest
<1>4. SinkCall(c) \in SinkCalls[t]
  BY <1>1 DEF SinkCalls
<1>5. LogSinkRequest' = [LogSinkRequest EXCEPT ![t] = SinkCall(c)]
  BY <1>2, <1>3, LogRequestChange
<1>6. QED
  BY <1>2, <1>3, <1>4, <1>5 DEF LogSink!Call

LEMMA LogInitRefines == LogInit => LogSink!Init
BY DEF LogInit, LogSink!Init, LogSinkRequest, LogSink!Idle, LogSink!Succeeded, Records

\* An EventSourcedLog is an EventSink: its callers cannot tell the cached view
\* from the sink below it, whatever the other processes do.
THEOREM CacheImplementsSink == LogSpec => ImplementsEventSink
<1> DEFINE IInv == LogTypeOK /\ CacheCovers
<1>1. LogInit => IInv
  BY LogInitType, InitCovers
<1>2. IInv /\ [LogNext]_log_vars => IInv'
  BY LogNextType, NextCovers
<1>3. IInv /\ IInv' /\ [LogNext]_log_vars => [LogSink!Next]_(LogSink!vars)
  <2> SUFFICES ASSUME IInv, IInv', [LogNext]_log_vars PROVE LogSink!Next \/ UNCHANGED LogSink!vars
    OBVIOUS
  <2>1. CASE UNCHANGED log_vars
    <3>1. LogSinkRequest' = LogSinkRequest
      BY <2>1 DEF log_vars, LogSinkRequest
    <3>2. QED
      BY <2>1, <3>1 DEF log_vars, LogSink!vars
  <2>2. ASSUME NEW t \in Caller, Enter(t) PROVE LogSink!Next
    BY <2>2, EnterRefines DEF LogSink!Next
  <2>3. ASSUME NEW t \in Caller, LogStep(t) PROVE LogSink!Next \/ UNCHANGED LogSink!vars
    BY <2>3, LogStepRefines
  <2>4. QED
    BY <2>1, <2>2, <2>3 DEF LogNext
<1>4. QED
  BY <1>1, <1>2, <1>3, LogInitRefines, PTL DEF LogSpec, ImplementsEventSink, LogSink!Spec
=============================================================================
