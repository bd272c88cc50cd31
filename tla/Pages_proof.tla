---------------------------- MODULE Pages_proof -----------------------------
(***************************************************************************)
(* The memory of a core, for every size of page structures that leaves     *)
(* pages to allocate, every number of objects in a page and every          *)
(* _max_free: the pages are in exactly one use each, and the objects of    *)
(* the small_pool are all accounted for.                                   *)
(*                                                                         *)
(* The proof describes the memory as a set of blocks that tile it: free    *)
(* spans, allocations, pages of the pool, the array of page structures,    *)
(* and what an operation has in its hands.  Each helper of cpu_pages       *)
(* turns such a tiling into another one.                                   *)
(***************************************************************************)
EXTENDS MC_OneCore, Semaphore_proof, NaturalsInduction

-----------------------------------------------------------------------------
(* Sizes and lists of spans.                                               *)

\* The sizes of the run: pages, lists, and the list of a span of every size.
LEMMA PageFacts ==
    /\ P!Last = 8 /\ P!Page = 0 .. 8 /\ P!List = 0 .. 8
    /\ P!ArrayPages(5) \in 2 .. 3 /\ P!ArrayPages(8) \in 2 .. 5
<1>1. P!Last = 8
  BY DEF P!Last
<1>2. PageStructs = 2 \/ PageStructs = 3 \/ PageStructs = 4 \/ PageStructs = 5
  BY PagesAssumption
<1> QED BY <1>1, <1>2 DEF P!Page, P!List, P!ArrayPages

LEMMA Powers == /\ 2^0 = 1 /\ 2^1 = 2 /\ 2^2 = 4 /\ 2^3 = 8 /\ 2^4 = 16
                /\ 2^5 = 32 /\ 2^6 = 64 /\ 2^7 = 128 /\ 2^8 = 256 /\ 2^9 = 512
OBVIOUS

LEMMA IndexOf ==
    ASSUME NEW n \in 1 .. 8
    PROVE  P!index_of(n) = IF n = 1 THEN 0 ELSE IF n < 4 THEN 1 ELSE IF n < 8 THEN 2 ELSE 3
<1> DEFINE k == IF n = 1 THEN 0 ELSE IF n < 4 THEN 1 ELSE IF n < 8 THEN 2 ELSE 3
<1>1. k \in P!List /\ 2^k <= n /\ n < 2^(k + 1)
  <2>1. 0 + 1 = 1 /\ 1 + 1 = 2 /\ 2 + 1 = 3 /\ 3 + 1 = 4
    OBVIOUS
  <2>2. CASE n = 1 BY <2>1, <2>2, PageFacts, Powers
  <2>3. CASE n # 1 /\ n < 4 BY <2>1, <2>3, PageFacts, Powers
  <2>4. CASE n >= 4 /\ n < 8 BY <2>1, <2>4, PageFacts, Powers
  <2>5. CASE n = 8 BY <2>1, <2>5, PageFacts, Powers
  <2> QED BY <2>2, <2>3, <2>4, <2>5
<1>2. ASSUME NEW i \in P!List, 2^i <= n /\ n < 2^(i + 1)
      PROVE  i = k
  <2>1. i \in 0 .. 8
    BY PageFacts
  <2>2. i = 0 \/ i = 1 \/ i = 2 \/ i = 3 \/ i = 4 \/ i = 5 \/ i = 6 \/ i = 7 \/ i = 8
    BY <2>1
  <2>3. CASE i = 0
    <3>1. n < 2^1
      BY <1>2, <2>3
    <3> QED BY <2>3, <3>1, Powers
  <2>4. CASE i = 1
    <3>1. 2^1 <= n /\ n < 2^2
      BY <1>2, <2>4
    <3> QED BY <2>4, <3>1, Powers
  <2>5. CASE i = 2
    <3>1. 2^2 <= n /\ n < 2^3
      BY <1>2, <2>5
    <3> QED BY <2>5, <3>1, Powers
  <2>6. CASE i = 3
    <3>1. 2^3 <= n
      BY <1>2, <2>6
    <3> QED BY <2>6, <3>1, Powers
  <2>7. CASE i > 3
    <3>1. i = 4 \/ i = 5 \/ i = 6 \/ i = 7 \/ i = 8
      BY <2>2, <2>7
    <3>2. 2^4 <= n \/ 2^5 <= n \/ 2^6 <= n \/ 2^7 <= n \/ 2^8 <= n
      BY <1>2, <3>1
    <3> QED BY <3>2, Powers
  <2> QED BY <2>1, <2>3, <2>4, <2>5, <2>6, <2>7
<1>3. P!index_of(n) = k
  <2> HIDE DEF k
  <2> QED BY <1>1, <1>2, Zenon DEF P!index_of
<1> QED BY <1>3

\* What a lst has from the conservative index on is large enough, and a span
\* of the size itself is not beyond that index.
LEMMA ConservativeIndex ==
    ASSUME NEW n \in 1 .. 8
    PROVE  /\ P!index_of_conservative(n) \in 0 .. 4
           /\ \A m \in 1 .. 8 : P!index_of(m) >= P!index_of_conservative(n) => m >= n
<1>1. CASE n = 1
  BY <1>1 DEF P!index_of_conservative
<1>2. CASE n # 1
  <2>1. n - 1 \in 1 .. 8 /\ P!index_of_conservative(n) = P!index_of(n - 1) + 1
    BY <1>2 DEF P!index_of_conservative
  <2> QED BY <2>1, IndexOf
<1> QED BY <1>1, <1>2
-----------------------------------------------------------------------------
(* Lists of pages. *)

PagesIn(lst) == {lst[i] : i \in DOMAIN lst}
Once(lst) == \A i, j \in DOMAIN lst : lst[i] = lst[j] => i = j

LEMMA Pushed ==
    ASSUME NEW S, NEW lst \in Seq(S), NEW p \in S
    PROVE  /\ <<p>> \o lst \in Seq(S)
           /\ PagesIn(<<p>> \o lst) = PagesIn(lst) \cup {p}
           /\ Once(lst) /\ p \notin PagesIn(lst) => Once(<<p>> \o lst)
<1> DEFINE l == <<p>> \o lst
<1>1. /\ l \in Seq(S) /\ Len(l) = Len(lst) + 1 /\ l[1] = p
      /\ \A i \in 1 .. Len(lst) : l[i + 1] = lst[i]
      /\ DOMAIN l = 1 .. Len(l) /\ DOMAIN lst = 1 .. Len(lst) /\ Len(lst) \in Nat
  OBVIOUS
<1>2. \A i \in DOMAIN l : i = 1 \/ (i - 1 \in DOMAIN lst /\ l[i] = lst[i - 1])
  <2>1. ASSUME NEW i \in DOMAIN l, i # 1
        PROVE  i - 1 \in DOMAIN lst /\ l[i] = lst[i - 1]
    <3>1. i - 1 \in 1 .. Len(lst) /\ (i - 1) + 1 = i
      BY <1>1, <2>1
    <3> QED BY <1>1, <3>1
  <2> QED BY <2>1
<1>3. \A i \in DOMAIN lst : i + 1 \in DOMAIN l /\ l[i + 1] = lst[i]
  BY <1>1
<1>4. 1 \in DOMAIN l
  BY <1>1
<1> HIDE DEF l
<1>5. PagesIn(l) = PagesIn(lst) \cup {p}
  BY <1>1, <1>2, <1>3, <1>4 DEF PagesIn
<1>6. ASSUME Once(lst), p \notin PagesIn(lst)
      PROVE  Once(l)
  <2> SUFFICES ASSUME NEW i \in DOMAIN l, NEW j \in DOMAIN l, l[i] = l[j]
               PROVE  i = j
    BY DEF Once
  <2>1. i \in Int /\ j \in Int
    BY <1>1
  <2>2. \A k \in DOMAIN lst : lst[k] # p
    BY <1>6 DEF PagesIn
  <2> QED BY <1>1, <1>2, <1>6, <2>1, <2>2 DEF Once
<1> QED BY <1>1, <1>5, <1>6 DEF l

\* What SubSeq leaves of a list when it cuts off k elements.
LEMMA RestOf ==
    ASSUME NEW S, NEW lst \in Seq(S), NEW k \in 1 .. Len(lst)
    PROVE  /\ SubSeq(lst, k + 1, Len(lst)) \in Seq(S)
           /\ Len(SubSeq(lst, k + 1, Len(lst))) = Len(lst) - k
           /\ \A i \in 1 .. Len(lst) - k : SubSeq(lst, k + 1, Len(lst))[i] = lst[k + i]
<1> DEFINE n == Len(lst)
<1>1. n \in Nat /\ \A i \in 1 .. n : lst[i] \in S
  OBVIOUS
<1>2. k \in 1 .. n
  OBVIOUS
<1>3. SubSeq(lst, k + 1, Len(lst)) = SubSeq(lst, k + 1, n)
  OBVIOUS
<1> HIDE DEF n
<1>4. \A i \in k + 1 .. n : lst[i] \in S
  BY <1>1, <1>2
<1>5. k + 1 \in Int /\ n \in Int
  BY <1>1, <1>2
<1>6. /\ SubSeq(lst, k + 1, n) \in Seq(S)
      /\ Len(SubSeq(lst, k + 1, n)) = IF k + 1 <= n THEN n - (k + 1) + 1 ELSE 0
      /\ \A i \in 1 .. n - (k + 1) + 1 : SubSeq(lst, k + 1, n)[i] = lst[k + 1 + i - 1]
  BY <1>4, <1>5, SubSeqProperties
<1>7. (k + 1 <= n => n - (k + 1) + 1 = n - k) /\ (~(k + 1 <= n) => 0 = n - k)
  BY <1>1, <1>2
<1>8. n - (k + 1) + 1 = n - k /\ \A i \in 1 .. n - k : k + 1 + i - 1 = k + i
  BY <1>1, <1>2
<1>9. Len(SubSeq(lst, k + 1, n)) = n - k
  BY <1>6, <1>7
<1>10. \A i \in 1 .. n - k : SubSeq(lst, k + 1, n)[i] = lst[k + i]
  BY <1>6, <1>8
<1> QED BY <1>6, <1>9, <1>10, <1>3 DEF n

LEMMA Erased ==
    ASSUME NEW S, NEW lst \in Seq(S), NEW p, Once(lst)
    PROVE  /\ P!erase(lst, p) \in Seq(S)
           /\ PagesIn(P!erase(lst, p)) = PagesIn(lst) \ {p}
           /\ Once(P!erase(lst, p))
<1>1. CASE \A i \in DOMAIN lst : lst[i] # p
  BY <1>1 DEF P!erase, PagesIn
<1>2. CASE ~ \A i \in DOMAIN lst : lst[i] # p
  <2> DEFINE at == CHOOSE i \in DOMAIN lst : lst[i] = p
             l == SubSeq(lst, 1, at - 1) \o SubSeq(lst, at + 1, Len(lst))
  <2>1. at \in DOMAIN lst /\ lst[at] = p
    BY <1>2
  <2>2. P!erase(lst, p) = l
    BY <1>2, ZenonT(60) DEF P!erase
  <2> HIDE DEF at
  <2>3. at \in 1 .. Len(lst) /\ DOMAIN lst = 1 .. Len(lst) /\ Len(lst) \in Nat
    BY <2>1
  <2>4. /\ SubSeq(lst, 1, at - 1) \in Seq(S) /\ Len(SubSeq(lst, 1, at - 1)) = at - 1
        /\ \A i \in 1 .. at - 1 : SubSeq(lst, 1, at - 1)[i] = lst[i]
    BY <2>3, SMTT(40)
  <2>5. /\ SubSeq(lst, at + 1, Len(lst)) \in Seq(S)
        /\ Len(SubSeq(lst, at + 1, Len(lst))) = Len(lst) - at
        /\ \A i \in 1 .. Len(lst) - at : SubSeq(lst, at + 1, Len(lst))[i] = lst[at + i]
    BY <2>3, RestOf
  <2>6. /\ l \in Seq(S) /\ DOMAIN l = 1 .. Len(lst) - 1
        /\ \A i \in DOMAIN l : l[i] = IF i < at THEN lst[i] ELSE lst[i + 1]
    <3> DEFINE a == SubSeq(lst, 1, at - 1)
               b == SubSeq(lst, at + 1, Len(lst))
    <3> HIDE DEF a, b
    <3>1. /\ a \in Seq(S) /\ b \in Seq(S) /\ Len(a) = at - 1 /\ Len(b) = Len(lst) - at
          /\ \A i \in 1 .. at - 1 : a[i] = lst[i]
          /\ \A i \in 1 .. Len(lst) - at : b[i] = lst[at + i]
      BY <2>4, <2>5 DEF a, b
    <3>2. /\ a \o b \in Seq(S) /\ Len(a \o b) = Len(lst) - 1
          /\ \A i \in 1 .. Len(lst) - 1 : (a \o b)[i] = IF i <= Len(a) THEN a[i] ELSE b[i - Len(a)]
      <4>1. Len(a) + Len(b) = Len(lst) - 1
        BY <2>3, <3>1
      <4> QED BY <3>1, <4>1, ConcatProperties, SMTT(40)
    <3>3. l = a \o b
      BY DEF a, b
    <3>4. DOMAIN (a \o b) = 1 .. Len(lst) - 1
      BY <3>2
    <3>5. ASSUME NEW i \in 1 .. Len(lst) - 1
          PROVE  (a \o b)[i] = IF i < at THEN lst[i] ELSE lst[i + 1]
      <4>1. CASE i < at
        BY <2>3, <3>1, <3>2, <4>1
      <4>2. CASE ~(i < at)
        <5>1. i - Len(a) \in 1 .. Len(lst) - at /\ at + (i - Len(a)) = i + 1 /\ ~(i <= Len(a))
          BY <2>3, <3>1, <4>2
        <5> QED BY <3>1, <3>2, <4>2, <5>1
      <4> QED BY <4>1, <4>2
    <3> QED BY <3>2, <3>3, <3>4, <3>5
  <2> HIDE DEF l
  <2>7. \A i \in DOMAIN l : \E j \in DOMAIN lst : l[i] = lst[j] /\ j # at
    BY <2>3, <2>6
  <2>8. \A j \in DOMAIN lst : j # at => \E i \in DOMAIN l : l[i] = lst[j]
    <3> SUFFICES ASSUME NEW j \in DOMAIN lst, j # at
                 PROVE  \E i \in DOMAIN l : l[i] = lst[j]
      OBVIOUS
    <3>1. CASE j < at
      <4>1. j \in DOMAIN l /\ l[j] = lst[j]
        BY <2>3, <2>6, <3>1
      <4> QED BY <4>1
    <3>2. CASE ~(j < at)
      <4>1. j - 1 \in DOMAIN l /\ ~(j - 1 < at) /\ (j - 1) + 1 = j
        BY <2>3, <2>6, <3>2
      <4>2. l[j - 1] = lst[j]
        BY <2>6, <4>1
      <4> QED BY <4>1, <4>2
    <3> QED BY <3>1, <3>2
  <2>9. PagesIn(l) = PagesIn(lst) \ {p}
    BY <2>1, <2>7, <2>8 DEF PagesIn, Once
  <2>10. Once(l)
    <3> SUFFICES ASSUME NEW i \in DOMAIN l, NEW j \in DOMAIN l, l[i] = l[j]
                 PROVE  i = j
      BY DEF Once
    <3>1. /\ i \in 1 .. Len(lst) - 1 /\ j \in 1 .. Len(lst) - 1
          /\ i \in DOMAIN lst /\ i + 1 \in DOMAIN lst /\ j \in DOMAIN lst /\ j + 1 \in DOMAIN lst
      BY <2>3, <2>6
    <3> QED BY <2>3, <2>6, <3>1 DEF Once
  <2> QED BY <2>2, <2>6, <2>9, <2>10
<1> QED BY <1>1, <1>2

-----------------------------------------------------------------------------
(* The memory as a row of blocks. *)

\* A block is what is known of some pages next to each other: they are a free
\* span, a large allocation, a page of the pool, page structures, or a span
\* that an operation has in its hands.  Page 0 is always taken.
Kind == {"free", "work", "large", "pool", "array"}
Blocks == [at : 1 .. 7, size : 1 .. 7, use : Kind]
Apart(a, b) == a.at + a.size <= b.at \/ b.at + b.size <= a.at
Within(p, b) == b.at <= p /\ p < b.at + b.size
Next2(a, b) == a.at + a.size = b.at

Layout(B, n) ==
    /\ B \subseteq Blocks
    /\ \A b \in B : b.at + b.size <= n
    /\ \A a, b \in B : a = b \/ Apart(a, b)
    /\ \A p \in 1 .. n - 1 : \E b \in B : Within(p, b)
    /\ \A a, b \in B : a.use = "free" /\ b.use = "free" => ~Next2(a, b)

Alone(B, w) == \A b \in B : b.use = "free" => ~Next2(w, b) /\ ~Next2(b, w)

As(B, b, k) == (B \ {b}) \cup {[b EXCEPT !.use = k]}

LEMMA LayoutAs ==
    ASSUME NEW B, NEW n \in {5, 8}, Layout(B, n), NEW w \in B, NEW k \in Kind,
           k = "free" => Alone(B, w)
    PROVE  Layout(As(B, w, k), n)
<1> DEFINE v == [w EXCEPT !.use = k]
           C == (B \ {w}) \cup {v}
<1>1. /\ B \subseteq Blocks /\ w \in Blocks
      /\ \A b \in B : b.at + b.size <= n
      /\ \A a, b \in B : a = b \/ Apart(a, b)
      /\ \A p \in 1 .. n - 1 : \E b \in B : Within(p, b)
      /\ \A a, b \in B : a.use = "free" /\ b.use = "free" => ~Next2(a, b)
  BY DEF Layout
<1>2. v \in Blocks /\ v.at = w.at /\ v.size = w.size /\ v.use = k
  BY <1>1 DEF Blocks
<1> HIDE DEF v
<1>3. C \subseteq Blocks /\ \A b \in C : b.at + b.size <= n
  BY <1>1, <1>2
<1>4. \A a, b \in C : a = b \/ Apart(a, b)
  BY <1>1, <1>2 DEF Apart
<1>5. \A p \in 1 .. n - 1 : \E b \in C : Within(p, b)
  BY <1>1, <1>2 DEF Within
<1>6. \A a, b \in C : a.use = "free" /\ b.use = "free" => ~Next2(a, b)
  <2> SUFFICES ASSUME NEW a \in C, NEW b \in C, a.use = "free", b.use = "free"
               PROVE  ~Next2(a, b)
    OBVIOUS
  <2>1. CASE a = v /\ b = v
    BY <2>1, <1>2 DEF Next2, Blocks
  <2>2. CASE a = v /\ b # v
    BY <2>2, <1>2 DEF Next2, Alone
  <2>3. CASE a # v /\ b = v
    BY <2>3, <1>2 DEF Next2, Alone
  <2>4. CASE a # v /\ b # v
    BY <2>4, <1>1
  <2> QED BY <2>1, <2>2, <2>3, <2>4
<1>7. Layout(C, n)
  BY <1>3, <1>4, <1>5, <1>6 DEF Layout
<1> QED BY <1>7 DEF As, v

\* Two blocks next to each other, the second or the first of them at work, are
\* one block.
Merge(B, a, b) == (B \ {a, b}) \cup {[at |-> a.at, size |-> a.size + b.size, use |-> "work"]}

LEMMA LayoutMerge ==
    ASSUME NEW B, NEW n \in {5, 8}, Layout(B, n), NEW a \in B, NEW b \in B, Next2(a, b)
    PROVE  Layout(Merge(B, a, b), n)
<1> DEFINE v == [at |-> a.at, size |-> a.size + b.size, use |-> "work"]
           C == (B \ {a, b}) \cup {v}
<1>1. /\ B \subseteq Blocks /\ a \in Blocks /\ b \in Blocks
      /\ \A d \in B : d.at + d.size <= n
      /\ \A d, e \in B : d = e \/ Apart(d, e)
      /\ \A p \in 1 .. n - 1 : \E d \in B : Within(p, d)
      /\ \A d, e \in B : d.use = "free" /\ e.use = "free" => ~Next2(d, e)
  BY DEF Layout
<1>2. a.at \in 1 .. 7 /\ a.size \in 1 .. 7 /\ b.at \in 1 .. 7 /\ b.size \in 1 .. 7
  BY <1>1 DEF Blocks
<1>3. a.at + a.size = b.at /\ b.at + b.size <= 8
  BY <1>1, <1>2 DEF Next2
<1>4. v \in Blocks /\ v.at = a.at /\ v.size = a.size + b.size /\ v.use = "work"
  BY <1>2, <1>3 DEF Blocks, Kind
<1> HIDE DEF v
<1>5. v.at + v.size = b.at + b.size
  BY <1>2, <1>3, <1>4
<1>6. C \subseteq Blocks /\ \A d \in C : d.at + d.size <= n
  BY <1>1, <1>4, <1>5
<1>7. \A d \in B \ {a, b} : Apart(v, d) /\ Apart(d, v)
  <2> SUFFICES ASSUME NEW d \in B \ {a, b} PROVE Apart(v, d)
    BY DEF Apart
  <2>1. Apart(a, d) /\ Apart(b, d) /\ d.at \in 1 .. 7 /\ d.size \in 1 .. 7
    BY <1>1 DEF Blocks
  <2> QED BY <2>1, <1>2, <1>3, <1>4, <1>5 DEF Apart
<1>8. \A d, e \in C : d = e \/ Apart(d, e)
  BY <1>1, <1>7
<1>9. \A p \in 1 .. n - 1 : \E d \in C : Within(p, d)
  <2> SUFFICES ASSUME NEW p \in 1 .. n - 1 PROVE \E d \in C : Within(p, d)
    OBVIOUS
  <2>1. PICK d \in B : Within(p, d)
    BY <1>1
  <2>2. d = a \/ d = b => Within(p, v)
    BY <2>1, <1>2, <1>3, <1>4, <1>5 DEF Within
  <2> QED BY <2>1, <2>2
<1>10. \A d, e \in C : d.use = "free" /\ e.use = "free" => ~Next2(d, e)
  <2>1. \A d \in C : d.use = "free" => d \in B
    BY <1>4
  <2> QED BY <2>1, <1>1
<1>11. Layout(C, n)
  BY <1>6, <1>8, <1>9, <1>10 DEF Layout
<1> QED BY <1>11 DEF Merge, v

\* A block at work is split into two.
Front(b, k) == [at |-> b.at, size |-> k, use |-> "work"]
Back(b, k) == [at |-> b.at + k, size |-> b.size - k, use |-> "work"]
Split(B, b, k) == (B \ {b}) \cup {Front(b, k), Back(b, k)}

LEMMA LayoutSplit ==
    ASSUME NEW B, NEW n \in {5, 8}, Layout(B, n), NEW b \in B, NEW k \in 1 .. b.size - 1
    PROVE  Layout(Split(B, b, k), n)
<1> DEFINE v == Front(b, k)
           w == Back(b, k)
           C == (B \ {b}) \cup {v, w}
<1>1. /\ B \subseteq Blocks /\ b \in Blocks
      /\ \A d \in B : d.at + d.size <= n
      /\ \A d, e \in B : d = e \/ Apart(d, e)
      /\ \A p \in 1 .. n - 1 : \E d \in B : Within(p, d)
      /\ \A d, e \in B : d.use = "free" /\ e.use = "free" => ~Next2(d, e)
  BY DEF Layout
<1>2. b.at \in 1 .. 7 /\ b.size \in 1 .. 7 /\ b.at + b.size <= n
      /\ k \in 1 .. 6 /\ k < b.size
  BY <1>1 DEF Blocks
<1>3. /\ v \in Blocks /\ v.at = b.at /\ v.use = "work"
      /\ w \in Blocks /\ w.at = v.at + v.size /\ w.use = "work"
      /\ w.at + w.size = b.at + b.size
  BY <1>2 DEF Blocks, Kind, Front, Back
<1>4. /\ v.at \in 1 .. 7 /\ v.size \in 1 .. 7 /\ w.at \in 1 .. 7 /\ w.size \in 1 .. 7
      /\ b.at = v.at /\ b.at \in 1 .. 7 /\ b.size \in 1 .. 7 /\ w.at = v.at + v.size
      /\ b.at + b.size = w.at + w.size /\ b.at + b.size <= n
  BY <1>2, <1>3 DEF Blocks
<1> HIDE DEF v, w
<1>12. C \subseteq Blocks /\ \A d \in C : d.at + d.size <= n
  <2>1. v.at + v.size <= n /\ w.at + w.size <= n
    BY <1>4
  <2> QED BY <1>1, <1>3, <2>1
<1>5. \A d \in B \ {b} : Apart(v, d) /\ Apart(d, v) /\ Apart(w, d) /\ Apart(d, w)
  <2> SUFFICES ASSUME NEW d \in B \ {b}
               PROVE Apart(v, d) /\ Apart(d, v) /\ Apart(w, d) /\ Apart(d, w)
    OBVIOUS
  <2>1. Apart(b, d) /\ d.at \in 1 .. 7 /\ d.size \in 1 .. 7
    BY <1>1 DEF Blocks
  <2> QED BY <2>1, <1>4 DEF Apart
<1>6. Apart(v, w) /\ Apart(w, v)
  BY <1>4 DEF Apart
<1>7. \A d, e \in C : d = e \/ Apart(d, e)
  BY <1>1, <1>5, <1>6
<1>8. \A p \in 1 .. n - 1 : \E d \in C : Within(p, d)
  <2> SUFFICES ASSUME NEW p \in 1 .. n - 1 PROVE \E d \in C : Within(p, d)
    OBVIOUS
  <2>1. PICK d \in B : Within(p, d)
    BY <1>1
  <2>2. d = b => Within(p, v) \/ Within(p, w)
    BY <2>1, <1>4 DEF Within
  <2> QED BY <2>1, <2>2
<1>9. \A d, e \in C : d.use = "free" /\ e.use = "free" => ~Next2(d, e)
  <2>1. \A d \in C : d.use = "free" => d \in B
    BY <1>3
  <2> QED BY <2>1, <1>1
<1>10. Layout(C, n)
  BY <1>12, <1>7, <1>8, <1>9 DEF Layout
<1> QED BY <1>10 DEF Split, v, w

\* The memory gets pages.
Added == [at |-> 5, size |-> 3, use |-> "array"]

LEMMA LayoutAdded ==
    ASSUME NEW B, Layout(B, 5)
    PROVE  Layout(B \cup {Added}, 8)
<1>1. Added \in Blocks /\ Added.at = 5 /\ Added.size = 3 /\ Added.use = "array"
  BY DEF Added, Blocks, Kind
<1>2. \A b \in B : b \in Blocks /\ b.at + b.size <= 5 /\ Apart(b, Added) /\ Apart(Added, b)
  BY <1>1 DEF Layout, Apart
<1>3. \A p \in 1 .. 8 - 1 : \E b \in B \cup {Added} : Within(p, b)
  <2>1. \A p \in 1 .. 5 - 1 : \E b \in B : Within(p, b)
    BY DEF Layout
  <2>2. \A p \in 5 .. 7 : Within(p, Added)
    BY <1>1 DEF Within
  <2> QED BY <2>1, <2>2
<1> QED BY <1>1, <1>2, <1>3 DEF Layout, Blocks

-----------------------------------------------------------------------------
(* cpu_pages and the blocks it describes. *)

PageRec == [free : BOOLEAN, span_size : 0 .. 8, pool : BOOLEAN,
            freelist : SUBSET P!Object, nr_small_alloc : 0 .. Slots]
CpuRec == [pages : [0 .. 8 -> PageRec], free_spans : [0 .. 8 -> Seq(0 .. 8)],
           nr_pages : {5, 8}, nr_free_pages : Int]

\* Free spans are known at both ends, and no other block looks like one.
Marked(c, B) ==
    /\ ~c.pages[0].free
    /\ \A p \in c.nr_pages .. 8 : ~c.pages[p].free
    /\ \A b \in B : b.use = "free" =>
          /\ c.pages[b.at].free /\ c.pages[b.at].span_size = b.size
          /\ c.pages[b.at + b.size - 1].free /\ c.pages[b.at + b.size - 1].span_size = b.size
    /\ \A b \in B : b.use \in {"large", "pool", "array"} =>
          ~c.pages[b.at].free /\ ~c.pages[b.at + b.size - 1].free
    /\ \A b \in B : b.use \in {"large", "pool"} => c.pages[b.at].span_size = b.size

\* Every free span is in the list of its size, once.
InLists(c, B) ==
    /\ \A i \in 0 .. 8 : Once(c.free_spans[i])
    /\ \A i \in 0 .. 8, p \in 0 .. 8 :
          p \in PagesIn(c.free_spans[i]) <=>
             \E b \in B : b.use = "free" /\ b.at = p /\ P!index_of(b.size) = i

FreePages(B) == {p \in 0 .. 8 : \E b \in B : b.use = "free" /\ Within(p, b)}

Mem(c, B) == /\ c \in CpuRec
             /\ Layout(B, c.nr_pages) /\ Marked(c, B) /\ InLists(c, B)
             /\ c.nr_free_pages = Cardinality(FreePages(B))

SameSpans(c, d) ==
    /\ d.free_spans = c.free_spans /\ d.nr_pages = c.nr_pages
    /\ d.nr_free_pages = c.nr_free_pages
    /\ \A p \in 0 .. 8 : d.pages[p].free = c.pages[p].free /\ d.pages[p].span_size = c.pages[p].span_size

SameObjects(c, d) ==
    /\ d.nr_pages = c.nr_pages
    /\ \A p \in 0 .. 8 : /\ d.pages[p].pool = c.pages[p].pool
                         /\ d.pages[p].freelist = c.pages[p].freelist
                         /\ d.pages[p].nr_small_alloc = c.pages[p].nr_small_alloc

LEMMA BlockFacts ==
    ASSUME NEW c, NEW B, Mem(c, B), NEW b \in B
    PROVE  /\ b \in Blocks /\ b.at \in 1 .. 7 /\ b.size \in 1 .. 7 /\ b.use \in Kind
           /\ b.at + b.size <= c.nr_pages /\ c.nr_pages \in {5, 8}
           /\ b.at + b.size - 1 \in 0 .. 8
           /\ \A d \in B : d = b \/ Apart(d, b)
<1>1. /\ c.nr_pages \in {5, 8} /\ b \in Blocks /\ b.at + b.size <= c.nr_pages
      /\ \A d \in B : d = b \/ Apart(d, b)
  BY DEF Mem, Layout, CpuRec
<1>2. b.at \in 1 .. 7 /\ b.size \in 1 .. 7 /\ b.use \in Kind
  BY <1>1 DEF Blocks
<1>3. b.at + b.size - 1 \in 0 .. 8
  BY <1>1, <1>2
<1> QED BY <1>1, <1>2, <1>3

\* An interval of a given size.
LEMMA SizeOf ==
    ASSUME NEW a \in Nat, NEW n \in Nat \ {0}
    PROVE  IsFiniteSet(a .. a + n - 1) /\ Cardinality(a .. a + n - 1) = n
<1>1. a \in Int /\ a + n - 1 \in Int
  OBVIOUS
<1>2. ~(a > a + n - 1) /\ (a + n - 1) - a + 1 = n
  OBVIOUS
<1>3. /\ IsFiniteSet(a .. a + n - 1)
      /\ Cardinality(a .. a + n - 1) = IF a > a + n - 1 THEN 0 ELSE (a + n - 1) - a + 1
  BY <1>1, FS_Interval
<1> QED BY <1>2, <1>3

\* The pages of a block that is freed.
LEMMA FreedPages ==
    ASSUME NEW B, NEW n \in {5, 8}, Layout(B, n), NEW w \in B, w.use # "free"
    PROVE  /\ IsFiniteSet(FreePages(B)) /\ Cardinality(FreePages(B)) \in 0 .. 8
           /\ Cardinality(FreePages(As(B, w, "free"))) = Cardinality(FreePages(B)) + w.size
<1> DEFINE S == FreePages(B)
           C == w.at .. w.at + w.size - 1
           v == [w EXCEPT !.use = "free"]
<1>1. w \in Blocks /\ w.at \in 1 .. 7 /\ w.size \in 1 .. 7 /\ w.at + w.size <= 8
  BY DEF Layout, Blocks
<1>2. v.at = w.at /\ v.size = w.size /\ v.use = "free"
  BY <1>1 DEF Blocks
<1> HIDE DEF v
<1>3. As(B, w, "free") = (B \ {w}) \cup {v}
  BY DEF As, v
<1>4. FreePages(As(B, w, "free")) = S \cup C
  BY <1>1, <1>2, <1>3 DEF FreePages, Within
<1>5. S \cap C = {}
  <2> SUFFICES ASSUME NEW p \in S, p \in C PROVE FALSE
    OBVIOUS
  <2>1. PICK b \in B : b.use = "free" /\ Within(p, b)
    BY DEF FreePages
  <2>2. Apart(b, w) /\ b.at \in 1 .. 7 /\ b.size \in 1 .. 7 /\ p \in 0 .. 8
    BY <2>1 DEF Layout, Blocks, FreePages
  <2> QED BY <2>1, <2>2, <1>1 DEF Apart, Within
<1>6. IsFiniteSet(C) /\ Cardinality(C) = w.size
  <2>1. w.at \in Nat /\ w.size \in Nat \ {0}
    BY <1>1
  <2> QED BY <2>1, SizeOf
<1>7. S \subseteq 1 .. 8
  <2> SUFFICES ASSUME NEW p \in S PROVE p \in 1 .. 8
    OBVIOUS
  <2>1. PICK b \in B : Within(p, b)
    BY DEF FreePages
  <2> QED BY <2>1 DEF FreePages, Layout, Blocks, Within
<1>8. IsFiniteSet(S) /\ Cardinality(S) <= 8
  <2>1. IsFiniteSet(1 .. 8) /\ Cardinality(1 .. 8) = 8
    <3>1. 1 + 8 - 1 = 8 /\ 1 \in Nat /\ 8 \in Nat \ {0}
      OBVIOUS
    <3> QED BY <3>1, SizeOf
  <2> QED BY <1>7, <2>1, FS_Subset
<1>9. Cardinality(S \cup C) = Cardinality(S) + Cardinality(C) - Cardinality(S \cap C)
  BY <1>6, <1>8, FS_Union
<1>10. Cardinality(S \cap C) = 0 /\ Cardinality(S) \in Nat
  BY <1>5, <1>8, FS_EmptySet, FS_CardinalityType
<1>11. Cardinality(S \cup C) = Cardinality(S) + w.size
  <2> HIDE DEF S, C
  <2>1. w.size \in Int
    BY <1>1
  <2> QED BY <1>6, <1>9, <1>10, <2>1
<1>12. Cardinality(S) \in 0 .. 8
  <2> HIDE DEF S
  <2> QED BY <1>8, <1>10
<1> QED BY <1>4, <1>8, <1>11, <1>12

LEMMA TakenPages ==
    ASSUME NEW B, NEW n \in {5, 8}, Layout(B, n), NEW w \in B, w.use = "free"
    PROVE  Cardinality(FreePages(As(B, w, "work"))) = Cardinality(FreePages(B)) - w.size
<1> DEFINE C == As(B, w, "work")
           v == [w EXCEPT !.use = "work"]
<1>1. w \in Blocks /\ \A b \in B : b \in Blocks
  BY DEF Layout
<1>2. v.at = w.at /\ v.size = w.size /\ v.use = "work" /\ v \in C /\ [v EXCEPT !.use = "free"] = w
  BY <1>1 DEF Blocks, As
<1>3. v \notin B
  <2> SUFFICES ASSUME v \in B PROVE FALSE
    OBVIOUS
  <2>1. Apart(v, w) /\ w.at \in 1 .. 7 /\ w.size \in 1 .. 7
    BY <1>2 DEF Layout, Blocks
  <2> QED BY <2>1, <1>2 DEF Apart
<1>4. As(C, v, "free") = B
  <2>1. As(C, v, "free") = (C \ {v}) \cup {w}
    BY <1>2 DEF As
  <2>2. C = (B \ {w}) \cup {v}
    BY DEF As
  <2> QED BY <2>1, <2>2, <1>3
<1>5. Layout(C, n)
  BY LayoutAs DEF Kind
<1> HIDE DEF v, C
<1>6. /\ Cardinality(FreePages(C)) \in 0 .. 8
      /\ Cardinality(FreePages(As(C, v, "free"))) = Cardinality(FreePages(C)) + v.size
  BY <1>2, <1>5, FreedPages
<1>7. v.size \in 1 .. 7
  BY <1>1, <1>2 DEF Blocks
<1> QED BY <1>2, <1>4, <1>6, <1>7 DEF C

\* unlink
LEMMA Unlinked ==
    ASSUME NEW c, NEW B, Mem(c, B), NEW b \in B, b.use = "free"
    PROVE  /\ Mem(P!unlink(c, b.size, b.at), As(B, b, "work"))
           /\ P!unlink(c, b.size, b.at).pages = c.pages
           /\ P!unlink(c, b.size, b.at).nr_pages = c.nr_pages
<1> DEFINE d == P!unlink(c, b.size, b.at)
           i == P!index_of(b.size)
           C == As(B, b, "work")
           v == [b EXCEPT !.use = "work"]
<1>1. c \in CpuRec /\ Layout(B, c.nr_pages) /\ Marked(c, B) /\ InLists(c, B)
  BY DEF Mem
<1>2. b.at \in 1 .. 7 /\ b.size \in 1 .. 7 /\ b \in Blocks
  BY BlockFacts
<1>3. i \in 0 .. 8
  BY <1>2, IndexOf
<1>4. v.use = "work" /\ v.at = b.at /\ v.size = b.size /\ C = (B \ {b}) \cup {v}
  BY <1>2 DEF Blocks, As
<1>5. /\ d = [c EXCEPT !.free_spans = [c.free_spans EXCEPT ![i] = P!erase(@, b.at)],
                       !.nr_free_pages = @ - b.size]
  BY DEF P!unlink
<1> HIDE DEF v, C, d
<1>6. /\ d.pages = c.pages /\ d.nr_pages = c.nr_pages /\ d.nr_free_pages = c.nr_free_pages - b.size
      /\ d.free_spans = [c.free_spans EXCEPT ![i] = P!erase(@, b.at)]
      /\ c.nr_free_pages \in Int
  BY <1>1, <1>5 DEF CpuRec
<1>7. c.free_spans \in [0 .. 8 -> Seq(0 .. 8)] /\ \A j \in 0 .. 8 : Once(c.free_spans[j])
  BY <1>1 DEF CpuRec, InLists
<1>8. /\ P!erase(c.free_spans[i], b.at) \in Seq(0 .. 8) /\ Once(P!erase(c.free_spans[i], b.at))
      /\ PagesIn(P!erase(c.free_spans[i], b.at)) = PagesIn(c.free_spans[i]) \ {b.at}
  <2>1. c.free_spans[i] \in Seq(0 .. 8) /\ Once(c.free_spans[i])
    BY <1>3, <1>7
  <2> QED BY <2>1, Erased, ZenonT(60)
<1> HIDE DEF i
<1>9. d \in CpuRec
  <2>1. d.free_spans \in [0 .. 8 -> Seq(0 .. 8)]
    BY <1>3, <1>6, <1>7, <1>8
  <2>2. d.nr_free_pages \in Int /\ d.pages \in [0 .. 8 -> PageRec] /\ d.nr_pages \in {5, 8}
    BY <1>1, <1>2, <1>6, SMTT(40) DEF CpuRec
  <2>3. d = [pages |-> d.pages, free_spans |-> d.free_spans, nr_pages |-> d.nr_pages,
             nr_free_pages |-> d.nr_free_pages]
    BY <1>1, <1>5 DEF CpuRec
  <2> QED BY <2>1, <2>2, <2>3 DEF CpuRec
<1>10. Layout(C, d.nr_pages)
  BY <1>1, <1>6, LayoutAs DEF Kind, C, CpuRec
<1>11. Marked(d, C)
  BY <1>1, <1>4, <1>6 DEF Marked
<1>12. InLists(d, C)
  <2>1. \A j \in 0 .. 8 : Once(d.free_spans[j])
    BY <1>3, <1>6, <1>7, <1>8
  <2>2. ASSUME NEW j \in 0 .. 8, NEW p \in 0 .. 8
        PROVE  p \in PagesIn(d.free_spans[j]) <=>
                  \E e \in C : e.use = "free" /\ e.at = p /\ P!index_of(e.size) = j
    <3>1. p \in PagesIn(c.free_spans[j]) <=>
              \E e \in B : e.use = "free" /\ e.at = p /\ P!index_of(e.size) = j
      BY <1>1 DEF InLists
    <3>2. (\E e \in C : e.use = "free" /\ e.at = p /\ P!index_of(e.size) = j)
             <=> (\E e \in B \ {b} : e.use = "free" /\ e.at = p /\ P!index_of(e.size) = j)
      BY <1>4
    <3>3. \A e \in B \ {b} : e.at # b.at
      <4> SUFFICES ASSUME NEW e \in B \ {b} PROVE e.at # b.at
        OBVIOUS
      <4>1. Apart(e, b) /\ e.at \in 1 .. 7 /\ e.size \in 1 .. 7
        BY BlockFacts
      <4> QED BY <4>1, <1>2 DEF Apart
    <3>4. CASE j = i
      <4>1. p \in PagesIn(d.free_spans[j]) <=> p \in PagesIn(c.free_spans[j]) /\ p # b.at
        BY <1>3, <1>6, <1>7, <1>8, <3>4
      <4> QED BY <3>1, <3>2, <3>3, <4>1
    <3>5. CASE j # i
      <4>1. d.free_spans[j] = c.free_spans[j]
        BY <1>6, <1>7, <3>5
      <4> QED BY <3>1, <3>2, <3>5, <4>1 DEF i
    <3> QED BY <3>4, <3>5
  <2> QED BY <2>1, <2>2 DEF InLists
<1>13. d.nr_free_pages = Cardinality(FreePages(C))
  <2>1. c.nr_pages \in {5, 8} /\ c.nr_free_pages = Cardinality(FreePages(B))
    BY <1>1 DEF CpuRec, Mem
  <2>2. Cardinality(FreePages(C)) = Cardinality(FreePages(B)) - b.size
    BY <1>1, <2>1, TakenPages DEF C
  <2> QED BY <1>6, <2>1, <2>2
<1> QED BY <1>6, <1>9, <1>10, <1>11, <1>12, <1>13 DEF Mem, C, d

\* What is not known of spans does not matter for them.
LEMMA OtherFields ==
    ASSUME NEW c, NEW B, Mem(c, B), NEW d \in CpuRec, SameSpans(c, d)
    PROVE  Mem(d, B)
<1>1. \A b \in B : b.at \in 0 .. 8 /\ b.at + b.size - 1 \in 0 .. 8
  <2> TAKE b \in B
  <2> QED BY BlockFacts
<1>2. Marked(c, B) /\ c.nr_pages \in {5, 8}
  BY SMTT(40) DEF Mem, CpuRec
<1>3. Marked(d, B)
  <2>1. \A p \in c.nr_pages .. 8 : p \in 0 .. 8
    BY <1>2
  <2>2. 0 \in 0 .. 8
    OBVIOUS
  <2> QED BY <1>1, <1>2, <2>1, <2>2, ZenonT(60) DEF Marked, SameSpans
<1>4. InLists(d, B)
  BY DEF Mem, InLists, SameSpans
<1>5. Layout(B, d.nr_pages) /\ d.nr_free_pages = Cardinality(FreePages(B))
  BY DEF Mem, SameSpans
<1> QED BY <1>3, <1>4, <1>5 DEF Mem

\* Only free spans and taken blocks are known to cpu_pages: blocks at work are
\* merged, split and taken up as one likes.
LEMMA OnlySettled ==
    ASSUME NEW c, NEW B, Mem(c, B), NEW C, Layout(C, c.nr_pages),
           \A b \in C : b.use # "work" => b \in B,
           \A b \in B : b.use = "free" => b \in C
    PROVE  Mem(c, C)
<1>1. FreePages(C) = FreePages(B)
  BY DEF FreePages
<1>2. Marked(c, C)
  BY DEF Mem, Marked
<1>3. InLists(c, C)
  BY DEF Mem, InLists
<1> QED BY <1>1, <1>2, <1>3 DEF Mem

LEMMA Merged ==
    ASSUME NEW c, NEW B, Mem(c, B), NEW a \in B, NEW b \in B, Next2(a, b),
           a.use = "work", b.use = "work"
    PROVE  Mem(c, Merge(B, a, b))
<1>1. Layout(Merge(B, a, b), c.nr_pages)
  BY LayoutMerge DEF Mem, CpuRec
<1>2. \A e \in Merge(B, a, b) : e.use # "work" => e \in B
  BY DEF Merge
<1>3. \A e \in B : e.use = "free" => e \in Merge(B, a, b)
  BY DEF Merge
<1> QED BY <1>1, <1>2, <1>3, OnlySettled

LEMMA Divided ==
    ASSUME NEW c, NEW B, Mem(c, B), NEW b \in B, b.use # "free", NEW k \in 1 .. b.size - 1
    PROVE  Mem(c, Split(B, b, k))
<1>1. Layout(Split(B, b, k), c.nr_pages)
  BY LayoutSplit DEF Mem, CpuRec
<1>2. \A e \in Split(B, b, k) : e.use # "work" => e \in B
  BY DEF Split, Front, Back
<1>3. \A e \in B : e.use = "free" => e \in Split(B, b, k)
  BY DEF Split
<1> QED BY <1>1, <1>2, <1>3, OnlySettled

LEMMA Released ==
    ASSUME NEW c, NEW B, Mem(c, B), NEW b \in B, b.use # "free"
    PROVE  Mem(c, As(B, b, "work"))
<1>1. Layout(As(B, b, "work"), c.nr_pages)
  BY LayoutAs DEF Mem, CpuRec, Kind
<1>2. [b EXCEPT !.use = "work"].use = "work"
  BY BlockFacts DEF Blocks
<1>3. \A e \in As(B, b, "work") : e.use # "work" => e \in B
  BY <1>2 DEF As
<1>4. \A e \in B : e.use = "free" => e \in As(B, b, "work")
  BY DEF As
<1> QED BY <1>1, <1>3, <1>4, OnlySettled

\* The lists are those of the same free spans.
LEMMA SameLists ==
    ASSUME NEW c, NEW B, InLists(c, B), NEW d, d.free_spans = c.free_spans, NEW C,
           \A b \in C : b.use = "free" => b \in B,
           \A b \in B : b.use = "free" => b \in C
    PROVE  InLists(d, C)
<1>1. ASSUME NEW i \in 0 .. 8, NEW p \in 0 .. 8
      PROVE  p \in PagesIn(d.free_spans[i]) <=>
                \E b \in C : b.use = "free" /\ b.at = p /\ P!index_of(b.size) = i
  <2>1. p \in PagesIn(c.free_spans[i]) <=>
           \E b \in B : b.use = "free" /\ b.at = p /\ P!index_of(b.size) = i
    BY DEF InLists
  <2>2. (\E b \in C : b.use = "free" /\ b.at = p /\ P!index_of(b.size) = i)
           <=> (\E b \in B : b.use = "free" /\ b.at = p /\ P!index_of(b.size) = i)
    OBVIOUS
  <2> QED BY <2>1, <2>2
<1>2. \A i \in 0 .. 8 : Once(d.free_spans[i])
  BY DEF InLists
<1> QED BY <1>1, <1>2 DEF InLists

\* A large allocation is used for the pool.
LEMMA Pooled ==
    ASSUME NEW c, NEW B, Mem(c, B), NEW b \in B, b.use = "large", NEW k \in {"pool", "array"}
    PROVE  Mem(c, As(B, b, k))
<1> DEFINE C == As(B, b, k)
           v == [b EXCEPT !.use = k]
<1>1. Layout(C, c.nr_pages)
  BY LayoutAs DEF Mem, CpuRec, Kind
<1>2. v.use = k /\ v.at = b.at /\ v.size = b.size /\ C = (B \ {b}) \cup {v}
  BY BlockFacts DEF Blocks, As
<1> HIDE DEF v, C
<1>3. FreePages(C) = FreePages(B)
  BY <1>2 DEF FreePages
<1>4. Marked(c, C)
  BY <1>2 DEF Mem, Marked
<1>5. InLists(c, C)
  <2>1. \A e \in C : e.use = "free" => e \in B
    BY <1>2
  <2>2. \A e \in B : e.use = "free" => e \in C
    BY <1>2
  <2> QED BY <2>1, <2>2, SameLists DEF Mem
<1> QED BY <1>1, <1>3, <1>4, <1>5 DEF Mem, C

\* Marking the ends of a block at work.
EndsMarked(c, d, s, n, f) ==
    /\ d \in CpuRec /\ SameObjects(c, d)
    /\ d.free_spans = c.free_spans /\ d.nr_free_pages = c.nr_free_pages
    /\ \A p \in 0 .. 8 :
          IF p = s \/ p = s + n - 1
          THEN d.pages[p].free = f /\ d.pages[p].span_size = n
          ELSE d.pages[p].free = c.pages[p].free /\ d.pages[p].span_size = c.pages[p].span_size

LEMMA MarkFacts ==
    ASSUME NEW c \in CpuRec, NEW s \in 1 .. 7, NEW n \in 1 .. 7, s + n <= 8, NEW f \in BOOLEAN
    PROVE  EndsMarked(c, P!Mark(c, s, n, f), s, n, f)
<1> DEFINE e == s + n - 1
           q == [p \in 0 .. 8 |-> IF p \in {s, e}
                                  THEN [c.pages[p] EXCEPT !.free = f, !.span_size = n]
                                  ELSE c.pages[p]]
<1>1. n \in 0 .. 8 /\ c.pages \in [0 .. 8 -> PageRec]
  BY DEF CpuRec
<1>2. P!Mark(c, s, n, f) = [c EXCEPT !.pages = q]
  BY PageFacts, Zenon DEF P!Mark
<1>3. ASSUME NEW p \in 0 .. 8
      PROVE  /\ q[p] \in PageRec
             /\ q[p].pool = c.pages[p].pool /\ q[p].freelist = c.pages[p].freelist
             /\ q[p].nr_small_alloc = c.pages[p].nr_small_alloc
             /\ IF p = s \/ p = e THEN q[p].free = f /\ q[p].span_size = n
                ELSE q[p].free = c.pages[p].free /\ q[p].span_size = c.pages[p].span_size
  <2>1. c.pages[p] \in PageRec
    BY <1>1
  <2> QED BY <2>1, <1>1 DEF PageRec
<1> DEFINE d == [c EXCEPT !.pages = q]
<1>4. q \in [0 .. 8 -> PageRec]
  BY <1>3
<1> HIDE DEF q, e
<1>5. /\ d \in CpuRec /\ d.pages = q /\ d.free_spans = c.free_spans
      /\ d.nr_pages = c.nr_pages /\ d.nr_free_pages = c.nr_free_pages
  BY <1>4 DEF CpuRec
<1> HIDE DEF d
<1>6. P!Mark(c, s, n, f) = d
  BY <1>2 DEF d
<1>7. \A p \in 0 .. 8 : IF p = s \/ p = e THEN d.pages[p].free = f /\ d.pages[p].span_size = n
                        ELSE d.pages[p].free = c.pages[p].free /\ d.pages[p].span_size = c.pages[p].span_size
  BY <1>3, <1>5
<1>8. SameObjects(c, d)
  BY <1>3, <1>5 DEF SameObjects
<1> QED BY <1>5, <1>6, <1>7, <1>8 DEF e, EndsMarked


\* What marks the ends of a block leaves the other ends alone.
OnlyEnds(c, d, B, w, f) ==
    /\ ~d.pages[0].free /\ \A p \in d.nr_pages .. 8 : ~d.pages[p].free
    /\ d.pages[w.at].free = f /\ d.pages[w.at].span_size = w.size
    /\ d.pages[w.at + w.size - 1].free = f /\ d.pages[w.at + w.size - 1].span_size = w.size
    /\ \A b \in B \ {w} :
          /\ d.pages[b.at].free = c.pages[b.at].free
          /\ d.pages[b.at].span_size = c.pages[b.at].span_size
          /\ d.pages[b.at + b.size - 1].free = c.pages[b.at + b.size - 1].free
          /\ d.pages[b.at + b.size - 1].span_size = c.pages[b.at + b.size - 1].span_size

LEMMA OtherEnds ==
    ASSUME NEW c, NEW B, Mem(c, B), NEW w \in B, NEW d, NEW f \in BOOLEAN,
           EndsMarked(c, d, w.at, w.size, f)
    PROVE  OnlyEnds(c, d, B, w, f)
<1> DEFINE e == w.at + w.size - 1
<1>1. /\ w \in Blocks /\ w.at \in 1 .. 7 /\ w.size \in 1 .. 7 /\ w.at + w.size <= c.nr_pages
      /\ c.nr_pages \in {5, 8} /\ e \in 0 .. 8
      /\ \A b \in B : b = w \/ Apart(b, w)
  BY BlockFacts, SMTT(40)
<1>2. /\ d \in CpuRec /\ d.nr_pages = c.nr_pages
      /\ \A p \in 0 .. 8 :
            IF p = w.at \/ p = e
            THEN d.pages[p].free = f /\ d.pages[p].span_size = w.size
            ELSE d.pages[p].free = c.pages[p].free /\ d.pages[p].span_size = c.pages[p].span_size
  BY DEF EndsMarked, SameObjects
<1>3. ASSUME NEW b \in B, b # w
      PROVE  /\ b.at \in 0 .. 8 /\ b.at + b.size - 1 \in 0 .. 8
             /\ b.at # w.at /\ b.at # e /\ b.at + b.size - 1 # w.at /\ b.at + b.size - 1 # e
  <2>1. Apart(b, w) /\ b.at \in 1 .. 7 /\ b.size \in 1 .. 7
    BY <1>1, <1>3, BlockFacts
  <2>2. b.at + b.size - 1 \in 0 .. 8
    BY BlockFacts
  <2>3. CASE b.at + b.size <= w.at
    BY <2>1, <2>2, <2>3, <1>1
  <2>4. CASE w.at + w.size <= b.at
    BY <2>1, <2>2, <2>4, <1>1
  <2> QED BY <2>1, <2>3, <2>4 DEF Apart
<1>4. \A p \in c.nr_pages .. 8 : p \in 0 .. 8 /\ p # w.at /\ p # e
  BY <1>1
<1>5. 0 \in 0 .. 8 /\ 0 # w.at /\ 0 # e /\ w.at \in 0 .. 8
  BY <1>1
<1>6. Marked(c, B)
  BY DEF Mem
<1> HIDE DEF e
<1>7. ~d.pages[0].free /\ \A p \in d.nr_pages .. 8 : ~d.pages[p].free
  BY <1>2, <1>4, <1>5, <1>6 DEF Marked
<1>8. /\ d.pages[w.at].free = f /\ d.pages[w.at].span_size = w.size
      /\ d.pages[e].free = f /\ d.pages[e].span_size = w.size
  BY <1>1, <1>2, <1>5
<1>9. ASSUME NEW b \in B \ {w}
      PROVE  /\ d.pages[b.at].free = c.pages[b.at].free
             /\ d.pages[b.at].span_size = c.pages[b.at].span_size
             /\ d.pages[b.at + b.size - 1].free = c.pages[b.at + b.size - 1].free
             /\ d.pages[b.at + b.size - 1].span_size = c.pages[b.at + b.size - 1].span_size
  BY <1>2, <1>3
<1> QED BY <1>7, <1>8, <1>9 DEF e, OnlyEnds

\* A block at work becomes a large allocation.
LEMMA TakenMarked ==
    ASSUME NEW c, NEW B, Mem(c, B), NEW w \in B, w.use = "work",
           NEW d, EndsMarked(c, d, w.at, w.size, FALSE)
    PROVE  Mem(d, As(B, w, "large")) /\ SameObjects(c, d)
<1> DEFINE C == As(B, w, "large")
           v == [w EXCEPT !.use = "large"]
<1>1. /\ w \in Blocks /\ w.at \in 1 .. 7 /\ w.size \in 1 .. 7 /\ w.at + w.size <= 8
      /\ c \in CpuRec /\ FALSE \in BOOLEAN
  <2>1. w.at + w.size <= c.nr_pages /\ c.nr_pages <= 8 /\ w.at \in 1 .. 7 /\ w.size \in 1 .. 7
        /\ c.nr_pages \in {5, 8}
    BY BlockFacts
  <2>2. w \in Blocks /\ c \in CpuRec
    BY BlockFacts DEF Mem
  <2> QED BY <2>1, <2>2
<1>2. EndsMarked(c, d, w.at, w.size, FALSE)
  BY ZenonT(60)
<1>3. /\ d \in CpuRec /\ SameObjects(c, d) /\ d.nr_pages = c.nr_pages
      /\ d.free_spans = c.free_spans /\ d.nr_free_pages = c.nr_free_pages
  BY <1>2, ZenonT(60) DEF EndsMarked, SameObjects
<1>4. v.use = "large" /\ v.at = w.at /\ v.size = w.size /\ C = (B \ {w}) \cup {v}
  BY <1>1 DEF Blocks, As
<1>5. Layout(C, d.nr_pages)
  BY <1>3, LayoutAs DEF Mem, CpuRec, Kind
<1> HIDE DEF C, v
<1>6. Marked(d, C)
  <2>1. /\ ~d.pages[0].free /\ \A p \in d.nr_pages .. 8 : ~d.pages[p].free
        /\ ~d.pages[v.at].free /\ d.pages[v.at].span_size = v.size
        /\ ~d.pages[v.at + v.size - 1].free
        /\ \A b \in B \ {w} :
              /\ d.pages[b.at].free = c.pages[b.at].free
              /\ d.pages[b.at].span_size = c.pages[b.at].span_size
              /\ d.pages[b.at + b.size - 1].free = c.pages[b.at + b.size - 1].free
              /\ d.pages[b.at + b.size - 1].span_size = c.pages[b.at + b.size - 1].span_size
    <3>1. OnlyEnds(c, d, B, w, FALSE)
      BY <1>1, <1>2, OtherEnds, Zenon
    <3> QED BY <1>4, <3>1 DEF OnlyEnds
  <2>2. Marked(c, B)
    BY DEF Mem
  <2> QED BY <2>1, <2>2, <1>4 DEF Marked
<1>7. InLists(d, C)
  <2>1. \A b \in C : b.use = "free" => b \in B
    BY <1>4
  <2>2. \A b \in B : b.use = "free" => b \in C
    BY <1>4
  <2> QED BY <1>3, <2>1, <2>2, SameLists DEF Mem
<1>8. FreePages(C) = FreePages(B)
  BY <1>4 DEF FreePages
<1> QED BY <1>3, <1>5, <1>6, <1>7, <1>8 DEF Mem, C

LEMMA Taken ==
    ASSUME NEW c, NEW B, Mem(c, B), NEW w \in B, w.use = "work"
    PROVE  LET d == P!Mark(c, w.at, w.size, FALSE) IN
           Mem(d, As(B, w, "large")) /\ SameObjects(c, d)
<1> DEFINE d == P!Mark(c, w.at, w.size, FALSE)
<1>1. /\ w.at \in 1 .. 7 /\ w.size \in 1 .. 7 /\ w.at + w.size <= 8
      /\ c \in CpuRec /\ FALSE \in BOOLEAN
  <2>1. w.at + w.size <= c.nr_pages /\ c.nr_pages <= 8 /\ w.at \in 1 .. 7 /\ w.size \in 1 .. 7
        /\ c.nr_pages \in {5, 8}
    BY BlockFacts
  <2>2. c \in CpuRec
    BY DEF Mem
  <2> QED BY <2>1, <2>2
<1>2. EndsMarked(c, d, w.at, w.size, FALSE)
  BY <1>1, MarkFacts, Zenon
<1> HIDE DEF d
<1>3. Mem(d, As(B, w, "large")) /\ SameObjects(c, d)
  BY <1>2, TakenMarked
<1> QED BY <1>3 DEF d

\* free_span_no_merge of a block at work that is next to no free span.
LEMMA Linked ==
    ASSUME NEW c, NEW B, Mem(c, B), NEW w \in B, w.use = "work", Alone(B, w)
    PROVE  LET d == P!free_span_no_merge(c, w.at, w.size) IN
           Mem(d, As(B, w, "free")) /\ SameObjects(c, d)
<1> DEFINE m == P!Mark(c, w.at, w.size, TRUE)
           d == P!free_span_no_merge(c, w.at, w.size)
           i == P!index_of(w.size)
           C == As(B, w, "free")
           v == [w EXCEPT !.use = "free"]
<1>1. /\ w \in Blocks /\ w.at \in 1 .. 7 /\ w.size \in 1 .. 7 /\ w.at + w.size <= 8
      /\ c \in CpuRec /\ TRUE \in BOOLEAN /\ c.nr_pages \in {5, 8}
  <2>1. w.at + w.size <= c.nr_pages /\ w.at \in 1 .. 7 /\ w.size \in 1 .. 7
        /\ c.nr_pages \in {5, 8}
    BY BlockFacts
  <2>2. w \in Blocks /\ c \in CpuRec
    BY BlockFacts DEF Mem
  <2> QED BY <2>1, <2>2
<1>2. EndsMarked(c, m, w.at, w.size, TRUE)
  BY <1>1, MarkFacts, ZenonT(60)
<1>3. /\ m \in CpuRec /\ SameObjects(c, m) /\ m.nr_pages = c.nr_pages
      /\ m.free_spans = c.free_spans /\ m.nr_free_pages = c.nr_free_pages
  BY <1>2, ZenonT(60) DEF EndsMarked, SameObjects
<1>4. v.use = "free" /\ v.at = w.at /\ v.size = w.size /\ C = (B \ {w}) \cup {v}
  BY <1>1 DEF Blocks, As
<1>5. d = [m EXCEPT !.free_spans = [m.free_spans EXCEPT ![i] = <<w.at>> \o @],
                    !.nr_free_pages = @ + w.size]
  BY DEF P!free_span_no_merge
<1>6. Layout(C, c.nr_pages)
  BY LayoutAs DEF Mem, CpuRec, Kind
<1>7. i \in 0 .. 8
  BY <1>1, IndexOf
<1> HIDE DEF d, C, v, m
<1>8. /\ d.pages = m.pages /\ d.nr_pages = c.nr_pages /\ d.nr_free_pages = c.nr_free_pages + w.size
      /\ d.free_spans = [c.free_spans EXCEPT ![i] = <<w.at>> \o @]
      /\ c.nr_free_pages \in Int
  BY <1>1, <1>3, <1>5 DEF CpuRec
<1>9. c.free_spans \in [0 .. 8 -> Seq(0 .. 8)] /\ \A j \in 0 .. 8 : Once(c.free_spans[j])
  BY <1>1 DEF CpuRec, InLists, Mem
<1>10. /\ <<w.at>> \o c.free_spans[i] \in Seq(0 .. 8)
       /\ PagesIn(<<w.at>> \o c.free_spans[i]) = PagesIn(c.free_spans[i]) \cup {w.at}
       /\ w.at \notin PagesIn(c.free_spans[i]) => Once(<<w.at>> \o c.free_spans[i])
  <2>1. c.free_spans[i] \in Seq(0 .. 8) /\ Once(c.free_spans[i]) /\ w.at \in 0 .. 8
    <3> HIDE DEF i
    <3>1. w.at \in 0 .. 8
      BY <1>1
    <3> QED BY <1>7, <1>9, <3>1
  <2> QED BY <2>1, Pushed
<1>11. \A j \in 0 .. 8, p \in 0 .. 8 :
          p \in PagesIn(c.free_spans[j]) <=>
             \E b \in B : b.use = "free" /\ b.at = p /\ P!index_of(b.size) = j
  BY DEF Mem, InLists
<1>12. w.at \notin PagesIn(c.free_spans[i])
  <2> SUFFICES ASSUME w.at \in PagesIn(c.free_spans[i]) PROVE FALSE
    OBVIOUS
  <2>1. w.at \in 0 .. 8
    BY <1>1
  <2>2. PICK b \in B : b.use = "free" /\ b.at = w.at
    BY <1>7, <1>11, <2>1
  <2>3. Apart(b, w) /\ b.at \in 1 .. 7 /\ b.size \in 1 .. 7
    BY <2>2, BlockFacts
  <2> QED BY <1>1, <2>2, <2>3 DEF Apart
<1>13. d \in CpuRec
  <2>1. d.free_spans \in [0 .. 8 -> Seq(0 .. 8)]
    BY <1>7, <1>8, <1>9, <1>10
  <2>2. d.nr_free_pages \in Int /\ d.pages \in [0 .. 8 -> PageRec] /\ d.nr_pages \in {5, 8}
    BY <1>1, <1>3, <1>8, SMTT(40) DEF CpuRec
  <2>3. d = [pages |-> d.pages, free_spans |-> d.free_spans, nr_pages |-> d.nr_pages,
             nr_free_pages |-> d.nr_free_pages]
    BY <1>3, <1>5 DEF CpuRec
  <2> QED BY <2>1, <2>2, <2>3 DEF CpuRec
<1>14. Marked(d, C)
  <2>1. /\ ~m.pages[0].free /\ \A p \in m.nr_pages .. 8 : ~m.pages[p].free
        /\ m.pages[v.at].free /\ m.pages[v.at].span_size = v.size
        /\ m.pages[v.at + v.size - 1].free /\ m.pages[v.at + v.size - 1].span_size = v.size
        /\ \A b \in B \ {w} :
              /\ m.pages[b.at].free = c.pages[b.at].free
              /\ m.pages[b.at].span_size = c.pages[b.at].span_size
              /\ m.pages[b.at + b.size - 1].free = c.pages[b.at + b.size - 1].free
              /\ m.pages[b.at + b.size - 1].span_size = c.pages[b.at + b.size - 1].span_size
    <3>1. OnlyEnds(c, m, B, w, TRUE)
      BY <1>1, <1>2, OtherEnds, Zenon
    <3> QED BY <1>4, <3>1 DEF OnlyEnds
  <2>2. Marked(c, B)
    BY DEF Mem
  <2> QED BY <2>1, <2>2, <1>3, <1>4, <1>8, SMTT(40) DEF Marked
<1> HIDE DEF i
<1>15. InLists(d, C)
  <2>1. \A j \in 0 .. 8 : Once(d.free_spans[j])
    BY <1>7, <1>8, <1>9, <1>10, <1>12
  <2>2. ASSUME NEW j \in 0 .. 8, NEW p \in 0 .. 8
        PROVE  p \in PagesIn(d.free_spans[j]) <=>
                  \E e \in C : e.use = "free" /\ e.at = p /\ P!index_of(e.size) = j
    <3>1. (\E e \in C : e.use = "free" /\ e.at = p /\ P!index_of(e.size) = j)
             <=> \/ \E e \in B : e.use = "free" /\ e.at = p /\ P!index_of(e.size) = j
                 \/ p = w.at /\ j = i
      BY <1>4 DEF i
    <3>2. CASE j = i
      <4>1. p \in PagesIn(d.free_spans[j]) <=> p \in PagesIn(c.free_spans[j]) \/ p = w.at
        BY <1>7, <1>8, <1>9, <1>10, <3>2
      <4> QED BY <1>11, <3>1, <3>2, <4>1
    <3>3. CASE j # i
      <4>1. d.free_spans[j] = c.free_spans[j]
        BY <1>8, <1>9, <3>3
      <4> QED BY <1>11, <3>1, <3>3, <4>1
    <3> QED BY <3>2, <3>3
  <2> QED BY <2>1, <2>2 DEF InLists
<1>16. d.nr_free_pages = Cardinality(FreePages(C))
  <2>1. Layout(B, c.nr_pages) /\ c.nr_free_pages = Cardinality(FreePages(B))
    BY DEF Mem
  <2>2. Cardinality(FreePages(C)) = Cardinality(FreePages(B)) + w.size
    BY <1>1, <2>1, FreedPages DEF C
  <2> QED BY <1>8, <2>1, <2>2
<1>17. SameObjects(c, d)
  BY <1>3, <1>8 DEF SameObjects
<1> QED BY <1>6, <1>8, <1>13, <1>14, <1>15, <1>16, <1>17 DEF Mem, C, d

-----------------------------------------------------------------------------
(* free_span: what is given back is merged with the free spans beside it. *)

\* w is what an operation has in its hands, and nothing else is.
AtWork(c, B, w) == /\ Mem(c, B) /\ w \in B /\ w.use = "work"
                   /\ \A b \in B : b.use = "work" => b = w

\* The blocks that are taken.
Used(B) == {b \in B : b.use \in {"large", "pool", "array"}}

SizeBefore(c, w) == IF c.pages[w.at - 1].free THEN c.pages[w.at - 1].span_size ELSE 0
SizeAfter(c, w) == IF c.pages[w.at + w.size].free THEN c.pages[w.at + w.size].span_size ELSE 0

\* The page before a block at work and the one after it tell of a free span if
\* and only if there is one.
LEMMA SpanBefore ==
    ASSUME NEW c, NEW B, NEW w, AtWork(c, B, w)
    PROVE  \/ SizeBefore(c, w) = 0 /\ \A b \in B : b.use = "free" => ~Next2(b, w)
           \/ \E b \in B : b.use = "free" /\ Next2(b, w) /\ SizeBefore(c, w) = b.size
<1> DEFINE p == w.at - 1
<1>1. Mem(c, B) /\ w \in B /\ w.use = "work" /\ \A b \in B : b.use = "work" => b = w
  BY DEF AtWork
<1>2. /\ w.at \in 1 .. 7 /\ w.size \in 1 .. 7 /\ w.at + w.size <= c.nr_pages /\ c.nr_pages \in {5, 8}
  BY <1>1, BlockFacts
<1>3. Marked(c, B)
  BY <1>1 DEF Mem
<1>4. CASE w.at = 1
  <2>1. p = 0
    BY <1>4
  <2>2. ~c.pages[p].free
    BY <1>3, <2>1 DEF Marked
  <2>3. \A b \in B : ~Next2(b, w)
    <3> TAKE b \in B
    <3>1. b.at \in 1 .. 7 /\ b.size \in 1 .. 7
      BY <1>1, BlockFacts
    <3> QED BY <1>4, <3>1 DEF Next2
  <2> QED BY <2>2, <2>3 DEF SizeBefore
<1>5. CASE w.at # 1
  <2>1. p \in 1 .. c.nr_pages - 1
    BY <1>2, <1>5
  <2>2. PICK a \in B : Within(p, a)
    BY <1>1, <2>1 DEF Mem, Layout
  <2>3. /\ a.at \in 1 .. 7 /\ a.size \in 1 .. 7 /\ a.use \in Kind /\ (a = w \/ Apart(a, w))
    BY <1>1, <2>2, BlockFacts
  <2>4. a # w
    BY <1>2, <2>2 DEF Within
  <2>5. a.at + a.size = w.at
    BY <1>2, <2>2, <2>3, <2>4 DEF Within, Apart
  <2>6. a.at + a.size - 1 = p /\ Next2(a, w)
    BY <1>2, <2>3, <2>5 DEF Next2
  <2>7. a.use # "work"
    BY <1>1, <2>4
  <2>8. CASE a.use = "free"
    <3>1. c.pages[p].free /\ c.pages[p].span_size = a.size
      BY <1>3, <2>6, <2>8 DEF Marked
    <3> QED BY <2>6, <2>8, <3>1 DEF SizeBefore
  <2>9. CASE a.use # "free"
    <3>1. a.use \in {"large", "pool", "array"}
      BY <2>3, <2>7, <2>9 DEF Kind
    <3>2. ~c.pages[p].free
      BY <1>3, <2>6, <3>1 DEF Marked
    <3>3. ASSUME NEW b \in B, b.use = "free", Next2(b, w) PROVE FALSE
      <4>1. b.at \in 1 .. 7 /\ b.size \in 1 .. 7 /\ (b = a \/ Apart(b, a))
        BY <1>1, BlockFacts
      <4>2. b # a
        BY <2>9, <3>3
      <4> QED BY <1>2, <2>3, <2>5, <3>3, <4>1, <4>2 DEF Apart, Next2
    <3> QED BY <3>2, <3>3 DEF SizeBefore
  <2> QED BY <2>8, <2>9
<1> QED BY <1>4, <1>5

LEMMA SpanAfter ==
    ASSUME NEW c, NEW B, NEW w, AtWork(c, B, w)
    PROVE  \/ SizeAfter(c, w) = 0 /\ \A b \in B : b.use = "free" => ~Next2(w, b)
           \/ \E b \in B : b.use = "free" /\ Next2(w, b) /\ SizeAfter(c, w) = b.size
<1> DEFINE p == w.at + w.size
<1>1. Mem(c, B) /\ w \in B /\ w.use = "work" /\ \A b \in B : b.use = "work" => b = w
  BY DEF AtWork
<1>2. /\ w.at \in 1 .. 7 /\ w.size \in 1 .. 7 /\ w.at + w.size <= c.nr_pages /\ c.nr_pages \in {5, 8}
  BY <1>1, BlockFacts
<1>3. Marked(c, B)
  BY <1>1 DEF Mem
<1>4. CASE p = c.nr_pages
  <2>1. p \in c.nr_pages .. 8
    BY <1>2, <1>4
  <2>2. ~c.pages[p].free
    BY <1>3, <2>1 DEF Marked
  <2>3. \A b \in B : ~Next2(w, b)
    <3> TAKE b \in B
    <3>1. b.at \in 1 .. 7 /\ b.size \in 1 .. 7 /\ b.at + b.size <= c.nr_pages
      BY <1>1, BlockFacts
    <3> QED BY <1>2, <1>4, <3>1 DEF Next2
  <2> QED BY <2>2, <2>3 DEF SizeAfter
<1>5. CASE p # c.nr_pages
  <2>1. p \in 1 .. c.nr_pages - 1
    BY <1>2, <1>5
  <2>2. PICK a \in B : Within(p, a)
    BY <1>1, <2>1 DEF Mem, Layout
  <2>3. /\ a.at \in 1 .. 7 /\ a.size \in 1 .. 7 /\ a.use \in Kind /\ (a = w \/ Apart(a, w))
    BY <1>1, <2>2, BlockFacts
  <2>4. a # w
    BY <1>2, <2>2 DEF Within
  <2>5. a.at = p
    BY <1>2, <2>2, <2>3, <2>4 DEF Within, Apart
  <2>6. Next2(w, a)
    BY <2>5 DEF Next2
  <2>7. a.use # "work"
    BY <1>1, <2>4
  <2>8. CASE a.use = "free"
    <3>1. c.pages[p].free /\ c.pages[p].span_size = a.size
      BY <1>3, <2>5, <2>8 DEF Marked
    <3> QED BY <2>6, <2>8, <3>1 DEF SizeAfter
  <2>9. CASE a.use # "free"
    <3>1. a.use \in {"large", "pool", "array"}
      BY <2>3, <2>7, <2>9 DEF Kind
    <3>2. ~c.pages[p].free
      BY <1>3, <2>5, <3>1 DEF Marked
    <3>3. ASSUME NEW b \in B, b.use = "free", Next2(w, b) PROVE FALSE
      <4>1. b.at \in 1 .. 7 /\ b.size \in 1 .. 7 /\ (b = a \/ Apart(b, a))
        BY <1>1, BlockFacts
      <4>2. b # a
        BY <2>9, <3>3
      <4> QED BY <1>2, <2>3, <2>5, <3>3, <4>1, <4>2 DEF Apart, Next2
    <3> QED BY <3>2, <3>3 DEF SizeAfter
  <2> QED BY <2>8, <2>9
<1> QED BY <1>4, <1>5

\* What is merged is at work, and the rest is as it was.
Joined(c, B, d, C, v) ==
    /\ AtWork(d, C, v)
    /\ d.pages = c.pages /\ d.nr_pages = c.nr_pages
    /\ Used(C) = Used(B)
    /\ \A b \in C : b.use = "free" => b \in B

LEMMA Joining ==
    ASSUME NEW c, NEW B, NEW w, AtWork(c, B, w), NEW b \in B, b.use = "free",
           Next2(b, w) \/ Next2(w, b)
    PROVE  \E C, v : /\ Joined(c, B, P!unlink(c, b.size, b.at), C, v)
                     /\ v.at = (IF Next2(b, w) THEN b.at ELSE w.at)
                     /\ v.size = w.size + b.size
                     /\ b \notin C
<1> DEFINE d == P!unlink(c, b.size, b.at)
           A == As(B, b, "work")
           a == [b EXCEPT !.use = "work"]
<1>1. Mem(c, B) /\ w \in B /\ w.use = "work" /\ \A e \in B : e.use = "work" => e = w
  BY DEF AtWork
<1>2. Mem(d, A) /\ d.pages = c.pages /\ d.nr_pages = c.nr_pages
  BY <1>1, Unlinked
<1>3. /\ w.at \in 1 .. 7 /\ w.size \in 1 .. 7 /\ b.at \in 1 .. 7 /\ b.size \in 1 .. 7
      /\ b \in Blocks
  BY <1>1, BlockFacts
<1>4. a.at = b.at /\ a.size = b.size /\ a.use = "work" /\ A = (B \ {b}) \cup {a} /\ w \in A /\ a \in A
  BY <1>1, <1>3 DEF Blocks, As
<1> HIDE DEF d, A, a
<1>5. CASE Next2(b, w)
  <2> DEFINE v == [at |-> a.at, size |-> a.size + w.size, use |-> "work"]
             C == (A \ {a, w}) \cup {v}
  <2>1. Mem(d, C)
    <3>1. Next2(a, w)
      BY <1>4, <1>5 DEF Next2
    <3>2. Mem(d, Merge(A, a, w))
      BY <1>1, <1>2, <1>4, <3>1, Merged
    <3> QED BY <3>2 DEF Merge
  <2>2. v.at = b.at /\ v.size = w.size + b.size /\ v.use = "work"
    BY <1>3, <1>4
  <2> HIDE DEF v
  <2>3. AtWork(d, C, v)
    BY <1>1, <1>4, <2>1, <2>2 DEF AtWork
  <2>4. Used(C) = Used(B)
    BY <1>1, <1>4, <2>2 DEF Used
  <2>5. \A e \in C : e.use = "free" => e \in B \ {b}
    BY <1>4, <2>2
  <2>6. b \notin C
    BY <2>5
  <2> HIDE DEF C
  <2>7. Joined(c, B, d, C, v)
    BY <1>2, <2>3, <2>4, <2>5 DEF Joined
  <2> QED BY <1>5, <2>2, <2>6, <2>7 DEF d
<1>6. CASE ~Next2(b, w)
  <2> DEFINE v == [at |-> w.at, size |-> w.size + a.size, use |-> "work"]
             C == (A \ {w, a}) \cup {v}
  <2>1. Mem(d, C)
    <3>1. Next2(w, a)
      BY <1>4, <1>6 DEF Next2
    <3>2. Mem(d, Merge(A, w, a))
      BY <1>1, <1>2, <1>4, <3>1, Merged
    <3> QED BY <3>2 DEF Merge
  <2>2. v.at = w.at /\ v.size = w.size + b.size /\ v.use = "work"
    BY <1>4
  <2> HIDE DEF v
  <2>3. AtWork(d, C, v)
    BY <1>1, <1>4, <2>1, <2>2 DEF AtWork
  <2>4. Used(C) = Used(B)
    BY <1>1, <1>4, <2>2 DEF Used
  <2>5. \A e \in C : e.use = "free" => e \in B \ {b}
    BY <1>4, <2>2
  <2>6. b \notin C
    BY <2>5
  <2> HIDE DEF C
  <2>7. Joined(c, B, d, C, v)
    BY <1>2, <2>3, <2>4, <2>5 DEF Joined
  <2> QED BY <1>6, <2>2, <2>6, <2>7 DEF d
<1> QED BY <1>5, <1>6

Settled(B) == \A b \in B : b.use # "work"

MergedBefore(c, w) ==
    IF SizeBefore(c, w) = 0 THEN c ELSE P!unlink(c, SizeBefore(c, w), w.at - SizeBefore(c, w))
MergedAfter(c, w) ==
    IF SizeAfter(c, w) = 0 THEN c ELSE P!unlink(c, SizeAfter(c, w), w.at + w.size)

\* The span before a block at work is merged with it, and the span after it.
LEMMA MergeBefore ==
    ASSUME NEW c, NEW B, NEW w, AtWork(c, B, w)
    PROVE  /\ SizeBefore(c, w) \in 0 .. 7
           /\ \E C, v : /\ Joined(c, B, MergedBefore(c, w), C, v)
                        /\ v.at = w.at - SizeBefore(c, w)
                        /\ v.size = w.size + SizeBefore(c, w)
                        /\ \A b \in C : b.use = "free" => ~Next2(b, v)
<1> DEFINE n == SizeBefore(c, w)
           d == MergedBefore(c, w)
<1>5. d = IF n = 0 THEN c ELSE P!unlink(c, n, w.at - n)
  BY DEF MergedBefore
<1>1. Mem(c, B) /\ w \in B /\ w.use = "work"
  BY DEF AtWork
<1>2. w.at \in 1 .. 7 /\ w.size \in 1 .. 7
  BY <1>1, BlockFacts
<1>3. CASE n = 0 /\ \A b \in B : b.use = "free" => ~Next2(b, w)
  <2>1. d = c
    BY <1>3, <1>5
  <2>2. Joined(c, B, d, B, w)
    BY <2>1 DEF Joined
  <2>3. w.at = w.at - n /\ w.size = w.size + n
    BY <1>2, <1>3
  <2> HIDE DEF n, d
  <2> QED BY <1>3, <2>2, <2>3 DEF n, d
<1>4. CASE \E b \in B : b.use = "free" /\ Next2(b, w) /\ n = b.size
  <2> HIDE DEF n
  <2>1. PICK b \in B : b.use = "free" /\ Next2(b, w) /\ n = b.size
    BY <1>4
  <2>2. b.at \in 1 .. 7 /\ b.size \in 1 .. 7
    BY <1>1, BlockFacts
  <2>3. b.at + b.size = w.at
    BY <2>1 DEF Next2
  <2>4. n # 0 /\ w.at - n = b.at
    BY <1>2, <2>1, <2>2, <2>3
  <2>5. d = P!unlink(c, b.size, b.at)
    BY <1>5, <2>1, <2>4
  <2>6. PICK C, v : /\ Joined(c, B, P!unlink(c, b.size, b.at), C, v)
                    /\ v.at = (IF Next2(b, w) THEN b.at ELSE w.at)
                    /\ v.size = w.size + b.size
                    /\ b \notin C
    BY <2>1, Joining
  <2>7. v.at = w.at - n /\ v.size = w.size + n /\ v.at = b.at
    BY <2>1, <2>4, <2>6
  <2>8. ASSUME NEW e \in C, e.use = "free", Next2(e, v) PROVE FALSE
    <3>1. e \in B
      BY <2>6, <2>8 DEF Joined
    <3>2. Next2(e, b)
      BY <2>7, <2>8 DEF Next2
    <3> QED BY <1>1, <2>1, <2>8, <3>1, <3>2 DEF Mem, Layout
  <2> HIDE DEF d
  <2>9. n \in 0 .. 7
    BY <2>1, <2>2
  <2> QED BY <2>5, <2>6, <2>7, <2>8, <2>9 DEF n, d
<1> QED BY <1>3, <1>4, SpanBefore

LEMMA MergeAfter ==
    ASSUME NEW c, NEW B, NEW w, AtWork(c, B, w)
    PROVE  /\ SizeAfter(c, w) \in 0 .. 7
           /\ \E C, v : /\ Joined(c, B, MergedAfter(c, w), C, v)
                        /\ v.at = w.at /\ v.size = w.size + SizeAfter(c, w)
                        /\ \A b \in C : b.use = "free" => ~Next2(v, b)
<1> DEFINE n == SizeAfter(c, w)
           d == MergedAfter(c, w)
<1>5. d = IF n = 0 THEN c ELSE P!unlink(c, n, w.at + w.size)
  BY DEF MergedAfter
<1>1. Mem(c, B) /\ w \in B /\ w.use = "work"
  BY DEF AtWork
<1>2. w.at \in 1 .. 7 /\ w.size \in 1 .. 7
  BY <1>1, BlockFacts
<1>3. CASE n = 0 /\ \A b \in B : b.use = "free" => ~Next2(w, b)
  <2>1. d = c
    BY <1>3, <1>5
  <2>2. Joined(c, B, d, B, w)
    BY <2>1 DEF Joined
  <2>3. w.size = w.size + n
    BY <1>2, <1>3
  <2> HIDE DEF n, d
  <2> QED BY <1>3, <2>2, <2>3 DEF n, d
<1>4. CASE \E b \in B : b.use = "free" /\ Next2(w, b) /\ n = b.size
  <2> HIDE DEF n
  <2>1. PICK b \in B : b.use = "free" /\ Next2(w, b) /\ n = b.size
    BY <1>4
  <2>2. b.at \in 1 .. 7 /\ b.size \in 1 .. 7
    BY <1>1, BlockFacts
  <2>3. w.at + w.size = b.at
    BY <2>1 DEF Next2
  <2>4. n # 0 /\ ~Next2(b, w)
    BY <1>2, <2>1, <2>2, <2>3 DEF Next2
  <2>5. d = P!unlink(c, b.size, b.at)
    BY <1>5, <2>1, <2>3, <2>4
  <2>6. PICK C, v : /\ Joined(c, B, P!unlink(c, b.size, b.at), C, v)
                    /\ v.at = (IF Next2(b, w) THEN b.at ELSE w.at)
                    /\ v.size = w.size + b.size
                    /\ b \notin C
    BY <2>1, Joining
  <2>7. v.at = w.at /\ v.size = w.size + n /\ v.at + v.size = b.at + b.size
    BY <1>2, <2>1, <2>2, <2>3, <2>4, <2>6
  <2>8. ASSUME NEW e \in C, e.use = "free", Next2(v, e) PROVE FALSE
    <3>1. e \in B
      BY <2>6, <2>8 DEF Joined
    <3>2. Next2(b, e)
      BY <2>7, <2>8 DEF Next2
    <3> QED BY <1>1, <2>1, <2>8, <3>1, <3>2 DEF Mem, Layout
  <2> HIDE DEF d
  <2>9. n \in 0 .. 7
    BY <2>1, <2>2
  <2> QED BY <2>5, <2>6, <2>7, <2>8, <2>9 DEF n, d
<1> QED BY <1>3, <1>4, SpanAfter

\* free_span of what an operation has in its hands.
LEMMA FreeSpan ==
    ASSUME NEW c, NEW B, NEW w, AtWork(c, B, w)
    PROVE  LET d == P!free_span(c, w.at, w.size) IN
           \E C : Mem(d, C) /\ Settled(C) /\ Used(C) = Used(B) /\ SameObjects(c, d)
<1> DEFINE before == SizeBefore(c, w)
           after == SizeAfter(c, w)
           m == MergedBefore(c, w)
           n == IF after = 0 THEN m ELSE P!unlink(m, after, w.at + w.size)
           d == P!free_span(c, w.at, w.size)
<1>1. w.at \in 1 .. 7 /\ w.size \in 1 .. 7
  BY BlockFacts DEF AtWork
<1>2. PICK C1, v1 : /\ Joined(c, B, m, C1, v1)
                    /\ v1.at = w.at - before /\ v1.size = w.size + before
                    /\ \A b \in C1 : b.use = "free" => ~Next2(b, v1)
  BY MergeBefore
<1>3. d = P!free_span_no_merge(n, w.at - before, w.size + before + after)
  BY Zenon DEF P!free_span, SizeBefore, SizeAfter, MergedBefore
<1>4. before \in 0 .. 7 /\ after \in 0 .. 7
  BY MergeBefore, MergeAfter
<1>5. AtWork(m, C1, v1)
  BY <1>2 DEF Joined
<1>6. after = SizeAfter(m, v1) /\ v1.at + v1.size = w.at + w.size
  <2>1. v1.at + v1.size = w.at + w.size
    <3> HIDE DEF before
    <3> QED BY <1>1, <1>2, <1>4
  <2>2. m.pages = c.pages
    BY <1>2 DEF Joined
  <2> QED BY <2>1, <2>2 DEF SizeAfter
<1>7. n = MergedAfter(m, v1)
  BY <1>6 DEF MergedAfter
<1>8. PICK C2, v2 : /\ Joined(m, C1, n, C2, v2)
                    /\ v2.at = v1.at /\ v2.size = v1.size + after
                    /\ \A b \in C2 : b.use = "free" => ~Next2(v2, b)
  <2> HIDE DEF n, m
  <2> QED BY <1>5, <1>6, <1>7, MergeAfter
<1>9. v2.at = w.at - before /\ v2.size = w.size + before + after
  BY <1>2, <1>8
<1> HIDE DEF before, after, m, n, d
<1>10. d = P!free_span_no_merge(n, v2.at, v2.size)
  BY <1>3, <1>9
<1>11. Alone(C2, v2)
  <2>1. \A b \in C2 : b.use = "free" => b \in C1
    BY <1>8 DEF Joined
  <2>2. \A b : Next2(b, v2) <=> Next2(b, v1)
    BY <1>8 DEF Next2
  <2> QED BY <1>2, <1>8, <2>1, <2>2 DEF Alone
<1>12. Mem(n, C2) /\ v2 \in C2 /\ v2.use = "work" /\ \A b \in C2 : b.use = "work" => b = v2
  BY <1>8 DEF Joined, AtWork
<1> DEFINE C == As(C2, v2, "free")
           v == [v2 EXCEPT !.use = "free"]
<1>13. Mem(d, C) /\ SameObjects(n, d)
  BY <1>10, <1>11, <1>12, Linked
<1>14. v.use = "free" /\ C = (C2 \ {v2}) \cup {v}
  <2>1. v2 \in Blocks
    BY <1>12, BlockFacts
  <2> QED BY <2>1 DEF Blocks, As
<1> HIDE DEF C, v
<1>15. Settled(C)
  BY <1>12, <1>14 DEF Settled
<1>16. Used(C) = Used(B)
  <2>1. Used(C) = Used(C2)
    BY <1>12, <1>14 DEF Used
  <2> QED BY <1>2, <1>8, <2>1 DEF Joined
<1>17. SameObjects(c, d)
  <2>1. n.pages = c.pages /\ n.nr_pages = c.nr_pages
    BY <1>2, <1>8 DEF Joined
  <2> QED BY <1>13, <2>1 DEF SameObjects
<1> QED BY <1>13, <1>15, <1>16, <1>17 DEF d

-----------------------------------------------------------------------------
(* find_and_unlink_span. *)

LEMMA LeastFact ==
    ASSUME NEW K \in SUBSET Nat, K # {}
    PROVE  P!Least(K) \in K
BY LeastNatural, Zenon DEF P!Least

\* find_and_unlink_span finds a free span that is large enough, or none.
LEMMA Found ==
    ASSUME NEW c, NEW B, Mem(c, B), NEW n \in 1 .. 8
    PROVE  \/ P!FindSpan(c, n) = 0
           \/ \E b \in B : b.use = "free" /\ b.at = P!FindSpan(c, n) /\ b.size >= n
<1> DEFINE lists == {i \in P!List : i >= P!index_of_conservative(n) /\ c.free_spans[i] # << >>}
           rest == c.free_spans[P!index_of(n)]
           fits == {j \in DOMAIN rest : c.pages[rest[j]].span_size >= n}
<1>1. P!FindSpan(c, n) = IF lists # {} THEN Head(c.free_spans[P!Least(lists)])
                         ELSE IF fits # {} THEN rest[P!Least(fits)] ELSE 0
  BY Zenon DEF P!FindSpan
<1>2. c.free_spans \in [0 .. 8 -> Seq(0 .. 8)]
  BY DEF Mem, CpuRec
<1>3. \A i \in 0 .. 8, p \in 0 .. 8 :
          p \in PagesIn(c.free_spans[i]) =>
             \E b \in B : b.use = "free" /\ b.at = p /\ P!index_of(b.size) = i
  BY DEF Mem, InLists
<1>4. CASE lists # {}
  <2> DEFINE i == P!Least(lists)
  <2>1. lists \in SUBSET Nat
    BY PageFacts
  <2>2. i \in lists
    <3> HIDE DEF lists
    <3> QED BY <1>4, <2>1, LeastFact
  <2>3. i \in 0 .. 8 /\ i >= P!index_of_conservative(n) /\ c.free_spans[i] # << >>
    BY <2>2, PageFacts, SMTT(40)
  <2>4. P!FindSpan(c, n) = Head(c.free_spans[i])
    BY <1>1, <1>4
  <2> HIDE DEF i
  <2>5. Head(c.free_spans[i]) \in 0 .. 8 /\ Head(c.free_spans[i]) \in PagesIn(c.free_spans[i])
    <3>1. c.free_spans[i] \in Seq(0 .. 8) /\ c.free_spans[i] # << >>
      BY <1>2, <2>3
    <3> QED BY <3>1 DEF PagesIn
  <2>6. PICK b \in B : b.use = "free" /\ b.at = Head(c.free_spans[i]) /\ P!index_of(b.size) = i
    BY <1>3, <2>3, <2>5
  <2>7. b.size \in 1 .. 8
    BY BlockFacts
  <2> QED BY <2>3, <2>4, <2>6, <2>7, ConservativeIndex
<1>5. CASE lists = {} /\ fits # {}
  <2> DEFINE j == P!Least(fits)
             i == P!index_of(n)
  <2>1. i \in 0 .. 8
    BY IndexOf
  <2>2. rest \in Seq(0 .. 8)
    BY <1>2, <2>1
  <2>3. fits \in SUBSET Nat
    <3> HIDE DEF rest
    <3> QED BY <2>2
  <2>4. j \in fits
    <3> HIDE DEF fits
    <3> QED BY <1>5, <2>3, LeastFact
  <2>5. j \in DOMAIN rest /\ c.pages[rest[j]].span_size >= n
    BY <2>4, ZenonT(60)
  <2>6. rest[j] \in 0 .. 8 /\ rest[j] \in PagesIn(c.free_spans[i])
    <3> HIDE DEF j, fits
    <3>1. rest[j] \in 0 .. 8
      <4> HIDE DEF rest
      <4> QED BY <2>2, <2>5, SMTT(40)
    <3> QED BY <2>5, <3>1 DEF PagesIn
  <2>7. P!FindSpan(c, n) = rest[j]
    BY <1>1, <1>5
  <2> HIDE DEF j, rest, fits
  <2>8. PICK b \in B : b.use = "free" /\ b.at = rest[j]
    BY <1>3, <2>1, <2>6
  <2>9. c.pages[b.at].span_size = b.size
    BY <2>8, SMTT(40) DEF Mem, Marked
  <2> QED BY <2>5, <2>7, <2>8, <2>9
<1>6. CASE lists = {} /\ fits = {}
  BY <1>1, <1>6
<1> QED BY <1>4, <1>5, <1>6

\* The front of a block at work that is next to no free span goes back.
LEMMA CutFront ==
    ASSUME NEW c, NEW B, NEW w, AtWork(c, B, w), Alone(B, w), NEW k \in 1 .. w.size - 1
    PROVE  \E C, v : /\ AtWork(P!free_span_no_merge(c, w.at, k), C, v)
                     /\ SameObjects(c, P!free_span_no_merge(c, w.at, k))
                     /\ v.at = w.at + k /\ v.size = w.size - k
                     /\ Used(C) = Used(B)
                     /\ \A b \in C : b.use = "free" => ~Next2(v, b)
<1> DEFINE d == P!free_span_no_merge(c, w.at, k)
           f == Front(w, k)
           v == Back(w, k)
           A == Split(B, w, k)
           C == As(A, f, "free")
           g == [f EXCEPT !.use = "free"]
<1>1. Mem(c, B) /\ w \in B /\ w.use = "work" /\ \A b \in B : b.use = "work" => b = w
  BY DEF AtWork
<1>2. w.at \in 1 .. 7 /\ w.size \in 1 .. 7 /\ w \in Blocks /\ k \in 1 .. 7 /\ k < w.size
  BY <1>1, BlockFacts
<1>3. /\ f.at = w.at /\ f.size = k /\ f.use = "work"
      /\ v.at = w.at + k /\ v.size = w.size - k /\ v.use = "work"
      /\ g.at = w.at /\ g.size = k /\ g.use = "free"
      /\ A = (B \ {w}) \cup {f, v} /\ C = (A \ {f}) \cup {g}
  BY DEF Front, Back, Split, As
<1>4. Mem(c, A)
  BY <1>1, Divided
<1> HIDE DEF d, f, v, A, C, g
<1>5. f \in A /\ v \in A /\ f # v
  BY <1>2, <1>3
<1>6. \A e \in A : e.use = "free" => e \in B
  BY <1>3
<1>7. Alone(A, f)
  <2> SUFFICES ASSUME NEW e \in A, e.use = "free" PROVE ~Next2(f, e) /\ ~Next2(e, f)
    BY DEF Alone
  <2>1. e \in B /\ ~Next2(e, w)
    BY <1>6 DEF Alone
  <2>2. ~Next2(e, f)
    BY <1>3, <2>1 DEF Next2
  <2>3. e # v /\ e.at \in 1 .. 7 /\ e.size \in 1 .. 7 /\ v.at \in 1 .. 7 /\ v.size \in 1 .. 7 /\ Apart(e, v)
    BY <1>3, <1>4, <1>5, BlockFacts
  <2>4. ~Next2(f, e)
    BY <1>2, <1>3, <2>3 DEF Next2, Apart
  <2> QED BY <2>2, <2>4
<1>8. Mem(d, C) /\ SameObjects(c, d)
  <2>1. d = P!free_span_no_merge(c, f.at, f.size)
    BY <1>3 DEF d
  <2> QED BY <1>3, <1>4, <1>5, <1>7, <2>1, Linked DEF C
<1>9. AtWork(d, C, v)
  <2>1. v \in C /\ v.use = "work"
    BY <1>3, <1>5
  <2>2. \A b \in C : b.use = "work" => b = v
    BY <1>1, <1>3
  <2> QED BY <1>8, <2>1, <2>2 DEF AtWork
<1>10. Used(C) = Used(B)
  BY <1>1, <1>3 DEF Used
<1>11. ASSUME NEW b \in C, b.use = "free" PROVE ~Next2(v, b)
  <2>1. CASE b = g
    BY <1>2, <1>3, <2>1 DEF Next2
  <2>2. CASE b # g
    <3>1. b \in B /\ ~Next2(w, b)
      BY <1>3, <1>6, <1>11, <2>2 DEF Alone
    <3>2. v.at + v.size = w.at + w.size
      BY <1>2, <1>3
    <3> QED BY <3>1, <3>2 DEF Next2
  <2> QED BY <2>1, <2>2
<1> QED BY <1>3, <1>8, <1>9, <1>10, <1>11 DEF d

\* And the end of one that is next to no free span there.
LEMMA CutBack ==
    ASSUME NEW c, NEW B, NEW w, AtWork(c, B, w), \A b \in B : b.use = "free" => ~Next2(w, b),
           NEW k \in 1 .. w.size - 1
    PROVE  \E C, v : /\ AtWork(P!free_span_no_merge(c, w.at + k, w.size - k), C, v)
                     /\ SameObjects(c, P!free_span_no_merge(c, w.at + k, w.size - k))
                     /\ v.at = w.at /\ v.size = k
                     /\ Used(C) = Used(B)
<1> DEFINE d == P!free_span_no_merge(c, w.at + k, w.size - k)
           v == Front(w, k)
           f == Back(w, k)
           A == Split(B, w, k)
           C == As(A, f, "free")
           g == [f EXCEPT !.use = "free"]
<1>1. Mem(c, B) /\ w \in B /\ w.use = "work" /\ \A b \in B : b.use = "work" => b = w
  BY DEF AtWork
<1>2. w.at \in 1 .. 7 /\ w.size \in 1 .. 7 /\ w \in Blocks /\ k \in 1 .. 7 /\ k < w.size
  BY <1>1, BlockFacts
<1>3. /\ v.at = w.at /\ v.size = k /\ v.use = "work"
      /\ f.at = w.at + k /\ f.size = w.size - k /\ f.use = "work"
      /\ g.at = w.at + k /\ g.size = w.size - k /\ g.use = "free"
      /\ A = (B \ {w}) \cup {v, f} /\ C = (A \ {f}) \cup {g}
  BY DEF Front, Back, Split, As
<1>4. Mem(c, A)
  BY <1>1, Divided
<1> HIDE DEF d, f, v, A, C, g
<1>5. f \in A /\ v \in A /\ f # v
  BY <1>2, <1>3
<1>6. \A e \in A : e.use = "free" => e \in B
  BY <1>3
<1>7. Alone(A, f)
  <2> SUFFICES ASSUME NEW e \in A, e.use = "free" PROVE ~Next2(f, e) /\ ~Next2(e, f)
    BY DEF Alone
  <2>1. e \in B /\ ~Next2(w, e)
    BY <1>6
  <2>2. ~Next2(f, e)
    <3>1. w.at \in Int /\ w.size \in Int /\ k \in Int
      BY <1>2
    <3>2. (w.at + k) + (w.size - k) = w.at + w.size
      BY <3>1
    <3>3. f.at = w.at + k /\ f.size = w.size - k
      BY <1>3
    <3>4. f.at + f.size = w.at + w.size
      BY <3>2, <3>3
    <3> QED BY <2>1, <3>4 DEF Next2
  <2>3. e # v /\ e.at \in 1 .. 7 /\ e.size \in 1 .. 7 /\ v.at \in 1 .. 7 /\ v.size \in 1 .. 7 /\ Apart(e, v)
    BY <1>3, <1>4, <1>5, BlockFacts
  <2>4. ~Next2(e, f)
    BY <1>2, <1>3, <2>3 DEF Next2, Apart
  <2> QED BY <2>2, <2>4
<1>8. Mem(d, C) /\ SameObjects(c, d)
  <2>1. d = P!free_span_no_merge(c, f.at, f.size)
    BY <1>3 DEF d
  <2> QED BY <1>3, <1>4, <1>5, <1>7, <2>1, Linked DEF C
<1>9. AtWork(d, C, v)
  <2>1. v \in C /\ v.use = "work"
    BY <1>3, <1>5
  <2>2. \A b \in C : b.use = "work" => b = v
    BY <1>1, <1>3
  <2> QED BY <1>8, <2>1, <2>2 DEF AtWork
<1>10. Used(C) = Used(B)
  BY <1>1, <1>3 DEF Used
<1> QED BY <1>3, <1>8, <1>9, <1>10 DEF d

-----------------------------------------------------------------------------
(* allocate_large_and_trim. *)

\* One page is described anew.
Anew(c, p, r) == [c EXCEPT !.pages = [c.pages EXCEPT ![p] = r]]

PageIs(c, d, p, r) ==
    /\ d \in CpuRec /\ d.pages[p] = r
    /\ \A q \in 0 .. 8 : q # p => d.pages[q] = c.pages[q]
    /\ d.nr_pages = c.nr_pages /\ d.free_spans = c.free_spans
    /\ d.nr_free_pages = c.nr_free_pages

LEMMA OnePage ==
    ASSUME NEW c \in CpuRec, NEW p \in 0 .. 8, NEW r \in PageRec
    PROVE  PageIs(c, Anew(c, p, r), p, r)
<1> DEFINE d == Anew(c, p, r)
<1>0. d = [c EXCEPT !.pages = [c.pages EXCEPT ![p] = r]]
  BY DEF Anew
<1> HIDE DEF d
<1>1. c.pages \in [0 .. 8 -> PageRec]
  BY DEF CpuRec
<1>2. d.pages = [c.pages EXCEPT ![p] = r]
  BY <1>0 DEF CpuRec
<1>3. d.nr_pages = c.nr_pages /\ d.free_spans = c.free_spans /\ d.nr_free_pages = c.nr_free_pages
  BY <1>0 DEF CpuRec
<1>4. d.pages \in [0 .. 8 -> PageRec]
  BY <1>1, <1>2
<1>5. d = [pages |-> d.pages, free_spans |-> d.free_spans, nr_pages |-> d.nr_pages,
           nr_free_pages |-> d.nr_free_pages]
  BY <1>0 DEF CpuRec
<1>6. d \in CpuRec
  BY <1>3, <1>4, <1>5 DEF CpuRec
<1> QED BY <1>1, <1>2, <1>3, <1>6 DEF PageIs, d

LEMMA SameTwice ==
    ASSUME NEW c, NEW d, NEW e, SameObjects(c, d), SameObjects(d, e)
    PROVE  SameObjects(c, e)
BY DEF SameObjects

\* n pages of a span are taken; what is before them and after them goes back.
CutOut(c, s, whole, offset, n) ==
    LET taken == P!unlink(c, whole, s)
        front == IF offset = 0 THEN taken ELSE P!free_span_no_merge(taken, s, offset)
        back  == IF n = whole - offset THEN front
                 ELSE P!free_span_no_merge(front, s + offset + n, whole - offset - n)
    IN P!Mark(back, s + offset, n, FALSE)

LargeBlock(p, n) == [at |-> p, size |-> n, use |-> "large"]

LEMMA Cutting ==
    ASSUME NEW c, NEW B, Mem(c, B), Settled(B), NEW b \in B, b.use = "free",
           NEW offset \in 0 .. b.size - 1, NEW n \in 1 .. b.size - offset
    PROVE  \E C : /\ Mem(CutOut(c, b.at, b.size, offset, n), C) /\ Settled(C)
                  /\ Used(C) = Used(B) \cup {LargeBlock(b.at + offset, n)}
                  /\ LargeBlock(b.at + offset, n) \notin Used(B)
                  /\ SameObjects(c, CutOut(c, b.at, b.size, offset, n))
<1> DEFINE taken == P!unlink(c, b.size, b.at)
           front == IF offset = 0 THEN taken ELSE P!free_span_no_merge(taken, b.at, offset)
           back  == IF n = b.size - offset THEN front
                    ELSE P!free_span_no_merge(front, b.at + offset + n, b.size - offset - n)
           d == P!Mark(back, b.at + offset, n, FALSE)
           A == As(B, b, "work")
           w == [b EXCEPT !.use = "work"]
<1>1. d = CutOut(c, b.at, b.size, offset, n)
  BY DEF CutOut
<1>2. b.at \in 1 .. 7 /\ b.size \in 1 .. 7 /\ b \in Blocks
  BY BlockFacts
<1>3. w.at = b.at /\ w.size = b.size /\ w.use = "work" /\ A = (B \ {b}) \cup {w}
  BY <1>2 DEF Blocks, As
<1>4. Mem(taken, A) /\ SameObjects(c, taken)
  BY Unlinked DEF SameObjects
<1>5. taken = P!unlink(c, b.size, b.at) /\ (offset = 0 => front = taken)
      /\ (offset # 0 => front = P!free_span_no_merge(taken, b.at, offset))
      /\ (n = b.size - offset => back = front)
      /\ (n # b.size - offset =>
             back = P!free_span_no_merge(front, b.at + offset + n, b.size - offset - n))
  OBVIOUS
<1> HIDE DEF taken, front, back, d, A, w
<1>6. AtWork(taken, A, w)
  BY <1>3, <1>4 DEF AtWork, Settled
<1>7. Alone(A, w)
  <2> SUFFICES ASSUME NEW e \in A, e.use = "free" PROVE ~Next2(w, e) /\ ~Next2(e, w)
    BY DEF Alone
  <2>1. e \in B
    BY <1>3
  <2>2. ~Next2(b, e) /\ ~Next2(e, b)
    BY <2>1 DEF Mem, Layout
  <2> QED BY <1>3, <2>2 DEF Next2
<1>8. Used(A) = Used(B)
  BY <1>3 DEF Used
<1>9. \E C, v : /\ AtWork(front, C, v) /\ SameObjects(taken, front)
                /\ v.at = b.at + offset /\ v.size = b.size - offset
                /\ Used(C) = Used(B)
                /\ \A e \in C : e.use = "free" => ~Next2(v, e)
  <2>1. CASE offset = 0
    <3>1. b.at + offset = b.at /\ b.size - offset = b.size
      BY <1>2, <2>1
    <3>2. SameObjects(taken, taken)
      BY DEF SameObjects
    <3>3. \A e \in A : e.use = "free" => ~Next2(w, e)
      BY <1>7 DEF Alone
    <3> QED BY <1>3, <1>5, <1>6, <1>8, <2>1, <3>1, <3>2, <3>3
  <2>2. CASE offset # 0
    <3>1. offset \in 1 .. w.size - 1
      BY <1>2, <1>3, <2>2
    <3>2. \E C, v : /\ AtWork(P!free_span_no_merge(taken, w.at, offset), C, v)
                    /\ SameObjects(taken, P!free_span_no_merge(taken, w.at, offset))
                    /\ v.at = w.at + offset /\ v.size = w.size - offset
                    /\ Used(C) = Used(A)
                    /\ \A e \in C : e.use = "free" => ~Next2(v, e)
      BY <1>6, <1>7, <3>1, CutFront
    <3> QED BY <1>3, <1>5, <1>8, <2>2, <3>2
  <2> QED BY <2>1, <2>2
<1>10. PICK C2, v2 : /\ AtWork(front, C2, v2) /\ SameObjects(taken, front)
                     /\ v2.at = b.at + offset /\ v2.size = b.size - offset
                     /\ Used(C2) = Used(B)
                     /\ \A e \in C2 : e.use = "free" => ~Next2(v2, e)
  BY <1>9
<1>11. \E C, v : /\ AtWork(back, C, v) /\ SameObjects(front, back)
                 /\ v.at = b.at + offset /\ v.size = n
                 /\ Used(C) = Used(B)
  <2>1. CASE n = b.size - offset
    <3>1. SameObjects(front, front)
      BY DEF SameObjects
    <3> QED BY <1>5, <1>10, <2>1, <3>1
  <2>2. CASE n # b.size - offset
    <3>1. n \in 1 .. v2.size - 1
      BY <1>2, <1>10, <2>2
    <3>2. \E C, v : /\ AtWork(P!free_span_no_merge(front, v2.at + n, v2.size - n), C, v)
                    /\ SameObjects(front, P!free_span_no_merge(front, v2.at + n, v2.size - n))
                    /\ v.at = v2.at /\ v.size = n
                    /\ Used(C) = Used(C2)
      BY <1>10, <3>1, CutBack
    <3> QED BY <1>5, <1>10, <2>2, <3>2
  <2> QED BY <2>1, <2>2
<1>12. PICK C3, v3 : /\ AtWork(back, C3, v3) /\ SameObjects(front, back)
                     /\ v3.at = b.at + offset /\ v3.size = n
                     /\ Used(C3) = Used(B)
  BY <1>11
<1> DEFINE C == As(C3, v3, "large")
<1>13. Mem(d, C) /\ SameObjects(back, d)
  <2>1. d = P!Mark(back, v3.at, v3.size, FALSE)
    BY <1>12 DEF d
  <2>2. Mem(back, C3) /\ v3 \in C3 /\ v3.use = "work"
    BY <1>12 DEF AtWork
  <2> QED BY <2>1, <2>2, Taken
<1>14. [v3 EXCEPT !.use = "large"] = LargeBlock(b.at + offset, n)
  <2>1. v3 \in Blocks
    BY <1>12, BlockFacts DEF AtWork
  <2> QED BY <1>12, <2>1 DEF Blocks, LargeBlock
<1>15. C = (C3 \ {v3}) \cup {LargeBlock(b.at + offset, n)}
  BY <1>14 DEF As
<1> HIDE DEF C
<1>16. LargeBlock(b.at + offset, n).use = "large"
  BY DEF LargeBlock
<1>17. v3.use = "work" /\ \A e \in C3 : e.use = "work" => e = v3
  BY <1>12 DEF AtWork
<1>18. Settled(C)
  BY <1>15, <1>16, <1>17 DEF Settled
<1>19. Used(C) = Used(B) \cup {LargeBlock(b.at + offset, n)}
  BY <1>12, <1>15, <1>16, <1>17 DEF Used
<1>20. SameObjects(c, d)
  <2>1. SameObjects(c, front)
    BY <1>4, <1>10, SameTwice
  <2>2. SameObjects(c, back)
    BY <1>12, <2>1, SameTwice
  <2> QED BY <1>13, <2>2, SameTwice
<1>21. LargeBlock(b.at + offset, n) \notin Used(B)
  <2> SUFFICES ASSUME LargeBlock(b.at + offset, n) \in B PROVE FALSE
    BY DEF Used
  <2> DEFINE e == LargeBlock(b.at + offset, n)
  <2>1. e.at = b.at + offset /\ e.size = n /\ e.use = "large"
    BY DEF LargeBlock
  <2> HIDE DEF e
  <2>2. e = b \/ Apart(e, b)
    BY BlockFacts DEF e
  <2>3. Apart(e, b)
    BY <2>1, <2>2
  <2> QED BY <1>2, <2>1, <2>3 DEF Apart
<1> QED BY <1>1, <1>13, <1>18, <1>19, <1>20, <1>21

\* The pool flag of one page is cleared; all other fields of pages that tell of
\* objects are kept.
PoolCleared(c, d, p) ==
    /\ d.nr_pages = c.nr_pages
    /\ \A q \in 0 .. 8 : /\ IF q = p THEN ~d.pages[q].pool ELSE d.pages[q].pool = c.pages[q].pool
                         /\ d.pages[q].freelist = c.pages[q].freelist
                         /\ d.pages[q].nr_small_alloc = c.pages[q].nr_small_alloc

Got(c, B, n, got) ==
    /\ got.page \in 1 .. 7
    /\ PoolCleared(c, got.cpu, got.page)
    /\ \E C : /\ Mem(got.cpu, C) /\ Settled(C)
              /\ Used(C) = Used(B) \cup {LargeBlock(got.page, n)}
              /\ LargeBlock(got.page, n) \notin Used(B)

\* allocate_large_and_trim takes a block, or nothing.
LEMMA Allocation ==
    ASSUME NEW c, NEW B, Mem(c, B), Settled(B), NEW align \in {1, 2}, NEW n \in Nat \ {0}
    PROVE  \/ P!Allocate(c, align, n) = [cpu |-> c, page |-> 0]
           \/ Got(c, B, n, P!Allocate(c, align, n))
<1> DEFINE s == IF n + align - 1 >= c.nr_pages THEN 0 ELSE P!FindSpan(c, n + align - 1)
           whole == c.pages[s].span_size
           offset == (align - (s % align)) % align
           d == CutOut(c, s, whole, offset, n)
           e == [d EXCEPT !.pages[s + offset].pool = FALSE]
<1>1. P!Allocate(c, align, n) = IF s = 0 THEN [cpu |-> c, page |-> 0]
                                ELSE [cpu |-> e, page |-> s + offset]
  BY ZenonT(60) DEF P!Allocate, CutOut
<1>2. CASE s = 0
  BY <1>1, <1>2, ZenonT(60)
<1>3. CASE s # 0
  <2>1. c.nr_pages \in {5, 8}
    BY DEF Mem, CpuRec
  <2>2. n + align - 1 \in 1 .. 8 /\ n + align - 1 < c.nr_pages /\ s = P!FindSpan(c, n + align - 1)
    BY <1>3, <2>1
  <2>3. PICK b \in B : b.use = "free" /\ b.at = s /\ b.size >= n + align - 1
    BY <1>3, <2>2, Found
  <2>4. whole = b.size
    BY <2>3 DEF Mem, Marked
  <2>5. b.at \in 1 .. 7 /\ b.size \in 1 .. 7 /\ b.at + b.size <= 8
    BY <2>1, BlockFacts
  <2>6. offset \in 0 .. align - 1
    <3>1. s \in 1 .. 7
      BY <2>3, <2>5
    <3> HIDE DEF s
    <3>2. CASE align = 1
      <4>1. s % 1 = 0 /\ 1 % 1 = 0 /\ 1 - 0 = 1
        BY <3>1
      <4> QED BY <3>2, <4>1
    <3>3. CASE align = 2
      <4>1. s % 2 = 0 \/ s % 2 = 1
        BY <3>1
      <4>2. 2 % 2 = 0 /\ 1 % 2 = 1 /\ 2 - 0 = 2 /\ 2 - 1 = 1
        OBVIOUS
      <4> QED BY <3>3, <4>1, <4>2
    <3> QED BY <3>2, <3>3
  <2> HIDE DEF offset
  <2>7. offset \in 0 .. b.size - 1 /\ n \in 1 .. b.size - offset
    BY <2>3, <2>5, <2>6
  <2>8. b.at + offset \in 1 .. 7
    BY <2>5, <2>7
  <2> DEFINE k == s + offset
  <2>9. PICK C : /\ Mem(d, C) /\ Settled(C)
                 /\ Used(C) = Used(B) \cup {LargeBlock(k, n)}
                 /\ LargeBlock(k, n) \notin Used(B)
                 /\ SameObjects(c, d)
    <3> HIDE DEF s, whole
    <3> QED BY <2>3, <2>4, <2>7, Cutting
  <2>10. k \in 1 .. 7
    BY <2>3, <2>8
  <2>11. e = [d EXCEPT !.pages = [d.pages EXCEPT ![k] = [d.pages[k] EXCEPT !.pool = FALSE]]]
    BY SMTT(40)
  <2>12. d \in CpuRec
    BY <2>9, SMTT(40) DEF Mem
  <2>13. P!Allocate(c, align, n) = [cpu |-> e, page |-> k]
    BY <1>1, <1>3, ZenonT(60)
  <2> HIDE DEF d, k, e, s, whole
  <2>14. d.pages[k] \in PageRec
    BY <2>10, <2>12, SMTT(40) DEF CpuRec
  <2> DEFINE r == [d.pages[k] EXCEPT !.pool = FALSE]
  <2>15. /\ r \in PageRec /\ r.pool = FALSE /\ r.free = d.pages[k].free /\ r.span_size = d.pages[k].span_size
         /\ r.freelist = d.pages[k].freelist /\ r.nr_small_alloc = d.pages[k].nr_small_alloc
    BY <2>14 DEF PageRec
  <2>16. PageIs(d, e, k, r)
    <3>1. e = Anew(d, k, r)
      BY <2>11 DEF Anew
    <3>2. r \in PageRec
      BY <2>15
    <3>3. k \in 0 .. 8
      BY <2>10
    <3> HIDE DEF r
    <3> QED BY <2>12, <3>1, <3>2, <3>3, OnePage
  <2> HIDE DEF r
  <2>17. SameSpans(d, e)
    BY <2>15, <2>16, SMTT(40) DEF SameSpans, PageIs
  <2>18. Mem(e, C)
    BY <2>9, <2>16, <2>17, OtherFields DEF PageIs
  <2>19. PoolCleared(c, e, k)
    BY <2>9, <2>15, <2>16, SMTT(40) DEF PoolCleared, SameObjects, PageIs
  <2>20. Got(c, B, n, [cpu |-> e, page |-> k])
    BY <2>9, <2>10, <2>18, <2>19 DEF Got
  <2> QED BY <2>13, <2>20
<1> QED BY <1>2, <1>3

-----------------------------------------------------------------------------
(* The small_pool, and a memory that is good: the objects of its pages are *)
(* all accounted for, and its blocks are those expected.                  *)

LEMMA PageSizes == \A S : P!Cardinality(S) = Cardinality(S)
BY Zenon DEF P!Cardinality, Cardinality

\* The objects of a page.
LEMMA ObjectFacts ==
    /\ Slots \in Nat \ {0}
    /\ P!Object = (0 .. 8) \X (1 .. Slots)
    /\ \A o \in P!Object : o[1] \in 0 .. 8 /\ o \in P!ObjectsOf(o[1])
    /\ \A p \in 0 .. 8 : /\ P!ObjectsOf(p) \subseteq P!Object /\ P!ObjectsOf(p) # {}
                         /\ IsFiniteSet(P!ObjectsOf(p)) /\ Cardinality(P!ObjectsOf(p)) = Slots
    /\ \A p : \A o \in P!ObjectsOf(p) : o[1] = p
    /\ IsFiniteSet(P!Object)
<1>1. Slots \in Nat \ {0}
  BY PagesAssumption
<1>2. P!Object = (0 .. 8) \X (1 .. Slots)
  BY PageFacts DEF P!Object
<1>3. \A o \in P!Object : o[1] \in 0 .. 8 /\ o \in P!ObjectsOf(o[1])
  BY <1>2 DEF P!ObjectsOf
<1>4. ASSUME NEW p \in 0 .. 8 PROVE P!ObjectsOf(p) \subseteq P!Object /\ P!ObjectsOf(p) # {}
  <2>1. <<p, 1>> \in P!ObjectsOf(p)
    BY <1>1 DEF P!ObjectsOf
  <2> QED BY <1>2, <2>1 DEF P!ObjectsOf
<1>5. \A p : \A o \in P!ObjectsOf(p) : o[1] = p
  BY DEF P!ObjectsOf
<1>6. IsFiniteSet(1 .. Slots) /\ Cardinality(1 .. Slots) = Slots
  <2>1. 1 \in Int /\ Slots \in Int /\ ~(1 > Slots) /\ Slots - 1 + 1 = Slots
    BY <1>1
  <2>2. /\ IsFiniteSet(1 .. Slots)
        /\ Cardinality(1 .. Slots) = IF 1 > Slots THEN 0 ELSE Slots - 1 + 1
    BY <2>1, FS_Interval
  <2> QED BY <2>1, <2>2
<1>7. ASSUME NEW p \in 0 .. 8
      PROVE  IsFiniteSet(P!ObjectsOf(p)) /\ Cardinality(P!ObjectsOf(p)) = Slots
  <2>1. IsFiniteSet({p}) /\ Cardinality({p}) = 1
    BY FS_Singleton
  <2>2. /\ IsFiniteSet({p} \X (1 .. Slots))
        /\ Cardinality({p} \X (1 .. Slots)) = Cardinality({p}) * Cardinality(1 .. Slots)
    BY <1>6, <2>1, FS_Product
  <2>3. 1 * Slots = Slots
    BY <1>1
  <2> QED BY <1>6, <2>1, <2>2, <2>3 DEF P!ObjectsOf
<1>8. IsFiniteSet(P!Object)
  <2>1. IsFiniteSet(0 .. 8)
    <3>1. 0 \in Int /\ 8 \in Int
      OBVIOUS
    <3> QED BY <3>1, FS_Interval
  <2> QED BY <1>2, <1>6, <2>1, FS_Product
<1> QED BY <1>1, <1>2, <1>3, <1>4, <1>5, <1>7, <1>8

PoolBlock(p) == [at |-> p, size |-> 1, use |-> "pool"]
PoolRec == [free : SUBSET P!Object, span_list : Seq(0 .. 8)]

\* Objects of a page that are not in its list, when those in S are held; the
\* pages of the pool.
OutOf(q, S, p) == P!ObjectsOf(p) \cap (S \cup q.free)
PagesOf(q, S) == {o[1] : o \in S \cup q.free}

PageOfPool(c, q, S, p) ==
    /\ c.pages[p].pool
    /\ c.pages[p].freelist = P!ObjectsOf(p) \ OutOf(q, S, p)
    /\ c.pages[p].nr_small_alloc = Cardinality(OutOf(q, S, p))

Pooling(c, q, S) ==
    /\ q \in PoolRec /\ S \subseteq P!Object /\ S \cap q.free = {}
    /\ \A p \in PagesOf(q, S) : PageOfPool(c, q, S, p)
    /\ Once(q.span_list)
    /\ \A p \in 0 .. 8 : p \in PagesIn(q.span_list) <=>
                            p \in PagesOf(q, S) /\ c.pages[p].freelist # {}

\* The blocks are those in R, and the pages of the pool.
Spread(c, B, q, S, R) ==
    /\ Mem(c, B) /\ Settled(B)
    /\ Used(B) = R \cup {PoolBlock(p) : p \in PagesOf(q, S)}
    /\ \A b \in R : b.use # "pool"
    /\ \A b \in R : b.use = "large" => ~c.pages[b.at].pool

Good(c, q, S, R) == Pooling(c, q, S) /\ \E B : Spread(c, B, q, S, R)

LEMMA PagesOfFacts ==
    ASSUME NEW c, NEW q, NEW S, Pooling(c, q, S)
    PROVE  /\ PagesOf(q, S) \subseteq 0 .. 8
           /\ \A p \in 0 .. 8 : p \in PagesOf(q, S) <=> OutOf(q, S, p) # {}
           /\ \A p \in 0 .. 8 : OutOf(q, S, p) \subseteq P!ObjectsOf(p) /\ IsFiniteSet(OutOf(q, S, p))
<1>1. S \cup q.free \subseteq P!Object
  BY DEF Pooling, PoolRec
<1>2. PagesOf(q, S) \subseteq 0 .. 8
  BY <1>1, ObjectFacts DEF PagesOf
<1>3. ASSUME NEW p \in 0 .. 8 PROVE p \in PagesOf(q, S) <=> OutOf(q, S, p) # {}
  BY <1>1, ObjectFacts DEF PagesOf, OutOf
<1>4. ASSUME NEW p \in 0 .. 8
      PROVE OutOf(q, S, p) \subseteq P!ObjectsOf(p) /\ IsFiniteSet(OutOf(q, S, p))
  <2>1. OutOf(q, S, p) \subseteq P!ObjectsOf(p)
    BY DEF OutOf
  <2>2. IsFiniteSet(P!ObjectsOf(p))
    BY ObjectFacts
  <2> QED BY <2>1, <2>2, FS_Subset
<1> QED BY <1>2, <1>3, <1>4

\* A page of the pool is a block of its own.
LEMMA BlocksOfPool ==
    ASSUME NEW c, NEW B, NEW q, NEW S, NEW R, Spread(c, B, q, S, R), NEW p \in PagesOf(q, S)
    PROVE  /\ PoolBlock(p) \in B /\ PoolBlock(p).at = p /\ PoolBlock(p).size = 1
           /\ PoolBlock(p).use = "pool" /\ p \in 1 .. 7
           /\ c.pages[p].span_size = 1 /\ ~c.pages[p].free
<1>1. PoolBlock(p).at = p /\ PoolBlock(p).size = 1 /\ PoolBlock(p).use = "pool"
  BY DEF PoolBlock
<1>2. PoolBlock(p) \in Used(B)
  BY DEF Spread
<1>3. PoolBlock(p) \in B
  BY <1>2 DEF Used
<1>4. Mem(c, B)
  BY DEF Spread
<1>5. PoolBlock(p).at \in 1 .. 7
  BY <1>3, <1>4, BlockFacts
<1>6. c.pages[PoolBlock(p).at].span_size = PoolBlock(p).size /\ ~c.pages[PoolBlock(p).at].free
  BY <1>1, <1>3, <1>4 DEF Mem, Marked
<1> QED BY <1>1, <1>3, <1>5, <1>6

\* A block that is freed.
LEMMA FreeBlock ==
    ASSUME NEW c, NEW B, Mem(c, B), Settled(B), NEW b \in Used(B)
    PROVE  /\ SameObjects(c, P!free_span(c, b.at, b.size))
           /\ \E C : /\ Mem(P!free_span(c, b.at, b.size), C) /\ Settled(C)
                     /\ Used(C) = Used(B) \ {b}
<1> DEFINE A == As(B, b, "work")
           w == [b EXCEPT !.use = "work"]
<1>1. b \in B /\ b.use \in {"large", "pool", "array"} /\ b \in Blocks
  BY BlockFacts DEF Used
<1>2. w.at = b.at /\ w.size = b.size /\ w.use = "work" /\ A = (B \ {b}) \cup {w}
  BY <1>1 DEF Blocks, As
<1>3. Mem(c, A)
  BY <1>1, Released
<1> HIDE DEF A, w
<1>4. AtWork(c, A, w)
  BY <1>2, <1>3 DEF AtWork, Settled
<1>5. Used(A) = Used(B) \ {b}
  BY <1>2 DEF Used
<1>6. \E C : /\ Mem(P!free_span(c, w.at, w.size), C) /\ Settled(C) /\ Used(C) = Used(A)
             /\ SameObjects(c, P!free_span(c, w.at, w.size))
  BY <1>4, FreeSpan
<1> QED BY <1>2, <1>5, <1>6

PageFields(d, p, flag, objects, nr) ==
    /\ d.pages[p].pool = flag /\ d.pages[p].freelist = objects
    /\ d.pages[p].nr_small_alloc = nr

\* The fields of one page that tell of objects change.
ObjectsSet(c, d, p, flag, objects, nr) ==
    /\ d \in CpuRec /\ SameSpans(c, d) /\ PageFields(d, p, flag, objects, nr)
    /\ \A x \in 0 .. 8 : x # p => d.pages[x] = c.pages[x]

SetObjects(c, p, flag, objects, nr) ==
    Anew(c, p, [c.pages[p] EXCEPT !.pool = flag, !.freelist = objects, !.nr_small_alloc = nr])

LEMMA SettingObjects ==
    ASSUME NEW c \in CpuRec, NEW p \in 0 .. 8, NEW flag \in BOOLEAN,
           NEW objects \in SUBSET P!Object, NEW nr \in 0 .. Slots
    PROVE  ObjectsSet(c, SetObjects(c, p, flag, objects, nr), p, flag, objects, nr)
<1> DEFINE r == [c.pages[p] EXCEPT !.pool = flag, !.freelist = objects, !.nr_small_alloc = nr]
           d == Anew(c, p, r)
<1>1. c.pages[p] \in PageRec
  BY DEF CpuRec
<1>2. r \in PageRec
  BY <1>1 DEF PageRec
<1>3. /\ r.free = c.pages[p].free /\ r.span_size = c.pages[p].span_size
      /\ r.pool = flag /\ r.freelist = objects /\ r.nr_small_alloc = nr
  BY <1>1 DEF PageRec
<1>4. d = SetObjects(c, p, flag, objects, nr)
  BY DEF SetObjects
<1> HIDE DEF r
<1>5. PageIs(c, d, p, r)
  BY <1>2, OnePage
<1> HIDE DEF d
<1>6. SameSpans(c, d)
  BY <1>3, <1>5 DEF SameSpans, PageIs
<1>7. PageFields(d, p, flag, objects, nr)
  BY <1>3, <1>5 DEF PageFields, PageIs
<1> QED BY <1>4, <1>5, <1>6, <1>7 DEF ObjectsSet, PageIs

TrimBack(c, o) ==
    [c EXCEPT !.pages[o[1]].freelist = @ \cup {o}, !.pages[o[1]].nr_small_alloc = @ - 1]
TrimLinked(c, q, o) ==
    IF c.pages[o[1]].freelist = {} THEN <<o[1]>> \o q.span_list ELSE q.span_list

LEMMA TrimBackSets ==
    ASSUME NEW c \in CpuRec, NEW o, o[1] \in 0 .. 8
    PROVE  TrimBack(c, o) = SetObjects(c, o[1], c.pages[o[1]].pool, c.pages[o[1]].freelist \cup {o},
                                       c.pages[o[1]].nr_small_alloc - 1)
<1> DEFINE p == o[1]
           r == c.pages[p]
           s == [r EXCEPT !.freelist = @ \cup {o}]
           t == [s EXCEPT !.nr_small_alloc = @ - 1]
           u == [r EXCEPT !.pool = r.pool, !.freelist = r.freelist \cup {o},
                          !.nr_small_alloc = r.nr_small_alloc - 1]
           e == [c EXCEPT !.pages = [c.pages EXCEPT ![p] = s]]
<1>1. c.pages \in [0 .. 8 -> PageRec] /\ r \in PageRec
  BY DEF CpuRec
<1>2. t = u
  BY <1>1 DEF PageRec
<1>3. TrimBack(c, o) = [e EXCEPT !.pages = [e.pages EXCEPT ![p] = [e.pages[p] EXCEPT !.nr_small_alloc = @ - 1]]]
  BY DEF TrimBack
<1>4. e.pages = [c.pages EXCEPT ![p] = s]
  BY DEF CpuRec
<1>5. e.pages[p] = s
  BY <1>1, <1>4
<1>6. [e.pages EXCEPT ![p] = t] = [c.pages EXCEPT ![p] = t]
  <2> HIDE DEF s, t, e
  <2> QED BY <1>1, <1>4
<1>7. [e EXCEPT !.pages = [c.pages EXCEPT ![p] = t]] = [c EXCEPT !.pages = [c.pages EXCEPT ![p] = t]]
  <2> HIDE DEF s, t
  <2> DEFINE f == [c.pages EXCEPT ![p] = t]
             g == [c.pages EXCEPT ![p] = s]
  <2> HIDE DEF f, g
  <2>1. [[c EXCEPT !.pages = g] EXCEPT !.pages = f] = [c EXCEPT !.pages = f]
    BY DEF CpuRec
  <2> QED BY <2>1 DEF f, g
<1>8. TrimBack(c, o) = [c EXCEPT !.pages = [c.pages EXCEPT ![p] = t]]
  <2>1. [e.pages[p] EXCEPT !.nr_small_alloc = @ - 1] = t
    BY <1>5
  <2> QED BY <1>3, <1>6, <1>7, <2>1
<1>9. [c EXCEPT !.pages = [c.pages EXCEPT ![p] = t]] = Anew(c, p, u)
  BY <1>2 DEF Anew
<1> QED BY <1>8, <1>9 DEF SetObjects

-----------------------------------------------------------------------------
(* trim_free_list. *)

LEMMA AnewTwice ==
    ASSUME NEW c \in CpuRec, NEW p \in 0 .. 8, NEW s, NEW t
    PROVE  /\ Anew(Anew(c, p, s), p, t) = Anew(c, p, t)
           /\ Anew(c, p, s).pages[p] = s
<1> DEFINE f == [c.pages EXCEPT ![p] = t]
           g == [c.pages EXCEPT ![p] = s]
           e == [c EXCEPT !.pages = g]
<1>1. c.pages \in [0 .. 8 -> PageRec]
  BY DEF CpuRec
<1>2. g[p] = s /\ [g EXCEPT ![p] = t] = f
  BY <1>1
<1> HIDE DEF f, g
<1>3. e.pages = g /\ [e EXCEPT !.pages = f] = [c EXCEPT !.pages = f]
  BY DEF CpuRec
<1>4. Anew(c, p, s) = e
  BY DEF Anew, g
<1> HIDE DEF e
<1>5. Anew(e, p, t) = [e EXCEPT !.pages = [e.pages EXCEPT ![p] = t]]
  BY DEF Anew
<1> QED BY <1>2, <1>3, <1>4, <1>5 DEF Anew, f

\* The objects in the list of a page go to _free.
TakeObjects(c, p) ==
    [c EXCEPT !.pages[p].nr_small_alloc = @ + P!Cardinality(c.pages[p].freelist),
              !.pages[p].freelist = {}]

LEMMA TakeObjectsSets ==
    ASSUME NEW c \in CpuRec, NEW p \in 0 .. 8
    PROVE  TakeObjects(c, p) = SetObjects(c, p, c.pages[p].pool, {},
                                          c.pages[p].nr_small_alloc + P!Cardinality(c.pages[p].freelist))
<1> DEFINE r == c.pages[p]
           k == P!Cardinality(r.freelist)
           s == [r EXCEPT !.nr_small_alloc = @ + k]
           t == [s EXCEPT !.freelist = {}]
           u == [r EXCEPT !.pool = r.pool, !.freelist = {}, !.nr_small_alloc = r.nr_small_alloc + k]
           e == Anew(c, p, s)
<1>1. r \in PageRec
  BY DEF CpuRec
<1>2. t = u
  <2> HIDE DEF k
  <2> QED BY <1>1 DEF PageRec
<1>3. TakeObjects(c, p) = [e EXCEPT !.pages = [e.pages EXCEPT ![p] = [e.pages[p] EXCEPT !.freelist = {}]]]
  BY DEF TakeObjects, Anew
<1> HIDE DEF s, e, u, k
<1>4. e.pages[p] = s
  BY AnewTwice DEF e
<1>5. TakeObjects(c, p) = Anew(e, p, t)
  BY <1>3, <1>4 DEF Anew
<1>6. Anew(e, p, t) = Anew(c, p, t)
  <2> HIDE DEF t
  <2> QED BY AnewTwice DEF e
<1>7. Anew(c, p, u) = SetObjects(c, p, c.pages[p].pool, {},
                                 c.pages[p].nr_small_alloc + P!Cardinality(c.pages[p].freelist))
  BY DEF SetObjects, u, k
<1> QED BY <1>2, <1>5, <1>6, <1>7

\* All the objects of a new page do.
NewObjects(c, p) ==
    [c EXCEPT !.pages[p].pool = TRUE, !.pages[p].freelist = {}, !.pages[p].nr_small_alloc = Slots]

LEMMA NewObjectsSets ==
    ASSUME NEW c \in CpuRec, NEW p \in 0 .. 8
    PROVE  NewObjects(c, p) = SetObjects(c, p, TRUE, {}, Slots)
<1> DEFINE r == c.pages[p]
           s == [r EXCEPT !.pool = TRUE]
           t == [s EXCEPT !.freelist = {}]
           u == [t EXCEPT !.nr_small_alloc = Slots]
           v == [r EXCEPT !.pool = TRUE, !.freelist = {}, !.nr_small_alloc = Slots]
           e == Anew(c, p, s)
           f == [e EXCEPT !.pages = [e.pages EXCEPT ![p] = [e.pages[p] EXCEPT !.freelist = {}]]]
<1>1. r \in PageRec
  BY DEF CpuRec
<1>2. u = v
  BY <1>1 DEF PageRec
<1>3. NewObjects(c, p) = [f EXCEPT !.pages = [f.pages EXCEPT ![p] = [f.pages[p] EXCEPT !.nr_small_alloc = Slots]]]
  BY DEF NewObjects, Anew
<1> HIDE DEF s, e, v, f
<1>4. e.pages[p] = s
  BY AnewTwice DEF e
<1>5. f = Anew(e, p, t)
  BY <1>4 DEF Anew, f
<1>6. f = Anew(c, p, t)
  <2> HIDE DEF t
  <2> QED BY <1>5, AnewTwice DEF e
<1> HIDE DEF t
<1>7. f.pages[p] = t
  BY <1>6, AnewTwice
<1>8. NewObjects(c, p) = Anew(f, p, u)
  BY <1>3, <1>7 DEF Anew
<1> HIDE DEF u
<1>9. NewObjects(c, p) = Anew(c, p, u)
  BY <1>6, <1>8, AnewTwice
<1>10. Anew(c, p, v) = SetObjects(c, p, TRUE, {}, Slots)
  BY DEF SetObjects, v
<1> QED BY <1>2, <1>9, <1>10

-----------------------------------------------------------------------------
\* A page of the pool without its pages outside of its list.
LEMMA PoolBlocks ==
    ASSUME NEW p, NEW x, PoolBlock(p) = PoolBlock(x)
    PROVE  p = x
BY SMTT(40) DEF PoolBlock

TrimPool(c, q, o) == [free |-> q.free \ {o}, span_list |-> TrimLinked(c, q, o)]

\* What one object that leaves _free changes, before its page is freed.
TrimStep(c, q, S, o, d, r, p) ==
    /\ p \in 1 .. 7 /\ p \in PagesOf(q, S)
    /\ d \in CpuRec /\ SameSpans(c, d)
    /\ \A x \in 0 .. 8 : d.pages[x].pool = c.pages[x].pool
    /\ r \in PoolRec /\ Once(r.span_list) /\ S \cap r.free = {}
    /\ PageOfPool(d, r, S, p) /\ o \in d.pages[p].freelist
    /\ \A x \in PagesOf(q, S) : x # p => PageOfPool(d, r, S, x)
    /\ PagesOf(r, S) = IF OutOf(r, S, p) = {} THEN PagesOf(q, S) \ {p} ELSE PagesOf(q, S)
    /\ (d.pages[p].nr_small_alloc = 0) <=> (OutOf(r, S, p) = {})
    /\ PagesIn(r.span_list) = PagesIn(q.span_list) \cup {p}
    /\ \A x \in 0 .. 8 : x # p => (x \in PagesIn(r.span_list) <=>
                                      x \in PagesOf(q, S) /\ d.pages[x].freelist # {})

LEMMA TrimmedBack ==
    ASSUME NEW c, NEW q, NEW S, NEW R, Good(c, q, S, R), NEW o \in q.free
    PROVE  TrimStep(c, q, S, o, TrimBack(c, o), TrimPool(c, q, o), o[1])
<1> DEFINE d == TrimBack(c, o)
           r == TrimPool(c, q, o)
           p == o[1]
           out == OutOf(q, S, p)
           out2 == OutOf(r, S, p)
<1>1. Pooling(c, q, S)
  BY DEF Good
<1>2. PICK B : Spread(c, B, q, S, R)
  BY DEF Good
<1>3. q \in PoolRec /\ S \subseteq P!Object /\ S \cap q.free = {} /\ Once(q.span_list)
  BY <1>1 DEF Pooling
<1>4. o \in P!Object /\ q.free \subseteq P!Object /\ q.span_list \in Seq(0 .. 8)
  BY <1>3 DEF PoolRec
<1>5. p \in 0 .. 8 /\ o \in P!ObjectsOf(p)
  BY <1>4, ObjectFacts
<1>6. p \in PagesOf(q, S) /\ o \in out
  BY <1>5 DEF PagesOf, OutOf
<1>7. p \in 1 .. 7
  BY <1>2, <1>6, BlocksOfPool
<1>8. r.free = q.free \ {o} /\ r.span_list = TrimLinked(c, q, o)
  BY DEF TrimPool
<1>9. \A x \in 0 .. 8 : OutOf(r, S, x) = OutOf(q, S, x) \ {o}
  BY <1>3, <1>8 DEF OutOf
<1>10. \A x \in 0 .. 8 : x # p => OutOf(r, S, x) = OutOf(q, S, x)
  <2> SUFFICES ASSUME NEW x \in 0 .. 8, x # p PROVE o \notin OutOf(q, S, x)
    BY <1>9
  <2> QED BY ObjectFacts DEF OutOf
<1>11. out2 = out \ {o}
  BY <1>5, <1>9
<1>12. PageOfPool(c, q, S, p) /\ c \in CpuRec
  BY <1>1, <1>2, <1>6 DEF Pooling, Spread, Mem
<1>13. out \subseteq P!ObjectsOf(p) /\ IsFiniteSet(out)
  BY <1>1, <1>5, PagesOfFacts
<1>14. Cardinality(out2) = Cardinality(out) - 1 /\ IsFiniteSet(out2)
  <2> HIDE DEF out, out2
  <2> QED BY <1>6, <1>11, <1>13, FS_RemoveElement
<1>15. Cardinality(out) \in 0 .. Slots /\ Cardinality(out2) \in Nat
  <2>1. c.pages[p].nr_small_alloc \in 0 .. Slots
    BY <1>5, <1>12 DEF CpuRec, PageRec
  <2>2. Cardinality(out2) \in Nat
    BY <1>14, FS_CardinalityType
  <2> QED BY <1>12, <2>1, <2>2 DEF PageOfPool
<1> DEFINE list2 == c.pages[p].freelist \cup {o}
           n == c.pages[p].nr_small_alloc - 1
           flag == c.pages[p].pool
<1>16. list2 = P!ObjectsOf(p) \ out2 /\ list2 \in SUBSET P!Object
  BY <1>5, <1>6, <1>11, <1>12, <1>13, ObjectFacts DEF PageOfPool
<1>17. n = Cardinality(out2) /\ n \in 0 .. Slots
  <2>1. n = Cardinality(out) - 1
    BY <1>12 DEF PageOfPool
  <2>2. Slots \in Nat
    BY ObjectFacts
  <2> HIDE DEF n, out, out2
  <2> QED BY <1>14, <1>15, <2>1, <2>2
<1>18. flag \in BOOLEAN /\ flag
  BY <1>12 DEF PageOfPool
<1>19. ObjectsSet(c, d, p, flag, list2, n)
  <2>1. flag \in BOOLEAN
    <3>1. c.pages[p] \in PageRec
      BY <1>5, <1>12 DEF CpuRec
    <3> QED BY <3>1 DEF PageRec
  <2>2. d = SetObjects(c, p, flag, list2, n)
    BY <1>5, <1>12, TrimBackSets
  <2> HIDE DEF d, n, list2, flag
  <2> QED BY <1>5, <1>12, <1>16, <1>17, <2>1, <2>2, SettingObjects
<1>20. d \in CpuRec /\ SameSpans(c, d) /\ PageFields(d, p, flag, list2, n)
       /\ \A x \in 0 .. 8 : x # p => d.pages[x] = c.pages[x]
  BY <1>19 DEF ObjectsSet
<1> HIDE DEF d, out, out2, n, list2, flag
<1>21. \A x \in 0 .. 8 : d.pages[x].pool = c.pages[x].pool
  BY <1>20 DEF PageFields, flag
<1>22. PageOfPool(d, r, S, p) /\ o \in d.pages[p].freelist
  BY <1>16, <1>17, <1>18, <1>20 DEF PageOfPool, PageFields, out2, list2
<1>23. \A x \in PagesOf(q, S) : x # p => PageOfPool(d, r, S, x)
  <2> SUFFICES ASSUME NEW x \in PagesOf(q, S), x # p PROVE PageOfPool(d, r, S, x)
    OBVIOUS
  <2>1. x \in 0 .. 8
    BY <1>1, PagesOfFacts
  <2>2. PageOfPool(c, q, S, x)
    BY <1>1 DEF Pooling
  <2>3. OutOf(r, S, x) = OutOf(q, S, x) /\ d.pages[x] = c.pages[x]
    BY <1>10, <1>20, <2>1
  <2> QED BY <2>2, <2>3 DEF PageOfPool
<1>24. (d.pages[p].nr_small_alloc = 0) <=> (out2 = {})
  <2>1. Cardinality(out2) = 0 <=> out2 = {}
    BY <1>14, FS_EmptySet
  <2> QED BY <1>17, <1>20, <2>1 DEF PageFields
<1>25. /\ r.span_list \in Seq(0 .. 8) /\ Once(r.span_list)
       /\ PagesIn(r.span_list) = PagesIn(q.span_list) \cup {p}
  <2>1. p \in PagesIn(q.span_list) <=> c.pages[p].freelist # {}
    BY <1>1, <1>5, <1>6 DEF Pooling
  <2>2. CASE c.pages[p].freelist = {}
    <3>1. r.span_list = <<p>> \o q.span_list
      BY <1>8, <2>2 DEF TrimLinked
    <3>2. p \notin PagesIn(q.span_list)
      BY <2>1, <2>2
    <3> HIDE DEF r, p
    <3> QED BY <1>3, <1>4, <1>5, <3>1, <3>2, Pushed
  <2>3. CASE c.pages[p].freelist # {}
    <3>1. r.span_list = q.span_list
      BY <1>8, <2>3 DEF TrimLinked
    <3> QED BY <1>3, <1>4, <2>1, <2>3, <3>1
  <2> QED BY <2>2, <2>3
<1>26. r \in PoolRec /\ S \cap r.free = {}
  <2>1. r = [free |-> r.free, span_list |-> r.span_list]
    BY DEF TrimPool
  <2>2. r.free \in SUBSET P!Object /\ S \cap r.free = {}
    BY <1>3, <1>4, <1>8
  <2> HIDE DEF r
  <2> QED BY <1>25, <2>1, <2>2 DEF PoolRec
<1>27. PagesOf(r, S) = IF out2 = {} THEN PagesOf(q, S) \ {p} ELSE PagesOf(q, S)
  <2>1. \A x \in PagesOf(r, S) : x \in PagesOf(q, S)
    BY <1>8 DEF PagesOf
  <2>2. ASSUME NEW x \in 0 .. 8 PROVE x \in PagesOf(r, S) <=> OutOf(r, S, x) # {}
    <3>1. S \cup r.free \subseteq P!Object
      BY <1>3, <1>4, <1>8
    <3> QED BY <3>1, ObjectFacts DEF PagesOf, OutOf
  <2>3. \A x \in 0 .. 8 : x \in PagesOf(q, S) <=> OutOf(q, S, x) # {}
    BY <1>1, PagesOfFacts
  <2>4. PagesOf(q, S) \subseteq 0 .. 8
    BY <1>1, PagesOfFacts
  <2>5. \A x \in 0 .. 8 : x # p => (x \in PagesOf(r, S) <=> x \in PagesOf(q, S))
    BY <1>10, <2>2, <2>3
  <2>6. p \in PagesOf(r, S) <=> out2 # {}
    BY <1>5, <2>2 DEF out2
  <2> HIDE DEF r, p
  <2> QED BY <1>6, <2>1, <2>4, <2>5, <2>6
<1>28. \A x \in 0 .. 8 : x # p => (x \in PagesIn(r.span_list) <=>
                                      x \in PagesOf(q, S) /\ d.pages[x].freelist # {})
  BY <1>1, <1>20, <1>25 DEF Pooling
<1> QED BY <1>6, <1>7, <1>20, <1>21, <1>22, <1>23, <1>24, <1>25, <1>26, <1>27, <1>28 DEF d, out2, TrimStep

ObjectGone(c, q, S, R, o, m) ==
    /\ Good(m.cpu, m.pool, S, R) /\ m.cpu.nr_pages = c.nr_pages
    /\ m.pool.free = q.free \ {o}

\* One turn of trim_free_list.
LEMMA TrimOne ==
    ASSUME NEW c, NEW q, NEW S, NEW R, Good(c, q, S, R), NEW o \in q.free
    PROVE  ObjectGone(c, q, S, R, o, P!TrimObject(c, q, o))
<1> DEFINE d == TrimBack(c, o)
           r == TrimPool(c, q, o)
           p == o[1]
           n == d.pages[p].span_size
           e == P!free_span(d, p, n)
           s == [r EXCEPT !.span_list = P!erase(@, p)]
           m == P!TrimObject(c, q, o)
<1>1. m = IF d.pages[p].nr_small_alloc = 0 THEN [cpu |-> e, pool |-> s] ELSE [cpu |-> d, pool |-> r]
  BY Zenon DEF P!TrimObject, TrimBack, TrimPool, TrimLinked
<1>2. r.free = q.free \ {o}
  BY DEF TrimPool
<1>3. TrimStep(c, q, S, o, d, r, p)
  BY TrimmedBack, SMTT(40)
<1> HIDE DEF d, r
<1>4. PICK B : Spread(c, B, q, S, R)
  BY DEF Good
<1>5. Pooling(c, q, S)
  BY DEF Good
<1>6. Mem(d, B) /\ Settled(B) /\ d.nr_pages = c.nr_pages
  BY <1>3, <1>4, OtherFields, ZenonT(60) DEF TrimStep, Spread, SameSpans
<1>7. \A b \in R : b.use = "large" => ~d.pages[b.at].pool
  <2> SUFFICES ASSUME NEW b \in R, b.use = "large" PROVE ~d.pages[b.at].pool
    OBVIOUS
  <2>1. b \in Used(B) /\ ~c.pages[b.at].pool
    BY <1>4 DEF Spread
  <2>2. b.at \in 1 .. 7
    BY <1>6, <2>1, BlockFacts DEF Used
  <2> QED BY <1>3, <2>1, <2>2 DEF TrimStep
<1>8. p \in 1 .. 7 /\ p \in PagesOf(q, S)
  BY <1>3 DEF TrimStep
<1>9. S \subseteq P!Object /\ PagesOf(q, S) \subseteq 0 .. 8
  BY <1>5, PagesOfFacts DEF Pooling
<1>10. CASE d.pages[p].nr_small_alloc # 0
  <2>1. m = [cpu |-> d, pool |-> r]
    BY <1>1, <1>10
  <2>2. PagesOf(r, S) = PagesOf(q, S)
    BY <1>3, <1>10 DEF TrimStep
  <2>3. Pooling(d, r, S)
    <3>1. r \in PoolRec /\ S \cap r.free = {} /\ Once(r.span_list)
      BY <1>3 DEF TrimStep
    <3>2. \A x \in PagesOf(r, S) : PageOfPool(d, r, S, x)
      BY <1>3, <2>2 DEF TrimStep
    <3>3. \A x \in 0 .. 8 : x \in PagesIn(r.span_list) <=>
                               x \in PagesOf(r, S) /\ d.pages[x].freelist # {}
      BY <1>3, <2>2, <1>8 DEF TrimStep
    <3> QED BY <1>9, <3>1, <3>2, <3>3 DEF Pooling
  <2>4. Spread(d, B, r, S, R)
    BY <1>4, <1>6, <1>7, <2>2 DEF Spread
  <2> QED BY <1>2, <1>6, <2>1, <2>3, <2>4 DEF ObjectGone, Good
<1>11. CASE d.pages[p].nr_small_alloc = 0
  <2>1. m = [cpu |-> e, pool |-> s]
    BY <1>1, <1>11
  <2>2. PagesOf(r, S) = PagesOf(q, S) \ {p}
    BY <1>3, <1>11, SMTT(40) DEF TrimStep
  <2>3. n = 1
    <3>1. c.pages[p].span_size = 1
      BY <1>4, <1>8, BlocksOfPool
    <3> QED BY <1>3, <1>8, <3>1 DEF TrimStep, SameSpans
  <2>4. PoolBlock(p) \in Used(B) /\ PoolBlock(p).at = p /\ PoolBlock(p).size = 1
    <3>1. PoolBlock(p).at = p /\ PoolBlock(p).size = 1
      BY DEF PoolBlock
    <3>2. Used(B) = R \cup {PoolBlock(x) : x \in PagesOf(q, S)}
      BY <1>4 DEF Spread
    <3> QED BY <1>8, <3>1, <3>2
  <2>5. SameObjects(d, e) /\ \E C : /\ Mem(e, C) /\ Settled(C) /\ Used(C) = Used(B) \ {PoolBlock(p)}
    <3> HIDE DEF n
    <3> QED BY <1>6, <2>3, <2>4, FreeBlock
  <2>6. PICK C : Mem(e, C) /\ Settled(C) /\ Used(C) = Used(B) \ {PoolBlock(p)}
    BY <2>5
  <2> HIDE DEF e
  <2>7. s.free = r.free /\ s.span_list = P!erase(r.span_list, p)
    BY <1>3 DEF TrimStep, PoolRec
  <2>8. r \in PoolRec /\ S \cap r.free = {} /\ Once(r.span_list) /\ r.span_list \in Seq(0 .. 8)
    BY <1>3 DEF TrimStep, PoolRec
  <2>9. /\ s.span_list \in Seq(0 .. 8) /\ Once(s.span_list)
        /\ PagesIn(s.span_list) = PagesIn(r.span_list) \ {p}
    <3>1. /\ P!erase(r.span_list, p) \in Seq(0 .. 8) /\ Once(P!erase(r.span_list, p))
          /\ PagesIn(P!erase(r.span_list, p)) = PagesIn(r.span_list) \ {p}
      BY <2>8, Erased, Zenon
    <3> QED BY <2>7, <3>1
  <2>10. s \in PoolRec
    <3>1. s = [free |-> s.free, span_list |-> s.span_list]
      BY <2>8 DEF PoolRec
    <3>2. s.free \in SUBSET P!Object
      BY <2>7, <2>8 DEF PoolRec
    <3> HIDE DEF s
    <3> QED BY <2>9, <3>1, <3>2 DEF PoolRec
  <2> HIDE DEF s
  <2>11. PagesOf(s, S) = PagesOf(r, S) /\ \A x \in 0 .. 8 : OutOf(s, S, x) = OutOf(r, S, x)
    BY <2>7 DEF PagesOf, OutOf
  <2>12. Pooling(e, s, S)
    <3>1. S \cap s.free = {}
      BY <2>7, <2>8
    <3>2. ASSUME NEW x \in PagesOf(s, S) PROVE PageOfPool(e, s, S, x)
      <4>1. x \in 0 .. 8 /\ x # p /\ x \in PagesOf(q, S)
        BY <1>9, <2>2, <2>11, <3>2
      <4>2. PageOfPool(d, r, S, x)
        BY <1>3, <4>1 DEF TrimStep
      <4> QED BY <2>5, <2>11, <4>1, <4>2 DEF PageOfPool, SameObjects
    <3>3. ASSUME NEW x \in 0 .. 8
          PROVE  x \in PagesIn(s.span_list) <=> x \in PagesOf(s, S) /\ e.pages[x].freelist # {}
      <4>1. e.pages[x].freelist = d.pages[x].freelist
        BY <2>5 DEF SameObjects
      <4>2. CASE x = p
        BY <2>2, <2>9, <2>11, <4>2
      <4>3. CASE x # p
        <5>1. x \in PagesIn(r.span_list) <=> x \in PagesOf(q, S) /\ d.pages[x].freelist # {}
          BY <1>3, <4>3 DEF TrimStep
        <5> QED BY <2>2, <2>9, <2>11, <4>1, <4>3, <5>1
      <4> QED BY <4>2, <4>3
    <3> QED BY <1>9, <2>9, <2>10, <3>1, <3>2, <3>3 DEF Pooling
  <2>13. Spread(e, C, s, S, R)
    <3>1. Used(C) = R \cup {PoolBlock(x) : x \in PagesOf(s, S)}
      <4>1. PoolBlock(p) \notin R
        BY <1>4 DEF Spread, PoolBlock
      <4>2. Used(B) = R \cup {PoolBlock(x) : x \in PagesOf(q, S)}
        BY <1>4 DEF Spread
      <4>3. \A x \in PagesOf(q, S) : PoolBlock(x) = PoolBlock(p) => x = p
        BY PoolBlocks
      <4> QED BY <2>2, <2>6, <2>11, <4>1, <4>2, <4>3
    <3>2. \A b \in R : b.use # "pool"
      BY <1>4 DEF Spread
    <3>3. \A b \in R : b.use = "large" => ~e.pages[b.at].pool
      <4> SUFFICES ASSUME NEW b \in R, b.use = "large" PROVE ~e.pages[b.at].pool
        OBVIOUS
      <4>1. b \in Used(B)
        BY <1>4 DEF Spread
      <4>2. b.at \in 1 .. 7
        BY <1>6, <4>1, BlockFacts DEF Used
      <4> QED BY <1>7, <2>5, <4>2 DEF SameObjects
    <3> QED BY <2>6, <3>1, <3>2, <3>3 DEF Spread
  <2>14. e.nr_pages = c.nr_pages
    BY <1>6, <2>5 DEF SameObjects
  <2> QED BY <1>2, <2>1, <2>7, <2>12, <2>13, <2>14 DEF ObjectGone, Good
<1> QED BY <1>10, <1>11

-----------------------------------------------------------------------------
(* add_more_objects. *)

\* At least the objects of q are free, and at most those of one more page.
ObjectsMore(c, q, S, R, m) ==
    /\ Good(m.cpu, m.pool, S, R) /\ m.cpu.nr_pages = c.nr_pages
    /\ IsFiniteSet(m.pool.free)
    /\ Cardinality(m.pool.free) <= Cardinality(q.free) + Slots

\* A page of the pool whose objects are all out.
AllOut(c, q, S, d, r, p) ==
    /\ p \in PagesOf(r, S) /\ OutOf(r, S, p) = P!ObjectsOf(p)
    /\ PageFields(d, p, TRUE, {}, Slots)
    /\ \A x \in 0 .. 8 : x # p => /\ d.pages[x].pool = c.pages[x].pool
                                  /\ d.pages[x].freelist = c.pages[x].freelist
                                  /\ d.pages[x].nr_small_alloc = c.pages[x].nr_small_alloc
                                  /\ OutOf(r, S, x) = OutOf(q, S, x)
    /\ r \in PoolRec /\ S \cap r.free = {} /\ Once(r.span_list)
    /\ PagesIn(r.span_list) = PagesIn(q.span_list) \ {p}
    /\ PagesOf(r, S) = PagesOf(q, S) \cup {p}

LEMMA PoolingMore ==
    ASSUME NEW c, NEW q, NEW S, Pooling(c, q, S), NEW d, NEW r, NEW p, AllOut(c, q, S, d, r, p)
    PROVE  Pooling(d, r, S)
<1>1. r \in PoolRec /\ S \cap r.free = {} /\ Once(r.span_list) /\ S \subseteq P!Object
  BY DEF AllOut, Pooling
<1>2. PagesOf(r, S) = PagesOf(q, S) \cup {p} /\ PagesOf(q, S) \subseteq 0 .. 8
  BY PagesOfFacts DEF AllOut
<1>3. p \in 0 .. 8
  <2>1. S \cup r.free \subseteq P!Object
    BY <1>1 DEF PoolRec
  <2> QED BY <2>1, ObjectFacts DEF AllOut, PagesOf
<1>4. ASSUME NEW x \in PagesOf(r, S) PROVE PageOfPool(d, r, S, x)
  <2>1. CASE x = p
    <3>1. Cardinality(P!ObjectsOf(p)) = Slots
      BY <1>3, ObjectFacts
    <3> QED BY <2>1, <3>1 DEF AllOut, PageOfPool, PageFields
  <2>2. CASE x # p
    <3>1. x \in PagesOf(q, S) /\ x \in 0 .. 8
      BY <1>2, <1>4, <2>2
    <3>2. PageOfPool(c, q, S, x)
      BY <3>1 DEF Pooling
    <3> QED BY <2>2, <3>1, <3>2 DEF AllOut, PageOfPool
  <2> QED BY <2>1, <2>2
<1>5. ASSUME NEW x \in 0 .. 8
      PROVE  x \in PagesIn(r.span_list) <=> x \in PagesOf(r, S) /\ d.pages[x].freelist # {}
  <2>1. x \in PagesIn(q.span_list) <=> x \in PagesOf(q, S) /\ c.pages[x].freelist # {}
    BY DEF Pooling
  <2>2. PagesIn(r.span_list) = PagesIn(q.span_list) \ {p}
    BY DEF AllOut
  <2>3. CASE x = p
    BY <2>2, <2>3 DEF AllOut, PageFields
  <2>4. CASE x # p
    <3>1. d.pages[x].freelist = c.pages[x].freelist
      BY <2>4 DEF AllOut
    <3> QED BY <1>2, <2>1, <2>2, <2>4, <3>1
  <2> QED BY <2>3, <2>4
<1> QED BY <1>1, <1>4, <1>5 DEF Pooling

\* Objects that join those that are free.
LEMMA CountMore ==
    ASSUME NEW F \in SUBSET P!Object, NEW p \in 0 .. 8, NEW N \in SUBSET P!ObjectsOf(p)
    PROVE  /\ IsFiniteSet(F \cup N) /\ IsFiniteSet(F) /\ Cardinality(F) \in Nat
           /\ Cardinality(F \cup N) <= Cardinality(F) + Slots
<1>1. IsFiniteSet(F)
  BY ObjectFacts, FS_Subset
<1>2. IsFiniteSet(N) /\ Cardinality(N) <= Slots
  BY ObjectFacts, FS_Subset
<1>3. /\ IsFiniteSet(F \cup N)
      /\ Cardinality(F \cup N) = Cardinality(F) + Cardinality(N) - Cardinality(F \cap N)
  BY <1>1, <1>2, FS_Union
<1>4. IsFiniteSet(F \cap N)
  BY <1>1, FS_Subset
<1>5. Cardinality(F) \in Nat /\ Cardinality(N) \in Nat /\ Cardinality(F \cap N) \in Nat
  BY <1>1, <1>2, <1>4, FS_CardinalityType
<1>6. Slots \in Nat
  BY ObjectFacts
<1> QED BY <1>1, <1>2, <1>3, <1>5, <1>6

ListPool(c, q) == [free |-> q.free \cup c.pages[Head(q.span_list)].freelist,
                   span_list |-> Tail(q.span_list)]

\* add_more_objects takes the objects in the list of a page.
LEMMA MoreFromList ==
    ASSUME NEW c, NEW q, NEW S, NEW R, Good(c, q, S, R), q.span_list # << >>
    PROVE  ObjectsMore(c, q, S, R, [cpu |-> TakeObjects(c, Head(q.span_list)), pool |-> ListPool(c, q)])
<1> DEFINE p == Head(q.span_list)
           d == TakeObjects(c, p)
           r == ListPool(c, q)
           objects == c.pages[p].freelist
           out == OutOf(q, S, p)
           nr == c.pages[p].nr_small_alloc + P!Cardinality(objects)
           flag == c.pages[p].pool
<1>1. Pooling(c, q, S) /\ q \in PoolRec /\ S \subseteq P!Object /\ S \cap q.free = {}
  BY DEF Good, Pooling
<1>2. PICK B : Spread(c, B, q, S, R)
  BY DEF Good
<1>3. c \in CpuRec /\ Mem(c, B) /\ Settled(B)
  BY <1>2 DEF Spread, Mem
<1>4. q.span_list \in Seq(0 .. 8) /\ Once(q.span_list) /\ q.free \subseteq P!Object
  BY <1>1 DEF PoolRec, Pooling
<1>5. p \in 0 .. 8 /\ p \in PagesIn(q.span_list)
  BY <1>4 DEF PagesIn
<1>6. p \in PagesOf(q, S) /\ objects # {}
  BY <1>1, <1>5 DEF Pooling
<1>7. flag /\ objects = P!ObjectsOf(p) \ out /\ c.pages[p].nr_small_alloc = Cardinality(out)
  BY <1>1, <1>6 DEF Pooling, PageOfPool
<1>8. out \subseteq P!ObjectsOf(p) /\ IsFiniteSet(out)
  BY <1>1, <1>5, PagesOfFacts
<1>9. nr = Slots
  <2>1. IsFiniteSet(P!ObjectsOf(p)) /\ Cardinality(P!ObjectsOf(p)) = Slots
    BY <1>5, ObjectFacts
  <2>2. IsFiniteSet(objects)
    BY <1>7, <2>1, FS_Subset
  <2>3. Cardinality(out \cup objects) = Cardinality(out) + Cardinality(objects) - Cardinality(out \cap objects)
    BY <1>8, <2>2, FS_Union
  <2>4. out \cup objects = P!ObjectsOf(p) /\ out \cap objects = {}
    BY <1>7, <1>8
  <2>5. Cardinality(out \cap objects) = 0
    BY <2>4, FS_EmptySet
  <2>6. Cardinality(out) \in Nat /\ Cardinality(objects) \in Nat
    BY <1>8, <2>2, FS_CardinalityType
  <2>7. P!Cardinality(objects) = Cardinality(objects)
    BY PageSizes
  <2> HIDE DEF out, objects
  <2>8. nr = Cardinality(out) + Cardinality(objects)
    BY <1>7, <2>7
  <2>9. Cardinality(out) + Cardinality(objects) - 0 = Cardinality(out) + Cardinality(objects)
    BY <2>6
  <2> QED BY <2>1, <2>3, <2>4, <2>5, <2>8, <2>9
<1>10. ObjectsSet(c, d, p, flag, {}, nr)
  <2>1. flag \in BOOLEAN
    <3>1. c.pages[p] \in PageRec
      BY <1>3, <1>5 DEF CpuRec
    <3> QED BY <3>1 DEF PageRec
  <2>2. d = SetObjects(c, p, flag, {}, nr)
    BY <1>3, <1>5, TakeObjectsSets
  <2>3. nr \in 0 .. Slots /\ {} \in SUBSET P!Object
    BY <1>9, ObjectFacts, SMTT(40)
  <2> HIDE DEF d, nr, flag, p
  <2> QED BY <1>3, <1>5, <2>1, <2>2, <2>3, SettingObjects
<1>11. r.free = q.free \cup objects /\ r.span_list = Tail(q.span_list)
  BY DEF ListPool
<1>12. objects \subseteq P!ObjectsOf(p) /\ objects \subseteq P!Object
  BY <1>5, <1>7, ObjectFacts
<1>13. r.span_list \in Seq(0 .. 8) /\ Once(r.span_list) /\ PagesIn(r.span_list) = PagesIn(q.span_list) \ {p}
  <2> DEFINE l == q.span_list
             t == Tail(l)
  <2>1. l \in Seq(0 .. 8) /\ Len(l) \in Nat /\ Len(l) >= 1 /\ DOMAIN l = 1 .. Len(l) /\ l[1] = p
    BY <1>4
  <2>2. t \in Seq(0 .. 8) /\ Len(t) = Len(l) - 1 /\ DOMAIN t = 1 .. Len(l) - 1
        /\ \A i \in 1 .. Len(l) - 1 : t[i] = l[i + 1]
    BY <1>4
  <2>3. \A i, j \in 1 .. Len(l) : l[i] = l[j] => i = j
    BY <1>4, <2>1 DEF Once
  <2> HIDE DEF l, t
  <2>4. Once(t)
    <3> SUFFICES ASSUME NEW i \in 1 .. Len(l) - 1, NEW j \in 1 .. Len(l) - 1, t[i] = t[j] PROVE i = j
      BY <2>2 DEF Once
    <3>1. l[i + 1] = l[j + 1] /\ i + 1 \in 1 .. Len(l) /\ j + 1 \in 1 .. Len(l)
      BY <2>1, <2>2
    <3>2. i + 1 = j + 1
      BY <2>3, <3>1
    <3> QED BY <3>2
  <2>5. PagesIn(t) = PagesIn(l) \ {p}
    <3>1. ASSUME NEW i \in 1 .. Len(l) - 1 PROVE t[i] \in PagesIn(l) \ {p}
      <4>1. t[i] = l[i + 1] /\ i + 1 \in 1 .. Len(l) /\ 1 \in 1 .. Len(l) /\ i + 1 # 1
        BY <2>1, <2>2
      <4>2. l[i + 1] # l[1]
        BY <2>3, <4>1
      <4> QED BY <2>1, <4>1, <4>2 DEF PagesIn
    <3>2. ASSUME NEW i \in 1 .. Len(l), l[i] # p PROVE l[i] \in PagesIn(t)
      <4>1. i - 1 \in 1 .. Len(l) - 1 /\ (i - 1) + 1 = i
        BY <2>1, <3>2
      <4>2. t[i - 1] = l[i]
        BY <2>2, <4>1
      <4> QED BY <2>2, <4>1, <4>2 DEF PagesIn
    <3> QED BY <2>1, <2>2, <3>1, <3>2 DEF PagesIn
  <2>6. r.span_list = t
    BY <1>11 DEF t, l
  <2> QED BY <2>2, <2>4, <2>5, <2>6 DEF l
<1>14. r \in PoolRec
  <2>1. r = [free |-> r.free, span_list |-> r.span_list]
    BY DEF ListPool
  <2>2. r.free \in SUBSET P!Object
    BY <1>4, <1>11, <1>12
  <2> HIDE DEF r
  <2> QED BY <1>13, <2>1, <2>2 DEF PoolRec
<1> HIDE DEF d, r, objects, out, nr, flag, p
<1>15. S \cap r.free = {}
  <2> SUFFICES ASSUME NEW o \in S, o \in objects PROVE FALSE
    BY <1>1, <1>11
  <2> QED BY <1>7, <1>12 DEF OutOf, out
<1>16. ASSUME NEW x \in 0 .. 8, x # p PROVE OutOf(r, S, x) = OutOf(q, S, x)
  <2>1. \A o \in objects : o \notin P!ObjectsOf(x)
    BY <1>12, <1>16, ObjectFacts
  <2> QED BY <1>11, <2>1 DEF OutOf
<1>17. OutOf(r, S, p) = P!ObjectsOf(p)
  <2>1. OutOf(r, S, p) = out \cup objects
    BY <1>11, <1>12 DEF OutOf, out
  <2> QED BY <1>7, <1>8, <2>1
<1>18. PagesOf(r, S) = PagesOf(q, S) /\ p \in PagesOf(r, S)
  <2>1. \A o \in objects : o[1] = p
    BY <1>12, ObjectFacts
  <2> QED BY <1>6, <1>11, <2>1 DEF PagesOf
<1>19. d \in CpuRec /\ SameSpans(c, d) /\ PageFields(d, p, TRUE, {}, Slots)
       /\ \A x \in 0 .. 8 : x # p => d.pages[x] = c.pages[x]
  <2>1. flag = TRUE
    <3>1. c.pages[p] \in PageRec
      BY <1>3, <1>5 DEF CpuRec
    <3> QED BY <1>7, <3>1 DEF PageRec, flag
  <2> QED BY <1>9, <1>10, <2>1 DEF ObjectsSet
<1>20. AllOut(c, q, S, d, r, p)
  BY <1>4, <1>6, <1>13, <1>14, <1>15, <1>16, <1>17, <1>18, <1>19 DEF AllOut
<1>21. Pooling(d, r, S)
  BY <1>1, <1>20, PoolingMore
<1>22. Mem(d, B)
  BY <1>3, <1>19, OtherFields
<1>23. \A b \in R : b.use = "large" => ~d.pages[b.at].pool
  <2> SUFFICES ASSUME NEW b \in R, b.use = "large" PROVE ~d.pages[b.at].pool
    OBVIOUS
  <2>1. b \in Used(B) /\ ~c.pages[b.at].pool
    BY <1>2 DEF Spread
  <2>2. b.at \in 1 .. 7
    BY <1>3, <2>1, BlockFacts DEF Used
  <2>3. b.at # p
    BY <1>7, <2>1 DEF flag
  <2> QED BY <1>19, <2>1, <2>2, <2>3, SMTT(40)
<1>24. Spread(d, B, r, S, R)
  BY <1>2, <1>18, <1>22, <1>23 DEF Spread
<1>25. IsFiniteSet(r.free) /\ Cardinality(r.free) <= Cardinality(q.free) + Slots
  BY <1>4, <1>5, <1>11, <1>12, CountMore
<1>26. d.nr_pages = c.nr_pages
  BY <1>19 DEF SameSpans
<1> QED BY <1>21, <1>24, <1>25, <1>26 DEF ObjectsMore, Good, d, r, p

NewPool(q, p) == [q EXCEPT !.free = @ \cup P!ObjectsOf(p)]

\* A page that is allocated for the pool is not one of its pages.
LEMMA PageIsNew ==
    ASSUME NEW c, NEW B, NEW q, NEW S, NEW R, Spread(c, B, q, S, R),
           NEW d, NEW C, Mem(d, C), NEW p, LargeBlock(p, 1) \in C, Used(B) \subseteq C
    PROVE  p \notin PagesOf(q, S)
<1> SUFFICES ASSUME p \in PagesOf(q, S) PROVE FALSE
  OBVIOUS
<1> DEFINE a == PoolBlock(p)
           b == LargeBlock(p, 1)
<1>1. a.at = p /\ a.size = 1 /\ a.use = "pool"
  BY DEF PoolBlock
<1>2. b.at = p /\ b.size = 1 /\ b.use = "large"
  BY DEF LargeBlock
<1>3. a \in C
  <2>1. a \in Used(B)
    BY DEF Spread
  <2> QED BY <2>1
<1> HIDE DEF a, b
<1>4. Apart(a, b) /\ a.at \in 1 .. 7
  <2>1. a.at \in 1 .. 7 /\ (b = a \/ Apart(b, a)) /\ (a = b \/ Apart(a, b))
    BY <1>3, BlockFacts DEF b
  <2> QED BY <1>1, <1>2, <2>1
<1> QED BY <1>1, <1>2, <1>4 DEF Apart

\* add_more_objects takes all objects of a new page.
LEMMA MoreFromPage ==
    ASSUME NEW c, NEW q, NEW S, NEW R, Good(c, q, S, R), NEW B, Spread(c, B, q, S, R),
           NEW more, Got(c, B, 1, more)
    PROVE  ObjectsMore(c, q, S, R, [cpu |-> NewObjects(more.cpu, more.page),
                                    pool |-> NewPool(q, more.page)])
<1> DEFINE p == more.page
           d == NewObjects(more.cpu, p)
           r == NewPool(q, p)
           b == LargeBlock(p, 1)
           objects == P!ObjectsOf(p)
<1>1. Pooling(c, q, S) /\ q \in PoolRec /\ S \subseteq P!Object /\ S \cap q.free = {}
  BY DEF Good, Pooling
<1>2. p \in 1 .. 7 /\ PoolCleared(c, more.cpu, p)
  BY DEF Got
<1>3. PICK C : /\ Mem(more.cpu, C) /\ Settled(C) /\ Used(C) = Used(B) \cup {b} /\ b \notin Used(B)
  BY DEF Got
<1>4. q.span_list \in Seq(0 .. 8) /\ Once(q.span_list) /\ q.free \subseteq P!Object
  BY <1>1 DEF PoolRec, Pooling
<1>5. b \in C /\ b.use = "large" /\ Used(B) \subseteq C
  BY <1>3 DEF Used, LargeBlock
<1>6. p \notin PagesOf(q, S)
  BY <1>3, <1>5, PageIsNew
<1> DEFINE E == As(C, b, "pool")
<1>7. Mem(more.cpu, E)
  <2> HIDE DEF b
  <2> QED BY <1>3, <1>5, Pooled
<1>8. Settled(E) /\ Used(E) = Used(B) \cup {PoolBlock(p)}
  <2>1. [b EXCEPT !.use = "pool"] = PoolBlock(p)
    BY DEF LargeBlock, PoolBlock
  <2>2. E = (C \ {b}) \cup {PoolBlock(p)}
    BY <2>1 DEF As
  <2>3. PoolBlock(p).use = "pool"
    BY DEF PoolBlock
  <2> HIDE DEF E, b
  <2>4. Settled(E)
    BY <1>3, <2>2, <2>3 DEF Settled
  <2>5. Used(E) = (Used(C) \ {b}) \cup {PoolBlock(p)}
    BY <2>2, <2>3 DEF Used
  <2> QED BY <1>3, <2>4, <2>5
<1>9. ObjectsSet(more.cpu, d, p, TRUE, {}, Slots)
  <2>1. d = SetObjects(more.cpu, p, TRUE, {}, Slots) /\ more.cpu \in CpuRec
    <3>1. more.cpu \in CpuRec /\ p \in 0 .. 8
      BY <1>2, <1>3 DEF Mem
    <3> HIDE DEF p
    <3> QED BY <3>1, NewObjectsSets
  <2>2. Slots \in 0 .. Slots /\ {} \in SUBSET P!Object /\ p \in 0 .. 8 /\ TRUE \in BOOLEAN
    BY <1>2, ObjectFacts
  <2> HIDE DEF d, p
  <2> QED BY <2>1, <2>2, SettingObjects
<1>10. r.free = q.free \cup objects /\ r.span_list = q.span_list /\ r \in PoolRec
  <2>1. objects \in SUBSET P!Object
    BY <1>2, ObjectFacts
  <2> HIDE DEF p
  <2> QED BY <1>1, <2>1 DEF NewPool, PoolRec
<1>11. \A o \in objects : o[1] = p
  BY ObjectFacts
<1> HIDE DEF d, r, b, E, p
<1>12. S \cap r.free = {}
  <2> SUFFICES ASSUME NEW o \in S, o \in objects PROVE FALSE
    BY <1>1, <1>10
  <2> QED BY <1>6, <1>11 DEF PagesOf
<1>13. ASSUME NEW x \in 0 .. 8, x # p PROVE OutOf(r, S, x) = OutOf(q, S, x)
  <2>1. \A o \in objects : o \notin P!ObjectsOf(x)
    BY <1>11, <1>13, ObjectFacts
  <2> QED BY <1>10, <2>1 DEF OutOf
<1>14. OutOf(r, S, p) = objects
  BY <1>10 DEF OutOf
<1>15. PagesOf(r, S) = PagesOf(q, S) \cup {p}
  <2>1. objects # {}
    BY <1>2, ObjectFacts
  <2> QED BY <1>10, <1>11, <2>1 DEF PagesOf
<1>16. d \in CpuRec /\ SameSpans(more.cpu, d) /\ PageFields(d, p, TRUE, {}, Slots)
       /\ \A x \in 0 .. 8 : x # p => d.pages[x] = more.cpu.pages[x]
  BY <1>9 DEF ObjectsSet
<1>17. \A x \in 0 .. 8 : x # p => /\ d.pages[x].pool = c.pages[x].pool
                                  /\ d.pages[x].freelist = c.pages[x].freelist
                                  /\ d.pages[x].nr_small_alloc = c.pages[x].nr_small_alloc
  BY <1>2, <1>16 DEF PoolCleared
<1>18. PagesIn(r.span_list) = PagesIn(q.span_list) \ {p}
  <2>1. p \notin PagesIn(q.span_list)
    BY <1>1, <1>2, <1>6 DEF Pooling
  <2> QED BY <1>10, <2>1
<1>19. AllOut(c, q, S, d, r, p)
  BY <1>4, <1>10, <1>12, <1>13, <1>14, <1>15, <1>16, <1>17, <1>18 DEF AllOut
<1>20. Pooling(d, r, S)
  BY <1>1, <1>19, PoolingMore
<1>21. Mem(d, E)
  BY <1>7, <1>16, OtherFields
<1>22. \A e \in R : e.use = "large" => ~d.pages[e.at].pool
  <2> SUFFICES ASSUME NEW e \in R, e.use = "large" PROVE ~d.pages[e.at].pool
    OBVIOUS
  <2>1. e \in Used(B) /\ ~c.pages[e.at].pool
    BY DEF Spread
  <2>2. e \in C /\ e # b
    BY <1>3, <1>5, <2>1
  <2>3. e.at \in 1 .. 7 /\ e.size \in 1 .. 7 /\ Apart(e, b)
    <3>1. e.at \in 1 .. 7 /\ e.size \in 1 .. 7
      BY <1>3, <2>2, BlockFacts
    <3>2. e = b \/ Apart(e, b)
      BY <1>3, <1>5, <2>2, BlockFacts
    <3> QED BY <2>2, <3>1, <3>2
  <2>4. b.at = p /\ b.size = 1
    BY DEF b, LargeBlock
  <2>5. e.at # p
    BY <1>2, <2>3, <2>4 DEF Apart
  <2> QED BY <1>17, <2>1, <2>3, <2>5
<1>23. Spread(d, E, r, S, R)
  <2>1. Used(B) = R \cup {PoolBlock(x) : x \in PagesOf(q, S)} /\ \A e \in R : e.use # "pool"
    BY DEF Spread
  <2>2. Used(E) = R \cup {PoolBlock(x) : x \in PagesOf(r, S)}
    BY <1>8, <1>15, <2>1
  <2> QED BY <1>8, <1>21, <1>22, <2>1, <2>2 DEF Spread
<1>24. IsFiniteSet(r.free) /\ Cardinality(r.free) <= Cardinality(q.free) + Slots
  <2>1. objects \in SUBSET P!ObjectsOf(p)
    OBVIOUS
  <2>2. q.free \in SUBSET P!Object /\ p \in 0 .. 8
    BY <1>2, <1>4
  <2> HIDE DEF objects
  <2>3. IsFiniteSet(q.free \cup objects) /\ Cardinality(q.free \cup objects) <= Cardinality(q.free) + Slots
    BY <2>1, <2>2, CountMore, Zenon
  <2> QED BY <1>10, <2>3
<1>25. d.nr_pages = c.nr_pages
  BY <1>2, <1>16 DEF SameSpans, PoolCleared
<1> QED BY <1>20, <1>23, <1>24, <1>25 DEF ObjectsMore, Good, d, r, p

PoolBound == P!Goal + Slots - 1

\* What add_more_objects keeps true of the pool.
MoreStates(c, S, R) ==
    {m \in [cpu : CpuRec, pool : PoolRec] :
        /\ Good(m.cpu, m.pool, S, R) /\ m.cpu.nr_pages = c.nr_pages
        /\ Cardinality(m.pool.free) <= PoolBound}

LEMMA GoalFacts == P!Goal \in Nat /\ P!Goal < MaxFree /\ PoolBound \in Nat /\ Slots \in Nat \ {0}
<1>1. MaxFree \in Nat \ {0} /\ Slots \in Nat \ {0}
  BY PagesAssumption
<1>2. MaxFree \div 2 \in Nat /\ 2 * (MaxFree \div 2) <= MaxFree
  BY <1>1
<1> DEFINE h == MaxFree \div 2
<1> HIDE DEF h
<1>3. (h + MaxFree) \div 2 \in Nat /\ 2 * ((h + MaxFree) \div 2) <= h + MaxFree
  BY <1>1, <1>2 DEF h
<1>4. P!Goal = (h + MaxFree) \div 2
  BY DEF P!Goal, h
<1>5. P!Goal \in Nat /\ 2 * P!Goal <= h + MaxFree
  BY <1>3, <1>4
<1>6. h \in Nat /\ 2 * h <= MaxFree
  BY <1>2 DEF h
<1> HIDE DEF P!Goal
<1>7. P!Goal < MaxFree
  BY <1>1, <1>5, <1>6
<1> QED BY <1>1, <1>5, <1>7 DEF PoolBound

\* One turn of add_more_objects.
LEMMA MoreOne ==
    ASSUME NEW c, NEW S, NEW R, NEW m \in MoreStates(c, S, R)
    PROVE  P!MoreObjects(m.cpu, m.pool) \in MoreStates(c, S, R)
<1> DEFINE q == m.pool
           more == P!Allocate(m.cpu, 1, 1)
           n == P!MoreObjects(m.cpu, q)
           a == [cpu |-> TakeObjects(m.cpu, Head(q.span_list)), pool |-> ListPool(m.cpu, q)]
           b == [cpu |-> NewObjects(more.cpu, more.page), pool |-> NewPool(q, more.page)]
<1>1. /\ Good(m.cpu, q, S, R) /\ m.cpu.nr_pages = c.nr_pages
      /\ Cardinality(q.free) <= PoolBound
      /\ m \in [cpu : CpuRec, pool : PoolRec]
  BY DEF MoreStates
<1>2. m = [cpu |-> m.cpu, pool |-> q] /\ q \in PoolRec
  BY <1>1
<1>3. n = IF P!Cardinality(q.free) >= P!Goal THEN [cpu |-> m.cpu, pool |-> q]
          ELSE IF q.span_list # << >> THEN a
          ELSE IF more.page = 0 THEN [cpu |-> m.cpu, pool |-> q] ELSE b
  BY Zenon DEF P!MoreObjects, TakeObjects, ListPool, NewObjects, NewPool
<1>4. P!Cardinality(q.free) = Cardinality(q.free)
  BY PageSizes
<1>5. n = m \/ (Cardinality(q.free) < P!Goal /\ ObjectsMore(m.cpu, q, S, R, n))
  <2>1. CASE P!Cardinality(q.free) >= P!Goal
    BY <1>2, <1>3, <2>1
  <2>2. Cardinality(q.free) \in Nat
    <3>1. q.free \in SUBSET P!Object
      BY <1>2 DEF PoolRec
    <3> QED BY <3>1, ObjectFacts, FS_Subset, FS_CardinalityType, SMTT(40)
  <2>3. CASE ~(P!Cardinality(q.free) >= P!Goal) /\ q.span_list # << >>
    <3>1. n = a
      BY <1>3, <2>3
    <3>2. ObjectsMore(m.cpu, q, S, R, a)
      BY <1>1, <2>3, MoreFromList
    <3>3. Cardinality(q.free) < P!Goal
      BY <1>4, <2>2, <2>3, GoalFacts
    <3> QED BY <3>1, <3>2, <3>3
  <2>4. CASE ~(P!Cardinality(q.free) >= P!Goal) /\ q.span_list = << >> /\ more.page = 0
    BY <1>2, <1>3, <2>4
  <2>5. CASE ~(P!Cardinality(q.free) >= P!Goal) /\ q.span_list = << >> /\ more.page # 0
    <3>1. n = b
      BY <1>3, <2>5
    <3>2. PICK B : Spread(m.cpu, B, q, S, R)
      BY <1>1 DEF Good
    <3>3. Mem(m.cpu, B) /\ Settled(B) /\ 1 \in {1, 2} /\ 1 \in Nat \ {0}
      BY <3>2 DEF Spread
    <3>4. more = [cpu |-> m.cpu, page |-> 0] \/ Got(m.cpu, B, 1, more)
      BY <3>3, Allocation
    <3>5. Got(m.cpu, B, 1, more)
      BY <2>5, <3>4
    <3> HIDE DEF more
    <3>6. ObjectsMore(m.cpu, q, S, R, b)
      BY <1>1, <3>2, <3>5, MoreFromPage
    <3>7. Cardinality(q.free) < P!Goal
      BY <1>4, <2>2, <2>5, GoalFacts
    <3> QED BY <3>1, <3>6, <3>7
  <2> QED BY <2>1, <2>3, <2>4, <2>5
<1>6. CASE n = m
  BY <1>6
<1>7. CASE Cardinality(q.free) < P!Goal /\ ObjectsMore(m.cpu, q, S, R, n)
  <2>1. n = [cpu |-> n.cpu, pool |-> n.pool]
    BY <1>3
  <2> HIDE DEF n
  <2>2. /\ Good(n.cpu, n.pool, S, R) /\ n.cpu.nr_pages = c.nr_pages
        /\ IsFiniteSet(n.pool.free)
        /\ Cardinality(n.pool.free) <= Cardinality(q.free) + Slots
    BY <1>1, <1>7 DEF ObjectsMore
  <2>3. n.cpu \in CpuRec /\ n.pool \in PoolRec
    BY <2>2 DEF Good, Spread, Mem, Pooling
  <2>4. Cardinality(n.pool.free) <= PoolBound
    <3>1. Cardinality(n.pool.free) \in Nat
      BY <2>2, FS_CardinalityType
    <3>2. Cardinality(q.free) \in Nat
      <4>1. q.free \in SUBSET P!Object
        BY <1>2 DEF PoolRec
      <4> QED BY <4>1, ObjectFacts, FS_Subset, FS_CardinalityType
    <3> HIDE DEF q
    <3> QED BY <1>7, <2>2, <3>1, <3>2, GoalFacts DEF PoolBound
  <2>5. n \in [cpu : CpuRec, pool : PoolRec]
    BY <2>1, <2>3
  <2>6. n \in MoreStates(c, S, R)
    BY <2>2, <2>4, <2>5 DEF MoreStates
  <2> QED BY <2>6 DEF n
<1> QED BY <1>5, <1>6, <1>7

-----------------------------------------------------------------------------
(* All turns of add_more_objects and of trim_free_list. *)

\* A step that stays in a set can be taken N times.
Takes(T, F, x, N, f) ==
    f \in [0 .. N -> T] /\ f[0] = x /\ \A n \in 1 .. N : f[n] = F[f[n - 1]]

LEMMA Iterates ==
    ASSUME NEW T, NEW F \in [T -> T], NEW x \in T, NEW N \in Nat
    PROVE  \E f : Takes(T, F, x, N, f)
<1> DEFINE Ok(n) == \E f : Takes(T, F, x, n, f)
           K == {n \in Nat : ~Ok(n)}
<1>1. SUFFICES ASSUME K # {} PROVE FALSE
  OBVIOUS
<1>2. PICK i \in K : \A j \in K : i <= j
  <2> HIDE DEF Ok
  <2> QED BY <1>1, LeastNatural
<1>3. i \in Nat /\ ~Ok(i)
  OBVIOUS
<1>4. i # 0
  <2> SUFFICES ASSUME i = 0 PROVE FALSE
    OBVIOUS
  <2> DEFINE f == [n \in 0 .. 0 |-> x]
  <2>1. f \in [0 .. 0 -> T] /\ f[0] = x /\ \A n \in 1 .. 0 : f[n] = F[f[n - 1]]
    OBVIOUS
  <2>2. Takes(T, F, x, 0, f)
    BY <2>1 DEF Takes
  <2> QED BY <1>3, <2>2
<1>5. i - 1 \in Nat /\ ~(i <= i - 1)
  BY <1>3, <1>4
<1>6. Ok(i - 1)
  <2> HIDE DEF Ok
  <2> QED BY <1>2, <1>5
<1>7. PICK f : Takes(T, F, x, i - 1, f)
  BY <1>6
<1> DEFINE j == i - 1
           g == [n \in 0 .. i |-> IF n = i THEN F[f[j]] ELSE f[n]]
<1>8. f \in [0 .. j -> T] /\ f[0] = x /\ \A n \in 1 .. j : f[n] = F[f[n - 1]]
  BY <1>7 DEF Takes
<1>9. j \in Nat /\ i = j + 1 /\ i \in Nat
  BY <1>3, <1>5
<1> HIDE DEF j
<1>10. f[j] \in T
  BY <1>8, <1>9
<1>11. g \in [0 .. i -> T] /\ g[0] = x
  BY <1>8, <1>9, <1>10
<1>12. \A n \in 1 .. i : g[n] = F[g[n - 1]]
  <2> TAKE n \in 1 .. i
  <2>1. CASE n = i
    <3>1. n - 1 = j /\ j # i /\ j \in 0 .. i
      BY <1>9, <2>1
    <3>2. g[n] = F[f[j]] /\ g[n - 1] = f[j]
      BY <2>1, <3>1
    <3> QED BY <3>2
  <2>2. CASE n # i
    <3>1. n \in 1 .. j /\ n - 1 \in 0 .. i /\ n - 1 # i /\ n \in 0 .. i
      BY <1>9, <2>2
    <3>2. g[n] = f[n] /\ g[n - 1] = f[n - 1]
      BY <2>2, <3>1
    <3> QED BY <1>8, <3>1, <3>2
  <2> QED BY <2>1, <2>2
<1> HIDE DEF g
<1>13. Takes(T, F, x, i, g)
  BY <1>11, <1>12 DEF Takes
<1> QED BY <1>3, <1>13

\* All turns of add_more_objects.
LEMMA AddedMore ==
    ASSUME NEW c, NEW q, NEW S, NEW R, [cpu |-> c, pool |-> q] \in MoreStates(c, S, R)
    PROVE  P!AddMore(c, q) \in MoreStates(c, S, R)
<1> DEFINE T == MoreStates(c, S, R)
           x == [cpu |-> c, pool |-> q]
           F == [m \in T |-> P!MoreObjects(m.cpu, m.pool)]
           N == P!Goal
           Body(f) == [turn \in 0 .. N |-> IF turn = 0 THEN x
                                           ELSE P!MoreObjects(f[turn - 1].cpu, f[turn - 1].pool)]
           g == CHOOSE f : f = Body(f)
<1>1. P!AddMore(c, q) = g[N]
  BY Zenon DEF P!AddMore
<1>2. N \in Nat
  BY GoalFacts
<1>3. \A m \in T : P!MoreObjects(m.cpu, m.pool) \in T
  BY MoreOne
<1>4. x \in T
  OBVIOUS
<1> HIDE DEF T, x, N
<1>5. F \in [T -> T]
  BY <1>3
<1>6. \E f : f = Body(f)
  <2>1. \E f : Takes(T, F, x, N, f)
    <3> HIDE DEF F
    <3> QED BY <1>2, <1>4, <1>5, Iterates
  <2>2. PICK f : f \in [0 .. N -> T] /\ f[0] = x /\ \A n \in 1 .. N : f[n] = F[f[n - 1]]
    BY <2>1 DEF Takes
  <2>3. ASSUME NEW n \in 0 .. N PROVE f[n] = Body(f)[n]
    <3>1. CASE n = 0
      BY <2>2, <3>1
    <3>2. CASE n # 0
      <4>1. n \in 1 .. N /\ n - 1 \in 0 .. N
        BY <1>2, <3>2
      <4>2. f[n - 1] \in T /\ f[n] = F[f[n - 1]]
        BY <2>2, <4>1
      <4> QED BY <3>2, <4>2
    <3> QED BY <3>1, <3>2
  <2>4. f = Body(f)
    BY <2>2, <2>3
  <2> QED BY <2>4
<1>7. g = Body(g)
  <2> HIDE DEF Body
  <2> QED BY <1>6
<1> HIDE DEF g, F
<1> DEFINE K == {n \in 0 .. N : g[n] \notin T}
<1>8. K = {}
  <2> SUFFICES ASSUME K # {} PROVE FALSE
    OBVIOUS
  <2>1. K \in SUBSET Nat
    BY <1>2
  <2>2. PICK i \in K : \A j \in K : i <= j
    <3> HIDE DEF K
    <3> QED BY <2>1, LeastNatural
  <2>3. i \in 0 .. N /\ g[i] \notin T
    OBVIOUS
  <2>4. CASE i = 0
    <3>1. g[0] = x
      <4>1. 0 \in 0 .. N
        BY <1>2
      <4>2. Body(g)[0] = x
        BY <4>1
      <4> HIDE DEF Body
      <4> QED BY <1>7, <4>2
    <3> QED BY <1>4, <2>3, <2>4, <3>1
  <2>5. CASE i # 0
    <3>1. i - 1 \in 0 .. N /\ ~(i <= i - 1)
      BY <1>2, <2>3, <2>5
    <3>2. g[i - 1] \in T
      BY <2>2, <3>1
    <3>3. Body(g)[i] = P!MoreObjects(g[i - 1].cpu, g[i - 1].pool)
      BY <2>3, <2>5
    <3>4. g[i] = P!MoreObjects(g[i - 1].cpu, g[i - 1].pool)
      <4> HIDE DEF Body
      <4> QED BY <1>7, <3>3
    <3> QED BY <1>3, <2>3, <3>2, <3>4
  <2> QED BY <2>4, <2>5
<1>9. N \in 0 .. N
  BY <1>2
<1> QED BY <1>1, <1>8, <1>9 DEF T

TrimStates(c, S, R) ==
    {m \in [cpu : CpuRec, pool : PoolRec] :
        Good(m.cpu, m.pool, S, R) /\ m.cpu.nr_pages = c.nr_pages}

\* All that one turn of trim_free_list may leave.
TrimSet(U) == UNION {{P!TrimObject(m.cpu, m.pool, o) : o \in m.pool.free} : m \in U}

LEMMA TrimmedOne ==
    ASSUME NEW c, NEW S, NEW R, NEW m \in TrimStates(c, S, R), NEW o \in m.pool.free
    PROVE  /\ P!TrimObject(m.cpu, m.pool, o) \in TrimStates(c, S, R)
           /\ Cardinality(P!TrimObject(m.cpu, m.pool, o).pool.free) = Cardinality(m.pool.free) - 1
<1> DEFINE t == P!TrimObject(m.cpu, m.pool, o)
<1>1. t = [cpu |-> t.cpu, pool |-> t.pool]
  <2> DEFINE d == TrimBack(m.cpu, o)
             r == TrimPool(m.cpu, m.pool, o)
             e == P!free_span(d, o[1], d.pages[o[1]].span_size)
             s == [r EXCEPT !.span_list = P!erase(@, o[1])]
  <2>1. t = IF d.pages[o[1]].nr_small_alloc = 0 THEN [cpu |-> e, pool |-> s] ELSE [cpu |-> d, pool |-> r]
    BY Zenon DEF P!TrimObject, TrimBack, TrimPool, TrimLinked
  <2> HIDE DEF t, d, r, e, s
  <2> QED BY <2>1
<1>2. /\ Good(m.cpu, m.pool, S, R) /\ m.cpu.nr_pages = c.nr_pages
      /\ m \in [cpu : CpuRec, pool : PoolRec]
  BY DEF TrimStates
<1>3. ObjectGone(m.cpu, m.pool, S, R, o, t)
  BY <1>2, TrimOne
<1> HIDE DEF t
<1>4. /\ Good(t.cpu, t.pool, S, R) /\ t.cpu.nr_pages = c.nr_pages
      /\ t.pool.free = m.pool.free \ {o}
  BY <1>2, <1>3 DEF ObjectGone
<1>5. t.cpu \in CpuRec /\ t.pool \in PoolRec
  BY <1>4 DEF Good, Spread, Mem, Pooling
<1>6. t \in TrimStates(c, S, R)
  BY <1>1, <1>4, <1>5 DEF TrimStates
<1>7. IsFiniteSet(m.pool.free)
  <2>1. m.pool.free \in SUBSET P!Object
    BY <1>2 DEF PoolRec
  <2> QED BY <2>1, ObjectFacts, FS_Subset
<1>8. Cardinality(t.pool.free) = Cardinality(m.pool.free) - 1
  BY <1>4, <1>7, FS_RemoveElement, ZenonT(60)
<1> QED BY <1>6, <1>8 DEF t

\* All turns of trim_free_list: what is left is good, and Goal objects are free
\* if there were more.
TrimmedTo(c, q, S, R, m) ==
    /\ m \in TrimStates(c, S, R)
    /\ Cardinality(m.pool.free) = IF Cardinality(q.free) <= P!Goal THEN Cardinality(q.free) ELSE P!Goal

LEMMA TrimmedAll ==
    ASSUME NEW c, NEW q, NEW S, NEW R, [cpu |-> c, pool |-> q] \in TrimStates(c, S, R),
           NEW m \in P!Trimmed(c, q)
    PROVE  TrimmedTo(c, q, S, R, m)
<1> DEFINE M == TrimStates(c, S, R)
           T == SUBSET M
           x == {[cpu |-> c, pool |-> q]}
           F == [U \in T |-> TrimSet(U)]
           k == Cardinality(q.free)
           N == IF P!Cardinality(q.free) <= P!Goal THEN 0 ELSE P!Cardinality(q.free) - P!Goal
           Body(f) == [n \in 0 .. N |-> IF n = 0 THEN x ELSE TrimSet(f[n - 1])]
           g == CHOOSE f : f = Body(f)
           Now(n) == {s \in M : Cardinality(s.pool.free) = k - n}
<1>1. P!Trimmed(c, q) = g[N]
  BY Zenon DEF P!Trimmed, TrimSet
<1>2. k \in Nat /\ P!Goal \in Nat /\ P!Cardinality(q.free) = k
  <2>1. [cpu |-> c, pool |-> q].pool \in PoolRec
    BY DEF TrimStates
  <2>2. q.free \in SUBSET P!Object
    BY <2>1 DEF PoolRec
  <2>3. Cardinality(q.free) \in Nat
    BY <2>2, ObjectFacts, FS_Subset, FS_CardinalityType
  <2> QED BY <2>3, GoalFacts, PageSizes
<1>3. N \in Nat /\ N = IF k <= P!Goal THEN 0 ELSE k - P!Goal
  BY <1>2
<1>4. ASSUME NEW U \in T PROVE TrimSet(U) \in T
  <2> SUFFICES ASSUME NEW s \in U, NEW o \in s.pool.free PROVE P!TrimObject(s.cpu, s.pool, o) \in M
    BY DEF TrimSet
  <2> QED BY TrimmedOne
<1>5. x \in T
  OBVIOUS
<1>6. ASSUME NEW n \in Nat, NEW U, U \subseteq Now(n) PROVE TrimSet(U) \subseteq Now(n + 1)
  <2> SUFFICES ASSUME NEW s \in U, NEW o \in s.pool.free PROVE P!TrimObject(s.cpu, s.pool, o) \in Now(n + 1)
    BY DEF TrimSet
  <2>1. s \in M /\ Cardinality(s.pool.free) = k - n
    BY <1>6
  <2> DEFINE t == P!TrimObject(s.cpu, s.pool, o)
  <2>2. t \in M /\ Cardinality(t.pool.free) = Cardinality(s.pool.free) - 1
    BY <2>1, TrimmedOne
  <2> HIDE DEF t, k, M
  <2>3. (k - n) - 1 = k - (n + 1)
    BY <1>2
  <2> QED BY <2>1, <2>2, <2>3 DEF t
<1>7. x \subseteq Now(0)
  <2>1. k - 0 = k
    BY <1>2
  <2> QED BY <2>1
<1> HIDE DEF M, x, N, Now
<1>8. F \in [T -> T]
  <2> HIDE DEF T
  <2> QED BY <1>4
<1>9. \E f : f = Body(f)
  <2>1. \E f : Takes(T, F, x, N, f)
    <3> HIDE DEF F, T
    <3> QED BY <1>3, <1>5, <1>8, Iterates
  <2> HIDE DEF T
  <2>2. PICK f : f \in [0 .. N -> T] /\ f[0] = x /\ \A n \in 1 .. N : f[n] = F[f[n - 1]]
    BY <2>1 DEF Takes
  <2>3. ASSUME NEW n \in 0 .. N PROVE f[n] = Body(f)[n]
    <3>1. CASE n = 0
      BY <2>2, <3>1
    <3>2. CASE n # 0
      <4>1. n \in 1 .. N /\ n - 1 \in 0 .. N
        BY <1>3, <3>2
      <4>2. f[n - 1] \in T /\ f[n] = F[f[n - 1]]
        BY <2>2, <4>1
      <4> QED BY <3>2, <4>2
    <3> QED BY <3>1, <3>2
  <2>4. f = Body(f)
    BY <2>2, <2>3
  <2> QED BY <2>4
<1>10. g = Body(g)
  <2> HIDE DEF Body
  <2> QED BY <1>9
<1> HIDE DEF g, F, T
<1> DEFINE K == {n \in 0 .. N : ~(g[n] \subseteq Now(n))}
<1>11. K = {}
  <2> SUFFICES ASSUME K # {} PROVE FALSE
    OBVIOUS
  <2>1. K \in SUBSET Nat
    BY <1>3
  <2>2. PICK i \in K : \A j \in K : i <= j
    <3> HIDE DEF K
    <3> QED BY <2>1, LeastNatural
  <2>3. i \in 0 .. N /\ ~(g[i] \subseteq Now(i))
    OBVIOUS
  <2>4. CASE i = 0
    <3>1. g[0] = x
      <4>1. 0 \in 0 .. N
        BY <1>3
      <4>2. Body(g)[0] = x
        BY <4>1
      <4> HIDE DEF Body
      <4> QED BY <1>10, <4>2
    <3> QED BY <1>7, <2>3, <2>4, <3>1
  <2>5. CASE i # 0
    <3>1. i - 1 \in 0 .. N /\ ~(i <= i - 1) /\ i - 1 \in Nat /\ (i - 1) + 1 = i
      BY <1>3, <2>3, <2>5
    <3>2. g[i - 1] \subseteq Now(i - 1)
      BY <2>2, <3>1
    <3>3. Body(g)[i] = TrimSet(g[i - 1])
      BY <2>3, <2>5
    <3>4. g[i] = TrimSet(g[i - 1])
      <4> HIDE DEF Body
      <4> QED BY <1>10, <3>3
    <3>5. TrimSet(g[i - 1]) \subseteq Now((i - 1) + 1)
      BY <1>6, <3>1, <3>2
    <3> QED BY <2>3, <3>1, <3>4, <3>5
  <2> QED BY <2>4, <2>5
<1>12. N \in 0 .. N
  BY <1>3
<1>13. m \in Now(N)
  BY <1>1, <1>11, <1>12
<1>14. m \in M /\ Cardinality(m.pool.free) = k - N
  BY <1>13 DEF Now
<1>15. k - N = IF k <= P!Goal THEN k ELSE P!Goal
  <2> HIDE DEF k
  <2> QED BY <1>2, <1>3
<1> QED BY <1>14, <1>15 DEF TrimmedTo, M

-----------------------------------------------------------------------------
(* Large allocations: allocated, freed and shrunk; do_resize. *)

\* Only who holds an object changes.
LEMMA SameOut ==
    ASSUME NEW c, NEW q, NEW S, NEW R, Good(c, q, S, R), NEW r \in PoolRec, NEW T \in SUBSET P!Object,
           r.span_list = q.span_list, T \cup r.free = S \cup q.free, T \cap r.free = {}
    PROVE  Good(c, r, T, R)
<1>1. Pooling(c, q, S)
  BY DEF Good
<1>2. PICK B : Spread(c, B, q, S, R)
  BY DEF Good
<1>3. PagesOf(r, T) = PagesOf(q, S) /\ \A x : OutOf(r, T, x) = OutOf(q, S, x)
  BY DEF PagesOf, OutOf
<1>4. Pooling(c, r, T)
  <2>1. \A x \in PagesOf(r, T) : PageOfPool(c, r, T, x)
    BY <1>1, <1>3 DEF Pooling, PageOfPool
  <2>2. Once(r.span_list)
    BY <1>1 DEF Pooling
  <2>3. \A x \in 0 .. 8 : x \in PagesIn(r.span_list) <=> x \in PagesOf(r, T) /\ c.pages[x].freelist # {}
    BY <1>1, <1>3 DEF Pooling
  <2> QED BY <2>1, <2>2, <2>3 DEF Pooling
<1>5. Spread(c, B, r, T, R)
  BY <1>2, <1>3 DEF Spread
<1> QED BY <1>4, <1>5 DEF Good

SameFields(c, d, q, S) ==
    \A x \in 0 .. 8 : /\ d.pages[x].freelist = c.pages[x].freelist
                      /\ d.pages[x].nr_small_alloc = c.pages[x].nr_small_alloc
                      /\ x \in PagesOf(q, S) => d.pages[x].pool = c.pages[x].pool

BlocksAre(d, C, q, S, R) ==
    /\ Mem(d, C) /\ Settled(C)
    /\ Used(C) = R \cup {PoolBlock(p) : p \in PagesOf(q, S)}

\* Only blocks that are not of the pool change.
LEMMA GoodAgain ==
    ASSUME NEW c, NEW q, NEW S, NEW R, Good(c, q, S, R),
           NEW d, SameFields(c, d, q, S), NEW T, \E C : BlocksAre(d, C, q, S, T),
           \A b \in T : b.use # "pool",
           \A b \in T : b.use = "large" => ~d.pages[b.at].pool
    PROVE  Good(d, q, S, T)
<1>1. Pooling(c, q, S)
  BY DEF Good
<1>2. Pooling(d, q, S)
  <2>1. ASSUME NEW x \in PagesOf(q, S) PROVE PageOfPool(d, q, S, x)
    <3>1. x \in 0 .. 8 /\ PageOfPool(c, q, S, x)
      BY <1>1, PagesOfFacts DEF Pooling
    <3> QED BY <3>1 DEF PageOfPool, SameFields
  <2>2. \A x \in 0 .. 8 : x \in PagesIn(q.span_list) <=> x \in PagesOf(q, S) /\ d.pages[x].freelist # {}
    BY <1>1 DEF Pooling, SameFields
  <2> QED BY <1>1, <2>1, <2>2 DEF Pooling
<1>3. \E C : Spread(d, C, q, S, T)
  BY DEF BlocksAre, Spread
<1> QED BY <1>2, <1>3 DEF Good

LEMMA SameFieldsOf ==
    ASSUME NEW c, NEW d, SameObjects(c, d), NEW q, NEW S
    PROVE  SameFields(c, d, q, S)
BY DEF SameObjects, SameFields

\* What is known of the blocks of a good memory.
GoodWith(c, B, q, S, R) ==
    /\ Spread(c, B, q, S, R) /\ Mem(c, B) /\ Settled(B) /\ R \subseteq Used(B) /\ R \subseteq B
    /\ Used(B) = R \cup {PoolBlock(p) : p \in PagesOf(q, S)}
    /\ \A b \in R : b.use # "pool"
    /\ \A b \in R : b.use = "large" => ~c.pages[b.at].pool
    /\ \A b \in R : b.at \in 1 .. 7 /\ b.size \in 1 .. 7 /\ b \in Blocks

LEMMA GoodBlocks ==
    ASSUME NEW c, NEW q, NEW S, NEW R, Good(c, q, S, R)
    PROVE  \E B : GoodWith(c, B, q, S, R)
<1>1. PICK B : Spread(c, B, q, S, R)
  BY DEF Good
<1>2. /\ Mem(c, B) /\ Settled(B)
      /\ Used(B) = R \cup {PoolBlock(p) : p \in PagesOf(q, S)}
      /\ \A b \in R : b.use # "pool"
      /\ \A b \in R : b.use = "large" => ~c.pages[b.at].pool
  BY <1>1 DEF Spread
<1>3. R \subseteq Used(B) /\ R \subseteq B
  BY <1>2 DEF Used
<1>4. \A b \in R : b.at \in 1 .. 7 /\ b.size \in 1 .. 7 /\ b \in Blocks
  BY <1>2, <1>3, BlockFacts
<1> QED BY <1>1, <1>2, <1>3, <1>4 DEF GoodWith

\* A block that is not of the pool is freed.
LEMMA BlockBack ==
    ASSUME NEW c, NEW q, NEW S, NEW R, Good(c, q, S, R), NEW b \in R
    PROVE  /\ Good(P!free_span(c, b.at, b.size), q, S, R \ {b})
           /\ P!free_span(c, b.at, b.size).nr_pages = c.nr_pages
<1> DEFINE d == P!free_span(c, b.at, b.size)
<1>0. PICK B : GoodWith(c, B, q, S, R)
  BY GoodBlocks
<1>1. /\ Mem(c, B) /\ Settled(B) /\ R \subseteq Used(B) /\ Spread(c, B, q, S, R)
      /\ Used(B) = R \cup {PoolBlock(p) : p \in PagesOf(q, S)}
      /\ \A e \in R : e.use # "pool"
      /\ \A e \in R : e.use = "large" => ~c.pages[e.at].pool
      /\ \A e \in R : e.at \in 1 .. 7
  BY <1>0 DEF GoodWith
<1>2. SameObjects(c, d) /\ \E C : Mem(d, C) /\ Settled(C) /\ Used(C) = Used(B) \ {b}
  BY <1>1, FreeBlock
<1> HIDE DEF d
<1>3. PICK C : Mem(d, C) /\ Settled(C) /\ Used(C) = Used(B) \ {b}
  BY <1>2
<1>4. Used(C) = (R \ {b}) \cup {PoolBlock(p) : p \in PagesOf(q, S)}
  <2>1. \A p : PoolBlock(p) # b
    BY <1>1 DEF PoolBlock
  <2> QED BY <1>1, <1>3, <2>1
<1>5. BlocksAre(d, C, q, S, R \ {b})
  BY <1>3, <1>4 DEF BlocksAre
<1>6. \A e \in R \ {b} : e.use = "large" => ~d.pages[e.at].pool
  BY <1>1, <1>2 DEF SameObjects
<1>7. Good(d, q, S, R \ {b})
  <2>1. SameFields(c, d, q, S)
    BY <1>2, SameFieldsOf
  <2> QED BY <1>1, <1>5, <1>6, <2>1, GoodAgain
<1>8. d.nr_pages = c.nr_pages
  BY <1>2 DEF SameObjects
<1> QED BY <1>7, <1>8 DEF d

LargeGot(c, q, S, R, n, got) ==
    /\ Good(got.cpu, q, S, R \cup {LargeBlock(got.page, n)}) /\ got.cpu.nr_pages = c.nr_pages
    /\ got.page \in 1 .. 7 /\ n \in 1 .. 7
    /\ LargeBlock(got.page, n) \notin R

\* Pages that are allocated are a block of their own.
LEMMA LargeTaken ==
    ASSUME NEW c, NEW q, NEW S, NEW R, Good(c, q, S, R), NEW align \in {1, 2}, NEW n \in Nat \ {0},
           P!Allocate(c, align, n).page # 0
    PROVE  LargeGot(c, q, S, R, n, P!Allocate(c, align, n))
<1> DEFINE got == P!Allocate(c, align, n)
           p == got.page
           d == got.cpu
           b == LargeBlock(p, n)
<1>0. PICK B : GoodWith(c, B, q, S, R)
  BY GoodBlocks
<1>1. /\ Mem(c, B) /\ Settled(B) /\ R \subseteq Used(B) /\ Spread(c, B, q, S, R)
      /\ Used(B) = R \cup {PoolBlock(x) : x \in PagesOf(q, S)}
      /\ \A e \in R : e.use # "pool"
      /\ \A e \in R : e.use = "large" => ~c.pages[e.at].pool
      /\ \A e \in R : e.at \in 1 .. 7
  BY <1>0 DEF GoodWith
<1>2. got = [cpu |-> c, page |-> 0] \/ Got(c, B, n, got)
  BY <1>1, Allocation
<1>3. Got(c, B, n, got)
  BY <1>2
<1> HIDE DEF got
<1>4. p \in 1 .. 7 /\ PoolCleared(c, d, p)
  BY <1>3 DEF Got
<1>5. PICK C : /\ Mem(d, C) /\ Settled(C) /\ Used(C) = Used(B) \cup {b} /\ b \notin Used(B)
  BY <1>3 DEF Got
<1>6. b.at = p /\ b.size = n /\ b.use = "large"
  BY DEF LargeBlock
<1> HIDE DEF p, d, b
<1>7. b \in C /\ n \in 1 .. 7 /\ Used(B) \subseteq C
  <2>1. b \in C /\ Used(B) \subseteq C
    BY <1>5, <1>6 DEF Used
  <2> QED BY <1>5, <1>6, <2>1, BlockFacts
<1>8. \A e \in Used(B) : e.at # p /\ e.at \in 1 .. 7
  <2> SUFFICES ASSUME NEW e \in Used(B) PROVE e.at # p /\ e.at \in 1 .. 7
    OBVIOUS
  <2>1. e \in C /\ e # b
    BY <1>5, <1>7
  <2>2. e.at \in 1 .. 7 /\ e.size \in 1 .. 7 /\ (b = e \/ Apart(b, e))
    BY <1>5, <1>7, <2>1, BlockFacts
  <2>3. Apart(b, e)
    BY <2>1, <2>2
  <2> QED BY <1>4, <1>6, <1>7, <2>2, <2>3 DEF Apart
<1>9. p \notin PagesOf(q, S)
  <2>1. \A x \in PagesOf(q, S) : PoolBlock(x) \in Used(B) /\ PoolBlock(x).at = x
    BY <1>1 DEF PoolBlock
  <2> QED BY <1>8, <2>1
<1>10. SameFields(c, d, q, S) /\ d.nr_pages = c.nr_pages
  BY <1>4, <1>9 DEF PoolCleared, SameFields
<1>11. BlocksAre(d, C, q, S, R \cup {b})
  BY <1>1, <1>5 DEF BlocksAre
<1>12. \A e \in R \cup {b} : e.use # "pool" /\ (e.use = "large" => ~d.pages[e.at].pool)
  <2>1. ~d.pages[b.at].pool
    BY <1>4, <1>6 DEF PoolCleared
  <2>2. \A e \in R : e.use = "large" => ~d.pages[e.at].pool
    BY <1>1, <1>4, <1>8 DEF PoolCleared
  <2> QED BY <1>1, <1>6, <2>1, <2>2
<1>13. Good(d, q, S, R \cup {b})
  BY <1>10, <1>11, <1>12, GoodAgain
<1>14. b \notin R
  BY <1>1, <1>5
<1> QED BY <1>4, <1>7, <1>10, <1>13, <1>14 DEF LargeGot, d, p, b, got

ShrinkFront(c, a, n) ==
    [c EXCEPT !.pages[a].span_size = n, !.pages[a + n - 1].free = FALSE,
              !.pages[a + n - 1].span_size = n]

\* shrink marks the ends of the pages that are kept.
LEMMA ShrinkMarks ==
    ASSUME NEW c \in CpuRec, NEW a \in 1 .. 7, NEW n \in 1 .. 7, a + n <= 8, ~c.pages[a].free
    PROVE  EndsMarked(c, ShrinkFront(c, a, n), a, n, FALSE)
<1> DEFINE z == a + n - 1
           r == c.pages[a]
           s == [r EXCEPT !.span_size = n]
           e == Anew(c, a, s)
           t == [e.pages[z] EXCEPT !.free = FALSE]
           f == Anew(e, z, t)
           u == [t EXCEPT !.span_size = n]
           d == ShrinkFront(c, a, n)
<1>1. z \in 0 .. 8 /\ a \in 0 .. 8 /\ n \in 0 .. 8
  OBVIOUS
<1>2. d = [f EXCEPT !.pages = [f.pages EXCEPT ![z] = [f.pages[z] EXCEPT !.span_size = n]]]
  BY DEF ShrinkFront, Anew
<1> HIDE DEF z
<1>3. r \in PageRec
  BY <1>1 DEF CpuRec
<1>4. /\ s \in PageRec /\ s.span_size = n /\ s.free = r.free /\ s.pool = r.pool
      /\ s.freelist = r.freelist /\ s.nr_small_alloc = r.nr_small_alloc
  BY <1>1, <1>3 DEF PageRec
<1> HIDE DEF s, r
<1>5. PageIs(c, e, a, s)
  BY <1>1, <1>4, OnePage
<1> HIDE DEF e
<1>6. e \in CpuRec /\ e.pages[a] = s /\ \A x \in 0 .. 8 : x # a => e.pages[x] = c.pages[x]
  BY <1>5 DEF PageIs
<1>7. f.pages[z] = t
  BY <1>1, <1>6, AnewTwice
<1>8. d = Anew(f, z, u)
  <2> HIDE DEF f, d, t
  <2> QED BY <1>2, <1>7 DEF Anew
<1>9. d = Anew(e, z, u)
  <2> HIDE DEF u, t, d
  <2> QED BY <1>1, <1>6, <1>8, AnewTwice
<1> HIDE DEF f, d
<1> DEFINE g == e.pages[z]
<1>10. g \in PageRec
  BY <1>1, <1>6 DEF CpuRec
<1>11. /\ u \in PageRec /\ u.free = FALSE /\ u.span_size = n /\ u.pool = g.pool
       /\ u.freelist = g.freelist /\ u.nr_small_alloc = g.nr_small_alloc
  BY <1>1, <1>10 DEF PageRec
<1> HIDE DEF u
<1>12. PageIs(e, d, z, u)
  BY <1>1, <1>6, <1>9, <1>11, OnePage
<1>13. /\ d \in CpuRec /\ d.pages[z] = u /\ \A x \in 0 .. 8 : x # z => d.pages[x] = e.pages[x]
       /\ d.nr_pages = c.nr_pages /\ d.free_spans = c.free_spans /\ d.nr_free_pages = c.nr_free_pages
  BY <1>5, <1>12 DEF PageIs
<1>14. g.pool = c.pages[z].pool /\ g.freelist = c.pages[z].freelist /\ g.nr_small_alloc = c.pages[z].nr_small_alloc
  <2>1. CASE z = a
    BY <1>4, <1>6, <2>1 DEF r
  <2>2. CASE z # a
    BY <1>1, <1>6, <2>2
  <2> QED BY <2>1, <2>2
<1>15. SameObjects(c, d)
  <2> SUFFICES ASSUME NEW x \in 0 .. 8
               PROVE  /\ d.pages[x].pool = c.pages[x].pool /\ d.pages[x].freelist = c.pages[x].freelist
                      /\ d.pages[x].nr_small_alloc = c.pages[x].nr_small_alloc
    BY <1>13 DEF SameObjects
  <2>1. CASE x = z
    BY <1>11, <1>13, <1>14, <2>1
  <2>2. CASE x # z /\ x = a
    BY <1>4, <1>6, <1>13, <2>2 DEF r
  <2>3. CASE x # z /\ x # a
    BY <1>6, <1>13, <2>3
  <2> QED BY <2>1, <2>2, <2>3
<1>16. r.free = FALSE
  BY <1>3 DEF PageRec, r
<1>17. \A x \in 0 .. 8 :
          IF x = a \/ x = a + n - 1
          THEN d.pages[x].free = FALSE /\ d.pages[x].span_size = n
          ELSE d.pages[x].free = c.pages[x].free /\ d.pages[x].span_size = c.pages[x].span_size
  <2> TAKE x \in 0 .. 8
  <2>0. z = a + n - 1
    BY DEF z
  <2>1. CASE x = z
    BY <1>11, <1>13, <2>0, <2>1
  <2>2. CASE x # z /\ x = a
    <3>1. d.pages[x] = s
      BY <1>6, <1>13, <2>2
    <3> QED BY <1>4, <1>16, <2>2, <3>1
  <2>3. CASE x # z /\ x # a
    BY <1>6, <1>13, <2>0, <2>3
  <2> QED BY <2>1, <2>2, <2>3
<1> QED BY <1>13, <1>15, <1>17 DEF EndsMarked, d

\* shrink keeps the front of a block, and frees the rest.
LEMMA Shrunk ==
    ASSUME NEW c, NEW q, NEW S, NEW R, Good(c, q, S, R), NEW a, NEW k, LargeBlock(a, k) \in R,
           NEW n \in 1 .. k - 1
    PROVE  LET d == P!free_span(ShrinkFront(c, a, n), a + n, k - n)
           IN /\ Good(d, q, S, (R \ {LargeBlock(a, k)}) \cup {LargeBlock(a, n)})
              /\ d.nr_pages = c.nr_pages
<1> DEFINE b == LargeBlock(a, k)
           v == LargeBlock(a, n)
           e == ShrinkFront(c, a, n)
           d == P!free_span(e, a + n, k - n)
<1>0. PICK B : GoodWith(c, B, q, S, R)
  BY GoodBlocks
<1>1. /\ Mem(c, B) /\ Settled(B) /\ b \in B
      /\ Used(B) = R \cup {PoolBlock(p) : p \in PagesOf(q, S)}
      /\ \A x \in R : x.use # "pool"
      /\ \A x \in R : x.use = "large" => ~c.pages[x.at].pool
      /\ \A x \in R : x.at \in 1 .. 7
  BY <1>0 DEF GoodWith
<1>2. b.at = a /\ b.size = k /\ b.use = "large" /\ v.at = a /\ v.size = n /\ v.use = "large"
  BY DEF LargeBlock
<1>3. /\ a \in 1 .. 7 /\ k \in 1 .. 7 /\ a + k <= 8 /\ n \in 1 .. 6 /\ n < k /\ c \in CpuRec
      /\ ~c.pages[a].free /\ b \in Blocks
  <2>1. b.at \in 1 .. 7 /\ b.size \in 1 .. 7 /\ b.at + b.size <= c.nr_pages /\ c.nr_pages \in {5, 8}
        /\ b \in Blocks
    BY <1>1, BlockFacts
  <2>2. ~c.pages[b.at].free /\ c \in CpuRec
    BY <1>1, <1>2 DEF Mem, Marked
  <2> HIDE DEF b
  <2> QED BY <1>2, <2>1, <2>2
<1> DEFINE w == [b EXCEPT !.use = "work"]
           A1 == As(B, b, "work")
           f == Front(w, n)
           g == Back(w, n)
           A2 == Split(A1, w, n)
           A3 == As(A2, f, "large")
<1>4. w.at = a /\ w.size = k /\ w.use = "work" /\ w \in A1 /\ A1 = (B \ {b}) \cup {w}
  BY <1>2, <1>3 DEF Blocks, As
<1>5. Mem(c, A1)
  <2> HIDE DEF b
  <2> QED BY <1>1, <1>2, Released
<1> HIDE DEF b, w, A1
<1>6. Mem(c, A2)
  BY <1>3, <1>4, <1>5, Divided
<1>7. /\ f.at = a /\ f.size = n /\ f.use = "work" /\ g.at = a + n /\ g.size = k - n /\ g.use = "work"
      /\ f \in A2 /\ g \in A2 /\ f # g /\ A2 = (A1 \ {w}) \cup {f, g}
      /\ [f EXCEPT !.use = "large"] = v
  BY <1>3, <1>4 DEF Front, Back, Split, LargeBlock
<1>8. A3 = (A2 \ {f}) \cup {v}
  BY <1>7 DEF As
<1> HIDE DEF f, g, A2, v
<1>9. EndsMarked(c, e, f.at, f.size, FALSE)
  <2>1. a + n <= 8 /\ n \in 1 .. 7
    BY <1>3
  <2> HIDE DEF e
  <2> QED BY <1>3, <1>7, <2>1, ShrinkMarks DEF e
<1>10. Mem(e, A3) /\ SameObjects(c, e)
  <2> HIDE DEF e
  <2> QED BY <1>6, <1>7, <1>9, TakenMarked
<1> HIDE DEF A3, e
<1>11. AtWork(e, A3, g)
  <2>1. \A x \in A3 : x.use = "work" => x = g
    BY <1>1, <1>2, <1>4, <1>7, <1>8 DEF Settled
  <2> QED BY <1>7, <1>8, <1>10, <2>1 DEF AtWork
<1>12. Used(A3) = (Used(B) \ {b}) \cup {v}
  BY <1>2, <1>4, <1>7, <1>8 DEF Used
<1>13. \E C : /\ Mem(P!free_span(e, g.at, g.size), C) /\ Settled(C) /\ Used(C) = Used(A3)
              /\ SameObjects(e, P!free_span(e, g.at, g.size))
  BY <1>11, FreeSpan
<1>14. d = P!free_span(e, g.at, g.size)
  BY <1>7
<1> HIDE DEF d
<1>15. PICK C : Mem(d, C) /\ Settled(C) /\ Used(C) = Used(A3) /\ SameObjects(e, d)
  BY <1>13, <1>14
<1> DEFINE T == (R \ {b}) \cup {v}
<1>16. SameObjects(c, d)
  BY <1>10, <1>15, SameTwice
<1>17. Used(C) = T \cup {PoolBlock(p) : p \in PagesOf(q, S)}
  <2>1. \A p : PoolBlock(p) # b
    BY <1>2 DEF PoolBlock
  <2> QED BY <1>1, <1>12, <1>15, <2>1
<1>18. BlocksAre(d, C, q, S, T)
  BY <1>15, <1>17 DEF BlocksAre
<1>19. \A x \in T : x.use # "pool" /\ x.at \in 1 .. 7 /\ (x.use = "large" => ~c.pages[x.at].pool)
  <2>1. b \in R
    BY DEF b
  <2>2. ~c.pages[a].pool
    BY <1>1, <1>2, <2>1
  <2> QED BY <1>1, <1>2, <1>3, <2>2
<1>20. \A x \in T : x.use = "large" => ~d.pages[x.at].pool
  BY <1>16, <1>19 DEF SameObjects
<1>21. SameFields(c, d, q, S)
  BY <1>16, SameFieldsOf
<1> HIDE DEF T
<1>22. Good(d, q, S, T)
  BY <1>18, <1>19, <1>20, <1>21, GoodAgain
<1>23. d.nr_pages = c.nr_pages
  BY <1>16 DEF SameObjects
<1> QED BY <1>22, <1>23 DEF T, d, e, b, v

ArrayAt(p, n) == [at |-> p, size |-> n, use |-> "array"]

\* Pages that are allocated become the new array of page structures.
LEMMA AsArray ==
    ASSUME NEW c, NEW q, NEW S, NEW R, Good(c, q, S, R), NEW p, NEW n, LargeBlock(p, n) \in R
    PROVE  Good(c, q, S, (R \ {LargeBlock(p, n)}) \cup {ArrayAt(p, n)})
<1> DEFINE b == LargeBlock(p, n)
           v == ArrayAt(p, n)
           T == (R \ {b}) \cup {v}
<1>0. PICK B : GoodWith(c, B, q, S, R)
  BY GoodBlocks
<1>1. /\ Mem(c, B) /\ Settled(B) /\ b \in B
      /\ Used(B) = R \cup {PoolBlock(x) : x \in PagesOf(q, S)}
      /\ \A x \in R : x.use # "pool"
      /\ \A x \in R : x.use = "large" => ~c.pages[x.at].pool
  BY <1>0 DEF GoodWith
<1> DEFINE C == As(B, b, "array")
<1>2. b.use = "large" /\ v.use = "array" /\ [b EXCEPT !.use = "array"] = v
  BY DEF LargeBlock, ArrayAt
<1>3. C = (B \ {b}) \cup {v}
  BY <1>2 DEF As
<1>4. Mem(c, C)
  <2> HIDE DEF b
  <2> QED BY <1>1, <1>2, Pooled
<1> HIDE DEF b, v, C
<1>5. Settled(C)
  BY <1>1, <1>2, <1>3 DEF Settled
<1>6. Used(C) = (Used(B) \ {b}) \cup {v}
  BY <1>2, <1>3 DEF Used
<1>7. Used(C) = T \cup {PoolBlock(x) : x \in PagesOf(q, S)}
  <2>1. \A x : PoolBlock(x) # b
    BY <1>2 DEF PoolBlock
  <2> QED BY <1>1, <1>6, <2>1
<1>8. BlocksAre(c, C, q, S, T)
  BY <1>4, <1>5, <1>7 DEF BlocksAre
<1>9. \A x \in T : x.use # "pool" /\ (x.use = "large" => ~c.pages[x.at].pool)
  BY <1>1, <1>2
<1>10. SameFields(c, c, q, S)
  BY DEF SameFields
<1> HIDE DEF T
<1>11. Good(c, q, S, T)
  BY <1>8, <1>9, <1>10, GoodAgain
<1> QED BY <1>11 DEF T, b, v

Grow(c) == [c EXCEPT !.nr_pages = 8]

\* More pages join, none of them free.
LEMMA Grown ==
    ASSUME NEW c, NEW q, NEW S, NEW R, Good(c, q, S, R), c.nr_pages = 5
    PROVE  Good(Grow(c), q, S, R \cup {Added}) /\ Grow(c).nr_pages = 8
<1> DEFINE d == Grow(c)
           T == R \cup {Added}
<1>0. PICK B : GoodWith(c, B, q, S, R)
  BY GoodBlocks
<1>1. /\ Mem(c, B) /\ Settled(B)
      /\ Used(B) = R \cup {PoolBlock(x) : x \in PagesOf(q, S)}
      /\ \A x \in R : x.use # "pool"
      /\ \A x \in R : x.use = "large" => ~c.pages[x.at].pool
  BY <1>0 DEF GoodWith
<1>2. c \in CpuRec /\ Layout(B, 5) /\ Marked(c, B) /\ InLists(c, B)
      /\ c.nr_free_pages = Cardinality(FreePages(B))
  BY <1>1 DEF Mem
<1>3. /\ d \in CpuRec /\ d.pages = c.pages /\ d.free_spans = c.free_spans
      /\ d.nr_pages = 8 /\ d.nr_free_pages = c.nr_free_pages
  BY <1>2 DEF CpuRec, Grow
<1> HIDE DEF d
<1> DEFINE C == B \cup {Added}
<1>4. Layout(C, 8)
  BY <1>2, LayoutAdded
<1>5. Added.use = "array" /\ Added.at = 5 /\ Added.at + Added.size - 1 = 7
  BY DEF Added
<1>6. Marked(d, C)
  <2>1. ~c.pages[5].free /\ ~c.pages[7].free /\ ~c.pages[8].free
    BY <1>2 DEF Marked
  <2>2. \A p \in 8 .. 8 : ~c.pages[p].free
    BY <2>1
  <2> HIDE DEF C
  <2> QED BY <1>2, <1>3, <1>5, <2>1, <2>2 DEF Marked, C
<1>7. InLists(d, C)
  <2>1. \A b \in C : b.use = "free" => b \in B
    BY <1>5
  <2>2. \A b \in B : b.use = "free" => b \in C
    OBVIOUS
  <2> HIDE DEF C
  <2> QED BY <1>2, <1>3, <2>1, <2>2, SameLists
<1>8. FreePages(C) = FreePages(B)
  BY <1>5 DEF FreePages
<1>9. Mem(d, C)
  BY <1>2, <1>3, <1>4, <1>6, <1>7, <1>8 DEF Mem
<1>10. Settled(C) /\ Used(C) = Used(B) \cup {Added}
  BY <1>1, <1>5 DEF Settled, Used
<1>11. BlocksAre(d, C, q, S, T)
  <2>1. Used(C) = T \cup {PoolBlock(x) : x \in PagesOf(q, S)}
    BY <1>1, <1>10
  <2> HIDE DEF C, T
  <2> QED BY <1>9, <1>10, <2>1 DEF BlocksAre
<1>12. \A x \in T : x.use # "pool" /\ (x.use = "large" => ~d.pages[x.at].pool)
  BY <1>1, <1>3, <1>5
<1>13. SameFields(c, d, q, S)
  BY <1>3 DEF SameFields
<1> HIDE DEF T, C
<1>14. Good(d, q, S, T)
  BY <1>11, <1>12, <1>13, GoodAgain
<1> QED BY <1>3, <1>14 DEF T, d

MovedTo(c, k, n) ==
    P!free_span(P!free_span(Grow(P!Allocate(c, 1, n).cpu), 1, k - 1), 5, 3)

\* do_resize moves the array, and frees the old one and the pages that join.
LEMMA Resized ==
    ASSUME NEW c, NEW q, NEW S, NEW L, NEW k \in 2 .. 3, Good(c, q, S, L \cup {ArrayAt(1, k - 1)}),
           c.nr_pages = 5, \A b \in L : b.use = "large", NEW n \in 2 .. 5,
           P!Allocate(c, 1, n).page # 0
    PROVE  /\ Good(MovedTo(c, k, n), q, S, L \cup {ArrayAt(P!Allocate(c, 1, n).page, n)})
           /\ MovedTo(c, k, n).nr_pages = 8 /\ P!Allocate(c, 1, n).page \in 1 .. 7
<1> DEFINE got == P!Allocate(c, 1, n)
           p == got.page
           A == ArrayAt(1, k - 1)
           M == LargeBlock(p, n)
           N == ArrayAt(p, n)
           g == Grow(got.cpu)
           e == P!free_span(g, 1, k - 1)
           d == P!free_span(e, 5, 3)
<1>1. LargeGot(c, q, S, L \cup {A}, n, got)
  <2>1. 1 \in {1, 2} /\ n \in Nat \ {0}
    OBVIOUS
  <2> HIDE DEF A
  <2> QED BY <2>1, LargeTaken DEF A
<1> HIDE DEF got
<1>2. /\ Good(got.cpu, q, S, (L \cup {A}) \cup {M}) /\ got.cpu.nr_pages = 5
      /\ p \in 1 .. 7 /\ M \notin L \cup {A}
  BY <1>1 DEF LargeGot
<1>3. /\ A.at = 1 /\ A.size = k - 1 /\ A.use = "array" /\ M.at = p /\ M.size = n /\ M.use = "large"
      /\ N.at = p /\ N.size = n /\ N.use = "array"
      /\ Added.at = 5 /\ Added.size = 3 /\ Added.use = "array"
  BY DEF ArrayAt, LargeBlock, Added
<1> HIDE DEF p, M, N, A, g, e, d
<1>4. p # 1 /\ p # 5
  <2>1. PICK B : GoodWith(got.cpu, B, q, S, (L \cup {A}) \cup {M})
    BY <1>2, GoodBlocks
  <2>2. Mem(got.cpu, B) /\ A \in B /\ M \in B
    BY <2>1 DEF GoodWith
  <2>3. M.at + M.size <= 5 /\ (A = M \/ Apart(A, M)) /\ A.size \in 1 .. 7
    BY <1>2, <2>2, BlockFacts
  <2>4. Apart(A, M)
    BY <1>3, <2>3
  <2> QED BY <1>2, <1>3, <2>3, <2>4 DEF Apart
<1>5. Good(got.cpu, q, S, (((L \cup {A}) \cup {M}) \ {M}) \cup {N})
  BY <1>2, AsArray DEF M, N
<1>6. ((L \cup {A}) \cup {M}) \ {M} = L \cup {A}
  BY <1>2
<1>7. Good(got.cpu, q, S, (L \cup {A}) \cup {N})
  BY <1>5, <1>6
<1>8. Good(g, q, S, ((L \cup {A}) \cup {N}) \cup {Added}) /\ g.nr_pages = 8
  BY <1>2, <1>7, Grown DEF g
<1>9. /\ Good(e, q, S, (((L \cup {A}) \cup {N}) \cup {Added}) \ {A}) /\ e.nr_pages = 8
  <2>1. A \in ((L \cup {A}) \cup {N}) \cup {Added}
    OBVIOUS
  <2>2. e = P!free_span(g, A.at, A.size)
    BY <1>3 DEF e
  <2> DEFINE All == ((L \cup {A}) \cup {N}) \cup {Added}
  <2> HIDE DEF All
  <2>3. /\ Good(P!free_span(g, A.at, A.size), q, S, All \ {A})
        /\ P!free_span(g, A.at, A.size).nr_pages = g.nr_pages
    BY <1>8, <2>1, BlockBack DEF All
  <2> QED BY <1>8, <2>2, <2>3 DEF All
<1>10. (((L \cup {A}) \cup {N}) \cup {Added}) \ {A} = (L \cup {N}) \cup {Added}
  BY <1>3, <1>4
<1>11. Good(d, q, S, ((L \cup {N}) \cup {Added}) \ {Added}) /\ d.nr_pages = 8
  <2>1. Added \in (L \cup {N}) \cup {Added}
    OBVIOUS
  <2>2. d = P!free_span(e, Added.at, Added.size)
    BY <1>3 DEF d
  <2> DEFINE All == (L \cup {N}) \cup {Added}
  <2> HIDE DEF All
  <2>3. /\ Good(P!free_span(e, Added.at, Added.size), q, S, All \ {Added})
        /\ P!free_span(e, Added.at, Added.size).nr_pages = e.nr_pages
    BY <1>9, <1>10, <2>1, BlockBack DEF All
  <2> QED BY <1>9, <2>2, <2>3 DEF All
<1>12. ((L \cup {N}) \cup {Added}) \ {Added} = L \cup {N}
  BY <1>3, <1>4
<1> QED BY <1>2, <1>11, <1>12 DEF got, p, d, e, g, N, MovedTo

-----------------------------------------------------------------------------
(* The invariant: the memory is good for what is held, and the array is where *)
(* the page structures are.                                               *)

HeldRec == [at : 1 .. 7, slot : 0 .. Slots, pages : 0 .. 7]
SmallOf(H) == {<<h.at, h.slot>> : h \in {x \in H : x.slot # 0}}
LargeOf(H) == {LargeBlock(h.at, h.pages) : h \in {x \in H : x.slot = 0}}
ArrayOf(a) == IF a.first = 0 THEN ArrayAt(1, a.number - 1) ELSE ArrayAt(a.first, a.number)
FewFree(q) == Cardinality(q.free) < MaxFree \/ Cardinality(q.free) < PoolBound

\* Where the page structures are says how many pages there are.
ArrayFits(c, a) ==
    \/ c.nr_pages = 5 /\ a = [first |-> 0, number |-> P!ArrayPages(5)]
    \/ c.nr_pages = 8 /\ a.first \in 1 .. 7 /\ a = [first |-> a.first, number |-> P!ArrayPages(8)]

PagesOk(c, a, q, H) ==
    /\ H \subseteq HeldRec
    /\ \A h \in H : h.slot # 0 => h.pages = 0
    /\ ArrayFits(c, a)
    /\ Good(c, q, SmallOf(H), LargeOf(H) \cup {ArrayOf(a)})
    /\ FewFree(q)

NoSpans == [pages |-> [p \in 0 .. 8 |-> P!EmptyPage], free_spans |-> [i \in 0 .. 8 |-> << >>],
            nr_pages |-> 5, nr_free_pages |-> 0]
WorkAt(p, n) == [at |-> p, size |-> n, use |-> "work"]

\* initialize: the pages behind the array are one block at work.
LEMMA FirstBlocks ==
    ASSUME NEW k \in 2 .. 3
    PROVE  LET B == {ArrayAt(1, k - 1), WorkAt(k, 5 - k)} IN Mem(NoSpans, B) /\ Alone(B, WorkAt(k, 5 - k))
<1> DEFINE a == ArrayAt(1, k - 1)
           w == WorkAt(k, 5 - k)
           B == {a, w}
           c == NoSpans
<1>1. a.at = 1 /\ a.size = k - 1 /\ a.use = "array" /\ w.at = k /\ w.size = 5 - k /\ w.use = "work"
  BY DEF ArrayAt, WorkAt
<1>2. k = 2 \/ k = 3
  OBVIOUS
<1>3. a \in Blocks /\ w \in Blocks
  BY <1>2 DEF ArrayAt, WorkAt, Blocks, Kind
<1> HIDE DEF a, w
<1>4. Layout(B, 5)
  <2>1. B \subseteq Blocks /\ \A b \in B : b.at + b.size <= 5
    BY <1>1, <1>2, <1>3
  <2>2. \A d, b \in B : d = b \/ Apart(d, b)
    <3>1. Apart(a, w) /\ Apart(w, a)
      BY <1>1, <1>2 DEF Apart
    <3> QED BY <3>1
  <2>3. \A p \in 1 .. 5 - 1 : \E b \in B : Within(p, b)
    BY <1>1, <1>2 DEF Within
  <2>4. \A d, b \in B : d.use = "free" /\ b.use = "free" => ~Next2(d, b)
    BY <1>1
  <2> HIDE DEF B
  <2> QED BY <2>1, <2>2, <2>3, <2>4 DEF Layout
<1>5. /\ \A p \in 0 .. 8 : c.pages[p] = P!EmptyPage
      /\ \A i \in 0 .. 8 : c.free_spans[i] = << >>
      /\ c.nr_pages = 5 /\ c.nr_free_pages = 0
  BY DEF NoSpans
<1>6. P!EmptyPage \in PageRec /\ ~P!EmptyPage.free
  BY ObjectFacts DEF P!EmptyPage, PageRec
<1>7. c \in CpuRec
  <2>1. [p \in 0 .. 8 |-> P!EmptyPage] \in [0 .. 8 -> PageRec]
    BY <1>6
  <2>2. [i \in 0 .. 8 |-> << >>] \in [0 .. 8 -> Seq(0 .. 8)]
    OBVIOUS
  <2> QED BY <2>1, <2>2 DEF NoSpans, CpuRec
<1> HIDE DEF c
<1>8. Marked(c, B)
  <2>1. ~c.pages[0].free /\ \A p \in 5 .. 8 : ~c.pages[p].free
    BY <1>5, <1>6
  <2>2. ~c.pages[a.at].free /\ ~c.pages[a.at + a.size - 1].free
    <3>1. a.at \in 0 .. 8 /\ a.at + a.size - 1 \in 0 .. 8
      BY <1>1, <1>2
    <3> QED BY <1>5, <1>6, <3>1
  <2> QED BY <1>1, <1>5, <2>1, <2>2 DEF Marked
<1>9. InLists(c, B)
  <2>1. \A i \in 0 .. 8 : Once(c.free_spans[i])
    BY <1>5 DEF Once
  <2>2. \A i \in 0 .. 8 : PagesIn(c.free_spans[i]) = {}
    BY <1>5 DEF PagesIn
  <2> QED BY <1>1, <2>1, <2>2 DEF InLists
<1>10. c.nr_free_pages = Cardinality(FreePages(B))
  <2>1. FreePages(B) = {}
    BY <1>1 DEF FreePages
  <2> QED BY <1>5, <2>1, FS_EmptySet
<1>11. Alone(B, w)
  BY <1>1 DEF Alone
<1> QED BY <1>4, <1>5, <1>7, <1>8, <1>9, <1>10, <1>11 DEF Mem, c, a, w

LEMMA FirstPages ==
    ASSUME NEW k, k = P!ArrayPages(5)
    PROVE  PagesOk(P!free_span_no_merge(NoSpans, k, 5 - k), [first |-> 0, number |-> k],
                   [free |-> {}, span_list |-> << >>], {})
<1> DEFINE a == ArrayAt(1, k - 1)
           w == WorkAt(k, 5 - k)
           B == {a, w}
           d == P!free_span_no_merge(NoSpans, k, 5 - k)
           q == [free |-> {}, span_list |-> << >>]
           arr == [first |-> 0, number |-> k]
           C == As(B, w, "free")
<1>1. k \in 2 .. 3
  BY PageFacts
<1>2. Mem(NoSpans, B) /\ Alone(B, w)
  BY <1>1, FirstBlocks
<1>3. a.use = "array" /\ w.at = k /\ w.size = 5 - k /\ w.use = "work" /\ w \in B
  BY DEF ArrayAt, WorkAt
<1>4. [w EXCEPT !.use = "free"].use = "free" /\ C = (B \ {w}) \cup {[w EXCEPT !.use = "free"]}
  BY DEF WorkAt, As
<1>5. Mem(d, C) /\ SameObjects(NoSpans, d)
  <2>1. d = P!free_span_no_merge(NoSpans, w.at, w.size)
    BY <1>3
  <2> HIDE DEF d, B, w
  <2> QED BY <1>2, <1>3, <2>1, Linked
<1> HIDE DEF d, C, a, w
<1>6. Settled(C) /\ Used(C) = {a}
  BY <1>3, <1>4 DEF Settled, Used
<1>7. d.nr_pages = 5
  BY <1>5 DEF SameObjects, NoSpans
<1>8. PagesOf(q, {}) = {} /\ q \in PoolRec /\ Once(q.span_list) /\ PagesIn(q.span_list) = {}
  BY DEF PagesOf, PoolRec, Once, PagesIn
<1>9. Pooling(d, q, {})
  BY <1>8 DEF Pooling
<1>10. Spread(d, C, q, {}, {a})
  BY <1>3, <1>5, <1>6, <1>8 DEF Spread
<1>11. SmallOf({}) = {} /\ LargeOf({}) = {} /\ ArrayOf(arr) = a
  BY DEF SmallOf, LargeOf, ArrayOf, a
<1>12. Good(d, q, SmallOf({}), LargeOf({}) \cup {ArrayOf(arr)})
  <2>1. LargeOf({}) \cup {ArrayOf(arr)} = {a}
    BY <1>11
  <2> QED BY <1>9, <1>10, <1>11, <2>1 DEF Good
<1>13. ArrayFits(d, arr)
  BY <1>7 DEF ArrayFits
<1>14. FewFree(q)
  <2>1. Cardinality(q.free) = 0
    BY FS_EmptySet
  <2> QED BY <2>1, PagesAssumption DEF FewFree
<1> QED BY <1>12, <1>13, <1>14 DEF PagesOk, d

Taking(p, n) == [at |-> p, slot |-> 0, pages |-> n]
TakingSmall(o) == [at |-> o[1], slot |-> o[2], pages |-> 0]

LEMMA FitsAgain ==
    ASSUME NEW c, NEW d, NEW a, ArrayFits(c, a), d.nr_pages = c.nr_pages
    PROVE  ArrayFits(d, a)
BY DEF ArrayFits

LEMMA LargeAllocated ==
    ASSUME NEW c, NEW a, NEW q, NEW H, PagesOk(c, a, q, H), NEW align \in {1, 2}, NEW n \in Nat \ {0},
           P!Allocate(c, align, n).page # 0
    PROVE  PagesOk(P!Allocate(c, align, n).cpu, a, q, H \cup {Taking(P!Allocate(c, align, n).page, n)})
<1> DEFINE got == P!Allocate(c, align, n)
           p == got.page
           h == Taking(p, n)
           R == LargeOf(H) \cup {ArrayOf(a)}
<1>1. LargeGot(c, q, SmallOf(H), R, n, got)
  <2>1. Good(c, q, SmallOf(H), R)
    BY DEF PagesOk
  <2> HIDE DEF R
  <2> QED BY <2>1, LargeTaken
<1> HIDE DEF got, R
<1>2. /\ Good(got.cpu, q, SmallOf(H), R \cup {LargeBlock(p, n)}) /\ got.cpu.nr_pages = c.nr_pages
      /\ p \in 1 .. 7 /\ n \in 1 .. 7
  BY <1>1 DEF LargeGot
<1>3. h.at = p /\ h.slot = 0 /\ h.pages = n /\ h \in HeldRec
  BY <1>2, ObjectFacts DEF Taking, HeldRec
<1> HIDE DEF h, p
<1>4. SmallOf(H \cup {h}) = SmallOf(H)
  BY <1>3 DEF SmallOf
<1>5. LargeOf(H \cup {h}) = LargeOf(H) \cup {LargeBlock(p, n)}
  BY <1>3 DEF LargeOf
<1>6. Good(got.cpu, q, SmallOf(H \cup {h}), LargeOf(H \cup {h}) \cup {ArrayOf(a)})
  <2>1. R \cup {LargeBlock(p, n)} = LargeOf(H \cup {h}) \cup {ArrayOf(a)}
    BY <1>5 DEF R
  <2> QED BY <1>2, <1>4, <2>1
<1>7. ArrayFits(got.cpu, a)
  BY <1>2, FitsAgain DEF PagesOk
<1>8. H \cup {h} \subseteq HeldRec /\ \A g \in H \cup {h} : g.slot # 0 => g.pages = 0
  BY <1>3 DEF PagesOk
<1>9. FewFree(q)
  BY DEF PagesOk
<1> QED BY <1>6, <1>7, <1>8, <1>9 DEF PagesOk, got, p, h

LEMMA LargeHeld ==
    ASSUME NEW c, NEW a, NEW q, NEW H, PagesOk(c, a, q, H), NEW h \in H, h.slot = 0
    PROVE  /\ LargeBlock(h.at, h.pages) \in LargeOf(H)
           /\ c.pages[h.at].span_size = h.pages /\ ~c.pages[h.at].pool
           /\ h.at \in 1 .. 7 /\ h.pages \in 1 .. 7
           /\ LargeOf(H \ {h}) = LargeOf(H) \ {LargeBlock(h.at, h.pages)}
           /\ SmallOf(H \ {h}) = SmallOf(H)
           /\ LargeBlock(h.at, h.pages) # ArrayOf(a)
<1> DEFINE b == LargeBlock(h.at, h.pages)
           R == LargeOf(H) \cup {ArrayOf(a)}
<1>1. b \in LargeOf(H) /\ b.at = h.at /\ b.size = h.pages /\ b.use = "large"
  BY DEF LargeOf, LargeBlock
<1>2. PICK B : GoodWith(c, B, q, SmallOf(H), R)
  BY GoodBlocks DEF PagesOk
<1>3. Mem(c, B) /\ b \in B /\ ~c.pages[b.at].pool /\ b.at \in 1 .. 7 /\ b.size \in 1 .. 7
  BY <1>1, <1>2 DEF GoodWith
<1>4. c.pages[b.at].span_size = b.size
  BY <1>1, <1>3 DEF Mem, Marked
<1>5. LargeOf(H \ {h}) = LargeOf(H) \ {b}
  <2>1. ASSUME NEW g \in H, g.slot = 0, LargeBlock(g.at, g.pages) = b PROVE g = h
    <3>1. g.at = h.at /\ g.pages = h.pages
      BY <1>1, <2>1 DEF LargeBlock
    <3> QED BY <2>1, <3>1 DEF PagesOk, HeldRec
  <2> HIDE DEF b
  <2> QED BY <2>1 DEF LargeOf, b
<1>6. SmallOf(H \ {h}) = SmallOf(H)
  BY DEF SmallOf
<1>7. b # ArrayOf(a)
  BY <1>1 DEF ArrayOf, ArrayAt
<1> QED BY <1>1, <1>3, <1>4, <1>5, <1>6, <1>7

LEMMA LargeFreed ==
    ASSUME NEW c, NEW a, NEW q, NEW H, PagesOk(c, a, q, H), NEW h \in H, h.slot = 0
    PROVE  PagesOk(P!free_span(c, h.at, c.pages[h.at].span_size), a, q, H \ {h})
<1> DEFINE b == LargeBlock(h.at, h.pages)
           R == LargeOf(H) \cup {ArrayOf(a)}
           d == P!free_span(c, h.at, c.pages[h.at].span_size)
<1>1. /\ b \in R /\ b # ArrayOf(a) /\ c.pages[h.at].span_size = h.pages
      /\ LargeOf(H \ {h}) = LargeOf(H) \ {b}
      /\ SmallOf(H \ {h}) = SmallOf(H)
  BY LargeHeld
<1>2. b.at = h.at /\ b.size = h.pages
  BY DEF LargeBlock
<1>3. d = P!free_span(c, b.at, b.size)
  BY <1>1, <1>2
<1> HIDE DEF b, R, d
<1>4. Good(c, q, SmallOf(H), R)
  BY DEF PagesOk, R
<1>5. Good(d, q, SmallOf(H), R \ {b}) /\ d.nr_pages = c.nr_pages
  BY <1>1, <1>3, <1>4, BlockBack, ZenonT(60)
<1>6. R \ {b} = LargeOf(H \ {h}) \cup {ArrayOf(a)}
  BY <1>1 DEF R
<1>7. ArrayFits(d, a)
  BY <1>5, FitsAgain DEF PagesOk
<1> QED BY <1>1, <1>5, <1>6, <1>7 DEF PagesOk, d

LEMMA LargeShrunk ==
    ASSUME NEW c, NEW a, NEW q, NEW H, PagesOk(c, a, q, H), NEW h \in H, h.slot = 0,
           NEW n \in Nat \ {0}, n < c.pages[h.at].span_size
    PROVE  PagesOk(P!free_span(ShrinkFront(c, h.at, n), h.at + n, c.pages[h.at].span_size - n), a, q,
                   (H \ {h}) \cup {[h EXCEPT !.pages = n]})
<1> DEFINE b == LargeBlock(h.at, h.pages)
           R == LargeOf(H) \cup {ArrayOf(a)}
           d == P!free_span(ShrinkFront(c, h.at, n), h.at + n, c.pages[h.at].span_size - n)
           g == [h EXCEPT !.pages = n]
           v == LargeBlock(h.at, n)
           K == (H \ {h}) \cup {g}
<1>1. /\ b \in R /\ b # ArrayOf(a) /\ c.pages[h.at].span_size = h.pages
      /\ LargeOf(H \ {h}) = LargeOf(H) \ {b}
      /\ SmallOf(H \ {h}) = SmallOf(H)
      /\ h.at \in 1 .. 7 /\ h.pages \in 1 .. 7
  BY LargeHeld
<1>2. n \in 1 .. h.pages - 1 /\ n \in 0 .. 7
  BY <1>1
<1>3. g.at = h.at /\ g.slot = 0 /\ g.pages = n /\ g \in HeldRec
  BY <1>2 DEF PagesOk, HeldRec
<1>4. Good(d, q, SmallOf(H), (R \ {b}) \cup {v}) /\ d.nr_pages = c.nr_pages
  <2>1. Good(c, q, SmallOf(H), R)
    BY DEF PagesOk
  <2>2. d = P!free_span(ShrinkFront(c, h.at, n), h.at + n, h.pages - n)
    BY <1>1
  <2> HIDE DEF R, d
  <2> QED BY <1>1, <1>2, <2>1, <2>2, Shrunk
<1> HIDE DEF b, R, d, g, v
<1>5. LargeOf(K) = LargeOf(H \ {h}) \cup {v}
  BY <1>3 DEF LargeOf, v
<1>6. SmallOf(K) = SmallOf(H \ {h})
  BY <1>3 DEF SmallOf
<1>7. (R \ {b}) \cup {v} = LargeOf(K) \cup {ArrayOf(a)}
  BY <1>1, <1>5 DEF R
<1>8. ArrayFits(d, a)
  BY <1>4, FitsAgain DEF PagesOk
<1>9. K \subseteq HeldRec /\ \A x \in K : x.slot # 0 => x.pages = 0
  BY <1>3 DEF PagesOk
<1>10. FewFree(q)
  BY DEF PagesOk
<1> QED BY <1>1, <1>4, <1>6, <1>7, <1>8, <1>9, <1>10 DEF PagesOk, d, g

LEMMA ArrayMoved ==
    ASSUME NEW c, NEW a, NEW q, NEW H, PagesOk(c, a, q, H), c.nr_pages = 5,
           P!Allocate(c, 1, P!ArrayPages(8)).page # 0
    PROVE  PagesOk(MovedTo(c, a.number, P!ArrayPages(8)),
                   [first |-> P!Allocate(c, 1, P!ArrayPages(8)).page, number |-> P!ArrayPages(8)], q, H)
<1> DEFINE n == P!ArrayPages(8)
           got == P!Allocate(c, 1, n)
           d == MovedTo(c, a.number, n)
           e == [first |-> got.page, number |-> n]
           k == a.number
<1>1. a = [first |-> 0, number |-> P!ArrayPages(5)]
  BY DEF PagesOk, ArrayFits
<1>2. k \in 2 .. 3 /\ n \in 2 .. 5 /\ a.first = 0
  BY <1>1, PageFacts
<1>3. ArrayOf(a) = ArrayAt(1, k - 1)
  BY <1>2 DEF ArrayOf
<1>4. Good(c, q, SmallOf(H), LargeOf(H) \cup {ArrayAt(1, k - 1)})
  BY <1>3 DEF PagesOk
<1>5. \A b \in LargeOf(H) : b.use = "large"
  BY DEF LargeOf, LargeBlock
<1>6. /\ Good(d, q, SmallOf(H), LargeOf(H) \cup {ArrayAt(got.page, n)}) /\ d.nr_pages = 8
      /\ got.page \in 1 .. 7
  <2>1. P!Allocate(c, 1, n).page # 0
    OBVIOUS
  <2> DEFINE S == SmallOf(H)
             L == LargeOf(H)
  <2>3. Good(c, q, S, L \cup {ArrayAt(1, k - 1)}) /\ \A b \in L : b.use = "large"
    BY <1>4, <1>5
  <2>4. k \in 2 .. 3 /\ n \in 2 .. 5
    BY <1>2
  <2> HIDE DEF k, n, S, L
  <2>2. /\ Good(MovedTo(c, k, n), q, S, L \cup {ArrayAt(P!Allocate(c, 1, n).page, n)})
        /\ MovedTo(c, k, n).nr_pages = 8 /\ P!Allocate(c, 1, n).page \in 1 .. 7
    BY <2>1, <2>3, <2>4, Resized
  <2> QED BY <2>2 DEF k, S, L
<1> HIDE DEF d, got, n
<1>7. ArrayOf(e) = ArrayAt(got.page, n) /\ e.first \in 1 .. 7
  BY <1>6 DEF ArrayOf
<1>8. ArrayFits(d, e)
  BY <1>6, <1>7 DEF ArrayFits, n
<1>9. H \subseteq HeldRec /\ (\A h \in H : h.slot # 0 => h.pages = 0) /\ FewFree(q)
  BY DEF PagesOk
<1> QED BY <1>6, <1>7, <1>8, <1>9 DEF PagesOk, d, got, n

LEMMA PoolFree ==
    ASSUME NEW q \in PoolRec
    PROVE  IsFiniteSet(q.free) /\ Cardinality(q.free) \in Nat /\ P!Cardinality(q.free) = Cardinality(q.free)
<1>1. q.free \in SUBSET P!Object
  BY DEF PoolRec
<1>2. IsFiniteSet(q.free)
  BY <1>1, ObjectFacts, FS_Subset
<1>3. Cardinality(q.free) \in Nat
  BY <1>2, FS_CardinalityType
<1>4. P!Cardinality(q.free) = Cardinality(q.free)
  BY PageSizes
<1> QED BY <1>2, <1>3, <1>4

LEMMA GoodRecs ==
    ASSUME NEW c, NEW q, NEW S, NEW R, Good(c, q, S, R)
    PROVE  c \in CpuRec /\ q \in PoolRec /\ S \in SUBSET P!Object
BY DEF Good, Spread, Mem, Pooling

\* An object of the pool is allocated.
LEMMA ObjectHeld ==
    ASSUME NEW c, NEW q, NEW S, NEW R, Good(c, q, S, R), NEW o \in q.free
    PROVE  /\ Good(c, [q EXCEPT !.free = @ \ {o}], S \cup {o}, R)
           /\ Cardinality([q EXCEPT !.free = @ \ {o}].free) = Cardinality(q.free) - 1
           /\ o[1] \in 1 .. 7 /\ o[2] \in 1 .. Slots /\ o = <<o[1], o[2]>>
<1> DEFINE r == [q EXCEPT !.free = @ \ {o}]
<1>1. q \in PoolRec /\ S \in SUBSET P!Object /\ S \cap q.free = {}
  BY GoodRecs DEF Good, Pooling
<1>2. r \in PoolRec /\ r.free = q.free \ {o} /\ r.span_list = q.span_list
  BY <1>1 DEF PoolRec
<1>3. o \in P!Object
  BY <1>1 DEF PoolRec
<1> HIDE DEF r
<1>4. S \cup {o} \in SUBSET P!Object /\ (S \cup {o}) \cup r.free = S \cup q.free
      /\ (S \cup {o}) \cap r.free = {}
  BY <1>1, <1>2, <1>3
<1>5. Good(c, r, S \cup {o}, R)
  BY <1>2, <1>4, SameOut
<1>6. Cardinality(r.free) = Cardinality(q.free) - 1
  <2>1. IsFiniteSet(q.free)
    BY <1>1, PoolFree
  <2> QED BY <1>2, <2>1, FS_RemoveElement
<1>7. o[1] \in 1 .. 7
  <2>1. PICK B : Spread(c, B, q, S, R)
    BY DEF Good
  <2>2. o[1] \in PagesOf(q, S)
    BY DEF PagesOf
  <2> QED BY <2>1, <2>2, BlocksOfPool
<1>8. o[2] \in 1 .. Slots /\ o = <<o[1], o[2]>>
  BY <1>3, ObjectFacts
<1> QED BY <1>5, <1>6, <1>7, <1>8 DEF r

\* The pool after allocate() has brought more objects, if it had to.
Brought(c, q) == IF q.free = {} THEN P!AddMore(c, q) ELSE [cpu |-> c, pool |-> q]

LEMMA PoolBrought ==
    ASSUME NEW c, NEW q, NEW S, NEW R, Good(c, q, S, R), FewFree(q)
    PROVE  /\ Good(Brought(c, q).cpu, Brought(c, q).pool, S, R)
           /\ Brought(c, q).cpu.nr_pages = c.nr_pages
           /\ \/ Cardinality(Brought(c, q).pool.free) < MaxFree
              \/ Cardinality(Brought(c, q).pool.free) <= PoolBound
<1>1. CASE q.free = {}
  <2> DEFINE x == [cpu |-> c, pool |-> q]
             m == P!AddMore(c, q)
  <2>1. x \in MoreStates(c, S, R)
    <3>1. Cardinality(q.free) <= PoolBound
      BY <1>1, GoalFacts, FS_EmptySet
    <3>2. x \in [cpu : CpuRec, pool : PoolRec]
      BY GoodRecs
    <3> QED BY <3>1, <3>2 DEF MoreStates
  <2>2. m \in MoreStates(c, S, R)
    BY <2>1, AddedMore
  <2>3. Brought(c, q) = m
    BY <1>1 DEF Brought
  <2> HIDE DEF m
  <2> QED BY <2>2, <2>3 DEF MoreStates
<1>2. CASE q.free # {}
  <2>1. Brought(c, q) = [cpu |-> c, pool |-> q]
    BY <1>2 DEF Brought
  <2>2. Cardinality(q.free) \in Nat
    BY GoodRecs, PoolFree
  <2>3. Cardinality(q.free) < MaxFree \/ Cardinality(q.free) <= PoolBound
    BY <2>2, GoalFacts, PagesAssumption DEF FewFree
  <2> QED BY <2>1, <2>3
<1> QED BY <1>1, <1>2

LEMMA SmallAllocated ==
    ASSUME NEW c, NEW a, NEW q, NEW H, PagesOk(c, a, q, H), NEW o \in Brought(c, q).pool.free
    PROVE  PagesOk(Brought(c, q).cpu, a, [Brought(c, q).pool EXCEPT !.free = @ \ {o}],
                   H \cup {TakingSmall(o)})
<1> DEFINE d == Brought(c, q).cpu
           p == Brought(c, q).pool
           r == [p EXCEPT !.free = @ \ {o}]
           R == LargeOf(H) \cup {ArrayOf(a)}
           h == TakingSmall(o)
           K == H \cup {h}
<1>1. /\ Good(d, p, SmallOf(H), R) /\ d.nr_pages = c.nr_pages
      /\ Cardinality(p.free) < MaxFree \/ Cardinality(p.free) <= PoolBound
  BY PoolBrought DEF PagesOk
<1> HIDE DEF d, p, R
<1>2. /\ Good(d, r, SmallOf(H) \cup {o}, R)
      /\ Cardinality(r.free) = Cardinality(p.free) - 1
      /\ o[1] \in 1 .. 7 /\ o[2] \in 1 .. Slots /\ o = <<o[1], o[2]>>
  BY <1>1, ObjectHeld DEF p
<1>3. h.at = o[1] /\ h.slot = o[2] /\ h.slot # 0 /\ h.pages = 0 /\ h \in HeldRec
  BY <1>2, ObjectFacts DEF TakingSmall, HeldRec
<1> HIDE DEF h, r
<1>4. SmallOf(K) = SmallOf(H) \cup {o}
  BY <1>2, <1>3 DEF SmallOf
<1>5. LargeOf(K) = LargeOf(H)
  BY <1>3 DEF LargeOf
<1>6. Good(d, r, SmallOf(K), LargeOf(K) \cup {ArrayOf(a)})
  BY <1>2, <1>4, <1>5 DEF R
<1>7. ArrayFits(d, a)
  BY <1>1, FitsAgain DEF PagesOk
<1>8. K \subseteq HeldRec /\ \A x \in K : x.slot # 0 => x.pages = 0
  BY <1>3 DEF PagesOk
<1>9. FewFree(r)
  <2>1. p \in PoolRec
    BY <1>1, GoodRecs
  <2>2. Cardinality(p.free) \in Nat
    BY <2>1, PoolFree
  <2> QED BY <1>1, <1>2, <2>2, GoalFacts, PagesAssumption DEF FewFree
<1> QED BY <1>6, <1>7, <1>8, <1>9 DEF PagesOk, d, r, p, h

ObjectAt(h) == <<h.at, h.slot>>

LEMMA SmallHeld ==
    ASSUME NEW c, NEW a, NEW q, NEW H, PagesOk(c, a, q, H), NEW h \in H, h.slot # 0
    PROVE  /\ ObjectAt(h) \in SmallOf(H) /\ ObjectAt(h) \in P!Object
           /\ c.pages[h.at].pool
           /\ LargeOf(H \ {h}) = LargeOf(H)
           /\ SmallOf(H \ {h}) = SmallOf(H) \ {ObjectAt(h)}
<1> DEFINE o == <<h.at, h.slot>>
<1>1. o \in SmallOf(H)
  BY DEF SmallOf
<1>2. Pooling(c, q, SmallOf(H))
  BY DEF PagesOk, Good
<1>3. o \in P!Object
  BY <1>1, <1>2 DEF Pooling
<1>4. c.pages[h.at].pool
  <2>1. o[1] \in PagesOf(q, SmallOf(H)) /\ o[1] = h.at
    BY <1>1 DEF PagesOf
  <2> QED BY <1>2, <2>1 DEF Pooling, PageOfPool
<1>5. LargeOf(H \ {h}) = LargeOf(H)
  BY DEF LargeOf
<1>6. SmallOf(H \ {h}) = SmallOf(H) \ {o}
  <2>1. ASSUME NEW g \in H, g.slot # 0, <<g.at, g.slot>> = o PROVE g = h
    <3>1. g.at = h.at /\ g.slot = h.slot /\ g.pages = 0 /\ h.pages = 0 /\ g \in HeldRec /\ h \in HeldRec
      BY <2>1 DEF PagesOk
    <3> QED BY <3>1 DEF HeldRec
  <2> HIDE DEF o
  <2> QED BY <2>1 DEF SmallOf, o
<1> HIDE DEF o
<1>7. ObjectAt(h) = o
  BY DEF ObjectAt, o
<1> QED BY <1>1, <1>3, <1>4, <1>5, <1>6, <1>7

\* What free() of an object may leave.
Given(c, q) == IF P!Cardinality(q.free) >= MaxFree THEN P!Trimmed(c, q) ELSE {[cpu |-> c, pool |-> q]}

LEMMA SmallFreed ==
    ASSUME NEW c, NEW a, NEW q, NEW H, PagesOk(c, a, q, H), NEW h \in H, h.slot # 0,
           NEW t \in Given(c, [q EXCEPT !.free = @ \cup {ObjectAt(h)}])
    PROVE  PagesOk(t.cpu, a, t.pool, H \ {h})
<1> DEFINE o == ObjectAt(h)
           r == [q EXCEPT !.free = @ \cup {o}]
           R == LargeOf(H) \cup {ArrayOf(a)}
           S == SmallOf(H) \ {o}
<1>1. /\ o \in SmallOf(H) /\ o \in P!Object
      /\ LargeOf(H \ {h}) = LargeOf(H) /\ SmallOf(H \ {h}) = S
  BY SmallHeld
<1> HIDE DEF o, S
<1>2. Good(c, q, SmallOf(H), R) /\ q \in PoolRec /\ SmallOf(H) \in SUBSET P!Object
      /\ SmallOf(H) \cap q.free = {}
  BY GoodRecs DEF PagesOk, Good, Pooling
<1>3. r \in PoolRec /\ r.free = q.free \cup {o} /\ r.span_list = q.span_list
  BY <1>1, <1>2 DEF PoolRec
<1> HIDE DEF r, R
<1>4. S \in SUBSET P!Object /\ S \cup r.free = SmallOf(H) \cup q.free /\ S \cap r.free = {}
  BY <1>1, <1>2, <1>3 DEF S
<1>5. Good(c, r, S, R)
  BY <1>2, <1>3, <1>4, SameOut
<1>6. P!Cardinality(r.free) = Cardinality(r.free) /\ Cardinality(r.free) \in Nat
  BY <1>3, PoolFree
<1>7. t \in Given(c, r)
  BY DEF r, o
<1>8. Good(t.cpu, t.pool, S, R) /\ t.cpu.nr_pages = c.nr_pages /\ FewFree(t.pool)
  <2>1. CASE P!Cardinality(r.free) >= MaxFree
    <3>1. t \in P!Trimmed(c, r)
      BY <1>7, <2>1 DEF Given
    <3>2. [cpu |-> c, pool |-> r] \in TrimStates(c, S, R)
      <4>1. [cpu |-> c, pool |-> r] \in [cpu : CpuRec, pool : PoolRec]
        BY <1>5, GoodRecs
      <4> QED BY <1>5, <4>1 DEF TrimStates
    <3>3. TrimmedTo(c, r, S, R, t)
      BY <3>1, <3>2, TrimmedAll
    <3>4. Cardinality(t.pool.free) = P!Goal
      BY <1>6, <2>1, <3>3, GoalFacts, PagesAssumption DEF TrimmedTo
    <3>5. FewFree(t.pool)
      BY <3>4, GoalFacts DEF FewFree
    <3> QED BY <3>3, <3>5 DEF TrimmedTo, TrimStates
  <2>2. CASE ~(P!Cardinality(r.free) >= MaxFree)
    <3>1. t = [cpu |-> c, pool |-> r]
      BY <1>7, <2>2 DEF Given
    <3>2. FewFree(r)
      BY <1>6, <2>2, PagesAssumption DEF FewFree
    <3> QED BY <1>5, <3>1, <3>2
  <2> QED BY <2>1, <2>2
<1>9. Good(t.cpu, t.pool, SmallOf(H \ {h}), LargeOf(H \ {h}) \cup {ArrayOf(a)})
  BY <1>1, <1>8 DEF R
<1>10. ArrayFits(t.cpu, a)
  BY <1>8, FitsAgain DEF PagesOk
<1> QED BY <1>8, <1>9, <1>10 DEF PagesOk

-----------------------------------------------------------------------------
(* The operations. *)

PagesInv == PagesOk(cpu, array, pool, held)

LEMMA PagesStart == P!Init => PagesInv
<1> SUFFICES ASSUME P!Init PROVE PagesInv
  OBVIOUS
<1> DEFINE k == P!ArrayPages(5)
<1>1. array = [first |-> 0, number |-> k] /\ pool = [free |-> {}, span_list |-> << >>] /\ held = {}
  BY DEF P!Init
<1>2. cpu = P!free_span_no_merge(NoSpans, k, 5 - k)
  <2>1. cpu = P!free_span_no_merge([pages |-> [p \in P!Page |-> P!EmptyPage],
                                    free_spans |-> [i \in P!List |-> << >>],
                                    nr_pages |-> 5, nr_free_pages |-> 0], array.number, 5 - array.number)
    BY DEF P!Init
  <2>2. P!Page = 0 .. 8 /\ P!List = 0 .. 8 /\ array.number = k
    BY <1>1, PageFacts
  <2> HIDE DEF k
  <2> QED BY <2>1, <2>2 DEF NoSpans
<1>3. PagesOk(P!free_span_no_merge(NoSpans, k, 5 - k), [first |-> 0, number |-> k],
              [free |-> {}, span_list |-> << >>], {})
  BY FirstPages
<1> HIDE DEF k
<1> QED BY <1>1, <1>2, <1>3 DEF PagesInv

LEMMA PagesLarge ==
    ASSUME PagesInv, NEW align \in MCAligns, NEW n \in 1 .. MaxLarge, P!AllocateLarge(align, n)
    PROVE  PagesInv'
<1> DEFINE got == P!Allocate(cpu, align, n)
<1>1. /\ got.page # 0 /\ cpu' = got.cpu /\ array' = array /\ pool' = pool
      /\ held' = held \cup {Taking(got.page, n)}
  BY DEF P!AllocateLarge, Taking
<1>2. align \in {1, 2} /\ n \in Nat \ {0}
  BY PagesAssumption DEF MCAligns
<1>3. PagesOk(got.cpu, array, pool, held \cup {Taking(got.page, n)})
  BY <1>1, <1>2, LargeAllocated DEF PagesInv
<1> HIDE DEF got
<1> QED BY <1>1, <1>3 DEF PagesInv

LEMMA PagesSmall ==
    ASSUME PagesInv, P!AllocateSmall
    PROVE  PagesInv'
<1> DEFINE m == Brought(cpu, pool)
<1>1. PICK o \in m.pool.free : /\ cpu' = m.cpu /\ array' = array
                               /\ pool' = [m.pool EXCEPT !.free = @ \ {o}]
                               /\ held' = held \cup {TakingSmall(o)}
  BY DEF P!AllocateSmall, Brought, TakingSmall
<1>2. PagesOk(m.cpu, array, [m.pool EXCEPT !.free = @ \ {o}], held \cup {TakingSmall(o)})
  BY SmallAllocated DEF PagesInv
<1> HIDE DEF m
<1> QED BY <1>1, <1>2 DEF PagesInv

LEMMA PagesFree ==
    ASSUME PagesInv, NEW h \in held, P!Free(h)
    PROVE  PagesInv'
<1>0. held' = held \ {h} /\ array' = array
  BY DEF P!Free
<1>1. CASE h.slot = 0
  <2> DEFINE d == P!free_span(cpu, h.at, cpu.pages[h.at].span_size)
  <2>1. ~cpu.pages[h.at].pool
    BY <1>1, LargeHeld DEF PagesInv
  <2>2. cpu' = d /\ pool' = pool
    BY <2>1 DEF P!Free
  <2>3. PagesOk(d, array, pool, held \ {h})
    BY <1>1, LargeFreed DEF PagesInv
  <2> HIDE DEF d
  <2> QED BY <1>0, <2>2, <2>3 DEF PagesInv
<1>2. CASE h.slot # 0
  <2>1. cpu.pages[h.at].pool
    BY <1>2, SmallHeld DEF PagesInv
  <2>2. PICK t \in Given(cpu, [pool EXCEPT !.free = @ \cup {ObjectAt(h)}]) :
           cpu' = t.cpu /\ pool' = t.pool
    BY <2>1, Zenon DEF P!Free, Given, ObjectAt
  <2>3. PagesOk(t.cpu, array, t.pool, held \ {h})
    BY <1>2, SmallFreed DEF PagesInv
  <2> QED BY <1>0, <2>2, <2>3 DEF PagesInv
<1> QED BY <1>1, <1>2

LEMMA PagesShrink ==
    ASSUME PagesInv, NEW h \in held, h.slot = 0, NEW n \in 1 .. MaxLarge, P!Shrink(h, n)
    PROVE  PagesInv'
<1> DEFINE d == P!free_span(ShrinkFront(cpu, h.at, n), h.at + n, cpu.pages[h.at].span_size - n)
           K == (held \ {h}) \cup {[h EXCEPT !.pages = n]}
<1>1. /\ n < cpu.pages[h.at].span_size /\ held' = K /\ array' = array /\ pool' = pool
  BY DEF P!Shrink
<1>2. cpu' = d
  BY Zenon DEF P!Shrink, ShrinkFront
<1>3. n \in Nat \ {0}
  BY PagesAssumption
<1>4. PagesOk(d, array, pool, K)
  BY <1>1, <1>3, LargeShrunk DEF PagesInv
<1> HIDE DEF d, K
<1> QED BY <1>1, <1>2, <1>4 DEF PagesInv

LEMMA PagesResize ==
    ASSUME PagesInv, P!DoResize
    PROVE  PagesInv'
<1> DEFINE n == P!ArrayPages(8)
           got == P!Allocate(cpu, 1, n)
           d == MovedTo(cpu, array.number, n)
           e == [first |-> got.page, number |-> n]
<1>0. P!Last = 8 /\ 8 - 5 = 3
  BY PageFacts
<1>1. cpu.nr_pages = 5 /\ got.page # 0 /\ pool' = pool /\ held' = held
  BY <1>0 DEF P!DoResize
<1>2. cpu' = d
  <2>1. cpu' = P!free_span(P!free_span([got.cpu EXCEPT !.nr_pages = P!Last], 1, array.number - 1), 5, P!Last - 5)
    BY <1>0 DEF P!DoResize
  <2> HIDE DEF P!Last
  <2> QED BY <1>0, <2>1 DEF MovedTo, Grow
<1>3. array' = e
  BY <1>0 DEF P!DoResize
<1>4. PagesOk(d, e, pool, held)
  BY <1>1, ArrayMoved DEF PagesInv
<1> HIDE DEF d, e
<1> QED BY <1>1, <1>2, <1>3, <1>4 DEF PagesInv

\* Only the part about the pages touches them.
LEMMA PagesStep ==
    ASSUME PagesInv, [MCNext]_MCVars
    PROVE  PagesInv'
<1>1. CASE UNCHANGED pagesVars
  BY <1>1 DEF pagesVars, PagesInv
<1>2. CASE UNCHANGED MCVars
  BY <1>1, <1>2 DEF MCVars
<1>3. CASE MCNext
  <2>1. /\ \A s : Waits(s) => UNCHANGED pagesVars
        /\ Frees => UNCHANGED pagesVars
        /\ Owners => UNCHANGED pagesVars
    BY DEF Waits, Frees, Owners
  <2>2. \/ \E s : Waits(s)
        \/ Frees
        \/ Owners
        \/ \E align \in MCAligns, n \in 1 .. MaxLarge : P!AllocateLarge(align, n)
        \/ P!AllocateSmall
        \/ \E h \in held : P!Free(h)
        \/ \E h \in held, n \in 1 .. MaxLarge : h.slot = 0 /\ P!Shrink(h, n)
        \/ P!DoResize
    BY <1>3 DEF MCNext
  <2>3. CASE \E align \in MCAligns, n \in 1 .. MaxLarge : P!AllocateLarge(align, n)
    BY <2>3, PagesLarge
  <2>4. CASE P!AllocateSmall
    BY <2>4, PagesSmall
  <2>5. CASE \E h \in held : P!Free(h)
    BY <2>5, PagesFree
  <2>6. CASE \E h \in held, n \in 1 .. MaxLarge : h.slot = 0 /\ P!Shrink(h, n)
    BY <2>6, PagesShrink
  <2>7. CASE P!DoResize
    BY <2>7, PagesResize
  <2> QED BY <1>1, <2>1, <2>2, <2>3, <2>4, <2>5, <2>6, <2>7
<1> QED BY <1>2, <1>3

\* The blocks of a state.
Tiled(B) == GoodWith(cpu, B, pool, SmallOf(held), LargeOf(held) \cup {ArrayOf(array)})

LEMMA StateBlocks == PagesInv => \E B : Tiled(B)
<1> SUFFICES ASSUME PagesInv PROVE \E B : Tiled(B)
  OBVIOUS
<1>1. Good(cpu, pool, SmallOf(held), LargeOf(held) \cup {ArrayOf(array)})
  BY DEF PagesInv, PagesOk
<1> QED BY <1>1, GoodBlocks DEF Tiled

\* The lists hold where the free blocks begin.
LEMMA StartsOf ==
    ASSUME NEW B, Mem(cpu, B)
    PROVE  \A s : s \in P!FreeStarts <=>
                     \E b \in B : b.use = "free" /\ b.at = s /\ cpu.pages[s].span_size = b.size
<1>1. /\ cpu.free_spans \in [0 .. 8 -> Seq(0 .. 8)]
      /\ InLists(cpu, B) /\ Marked(cpu, B)
  BY DEF Mem, CpuRec
<1>2. \A s : s \in P!FreeStarts <=> \E i \in 0 .. 8 : s \in PagesIn(cpu.free_spans[i])
  BY PageFacts DEF P!FreeStarts, PagesIn
<1>3. \A i \in 0 .. 8 : PagesIn(cpu.free_spans[i]) \subseteq 0 .. 8
  <2> TAKE i \in 0 .. 8
  <2>1. cpu.free_spans[i] \in Seq(0 .. 8)
    BY <1>1
  <2>2. \A j \in DOMAIN cpu.free_spans[i] : cpu.free_spans[i][j] \in 0 .. 8
    BY <2>1
  <2> QED BY <2>2 DEF PagesIn
<1>4. \A b \in B : b.at \in 0 .. 8 /\ P!index_of(b.size) \in 0 .. 8
  <2> TAKE b \in B
  <2>1. b.at \in 1 .. 7 /\ b.size \in 1 .. 7
    BY BlockFacts
  <2>2. b.size \in 1 .. 8
    BY <2>1
  <2>3. P!index_of(b.size) \in {0, 1, 2, 3}
    BY <2>2, IndexOf
  <2> QED BY <2>1, <2>3
<1>5. \A s : s \in P!FreeStarts <=> \E b \in B : b.use = "free" /\ b.at = s
  <2> TAKE s
  <2>1. ASSUME s \in P!FreeStarts PROVE \E b \in B : b.use = "free" /\ b.at = s
    <3>1. PICK i \in 0 .. 8 : s \in PagesIn(cpu.free_spans[i])
      BY <1>2, <2>1
    <3>2. s \in 0 .. 8
      BY <1>3, <3>1
    <3> QED BY <1>1, <3>1, <3>2 DEF InLists
  <2>2. ASSUME NEW b \in B, b.use = "free", b.at = s PROVE s \in P!FreeStarts
    <3>1. s \in 0 .. 8 /\ P!index_of(b.size) \in 0 .. 8
      BY <1>4, <2>2
    <3>2. s \in PagesIn(cpu.free_spans[P!index_of(b.size)])
      BY <1>1, <2>2, <3>1 DEF InLists
    <3> QED BY <1>2, <3>1, <3>2
  <2> QED BY <2>1, <2>2
<1>6. \A b \in B : b.use = "free" => cpu.pages[b.at].span_size = b.size
  BY <1>1 DEF Marked
<1> QED BY <1>5, <1>6

LEMMA PoolPagesOf ==
    ASSUME PagesInv
    PROVE  P!PoolPages = PagesOf(pool, SmallOf(held))
<1>1. Pooling(cpu, pool, SmallOf(held))
  BY DEF PagesInv, PagesOk, Good
<1>2. pool.span_list \in Seq(0 .. 8)
  BY <1>1 DEF Pooling, PoolRec
<1>3. PagesIn(pool.span_list) \subseteq PagesOf(pool, SmallOf(held))
  <2>1. PagesIn(pool.span_list) \subseteq 0 .. 8
    BY <1>2 DEF PagesIn
  <2> QED BY <1>1, <2>1 DEF Pooling
<1>4. {h.at : h \in held \ P!Large} = {o[1] : o \in SmallOf(held)}
  <2>1. \A x : x \in {h.at : h \in held \ P!Large} <=> \E h \in held : h.slot # 0 /\ h.at = x
    BY DEF P!Large
  <2>2. \A x : x \in {o[1] : o \in SmallOf(held)} <=> \E h \in held : h.slot # 0 /\ h.at = x
    <3> TAKE x
    <3>1. ASSUME NEW h \in held, h.slot # 0, h.at = x PROVE x \in {o[1] : o \in SmallOf(held)}
      <4>1. <<h.at, h.slot>> \in SmallOf(held) /\ <<h.at, h.slot>>[1] = x
        BY <3>1 DEF SmallOf
      <4> QED BY <4>1
    <3>2. ASSUME NEW o \in SmallOf(held), o[1] = x PROVE \E h \in held : h.slot # 0 /\ h.at = x
      BY <3>2 DEF SmallOf
    <3> QED BY <3>1, <3>2
  <2> QED BY <2>1, <2>2
<1> QED BY <1>3, <1>4 DEF P!PoolPages, PagesOf, PagesIn

\* Which of the uses of a page is that of its block.
FreeAt(p) == {s \in P!FreeStarts : s <= p /\ p < s + cpu.pages[s].span_size}
LargeAt(p) == {h \in P!Large : h.at <= p /\ p < h.at + h.pages}
ArrayHas(p) == array.first <= p /\ p < array.first + array.number

LEMMA UsesOf ==
    ASSUME PagesInv, NEW B, Tiled(B), NEW p \in 1 .. cpu.nr_pages - 1, NEW b \in B, Within(p, b)
    PROVE  /\ FreeAt(p) = IF b.use = "free" THEN {b.at} ELSE {}
           /\ (b.use = "large" => \E h \in held : LargeAt(p) = {h})
           /\ (b.use # "large" => LargeAt(p) = {})
           /\ p \in P!PoolPages <=> b.use = "pool"
           /\ ArrayHas(p) <=> b.use = "array"
<1> DEFINE R == LargeOf(held) \cup {ArrayOf(array)}
           S == SmallOf(held)
<1>1. /\ Mem(cpu, B) /\ Settled(B) /\ R \subseteq Used(B) /\ R \subseteq B
      /\ Used(B) = R \cup {PoolBlock(x) : x \in PagesOf(pool, S)}
      /\ \A d \in R : d.use # "pool"
  BY DEF Tiled, GoodWith
<1>2. \A d \in B : d = b \/ Apart(d, b)
  BY <1>1, BlockFacts
<1>3. \A d \in B : d.at \in 1 .. 7 /\ d.size \in 1 .. 7
  <2> TAKE d \in B
  <2> QED BY <1>1, BlockFacts
<1>4. cpu.nr_pages \in {5, 8}
  BY <1>1, BlockFacts
<1>5. ASSUME NEW d \in B, Within(p, d) PROVE d = b
  <2>1. d.at \in 1 .. 7 /\ d.size \in 1 .. 7 /\ b.at \in 1 .. 7 /\ b.size \in 1 .. 7 /\ p \in 1 .. 7
    BY <1>3, <1>4
  <2> QED BY <1>2, <1>5, <2>1 DEF Apart, Within
<1>6. FreeAt(p) = IF b.use = "free" THEN {b.at} ELSE {}
  <2>1. \A s : s \in FreeAt(p) <=> \E d \in B : d.use = "free" /\ d.at = s /\ Within(p, d)
                                                /\ cpu.pages[s].span_size = d.size
    BY <1>1, StartsOf DEF FreeAt, Within
  <2>2. b.use = "free" => cpu.pages[b.at].span_size = b.size
    BY <1>1 DEF Mem, Marked
  <2> QED BY <1>5, <2>1, <2>2
<1>7. ASSUME NEW h \in P!Large PROVE LargeBlock(h.at, h.pages) \in R
  BY DEF P!Large, LargeOf
<1>8. \A h : h \in LargeAt(p) <=> h \in P!Large /\ Within(p, LargeBlock(h.at, h.pages))
  BY DEF LargeAt, Within, LargeBlock
<1>9. \A h \in LargeAt(p) : LargeBlock(h.at, h.pages) = b
  BY <1>1, <1>5, <1>7, <1>8
<1>10. b.use # "large" => LargeAt(p) = {}
  BY <1>9 DEF LargeBlock
<1>11. ASSUME b.use = "large" PROVE \E h \in held : LargeAt(p) = {h}
  <2>1. b \in Used(B)
    BY <1>11 DEF Used
  <2>2. b # ArrayOf(array) /\ \A x : b # PoolBlock(x)
    BY <1>11 DEF ArrayOf, ArrayAt, PoolBlock
  <2>3. b \in LargeOf(held)
    BY <1>1, <2>1, <2>2
  <2>4. PICK h \in held : h.slot = 0 /\ b = LargeBlock(h.at, h.pages)
    BY <2>3 DEF LargeOf
  <2>5. h \in LargeAt(p)
    BY <1>8, <2>4 DEF P!Large
  <2>6. ASSUME NEW g \in LargeAt(p) PROVE g = h
    <3>1. g \in held /\ g.slot = 0 /\ LargeBlock(g.at, g.pages) = LargeBlock(h.at, h.pages)
      BY <1>8, <1>9, <2>4 DEF P!Large
    <3>2. g.at = h.at /\ g.pages = h.pages
      BY <3>1 DEF LargeBlock
    <3> QED BY <2>4, <3>1, <3>2 DEF PagesInv, PagesOk, HeldRec
  <2> QED BY <2>5, <2>6
<1>12. p \in P!PoolPages <=> b.use = "pool"
  <2>1. P!PoolPages = PagesOf(pool, S)
    BY PoolPagesOf
  <2> HIDE DEF R, S
  <2>2. \A x : PoolBlock(x).at = x /\ PoolBlock(x).size = 1 /\ PoolBlock(x).use = "pool"
    BY DEF PoolBlock
  <2>3. ASSUME p \in PagesOf(pool, S) PROVE b.use = "pool"
    <3>1. PoolBlock(p) \in B
      BY <1>1, <2>3 DEF Used
    <3>2. Within(p, PoolBlock(p))
      BY <1>4, <2>2 DEF Within
    <3> QED BY <1>5, <2>2, <3>1, <3>2
  <2>4. ASSUME b.use = "pool" PROVE p \in PagesOf(pool, S)
    <3>1. b \in Used(B) /\ b \notin R
      BY <1>1, <2>4 DEF Used
    <3>2. PICK x \in PagesOf(pool, S) : b = PoolBlock(x)
      BY <1>1, <3>1
    <3>3. x \in 1 .. 7
      BY <1>3, <2>2, <3>2
    <3>4. x = p
      BY <1>4, <2>2, <3>2, <3>3 DEF Within
    <3> QED BY <3>2, <3>4
  <2> QED BY <2>1, <2>3, <2>4
<1>13. ArrayHas(p) <=> b.use = "array"
  <2>1. ArrayHas(p) <=> Within(p, ArrayOf(array))
    <3>1. array.first \in 0 .. 7 /\ array.number \in 2 .. 5 /\ p \in 1 .. 7
      BY <1>4, PageFacts DEF PagesInv, PagesOk, ArrayFits
    <3>2. CASE array.first = 0
      <4>1. ArrayOf(array).at = 1 /\ ArrayOf(array).size = array.number - 1
        BY <3>2 DEF ArrayOf, ArrayAt
      <4> QED BY <3>1, <3>2, <4>1 DEF ArrayHas, Within
    <3>3. CASE array.first # 0
      <4>1. ArrayOf(array).at = array.first /\ ArrayOf(array).size = array.number
        BY <3>3 DEF ArrayOf, ArrayAt
      <4> QED BY <4>1 DEF ArrayHas, Within
    <3> QED BY <3>2, <3>3
  <2>2. ArrayOf(array).use = "array" /\ ArrayOf(array) \in B
    BY <1>1 DEF ArrayOf, ArrayAt
  <2>3. ASSUME b.use = "array" PROVE b = ArrayOf(array)
    <3>1. b \in Used(B) /\ \A x : b # PoolBlock(x)
      BY <2>3 DEF Used, PoolBlock
    <3>2. b \notin LargeOf(held)
      BY <2>3 DEF LargeOf, LargeBlock
    <3> QED BY <1>1, <3>1, <3>2
  <2> QED BY <1>5, <2>1, <2>2, <2>3
<1> QED BY <1>6, <1>10, <1>11, <1>12, <1>13

\* Every page has one use.
LEMMA OneUse ==
    ASSUME PagesInv, NEW p \in 0 .. cpu.nr_pages - 1
    PROVE  P!Uses(p) = 1
<1>1. PICK B : Tiled(B)
  BY StateBlocks
<1>2. /\ Mem(cpu, B) /\ Settled(B)
      /\ LargeOf(held) \subseteq B
      /\ Spread(cpu, B, pool, SmallOf(held), LargeOf(held) \cup {ArrayOf(array)})
  BY <1>1 DEF Tiled, GoodWith
<1>3. P!Uses(p) = Cardinality(FreeAt(p)) + Cardinality(LargeAt(p))
                  + (IF p \in P!PoolPages THEN 1 ELSE 0)
                  + (IF p = 0 \/ ArrayHas(p) THEN 1 ELSE 0)
  <2>1. P!Uses(p) = P!Cardinality(FreeAt(p)) + P!Cardinality(LargeAt(p))
                    + (IF p \in P!PoolPages THEN 1 ELSE 0)
                    + (IF p = 0 \/ ArrayHas(p) THEN 1 ELSE 0)
    BY Zenon DEF P!Uses, FreeAt, LargeAt, ArrayHas
  <2>2. P!Cardinality(FreeAt(p)) = Cardinality(FreeAt(p))
        /\ P!Cardinality(LargeAt(p)) = Cardinality(LargeAt(p))
    BY PageSizes
  <2> QED BY <2>1, <2>2
<1>4. Cardinality({}) = 0 /\ \A x : Cardinality({x}) = 1
  BY FS_EmptySet, FS_Singleton
<1>5. CASE p = 0
  <2>1. FreeAt(p) = {}
    <3>1. \A s \in P!FreeStarts : s \in 1 .. 7
      <4> TAKE s \in P!FreeStarts
      <4>1. PICK d \in B : d.at = s
        BY <1>2, StartsOf
      <4> QED BY <1>2, <4>1, BlockFacts
    <3> QED BY <1>5, <3>1 DEF FreeAt
  <2>2. LargeAt(p) = {}
    <3>1. \A h \in P!Large : h.at \in 1 .. 7
      BY DEF P!Large, PagesInv, PagesOk, HeldRec
    <3> QED BY <1>5, <3>1 DEF LargeAt
  <2>3. p \notin P!PoolPages
    <3>1. \A x \in P!PoolPages : x \in 1 .. 7
      BY <1>2, PoolPagesOf, BlocksOfPool
    <3> QED BY <1>5, <3>1
  <2> QED BY <1>3, <1>4, <1>5, <2>1, <2>2, <2>3
<1>6. CASE p # 0
  <2>1. cpu.nr_pages \in {5, 8} /\ Layout(B, cpu.nr_pages)
    BY <1>2 DEF Mem, CpuRec
  <2>2. p \in 1 .. cpu.nr_pages - 1 /\ p # 0
    BY <1>6, <2>1
  <2>3. PICK b \in B : Within(p, b)
    BY <2>1, <2>2 DEF Layout
  <2>4. /\ FreeAt(p) = IF b.use = "free" THEN {b.at} ELSE {}
        /\ (b.use = "large" => \E h \in held : LargeAt(p) = {h})
        /\ (b.use # "large" => LargeAt(p) = {})
        /\ p \in P!PoolPages <=> b.use = "pool"
        /\ ArrayHas(p) <=> b.use = "array"
    BY <1>1, <2>2, <2>3, UsesOf
  <2>5. b.use \in {"free", "large", "pool", "array"}
    BY <1>2, BlockFacts DEF Settled, Kind
  <2>6. Cardinality(FreeAt(p)) = IF b.use = "free" THEN 1 ELSE 0
    BY <1>4, <2>4
  <2>7. Cardinality(LargeAt(p)) = IF b.use = "large" THEN 1 ELSE 0
    BY <1>4, <2>4
  <2> QED BY <1>3, <2>2, <2>4, <2>5, <2>6, <2>7
<1> QED BY <1>5, <1>6

-----------------------------------------------------------------------------
(* What the invariant says. *)

\* Next to a free block are pages that are not free.
LEMMA NoFreeNext ==
    ASSUME NEW c, NEW B, Mem(c, B), Settled(B), NEW b \in B, b.use = "free"
    PROVE  ~c.pages[b.at - 1].free /\ ~c.pages[b.at + b.size].free
<1>1. /\ b.at \in 1 .. 7 /\ b.size \in 1 .. 7 /\ b.at + b.size <= c.nr_pages /\ c.nr_pages \in {5, 8}
      /\ \A d \in B : d = b \/ Apart(d, b)
  BY BlockFacts
<1>2. \A d \in B : d.at \in 1 .. 7 /\ d.size \in 1 .. 7 /\ d.use \in Kind
  <2> TAKE d \in B
  <2> QED BY BlockFacts
<1>3. Marked(c, B) /\ Layout(B, c.nr_pages)
  BY DEF Mem
<1>4. ASSUME NEW d \in B, Next2(d, b) \/ Next2(b, d)
      PROVE  ~c.pages[d.at].free /\ ~c.pages[d.at + d.size - 1].free
  <2>1. d.use # "free"
    BY <1>3, <1>4 DEF Layout
  <2>2. d.use \in {"large", "pool", "array"}
    BY <1>2, <2>1 DEF Settled, Kind
  <2> QED BY <1>3, <2>2 DEF Marked
<1>5. ~c.pages[b.at - 1].free
  <2> DEFINE p == b.at - 1
  <2>1. CASE p = 0
    BY <1>3, <2>1 DEF Marked
  <2>2. CASE p # 0
    <3>1. p \in 1 .. c.nr_pages - 1
      BY <1>1, <2>2
    <3>2. PICK d \in B : Within(p, d)
      BY <1>3, <3>1 DEF Layout
    <3>3. d # b /\ Apart(d, b)
      <4>1. d # b
        BY <1>1, <3>2 DEF Within
      <4> QED BY <1>1, <4>1
    <3>4. d.at + d.size = b.at
      BY <1>1, <1>2, <3>2, <3>3 DEF Apart, Within
    <3>5. d.at + d.size - 1 = p
      BY <1>2, <3>4
    <3>6. Next2(d, b)
      BY <3>4 DEF Next2
    <3> QED BY <1>4, <3>5, <3>6
  <2> QED BY <2>1, <2>2
<1>6. ~c.pages[b.at + b.size].free
  <2> DEFINE p == b.at + b.size
  <2>1. CASE p = c.nr_pages
    <3>1. p \in c.nr_pages .. 8
      BY <1>1, <2>1
    <3> QED BY <1>3, <3>1 DEF Marked
  <2>2. CASE p # c.nr_pages
    <3>1. p \in 1 .. c.nr_pages - 1
      BY <1>1, <2>2
    <3>2. PICK d \in B : Within(p, d)
      BY <1>3, <3>1 DEF Layout
    <3>3. d # b /\ Apart(d, b)
      <4>1. d # b
        BY <1>1, <3>2 DEF Within
      <4> QED BY <1>1, <4>1
    <3>4. b.at + b.size = d.at
      BY <1>1, <1>2, <3>2, <3>3 DEF Apart, Within
    <3>5. Next2(b, d)
      BY <3>4 DEF Next2
    <3> QED BY <1>4, <3>4, <3>5
  <2> QED BY <2>1, <2>2
<1> QED BY <1>5, <1>6

\* What the list of a size says.
SpanListed(c, i, s) ==
    LET n == c.pages[s].span_size IN
    /\ n > 0 /\ P!index_of(n) = i
    /\ c.pages[s].free /\ c.pages[s + n - 1].free
    /\ c.pages[s + n - 1].span_size = n
    /\ ~c.pages[s - 1].free /\ ~c.pages[s + n].free

LEMMA ListsTile ==
    ASSUME NEW c, NEW B, Mem(c, B), Settled(B), NEW i \in 0 .. 8, NEW j \in DOMAIN c.free_spans[i]
    PROVE  SpanListed(c, i, c.free_spans[i][j])
<1> DEFINE s == c.free_spans[i][j]
<1>1. InLists(c, B) /\ Marked(c, B) /\ c.free_spans \in [0 .. 8 -> Seq(0 .. 8)]
  BY DEF Mem, CpuRec
<1>2. s \in 0 .. 8 /\ s \in PagesIn(c.free_spans[i])
  <2>1. c.free_spans[i] \in Seq(0 .. 8)
    BY <1>1
  <2>2. s \in 0 .. 8
    BY <2>1
  <2> QED BY <2>2 DEF PagesIn
<1> HIDE DEF s
<1>3. PICK b \in B : b.use = "free" /\ b.at = s /\ P!index_of(b.size) = i
  BY <1>1, <1>2 DEF InLists
<1>4. b.size \in 1 .. 7 /\ b.size > 0
  BY BlockFacts
<1>5. /\ c.pages[b.at].free /\ c.pages[b.at].span_size = b.size
      /\ c.pages[b.at + b.size - 1].free /\ c.pages[b.at + b.size - 1].span_size = b.size
  BY <1>1, <1>3 DEF Marked
<1>6. ~c.pages[b.at - 1].free /\ ~c.pages[b.at + b.size].free
  BY <1>3, NoFreeNext
<1>7. SpanListed(c, i, s)
  BY <1>3, <1>4, <1>5, <1>6 DEF SpanListed
<1> QED BY <1>7 DEF s

LEMMA FreeCounted ==
    ASSUME NEW B, Mem(cpu, B)
    PROVE  /\ cpu.nr_free_pages \in 0 .. 8
           /\ cpu.nr_free_pages = P!Cardinality({p \in P!Page : \E s \in P!FreeStarts :
                                                 s <= p /\ p < s + cpu.pages[s].span_size})
<1>1. cpu.nr_free_pages = Cardinality(FreePages(B))
  BY DEF Mem
<1>2. FreePages(B) = {p \in P!Page : \E s \in P!FreeStarts : s <= p /\ p < s + cpu.pages[s].span_size}
  <2>1. \A b \in B : b.use = "free" => cpu.pages[b.at].span_size = b.size
    BY DEF Mem, Marked
  <2>2. \A p : (\E b \in B : b.use = "free" /\ Within(p, b))
               <=> \E s \in P!FreeStarts : s <= p /\ p < s + cpu.pages[s].span_size
    BY <2>1, StartsOf DEF Within
  <2> QED BY <2>2, PageFacts DEF FreePages
<1>3. Cardinality(FreePages(B)) \in 0 .. 8
  <2>1. IsFiniteSet(1 .. 8) /\ Cardinality(1 .. 8) = 8
    <3>1. 1 \in Nat /\ 8 \in Nat \ {0} /\ 1 + 8 - 1 = 8
      OBVIOUS
    <3>2. IsFiniteSet(1 .. 1 + 8 - 1) /\ Cardinality(1 .. 1 + 8 - 1) = 8
      BY <3>1, SizeOf
    <3> QED BY <3>1, <3>2
  <2>2. FreePages(B) \subseteq 1 .. 8
    <3>1. \A b \in B : b.at \in 1 .. 7
      <4> TAKE b \in B
      <4> QED BY BlockFacts
    <3> QED BY <3>1 DEF FreePages, Within
  <2>3. IsFiniteSet(FreePages(B)) /\ Cardinality(FreePages(B)) <= 8
    BY <2>1, <2>2, FS_Subset
  <2>4. Cardinality(FreePages(B)) \in Nat
    BY <2>3, FS_CardinalityType
  <2> QED BY <2>3, <2>4
<1> QED BY <1>1, <1>2, <1>3, PageSizes

LEMMA PagesType ==
    ASSUME PagesInv
    PROVE  P!TypeOK
<1>1. PICK B : Tiled(B)
  BY StateBlocks
<1>2. Mem(cpu, B) /\ Pooling(cpu, pool, SmallOf(held))
  BY <1>1 DEF Tiled, GoodWith, Spread, PagesInv, PagesOk, Good
<1>3. cpu \in CpuRec /\ pool \in PoolRec
  BY <1>2 DEF Mem, Pooling
<1>4. cpu.nr_free_pages \in 0 .. 8
  BY <1>2, FreeCounted
<1>5. P!Last = 8 /\ P!Page = 0 .. 8 /\ P!List = 0 .. 8
  BY PageFacts
<1>6. cpu.pages \in [P!Page -> [free : BOOLEAN, span_size : 0 .. P!Last, pool : BOOLEAN,
                                freelist : SUBSET P!Object, nr_small_alloc : 0 .. Slots]]
  BY <1>3, <1>5 DEF CpuRec, PageRec
<1>7. cpu.free_spans \in [P!List -> Seq(P!Page)]
  BY <1>3, <1>5 DEF CpuRec
<1>8. cpu.nr_pages \in {5, 8}
  BY <1>3 DEF CpuRec
<1>9. cpu.nr_pages \in {<<5, 8>>[i] : i \in DOMAIN <<5, 8>>}
  <2>1. 1 \in DOMAIN <<5, 8>> /\ 2 \in DOMAIN <<5, 8>> /\ <<5, 8>>[1] = 5 /\ <<5, 8>>[2] = 8
    OBVIOUS
  <2> QED BY <1>8, <2>1
<1>10. pool.free \subseteq P!Object /\ pool.span_list \in Seq(P!Page)
  BY <1>3, <1>5 DEF PoolRec
<1> HIDE DEF P!Last, P!Page, P!List, P!Object
<1> QED BY <1>4, <1>5, <1>6, <1>7, <1>9, <1>10 DEF P!TypeOK

LEMMA LargeSize ==
    ASSUME NEW c, NEW a, NEW q, NEW H, PagesOk(c, a, q, H), NEW h \in H, h.slot = 0
    PROVE  c.pages[h.at].span_size = h.pages
<1> DEFINE b == LargeBlock(h.at, h.pages)
           R == LargeOf(H) \cup {ArrayOf(a)}
<1>1. b \in LargeOf(H) /\ b.at = h.at /\ b.size = h.pages /\ b.use = "large"
  BY DEF LargeOf, LargeBlock
<1>2. PICK B : GoodWith(c, B, q, SmallOf(H), R)
  BY GoodBlocks DEF PagesOk
<1>3. Mem(c, B) /\ b \in B
  BY <1>1, <1>2 DEF GoodWith
<1> HIDE DEF b
<1>4. c.pages[b.at].span_size = b.size
  BY <1>1, <1>3 DEF Mem, Marked
<1> QED BY <1>1, <1>4

\* The invariant says what SpansTile does.
LEMMA PagesTiled == PagesInv => SpansTile
<1> SUFFICES ASSUME PagesInv PROVE SpansTile
  OBVIOUS
<1>1. PICK B : Tiled(B)
  BY StateBlocks
<1>2. Mem(cpu, B) /\ Settled(B)
  BY <1>1 DEF Tiled, GoodWith
<1>3. \A p \in 0 .. cpu.nr_pages - 1 : P!Uses(p) = 1
  BY OneUse, SMTT(40)
<1>4. \A i \in P!List : \A j \in DOMAIN cpu.free_spans[i] :
          LET s == cpu.free_spans[i][j]
              n == cpu.pages[s].span_size
          IN /\ n > 0 /\ P!index_of(n) = i
             /\ cpu.pages[s].free /\ cpu.pages[s + n - 1].free
             /\ cpu.pages[s + n - 1].span_size = n
             /\ ~cpu.pages[s - 1].free /\ ~cpu.pages[s + n].free
  <2>1. \A i \in P!List : \A j \in DOMAIN cpu.free_spans[i] : SpanListed(cpu, i, cpu.free_spans[i][j])
    BY <1>2, PageFacts, ListsTile
  <2> QED BY <2>1, ZenonT(60) DEF SpanListed
<1>5. \A h \in P!Large : cpu.pages[h.at].span_size = h.pages
  <2> TAKE h \in P!Large
  <2>1. h \in held /\ h.slot = 0
    BY DEF P!Large
  <2>2. PagesOk(cpu, array, pool, held)
    BY DEF PagesInv
  <2> QED BY <2>1, <2>2, LargeSize
<1>6. cpu.nr_free_pages = P!Cardinality({p \in P!Page : \E s \in P!FreeStarts :
                                         s <= p /\ p < s + cpu.pages[s].span_size})
  BY <1>2, FreeCounted
<1>7. P!SpansTile
  BY Zenon, <1>3, <1>4, <1>5, <1>6 DEF P!SpansTile
<1> QED BY <1>7, PagesType DEF SpansTile

LEMMA PagesInit == MCInit => PagesInv
BY PagesStart DEF MCInit

\* However pages are allocated, aligned, shrunk, freed, used for objects and
\* resized, for page structures of any size that leaves pages, objects of any
\* number in a page and any _max_free: every page is in exactly one use, every
\* free span is in the list of its size, marked at both ends and next to no
\* other, and the free pages are counted (cpu_pages).
THEOREM PagesTile == MCSpec => []SpansTile
<1>1. PagesInv /\ [MCNext]_MCVars => PagesInv'
  BY PagesStep
<1> QED BY PagesInit, PagesTiled, <1>1, PTL DEF MCSpec

\* How often a page is in a list that has no page twice.
LEMMA OnceCounted ==
    ASSUME NEW lst, Once(lst), NEW p
    PROVE  Cardinality({i \in DOMAIN lst : lst[i] = p}) = IF p \in PagesIn(lst) THEN 1 ELSE 0
<1> DEFINE K == {i \in DOMAIN lst : lst[i] = p}
<1>1. CASE p \in PagesIn(lst)
  <2>1. PICK i \in DOMAIN lst : lst[i] = p
    BY <1>1 DEF PagesIn
  <2>2. K = {i}
    BY <2>1 DEF Once
  <2> HIDE DEF K
  <2> QED BY <1>1, <2>2, FS_Singleton DEF K
<1>2. CASE p \notin PagesIn(lst)
  <2>1. K = {}
    BY <1>2 DEF PagesIn
  <2> HIDE DEF K
  <2> QED BY <1>2, <2>1, FS_EmptySet DEF K
<1> QED BY <1>1, <1>2

\* What is known of a page of the pool.
PageAccounted(c, q, S, p) ==
    LET out == P!ObjectsOf(p) \cap (S \cup q.free) IN
    /\ c.pages[p].freelist = P!ObjectsOf(p) \ out
    /\ c.pages[p].nr_small_alloc = P!Cardinality(out) /\ out # {}
    /\ P!Cardinality({i \in DOMAIN q.span_list : q.span_list[i] = p})
          = IF c.pages[p].freelist = {} THEN 0 ELSE 1

LEMMA PageCounted ==
    ASSUME NEW c, NEW q, NEW S, Pooling(c, q, S), NEW p \in PagesOf(q, S)
    PROVE  PageAccounted(c, q, S, p)
<1> DEFINE out == P!ObjectsOf(p) \cap (S \cup q.free)
<1>1. p \in 0 .. 8 /\ out # {}
  BY PagesOfFacts DEF OutOf
<1>2. out = OutOf(q, S, p)
  BY DEF OutOf
<1>3. /\ c.pages[p].freelist = P!ObjectsOf(p) \ out
      /\ c.pages[p].nr_small_alloc = Cardinality(out)
  BY <1>2 DEF Pooling, PageOfPool
<1>4. Cardinality({i \in DOMAIN q.span_list : q.span_list[i] = p})
      = IF p \in PagesIn(q.span_list) THEN 1 ELSE 0
  BY OnceCounted DEF Pooling
<1>5. p \in PagesIn(q.span_list) <=> c.pages[p].freelist # {}
  BY <1>1 DEF Pooling
<1> HIDE DEF out
<1>6. P!Cardinality(out) = Cardinality(out)
  BY PageSizes
<1>7. P!Cardinality({i \in DOMAIN q.span_list : q.span_list[i] = p})
      = IF c.pages[p].freelist = {} THEN 0 ELSE 1
  <2> DEFINE K == {i \in DOMAIN q.span_list : q.span_list[i] = p}
  <2>1. P!Cardinality(K) = Cardinality(K)
    BY PageSizes
  <2> HIDE DEF K
  <2>2. Cardinality(K) = IF p \in PagesIn(q.span_list) THEN 1 ELSE 0
    BY <1>4 DEF K
  <2> QED BY <1>5, <2>1, <2>2 DEF K
<1> QED BY <1>1, <1>3, <1>6, <1>7 DEF PageAccounted, out

\* The invariant says what ObjectsAccounted does.
LEMMA PoolCounted == PagesInv => ObjectsAccounted
<1> SUFFICES ASSUME PagesInv PROVE ObjectsAccounted
  OBVIOUS
<1> DEFINE S == SmallOf(held)
<1>1. Pooling(cpu, pool, S) /\ FewFree(pool)
  BY DEF PagesInv, PagesOk, Good
<1>2. {<<h.at, h.slot>> : h \in held \ P!Large} = S
  <2>1. held \ P!Large = {x \in held : x.slot # 0}
    BY DEF P!Large
  <2> QED BY <2>1 DEF SmallOf
<1>3. P!PoolPages = PagesOf(pool, S)
  BY PoolPagesOf
<1> HIDE DEF S
<1>4. \A p \in P!PoolPages : PageAccounted(cpu, pool, S, p)
  BY <1>1, <1>3, PageCounted
<1>5. S \cap pool.free = {}
  BY <1>1 DEF Pooling
<1>6. P!Cardinality(pool.free) < MaxFree \/ P!Cardinality(pool.free) < P!Goal + Slots - 1
  BY <1>1, PageSizes DEF FewFree, PoolBound
<1>7. P!ObjectsAccounted
  BY Zenon, <1>2, <1>4, <1>5, <1>6 DEF P!ObjectsAccounted, PageAccounted
<1> QED BY <1>7 DEF ObjectsAccounted

\* For the same values: every object of a page of the pool is held, in _free or
\* in the list of its page, once; the page counts them, is in _span_list as
\* long as its list has objects, and goes back with its last object; and _free
\* stays below _max_free, or below what one refill can bring (small_pool).
THEOREM PoolAccounted == MCSpec => []ObjectsAccounted
<1>1. PagesInv /\ [MCNext]_MCVars => PagesInv'
  BY PagesStep
<1> QED BY PagesInit, PoolCounted, <1>1, PTL DEF MCSpec
=============================================================================
