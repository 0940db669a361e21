----------------------------- MODULE SpoolProofs -----------------------------
(***************************************************************************)
(* Proofs about Spool, for any set of reports of any sizes, any limits and *)
(* any order of enqueues, flushes, failures, crashes and lost calls.       *)
(***************************************************************************)
EXTENDS Spool, SequenceTheorems, WellFoundedInduction, TLAPS

-----------------------------------------------------------------------------
(* The inductive invariant.                                                 *)

\* No report has two files.
DistinctItems(s) == \A j, k \in DOMAIN s : s[j].item = s[k].item => j = k

\* The reports with a complete file.
Complete(s) == {i \in Items : \E k \in DOMAIN s : s[k].item = i /\ Whole(s[k])}

\* The cursor is used by Flush alone.
CursorIdle == busy # "flush" => cursor = 0

\* Every file is of a report that was offered once.
Known == DistinctItems(files) /\ \A k \in DOMAIN files : files[k].item \in offered

\* Enqueue works on the newest file: empty until written, of a report that was
\* neither delivered nor discarded, and whole once written.
InProgress ==
  /\ busy = "create" => /\ files[Newest].size = 0
                        /\ files[Newest].item \notin delivered \cup aged
  /\ busy = "sync" => Whole(files[Newest])

\* The bytes that a file just created will have are already accounted for.
Reserved == IF busy = "create" THEN Size[files[Newest].item] ELSE 0
Bounded == BytesUsed + Reserved <= MaxBytes

SpoolInv ==
  /\ TypeOK
  /\ CursorIdle
  /\ Known
  /\ InProgress
  /\ Bounded

-----------------------------------------------------------------------------
(* Sums, by induction.                                                      *)

\* Induction over the natural numbers, for a set.
LEMMA NaturalInduction ==
  ASSUME NEW T \in SUBSET Nat, 0 \in T, \A n \in T : n + 1 \in T
  PROVE  T = Nat
<1> SUFFICES ASSUME Nat \ T # {} PROVE FALSE
  OBVIOUS
<1>1. PICK n \in Nat \ T : \A m \in Nat \ T : <<m, n>> \notin OpToRel(<, Nat)
  BY WFMin, NatLessThanWellFounded
<1>2. n # 0 /\ n - 1 \in Nat /\ n - 1 < n
  OBVIOUS
<1>3. n - 1 \in T
  BY <1>1, <1>2 DEF OpToRel
<1>4. QED
  BY <1>2, <1>3

\* f[k] is the sum of the first k of n values.
Adds(f, v, n) == f \in [0 .. n -> Nat] /\ f[0] = 0 /\ \A k \in 1 .. n : f[k] = f[k - 1] + v[k]
IsSum(f, v, n) == n \in Nat /\ v \in [1 .. n -> Nat] /\ Adds(f, v, n)

LEMMA SumExists ==
  ASSUME NEW n \in Nat, NEW v \in [1 .. n -> Nat]
  PROVE  \E f : IsSum(f, v, n)
<1> DEFINE T == {m \in Nat : m <= n => \E f : Adds(f, v, m)}
<1>1. 0 \in T
  <2> DEFINE f == [k \in 0 .. 0 |-> 0]
  <2>1. Adds(f, v, 0)
    BY DEF Adds
  <2>2. QED
    BY <2>1
<1>2. ASSUME NEW m \in T PROVE m + 1 \in T
  <2> SUFFICES ASSUME m + 1 <= n PROVE \E f : Adds(f, v, m + 1)
    OBVIOUS
  <2>1. PICK f : Adds(f, v, m)
    BY <1>2
  <2> DEFINE g == [k \in 0 .. m + 1 |-> IF k <= m THEN f[k] ELSE f[m] + v[m + 1]]
  <2>2. v[m + 1] \in Nat /\ f[m] \in Nat
    BY <2>1 DEF Adds
  <2>3. g \in [0 .. m + 1 -> Nat] /\ g[0] = 0
    BY <2>1, <2>2 DEF Adds
  <2>4. \A k \in 1 .. m + 1 : g[k] = g[k - 1] + v[k]
    <3> TAKE k \in 1 .. m + 1
    <3>1. CASE k <= m
      <4>1. k \in 1 .. m /\ g[k] = f[k] /\ g[k - 1] = f[k - 1]
        BY <3>1
      <4>2. QED
        BY <2>1, <4>1 DEF Adds
    <3>2. CASE k = m + 1
      BY <3>2
    <3>3. QED
      BY <3>1, <3>2
  <2>5. QED
    BY <2>3, <2>4 DEF Adds
<1> HIDE DEF T
<1>3. T = Nat
  BY <1>1, <1>2, NaturalInduction DEF T
<1>4. n \in T /\ n <= n
  BY <1>3
<1>5. QED
  BY <1>4 DEF T, IsSum

LEMMA SumStep ==
  ASSUME NEW f, NEW v, NEW n, IsSum(f, v, n), NEW k \in 1 .. n
  PROVE  f[k] = f[k - 1] + v[k] /\ f[k - 1] \in Nat /\ v[k] \in Nat /\ f[k] \in Nat
<1>1. n \in Nat /\ v \in [1 .. n -> Nat] /\ Adds(f, v, n)
  BY DEF IsSum
<1>2. k - 1 \in 0 .. n /\ k \in 0 .. n
  BY <1>1
<1>3. QED
  BY <1>1, <1>2 DEF Adds

\* Sums of the same first l values are the same.
LEMMA SumPrefix ==
  ASSUME NEW f, NEW v, NEW n, IsSum(f, v, n),
         NEW g, NEW w, NEW m, IsSum(g, w, m),
         NEW l \in Nat, l <= n, l <= m, \A i \in 1 .. l : v[i] = w[i]
  PROVE  f[l] = g[l] /\ g[l] \in Nat
<1> DEFINE T == {i \in Nat : i <= l => f[i] = g[i]}
<1> n \in Nat /\ v \in [1 .. n -> Nat] /\ m \in Nat /\ w \in [1 .. m -> Nat]
  BY DEF IsSum, Adds
<1>1. 0 \in T
  BY DEF IsSum, Adds
<1>2. ASSUME NEW i \in T PROVE i + 1 \in T
  <2> SUFFICES ASSUME i + 1 <= l PROVE f[i + 1] = g[i + 1]
    OBVIOUS
  <2>1. f[i] = g[i]
    BY <1>2
  <2>2. i + 1 \in 1 .. n /\ i + 1 \in 1 .. m /\ i + 1 \in 1 .. l /\ (i + 1) - 1 = i
    OBVIOUS
  <2>3. f[i + 1] = f[i] + v[i + 1] /\ g[i + 1] = g[i] + w[i + 1] /\ v[i + 1] = w[i + 1]
    BY <2>2 DEF IsSum, Adds
  <2>4. QED
    BY <2>1, <2>3
<1> HIDE DEF T
<1>3. T = Nat
  BY <1>1, <1>2, NaturalInduction DEF T
<1>4. f[l] = g[l]
  <2>1. l \in T /\ l <= l
    BY <1>3
  <2>2. QED
    BY <2>1 DEF T
<1>5. g[l] \in Nat
  BY DEF IsSum, Adds
<1>6. QED
  BY <1>4, <1>5

-----------------------------------------------------------------------------
(* The directory.                                                           *)

LEMMA FileFields ==
  ASSUME NEW s \in Seq(File)
  PROVE  /\ Len(s) \in Nat /\ DOMAIN s = 1 .. Len(s)
         /\ \A k \in 1 .. Len(s) :
              /\ s[k] \in File
              /\ s[k].item \in Items /\ s[k].size \in Nat /\ Size[s[k].item] \in Nat \ {0}
<1>1. \A k \in 1 .. Len(s) : s[k] \in File
  BY ElementOfSeq
<1>2. QED
  BY <1>1, SpoolAssumption DEF File

Sizes(s) == [k \in 1 .. Len(s) |-> s[k].size]

\* healthUnlocked adds up the sizes.
LEMMA BytesSum ==
  ASSUME NEW s \in Seq(File)
  PROVE  /\ Sizes(s) \in [1 .. Len(s) -> Nat]
         /\ \E f : IsSum(f, Sizes(s), Len(s)) /\ Bytes(s) = f[Len(s)]
<1> DEFINE n == Len(s)
           v == Sizes(s)
           Rec(f) == f = [k \in 0 .. n |-> IF k = 0 THEN 0 ELSE f[k - 1] + s[k].size]
<1>1. n \in Nat /\ v \in [1 .. n -> Nat] /\ \A k \in 1 .. n : v[k] = s[k].size
  BY FileFields DEF Sizes
<1>2. PICK f : IsSum(f, v, n)
  BY <1>1, SumExists
<1>3. Rec(f)
  BY <1>1, <1>2 DEF IsSum, Adds
<1> DEFINE g == CHOOSE h : Rec(h)
<1>4. Rec(g)
  BY <1>3
<1>5. Bytes(s) = g[n]
  BY DEF Bytes
<1> HIDE DEF g, v
<1>6. IsSum(g, v, n)
  <2>1. DOMAIN g = 0 .. n /\ g[0] = 0 /\ \A k \in 1 .. n : g[k] = g[k - 1] + v[k]
    BY <1>1, <1>4
  <2> DEFINE T == {m \in Nat : m <= n => g[m] \in Nat}
  <2>2. 0 \in T
    BY <2>1
  <2>3. ASSUME NEW m \in T PROVE m + 1 \in T
    <3> SUFFICES ASSUME m + 1 <= n PROVE g[m + 1] \in Nat
      OBVIOUS
    <3>1. g[m] \in Nat /\ m + 1 \in 1 .. n
      BY <2>3
    <3>2. g[m + 1] = g[(m + 1) - 1] + v[m + 1] /\ v[m + 1] \in Nat
      BY <1>1, <2>1, <3>1
    <3>3. (m + 1) - 1 = m
      OBVIOUS
    <3>4. QED
      BY <3>1, <3>2, <3>3
  <2> HIDE DEF T
  <2>4. T = Nat
    BY <2>2, <2>3, NaturalInduction DEF T
  <2>5. \A m \in 0 .. n : g[m] \in Nat
    BY <1>1, <2>4 DEF T
  <2>6. g = [k \in 0 .. n |-> g[k]]
    BY <1>4, <2>1
  <2>7. g \in [0 .. n -> Nat]
    BY <2>5, <2>6
  <2>8. Adds(g, v, n)
    BY <2>1, <2>7 DEF Adds
  <2>9. QED
    BY <1>1, <2>8 DEF IsSum
<1>7. QED
  BY <1>1, <1>5, <1>6 DEF v

LEMMA BytesType ==
  ASSUME NEW s \in Seq(File)
  PROVE  Bytes(s) \in Nat
<1>1. PICK f : IsSum(f, Sizes(s), Len(s)) /\ Bytes(s) = f[Len(s)]
  BY BytesSum
<1>2. QED
  BY <1>1, FileFields DEF IsSum, Adds

\* t is s with another file at its end.
LEMMA Appended ==
  ASSUME NEW s \in Seq(File), NEW x \in File, NEW t, t = Append(s, x)
  PROVE  /\ t \in Seq(File) /\ Len(t) = Len(s) + 1
         /\ t[Len(s) + 1] = x /\ \A k \in 1 .. Len(s) : t[k] = s[k]
         /\ Bytes(t) = Bytes(s) + x.size
<1>1. t \in Seq(File) /\ Len(t) = Len(s) + 1 /\ t[Len(s) + 1] = x
      /\ \A k \in 1 .. Len(s) : t[k] = s[k]
  BY AppendProperties
<1> DEFINE n == Len(s)
<1>2. PICK f : IsSum(f, Sizes(s), n) /\ Bytes(s) = f[n]
  BY BytesSum
<1>3. PICK g : IsSum(g, Sizes(t), n + 1) /\ Bytes(t) = g[n + 1]
  BY <1>1, BytesSum
<1>4. /\ n \in Nat /\ n + 1 \in Nat /\ Sizes(s) \in [1 .. n -> Nat]
      /\ Sizes(t) \in [1 .. n + 1 -> Nat]
      /\ Sizes(t)[n + 1] = x.size /\ \A i \in 1 .. n : Sizes(s)[i] = Sizes(t)[i]
  <2>1. n \in Nat /\ Sizes(s) \in [1 .. n -> Nat] /\ Sizes(t) \in [1 .. n + 1 -> Nat]
    BY <1>1, BytesSum, FileFields
  <2>2. QED
    BY <1>1, <2>1 DEF Sizes
<1>5. f[0] = g[0] /\ f[0] = 0
  BY <1>2, <1>3 DEF IsSum, Adds
<1> HIDE DEF n
<1>6. f[n] = g[n]
  <2>1. n <= n /\ n <= n + 1
    BY <1>4
  <2>2. IsSum(f, Sizes(s), n) /\ IsSum(g, Sizes(t), n + 1) /\ n \in Nat
        /\ \A i \in 1 .. n : Sizes(s)[i] = Sizes(t)[i]
    BY <1>2, <1>3, <1>4
  <2>3. QED
    BY <2>1, <2>2, SumPrefix
<1>7. g[n + 1] = g[n] + x.size
  <2>1. n + 1 \in 1 .. n + 1 /\ (n + 1) - 1 = n
    BY <1>4
  <2>2. QED
    BY <1>3, <1>4, <2>1 DEF IsSum, Adds
<1>8. Bytes(t) = Bytes(s) + x.size
  BY <1>2, <1>3, <1>6, <1>7
<1>9. QED
  BY <1>1, <1>8

\* t is s with the bytes of the newest file replaced, and any ages.
Rewritten(s, t) ==
  /\ t \in Seq(File) /\ Len(t) = Len(s)
  /\ \A k \in 1 .. Len(s) : t[k].item = s[k].item
  /\ \A k \in 1 .. Len(s) : k # Len(s) => t[k].size = s[k].size

LEMMA RewrittenBytes ==
  ASSUME NEW s \in Seq(File), s # <<>>, NEW t, Rewritten(s, t)
  PROVE  Bytes(t) = Bytes(s) - s[Len(s)].size + t[Len(s)].size
<1> DEFINE n == Len(s)
<1>1. n \in Nat /\ n >= 1 /\ n - 1 \in Nat /\ t \in Seq(File) /\ Len(t) = n
  BY EmptySeq, FileFields DEF Rewritten
<1>2. PICK f : IsSum(f, Sizes(s), n) /\ Bytes(s) = f[n]
  BY BytesSum
<1>3. PICK g : IsSum(g, Sizes(t), n) /\ Bytes(t) = g[n]
  BY <1>1, BytesSum
<1>4. Sizes(s) \in [1 .. n -> Nat] /\ Sizes(t) \in [1 .. n -> Nat]
  BY <1>1, BytesSum
<1>5. /\ Sizes(s)[n] = s[n].size /\ Sizes(t)[n] = t[n].size
      /\ \A i \in 1 .. n - 1 : Sizes(s)[i] = Sizes(t)[i]
  BY <1>1 DEF Sizes, Rewritten
<1> HIDE DEF n
<1>6. f[n - 1] = g[n - 1] /\ g[n - 1] \in Nat
  <2>1. n - 1 <= n
    BY <1>1
  <2>2. IsSum(f, Sizes(s), n) /\ IsSum(g, Sizes(t), n) /\ n - 1 \in Nat
        /\ \A i \in 1 .. n - 1 : Sizes(s)[i] = Sizes(t)[i]
    BY <1>1, <1>2, <1>3, <1>5
  <2>3. QED
    BY <2>1, <2>2, SumPrefix
<1>7. f[n] = f[n - 1] + s[n].size /\ g[n] = g[n - 1] + t[n].size
  <2>1. n \in 1 .. n
    BY <1>1
  <2>2. f[n] = f[n - 1] + Sizes(s)[n]
    BY <1>2, <2>1, SumStep
  <2>3. g[n] = g[n - 1] + Sizes(t)[n]
    BY <1>3, <2>1, SumStep
  <2>4. QED
    BY <1>5, <2>2, <2>3
<1>8. s[n].size \in Nat /\ t[n].size \in Nat
  BY <1>1, <1>4, <1>5
<1>9. QED
  BY <1>2, <1>3, <1>6, <1>7, <1>8 DEF n

\* t is s without its c-th file.
Without(s, c, t) ==
  /\ t \in Seq(File) /\ Len(t) = Len(s) - 1
  /\ \A k \in 1 .. Len(s) - 1 : t[k] = IF k < c THEN s[k] ELSE s[k + 1]

LEMMA RemoveAtWithout ==
  ASSUME NEW s \in Seq(File), NEW c \in 1 .. Len(s)
  PROVE  Without(s, c, RemoveAt(s, c))
<1> DEFINE p == SubSeq(s, 1, c - 1)
           q == SubSeq(s, c + 1, Len(s))
<1>1. Len(s) \in Nat /\ \A k \in 1 .. Len(s) : s[k] \in File
  BY FileFields
<1>2. /\ p \in Seq(File) /\ Len(p) = c - 1
      /\ \A i \in 1 .. c - 1 : p[i] = s[i]
  <2>1. \A i \in 1 .. c - 1 : s[i] \in File
    BY <1>1
  <2>2. /\ p \in Seq(File) /\ Len(p) = IF 1 <= c - 1 THEN (c - 1) - 1 + 1 ELSE 0
        /\ \A i \in 1 .. (c - 1) - 1 + 1 : p[i] = s[1 + i - 1]
    BY <1>1, <2>1, SubSeqProperties
  <2>3. QED
    BY <1>1, <2>2
<1>3. /\ q \in Seq(File) /\ Len(q) = Len(s) - c
      /\ \A i \in 1 .. Len(s) - c : q[i] = s[c + i]
  <2>1. \A i \in c + 1 .. Len(s) : s[i] \in File
    BY <1>1
  <2>2. /\ q \in Seq(File)
        /\ Len(q) = IF c + 1 <= Len(s) THEN Len(s) - (c + 1) + 1 ELSE 0
        /\ \A i \in 1 .. Len(s) - (c + 1) + 1 : q[i] = s[(c + 1) + i - 1]
    BY <1>1, <2>1, SubSeqProperties
  <2>3. QED
    BY <1>1, <2>2
<1> HIDE DEF p, q
<1>4. RemoveAt(s, c) = p \o q
  BY DEF RemoveAt, p, q
<1>5. /\ p \o q \in Seq(File) /\ Len(p \o q) = Len(p) + Len(q)
      /\ \A i \in 1 .. Len(p) + Len(q) : (p \o q)[i] = IF i <= Len(p) THEN p[i] ELSE q[i - Len(p)]
  BY <1>2, <1>3, ConcatProperties
<1>6. ASSUME NEW k \in 1 .. Len(s) - 1
      PROVE  (p \o q)[k] = IF k < c THEN s[k] ELSE s[k + 1]
  <2>1. (p \o q)[k] = IF k <= c - 1 THEN p[k] ELSE q[k - (c - 1)]
    BY <1>1, <1>2, <1>3, <1>5
  <2>2. CASE k < c
    BY <1>1, <1>2, <2>1, <2>2
  <2>3. CASE ~(k < c)
    <3>1. k - (c - 1) \in 1 .. Len(s) - c /\ c + (k - (c - 1)) = k + 1
      BY <1>1, <2>3
    <3>2. QED
      BY <1>1, <1>3, <2>1, <2>3, <3>1
  <2>4. QED
    BY <2>2, <2>3
<1>7. QED
  BY <1>1, <1>2, <1>3, <1>4, <1>5, <1>6 DEF Without

LEMMA FrontWithout ==
  ASSUME NEW s \in Seq(File), s # <<>>
  PROVE  Without(s, Len(s), Front(s))
<1>1. Len(s) \in Nat /\ Len(s) >= 1 /\ \A k \in 1 .. Len(s) - 1 : s[k] \in File
  BY FileFields, EmptySeq
<1>2. /\ Front(s) \in Seq(File)
      /\ Len(Front(s)) = IF 1 <= Len(s) - 1 THEN (Len(s) - 1) - 1 + 1 ELSE 0
      /\ \A i \in 1 .. (Len(s) - 1) - 1 + 1 : Front(s)[i] = s[1 + i - 1]
  BY <1>1, SubSeqProperties DEF Front
<1>3. Len(Front(s)) = Len(s) - 1
  <2>1. \A n \in Nat : n >= 1 => (IF 1 <= n - 1 THEN (n - 1) - 1 + 1 ELSE 0) = n - 1
    OBVIOUS
  <2>2. QED
    BY <1>1, <1>2, <2>1
<1>4. ASSUME NEW k \in 1 .. Len(s) - 1
      PROVE  Front(s)[k] = IF k < Len(s) THEN s[k] ELSE s[k + 1]
  <2>1. k \in 1 .. (Len(s) - 1) - 1 + 1 /\ 1 + k - 1 = k /\ k < Len(s)
    BY <1>1
  <2>2. QED
    BY <1>2, <2>1
<1>5. QED
  BY <1>2, <1>3, <1>4 DEF Without

LEMMA WithoutBytes ==
  ASSUME NEW s \in Seq(File), NEW c \in 1 .. Len(s), NEW t, Without(s, c, t)
  PROVE  Bytes(t) = Bytes(s) - s[c].size
<1> DEFINE n == Len(s)
<1>1. n \in Nat /\ n >= 1 /\ n - 1 \in Nat /\ c \in Nat /\ c - 1 \in Nat /\ c <= n
      /\ t \in Seq(File) /\ Len(t) = n - 1
  BY FileFields DEF Without
<1>2. PICK f : IsSum(f, Sizes(s), n) /\ Bytes(s) = f[n]
  BY BytesSum
<1>3. PICK g : IsSum(g, Sizes(t), n - 1) /\ Bytes(t) = g[n - 1]
  BY <1>1, BytesSum
<1>4. Sizes(s) \in [1 .. n -> Nat] /\ Sizes(t) \in [1 .. n - 1 -> Nat]
  BY <1>1, BytesSum
<1>5. /\ Sizes(s)[c] = s[c].size
      /\ \A i \in 1 .. n - 1 : Sizes(t)[i] = IF i < c THEN Sizes(s)[i] ELSE Sizes(s)[i + 1]
  BY <1>1 DEF Sizes, Without
<1> HIDE DEF n
<1>6. f[c - 1] = g[c - 1] /\ g[c - 1] \in Nat
  <2>1. \A i \in 1 .. c - 1 : Sizes(s)[i] = Sizes(t)[i]
    BY <1>1, <1>5
  <2>2. c - 1 <= n /\ c - 1 <= n - 1
    BY <1>1
  <2>3. IsSum(f, Sizes(s), n) /\ IsSum(g, Sizes(t), n - 1) /\ c - 1 \in Nat
    BY <1>1, <1>2, <1>3
  <2>4. QED
    BY <2>1, <2>2, <2>3, SumPrefix
<1>7. s[c].size \in Nat /\ f[c] = g[c - 1] + s[c].size
  <2>1. c \in 1 .. n
    BY <1>1
  <2>2. f[c] = f[c - 1] + Sizes(s)[c] /\ Sizes(s)[c] \in Nat
    BY <1>2, <1>4, <2>1 DEF IsSum, Adds
  <2>3. QED
    BY <1>5, <1>6, <2>2
<1> DEFINE T == {i \in Nat : c + i <= n => f[c + i] = g[c + i - 1] + s[c].size}
<1>8. T = Nat
  <2>1. 0 \in T
    BY <1>1, <1>7
  <2>2. ASSUME NEW i \in T PROVE i + 1 \in T
    <3> SUFFICES ASSUME c + (i + 1) <= n
                 PROVE  f[c + (i + 1)] = g[c + (i + 1) - 1] + s[c].size
      OBVIOUS
    <3>1. c + (i + 1) = (c + i) + 1 /\ c + (i + 1) - 1 = c + i /\ c + i <= n
      BY <1>1
    <3>2. f[c + i] = g[c + i - 1] + s[c].size
      BY <2>2, <3>1
    <3>3. (c + i) + 1 \in 1 .. n /\ c + i \in 1 .. n - 1 /\ ((c + i) + 1) - 1 = c + i
          /\ ~(c + i < c) /\ c + i - 1 \in 0 .. n - 1
      BY <1>1, <3>1
    <3>4. f[(c + i) + 1] = f[((c + i) + 1) - 1] + Sizes(s)[(c + i) + 1]
      BY <1>2, <3>3, SumStep
    <3>5. g[c + i] = g[c + i - 1] + Sizes(t)[c + i] /\ g[c + i - 1] \in Nat
      BY <1>3, <3>3, SumStep
    <3>6. Sizes(t)[c + i] = Sizes(s)[(c + i) + 1] /\ Sizes(s)[(c + i) + 1] \in Nat
      BY <1>4, <1>5, <3>3
    <3>7. f[(c + i) + 1] = g[c + i] + s[c].size
      BY <1>7, <3>2, <3>3, <3>4, <3>5, <3>6
    <3>8. QED
      BY <3>1, <3>7
  <2> HIDE DEF T
  <2>3. QED
    BY <2>1, <2>2, NaturalInduction DEF T
<1>9. f[n] = g[n - 1] + s[c].size /\ g[n - 1] \in Nat
  <2> HIDE DEF T
  <2>1. n - c \in T /\ c + (n - c) = n /\ c + (n - c) - 1 = n - 1 /\ n <= n
    BY <1>1, <1>8
  <2>2. c + (n - c) <= n => f[c + (n - c)] = g[c + (n - c) - 1] + s[c].size
    BY <2>1 DEF T
  <2>3. g[n - 1] \in Nat
    BY <1>1, <1>3 DEF IsSum, Adds
  <2>4. QED
    BY <2>1, <2>2, <2>3
<1>10. QED
  BY <1>2, <1>3, <1>7, <1>9

-----------------------------------------------------------------------------
(* The complete files.                                                      *)

\* A new, empty file of a report that has none.
LEMMA AppendedComplete ==
  ASSUME NEW s \in Seq(File), NEW x \in File, NEW t, t = Append(s, x), DistinctItems(s),
         x.size = 0, \A k \in DOMAIN s : s[k].item # x.item
  PROVE  DistinctItems(t) /\ Complete(t) = Complete(s)
<1>1. /\ t \in Seq(File) /\ Len(t) = Len(s) + 1
      /\ t[Len(s) + 1] = x /\ \A k \in 1 .. Len(s) : t[k] = s[k]
  BY Appended
<1>2. DOMAIN s = 1 .. Len(s) /\ DOMAIN t = 1 .. Len(s) + 1 /\ Len(s) \in Nat
  BY <1>1, FileFields
<1>3. \A k \in DOMAIN t : k \in DOMAIN s \/ k = Len(s) + 1
  BY <1>2
<1>4. DistinctItems(t)
  BY <1>1, <1>2, <1>3 DEF DistinctItems
<1>5. ~Whole(x)
  <2>1. Size[x.item] \in Nat \ {0}
    BY SpoolAssumption DEF File
  <2>2. QED
    BY <2>1 DEF Whole
<1>6. DOMAIN s \subseteq DOMAIN t
  BY <1>2
<1>7. Complete(t) = Complete(s)
  BY <1>1, <1>2, <1>3, <1>5, <1>6 DEF Complete
<1>8. QED
  BY <1>4, <1>7

\* New bytes in the newest file make its report complete, or change nothing.
LEMMA RewrittenComplete ==
  ASSUME NEW s \in Seq(File), s # <<>>, NEW t, Rewritten(s, t), DistinctItems(s)
  PROVE  /\ DistinctItems(t)
         /\ (Whole(t[Len(s)]) <=> Whole(s[Len(s)])) => Complete(t) = Complete(s)
         /\ ~Whole(s[Len(s)]) /\ Whole(t[Len(s)]) =>
              /\ s[Len(s)].item \notin Complete(s)
              /\ Complete(t) = Complete(s) \cup {s[Len(s)].item}
<1> DEFINE n == Len(s)
<1>1. /\ n \in 1 .. n /\ DOMAIN s = 1 .. n /\ DOMAIN t = 1 .. n
      /\ \A k \in 1 .. n : s[k].item \in Items /\ t[k].item = s[k].item
  BY EmptySeq, FileFields DEF Rewritten
<1>2. \A k \in 1 .. n : k # n => (Whole(t[k]) <=> Whole(s[k]))
  BY <1>1 DEF Rewritten, Whole
<1>3. \A j, k \in 1 .. n : s[j].item = s[k].item => j = k
  BY <1>1 DEF DistinctItems
<1> HIDE DEF n
<1>4. DistinctItems(t)
  BY <1>1, <1>3 DEF DistinctItems
<1>5. \A i \in Items : i # s[n].item => (i \in Complete(t) <=> i \in Complete(s))
  BY <1>1, <1>2 DEF Complete
<1>6. (s[n].item \in Complete(s) <=> Whole(s[n])) /\ (s[n].item \in Complete(t) <=> Whole(t[n]))
  BY <1>1, <1>3 DEF Complete
<1>7. Complete(s) \subseteq Items /\ Complete(t) \subseteq Items /\ s[n].item \in Items
  BY <1>1 DEF Complete
<1>8. (Whole(t[n]) <=> Whole(s[n])) => Complete(t) = Complete(s)
  <2> HAVE Whole(t[n]) <=> Whole(s[n])
  <2>1. s[n].item \in Complete(t) <=> s[n].item \in Complete(s)
    BY <1>6
  <2>2. \A i \in Items : i \in Complete(t) <=> i \in Complete(s)
    BY <1>5, <2>1
  <2>3. QED
    BY <1>7, <2>2
<1>9. ASSUME ~Whole(s[n]), Whole(t[n])
      PROVE  s[n].item \notin Complete(s) /\ Complete(t) = Complete(s) \cup {s[n].item}
  <2>1. s[n].item \in Complete(t) /\ s[n].item \notin Complete(s)
    BY <1>6, <1>9
  <2>2. \A i \in Items : i \in Complete(t) <=> i \in Complete(s) \/ i = s[n].item
    BY <1>5, <2>1
  <2>3. QED
    BY <1>7, <2>1, <2>2
<1>10. QED
  BY <1>4, <1>8, <1>9 DEF n

\* Removing a file takes its report out if it was complete.
LEMMA WithoutComplete ==
  ASSUME NEW s \in Seq(File), NEW c \in 1 .. Len(s), NEW t, Without(s, c, t), DistinctItems(s)
  PROVE  /\ DistinctItems(t)
         /\ \A k \in DOMAIN t : \E j \in DOMAIN s : t[k] = s[j]
         /\ Complete(t) = IF Whole(s[c]) THEN Complete(s) \ {s[c].item} ELSE Complete(s)
<1> DEFINE n == Len(s)
           old(k) == IF k < c THEN k ELSE k + 1
<1>1. n \in Nat /\ DOMAIN s = 1 .. n /\ DOMAIN t = 1 .. n - 1 /\ c \in 1 .. n
  BY FileFields DEF Without
<1>2. \A k \in 1 .. n - 1 : old(k) \in 1 .. n /\ old(k) # c /\ t[k] = s[old(k)]
  BY <1>1 DEF Without
<1>3. \A j, k \in 1 .. n - 1 : old(j) = old(k) => j = k
  BY <1>1
<1>4. \A k \in 1 .. n : k # c => \E j \in 1 .. n - 1 : k = old(j)
  <2> SUFFICES ASSUME NEW k \in 1 .. n, k # c PROVE \E j \in 1 .. n - 1 : k = old(j)
    OBVIOUS
  <2>1. CASE k < c
    <3>1. k \in 1 .. n - 1 /\ k = old(k)
      BY <1>1, <2>1
    <3>2. QED
      BY <3>1
  <2>2. CASE k > c
    <3>1. k - 1 \in 1 .. n - 1 /\ k = old(k - 1)
      BY <1>1, <2>2
    <3>2. QED
      BY <3>1
  <2>3. QED
    BY <1>1, <2>1, <2>2
<1>5. \A j, k \in 1 .. n : s[j].item = s[k].item => j = k
  BY <1>1 DEF DistinctItems
<1> HIDE DEF n, old
<1>6. DistinctItems(t)
  BY <1>1, <1>2, <1>3, <1>5 DEF DistinctItems
<1>7. \A k \in DOMAIN t : \E j \in DOMAIN s : t[k] = s[j]
  BY <1>1, <1>2
<1>8. ASSUME NEW i \in Items
      PROVE  i \in Complete(t) <=> i \in Complete(s) /\ ~(Whole(s[c]) /\ i = s[c].item)
  <2>1. ASSUME i \in Complete(t)
        PROVE  i \in Complete(s) /\ ~(Whole(s[c]) /\ i = s[c].item)
    <3>1. PICK k \in 1 .. n - 1 : t[k].item = i /\ Whole(t[k])
      BY <1>1, <2>1 DEF Complete
    <3>2. old(k) \in 1 .. n /\ old(k) # c /\ s[old(k)].item = i /\ Whole(s[old(k)])
      BY <1>2, <3>1
    <3>3. QED
      BY <1>1, <1>5, <3>2 DEF Complete
  <2>2. ASSUME i \in Complete(s), ~(Whole(s[c]) /\ i = s[c].item)
        PROVE  i \in Complete(t)
    <3>1. PICK k \in 1 .. n : s[k].item = i /\ Whole(s[k])
      BY <1>1, <2>2 DEF Complete
    <3>2. PICK j \in 1 .. n - 1 : k = old(j)
      BY <1>4, <2>2, <3>1
    <3>3. t[j].item = i /\ Whole(t[j])
      BY <1>2, <3>1, <3>2
    <3>4. QED
      BY <1>1, <3>3 DEF Complete
  <2>3. QED
    BY <2>1, <2>2
<1>9. Complete(s) \subseteq Items /\ Complete(t) \subseteq Items
  BY DEF Complete
<1>10. Complete(t) = IF Whole(s[c]) THEN Complete(s) \ {s[c].item} ELSE Complete(s)
  BY <1>8, <1>9
<1>11. QED
  BY <1>6, <1>7, <1>10

-----------------------------------------------------------------------------
(* Steps.  Each keeps the invariant and is a step of the store, or none.     *)

StoreStep == [Store!Next]_(Store!vars)

\* What the store is made of.
LEMMA StoreVars ==
  /\ InDirectory = Complete(files) /\ InDirectory' = Complete(files')
  /\ InDirectory' = InDirectory /\ kept' = kept /\ delivered' = delivered /\ aged' = aged
       => StoreStep
BY DEF InDirectory, Complete, StoreStep, Store!vars

LEMMA CurrentFacts ==
  ASSUME SpoolInv
  PROVE  /\ files \in Seq(File) /\ Len(files) \in Nat /\ DOMAIN files = 1 .. Len(files)
         /\ \A k \in 1 .. Len(files) :
              /\ files[k] \in File /\ files[k].item \in Items /\ files[k].size \in Nat
              /\ Size[files[k].item] \in Nat \ {0} /\ files[k].item \in offered
         /\ busy \in {"create", "sync"} => Newest \in 1 .. Len(files)
         /\ BytesUsed \in Nat
         /\ BytesUsed <= MaxBytes
<1>1. files \in Seq(File)
  BY DEF SpoolInv, TypeOK
<1>2. /\ Len(files) \in Nat /\ DOMAIN files = 1 .. Len(files)
      /\ \A k \in 1 .. Len(files) :
           /\ files[k] \in File /\ files[k].item \in Items /\ files[k].size \in Nat
           /\ Size[files[k].item] \in Nat \ {0}
  BY <1>1, FileFields
<1>3. \A k \in 1 .. Len(files) : files[k].item \in offered
  BY <1>2 DEF SpoolInv, Known
<1>4. busy \in {"create", "sync"} => Newest \in 1 .. Len(files)
  BY <1>1, <1>2, EmptySeq DEF SpoolInv, TypeOK, Newest
<1>5. BytesUsed \in Nat
  BY <1>1, BytesType DEF BytesUsed
<1>6. Reserved \in Nat
  BY <1>2, <1>4 DEF Reserved
<1>7. BytesUsed <= MaxBytes
  BY <1>5, <1>6, SpoolAssumption DEF SpoolInv, Bounded
<1>8. QED
  BY <1>1, <1>2, <1>3, <1>4, <1>5, <1>7

\* A step that leaves the directory alone.
LEMMA DirectoryKept ==
  ASSUME SpoolInv, files' = files, busy' \in {"free", "flush"}, offered \subseteq offered'
  PROVE  Known' /\ InProgress' /\ Bounded' /\ InDirectory' = InDirectory
<1>1. BytesUsed' = BytesUsed /\ Reserved' = 0 /\ BytesUsed \in Nat /\ BytesUsed <= MaxBytes
  BY CurrentFacts DEF BytesUsed, Reserved
<1>2. Bounded'
  BY <1>1 DEF Bounded
<1>3. QED
  BY <1>2 DEF SpoolInv, Known, InProgress, InDirectory

\* A step that removes one file of the directory.
LEMMA FileRemoved ==
  ASSUME SpoolInv, NEW c \in 1 .. Len(files), Without(files, c, files'),
         busy' \in {"free", "flush"}, offered' = offered
  PROVE  /\ Known' /\ InProgress' /\ Bounded'
         /\ files' \in Seq(File) /\ Len(files') = Len(files) - 1
         /\ InDirectory' = IF Whole(files[c]) THEN InDirectory \ {files[c].item} ELSE InDirectory
<1>1. files \in Seq(File) /\ BytesUsed \in Nat /\ BytesUsed <= MaxBytes
      /\ files[c].size \in Nat /\ \A k \in DOMAIN files : files[k].item \in offered
  BY CurrentFacts
<1>2. files' \in Seq(File) /\ Len(files') = Len(files) - 1
  BY DEF Without
<1>3. BytesUsed' = BytesUsed - files[c].size
  BY <1>1, WithoutBytes DEF BytesUsed
<1>4. /\ DistinctItems(files')
      /\ \A k \in DOMAIN files' : \E j \in DOMAIN files : files'[k] = files[j]
      /\ Complete(files') = IF Whole(files[c]) THEN Complete(files) \ {files[c].item}
                            ELSE Complete(files)
  BY <1>1, WithoutComplete DEF SpoolInv, Known
<1>5. Known'
  BY <1>1, <1>4 DEF Known
<1>6. Bounded'
  <2>1. Reserved' = 0
    BY DEF Reserved
  <2>2. QED
    BY <1>1, <1>3, <2>1, SpoolAssumption DEF Bounded
<1>7. InProgress'
  BY DEF InProgress
<1>8. QED
  BY <1>2, <1>4, <1>5, <1>6, <1>7, StoreVars

\* A step that writes n bytes into the file Enqueue has created.
LEMMA FileWritten ==
  ASSUME SpoolInv, busy = "create", NEW n \in 0 .. Size[files[Newest].item],
         files' = [files EXCEPT ![Newest].size = n], offered' = offered
  PROVE  /\ Known' /\ files' \in Seq(File) /\ Len(files') = Len(files) /\ Newest' = Newest
         /\ files'[Newest].item = files[Newest].item /\ files'[Newest].size = n
         /\ BytesUsed' <= MaxBytes /\ BytesUsed' \in Nat
         /\ n < Size[files[Newest].item] => InDirectory' = InDirectory
         /\ n = Size[files[Newest].item] =>
              /\ files[Newest].item \notin InDirectory
              /\ InDirectory' = InDirectory \cup {files[Newest].item}
<1>1. /\ files \in Seq(File) /\ Newest \in 1 .. Len(files) /\ Newest = Len(files)
      /\ BytesUsed \in Nat /\ DOMAIN files = 1 .. Len(files) /\ Len(files) \in Nat
      /\ \A k \in 1 .. Len(files) : files[k] \in File /\ files[k].item \in offered
      /\ Size[files[Newest].item] \in Nat \ {0}
  BY CurrentFacts DEF Newest
<1>2. n \in Nat /\ n <= Size[files[Newest].item]
  BY <1>1
<1>3. [files[Newest] EXCEPT !.size = n] \in File
  BY <1>1, <1>2 DEF File
<1>4. files' = [files EXCEPT ![Newest] = [files[Newest] EXCEPT !.size = n]]
  BY <1>1
<1>5. /\ files' \in Seq(File) /\ Len(files') = Len(files)
      /\ files'[Newest] = [files[Newest] EXCEPT !.size = n]
      /\ \A k \in 1 .. Len(files) : k # Newest => files'[k] = files[k]
  BY <1>1, <1>3, <1>4, ExceptSeq
<1>6. files'[Newest].item = files[Newest].item /\ files'[Newest].size = n
  BY <1>1, <1>5 DEF File
<1>7. Rewritten(files, files')
  BY <1>1, <1>5, <1>6 DEF Rewritten
<1>8. files[Newest].size = 0 /\ ~Whole(files[Newest])
      /\ (Whole(files'[Newest]) <=> n = Size[files[Newest].item])
  BY <1>1, <1>6 DEF SpoolInv, InProgress, Whole
<1>9. files # <<>> /\ DistinctItems(files)
  BY DEF SpoolInv, TypeOK, Known
<1>10. BytesUsed' = BytesUsed + n
  <2>1. Bytes(files') = Bytes(files) - files[Newest].size + files'[Newest].size
    BY <1>1, <1>7, <1>9, RewrittenBytes
  <2>2. QED
    BY <1>1, <1>2, <1>6, <1>8, <2>1 DEF BytesUsed
<1>11. BytesUsed + Size[files[Newest].item] <= MaxBytes
  BY DEF SpoolInv, Bounded, Reserved
<1>12. BytesUsed' <= MaxBytes /\ BytesUsed' \in Nat
  BY <1>1, <1>2, <1>10, <1>11, SpoolAssumption
<1>13. /\ DistinctItems(files')
       /\ ~Whole(files'[Newest]) => Complete(files') = Complete(files)
       /\ Whole(files'[Newest]) => /\ files[Newest].item \notin Complete(files)
                                   /\ Complete(files') = Complete(files) \cup {files[Newest].item}
  <2> DEFINE s == files
             t == files'
             l == Len(files)
  <2>1. /\ DistinctItems(t)
        /\ (Whole(t[l]) <=> Whole(s[l])) => Complete(t) = Complete(s)
        /\ ~Whole(s[l]) /\ Whole(t[l]) =>
             s[l].item \notin Complete(s) /\ Complete(t) = Complete(s) \cup {s[l].item}
    BY <1>1, <1>7, <1>9, RewrittenComplete
  <2>2. l = Newest
    BY <1>1
  <2> HIDE DEF s, t, l
  <2>3. ~Whole(s[l])
    BY <1>8, <2>2 DEF s
  <2>4. QED
    BY <2>1, <2>2, <2>3 DEF s, t
<1>14. Known'
  <2>1. DOMAIN files' = 1 .. Len(files)
    BY <1>5, FileFields
  <2>2. \A k \in 1 .. Len(files) : files'[k].item = files[k].item
    BY <1>7 DEF Rewritten
  <2>3. QED
    BY <1>1, <1>13, <2>1, <2>2 DEF Known
<1>15. Newest' = Newest
  BY <1>5 DEF Newest
<1>16. n < Size[files[Newest].item] => ~(n = Size[files[Newest].item])
  BY <1>1, <1>2
<1>17. QED
  BY <1>5, <1>6, <1>8, <1>12, <1>13, <1>14, <1>15, <1>16, StoreVars

\* Enqueue, up to the file it creates.
LEMMA CreatesKeeps ==
  ASSUME SpoolInv, NEW i \in Items, EnqueueCreates(i)
  PROVE  SpoolInv' /\ StoreStep
<1> DEFINE x == [item |-> i, size |-> 0, age |-> 0]
<1>1. /\ busy = "free" /\ i \notin offered /\ offered' = offered \cup {i}
      /\ BytesUsed + Size[i] <= MaxBytes
      /\ files' = Append(files, x) /\ busy' = "create"
      /\ UNCHANGED <<cursor, kept, attempted, delivered, aged, passedOver>>
  BY DEF EnqueueCreates, Fits
<1>2. x \in File /\ x.item = i /\ x.size = 0
  BY SpoolAssumption DEF File
<1> HIDE DEF x
<1>3. /\ files \in Seq(File) /\ Len(files) \in Nat /\ DOMAIN files = 1 .. Len(files)
      /\ \A k \in DOMAIN files : files[k].item \in offered
      /\ BytesUsed \in Nat /\ Size[i] \in Nat
  BY CurrentFacts, SpoolAssumption
<1>4. /\ files' \in Seq(File) /\ Len(files') = Len(files) + 1
      /\ files'[Len(files) + 1] = x /\ \A k \in 1 .. Len(files) : files'[k] = files[k]
      /\ Bytes(files') = Bytes(files) + x.size
  <2>1. files' = Append(files, x)
    BY <1>1
  <2>2. x \in File /\ files \in Seq(File)
    BY <1>2, <1>3
  <2>3. \A s \in Seq(File), y \in File : \A t : t = Append(s, y) => Bytes(t) = Bytes(s) + y.size
    BY ONLY Appended, ZenonT(30)
  <2>4. Bytes(files') = Bytes(files) + x.size
    BY <2>1, <2>2, <2>3
  <2>5. QED
    BY <2>1, <2>2, <2>4, <1>3, AppendProperties
<1>5. DistinctItems(files') /\ Complete(files') = Complete(files)
  <2>1. DistinctItems(files) /\ \A k \in DOMAIN files : files[k].item # x.item
    BY <1>1, <1>2, <1>3 DEF SpoolInv, Known
  <2>2. QED
    BY <1>1, <1>2, <1>3, <2>1, AppendedComplete
<1>6. Newest' = Len(files) + 1 /\ files'[Newest'] = x /\ files' # <<>>
      /\ DOMAIN files' = 1 .. Len(files) + 1
  BY <1>3, <1>4, FileFields, EmptySeq DEF Newest
<1>7. TypeOK'
  <2>1. cursor' \in 0 .. Len(files') + 1
    BY <1>1, <1>3, <1>4 DEF SpoolInv, TypeOK
  <2>2. QED
    BY <1>1, <1>4, <1>6, <2>1 DEF SpoolInv, TypeOK
<1>8. CursorIdle'
  BY <1>1 DEF SpoolInv, CursorIdle
<1>9. Known'
  <2>1. \A k \in 1 .. Len(files) + 1 : files'[k].item \in offered'
    BY <1>1, <1>2, <1>3, <1>4
  <2>2. QED
    BY <1>5, <1>6, <2>1 DEF Known
<1>10. InProgress'
  BY <1>1, <1>2, <1>6 DEF SpoolInv, TypeOK, InProgress
<1>11. Bounded'
  <2>1. BytesUsed' = BytesUsed
    BY <1>2, <1>3, <1>4 DEF BytesUsed
  <2>2. Reserved' = Size[i]
    BY <1>1, <1>2, <1>6 DEF Reserved
  <2>3. QED
    BY <1>1, <2>1, <2>2 DEF Bounded
<1>12. QED
  BY <1>1, <1>5, <1>7, <1>8, <1>9, <1>10, <1>11, StoreVars DEF SpoolInv

LEMMA RefusesKeeps ==
  ASSUME SpoolInv, NEW i \in Items, EnqueueRefuses(i)
  PROVE  SpoolInv' /\ StoreStep
<1>1. /\ busy = "free" /\ offered' = offered \cup {i}
      /\ UNCHANGED <<files, busy, cursor, kept, attempted, delivered, aged, passedOver>>
  BY DEF EnqueueRefuses
<1>2. Known' /\ InProgress' /\ Bounded' /\ InDirectory' = InDirectory
  BY <1>1, DirectoryKept
<1>3. TypeOK' /\ CursorIdle'
  BY <1>1 DEF SpoolInv, TypeOK, CursorIdle
<1>4. QED
  BY <1>1, <1>2, <1>3, StoreVars DEF SpoolInv

\* The write of the whole file puts the report into the store.
LEMMA WritesKeeps ==
  ASSUME SpoolInv, EnqueueWrites
  PROVE  SpoolInv' /\ StoreStep
<1> DEFINE i == files[Newest].item
<1>1. /\ busy = "create" /\ busy' = "sync" /\ offered' = offered
      /\ files' = [files EXCEPT ![Newest].size = Size[i]]
      /\ UNCHANGED <<cursor, kept, attempted, delivered, aged, passedOver>>
  BY DEF EnqueueWrites
<1>2. Size[i] \in Nat \ {0} /\ i \in Items
  BY <1>1, CurrentFacts
<1>3. /\ Known' /\ files' \in Seq(File) /\ Len(files') = Len(files) /\ Newest' = Newest
      /\ files'[Newest].item = i /\ files'[Newest].size = Size[i]
      /\ BytesUsed' <= MaxBytes /\ BytesUsed' \in Nat
      /\ i \notin InDirectory /\ InDirectory' = InDirectory \cup {i}
  <2>1. Size[i] \in 0 .. Size[i]
    BY <1>2
  <2>2. QED
    BY <1>1, <2>1, FileWritten
<1>4. TypeOK'
  <2>1. files' # <<>>
    BY <1>1, <1>3, CurrentFacts, EmptySeq DEF Newest
  <2>2. QED
    BY <1>1, <1>3, <2>1 DEF SpoolInv, TypeOK
<1>5. CursorIdle'
  BY <1>1 DEF SpoolInv, CursorIdle
<1>6. InProgress'
  BY <1>1, <1>3 DEF InProgress, Whole
<1>7. Bounded'
  <2>1. Reserved' = 0
    BY <1>1 DEF Reserved
  <2>2. QED
    BY <1>3, <2>1 DEF Bounded
<1>8. i \notin delivered \cup aged
  BY <1>1 DEF SpoolInv, InProgress
<1>9. Store!Put(i)
  BY <1>1, <1>3, <1>8 DEF Store!Put
<1>10. QED
  BY <1>2, <1>3, <1>4, <1>5, <1>6, <1>7, <1>9 DEF SpoolInv, StoreStep, Store!Next

\* A failed write leaves nothing, or a part that is not a report.
LEMMA WriteFailsKeeps ==
  ASSUME SpoolInv, EnqueueWriteFails
  PROVE  SpoolInv' /\ StoreStep
<1>1. /\ busy = "create" /\ busy' = "free"
      /\ UNCHANGED <<cursor, offered, kept, attempted, delivered, aged, passedOver>>
  BY DEF EnqueueWriteFails
<1>2. /\ files \in Seq(File) /\ Newest \in 1 .. Len(files) /\ Newest = Len(files)
      /\ Len(files) \in Nat /\ files # <<>> /\ Size[files[Newest].item] \in Nat \ {0}
  BY <1>1, CurrentFacts DEF Newest, SpoolInv, TypeOK
<1>3. /\ Known' /\ InProgress' /\ Bounded' /\ InDirectory' = InDirectory
      /\ files' \in Seq(File) /\ Len(files') \in Nat
  <2>1. CASE files' = Front(files)
    <3>1. Without(files, Newest, files')
      BY <1>2, <2>1, FrontWithout
    <3>2. ~Whole(files[Newest])
      BY <1>1, <1>2 DEF SpoolInv, InProgress, Whole
    <3>3. /\ Known' /\ InProgress' /\ Bounded'
          /\ files' \in Seq(File) /\ Len(files') = Len(files) - 1
          /\ InDirectory' = IF Whole(files[Newest]) THEN InDirectory \ {files[Newest].item}
                            ELSE InDirectory
      BY <1>1, <1>2, <3>1, FileRemoved
    <3>4. QED
      BY <1>2, <3>2, <3>3
  <2>2. CASE \E n \in 0 .. Size[files[Newest].item] - 1 :
               files' = [files EXCEPT ![Newest].size = n]
    <3>1. PICK n \in 0 .. Size[files[Newest].item] - 1 :
            files' = [files EXCEPT ![Newest].size = n]
      BY <2>2
    <3>2. n \in 0 .. Size[files[Newest].item] /\ n < Size[files[Newest].item]
      BY <1>2
    <3>3. /\ Known' /\ files' \in Seq(File) /\ Len(files') = Len(files)
          /\ BytesUsed' <= MaxBytes /\ BytesUsed' \in Nat
          /\ InDirectory' = InDirectory
      BY <1>1, <3>1, <3>2, FileWritten
    <3>4. Reserved' = 0 /\ InProgress'
      BY <1>1 DEF Reserved, InProgress
    <3>5. Bounded'
      BY <3>3, <3>4 DEF Bounded
    <3>6. QED
      BY <1>2, <3>3, <3>4, <3>5
  <2>3. QED
    BY <2>1, <2>2 DEF EnqueueWriteFails
<1>4. cursor' = 0 /\ CursorIdle'
  BY <1>1 DEF SpoolInv, CursorIdle
<1>5. TypeOK'
  <2>1. 0 \in 0 .. Len(files') + 1
    BY <1>3
  <2>2. QED
    BY <1>1, <1>3, <1>4, <2>1 DEF SpoolInv, TypeOK
<1>6. QED
  BY <1>1, <1>3, <1>4, <1>5, StoreVars DEF SpoolInv

\* Enqueue returns nil for a report that is in the store.
LEMMA ReturnsKeeps ==
  ASSUME SpoolInv, EnqueueReturns \/ EnqueueSyncFails
  PROVE  SpoolInv' /\ StoreStep
<1> DEFINE i == files[Newest].item
<1>1. /\ busy = "sync" /\ busy' = "free" /\ kept' \in {kept, kept \cup {i}}
      /\ UNCHANGED <<files, cursor, offered, attempted, delivered, aged, passedOver>>
  BY DEF EnqueueReturns, EnqueueSyncFails
<1>2. Known' /\ InProgress' /\ Bounded' /\ InDirectory' = InDirectory
  BY <1>1, DirectoryKept
<1>3. i \in Items /\ i \in offered /\ Newest \in DOMAIN files
  BY <1>1, CurrentFacts
<1>4. TypeOK' /\ CursorIdle'
  BY <1>1, <1>3 DEF SpoolInv, TypeOK, CursorIdle
<1>5. i \in InDirectory
  BY <1>1, <1>3 DEF InDirectory, SpoolInv, InProgress
<1>6. StoreStep
  <2>1. CASE kept' = kept
    BY <1>1, <1>2, <2>1, StoreVars
  <2>2. CASE kept' = kept \cup {i}
    <3>1. Store!Acknowledge(i)
      BY <1>1, <1>2, <1>5, <2>2 DEF Store!Acknowledge
    <3>2. QED
      BY <1>3, <3>1 DEF StoreStep, Store!Next
  <2>3. QED
    BY <1>1, <2>1, <2>2
<1>7. QED
  BY <1>2, <1>4, <1>6 DEF SpoolInv

\* Flush begins, or ends with the directory as it is.
LEMMA FlushEdgesKeep ==
  ASSUME SpoolInv, FlushStarts \/ FlushCannotRead \/ FlushEnds
  PROVE  SpoolInv' /\ StoreStep
<1>1. /\ \/ busy' = "flush" /\ cursor' = 1
         \/ busy' = "free" /\ cursor' = 0
      /\ UNCHANGED <<files, offered, kept, attempted, delivered, aged, passedOver>>
  BY DEF FlushStarts, FlushCannotRead, FlushEnds, Unlocks, FirstEntry
<1>2. Known' /\ InProgress' /\ Bounded' /\ InDirectory' = InDirectory
  BY <1>1, DirectoryKept
<1>3. cursor' \in 0 .. Len(files') + 1
  BY <1>1, CurrentFacts
<1>4. TypeOK' /\ CursorIdle'
  BY <1>1, <1>3 DEF SpoolInv, TypeOK, CursorIdle
<1>5. QED
  BY <1>1, <1>2, <1>4, StoreVars DEF SpoolInv

\* A file that Flush discards was no report, or expires.
LEMMA DiscardsKeeps ==
  ASSUME SpoolInv, FlushDiscards
  PROVE  SpoolInv' /\ StoreStep
<1>1. /\ busy = "flush" /\ busy' = "flush" /\ cursor \in DOMAIN files
      /\ UNCHANGED <<offered, kept, attempted, delivered, passedOver>>
  BY DEF FlushDiscards
<1>2. /\ cursor \in 1 .. Len(files) /\ files \in Seq(File) /\ Len(files) \in Nat
      /\ files[cursor].item \in Items /\ files[cursor].item \in offered
  BY <1>1, CurrentFacts
<1>3. CASE /\ files' = RemoveAt(files, cursor)
           /\ aged' = IF Whole(Current) THEN aged \cup {Current.item} ELSE aged
           /\ cursor' = AfterRemoval
  <2>1. Without(files, cursor, files')
    BY <1>2, <1>3, RemoveAtWithout
  <2>2. /\ Known' /\ InProgress' /\ Bounded'
        /\ files' \in Seq(File) /\ Len(files') = Len(files) - 1
        /\ InDirectory' = IF Whole(files[cursor]) THEN InDirectory \ {files[cursor].item}
                          ELSE InDirectory
    BY <1>1, <1>2, <2>1, FileRemoved
  <2>3. cursor' = cursor /\ cursor \in 0 .. Len(files') + 1
    BY <1>2, <1>3, <2>2 DEF AfterRemoval
  <2>4. aged' \subseteq offered
    BY <1>2, <1>3 DEF SpoolInv, TypeOK, Current
  <2>5. TypeOK' /\ CursorIdle'
    BY <1>1, <2>2, <2>3, <2>4 DEF SpoolInv, TypeOK, CursorIdle
  <2>6. StoreStep
    <3>1. CASE Whole(files[cursor])
      <4>1. files[cursor].item \in InDirectory
        BY <1>1, <1>2, <3>1 DEF InDirectory
      <4>2. Store!Expire(files[cursor].item)
        BY <1>1, <1>3, <2>2, <3>1, <4>1 DEF Store!Expire, Current
      <4>3. QED
        BY <1>2, <4>2 DEF StoreStep, Store!Next
    <3>2. CASE ~Whole(files[cursor])
      BY <1>1, <1>3, <2>2, <3>2, StoreVars DEF Current
    <3>3. QED
      BY <3>1, <3>2
  <2>7. QED
    BY <2>2, <2>5, <2>6 DEF SpoolInv
<1>4. CASE cursor' = cursor + 1 /\ UNCHANGED <<files, aged>>
  <2>1. Known' /\ InProgress' /\ Bounded' /\ InDirectory' = InDirectory
    BY <1>1, <1>4, DirectoryKept
  <2>2. cursor' \in 0 .. Len(files') + 1
    BY <1>2, <1>4
  <2>3. TypeOK' /\ CursorIdle'
    BY <1>1, <1>4, <2>2 DEF SpoolInv, TypeOK, CursorIdle
  <2>4. QED
    BY <1>1, <1>4, <2>1, <2>3, StoreVars DEF SpoolInv
<1>5. QED
  BY <1>3, <1>4 DEF FlushDiscards

\* What Flush sends is a report of the store.
LEMMA SendableStored ==
  ASSUME SpoolInv, Sendable
  PROVE  /\ busy = "flush" /\ cursor \in 1 .. Len(files) /\ Whole(Current)
         /\ Current.item \in Items /\ Current.item \in offered /\ Current.item \in InDirectory
<1>1. busy = "flush" /\ cursor \in DOMAIN files /\ Whole(Current)
  BY DEF Sendable, Unusable
<1>2. cursor \in 1 .. Len(files) /\ Current.item \in Items /\ Current.item \in offered
  BY <1>1, CurrentFacts DEF Current
<1>3. QED
  BY <1>1, <1>2 DEF InDirectory, Current

LEMMA DeliversKeeps ==
  ASSUME SpoolInv, FlushDelivers
  PROVE  SpoolInv' /\ StoreStep
<1> DEFINE i == Current.item
<1>1. /\ attempted' = attempted \cup {i} /\ delivered' = delivered \cup {i}
      /\ files' = RemoveAt(files, cursor) /\ cursor' = cursor
      /\ UNCHANGED <<busy, offered, kept, aged, passedOver>>
  BY DEF FlushDelivers, AfterRemoval
<1>2. /\ busy = "flush" /\ cursor \in 1 .. Len(files) /\ Whole(files[cursor])
      /\ i = files[cursor].item /\ i \in Items /\ i \in offered /\ i \in InDirectory
      /\ files \in Seq(File) /\ Len(files) \in Nat
  BY SendableStored, CurrentFacts DEF FlushDelivers, Current
<1>3. Without(files, cursor, files')
  BY <1>1, <1>2, RemoveAtWithout
<1>4. /\ Known' /\ InProgress' /\ Bounded'
      /\ files' \in Seq(File) /\ Len(files') = Len(files) - 1
      /\ InDirectory' = IF Whole(files[cursor]) THEN InDirectory \ {files[cursor].item}
                        ELSE InDirectory
  BY <1>1, <1>2, <1>3, FileRemoved
<1>5. cursor' \in 0 .. Len(files') + 1
  BY <1>1, <1>2, <1>4
<1>6. TypeOK' /\ CursorIdle'
  BY <1>1, <1>2, <1>4, <1>5 DEF SpoolInv, TypeOK, CursorIdle
<1>7. Store!Deliver(i)
  BY <1>1, <1>2, <1>4 DEF Store!Deliver
<1>8. QED
  BY <1>2, <1>4, <1>6, <1>7 DEF SpoolInv, StoreStep, Store!Next

\* Flush stops at a file that it could not send, or not remove.
LEMMA StopsKeeps ==
  ASSUME SpoolInv, FlushCannotRemove \/ FlushLosesCall \/ FlushRefused
  PROVE  SpoolInv' /\ StoreStep
<1> DEFINE i == Current.item
<1>1. /\ Sendable /\ busy' = "free" /\ cursor' = 0 /\ files' = files
      /\ attempted' = attempted \cup {i} /\ delivered' \in {delivered, delivered \cup {i}}
      /\ UNCHANGED <<offered, kept, aged>>
  BY DEF FlushCannotRemove, FlushLosesCall, FlushRefused, Unlocks, KeptUnsent
<1>2. i \in Items /\ i \in offered /\ i \in InDirectory
  BY <1>1, SendableStored
<1>3. Known' /\ InProgress' /\ Bounded' /\ InDirectory' = InDirectory
  BY <1>1, DirectoryKept
<1>4. passedOver' \subseteq offered
  <2>1. passedOver \subseteq offered /\ \A k \in 1 .. Len(files) : files[k].item \in offered
    BY CurrentFacts DEF SpoolInv, TypeOK
  <2>2. cursor \in 1 .. Len(files) /\ Len(files) \in Nat
    BY <1>1, SendableStored, CurrentFacts
  <2>3. \A k \in (cursor + 1) .. Len(files) : k \in 1 .. Len(files)
    BY <2>2
  <2>4. {files[k].item : k \in (cursor + 1) .. Len(files)} \subseteq offered
    BY <2>1, <2>3
  <2>5. passedOver' \in {passedOver,
                         passedOver \cup {files[k].item : k \in (cursor + 1) .. Len(files)}}
    BY DEF FlushCannotRemove, FlushLosesCall, FlushRefused
  <2>6. QED
    BY <2>1, <2>4, <2>5
<1>5. TypeOK' /\ CursorIdle'
  <2>1. 0 \in 0 .. Len(files') + 1
    BY <1>1, CurrentFacts
  <2>2. QED
    BY <1>1, <1>2, <1>4, <2>1 DEF SpoolInv, TypeOK, CursorIdle
<1>6. StoreStep
  <2>1. CASE delivered' = delivered
    BY <1>1, <1>3, <2>1, StoreVars
  <2>2. CASE delivered' = delivered \cup {i}
    <3>1. Store!Deliver(i)
      BY <1>1, <1>2, <1>3, <2>2 DEF Store!Deliver
    <3>2. QED
      BY <1>2, <3>1 DEF StoreStep, Store!Next
  <2>3. QED
    BY <1>1, <2>1, <2>2
<1>7. QED
  BY <1>3, <1>5, <1>6 DEF SpoolInv

\* Files grow older.
LEMMA TickKeeps ==
  ASSUME SpoolInv, Tick
  PROVE  SpoolInv' /\ StoreStep
<1> DEFINE older(f) == [f EXCEPT !.age = IF @ > MaxAge THEN @ ELSE @ + 1]
<1>1. /\ files' = [k \in DOMAIN files |-> older(files[k])]
      /\ UNCHANGED <<busy, cursor, offered, kept, attempted, delivered, aged, passedOver>>
  BY DEF Tick
<1>2. /\ files \in Seq(File) /\ Len(files) \in Nat /\ DOMAIN files = 1 .. Len(files)
      /\ \A k \in 1 .. Len(files) : files[k] \in File
  BY CurrentFacts
<1>3. \A f \in File : older(f) \in File /\ older(f).item = f.item /\ older(f).size = f.size
  BY SpoolAssumption DEF File
<1> HIDE DEF older
<1>4. /\ files' \in Seq(File) /\ Len(files') = Len(files) /\ DOMAIN files' = 1 .. Len(files)
      /\ \A k \in 1 .. Len(files) : /\ files'[k].item = files[k].item
                                    /\ files'[k].size = files[k].size
  <2>1. files' \in [1 .. Len(files) -> File]
    BY <1>1, <1>2, <1>3
  <2>2. files' \in Seq(File) /\ Len(files') = Len(files)
    BY <1>2, <2>1, SeqDef, LenProperties
  <2>3. QED
    BY <1>1, <1>2, <1>3, <2>1, <2>2
<1>5. Known'
  BY <1>1, <1>2, <1>4 DEF SpoolInv, Known, DistinctItems
<1>6. \A k \in 1 .. Len(files) : Whole(files'[k]) <=> Whole(files[k])
  BY <1>4 DEF Whole
<1>7. InDirectory' = InDirectory
  BY <1>2, <1>4, <1>6 DEF InDirectory
<1>8. files' = <<>> <=> files = <<>>
  BY <1>2, <1>4, EmptySeq
<1>9. BytesUsed' = BytesUsed
  <2>1. CASE files = <<>>
    BY <1>8, <2>1 DEF BytesUsed
  <2>2. CASE files # <<>>
    <3>1. Rewritten(files, files')
      BY <1>4 DEF Rewritten
    <3>2. Bytes(files') = Bytes(files) - files[Len(files)].size + files'[Len(files)].size
      BY <1>2, <2>2, <3>1, RewrittenBytes
    <3>3. Len(files) \in 1 .. Len(files)
      BY <1>2, <2>2, EmptySeq
    <3>4. files'[Len(files)].size = files[Len(files)].size /\ files[Len(files)].size \in Nat
          /\ Bytes(files) \in Nat
      BY <1>2, <1>4, <3>3, FileFields, BytesType
    <3>5. QED
      BY <3>2, <3>4 DEF BytesUsed
  <2>3. QED
    BY <2>1, <2>2
<1>10. Newest' = Newest /\ (busy \in {"create", "sync"} => Newest \in 1 .. Len(files))
  BY <1>4, CurrentFacts DEF Newest
<1>11. InProgress'
  BY <1>1, <1>4, <1>6, <1>10 DEF SpoolInv, InProgress
<1>12. Bounded'
  <2>1. Reserved' = Reserved
    BY <1>1, <1>4, <1>10 DEF Reserved
  <2>2. QED
    BY <1>9, <2>1 DEF SpoolInv, Bounded
<1>13. TypeOK' /\ CursorIdle'
  BY <1>1, <1>4, <1>8 DEF SpoolInv, TypeOK, CursorIdle
<1>14. QED
  BY <1>1, <1>5, <1>7, <1>11, <1>12, <1>13, StoreVars DEF SpoolInv

\* A crash leaves any part of the file in progress, its whole included.
LEMMA CrashKeeps ==
  ASSUME SpoolInv, Crash
  PROVE  SpoolInv' /\ StoreStep
<1>1. /\ busy' = "free" /\ cursor' = 0
      /\ UNCHANGED <<offered, kept, attempted, delivered, aged, passedOver>>
  BY DEF Crash, Unlocks
<1>2. InProgress' /\ CursorIdle' /\ Reserved' = 0
  BY <1>1 DEF InProgress, CursorIdle, Reserved
<1>3. CASE busy # "create"
  <2>1. files' = files
    BY <1>3 DEF Crash
  <2>2. Known' /\ Bounded' /\ InDirectory' = InDirectory
    BY <1>1, <2>1, DirectoryKept
  <2>3. TypeOK'
    <3>1. 0 \in 0 .. Len(files') + 1
      BY <2>1, CurrentFacts
    <3>2. QED
      BY <1>1, <2>1, <3>1 DEF SpoolInv, TypeOK
  <2>4. QED
    BY <1>1, <1>2, <2>2, <2>3, StoreVars DEF SpoolInv
<1>4. CASE busy = "create"
  <2> DEFINE i == files[Newest].item
  <2>1. PICK n \in 0 .. Size[i] : files' = [files EXCEPT ![Newest].size = n]
    BY <1>4 DEF Crash
  <2>2. Size[i] \in Nat \ {0} /\ i \in Items /\ Len(files) \in Nat
    BY <1>4, CurrentFacts
  <2>3. /\ Known' /\ files' \in Seq(File) /\ Len(files') = Len(files)
        /\ BytesUsed' <= MaxBytes /\ BytesUsed' \in Nat
        /\ n < Size[i] => InDirectory' = InDirectory
        /\ n = Size[i] => i \notin InDirectory /\ InDirectory' = InDirectory \cup {i}
    BY <1>1, <1>4, <2>1, FileWritten
  <2>4. Bounded'
    BY <1>2, <2>3 DEF Bounded
  <2>5. TypeOK'
    <3>1. 0 \in 0 .. Len(files') + 1
      BY <2>2, <2>3
    <3>2. QED
      BY <1>1, <2>3, <3>1 DEF SpoolInv, TypeOK
  <2>6. StoreStep
    <3>1. CASE n < Size[i]
      BY <1>1, <2>3, <3>1, StoreVars
    <3>2. CASE n = Size[i]
      <4>1. i \notin delivered \cup aged
        BY <1>4 DEF SpoolInv, InProgress
      <4>2. Store!Put(i)
        BY <1>1, <2>3, <3>2, <4>1 DEF Store!Put
      <4>3. QED
        BY <2>2, <4>2 DEF StoreStep, Store!Next
    <3>3. QED
      BY <2>2, <3>1, <3>2
  <2>7. QED
    BY <1>2, <2>3, <2>4, <2>5, <2>6 DEF SpoolInv
<1>5. QED
  BY <1>3, <1>4

-----------------------------------------------------------------------------
(* The results.                                                             *)

LEMMA InitSpool == Init => SpoolInv /\ Store!Init
<1> HAVE Init
<1>1. files = <<>> /\ Len(files) = 0 /\ DOMAIN files = {} /\ files \in Seq(File)
  BY DEF Init
<1>2. BytesUsed = 0
  <2>1. PICK f : IsSum(f, Sizes(files), Len(files)) /\ Bytes(files) = f[Len(files)]
    BY <1>1, BytesSum
  <2>2. QED
    BY <1>1, <2>1 DEF BytesUsed, IsSum, Adds
<1>3. Bounded
  BY <1>2, SpoolAssumption DEF Init, Bounded, Reserved
<1>4. TypeOK /\ CursorIdle /\ Known /\ InProgress
  BY <1>1 DEF Init, TypeOK, CursorIdle, Known, InProgress, DistinctItems
<1>5. InDirectory = {}
  BY <1>1 DEF InDirectory
<1>6. QED
  BY <1>3, <1>4, <1>5 DEF Init, SpoolInv, Store!Init

LEMMA NextSpool == SpoolInv /\ [Next]_vars => SpoolInv' /\ StoreStep
<1> SUFFICES ASSUME SpoolInv, [Next]_vars PROVE SpoolInv' /\ StoreStep
  OBVIOUS
<1>1. CASE \E i \in Items : EnqueueCreates(i) \/ EnqueueRefuses(i)
  BY <1>1, CreatesKeeps, RefusesKeeps
<1>2. CASE EnqueueWrites \/ EnqueueWriteFails \/ EnqueueReturns \/ EnqueueSyncFails
  BY <1>2, WritesKeeps, WriteFailsKeeps, ReturnsKeeps
<1>3. CASE FlushStarts \/ FlushStep
  BY <1>3, FlushEdgesKeep, DiscardsKeeps, DeliversKeeps, StopsKeeps DEF FlushStep
<1>4. CASE Tick \/ Crash
  BY <1>4, TickKeeps, CrashKeeps
<1>5. CASE UNCHANGED vars
  <2>1. UNCHANGED <<files, busy, cursor, offered, kept, attempted, delivered, aged, passedOver>>
    BY <1>5 DEF vars
  <2>2. SpoolInv'
    BY <2>1 DEF SpoolInv, TypeOK, CursorIdle, Known, InProgress, Bounded, Reserved, BytesUsed,
       Newest
  <2>3. InDirectory' = InDirectory
    BY <2>1 DEF InDirectory
  <2>4. QED
    BY <2>1, <2>2, <2>3, StoreVars
<1>6. QED
  BY <1>1, <1>2, <1>3, <1>4, <1>5 DEF Next, EnqueueStep

\* The inductive invariant: one file per report, a file in progress that is the
\* newest, empty until written, and whose bytes are accounted for.
THEOREM SpoolInvariance == Spec => []SpoolInv
BY InitSpool, NextSpool, PTL DEF Spec

\* Every variable keeps its type, and a file in progress is the newest one.
THEOREM TypeCorrect == Spec => []TypeOK
<1>1. SpoolInv => TypeOK
  BY DEF SpoolInv
<1>2. QED
  BY <1>1, SpoolInvariance, PTL

\* The directory never holds more than MaxBytes: healthUnlocked's sum, taken before
\* a file is created, is enough, because no other file appears before it is
\* written, and what failed and interrupted writes leave is never more.
THEOREM SpoolBounded == Spec => []ByteBound
<1>1. SpoolInv => ByteBound
  BY CurrentFacts DEF ByteBound
<1>2. QED
  BY <1>1, SpoolInvariance, PTL

\* The directory implements ReportStore: every step of Enqueue, of Flush and of a
\* crash is a step of the at-least-once store or leaves it alone.
THEOREM SpoolIsReportStore == Spec => ImplementsStore
<1>1. SpoolInv /\ [Next]_vars => [Store!Next]_(Store!vars)
  BY NextSpool DEF StoreStep
<1>2. Init => Store!Init
  BY InitSpool
<1>3. QED
  BY <1>1, <1>2, SpoolInvariance, PTL DEF Spec, ImplementsStore, Store!Spec
=============================================================================
