---------------------------- MODULE CodecsProofs ----------------------------
(***************************************************************************)
(* The properties of Codecs, for payloads of every size: matrices of any   *)
(* shape, signals and particles of any number, names of any length. Every  *)
(* encoder lays rows one after another and every decoder cuts them out by  *)
(* position, so that everything rests on two facts: what FlattenSeq lays   *)
(* down RowsOf takes up, and the other way round. At the end, the quoted   *)
(* texts of YamlScalars, whose escapes FlattenSeq lays down as well.       *)
(***************************************************************************)
EXTENDS Codecs, YamlScalars, Induction, SequenceTheorems

-----------------------------------------------------------------------------
(* Rows one after another *)

LEMMA OneMoreRow ==
    \A n \in Nat, w \in Nat : n * w \in Nat /\ (n + 1) * w = n * w + w /\ n * w <= (n + 1) * w
OBVIOUS

\* A row that comes before another ends before the other begins.
LEMMA RowsBefore ==
    \A l \in Nat, w \in Nat : \A r \in 1..l : (r - 1) * w \in Nat /\ (r - 1) * w + w <= l * w
<1> SUFFICES ASSUME NEW l \in Nat, NEW w \in Nat, NEW r \in 1..l
             PROVE  (r - 1) * w \in Nat /\ (r - 1) * w + w <= l * w
  OBVIOUS
<1>1. r - 1 \in Nat /\ r \in Nat /\ l - r \in Nat
  OBVIOUS
<1>2. (r - 1) * w \in Nat /\ (r - 1) * w + w = r * w
  BY <1>1
<1>3. (l - r) * w \in Nat /\ l * w = r * w + (l - r) * w /\ r * w \in Nat
  BY <1>1
<1> QED BY <1>1, <1>2, <1>3

\* The table behind FlattenSeq: what has been laid down after each row.
IsFlattening(f, s) == f[1] = s[1] /\ \A i \in 2..Len(s) : f[i] = f[i - 1] \o s[i]

LEMMA Flattening ==
    ASSUME NEW V, NEW s \in Seq(Seq(V)), s # <<>>
    PROVE  \E f \in [1..Len(s) -> Seq(V)] : IsFlattening(f, s) /\ FlattenSeq(s) = f[Len(s)]
<1> DEFINE n == Len(s)
           D == Seq(V)
           step == [p \in (1..(n - 1)) \X D |-> p[2] \o s[p[1] + 1]]
           Equation(f) == f = [i \in 1..n |-> IF i = 1 THEN s[i] ELSE f[i - 1] \o s[i]]
<1>1. n \in Nat /\ n > 0 /\ \A i \in 1..n : s[i] \in D
  BY EmptySeq, ElementOfSeq
<1>2. \A k \in 1..(n - 1) : \A x \in D : step[<<k, x>>] = x \o s[k + 1] /\ step[<<k, x>>] \in D
  <2> TAKE k \in 1..(n - 1)
  <2> TAKE x \in D
  <2>1. s[k + 1] \in D
    BY <1>1
  <2>2. x \o s[k + 1] \in D
    BY <2>1, ConcatProperties
  <2> QED BY <2>2
<1>3. PICK g \in [0..(n - 1) -> D] : IsTable(g, n - 1, s[1], step)
  <2>1. \A k \in 1..(n - 1) : \A x \in D : step[<<k, x>>] \in D
    BY <1>2
  <2>2. s[1] \in D /\ n - 1 \in Nat
    BY <1>1
  <2> HIDE DEF step, D, n, Equation
  <2> QED BY <2>1, <2>2, TableExists, Zenon
<1> DEFINE f == [i \in 1..n |-> g[i - 1]]
<1>4. f \in [1..n -> D]
  BY <1>1
<1>5. \A i \in 1..n : f[i] = IF i = 1 THEN s[i] ELSE f[i - 1] \o s[i]
  <2> HIDE DEF step, D
  <2> TAKE i \in 1..n
  <2>1. CASE i = 1
    <3>1. f[i] = g[0]
      BY <2>1
    <3> HIDE DEF f
    <3> QED BY <1>3, <2>1, <3>1 DEF IsTable
  <2>2. CASE i # 1
    <3>1. i - 1 \in 1..(n - 1) /\ i - 1 \in 1..n /\ i - 1 \in 0..(n - 1)
      BY <1>1, <2>2
    <3>2. f[i] = g[i - 1] /\ f[i - 1] = g[(i - 1) - 1]
      BY <3>1
    <3>3. g[i - 1] = step[<<i - 1, g[(i - 1) - 1]>>]
      BY <1>3, <3>1 DEF IsTable
    <3>4. g[(i - 1) - 1] \in D
      <4>1. (i - 1) - 1 \in 0..(n - 1)
        BY <1>1, <3>1
      <4> QED BY <4>1
    <3>5. step[<<i - 1, g[(i - 1) - 1]>>] = g[(i - 1) - 1] \o s[(i - 1) + 1]
      BY <1>2, <3>1, <3>4
    <3>6. (i - 1) + 1 = i
      BY <3>1
    <3> HIDE DEF f
    <3> QED BY <2>2, <3>2, <3>3, <3>5, <3>6
  <2> QED BY <2>1, <2>2
<1>6. Equation(f)
  <2>1. f = [i \in 1..n |-> f[i]]
    OBVIOUS
  <2> HIDE DEF f, step, D
  <2> QED BY <1>5, <2>1, Zenon
<1> HIDE DEF f, step, D
<1> DEFINE flatten == CHOOSE h : Equation(h)
<1>7. FlattenSeq(s) = flatten[n]
  BY <1>1 DEF FlattenSeq
<1>8. Equation(flatten)
  <2> HIDE DEF Equation
  <2> QED BY <1>6
<1> HIDE DEF flatten
<1>9. \A i \in 1..n : flatten[i] = IF i = 1 THEN s[i] ELSE flatten[i - 1] \o s[i]
  BY <1>8, Zenon
<1>10. flatten = [i \in 1..n |-> flatten[i]]
  BY <1>8, <1>9, Zenon
<1> HIDE DEF Equation
<1>11. \A i \in 1..n : flatten[i] \in D
  <2> DEFINE T == {k \in 0..(n - 1) : flatten[k + 1] \in D}
  <2>1. 0 \in T
    <3>1. 1 \in 1..n /\ 0 + 1 = 1 /\ 0 \in 0..(n - 1)
      BY <1>1
    <3>2. flatten[1] = s[1]
      BY <1>9, <3>1, Zenon
    <3> QED BY <1>1, <3>1, <3>2
  <2>2. ASSUME NEW k \in 0..((n - 1) - 1), k \in T PROVE k + 1 \in T
    <3>1. (k + 1) + 1 \in 1..n /\ (k + 1) + 1 # 1 /\ ((k + 1) + 1) - 1 = k + 1 /\ k + 1 \in 0..(n - 1)
      BY <1>1
    <3>2. flatten[(k + 1) + 1] = flatten[k + 1] \o s[(k + 1) + 1]
      BY <1>9, <3>1
    <3>3. flatten[k + 1] \in D /\ s[(k + 1) + 1] \in D
      BY <1>1, <2>2, <3>1
    <3>4. flatten[(k + 1) + 1] \in D
      BY <3>2, <3>3, ConcatProperties DEF D
    <3> QED BY <3>1, <3>4
  <2>3. \A k \in 0..(n - 1) : k \in T
    <3>1. n - 1 \in Nat
      BY <1>1
    <3> HIDE DEF T, n
    <3> QED BY <2>1, <2>2, <3>1, UpToInduction
  <2> TAKE i \in 1..n
  <2>4. i - 1 \in 0..(n - 1) /\ (i - 1) + 1 = i
    BY <1>1
  <2> QED BY <2>3, <2>4
<1>12. flatten \in [1..n -> D] /\ IsFlattening(flatten, s)
  <2>1. flatten \in [1..n -> D]
    BY <1>11, <1>10, Zenon
  <2>2. flatten[1] = s[1]
    <3>1. 1 \in 1..n
      BY <1>1
    <3> QED BY <1>9, <3>1, Zenon
  <2>3. ASSUME NEW i \in 2..n PROVE flatten[i] = flatten[i - 1] \o s[i]
    <3>1. i \in 1..n /\ i # 1
      BY <1>1
    <3> QED BY <1>9, <3>1
  <2> QED BY <2>1, <2>2, <2>3 DEF IsFlattening
<1> QED BY <1>7, <1>12 DEF D

LEMMA FlattenOne == ASSUME NEW V, NEW s \in Seq(Seq(V)), Len(s) = 1 PROVE FlattenSeq(s) = s[1]
<1>1. s # <<>>
  <2>1. Len(<<>>) = 0
    BY EmptySeq
  <2> SUFFICES ASSUME s = <<>> PROVE FALSE
    OBVIOUS
  <2>2. Len(s) = 0
    BY <2>1, Zenon
  <2> QED BY <2>2
<1>2. PICK f \in [1..Len(s) -> Seq(V)] : IsFlattening(f, s) /\ FlattenSeq(s) = f[Len(s)]
  BY <1>1, Flattening
<1> QED BY <1>2 DEF IsFlattening

\* A matrix laid down row after row: each entry is where its row and column put it.
LEMMA FlattenMatrix ==
    ASSUME NEW V, NEW M \in Seq(Seq(V)), NEW w \in Nat, \A r \in 1..Len(M) : Len(M[r]) = w
    PROVE  /\ FlattenSeq(M) \in Seq(V)
           /\ Len(FlattenSeq(M)) = Len(M) * w
           /\ \A r \in 1..Len(M), j \in 1..w : FlattenSeq(M)[(r - 1) * w + j] = M[r][j]
<1>0. Len(M) \in Nat /\ \A r \in 1..Len(M) : M[r] \in Seq(V)
  BY LenProperties, ElementOfSeq
<1>1. CASE M = <<>>
  <2>1. FlattenSeq(M) = M /\ Len(M) = 0
    BY <1>1 DEF FlattenSeq
  <2>2. <<>> \in Seq(V) /\ Len(M) * w = 0
    BY <2>1, EmptySeq
  <2>3. \A r \in 1..Len(M) : FALSE
    BY <2>1
  <2>4. FlattenSeq(M) \in Seq(V) /\ Len(FlattenSeq(M)) = Len(M) * w
    BY <1>1, <2>1, <2>2
  <2> QED BY <2>3, <2>4
<1>2. CASE M # <<>>
  <2>1. PICK f \in [1..Len(M) -> Seq(V)] : IsFlattening(f, M) /\ FlattenSeq(M) = f[Len(M)]
    BY <1>2, Flattening
  <2>2. Len(M) # 0
    BY <1>0, <1>2, EmptySeq
  <2> DEFINE n == Len(M)
             Laid(k) == /\ Len(f[k]) = k * w
                        /\ \A r \in 1..k, j \in 1..w : f[k][(r - 1) * w + j] = M[r][j]
             T == {k \in 0..(n - 1) : Laid(k + 1)}
  <2>3. 0 \in T
    <3>1. f[1] = M[1] /\ 1 \in 1..n /\ 0 + 1 = 1 /\ 0 \in 0..(n - 1)
      BY <1>0, <2>1, <2>2 DEF IsFlattening
    <3>2. Len(f[1]) = 1 * w
      BY <3>1
    <3>3. ASSUME NEW r \in 1..1, NEW j \in 1..w PROVE f[1][(r - 1) * w + j] = M[r][j]
      <4>1. r = 1 /\ (r - 1) * w = 0 /\ (r - 1) * w + j = j
        OBVIOUS
      <4> QED BY <3>1, <4>1
    <3> QED BY <3>1, <3>2, <3>3
  <2>4. ASSUME NEW k \in 0..((n - 1) - 1), k \in T PROVE k + 1 \in T
    <3> DEFINE l == k + 1
    <3>1. /\ l \in Nat /\ l \in 1..n /\ l + 1 \in 2..n /\ l + 1 \in 1..n
          /\ (l + 1) - 1 = l /\ l \in 0..(n - 1)
      BY <1>0, <2>2
    <3>2. Laid(l)
      BY <2>4
    <3> HIDE DEF l
    <3>3. f[l + 1] = f[l] \o M[l + 1] /\ f[l] \in Seq(V) /\ M[l + 1] \in Seq(V)
      <4>1. f[l + 1] = f[(l + 1) - 1] \o M[l + 1]
        BY <2>1, <3>1 DEF IsFlattening
      <4> QED BY <1>0, <3>1, <4>1
    <3>4. /\ Len(f[l]) = l * w /\ Len(M[l + 1]) = w
          /\ l * w \in Nat /\ (l + 1) * w = l * w + w
      BY <3>1, <3>2, OneMoreRow
    <3> DEFINE lw == l * w
    <3>5. /\ Len(f[l + 1]) = lw + w
          /\ \A i \in 1..(lw + w) : f[l + 1][i] = IF i <= lw THEN f[l][i] ELSE M[l + 1][i - lw]
      <4> DEFINE a == f[l]
                 b == M[l + 1]
      <4>1. Len(a) = lw /\ Len(b) = w /\ a \in Seq(V) /\ b \in Seq(V) /\ f[l + 1] = a \o b
        BY <3>3, <3>4
      <4> HIDE DEF lw, a, b
      <4>2. /\ Len(a \o b) = lw + w
            /\ \A i \in 1..(lw + w) : (a \o b)[i] = IF i <= lw THEN a[i] ELSE b[i - lw]
        BY <4>1, ConcatProperties
      <4> QED BY <4>1, <4>2 DEF a, b
    <3>6. lw \in Nat /\ lw = l * w /\ Len(f[l + 1]) = (l + 1) * w
      BY <3>4, <3>5
    <3> HIDE DEF lw
    <3>7. ASSUME NEW r \in 1..(l + 1), NEW j \in 1..w
          PROVE  f[l + 1][(r - 1) * w + j] = M[r][j]
      <4>1. CASE r = l + 1
        <5>1. (r - 1) * w = lw
          BY <3>1, <3>6, <4>1
        <5>2. lw + j \in 1..(lw + w) /\ ~(lw + j <= lw) /\ (lw + j) - lw = j
          BY <3>6
        <5> QED BY <3>5, <4>1, <5>1, <5>2
      <4>2. CASE r # l + 1
        <5>1. r \in 1..l
          BY <3>1, <4>2
        <5>2. (r - 1) * w \in Nat /\ (r - 1) * w + w <= lw
          BY <3>1, <3>6, <5>1, RowsBefore
        <5> DEFINE rw == (r - 1) * w
        <5>3. rw \in Nat /\ rw + w <= lw
          BY <5>2
        <5> HIDE DEF rw
        <5>4. rw + j \in 1..(lw + w) /\ rw + j <= lw
          BY <3>6, <5>3
        <5>5. f[l + 1][rw + j] = f[l][rw + j]
          BY <3>5, <5>4
        <5> QED BY <3>2, <5>1, <5>5 DEF rw
      <4> QED BY <4>1, <4>2
    <3>8. Laid(l + 1)
      BY <3>6, <3>7
    <3> QED BY <3>1, <3>8 DEF l
  <2>5. n - 1 \in T
    <3>1. n - 1 \in Nat /\ n - 1 \in 0..(n - 1)
      BY <1>0, <2>2
    <3> HIDE DEF T, n
    <3>2. \A k \in 0..(n - 1) : k \in T
      BY <2>3, <2>4, <3>1, UpToInduction
    <3> QED BY <3>1, <3>2
  <2>6. Laid(n) /\ f[n] \in Seq(V)
    <3>1. (n - 1) + 1 = n /\ n \in 1..n
      BY <1>0, <2>2
    <3> QED BY <2>5, <3>1
  <2> QED BY <2>1, <2>6
<1> QED BY <1>1, <1>2

-----------------------------------------------------------------------------
(* Rows cut out *)

AreRows(C, V, words, start, count, width) ==
    /\ C \in Seq(Seq(V)) /\ Len(C) = count
    /\ \A r \in 1..count :
          /\ C[r] \in Seq(V) /\ Len(C[r]) = width
          /\ \A j \in 1..width : C[r][j] = words[start + (r - 1) * width + j]

LEMMA RowsOfMatrix ==
    ASSUME NEW V, NEW words \in Seq(V), NEW start \in Nat, NEW count \in Nat, NEW width \in Nat,
           start + count * width <= Len(words)
    PROVE  AreRows(RowsOf(words, start, count, width), V, words, start, count, width)
<1> DEFINE M == RowsOf(words, start, count, width)
<1>1. ASSUME NEW r \in 1..count
      PROVE  /\ M[r] \in Seq(V) /\ Len(M[r]) = width
             /\ \A j \in 1..width : M[r][j] = words[start + (r - 1) * width + j]
  <2>1. (r - 1) * width \in Nat /\ (r - 1) * width + width <= count * width
    BY RowsBefore
  <2>2. r * width = (r - 1) * width + width /\ count * width \in Nat
    <3>1. r - 1 \in Nat /\ (r - 1) + 1 = r
      OBVIOUS
    <3> QED BY <3>1, OneMoreRow
  <2> DEFINE before == (r - 1) * width
             all == count * width
  <2>3. M[r] = SubSeq(words, start + before + 1, start + (before + width))
    BY <2>2 DEF RowsOf
  <2>4. before \in Nat /\ before + width <= all /\ all \in Nat /\ start + all <= Len(words)
    BY <2>1, <2>2
  <2> HIDE DEF before, all, M
  <2>5. Len(words) \in Nat
    BY LenProperties
  <2>6. \A i \in (start + before + 1)..(start + (before + width)) : words[i] \in V
    <3> TAKE i \in (start + before + 1)..(start + (before + width))
    <3>1. i \in 1..Len(words)
      BY <2>4, <2>5
    <3> QED BY <3>1, ElementOfSeq
  <2> DEFINE m == start + before + 1
             l == start + (before + width)
  <2>7. m \in Int /\ l \in Int /\ l - m + 1 = width /\ (m <= l <=> width # 0)
    BY <2>4
  <2>8. \A j \in 1..width : m + j - 1 = start + before + j
    BY <2>4
  <2>9. M[r] = SubSeq(words, m, l) /\ \A i \in m..l : words[i] \in V
    BY <2>3, <2>6
  <2> HIDE DEF m, l
  <2>10. /\ SubSeq(words, m, l) \in Seq(V)
         /\ Len(SubSeq(words, m, l)) = IF m <= l THEN l - m + 1 ELSE 0
         /\ \A i \in 1..(l - m + 1) : SubSeq(words, m, l)[i] = words[m + i - 1]
    BY <2>7, <2>9, SubSeqProperties
  <2> QED BY <2>7, <2>8, <2>9, <2>10 DEF before
<1>2. M \in Seq(Seq(V)) /\ Len(M) = count
  <2>1. M = [r \in 1..count |-> M[r]] /\ DOMAIN M = 1..count
    BY DEF RowsOf
  <2> HIDE DEF M
  <2>2. M \in [1..count -> Seq(V)]
    BY <1>1, <2>1
  <2> QED BY <2>1, <2>2
<1> HIDE DEF M
<1>3. AreRows(M, V, words, start, count, width)
  BY <1>1, <1>2 DEF AreRows
<1> QED BY <1>3 DEF M

\* Laid down again, rows are the words they were cut out of.
LEMMA FlattenRowsOf ==
    ASSUME NEW V, NEW words \in Seq(V), NEW start \in Nat, NEW count \in Nat, NEW width \in Nat,
           start + count * width <= Len(words)
    PROVE  FlattenSeq(RowsOf(words, start, count, width))
             = SubSeq(words, start + 1, start + count * width)
<1> DEFINE M == RowsOf(words, start, count, width)
           Upto(k) == SubSeq(words, start + 1, start + k * width)
<1>1. M \in Seq(Seq(V)) /\ Len(M) = count
  BY RowsOfMatrix DEF AreRows
<1>2. CASE count = 0
  <2>1. M = <<>>
    BY <1>1, <1>2, EmptySeq
  <2>2. FlattenSeq(M) = M
    BY <2>1 DEF FlattenSeq
  <2>3. start + count * width = start /\ start < start + 1
    BY <1>2
  <2>4. SubSeq(words, start + 1, start + count * width) = <<>>
    BY <2>3, SubSeqEmpty
  <2> QED BY <2>1, <2>2, <2>4
<1>3. CASE count # 0
  <2>1. M # <<>>
    BY <1>1, <1>3, EmptySeq
  <2>2. PICK f \in [1..Len(M) -> Seq(V)] : IsFlattening(f, M) /\ FlattenSeq(M) = f[Len(M)]
    BY <1>1, <2>1, Flattening
  <2>3. f[1] = M[1] /\ FlattenSeq(M) = f[count] /\ \A i \in 2..count : f[i] = f[i - 1] \o M[i]
    BY <1>1, <2>2 DEF IsFlattening
  <2>4. \A r \in 1..count : M[r] = SubSeq(words, start + (r - 1) * width + 1, start + r * width)
    BY DEF RowsOf
  <2> HIDE DEF M
  <2> DEFINE T == {k \in 0..(count - 1) : f[k + 1] = Upto(k + 1)}
  <2>5. 0 \in T
    <3>1. 1 \in 1..count /\ 0 \in 0..(count - 1) /\ (1 - 1) * width = 0 /\ start + 0 = start
      BY <1>3
    <3> QED BY <2>3, <2>4, <3>1
  <2>6. ASSUME NEW k \in 0..((count - 1) - 1), k \in T PROVE k + 1 \in T
    <3> DEFINE c == k + 1
    <3>1. c \in Nat /\ c + 1 \in 1..count /\ c + 1 \in 2..count /\ (c + 1) - 1 = c
          /\ c \in 0..(count - 1)
      BY <1>3
    <3>2. f[c] = Upto(c)
      BY <2>6
    <3> HIDE DEF c
    <3>3. f[c + 1] = f[c] \o M[c + 1]
      BY <2>3, <3>1
    <3> DEFINE before == c * width
               all == count * width
    <3>4. before \in Nat /\ (c + 1) * width = before + width /\ all \in Nat
      BY <3>1, OneMoreRow
    <3>5. before + width <= all
      <4>1. ((c + 1) - 1) * width + width <= count * width
        BY <3>1, RowsBefore
      <4> QED BY <3>1, <4>1
    <3>6. M[c + 1] = SubSeq(words, start + before + 1, start + (before + width))
      <4>1. M[c + 1] = SubSeq(words, start + ((c + 1) - 1) * width + 1, start + (c + 1) * width)
        BY <2>4, <3>1
      <4> QED BY <3>1, <3>4, <4>1
    <3>7. f[c] = SubSeq(words, start + 1, start + before)
      BY <3>2
    <3>8. start + all <= Len(words) /\ Len(words) \in Nat
      BY LenProperties
    <3> HIDE DEF before, all, T
    <3>9. /\ start + 1 \in 1..(Len(words) + 1)
          /\ start + before \in ((start + 1) - 1)..Len(words)
          /\ start + (before + width) \in (start + before)..Len(words)
      BY <3>4, <3>5, <3>8
    <3>10. SubSeq(words, start + 1, start + before)
             \o SubSeq(words, start + before + 1, start + (before + width))
           = SubSeq(words, start + 1, start + (before + width))
      BY <3>9, ConcatAdjacentSubSeq
    <3>11. f[c + 1] = SubSeq(words, start + 1, start + (before + width))
      BY <3>3, <3>6, <3>7, <3>10
    <3>12. f[c + 1] = Upto(c + 1)
      BY <3>4, <3>11
    <3> QED BY <3>1, <3>12 DEF c, T
  <2>7. count - 1 \in T
    <3>1. count - 1 \in Nat /\ count - 1 \in 0..(count - 1)
      BY <1>3
    <3> HIDE DEF T
    <3>2. \A k \in 0..(count - 1) : k \in T
      BY <2>5, <2>6, <3>1, UpToInduction
    <3> QED BY <3>1, <3>2
  <2>8. (count - 1) + 1 = count
    OBVIOUS
  <2>9. f[count] = Upto(count)
    BY <2>7, <2>8
  <2> QED BY <2>3, <2>9 DEF M
<1> QED BY <1>2, <1>3

\* Cut out of the words where they were laid down, rows are the same rows.
LEMMA RowsOfFlatten ==
    ASSUME NEW V, NEW M \in Seq(Seq(V)), NEW w \in Nat, \A r \in 1..Len(M) : Len(M[r]) = w,
           NEW words \in Seq(V), NEW start \in Nat, start + Len(M) * w <= Len(words),
           \A p \in 1..(Len(M) * w) : words[start + p] = FlattenSeq(M)[p]
    PROVE  RowsOf(words, start, Len(M), w) = M
<1> DEFINE C == RowsOf(words, start, Len(M), w)
<1>0. Len(M) \in Nat /\ \A r \in 1..Len(M) : M[r] \in Seq(V)
  BY LenProperties, ElementOfSeq
<1>1. /\ C \in Seq(Seq(V)) /\ Len(C) = Len(M)
      /\ \A r \in 1..Len(M) :
            /\ C[r] \in Seq(V) /\ Len(C[r]) = w
            /\ \A j \in 1..w : C[r][j] = words[start + (r - 1) * w + j]
  <2>1. AreRows(C, V, words, start, Len(M), w)
    BY <1>0, RowsOfMatrix
  <2> QED BY <2>1 DEF AreRows
<1> HIDE DEF C
<1>2. ASSUME NEW r \in 1..Len(M) PROVE C[r] = M[r]
  <2>1. ASSUME NEW j \in 1..w PROVE C[r][j] = M[r][j]
    <3>1. (r - 1) * w \in Nat /\ (r - 1) * w + w <= Len(M) * w
      BY <1>0, RowsBefore
    <3>2. FlattenSeq(M)[(r - 1) * w + j] = M[r][j]
      BY FlattenMatrix
    <3> DEFINE before == (r - 1) * w
               all == Len(M) * w
    <3>3. before \in Nat /\ before + w <= all /\ all \in Nat
      BY <1>0, <3>1
    <3>4. \A p \in 1..all : words[start + p] = FlattenSeq(M)[p]
      OBVIOUS
    <3>5. C[r][j] = words[start + before + j] /\ FlattenSeq(M)[before + j] = M[r][j]
      BY <1>1, <3>2
    <3> HIDE DEF before, all
    <3>6. before + j \in 1..all /\ start + before + j = start + (before + j)
      BY <3>3
    <3> QED BY <3>4, <3>5, <3>6
  <2>2. C[r] \in Seq(V) /\ M[r] \in Seq(V) /\ Len(C[r]) = Len(M[r]) /\ Len(C[r]) = w
    BY <1>0, <1>1
  <2> QED BY <2>1, <2>2, SeqEqual
<1>3. C = M
  BY <1>1, <1>2, SeqEqual
<1> QED BY <1>3 DEF C

-----------------------------------------------------------------------------
(* What has been received is what was sent, passed through once. *)

Transmitted(s) ==
    LET halves == Encode(s.operation, s.message)
    IN  IF Raises(halves[1]) \/ Raises(halves[2]) THEN ValueError
        ELSE Decode(s.operation, halves[1], halves[2])

Performed(s) ==
    LET q == Decode(s.operation, s.configuration, s.input)
    IN  IF Accepted(q) THEN [meaning |-> q, content |-> Content(s, q)] ELSE Refused

CodecInv ==
    /\ IsExchange(sent)
    /\ \/ received = Nothing
       \/ sent.kind = "call" /\ received = Transmitted(sent)
       \/ sent.kind = "specification" /\ received = Performed(sent)
       \/ sent.kind = "requests" /\ received = <<identities(sent.a), identities(sent.b)>>

LEMMA CodecInvHolds == CodecSpec => []CodecInv
<1>1. CodecInit => CodecInv
  BY ExchangesAssumption DEF CodecInit, CodecInv
<1>2. CodecInv /\ [CodecNext]_<<sent, received>> => CodecInv'
  <2> SUFFICES ASSUME CodecInv, [CodecNext]_<<sent, received>> PROVE CodecInv'
    OBVIOUS
  <2>1. CASE Transmit
    BY <2>1 DEF Transmit, CodecInv, Transmitted
  <2>2. CASE Execute
    BY <2>2 DEF Execute, CodecInv, Performed
  <2>3. CASE Commit
    BY <2>3 DEF Commit, CodecInv
  <2>4. CASE UNCHANGED <<sent, received>>
    BY <2>4 DEF CodecInv
  <2> QED BY <2>1, <2>2, <2>3, <2>4 DEF CodecNext
<1> QED BY <1>1, <1>2, PTL DEF CodecSpec

-----------------------------------------------------------------------------
(* A payload that is nothing but rows *)

LEMMA Cut ==
    ASSUME NEW V, NEW words \in Seq(V), NEW count \in Nat, NEW width \in Nat,
           Len(words) = count * width
    PROVE  /\ AreRows(RowsOf(words, 0, count, width), V, words, 0, count, width)
           /\ FlattenSeq(RowsOf(words, 0, count, width)) = words
<1> DEFINE start == 0
<1>1. start \in Nat /\ start + count * width <= Len(words)
  BY LenProperties
<1>2. start + 1 = 1 /\ start + count * width = Len(words)
  BY LenProperties
<1> HIDE DEF start
<1>3. FlattenSeq(RowsOf(words, start, count, width))
        = SubSeq(words, start + 1, start + count * width)
  BY <1>1, FlattenRowsOf
<1>4. AreRows(RowsOf(words, start, count, width), V, words, start, count, width)
  BY <1>1, RowsOfMatrix
<1>5. SubSeq(words, 1, Len(words)) = words
  BY SubSeqFull
<1> QED BY <1>2, <1>3, <1>4, <1>5 DEF start

LEMMA Uncut ==
    ASSUME NEW V, NEW M \in Seq(Seq(V)), NEW w \in Nat, \A r \in 1..Len(M) : Len(M[r]) = w
    PROVE  RowsOf(FlattenSeq(M), 0, Len(M), w) = M
<1> DEFINE words == FlattenSeq(M)
<1>1. words \in Seq(V) /\ Len(words) = Len(M) * w
  BY FlattenMatrix
<1>2. Len(M) \in Nat /\ Len(M) * w \in Nat
  BY <1>1, LenProperties
<1>3. 0 + Len(M) * w <= Len(words) /\ \A p \in 1..(Len(M) * w) : words[0 + p] = words[p]
  BY <1>1, <1>2
<1> QED BY <1>1, <1>3, RowsOfFlatten

LEMMA Tuples ==
    ASSUME NEW V, NEW k \in Nat, NEW s \in Seq([1..k -> V])
    PROVE  s \in Seq(Seq(V)) /\ \A r \in 1..Len(s) : Len(s[r]) = k
<1>1. \A t \in [1..k -> V] : t \in Seq(V) /\ Len(t) = k
  <2> TAKE t \in [1..k -> V]
  <2>1. t \in Seq(V)
    BY SeqDef
  <2> QED BY <2>1, LenProperties
<1>2. s \in Seq(Seq(V))
  BY <1>1, SeqMonotonic
<1>3. \A r \in 1..Len(s) : s[r] \in [1..k -> V]
  BY ElementOfSeq
<1> QED BY <1>1, <1>2, <1>3

LEMMA Reversed ==
    ASSUME NEW S, NEW s \in Seq(S)
    PROVE  /\ Reverse(s) \in Seq(S) /\ Len(Reverse(s)) = Len(s)
           /\ \A k \in 1..Len(s) : Reverse(s)[k] = s[Len(s) - k + 1]
<1> DEFINE n == Len(s)
<1>1. n \in Nat /\ \A k \in 1..n : (n - k) + 1 \in 1..n
  BY LenProperties
<1>2. \A k \in 1..n : s[(n - k) + 1] \in S
  BY <1>1, ElementOfSeq
<1>3. Reverse(s) = [k \in 1..n |-> s[(n - k) + 1]]
  BY DEF Reverse
<1> HIDE DEF n
<1>4. Reverse(s) \in [1..n -> S]
  BY <1>2, <1>3
<1>5. Reverse(s) \in Seq(S) /\ Len(Reverse(s)) = n
  BY <1>1, <1>4, SeqDef, LenProperties
<1> QED BY <1>3, <1>5 DEF n

-----------------------------------------------------------------------------
(* The transform: what is read back of a run *)

LEMMA FourierMeaning ==
    ASSUME NEW c, NEW i, IsPayload(c, 4), IsPayload(i, 0), Accepted(DecodeFourier(c, i))
    PROVE  /\ Len(c.words) = 1 /\ c.words[1] \in EightBytes
           /\ Len(i.words) \in Nat /\ Len(i.words) \div 2 \in Nat \ {0}
           /\ Len(i.words) = (Len(i.words) \div 2) * 2 /\ Finite(i.words)
           /\ c.ints[1] \in {1, -1} /\ c.ints[2] \in {0, 1, 2} /\ c.ints[3] \in {0, 1}
           /\ c.ints[4] = 0 /\ SpacingIsCanonical(c.ints[3], c.words[1])
           /\ DecodeFourier(c, i)
                = [direction |-> c.ints[1], normalization |-> c.ints[2],
                   spacing |-> IF c.ints[3] = 1 THEN c.words[1] ELSE "None",
                   signal |-> RowsOf(i.words, 0, Len(i.words) \div 2, 2)]
<1>1. /\ Len(c.words) = 1 /\ Len(i.words) % 2 = 0 /\ i.words # <<>> /\ Finite(i.words)
      /\ c.ints[1] \in {1, -1} /\ c.ints[2] \in {0, 1, 2} /\ c.ints[4] = 0
      /\ SpacingIsCanonical(c.ints[3], c.words[1])
  BY DEF DecodeFourier, Accepted, Refused
<1>2. c.words \in Seq(EightBytes) /\ i.words \in Seq(EightBytes)
  BY DEF IsPayload
<1>3. Len(i.words) \in Nat \ {0}
  BY <1>1, <1>2, EmptySeq
<1>4. c.words[1] \in EightBytes
  BY <1>1, <1>2, ElementOfSeq
<1>5. Len(i.words) = (Len(i.words) \div 2) * 2 /\ Len(i.words) \div 2 \in Nat \ {0}
  <2> DEFINE n == Len(i.words)
  <2>1. n \in Nat \ {0} /\ n % 2 = 0
    BY <1>1, <1>3
  <2> HIDE DEF n
  <2>2. n = (n \div 2) * 2 /\ n \div 2 \in Nat \ {0}
    BY <2>1
  <2> QED BY <2>2 DEF n
<1>6. c.ints[3] \in {0, 1}
  BY <1>1 DEF SpacingIsCanonical
<1> QED BY <1>1, <1>3, <1>4, <1>5, <1>6 DEF DecodeFourier

LEMMA SpectrumReadsBack ==
    ASSUME NEW V, NEW n \in Nat, NEW M \in Seq(Seq(V)), Len(M) = n, \A r \in 1..n : Len(M[r]) = 2
    PROVE  decode_complex_spectrum(encode_spectrum(Reverse(M))) = Reverse(M)
<1> DEFINE R == Reverse(M)
<1>1. R \in Seq(Seq(V)) /\ Len(R) = n /\ \A r \in 1..n : R[r] = M[n - r + 1]
  BY Reversed
<1> HIDE DEF R
<1>2. \A r \in 1..Len(R) : Len(R[r]) = 2
  <2>1. SUFFICES ASSUME NEW r \in 1..n
                 PROVE  Len(R[r]) = 2
    BY <1>1
  <2>2. n - r + 1 \in 1..n
    BY <2>1
  <2>3. R[r] = M[n - r + 1]
    BY <1>1, <2>1
  <2> DEFINE k == n - r + 1
  <2>4. k \in 1..n /\ R[r] = M[k]
    BY <2>2, <2>3
  <2> HIDE DEF k
  <2>5. Len(M[k]) = 2
    BY <2>4
  <2> QED BY <2>4, <2>5
<1>3. Len(FlattenSeq(R)) = Len(R) * 2
  <2> DEFINE w == 2
  <2>1. w \in Nat /\ \A r \in 1..Len(R) : Len(R[r]) = w
    BY <1>2
  <2> HIDE DEF w
  <2>2. Len(FlattenSeq(R)) = Len(R) * w
    BY <1>1, <2>1, FlattenMatrix
  <2> QED BY <2>2 DEF w
<1>4. Len(FlattenSeq(R)) \div 2 = Len(R)
  BY <1>1, <1>3
<1>5. RowsOf(FlattenSeq(R), 0, Len(R), 2) = R
  BY <1>1, <1>2, Uncut
<1> QED BY <1>4, <1>5 DEF R, decode_complex_spectrum, encode_spectrum

LEMMA ExecutedRan ==
    ASSUME CodecInv, Executed
    PROVE  /\ sent.operation \in DOMAIN Headers /\ IsSpecification(sent)
           /\ Accepted(Decode(sent.operation, sent.configuration, sent.input))
           /\ received.meaning = Decode(sent.operation, sent.configuration, sent.input)
           /\ received.content = Content(sent, received.meaning)
<1>1. sent.kind = "specification" /\ received = Performed(sent) /\ Accepted(received)
  BY DEF CodecInv, Executed
<1>2. sent.operation \in DOMAIN Headers /\ IsSpecification(sent)
  BY <1>1 DEF CodecInv, IsExchange
<1>3. Accepted(Decode(sent.operation, sent.configuration, sent.input))
  BY <1>1 DEF Performed, Accepted, Refused
<1> QED BY <1>1, <1>2, <1>3 DEF Performed

\* What the adapter decodes a second time is what the transform was given.
LEMMA FourierRun ==
    ASSUME CodecInv, Executed, sent.operation = "fourier_transform_1d"
    PROVE  LET c == sent.configuration
               q == received.meaning
               said == split_descriptor(scl_program_descriptor(
                           sent.version_line, sent.backend, sent.operation_symbols))
           IN  /\ Len(q.signal) \in Nat \ {0} /\ q.signal \in Seq(Seq(EightBytes))
               /\ \A r \in 1..Len(q.signal) : Len(q.signal[r]) = 2
               /\ c.ints[1] \in {1, -1} /\ c.ints[2] \in {0, 1, 2}
               /\ q.spacing # "None" => Less("0", q.spacing)
               /\ received.content =
                    [spectrum |-> [k \in DOMAIN Reverse(q.signal) |-> [x \in 1..2 |->
                                      absent_uncertainty(Reverse(q.signal)[k][x], "amplitude")]],
                     method_block |->
                        fourier_method_block_for(c.ints[1], c.ints[2], Len(q.signal), q.spacing,
                                                 said.backend, said.version_line),
                     frequency_hz |-> frequency_bins(Len(q.signal), q.spacing)]
<1> DEFINE c == sent.configuration
           i == sent.input
           q == received.meaning
           n == Len(i.words) \div 2
           said == split_descriptor(scl_program_descriptor(
                       sent.version_line, sent.backend, sent.operation_symbols))
<1>1. /\ IsPayload(c, 4) /\ IsPayload(i, 0) /\ Accepted(DecodeFourier(c, i))
      /\ q = DecodeFourier(c, i) /\ received.content = Content(sent, q)
  BY ExecutedRan DEF IsSpecification, Headers, Decode
<1>2. /\ Len(i.words) \in Nat /\ n \in Nat \ {0} /\ Len(i.words) = n * 2
      /\ c.ints[1] \in {1, -1} /\ c.ints[2] \in {0, 1, 2} /\ c.ints[3] \in {0, 1}
      /\ SpacingIsCanonical(c.ints[3], c.words[1])
      /\ q = [direction |-> c.ints[1], normalization |-> c.ints[2],
              spacing |-> IF c.ints[3] = 1 THEN c.words[1] ELSE "None",
              signal |-> RowsOf(i.words, 0, n, 2)]
  <2>1. IsPayload(c, 4) /\ IsPayload(i, 0) /\ Accepted(DecodeFourier(c, i))
        /\ q = DecodeFourier(c, i)
    BY <1>1
  <2> HIDE DEF c, i, q
  <2> QED BY <2>1, FourierMeaning
<1>3. q.signal = RowsOf(i.words, 0, n, 2) /\ q.spacing = decode_fourier_spacing(c)
  BY <1>2 DEF decode_fourier_spacing
<1>4. q.spacing # "None" => Less("0", q.spacing)
  BY <1>2 DEF SpacingIsCanonical
<1>5. i.words \in Seq(EightBytes)
  BY <1>1 DEF IsPayload
<1> HIDE DEF n
<1>6. AreRows(q.signal, EightBytes, i.words, 0, n, 2)
  BY <1>2, <1>3, <1>5, Cut
<1>7. /\ q.signal \in Seq(Seq(EightBytes)) /\ Len(q.signal) = n
      /\ \A r \in 1..n : Len(q.signal[r]) = 2
  BY <1>6 DEF AreRows
<1> DEFINE output == encode_spectrum(Reverse(q.signal))
           program == scl_program_descriptor(
                          sent.version_line, sent.backend, sent.operation_symbols)
<1>8. Content(sent, q) = interpret_fourier_result(program, c, output)
  BY DEF Content, Output
<1>9. decode_complex_spectrum(output) = Reverse(q.signal) /\ Len(Reverse(q.signal)) = n
  BY <1>2, <1>7, SpectrumReadsBack, Reversed
<1> HIDE DEF output, program
<1>10. interpret_fourier_result(program, c, output) =
        [spectrum |-> [k \in DOMAIN Reverse(q.signal) |-> [x \in 1..2 |->
                          absent_uncertainty(Reverse(q.signal)[k][x], "amplitude")]],
         method_block |->
            fourier_method_block_for(c.ints[1], c.ints[2], Len(Reverse(q.signal)), q.spacing,
                                     split_descriptor(program).backend,
                                     split_descriptor(program).version_line),
         frequency_hz |-> frequency_bins(Len(Reverse(q.signal)), q.spacing)]
  BY <1>3, <1>9 DEF interpret_fourier_result
<1> QED BY <1>1, <1>2, <1>4, <1>7, <1>8, <1>9, <1>10 DEF program

\* Every bin of a spectrum of any length is the least of the frequencies that alias to it
\* (op_fourier.cpp, fourier.py frequency_bins).
THEOREM BinsAreFrequenciesHolds == CodecSpec => []BinsAreFrequencies
<1>1. CodecInv => BinsAreFrequencies
  <2> DEFINE f == received.content.frequency_hz
             n == Len(received.meaning.signal)
             spacing == received.meaning.spacing
  <2> SUFFICES ASSUME CodecInv, Executed, sent.operation = "fourier_transform_1d",
                      spacing # "None", NEW k \in DOMAIN f
               PROVE  (f[k] - k) % n = 0 /\ -n < 2 * f[k] /\ 2 * f[k] <= n
    BY DEF BinsAreFrequencies
  <2>1. n \in Nat \ {0} /\ Less("0", spacing) /\ f = frequency_bins(n, spacing)
    BY FourierRun
  <2> HIDE DEF f, n, spacing
  <2>2. f = [j \in 0..(n - 1) |-> IF j * 2 <= n THEN j ELSE j - n]
    BY <2>1 DEF frequency_bins
  <2>3. k \in 0..(n - 1)
    BY <2>2
  <2>4. f[k] = IF k * 2 <= n THEN k ELSE k - n
    BY <2>2, <2>3
  <2>5. 0 % n = 0 /\ (-n) % n = 0
    BY <2>1
  <2>6. CASE k * 2 <= n
    <3>1. f[k] = k /\ f[k] - k = 0 /\ -n < 2 * k /\ 2 * k <= n
      BY <2>1, <2>3, <2>4, <2>6
    <3> QED BY <2>5, <3>1
  <2>7. CASE ~(k * 2 <= n)
    <3>1. f[k] = k - n /\ f[k] - k = -n /\ -n < 2 * (k - n) /\ 2 * (k - n) <= n
      BY <2>1, <2>3, <2>4, <2>7
    <3> QED BY <2>5, <3>1
  <2> QED BY <2>6, <2>7
<1> QED BY <1>1, CodecInvHolds, PTL

-----------------------------------------------------------------------------
(* One sequence after another. The prover sees through \o to the functions; *)
(* under a name of its own a sequence can be taken as a whole.              *)

Cat(s, t) == s \o t

\* What c is when it is one sequence and then another.
IsCat(c, V, s, t) ==
    /\ c \in Seq(V) /\ Len(c) = Len(s) + Len(t)
    /\ Len(s) \in Nat /\ Len(t) \in Nat
    /\ \A i \in 1..Len(s) : c[i] = s[i]
    /\ \A i \in 1..Len(t) : c[Len(s) + i] = t[i]

LEMMA CatProperties ==
    ASSUME NEW V, NEW s \in Seq(V), NEW t \in Seq(V)
    PROVE  IsCat(Cat(s, t), V, s, t)
<1>1. Len(s) \in Nat /\ Len(t) \in Nat
  BY LenProperties
<1>2. s \o t \in Seq(V) /\ Len(s \o t) = Len(s) + Len(t)
  BY ConcatProperties
<1>3. \A i \in 1..Len(s) : (s \o t)[i] = s[i]
  <2> TAKE i \in 1..Len(s)
  <2>1. i \in 1..(Len(s) + Len(t)) /\ i <= Len(s)
    BY <1>1
  <2> QED BY <2>1, ConcatProperties
<1>4. \A i \in 1..Len(t) : (s \o t)[Len(s) + i] = t[i]
  <2> TAKE i \in 1..Len(t)
  <2> DEFINE k == Len(s) + i
  <2>1. k \in 1..(Len(s) + Len(t)) /\ ~(k <= Len(s)) /\ k - Len(s) = i
    BY <1>1
  <2> HIDE DEF k
  <2>2. (s \o t)[k] = t[k - Len(s)]
    BY <2>1, ConcatProperties
  <2> QED BY <2>1, <2>2 DEF k
<1> QED BY <1>1, <1>2, <1>3, <1>4 DEF Cat, IsCat

LEMMA CatIsSeq ==
    ASSUME NEW V, NEW s \in Seq(V), NEW t \in Seq(V) PROVE Cat(s, t) \in Seq(V)
BY CatProperties DEF IsCat

LEMMA CatAssociative ==
    ASSUME NEW V, NEW s \in Seq(V), NEW t \in Seq(V), NEW u \in Seq(V)
    PROVE  Cat(Cat(s, t), u) = Cat(s, Cat(t, u))
BY ConcatAssociative DEF Cat

LEMMA CatCancels ==
    ASSUME NEW V, NEW s \in Seq(V), NEW t \in Seq(V), NEW u \in Seq(V), Cat(s, t) = Cat(s, u)
    PROVE  t = u
BY ConcatSimplifications DEF Cat

-----------------------------------------------------------------------------
(* Identities: what is framed by its length can be read again. *)

Field(a) == Cat(U64(Len(a)), a)

LEMMA U64IsBytes ==
    ASSUME NEW n \in Nat PROVE U64(n) \in Seq(Nat) /\ Len(U64(n)) = 8 /\ U64(n)[1] = n
BY DEF U64

LEMMA FieldIsBytes ==
    ASSUME NEW a \in Seq(Nat)
    PROVE  /\ Len(a) \in Nat /\ Field(a) \in Seq(Nat) /\ Len(Field(a)) = 8 + Len(a)
           /\ Field(a)[1] = Len(a) /\ \A j \in 1..Len(a) : Field(a)[8 + j] = a[j]
<1> DEFINE u == U64(Len(a))
<1>1. Len(a) \in Nat
  BY LenProperties
<1>2. u \in Seq(Nat) /\ Len(u) = 8 /\ u[1] = Len(a)
  BY <1>1, U64IsBytes
<1> HIDE DEF u
<1>3. /\ Cat(u, a) \in Seq(Nat) /\ Len(Cat(u, a)) = 8 + Len(a)
      /\ \A i \in 1..8 : Cat(u, a)[i] = u[i]
      /\ \A i \in 1..Len(a) : Cat(u, a)[8 + i] = a[i]
  <2>1. IsCat(Cat(u, a), Nat, u, a)
    BY <1>2, CatProperties
  <2> QED BY <1>2, <2>1 DEF IsCat
<1>4. 1 \in 1..8
  OBVIOUS
<1> QED BY <1>1, <1>2, <1>3, <1>4 DEF Field, u

LEMMA Framed ==
    ASSUME NEW a \in Seq(Nat), NEW b \in Seq(Nat), NEW s \in Seq(Nat), NEW t \in Seq(Nat),
           Cat(Field(a), s) = Cat(Field(b), t)
    PROVE  a = b /\ s = t
<1> DEFINE x == Field(a)
           y == Field(b)
<1>1. /\ Len(a) \in Nat /\ x \in Seq(Nat) /\ Len(x) = 8 + Len(a) /\ x[1] = Len(a)
      /\ \A j \in 1..Len(a) : x[8 + j] = a[j]
      /\ Len(b) \in Nat /\ y \in Seq(Nat) /\ Len(y) = 8 + Len(b) /\ y[1] = Len(b)
      /\ \A j \in 1..Len(b) : y[8 + j] = b[j]
  BY FieldIsBytes
<1>2. Cat(x, s) = Cat(y, t)
  OBVIOUS
<1> HIDE DEF x, y
<1>3. /\ \A i \in 1..Len(x) : Cat(x, s)[i] = x[i]
      /\ \A i \in 1..Len(y) : Cat(y, t)[i] = y[i]
  <2>1. IsCat(Cat(x, s), Nat, x, s)
    BY <1>1, CatProperties
  <2>2. IsCat(Cat(y, t), Nat, y, t)
    BY <1>1, CatProperties
  <2> QED BY <2>1, <2>2 DEF IsCat
<1>4. Len(a) = Len(b)
  <2>1. 1 \in 1..Len(x) /\ 1 \in 1..Len(y)
    BY <1>1
  <2>2. x[1] = y[1]
    BY <1>2, <1>3, <2>1
  <2> QED BY <1>1, <2>2
<1>5. \A j \in 1..Len(a) : a[j] = b[j]
  <2> TAKE j \in 1..Len(a)
  <2>1. 8 + j \in 1..Len(x) /\ 8 + j \in 1..Len(y) /\ j \in 1..Len(b)
    <3>1. Len(a) \in Nat /\ Len(x) = 8 + Len(a) /\ Len(y) = 8 + Len(a)
      BY <1>1, <1>4
    <3> QED BY <1>4, <3>1
  <2>2. x[8 + j] = y[8 + j]
    BY <1>2, <1>3, <2>1
  <2> QED BY <1>1, <2>1, <2>2
<1>6. a = b
  BY <1>4, <1>5, SeqEqual
<1>7. x = y
  BY <1>6 DEF x, y
<1>8. s = t
  BY <1>1, <1>2, <1>7, CatCancels
<1> QED BY <1>6, <1>8

Whole(tag, n, s) == Cat(Cat(Field(tag), U64(n)), s)

\* The tag, the number of the fields and what comes after it can be told apart.
LEMMA CanonicalSplits ==
    ASSUME NEW tag \in Seq(Nat), NEW tag2 \in Seq(Nat),
           NEW m \in Nat, NEW n \in Nat, NEW s \in Seq(Nat), NEW t \in Seq(Nat),
           Whole(tag, m, s) = Whole(tag2, n, t)
    PROVE  tag = tag2 /\ m = n /\ s = t
<1> DEFINE u == U64(m)
           v == U64(n)
<1>1. /\ u \in Seq(Nat) /\ Len(u) = 8 /\ u[1] = m
      /\ v \in Seq(Nat) /\ Len(v) = 8 /\ v[1] = n
  BY U64IsBytes
<1>2. Field(tag) \in Seq(Nat) /\ Field(tag2) \in Seq(Nat)
  BY FieldIsBytes
<1>3. Cat(Cat(Field(tag), u), s) = Cat(Cat(Field(tag2), v), t) /\ (m = n => u = v)
  BY DEF Whole
<1> HIDE DEF u, v
<1>4. /\ Cat(Cat(Field(tag), u), s) = Cat(Field(tag), Cat(u, s))
      /\ Cat(Cat(Field(tag2), v), t) = Cat(Field(tag2), Cat(v, t))
  BY <1>1, <1>2, CatAssociative
<1>5. Cat(u, s) \in Seq(Nat) /\ Cat(v, t) \in Seq(Nat) /\ Cat(u, s)[1] = m /\ Cat(v, t)[1] = n
  <2>1. IsCat(Cat(u, s), Nat, u, s)
    BY <1>1, CatProperties
  <2>2. IsCat(Cat(v, t), Nat, v, t)
    BY <1>1, CatProperties
  <2> QED BY <1>1, <2>1, <2>2 DEF IsCat
<1>6. tag = tag2 /\ Cat(u, s) = Cat(v, t)
  <2> DEFINE us == Cat(u, s)
             vt == Cat(v, t)
  <2>1. us \in Seq(Nat) /\ vt \in Seq(Nat) /\ Cat(Field(tag), us) = Cat(Field(tag2), vt)
    BY <1>3, <1>4, <1>5
  <2> HIDE DEF us, vt
  <2>2. tag = tag2 /\ us = vt
    BY <2>1, Framed
  <2> QED BY <2>2 DEF us, vt
<1>7. m = n
  BY <1>1, <1>5, <1>6
<1>8. s = t
  BY <1>1, <1>3, <1>6, <1>7, CatCancels
<1> QED BY <1>6, <1>7, <1>8

LEMMA NotEmpty == ASSUME NEW V, NEW s \in Seq(V), Len(s) # 0 PROVE s # <<>>
<1>1. Len(<<>>) = 0
  BY EmptySeq
<1> SUFFICES ASSUME s = <<>> PROVE FALSE
  OBVIOUS
<1>2. Len(s) = 0
  BY <1>1, Zenon
<1> QED BY <1>2

LEMMA FlattenTwo ==
    ASSUME NEW V, NEW s \in Seq(Seq(V)), Len(s) = 2 PROVE FlattenSeq(s) = Cat(s[1], s[2])
<1>1. s # <<>>
  <2>1. s \in Seq(Seq(V)) /\ Len(s) # 0
    OBVIOUS
  <2> QED BY <2>1, NotEmpty, Zenon
<1>2. PICK f \in [1..Len(s) -> Seq(V)] : IsFlattening(f, s) /\ FlattenSeq(s) = f[Len(s)]
  BY <1>1, Flattening
<1>3. f[1] = s[1] /\ FlattenSeq(s) = f[2] /\ \A i \in 2..2 : f[i] = Cat(f[i - 1], s[i])
  BY <1>2, Zenon DEF IsFlattening, Cat
<1>4. 2 \in 2..2 /\ 2 - 1 = 1
  OBVIOUS
<1> QED BY <1>3, <1>4

LEMMA FlattenFour ==
    ASSUME NEW V, NEW s \in Seq(Seq(V)), Len(s) = 4
    PROVE  FlattenSeq(s) = Cat(Cat(Cat(s[1], s[2]), s[3]), s[4])
<1>1. s # <<>>
  <2>1. s \in Seq(Seq(V)) /\ Len(s) # 0
    OBVIOUS
  <2> QED BY <2>1, NotEmpty, Zenon
<1>2. PICK f \in [1..Len(s) -> Seq(V)] : IsFlattening(f, s) /\ FlattenSeq(s) = f[Len(s)]
  BY <1>1, Flattening
<1>3. f[1] = s[1] /\ FlattenSeq(s) = f[4] /\ \A i \in 2..4 : f[i] = Cat(f[i - 1], s[i])
  BY <1>2, Zenon DEF IsFlattening, Cat
<1>4. /\ 2 \in 2..4 /\ 3 \in 2..4 /\ 4 \in 2..4
      /\ 2 - 1 = 1 /\ 3 - 1 = 2 /\ 4 - 1 = 3
  OBVIOUS
<1> QED BY <1>3, <1>4

\* What follows the number of the fields.
Fields(fields) == FlattenSeq([k \in DOMAIN fields |-> Field(fields[k])])

LEMMA OneField ==
    ASSUME NEW a \in Seq(Nat)
    PROVE  Fields(<<a>>) = Field(a) /\ Fields(<<a>>) \in Seq(Nat)
<1> DEFINE framed == [k \in DOMAIN <<a>> |-> Field(<<a>>[k])]
<1>1. Field(a) \in Seq(Nat)
  BY FieldIsBytes
<1>2. framed = <<Field(a)>>
  OBVIOUS
<1>3. framed \in Seq(Seq(Nat)) /\ Len(framed) = 1 /\ framed[1] = Field(a)
  BY <1>1, <1>2
<1> HIDE DEF framed
<1>4. FlattenSeq(framed) = Field(a)
  BY <1>3, FlattenOne
<1> QED BY <1>1, <1>4 DEF framed, Fields

LEMMA TwoFields ==
    ASSUME NEW a \in Seq(Nat), NEW b \in Seq(Nat)
    PROVE  /\ Fields(<<a, b>>) = Cat(Field(a), Field(b))
           /\ Fields(<<a, b>>) \in Seq(Nat)
<1> DEFINE framed == [k \in DOMAIN <<a, b>> |-> Field(<<a, b>>[k])]
<1>1. Field(a) \in Seq(Nat) /\ Field(b) \in Seq(Nat)
  BY FieldIsBytes
<1>2. framed = <<Field(a), Field(b)>>
  OBVIOUS
<1>3. /\ framed \in Seq(Seq(Nat)) /\ Len(framed) = 2
      /\ framed[1] = Field(a) /\ framed[2] = Field(b)
  BY <1>1, <1>2
<1> HIDE DEF framed
<1>4. FlattenSeq(framed) = Cat(Field(a), Field(b))
  BY <1>3, FlattenTwo
<1>5. Cat(Field(a), Field(b)) \in Seq(Nat)
  BY <1>1, CatProperties DEF IsCat
<1> QED BY <1>4, <1>5 DEF framed, Fields

LEMMA FourFields ==
    ASSUME NEW a \in Seq(Nat), NEW b \in Seq(Nat), NEW c \in Seq(Nat), NEW d \in Seq(Nat)
    PROVE  /\ Fields(<<a, b, c, d>>) = Cat(Field(a), Cat(Field(b), Cat(Field(c), Field(d))))
           /\ Fields(<<a, b, c, d>>) \in Seq(Nat)
<1> DEFINE framed == [k \in DOMAIN <<a, b, c, d>> |-> Field(<<a, b, c, d>>[k])]
<1>1. /\ Field(a) \in Seq(Nat) /\ Field(b) \in Seq(Nat)
      /\ Field(c) \in Seq(Nat) /\ Field(d) \in Seq(Nat)
  BY FieldIsBytes
<1>2. framed = <<Field(a), Field(b), Field(c), Field(d)>>
  OBVIOUS
<1>3. /\ framed \in Seq(Seq(Nat)) /\ Len(framed) = 4 /\ framed[1] = Field(a)
      /\ framed[2] = Field(b) /\ framed[3] = Field(c) /\ framed[4] = Field(d)
  BY <1>1, <1>2
<1> HIDE DEF framed
<1>4. FlattenSeq(framed) = Cat(Cat(Cat(Field(a), Field(b)), Field(c)), Field(d))
  BY <1>3, FlattenFour
<1>5. /\ Cat(Field(a), Field(b)) \in Seq(Nat) /\ Cat(Field(c), Field(d)) \in Seq(Nat)
      /\ Cat(Field(b), Cat(Field(c), Field(d))) \in Seq(Nat)
      /\ Cat(Field(a), Cat(Field(b), Cat(Field(c), Field(d)))) \in Seq(Nat)
  BY <1>1, CatIsSeq
<1>6. Cat(Cat(Cat(Field(a), Field(b)), Field(c)), Field(d))
        = Cat(Cat(Field(a), Field(b)), Cat(Field(c), Field(d)))
  BY <1>1, <1>5, CatAssociative
<1>7. Cat(Cat(Field(a), Field(b)), Cat(Field(c), Field(d)))
        = Cat(Field(a), Cat(Field(b), Cat(Field(c), Field(d))))
  BY <1>1, <1>5, CatAssociative
<1> QED BY <1>4, <1>5, <1>6, <1>7 DEF framed, Fields

TagOf == <<OPERATION_TAG, PARAMETERS_TAG, INPUT_TAG, REQUEST_TAG>>

FieldsOf(r) ==
    <<<<r.operation, r.backend>>, <<r.parameters>>, <<r.input_payload>>,
      <<r.operation, r.backend, r.parameters, r.input_payload>>>>

LEMMA TagsDiffer ==
    /\ \A k \in 1..4 : TagOf[k] \in Seq(Nat)
    /\ \A k, l \in 1..4 : TagOf[k] = TagOf[l] => k = l
<1>1. /\ TagOf[1] = <<1, 2, 9>> /\ TagOf[2] = <<1, 3, 9>> /\ TagOf[3] = <<1, 4, 9>>
      /\ TagOf[4] = <<1, 9>>
  BY DEF TagOf, OPERATION_TAG, PARAMETERS_TAG, INPUT_TAG, REQUEST_TAG
<1>2. \A k \in 1..4 : TagOf[k] \in Seq(Nat)
  <2>1. <<1, 2, 9>> \in Seq(Nat) /\ <<1, 3, 9>> \in Seq(Nat)
    OBVIOUS
  <2>2. <<1, 4, 9>> \in Seq(Nat) /\ <<1, 9>> \in Seq(Nat)
    OBVIOUS
  <2> HIDE <1>1
  <2>3. /\ TagOf[1] \in Seq(Nat) /\ TagOf[2] \in Seq(Nat)
        /\ TagOf[3] \in Seq(Nat) /\ TagOf[4] \in Seq(Nat)
    BY <1>1, <2>1, <2>2
  <2>4. \A k \in 1..4 : k = 1 \/ k = 2 \/ k = 3 \/ k = 4
    OBVIOUS
  <2> QED BY <2>3, <2>4
<1>3. TagOf[1][2] = 2 /\ TagOf[2][2] = 3 /\ TagOf[3][2] = 4 /\ TagOf[4][2] = 9
  BY <1>1
<1>4. \A k \in 1..4 : k = 1 \/ k = 2 \/ k = 3 \/ k = 4
  OBVIOUS
<1>5. \A k, l \in 1..4 : TagOf[k] = TagOf[l] => k = l
  BY <1>3, <1>4
<1> QED BY <1>2, <1>5

LEMMA IdentityBytes ==
    ASSUME NEW r, IsRequest(r), NEW k \in 1..4
    PROVE  /\ identities(r)[k].sha256
                = Cat(Cat(Field(TagOf[k]), U64(Len(FieldsOf(r)[k]))), Fields(FieldsOf(r)[k]))
           /\ Len(FieldsOf(r)[k]) \in Nat /\ Fields(FieldsOf(r)[k]) \in Seq(Nat)
<1>1. /\ r.operation \in Seq(Nat) /\ r.backend \in Seq(Nat)
      /\ r.parameters \in Seq(Nat) /\ r.input_payload \in Seq(Nat)
  BY DEF IsRequest
<1>2. identities(r)[k].sha256 = canonical(TagOf[k], FieldsOf(r)[k])
  <2>1. CASE k = 1
    BY <2>1 DEF identities, operation_identity, commit_hex, TagOf, FieldsOf
  <2>2. CASE k = 2
    BY <2>2 DEF identities, parameters_identity, commit_hex, TagOf, FieldsOf
  <2>3. CASE k = 3
    BY <2>3 DEF identities, input_identity, commit_hex, TagOf, FieldsOf
  <2>4. CASE k = 4
    BY <2>4 DEF identities, identity, commit_hex, TagOf, FieldsOf
  <2> QED BY <2>1, <2>2, <2>3, <2>4
<1>3. canonical(TagOf[k], FieldsOf(r)[k])
        = Cat(Cat(Field(TagOf[k]), U64(Len(FieldsOf(r)[k]))), Fields(FieldsOf(r)[k]))
  BY Zenon DEF canonical, Cat, Field, Fields
<1>4. Len(FieldsOf(r)[k]) \in Nat
  <2>1. /\ k = 1 => Len(FieldsOf(r)[k]) = 2
        /\ k \in {2, 3} => Len(FieldsOf(r)[k]) = 1
        /\ k = 4 => Len(FieldsOf(r)[k]) = 4
    BY DEF FieldsOf
  <2> QED BY <2>1
<1>5. Fields(FieldsOf(r)[k]) \in Seq(Nat)
  <2>1. CASE k = 1
    BY <1>1, <2>1, TwoFields DEF FieldsOf
  <2>2. CASE k = 2
    BY <1>1, <2>2, OneField DEF FieldsOf
  <2>3. CASE k = 3
    BY <1>1, <2>3, OneField DEF FieldsOf
  <2>4. CASE k = 4
    BY <1>1, <2>4, FourFields DEF FieldsOf
  <2> QED BY <2>1, <2>2, <2>3, <2>4
<1> QED BY <1>2, <1>3, <1>4, <1>5

\* Fields that are laid down alike are alike.
LEMMA SameFields ==
    ASSUME NEW r, IsRequest(r), NEW r2, IsRequest(r2), NEW k \in 1..4,
           Fields(FieldsOf(r)[k]) = Fields(FieldsOf(r2)[k])
    PROVE  /\ k \in {1, 4} => r.operation = r2.operation /\ r.backend = r2.backend
           /\ k \in {2, 4} => r.parameters = r2.parameters
           /\ k \in {3, 4} => r.input_payload = r2.input_payload
<1> DEFINE a == r.operation
           b == r.backend
           c == r.parameters
           d == r.input_payload
           a2 == r2.operation
           b2 == r2.backend
           c2 == r2.parameters
           d2 == r2.input_payload
<1>1. /\ a \in Seq(Nat) /\ b \in Seq(Nat) /\ c \in Seq(Nat) /\ d \in Seq(Nat)
      /\ a2 \in Seq(Nat) /\ b2 \in Seq(Nat) /\ c2 \in Seq(Nat) /\ d2 \in Seq(Nat)
  BY DEF IsRequest
<1>2. /\ k = 1 => Fields(<<a, b>>) = Fields(<<a2, b2>>)
      /\ k = 2 => Fields(<<c>>) = Fields(<<c2>>)
      /\ k = 3 => Fields(<<d>>) = Fields(<<d2>>)
      /\ k = 4 => Fields(<<a, b, c, d>>) = Fields(<<a2, b2, c2, d2>>)
  BY DEF FieldsOf
<1> HIDE DEF a, b, c, d, a2, b2, c2, d2
<1>3. Cat(<<>>, <<>>) = <<>> /\ <<>> \in Seq(Nat)
  BY EmptySeq, ConcatEmptySeq DEF Cat
<1>4. \A e \in Seq(Nat) : Cat(e, <<>>) = e /\ Field(e) \in Seq(Nat)
  BY ConcatEmptySeq, FieldIsBytes DEF Cat
<1>5. ASSUME NEW e \in Seq(Nat), NEW e2 \in Seq(Nat), Field(e) = Field(e2) PROVE e = e2
  <2>1. Cat(Field(e), <<>>) = Cat(Field(e2), <<>>)
    BY <1>5
  <2> QED BY <1>3, <2>1, Framed
<1>6. CASE k = 1
  <2>1. Cat(Field(a), Field(b)) = Cat(Field(a2), Field(b2))
    BY <1>1, <1>2, <1>6, TwoFields
  <2>2. a = a2 /\ Field(b) = Field(b2)
    BY <1>1, <1>4, <2>1, Framed
  <2> QED BY <1>1, <1>5, <1>6, <2>2 DEF a, b, a2, b2
<1>7. CASE k = 2
  <2>1. Field(c) = Field(c2)
    BY <1>1, <1>2, <1>7, OneField
  <2> QED BY <1>1, <1>5, <1>7, <2>1 DEF c, c2
<1>8. CASE k = 3
  <2>1. Field(d) = Field(d2)
    BY <1>1, <1>2, <1>8, OneField
  <2> QED BY <1>1, <1>5, <1>8, <2>1 DEF d, d2
<1>9. CASE k = 4
  <2> DEFINE x == Cat(Field(c), Field(d))
             x2 == Cat(Field(c2), Field(d2))
             y == Cat(Field(b), x)
             y2 == Cat(Field(b2), x2)
  <2>1. /\ x \in Seq(Nat) /\ x2 \in Seq(Nat) /\ y \in Seq(Nat) /\ y2 \in Seq(Nat)
        /\ x = Cat(Field(c), Field(d)) /\ x2 = Cat(Field(c2), Field(d2))
        /\ y = Cat(Field(b), x) /\ y2 = Cat(Field(b2), x2)
    BY <1>1, <1>4, CatIsSeq
  <2>2. Cat(Field(a), y) = Cat(Field(a2), y2)
    BY <1>1, <1>2, <1>9, FourFields
  <2> HIDE DEF x, x2, y, y2
  <2>3. a = a2 /\ y = y2
    BY <1>1, <2>1, <2>2, Framed
  <2>4. Cat(Field(b), x) = Cat(Field(b2), x2)
    BY <2>1, <2>3
  <2>5. b = b2 /\ x = x2
    BY <1>1, <2>1, <2>4, Framed
  <2>6. Cat(Field(c), Field(d)) = Cat(Field(c2), Field(d2))
    BY <2>1, <2>5
  <2>7. c = c2 /\ Field(d) = Field(d2)
    BY <1>1, <1>4, <2>6, Framed
  <2> QED BY <1>1, <1>5, <1>9, <2>3, <2>5, <2>7 DEF a, b, c, d, a2, b2, c2, d2
<1> QED BY <1>6, <1>7, <1>8, <1>9

\* No two requests that differ in what an identity is of share it, and no two kinds of
\* identity coincide, whatever bytes the names and the payloads are made of
\* (identity.py canonical, commit_hex).
THEOREM IdentityIsOfOneRequestHolds == CodecSpec => []IdentityIsOfOneRequest
<1>1. CodecInv => IdentityIsOfOneRequest
  <2> SUFFICES ASSUME CodecInv, received # Nothing, sent.kind = "requests",
                      NEW k \in 1..4, NEW l \in 1..4, received[1][k] = received[2][l]
               PROVE  /\ k = l
                      /\ k \in {1, 4} => sent.a.operation = sent.b.operation
                                         /\ sent.a.backend = sent.b.backend
                      /\ k \in {2, 4} => sent.a.parameters = sent.b.parameters
                      /\ k \in {3, 4} => sent.a.input_payload = sent.b.input_payload
    BY DEF IdentityIsOfOneRequest
  <2>1. IsRequest(sent.a) /\ IsRequest(sent.b) /\ received = <<identities(sent.a), identities(sent.b)>>
    BY DEF CodecInv, IsExchange
  <2> DEFINE a == sent.a
             b == sent.b
             F(r, j) == Fields(FieldsOf(r)[j])
             N(r, j) == Len(FieldsOf(r)[j])
  <2>2. identities(a)[k].sha256 = identities(b)[l].sha256
    BY <2>1
  <2>3. /\ identities(a)[k].sha256 = Cat(Cat(Field(TagOf[k]), U64(N(a, k))), F(a, k))
        /\ N(a, k) \in Nat /\ F(a, k) \in Seq(Nat)
    BY <2>1, IdentityBytes
  <2>4. /\ identities(b)[l].sha256 = Cat(Cat(Field(TagOf[l]), U64(N(b, l))), F(b, l))
        /\ N(b, l) \in Nat /\ F(b, l) \in Seq(Nat)
    BY <2>1, IdentityBytes
  <2>5. TagOf[k] \in Seq(Nat) /\ TagOf[l] \in Seq(Nat)
    BY TagsDiffer
  <2>6. TagOf[k] = TagOf[l] /\ F(a, k) = F(b, l)
    <3> DEFINE tk == TagOf[k]
               tl == TagOf[l]
               fk == F(a, k)
               fl == F(b, l)
               nk == N(a, k)
               nl == N(b, l)
    <3>1. /\ tk \in Seq(Nat) /\ tl \in Seq(Nat) /\ fk \in Seq(Nat) /\ fl \in Seq(Nat)
          /\ nk \in Nat /\ nl \in Nat /\ Whole(tk, nk, fk) = Whole(tl, nl, fl)
      BY <2>2, <2>3, <2>4, <2>5 DEF Whole
    <3> HIDE DEF tk, tl, fk, fl, nk, nl
    <3>2. tk = tl /\ fk = fl
      BY <3>1, CanonicalSplits
    <3> QED BY <3>2 DEF tk, tl, fk, fl
  <2>7. k = l
    BY <2>6, TagsDiffer
  <2>8. F(a, k) = F(b, k)
    BY <2>6, <2>7
  <2> QED BY <2>1, <2>7, <2>8, SameFields
<1> QED BY <1>1, CodecInvHolds, PTL

-----------------------------------------------------------------------------
(* Parts of the words, and what is found at a place among them *)

Part(words, start, length) == SubSeq(words, start + 1, start + length)

IsPart(p, V, words, start, length) ==
    /\ p \in Seq(V) /\ Len(p) = length
    /\ \A j \in 1..length : p[j] = words[start + j]

At(words, start, s) ==
    /\ start + Len(s) <= Len(words)
    /\ \A j \in 1..Len(s) : words[start + j] = s[j]

LEMMA PartProperties ==
    ASSUME NEW V, NEW words \in Seq(V), NEW start \in Nat, NEW length \in Nat,
           start + length <= Len(words)
    PROVE  IsPart(Part(words, start, length), V, words, start, length)
<1>1. Len(words) \in Nat
  BY LenProperties
<1> DEFINE first == start + 1
           last == start + length
<1>2. first \in Int /\ last \in Int /\ last - first + 1 = length /\ (first <= last <=> length # 0)
  OBVIOUS
<1>3. \A j \in first..last : words[j] \in V
  <2> TAKE j \in first..last
  <2>1. j \in 1..Len(words)
    BY <1>1
  <2> QED BY <2>1, ElementOfSeq
<1>4. \A j \in 1..length : first + j - 1 = start + j
  OBVIOUS
<1> HIDE DEF first, last
<1>5. /\ SubSeq(words, first, last) \in Seq(V)
      /\ Len(SubSeq(words, first, last)) = IF first <= last THEN last - first + 1 ELSE 0
      /\ \A j \in 1..(last - first + 1) : SubSeq(words, first, last)[j] = words[first + j - 1]
  BY <1>2, <1>3, SubSeqProperties
<1>6. /\ SubSeq(words, first, last) \in Seq(V) /\ Len(SubSeq(words, first, last)) = length
      /\ \A j \in 1..length : SubSeq(words, first, last)[j] = words[start + j]
  BY <1>2, <1>4, <1>5
<1> QED BY <1>6 DEF Part, IsPart, first, last

LEMMA PartsJoin ==
    ASSUME NEW V, NEW words \in Seq(V), NEW start \in Nat, NEW l \in Nat, NEW m \in Nat,
           start + l + m <= Len(words)
    PROVE  Cat(Part(words, start, l), Part(words, start + l, m)) = Part(words, start, l + m)
<1>1. Len(words) \in Nat
  BY LenProperties
<1> DEFINE from == start + 1
           mid == start + l
           to == start + l + m
<1>2. /\ from \in 1..(Len(words) + 1) /\ mid \in (from - 1)..Len(words) /\ to \in mid..Len(words)
      /\ start + (l + m) = to
  BY <1>1
<1> HIDE DEF from, mid, to
<1>3. SubSeq(words, from, mid) \o SubSeq(words, mid + 1, to) = SubSeq(words, from, to)
  BY <1>2, ConcatAdjacentSubSeq
<1> QED BY <1>2, <1>3 DEF Part, Cat, from, mid, to

LEMMA PartAll == ASSUME NEW V, NEW words \in Seq(V) PROVE Part(words, 0, Len(words)) = words
<1>1. 0 + 1 = 1 /\ 0 + Len(words) = Len(words)
  BY LenProperties
<1>2. SubSeq(words, 1, Len(words)) = words
  BY SubSeqFull
<1> QED BY <1>1, <1>2 DEF Part

LEMMA RowsArePart ==
    ASSUME NEW V, NEW words \in Seq(V), NEW start \in Nat, NEW count \in Nat, NEW width \in Nat,
           start + count * width <= Len(words)
    PROVE  FlattenSeq(RowsOf(words, start, count, width)) = Part(words, start, count * width)
BY FlattenRowsOf DEF Part

LEMMA AtPart ==
    ASSUME NEW V, NEW words \in Seq(V), NEW start \in Nat, NEW s \in Seq(V), At(words, start, s)
    PROVE  Part(words, start, Len(s)) = s
<1>1. /\ Len(s) \in Nat /\ start + Len(s) <= Len(words)
      /\ \A j \in 1..Len(s) : words[start + j] = s[j]
  BY LenProperties DEF At
<1>2. IsPart(Part(words, start, Len(s)), V, words, start, Len(s))
  BY <1>1, PartProperties
<1> DEFINE p == Part(words, start, Len(s))
<1>3. p \in Seq(V) /\ Len(p) = Len(s) /\ \A j \in 1..Len(s) : p[j] = s[j]
  BY <1>1, <1>2 DEF IsPart
<1> HIDE DEF p
<1>4. p = s
  BY <1>3, SeqEqual
<1> QED BY <1>4 DEF p

LEMMA AtRows ==
    ASSUME NEW V, NEW words \in Seq(V), NEW start \in Nat, NEW w \in Nat,
           NEW M \in Seq(Seq(V)), \A r \in 1..Len(M) : Len(M[r]) = w,
           At(words, start, FlattenSeq(M))
    PROVE  RowsOf(words, start, Len(M), w) = M
<1>1. Len(FlattenSeq(M)) = Len(M) * w
  BY FlattenMatrix
<1>2. /\ start + Len(M) * w <= Len(words)
      /\ \A p \in 1..(Len(M) * w) : words[start + p] = FlattenSeq(M)[p]
  BY <1>1 DEF At
<1> QED BY <1>2, RowsOfFlatten

LEMMA CatAt ==
    ASSUME NEW V, NEW s \in Seq(V), NEW t \in Seq(V)
    PROVE  /\ At(Cat(s, t), 0, s) /\ At(Cat(s, t), Len(s), t)
           /\ \A k \in Nat, x \in Seq(V) : At(s, k, x) => At(Cat(s, t), k, x)
<1>1. IsCat(Cat(s, t), V, s, t)
  BY CatProperties
<1> DEFINE c == Cat(s, t)
<1>2. /\ c \in Seq(V) /\ Len(c) = Len(s) + Len(t) /\ Len(s) \in Nat /\ Len(t) \in Nat
      /\ \A j \in 1..Len(s) : c[j] = s[j]
      /\ \A j \in 1..Len(t) : c[Len(s) + j] = t[j]
  BY <1>1 DEF IsCat
<1> HIDE DEF c
<1>3. At(c, 0, s)
  <2>1. 0 + Len(s) <= Len(c)
    BY <1>2
  <2>2. \A j \in 1..Len(s) : c[0 + j] = s[j]
    BY <1>2
  <2> QED BY <2>1, <2>2 DEF At
<1>4. At(c, Len(s), t)
  BY <1>2 DEF At
<1>5. ASSUME NEW k \in Nat, NEW x \in Seq(V), At(s, k, x) PROVE At(c, k, x)
  <2>1. k + Len(x) <= Len(s) /\ Len(x) \in Nat /\ \A j \in 1..Len(x) : s[k + j] = x[j]
    BY <1>5, LenProperties DEF At
  <2>2. k + Len(x) <= Len(c)
    <3>1. Len(c) = Len(s) + Len(t) /\ Len(s) \in Nat /\ Len(t) \in Nat
      BY <1>2
    <3> QED BY <2>1, <3>1
  <2>3. ASSUME NEW j \in 1..Len(x) PROVE c[k + j] = x[j]
    <3>1. k + j \in 1..Len(s)
      BY <1>2, <2>1
    <3> QED BY <1>2, <2>1, <3>1
  <2> QED BY <2>2, <2>3 DEF At
<1> QED BY <1>3, <1>4, <1>5 DEF c

-----------------------------------------------------------------------------
(* The words in their order *)

LEMMA Ranks ==
    /\ rank("-1") = 1 /\ rank("-0") = 3 /\ rank("0") = 3 /\ rank("tiny") = 4
    /\ rank("half") = 5 /\ rank("1") = 6 /\ rank("source") = 7 /\ rank("inf") = 8
<1>1. /\ Ordered[1] = "-1" /\ Ordered[2] = "-0" /\ Ordered[3] = "0" /\ Ordered[4] = "tiny"
      /\ Ordered[5] = "half" /\ Ordered[6] = "1" /\ Ordered[7] = "source" /\ Ordered[8] = "inf"
      /\ DOMAIN Ordered = 1..8
  BY DEF Ordered
<1>2. \A k \in 1..8 : k \in {1, 2, 3, 4, 5, 6, 7, 8}
  OBVIOUS
<1>3. ASSUME NEW k \in 1..8, NEW x, x # "-0", Ordered[k] = x, \A l \in 1..8 : Ordered[l] = x => l = k
      PROVE  rank(x) = k
  BY <1>1, <1>3 DEF rank
<1>4. rank("-1") = 1 /\ rank("0") = 3
  BY <1>1, <1>2, <1>3
<1>5. rank("tiny") = 4 /\ rank("half") = 5
  BY <1>1, <1>2, <1>3
<1>6. rank("1") = 6 /\ rank("source") = 7 /\ rank("inf") = 8
  BY <1>1, <1>2, <1>3
<1>7. rank("-0") = 3
  BY DEF rank
<1> QED BY <1>4, <1>5, <1>6, <1>7

LEMMA WordCases ==
    \A x \in EightBytes :
        x \in {"-1", "-0", "0", "tiny", "half", "1", "source", "inf", "nan"} /\ x # "None"
<1>1. \A k \in DOMAIN Ordered : Ordered[k] \in {"-1", "-0", "0", "tiny", "half", "1", "source", "inf"}
  BY DEF Ordered
<1>2. \A x \in EightBytes :
          x \in {"-1", "-0", "0", "tiny", "half", "1", "source", "inf", "nan"}
  BY <1>1 DEF EightBytes
<1> QED BY <1>2

LEMMA WordsAre ==
    {"-1", "-0", "0", "tiny", "half", "1", "source", "inf", "nan"} \subseteq EightBytes
<1>1. /\ Ordered[1] = "-1" /\ Ordered[2] = "-0" /\ Ordered[3] = "0" /\ Ordered[4] = "tiny"
      /\ Ordered[5] = "half" /\ Ordered[6] = "1" /\ Ordered[7] = "source" /\ Ordered[8] = "inf"
      /\ DOMAIN Ordered = 1..8
  BY DEF Ordered
<1>2. \A k \in {1, 2, 3, 4, 5, 6, 7, 8} : k \in DOMAIN Ordered
  BY <1>1
<1> HIDE DEF Ordered
<1>3. {"-1", "-0", "0", "tiny"} \subseteq EightBytes
  BY <1>1, <1>2 DEF EightBytes
<1>4. {"half", "1", "source", "inf", "nan"} \subseteq EightBytes
  BY <1>1, <1>2 DEF EightBytes
<1> QED BY <1>3, <1>4

\* Zero, not negative zero, is the only word in the place of an absent spacing.
LEMMA AbsentSpacing ==
    ASSUME NEW x \in EightBytes, SpacingIsCanonical(0, x) PROVE x = "0"
<1>1. AtLeast(x, "0") /\ AtLeast("0", x) /\ ~signbit(x)
  BY DEF SpacingIsCanonical
<1>2. x # "nan" /\ rank(x) >= 3 /\ 3 >= rank(x) /\ x # "-0" /\ x # "-1"
  BY <1>1, Ranks DEF AtLeast, signbit
<1> QED BY <1>2, Ranks, WordCases

LEMMA PayloadOf ==
    ASSUME NEW p, NEW h, IsPayload(p, h)
    PROVE  /\ p = Payload(p.ints, p.words) /\ p.words \in Seq(EightBytes)
           /\ p.ints \in Seq(Int) /\ Len(p.ints) = h
BY DEF IsPayload, Payload

-----------------------------------------------------------------------------
(* What is decoded encodes to the same bytes *)

LEMMA LjEncodesBack ==
    ASSUME NEW c, NEW i, IsPayload(c, 0), IsPayload(i, 0), Accepted(DecodeLj(c, i))
    PROVE  Encode("lj_pairwise_energy_forces", DecodeLj(c, i)) = <<c, i>>
<1> DEFINE n == Len(i.words) \div 3
           q == [epsilon |-> c.words[1], sigma |-> c.words[2], cutoff |-> c.words[3],
                 positions |-> RowsOf(i.words, 0, n, 3)]
<1>1. /\ c = Payload(c.ints, c.words) /\ c.words \in Seq(EightBytes) /\ c.ints = <<>>
      /\ i = Payload(i.ints, i.words) /\ i.words \in Seq(EightBytes) /\ i.ints = <<>>
  BY PayloadOf, EmptySeq
<1>2. Len(c.words) = 3 /\ Len(i.words) % 3 = 0 /\ DecodeLj(c, i) = q
  BY DEF DecodeLj, Accepted, Refused
<1>3. Len(i.words) = n * 3 /\ n \in Nat
  <2> DEFINE l == Len(i.words)
  <2>1. l \in Nat /\ l % 3 = 0
    BY <1>1, <1>2, LenProperties
  <2> HIDE DEF l
  <2>2. l = (l \div 3) * 3 /\ l \div 3 \in Nat
    BY <2>1
  <2> QED BY <2>2 DEF l
<1> HIDE DEF n
<1>4. FlattenSeq(RowsOf(i.words, 0, n, 3)) = i.words
  BY <1>1, <1>3, Cut
<1>5. c.words = <<c.words[1], c.words[2], c.words[3]>>
  BY <1>1, <1>2
<1>6. encode_lj_positions(q) = i
  BY <1>1, <1>4 DEF encode_lj_positions
<1>7. encode_lj_configuration(q) = c
  BY <1>1, <1>5 DEF encode_lj_configuration
<1> QED BY <1>2, <1>6, <1>7 DEF Encode

LEMMA FourierEncodesBack ==
    ASSUME NEW c, NEW i, IsPayload(c, 4), IsPayload(i, 0), Accepted(DecodeFourier(c, i))
    PROVE  Encode("fourier_transform_1d", DecodeFourier(c, i)) = <<c, i>>
<1> DEFINE n == Len(i.words) \div 2
           q == [direction |-> c.ints[1], normalization |-> c.ints[2],
                 spacing |-> IF c.ints[3] = 1 THEN c.words[1] ELSE "None",
                 signal |-> RowsOf(i.words, 0, n, 2)]
<1>1. /\ c = Payload(c.ints, c.words) /\ c.words \in Seq(EightBytes)
      /\ c.ints \in Seq(Int) /\ Len(c.ints) = 4
      /\ i = Payload(i.ints, i.words) /\ i.words \in Seq(EightBytes) /\ i.ints = <<>>
  BY PayloadOf, EmptySeq
<1>2. /\ Len(c.words) = 1 /\ c.words[1] \in EightBytes
      /\ n \in Nat \ {0} /\ Len(i.words) = n * 2
      /\ c.ints[3] \in {0, 1} /\ c.ints[4] = 0 /\ SpacingIsCanonical(c.ints[3], c.words[1])
      /\ DecodeFourier(c, i) = q
  BY FourierMeaning
<1> HIDE DEF n
<1>3. FlattenSeq(RowsOf(i.words, 0, n, 2)) = i.words
  <2>1. n \in Nat /\ i.words \in Seq(EightBytes) /\ Len(i.words) = n * 2
    BY <1>1, <1>2
  <2> QED BY <2>1, Cut
<1>4. encode_complex_signal(q) = i
  BY <1>1, <1>3 DEF encode_complex_signal
<1>5. c.ints = <<c.ints[1], c.ints[2], c.ints[3], 0>> /\ c.words = <<c.words[1]>>
  BY <1>1, <1>2
<1>6. c.ints[3] = 0 => c.words[1] = "0"
  BY <1>2, AbsentSpacing
<1>7. c.words[1] # "None"
  BY <1>2, WordCases
<1>8. encode_fourier_configuration(q) = c
  BY <1>1, <1>2, <1>5, <1>6, <1>7 DEF encode_fourier_configuration
<1> QED BY <1>2, <1>4, <1>8 DEF Encode

\* A matrix that was cut out is one.
LEMMA CutIsMatrix ==
    ASSUME NEW V, NEW words \in Seq(V), NEW start \in Nat, NEW rows \in Nat, NEW cols \in Nat,
           start + rows * cols <= Len(words)
    PROVE  /\ IsMatrix(RowsOf(words, start, rows, cols), rows, cols)
           /\ Len(RowsOf(words, start, rows, cols)) = rows
           /\ rows # 0 => Len(RowsOf(words, start, rows, cols)[1]) = cols
<1> DEFINE C == RowsOf(words, start, rows, cols)
<1>1. AreRows(C, V, words, start, rows, cols)
  BY RowsOfMatrix
<1> HIDE DEF C
<1>2. C \in Seq(Seq(V)) /\ Len(C) = rows /\ \A r \in 1..rows : Len(C[r]) = cols
  BY <1>1 DEF AreRows
<1>3. DOMAIN C = 1..rows
  BY <1>2, LenProperties
<1>4. rows # 0 => 1 \in 1..rows
  OBVIOUS
<1> QED BY <1>2, <1>3, <1>4 DEF IsMatrix, C

LEMMA LeastSquaresMeaning ==
    ASSUME NEW c, NEW i, IsPayload(c, 4), IsPayload(i, 2), Accepted(DecodeLeastSquares(c, i))
    PROVE  LET rows == i.ints[1]   cols == i.ints[2]   given == rows * cols
           IN  /\ rows \in Nat \ {0} /\ cols \in Nat \ {0} /\ given \in Nat
               /\ c.ints[1] \in {0, 1} /\ c.ints[2] = 0 /\ c.ints[3] = 0 /\ c.ints[4] = 0
               /\ Len(c.words) = 1
               /\ Len(i.words) = given + rows + (IF c.ints[1] = 1 THEN rows ELSE 0)
               /\ DecodeLeastSquares(c, i) =
                    [weighted |-> c.ints[1] = 1, rank_tolerance |-> c.words[1],
                     design |-> RowsOf(i.words, 0, rows, cols),
                     response |-> Part(i.words, given, rows),
                     weights |-> SubSeq(i.words, given + rows + 1, Len(i.words))]
<1> DEFINE rows == i.ints[1]
           cols == i.ints[2]
           given == rows * cols
           weighted == c.ints[1]
<1>1. rows \in Int /\ cols \in Int
  BY PayloadOf
<1>2. /\ Len(c.words) = 1 /\ weighted \in {0, 1} /\ \A k \in 2..4 : c.ints[k] = 0
      /\ cols > 0 /\ rows >= cols /\ Len(i.words) = given + rows * (1 + weighted)
      /\ DecodeLeastSquares(c, i) =
            [weighted |-> weighted = 1, rank_tolerance |-> c.words[1],
             design |-> RowsOf(i.words, 0, rows, cols),
             response |-> SubSeq(i.words, given + 1, given + rows),
             weights |-> SubSeq(i.words, given + rows + 1, Len(i.words))]
  BY Zenon DEF DecodeLeastSquares, Accepted, Refused
<1>3. rows \in Nat \ {0} /\ cols \in Nat \ {0}
  <2>1. cols > 0 /\ rows >= cols
    BY <1>2
  <2> HIDE DEF rows, cols
  <2> QED BY <1>1, <2>1
<1>4. given \in Nat
  BY <1>3, OneMoreRow
<1>5. rows * (1 + weighted) = rows + (IF weighted = 1 THEN rows ELSE 0)
  <2>1. weighted = 0 \/ weighted = 1
    BY <1>2
  <2> HIDE DEF rows, weighted
  <2>2. rows * (1 + 0) = rows /\ rows * (1 + 1) = rows + rows
    BY <1>3
  <2> QED BY <1>3, <2>1, <2>2
<1>6. c.ints[2] = 0 /\ c.ints[3] = 0 /\ c.ints[4] = 0
  BY <1>2
<1>7. Len(i.words) = given + rows + (IF weighted = 1 THEN rows ELSE 0)
  <2> HIDE DEF given, rows, weighted
  <2>1. Len(i.words) = given + (rows + (IF weighted = 1 THEN rows ELSE 0))
    BY <1>2, <1>5
  <2> QED BY <1>3, <1>4, <2>1
<1> QED BY <1>2, <1>3, <1>4, <1>6, <1>7 DEF Part

LEMMA OnlyWord == ASSUME NEW V, NEW s \in Seq(V), Len(s) = 1 PROVE s = <<s[1]>>
OBVIOUS

LEMMA LeastSquaresEncodesBack ==
    ASSUME NEW c, NEW i, IsPayload(c, 4), IsPayload(i, 2), Accepted(DecodeLeastSquares(c, i))
    PROVE  Encode("least_squares", DecodeLeastSquares(c, i)) = <<c, i>>
<1> DEFINE words == i.words
           rows == i.ints[1]
           cols == i.ints[2]
           given == rows * cols
           left == IF c.ints[1] = 1 THEN rows ELSE 0
           q == DecodeLeastSquares(c, i)
<1>1. /\ c = Payload(c.ints, c.words) /\ c.words \in Seq(EightBytes)
      /\ c.ints \in Seq(Int) /\ Len(c.ints) = 4
      /\ i = Payload(i.ints, words) /\ words \in Seq(EightBytes)
      /\ i.ints \in Seq(Int) /\ Len(i.ints) = 2
  BY PayloadOf
<1>2. /\ rows \in Nat \ {0} /\ cols \in Nat \ {0} /\ given \in Nat
      /\ c.ints[1] \in {0, 1} /\ c.ints[2] = 0 /\ c.ints[3] = 0 /\ c.ints[4] = 0
      /\ Len(c.words) = 1 /\ Len(words) = given + rows + left
      /\ q = [weighted |-> c.ints[1] = 1, rank_tolerance |-> c.words[1],
              design |-> RowsOf(words, 0, rows, cols),
              response |-> Part(words, given, rows),
              weights |-> SubSeq(words, given + rows + 1, Len(words))]
  BY LeastSquaresMeaning
<1>3. c.ints = <<c.ints[1], 0, 0, 0>> /\ c.words = <<c.words[1]>> /\ i.ints = <<rows, cols>>
  <2>1. c.ints = <<c.ints[1], c.ints[2], c.ints[3], c.ints[4]>>
    BY <1>1
  <2>2. c.words = <<c.words[1]>>
    BY <1>1, <1>2, OnlyWord
  <2>3. i.ints = <<i.ints[1], i.ints[2]>>
    BY <1>1
  <2>4. c.ints[2] = 0 /\ c.ints[3] = 0 /\ c.ints[4] = 0
    BY <1>2
  <2> QED BY <2>1, <2>2, <2>3, <2>4
<1>4. encode_least_squares_configuration(q) = c
  <2>1. q.weighted = (c.ints[1] = 1) /\ q.rank_tolerance = c.words[1]
    BY <1>2
  <2>2. c.ints[1] = IF q.weighted THEN 1 ELSE 0
    BY <1>2, <2>1
  <2>3. encode_least_squares_configuration(q) = Payload(<<c.ints[1], 0, 0, 0>>, <<c.words[1]>>)
    BY <2>1, <2>2, Zenon DEF encode_least_squares_configuration
  <2> QED BY <1>1, <1>3, <2>3, Zenon
<1>5. left \in Nat /\ (left = 0 \/ left = rows)
  BY <1>2
<1>6. /\ q.design = RowsOf(words, 0, rows, cols) /\ q.response = Part(words, given, rows)
      /\ q.weights = Part(words, given + rows, left)
  <2> HIDE DEF q, words, rows, cols, given, left
  <2>1. /\ q.design = RowsOf(words, 0, rows, cols) /\ q.response = Part(words, given, rows)
        /\ q.weights = SubSeq(words, given + rows + 1, Len(words))
    <3>1. q = [weighted |-> c.ints[1] = 1, rank_tolerance |-> c.words[1],
               design |-> RowsOf(words, 0, rows, cols),
               response |-> Part(words, given, rows),
               weights |-> SubSeq(words, given + rows + 1, Len(words))]
      BY <1>2, Zenon
    <3> QED BY <3>1
  <2>2. Len(words) = given + rows + left
    BY <1>2
  <2>3. q.weights = SubSeq(words, given + rows + 1, given + rows + left)
    BY <2>1, <2>2, Zenon
  <2> QED BY <2>1, <2>3, Zenon DEF Part
<1>7. 0 + rows * cols <= Len(words) /\ rows * cols = given
  <2>1. 0 + given <= Len(words)
    <3> HIDE DEF given, left, rows
    <3> QED BY <1>2, <1>5
  <2> QED BY <2>1
<1> HIDE DEF left, q, words, rows, cols, given
<1>8. IsMatrix(q.design, rows, cols) /\ Len(q.design) = rows /\ Len(q.design[1]) = cols
  <2> DEFINE C == RowsOf(words, 0, rows, cols)
  <2>1. rows \in Nat /\ cols \in Nat /\ rows # 0
    BY <1>2
  <2>2. IsMatrix(C, rows, cols) /\ Len(C) = rows /\ (rows # 0 => Len(C[1]) = cols)
    BY <1>1, <1>7, <2>1, CutIsMatrix
  <2>3. q.design = C
    BY <1>6
  <2> HIDE DEF C
  <2> QED BY <2>1, <2>2, <2>3
<1>9. FlattenSeq(q.design) = Part(words, 0, given)
  <2>1. rows \in Nat /\ cols \in Nat
    BY <1>2
  <2>2. FlattenSeq(RowsOf(words, 0, rows, cols)) = Part(words, 0, rows * cols)
    BY <1>1, <1>7, <2>1, RowsArePart
  <2> QED BY <1>6, <1>7, <2>2
<1>10. given + rows <= Len(words) /\ given + rows + left <= Len(words)
  BY <1>2, <1>5
<1>11. IsPart(q.response, EightBytes, words, given, rows)
  BY <1>1, <1>2, <1>6, <1>10, PartProperties
<1>12. IsPart(q.weights, EightBytes, words, given + rows, left)
  <2>1. given + rows \in Nat
    BY <1>2
  <2> QED BY <1>1, <1>5, <1>6, <1>10, <2>1, PartProperties
<1>13. Len(q.response) = rows /\ (q.weights # <<>> => Len(q.weights) = rows)
  <2>1. Len(q.response) = rows /\ Len(q.weights) = left /\ q.weights \in Seq(EightBytes)
    BY <1>11, <1>12 DEF IsPart
  <2> QED BY <1>5, <2>1, EmptySeq
<1>14. FlattenSeq(q.design) \o q.response \o q.weights = words
  <2>1. Cat(Part(words, 0, given), Part(words, given, rows)) = Part(words, 0, given + rows)
    <3>1. 0 + given + rows <= Len(words) /\ 0 + given = given /\ 0 \in Nat
      BY <1>2, <1>10
    <3>2. Cat(Part(words, 0, given), Part(words, 0 + given, rows)) = Part(words, 0, given + rows)
      BY <1>1, <1>2, <3>1, PartsJoin
    <3> QED BY <3>1, <3>2
  <2> DEFINE both == given + rows
  <2>2. both \in Nat /\ both + left = Len(words)
    BY <1>2
  <2>3. Cat(Part(words, 0, both), Part(words, both, left)) = Part(words, 0, both + left)
    <3> HIDE DEF both
    <3>1. 0 + both + left <= Len(words) /\ 0 + both = both /\ 0 \in Nat
      BY <1>5, <2>2
    <3>2. Cat(Part(words, 0, both), Part(words, 0 + both, left)) = Part(words, 0, both + left)
      BY <1>1, <1>5, <2>2, <3>1, PartsJoin
    <3> QED BY <3>1, <3>2
  <2>4. Part(words, 0, Len(words)) = words
    BY <1>1, PartAll
  <2>5. Cat(Cat(FlattenSeq(q.design), q.response), q.weights) = words
    BY <1>6, <1>9, <2>1, <2>2, <2>3, <2>4
  <2> QED BY <2>5 DEF Cat
<1>15. encode_least_squares_input(q) = Payload(<<rows, cols>>, words)
  BY <1>2, <1>8, <1>13, <1>14 DEF encode_least_squares_input
<1>16. encode_least_squares_input(q) = i
  BY <1>1, <1>3, <1>15 DEF words
<1> QED BY <1>4, <1>16 DEF Encode, q

-----------------------------------------------------------------------------
(* The filter: five parts in one payload, four in the other *)

\* A matrix that stands at a place among the words.
IsCut(M, words, start, rows, cols, size) ==
    /\ IsMatrix(M, rows, cols) /\ Len(M) = rows /\ (rows # 0 => Len(M[1]) = cols)
    /\ FlattenSeq(M) = Part(words, start, size)

LEMMA CutOut ==
    ASSUME NEW V, NEW words \in Seq(V), NEW start \in Nat, NEW rows \in Nat, NEW cols \in Nat,
           NEW size, size = rows * cols, start + size <= Len(words)
    PROVE  IsCut(RowsOf(words, start, rows, cols), words, start, rows, cols, size)
<1>1. start + rows * cols <= Len(words)
  OBVIOUS
<1>2. FlattenSeq(RowsOf(words, start, rows, cols)) = Part(words, start, rows * cols)
  BY <1>1, RowsArePart
<1> DEFINE C == RowsOf(words, start, rows, cols)
<1>3. IsMatrix(C, rows, cols) /\ Len(C) = rows /\ (rows # 0 => Len(C[1]) = cols)
  BY <1>1, CutIsMatrix
<1> HIDE DEF C
<1>4. FlattenSeq(C) = Part(words, start, size)
  BY <1>2 DEF C
<1>5. IsCut(C, words, start, rows, cols, size)
  BY <1>3, <1>4, Zenon DEF IsCut
<1> QED BY <1>5 DEF C

LEMMA JoinPrefix ==
    ASSUME NEW V, NEW words \in Seq(V), NEW l \in Nat, NEW m \in Nat, l + m <= Len(words)
    PROVE  Cat(Part(words, 0, l), Part(words, l, m)) = Part(words, 0, l + m)
<1>1. 0 + l + m <= Len(words) /\ 0 + l = l /\ 0 \in Nat
  OBVIOUS
<1>2. Cat(Part(words, 0, l), Part(words, 0 + l, m)) = Part(words, 0, l + m)
  BY <1>1, PartsJoin
<1> QED BY <1>1, <1>2

LEMMA FourParts ==
    ASSUME NEW V, NEW words \in Seq(V), NEW k \in Nat, NEW l \in Nat, NEW m \in Nat, NEW n \in Nat,
           k + l + m + n <= Len(words)
    PROVE  Cat(Cat(Cat(Part(words, 0, k), Part(words, k, l)), Part(words, k + l, m)),
               Part(words, k + l + m, n))
             = Part(words, 0, k + l + m + n)
<1>1. Len(words) \in Nat
  BY LenProperties
<1>2. Cat(Part(words, 0, k), Part(words, k, l)) = Part(words, 0, k + l)
  <2>1. k + l <= Len(words)
    BY <1>1
  <2> QED BY <2>1, JoinPrefix
<1>3. Cat(Part(words, 0, k + l), Part(words, k + l, m)) = Part(words, 0, k + l + m)
  <2> DEFINE kl == k + l
  <2>1. kl \in Nat /\ kl + m <= Len(words)
    BY <1>1
  <2> HIDE DEF kl
  <2>2. Cat(Part(words, 0, kl), Part(words, kl, m)) = Part(words, 0, kl + m)
    BY <2>1, JoinPrefix
  <2> QED BY <2>2 DEF kl
<1>4. Cat(Part(words, 0, k + l + m), Part(words, k + l + m, n)) = Part(words, 0, k + l + m + n)
  <2> DEFINE klm == k + l + m
  <2>1. klm \in Nat /\ klm + n <= Len(words)
    BY <1>1
  <2> HIDE DEF klm
  <2>2. Cat(Part(words, 0, klm), Part(words, klm, n)) = Part(words, 0, klm + n)
    BY <2>1, JoinPrefix
  <2> QED BY <2>2 DEF klm
<1> QED BY <1>2, <1>3, <1>4, Zenon

LEMMA KalmanMeaning ==
    ASSUME NEW c, NEW i, IsPayload(c, 6), IsPayload(i, 2), Accepted(DecodeKalman(c, i))
    PROVE  LET n == c.ints[1]   m == c.ints[2]   steps == i.ints[1]   id_len == i.ints[2]
               nn == n * n   mn == m * n   mm == m * m   sm == steps * m
           IN  /\ n \in Nat \ {0} /\ m \in Nat \ {0} /\ steps \in Nat \ {0} /\ id_len \in Nat
               /\ c.ints[3] = 0 /\ c.ints[4] \in {0, 1} /\ c.ints[5] = 0 /\ c.ints[6] = 0
               /\ Len(c.words) = 2 + nn + mn + nn + mm /\ Len(i.words) = n + nn + sm + id_len
               /\ DecodeKalman(c, i) =
                    [F |-> RowsOf(c.words, 2, n, n), H |-> RowsOf(c.words, 2 + nn, m, n),
                     Q |-> RowsOf(c.words, 2 + nn + mn, n, n),
                     R |-> RowsOf(c.words, 2 + nn + mn + nn, m, m),
                     provenance |-> c.ints[4],
                     symmetry_tolerance |-> c.words[1], psd_tolerance |-> c.words[2],
                     x0 |-> SubSeq(i.words, 1, n), P0 |-> RowsOf(i.words, n, n, n),
                     z |-> RowsOf(i.words, n + nn, steps, m),
                     source |-> SubSeq(i.words, n + nn + sm + 1, Len(i.words))]
<1> DEFINE n == c.ints[1]
           m == c.ints[2]
           steps == i.ints[1]
           id_len == i.ints[2]
           nn == n * n
           mn == m * n
           mm == m * m
           sm == steps * m
<1>1. n \in Int /\ m \in Int /\ steps \in Int /\ id_len \in Int
  <2>1. c.ints \in Seq(Int) /\ Len(c.ints) = 6 /\ i.ints \in Seq(Int) /\ Len(i.ints) = 2
    BY PayloadOf
  <2>2. c.ints[1] \in Int /\ c.ints[2] \in Int
    BY <2>1, ElementOfSeq
  <2>3. i.ints[1] \in Int /\ i.ints[2] \in Int
    BY <2>1, ElementOfSeq
  <2> QED BY <2>2, <2>3
<1>2. /\ n > 0 /\ m > 0 /\ c.ints[3] = 0 /\ c.ints[4] \in {0, 1} /\ c.ints[5] = 0 /\ c.ints[6] = 0
      /\ Len(c.words) = 2 + nn + mn + nn + mm
      /\ steps > 0 /\ id_len >= 0 /\ Len(i.words) = n + nn + sm + id_len
      /\ DecodeKalman(c, i) =
            [F |-> RowsOf(c.words, 2, n, n), H |-> RowsOf(c.words, 2 + nn, m, n),
             Q |-> RowsOf(c.words, 2 + nn + mn, n, n),
             R |-> RowsOf(c.words, 2 + nn + mn + nn, m, m),
             provenance |-> c.ints[4],
             symmetry_tolerance |-> c.words[1], psd_tolerance |-> c.words[2],
             x0 |-> SubSeq(i.words, 1, n), P0 |-> RowsOf(i.words, n, n, n),
             z |-> RowsOf(i.words, n + nn, steps, m),
             source |-> SubSeq(i.words, n + nn + sm + 1, Len(i.words))]
  BY Zenon DEF DecodeKalman, Accepted, Refused
<1>3. n \in Nat \ {0} /\ m \in Nat \ {0} /\ steps \in Nat \ {0} /\ id_len \in Nat
  <2>1. n > 0 /\ m > 0 /\ steps > 0 /\ id_len >= 0
    BY <1>2
  <2> HIDE DEF n, m, steps, id_len
  <2> QED BY <1>1, <2>1
<1> QED BY <1>2, <1>3, Zenon

\* The configuration: two tolerances and four matrices, with nothing between or after.
CutFromConfiguration(q, words, n, m, nn, mn, mm) ==
    /\ words \in Seq(EightBytes) /\ Len(words) = 2 + nn + mn + nn + mm
    /\ {n, m, nn, mn, mm} \subseteq Nat /\ n # 0 /\ m # 0
    /\ nn = n * n /\ mn = m * n /\ mm = m * m
    /\ q.symmetry_tolerance = words[1] /\ q.psd_tolerance = words[2]
    /\ q.F = RowsOf(words, 2, n, n) /\ q.H = RowsOf(words, 2 + nn, m, n)
    /\ q.Q = RowsOf(words, 2 + nn + mn, n, n) /\ q.R = RowsOf(words, 2 + nn + mn + nn, m, m)

LEMMA KalmanConfigurationBack ==
    ASSUME NEW q, NEW words, NEW n, NEW m, NEW nn, NEW mn, NEW mm,
           CutFromConfiguration(q, words, n, m, nn, mn, mm)
    PROVE  encode_kalman_configuration(q) = Payload(<<n, m, 0, q.provenance, 0, 0>>, words)
<1> SUFFICES ASSUME words \in Seq(EightBytes), Len(words) = 2 + nn + mn + nn + mm,
                    n \in Nat, m \in Nat, nn \in Nat, mn \in Nat, mm \in Nat, n # 0, m # 0,
                    nn = n * n, mn = m * n, mm = m * m,
                    q.symmetry_tolerance = words[1], q.psd_tolerance = words[2],
                    q.F = RowsOf(words, 2, n, n), q.H = RowsOf(words, 2 + nn, m, n),
                    q.Q = RowsOf(words, 2 + nn + mn, n, n),
                    q.R = RowsOf(words, 2 + nn + mn + nn, m, m)
             PROVE  encode_kalman_configuration(q)
                      = Payload(<<n, m, 0, q.provenance, 0, 0>>, words)
  BY Zenon DEF CutFromConfiguration
<1> DEFINE H_at == 2 + nn
           Q_at == 2 + nn + mn
           R_at == 2 + nn + mn + nn
<1>1. /\ H_at \in Nat /\ Q_at \in Nat /\ R_at \in Nat /\ 2 \in Nat
      /\ 2 + nn <= Len(words) /\ H_at + mn <= Len(words) /\ Q_at + nn <= Len(words)
      /\ R_at + mm <= Len(words) /\ 2 <= Len(words) /\ R_at + mm = Len(words)
  OBVIOUS
<1>2. q.F = RowsOf(words, 2, n, n) /\ q.H = RowsOf(words, H_at, m, n)
      /\ q.Q = RowsOf(words, Q_at, n, n) /\ q.R = RowsOf(words, R_at, m, m)
  OBVIOUS
<1> HIDE DEF H_at, Q_at, R_at
<1>3. IsCut(q.F, words, 2, n, n, nn)
  BY <1>1, <1>2, CutOut
<1>4. IsCut(q.H, words, H_at, m, n, mn)
  BY <1>1, <1>2, CutOut
<1>5. IsCut(q.Q, words, Q_at, n, n, nn)
  BY <1>1, <1>2, CutOut
<1>6. IsCut(q.R, words, R_at, m, m, mm)
  BY <1>1, <1>2, CutOut
<1>7. <<words[1], words[2]>> = Part(words, 0, 2)
  <2>1. IsPart(Part(words, 0, 2), EightBytes, words, 0, 2)
    <3>1. 0 \in Nat /\ 2 \in Nat /\ 0 + 2 <= Len(words)
      BY <1>1
    <3> QED BY <3>1, PartProperties
  <2> DEFINE p == Part(words, 0, 2)
  <2>2. p \in Seq(EightBytes) /\ Len(p) = 2 /\ p[1] = words[1] /\ p[2] = words[2]
    BY <2>1 DEF IsPart
  <2> HIDE DEF p
  <2>3. p = <<p[1], p[2]>>
    BY <2>2
  <2>4. p = <<words[1], words[2]>>
    BY <2>2, <2>3, Zenon
  <2> QED BY <2>4 DEF p
<1>8. Cat(Cat(Cat(Part(words, 0, 2), Part(words, 2, nn)), Part(words, H_at, mn)),
          Part(words, Q_at, nn))
        = Part(words, 0, R_at)
  <2>1. Q_at + nn = R_at /\ 2 + nn + mn + nn <= Len(words)
    BY <1>1 DEF Q_at, R_at
  <2>2. Cat(Cat(Cat(Part(words, 0, 2), Part(words, 2, nn)), Part(words, 2 + nn, mn)),
            Part(words, 2 + nn + mn, nn))
          = Part(words, 0, 2 + nn + mn + nn)
    BY <1>1, <2>1, FourParts
  <2> QED BY <2>2, Zenon DEF H_at, Q_at, R_at
<1>9. Cat(Part(words, 0, R_at), Part(words, R_at, mm)) = words
  <2>1. Cat(Part(words, 0, R_at), Part(words, R_at, mm)) = Part(words, 0, R_at + mm)
    <3>1. R_at \in Nat /\ mm \in Nat /\ R_at + mm <= Len(words)
      BY <1>1
    <3> QED BY <3>1, JoinPrefix, Zenon
  <2>2. Part(words, 0, Len(words)) = words
    BY PartAll
  <2> QED BY <1>1, <2>1, <2>2, Zenon
<1>10. Cat(Cat(Cat(Cat(<<words[1], words[2]>>, FlattenSeq(q.F)), FlattenSeq(q.H)),
               FlattenSeq(q.Q)), FlattenSeq(q.R))
         = words
  <2>1. /\ FlattenSeq(q.F) = Part(words, 2, nn) /\ FlattenSeq(q.H) = Part(words, H_at, mn)
        /\ FlattenSeq(q.Q) = Part(words, Q_at, nn) /\ FlattenSeq(q.R) = Part(words, R_at, mm)
    BY <1>3, <1>4, <1>5, <1>6, Zenon DEF IsCut
  <2> QED BY <1>7, <1>8, <1>9, <2>1, Zenon
<1>11. <<q.symmetry_tolerance, q.psd_tolerance>> \o FlattenSeq(q.F) \o FlattenSeq(q.H)
          \o FlattenSeq(q.Q) \o FlattenSeq(q.R)
         = words
  BY <1>10, Zenon DEF Cat
<1>12. /\ Len(q.F) = n /\ Len(q.H) = m /\ IsMatrix(q.F, n, n) /\ IsMatrix(q.H, m, n)
       /\ IsMatrix(q.Q, n, n) /\ IsMatrix(q.R, m, m)
  BY <1>3, <1>4, <1>5, <1>6, Zenon DEF IsCut
<1> QED BY <1>11, <1>12, Zenon DEF encode_kalman_configuration

\* The input: the first estimate, its covariance, the observations, the source.
CutFromInput(q, words, n, m, steps, id_len, nn, sm) ==
    /\ words \in Seq(EightBytes) /\ Len(words) = n + nn + sm + id_len
    /\ {n, m, steps, id_len, nn, sm} \subseteq Nat /\ steps # 0
    /\ nn = n * n /\ sm = steps * m
    /\ q.x0 = SubSeq(words, 1, n) /\ q.P0 = RowsOf(words, n, n, n)
    /\ q.z = RowsOf(words, n + nn, steps, m)
    /\ q.source = SubSeq(words, n + nn + sm + 1, Len(words))

LEMMA KalmanInputBack ==
    ASSUME NEW q, NEW words, NEW n, NEW m, NEW steps, NEW id_len, NEW nn, NEW sm,
           CutFromInput(q, words, n, m, steps, id_len, nn, sm)
    PROVE  encode_kalman_input(q) = Payload(<<steps, id_len>>, words)
<1> DEFINE z_at == n + nn
           source_at == n + nn + sm
<1>1. /\ words \in Seq(EightBytes) /\ Len(words) = n + nn + sm + id_len
      /\ n \in Nat /\ m \in Nat /\ steps \in Nat /\ id_len \in Nat /\ nn \in Nat /\ sm \in Nat
  BY Zenon DEF CutFromInput
<1>2. /\ steps # 0 /\ nn = n * n /\ sm = steps * m
      /\ q.x0 = SubSeq(words, 1, n) /\ q.P0 = RowsOf(words, n, n, n)
      /\ q.z = RowsOf(words, z_at, steps, m)
      /\ q.source = SubSeq(words, source_at + 1, Len(words))
  BY Zenon DEF CutFromInput
<1>3. /\ z_at \in Nat /\ source_at \in Nat /\ 0 \in Nat
      /\ 0 + n <= Len(words) /\ n + nn <= Len(words) /\ z_at + sm <= Len(words)
      /\ source_at + id_len <= Len(words) /\ source_at + id_len = Len(words)
      /\ 0 + 1 = 1 /\ 0 + n = n
  BY <1>1
<1>4. q.x0 = Part(words, 0, n)
  BY <1>3, <1>2, Zenon DEF Part
<1>5. q.source = Part(words, source_at, id_len)
  <2> HIDE DEF source_at
  <2> QED BY <1>3, <1>2, Zenon DEF Part
<1>6. Cat(Cat(Cat(Part(words, 0, n), Part(words, n, nn)), Part(words, n + nn, sm)),
          Part(words, n + nn + sm, id_len))
        = Part(words, 0, n + nn + sm + id_len)
  <2>1. n + nn + sm + id_len <= Len(words)
    BY <1>1
  <2> QED BY <1>1, <2>1, FourParts
<1> HIDE DEF z_at, source_at
<1>7. IsCut(q.P0, words, n, n, n, nn)
  BY <1>3, <1>1, <1>2, CutOut
<1>8. IsCut(q.z, words, z_at, steps, m, sm)
  BY <1>3, <1>1, <1>2, CutOut
<1>9. IsPart(q.x0, EightBytes, words, 0, n)
  BY <1>3, <1>4, <1>1, PartProperties
<1>10. IsPart(q.source, EightBytes, words, source_at, id_len)
  BY <1>3, <1>5, <1>1, PartProperties
<1>11. /\ Len(q.x0) = n /\ Len(q.source) = id_len /\ Len(q.z) = steps
       /\ IsMatrix(q.P0, n, n) /\ IsMatrix(q.z, steps, m) /\ Len(q.z[1]) = m
  BY <1>2, <1>7, <1>8, <1>9, <1>10, Zenon DEF IsCut, IsPart
<1>12. Cat(Cat(Cat(q.x0, FlattenSeq(q.P0)), FlattenSeq(q.z)), q.source) = words
  <2>1. FlattenSeq(q.P0) = Part(words, n, nn) /\ FlattenSeq(q.z) = Part(words, n + nn, sm)
    BY <1>7, <1>8, Zenon DEF IsCut, z_at
  <2>2. q.source = Part(words, n + nn + sm, id_len)
    BY <1>5, Zenon DEF source_at
  <2>3. Part(words, 0, n + nn + sm + id_len) = words
    BY <1>1, PartAll
  <2> QED BY <1>4, <1>6, <2>1, <2>2, <2>3, Zenon
<1>13. q.x0 \o FlattenSeq(q.P0) \o FlattenSeq(q.z) \o q.source = words
  BY <1>12, Zenon DEF Cat
<1> QED BY <1>11, <1>13, <1>2, Zenon DEF encode_kalman_input

LEMMA KalmanEncodesBack ==
    ASSUME NEW c, NEW i, IsPayload(c, 6), IsPayload(i, 2), Accepted(DecodeKalman(c, i))
    PROVE  Encode("kalman_filter_linear", DecodeKalman(c, i)) = <<c, i>>
<1> DEFINE n == c.ints[1]
           m == c.ints[2]
           steps == i.ints[1]
           id_len == i.ints[2]
           nn == n * n
           mn == m * n
           mm == m * m
           sm == steps * m
           q == DecodeKalman(c, i)
<1>1. /\ c = Payload(c.ints, c.words) /\ c.words \in Seq(EightBytes)
      /\ c.ints \in Seq(Int) /\ Len(c.ints) = 6
      /\ i = Payload(i.ints, i.words) /\ i.words \in Seq(EightBytes)
      /\ i.ints \in Seq(Int) /\ Len(i.ints) = 2
  BY PayloadOf
<1>2. /\ n \in Nat \ {0} /\ m \in Nat \ {0} /\ steps \in Nat \ {0} /\ id_len \in Nat
      /\ c.ints[3] = 0 /\ c.ints[4] \in {0, 1} /\ c.ints[5] = 0 /\ c.ints[6] = 0
      /\ Len(c.words) = 2 + nn + mn + nn + mm /\ Len(i.words) = n + nn + sm + id_len
      /\ q = [F |-> RowsOf(c.words, 2, n, n), H |-> RowsOf(c.words, 2 + nn, m, n),
              Q |-> RowsOf(c.words, 2 + nn + mn, n, n),
              R |-> RowsOf(c.words, 2 + nn + mn + nn, m, m),
              provenance |-> c.ints[4],
              symmetry_tolerance |-> c.words[1], psd_tolerance |-> c.words[2],
              x0 |-> SubSeq(i.words, 1, n), P0 |-> RowsOf(i.words, n, n, n),
              z |-> RowsOf(i.words, n + nn, steps, m),
              source |-> SubSeq(i.words, n + nn + sm + 1, Len(i.words))]
  BY KalmanMeaning
<1>3. nn \in Nat /\ mn \in Nat /\ mm \in Nat /\ sm \in Nat
  <2>1. n \in Nat /\ m \in Nat /\ steps \in Nat
    BY <1>2
  <2> HIDE DEF n, m, steps
  <2> QED BY <2>1, OneMoreRow
<1>4. c.ints = <<n, m, 0, c.ints[4], 0, 0>> /\ i.ints = <<steps, id_len>>
  <2>1. c.ints = <<c.ints[1], c.ints[2], c.ints[3], c.ints[4], c.ints[5], c.ints[6]>>
    BY <1>1
  <2>2. i.ints = <<i.ints[1], i.ints[2]>>
    BY <1>1
  <2>3. c.ints[3] = 0 /\ c.ints[5] = 0 /\ c.ints[6] = 0
    BY <1>2
  <2> QED BY <2>1, <2>2, <2>3, Zenon
<1>5. nn = n * n /\ mn = m * n /\ mm = m * m /\ sm = steps * m
  OBVIOUS
<1> DEFINE cw == c.words
           iw == i.words
<1> HIDE DEF n, m, steps, id_len, nn, mn, mm, sm, q, cw, iw
<1>6. /\ q.F = RowsOf(cw, 2, n, n) /\ q.H = RowsOf(cw, 2 + nn, m, n)
      /\ q.Q = RowsOf(cw, 2 + nn + mn, n, n) /\ q.R = RowsOf(cw, 2 + nn + mn + nn, m, m)
      /\ q.provenance = c.ints[4] /\ q.symmetry_tolerance = cw[1] /\ q.psd_tolerance = cw[2]
      /\ q.x0 = SubSeq(iw, 1, n) /\ q.P0 = RowsOf(iw, n, n, n)
      /\ q.z = RowsOf(iw, n + nn, steps, m)
      /\ q.source = SubSeq(iw, n + nn + sm + 1, Len(iw))
  BY <1>2 DEF cw, iw
<1>7. /\ cw \in Seq(EightBytes) /\ Len(cw) = 2 + nn + mn + nn + mm
      /\ iw \in Seq(EightBytes) /\ Len(iw) = n + nn + sm + id_len
      /\ n \in Nat /\ n # 0 /\ m \in Nat /\ m # 0 /\ steps \in Nat /\ steps # 0 /\ id_len \in Nat
  BY <1>1, <1>2 DEF cw, iw
<1>8. encode_kalman_configuration(q) = Payload(<<n, m, 0, q.provenance, 0, 0>>, cw)
  <2>1. CutFromConfiguration(q, cw, n, m, nn, mn, mm)
    BY <1>3, <1>5, <1>6, <1>7, Zenon DEF CutFromConfiguration
  <2> QED BY <2>1, KalmanConfigurationBack
<1>9. encode_kalman_input(q) = Payload(<<steps, id_len>>, iw)
  <2>1. CutFromInput(q, iw, n, m, steps, id_len, nn, sm)
    BY <1>3, <1>5, <1>6, <1>7, Zenon DEF CutFromInput
  <2> QED BY <2>1, KalmanInputBack
<1>10. encode_kalman_configuration(q) = c
  BY <1>1, <1>4, <1>6, <1>8, Zenon DEF cw
<1>11. encode_kalman_input(q) = i
  BY <1>1, <1>4, <1>9, Zenon DEF iw
<1> QED BY <1>10, <1>11 DEF Encode, q

\* A parameter that steers a computation is never read as a zero with a sign.
LEMMA NoSignedZero ==
    ASSUME NEW x \in EightBytes, Less("0", x) \/ Tolerance(x) PROVE Number(x) = x
<1>1. "-0" # "nan" /\ rank("-0") = 3 /\ rank("0") = 3
  BY Ranks
<1>2. ~Less("0", "-0")
  BY <1>1 DEF Less
<1>3. ~Tolerance("-0")
  BY DEF Tolerance, signbit
<1> QED BY <1>2, <1>3 DEF Number

LEMMA FourierIsNumbers ==
    ASSUME NEW c, NEW i, IsPayload(c, 4), IsPayload(i, 0), Accepted(DecodeFourier(c, i))
    PROVE  AsNumbers("fourier_transform_1d", DecodeFourier(c, i)) = DecodeFourier(c, i)
<1> DEFINE spacing == IF c.ints[3] = 1 THEN c.words[1] ELSE "None"
           signal == RowsOf(i.words, 0, Len(i.words) \div 2, 2)
           q == [direction |-> c.ints[1], normalization |-> c.ints[2],
                 spacing |-> spacing, signal |-> signal]
<1>1. /\ c.words[1] \in EightBytes /\ SpacingIsCanonical(c.ints[3], c.words[1])
      /\ DecodeFourier(c, i) = q
  BY FourierMeaning
<1>2. Number(spacing) = spacing
  <2>1. CASE c.ints[3] = 1
    BY <1>1, <2>1, NoSignedZero DEF SpacingIsCanonical
  <2>2. CASE c.ints[3] # 1
    BY <2>2 DEF Number
  <2> QED BY <2>1, <2>2
<1> HIDE DEF spacing, signal
<1>3. [q EXCEPT !.spacing = Number(@)] = q
  BY <1>2
<1> QED BY <1>1, <1>3 DEF AsNumbers

LEMMA LeastSquaresIsNumbers ==
    ASSUME NEW c, NEW i, IsPayload(c, 4), IsPayload(i, 2), Accepted(DecodeLeastSquares(c, i))
    PROVE  AsNumbers("least_squares", DecodeLeastSquares(c, i)) = DecodeLeastSquares(c, i)
<1> DEFINE rank_tolerance == c.words[1]
           rows == i.ints[1]
           cols == i.ints[2]
           design == RowsOf(i.words, 0, rows, cols)
           response == SubSeq(i.words, rows * cols + 1, rows * cols + rows)
           weights == SubSeq(i.words, rows * cols + rows + 1, Len(i.words))
           weighted == c.ints[1] = 1
           q == [weighted |-> weighted, rank_tolerance |-> rank_tolerance, design |-> design,
                 response |-> response, weights |-> weights]
<1>1. Len(c.words) = 1 /\ Less("0", c.words[1]) /\ DecodeLeastSquares(c, i) = q
  BY Zenon DEF DecodeLeastSquares, Accepted, Refused
<1>2. c.words[1] \in EightBytes
  BY <1>1, PayloadOf, ElementOfSeq
<1>3. Number(rank_tolerance) = rank_tolerance
  BY <1>1, <1>2, NoSignedZero
<1> HIDE DEF rank_tolerance, design, response, weights, weighted
<1>4. [q EXCEPT !.rank_tolerance = Number(@)] = q
  BY <1>3
<1> QED BY <1>1, <1>4 DEF AsNumbers

LEMMA KalmanIsNumbers ==
    ASSUME NEW c, NEW i, IsPayload(c, 6), IsPayload(i, 2), Accepted(DecodeKalman(c, i))
    PROVE  AsNumbers("kalman_filter_linear", DecodeKalman(c, i)) = DecodeKalman(c, i)
<1> DEFINE q == DecodeKalman(c, i)
<1>1. Len(c.words) >= 2 /\ Tolerance(c.words[1]) /\ Tolerance(c.words[2])
  BY Zenon DEF DecodeKalman, Accepted, Refused
<1>2. c.words[1] \in EightBytes /\ c.words[2] \in EightBytes
  BY <1>1, PayloadOf, ElementOfSeq
<1>3. /\ q.symmetry_tolerance = c.words[1] /\ q.psd_tolerance = c.words[2]
      /\ q = [q EXCEPT !.symmetry_tolerance = q.symmetry_tolerance,
                       !.psd_tolerance = q.psd_tolerance]
  <2> DEFINE n == c.ints[1]
             m == c.ints[2]
             steps == i.ints[1]
             nn == n * n
             mn == m * n
             sm == steps * m
             F == RowsOf(c.words, 2, n, n)
             H == RowsOf(c.words, 2 + nn, m, n)
             Q == RowsOf(c.words, 2 + nn + mn, n, n)
             R == RowsOf(c.words, 2 + nn + mn + nn, m, m)
             x0 == SubSeq(i.words, 1, n)
             P0 == RowsOf(i.words, n, n, n)
             z == RowsOf(i.words, n + nn, steps, m)
             source == SubSeq(i.words, n + nn + sm + 1, Len(i.words))
  <2>1. q = [F |-> F, H |-> H, Q |-> Q, R |-> R, provenance |-> c.ints[4],
             symmetry_tolerance |-> c.words[1], psd_tolerance |-> c.words[2],
             x0 |-> x0, P0 |-> P0, z |-> z, source |-> source]
    BY KalmanMeaning, Zenon
  <2> HIDE DEF q, F, H, Q, R, x0, P0, z, source
  <2> QED BY <2>1
<1>4. /\ Number(q.symmetry_tolerance) = q.symmetry_tolerance
      /\ Number(q.psd_tolerance) = q.psd_tolerance
  BY <1>1, <1>2, <1>3, NoSignedZero
<1> HIDE DEF q
<1>5. AsNumbers("kalman_filter_linear", q)
        = [q EXCEPT !.symmetry_tolerance = Number(q.symmetry_tolerance),
                    !.psd_tolerance = Number(q.psd_tolerance)]
  BY DEF AsNumbers
<1> QED BY <1>3, <1>4, <1>5 DEF q

\* Whatever bytes an operation accepts are the encoding of what it takes them for, its
\* spacing and its tolerances taken for numbers (the encoders of fourier.py,
\* least_squares.py, kalman.py and client.py against the decoders of op_*.cpp).
THEOREM OneMeaningOneEncodingHolds == CodecSpec => []OneMeaningOneEncoding
<1>1. CodecInv => OneMeaningOneEncoding
  <2> DEFINE op == sent.operation
             c == sent.configuration
             i == sent.input
  <2> SUFFICES ASSUME CodecInv, Executed
               PROVE  Encode(op, AsNumbers(op, received.meaning)) = <<c, i>>
    BY DEF OneMeaningOneEncoding
  <2>1. /\ op \in DOMAIN Headers /\ IsPayload(c, Headers[op][1]) /\ IsPayload(i, Headers[op][2])
        /\ Accepted(Decode(op, c, i)) /\ received.meaning = Decode(op, c, i)
    BY ExecutedRan DEF IsSpecification
  <2> HIDE DEF op, c, i
  <2>2. CASE op = "lj_pairwise_energy_forces"
    <3>1. IsPayload(c, 0) /\ IsPayload(i, 0) /\ Decode(op, c, i) = DecodeLj(c, i)
      BY <2>1, <2>2 DEF Headers, Decode
    <3> QED BY <2>1, <2>2, <3>1, LjEncodesBack DEF AsNumbers
  <2>3. CASE op = "fourier_transform_1d"
    <3>1. IsPayload(c, 4) /\ IsPayload(i, 0) /\ Decode(op, c, i) = DecodeFourier(c, i)
      BY <2>1, <2>3 DEF Headers, Decode
    <3> QED BY <2>1, <2>3, <3>1, FourierEncodesBack, FourierIsNumbers
  <2>4. CASE op = "least_squares"
    <3>1. IsPayload(c, 4) /\ IsPayload(i, 2) /\ Decode(op, c, i) = DecodeLeastSquares(c, i)
      BY <2>1, <2>4 DEF Headers, Decode
    <3> QED BY <2>1, <2>4, <3>1, LeastSquaresEncodesBack, LeastSquaresIsNumbers
  <2>5. CASE op = "kalman_filter_linear"
    <3>1. IsPayload(c, 6) /\ IsPayload(i, 2) /\ Decode(op, c, i) = DecodeKalman(c, i)
      BY <2>1, <2>5 DEF Headers, Decode
    <3> QED BY <2>1, <2>5, <3>1, KalmanEncodesBack, KalmanIsNumbers
  <2> QED BY <2>1, <2>2, <2>3, <2>4, <2>5 DEF Headers
<1> QED BY <1>1, CodecInvHolds, PTL

-----------------------------------------------------------------------------
(* What is encoded is decoded to the same call, and is not refused *)

LEMMA Widened ==
    /\ Seq(Float64) \subseteq Seq(EightBytes) /\ Seq({"source"}) \subseteq Seq(EightBytes)
    /\ Seq(Seq(Float64)) \subseteq Seq(Seq(EightBytes))
<1>1. Float64 \subseteq EightBytes /\ {"source"} \subseteq EightBytes
  BY WordsAre DEF Float64
<1>2. Seq(Float64) \subseteq Seq(EightBytes) /\ Seq({"source"}) \subseteq Seq(EightBytes)
  BY <1>1, SeqMonotonic
<1>3. Seq(Seq(Float64)) \subseteq Seq(Seq(EightBytes))
  BY <1>2, SeqMonotonic
<1> QED BY <1>2, <1>3

\* What is known of a word of an ordinary call.
Plain == {"tiny", "half", "source"}

LEMMA PlainWords ==
    \A x \in Plain : /\ AtLeast(x, "0") /\ Less("0", x) /\ isfinite(x) /\ ~signbit(x)
                     /\ Tolerance(x) /\ (x # "source" => Less(x, "1"))
<1> SUFFICES ASSUME NEW x, x = "tiny" \/ x = "half" \/ x = "source"
             PROVE  /\ AtLeast(x, "0") /\ Less("0", x) /\ isfinite(x) /\ ~signbit(x)
                    /\ Tolerance(x) /\ (x # "source" => Less(x, "1"))
  BY DEF Plain
<1>1. x # "nan" /\ x # "inf" /\ x # "-1" /\ x # "-0"
  OBVIOUS
<1>2. isfinite(x) /\ ~signbit(x)
  BY <1>1 DEF isfinite, signbit
<1>3. rank(x) \in {4, 5, 7} /\ (x # "source" => rank(x) \in {4, 5})
  BY Ranks
<1>4. AtLeast(x, "0") /\ Less("0", x)
  BY <1>1, <1>3, Ranks DEF AtLeast, Less
<1>5. x # "source" => Less(x, "1")
  BY <1>1, <1>3, Ranks DEF Less
<1> QED BY <1>2, <1>4, <1>5 DEF Tolerance

LEMMA LjMessage ==
    ASSUME NEW q \in Message("lj_pairwise_energy_forces")
    PROVE  /\ q = [epsilon |-> q.epsilon, sigma |-> q.sigma, cutoff |-> q.cutoff,
                   positions |-> q.positions]
           /\ q.epsilon \in Float64 /\ q.sigma \in Float64 /\ q.cutoff \in Float64
           /\ q.positions \in Seq(Seq(Float64))
           /\ \A r \in 1..Len(q.positions) : Len(q.positions[r]) = 3
<1>1. q \in [epsilon : Float64, sigma : Float64, cutoff : Float64,
             positions : Seq([1..3 -> Float64])]
  BY DEF Message
<1> DEFINE P == q.positions
<1>2. P \in Seq([1..3 -> Float64])
  BY <1>1
<1> HIDE DEF P
<1>3. P \in Seq(Seq(Float64)) /\ \A r \in 1..Len(P) : Len(P[r]) = 3
  BY <1>2, Tuples
<1> QED BY <1>1, <1>3 DEF P

LEMMA LjDecodes ==
    ASSUME NEW q \in Message("lj_pairwise_energy_forces")
    PROVE  LET c == encode_lj_configuration(q)
               i == encode_lj_positions(q)
           IN  /\ Len(i.words) = Len(q.positions) * 3 /\ Len(q.positions) \in Nat
               /\ DecodeLj(c, i) = IF validate_lj_input(q) THEN q ELSE Refused
<1> DEFINE P == q.positions
           words == FlattenSeq(P)
<1>1. P \in Seq(Seq(Float64)) /\ \A r \in 1..Len(P) : Len(P[r]) = 3
  BY LjMessage
<1> HIDE DEF P
<1>2. Len(words) = Len(P) * 3 /\ Len(P) \in Nat
  <2> DEFINE w == 3
  <2>1. w \in Nat /\ \A r \in 1..Len(P) : Len(P[r]) = w
    BY <1>1
  <2> HIDE DEF w
  <2>2. Len(words) = Len(P) * w
    BY <1>1, <2>1, FlattenMatrix
  <2> QED BY <1>1, <2>2, LenProperties DEF w
<1>3. RowsOf(words, 0, Len(P), 3) = P
  BY <1>1, Uncut
<1>4. Len(words) % 3 = 0 /\ Len(words) \div 3 = Len(P)
  <2> DEFINE l == Len(words)
             n == Len(P)
  <2>1. n \in Nat /\ l = n * 3
    BY <1>2
  <2> HIDE DEF l, n
  <2> QED BY <2>1 DEF l, n
<1> HIDE DEF words
<1>5. /\ encode_lj_configuration(q).words = <<q.epsilon, q.sigma, q.cutoff>>
      /\ encode_lj_positions(q).words = words
  BY DEF encode_lj_configuration, encode_lj_positions, Payload, words, P
<1>6. q = [epsilon |-> q.epsilon, sigma |-> q.sigma, cutoff |-> q.cutoff, positions |-> P]
  BY LjMessage DEF P
<1> QED BY <1>2, <1>3, <1>4, <1>5, <1>6 DEF DecodeLj, P

LEMMA LjAccepted ==
    ASSUME NEW q \in Message("lj_pairwise_energy_forces"),
           Ordinary("lj_pairwise_energy_forces", q)
    PROVE  validate_lj_input(q)
<1> DEFINE P == q.positions
           words == FlattenSeq(P)
<1>1. P \in Seq(Seq(Float64)) /\ \A r \in 1..Len(P) : Len(P[r]) = 3
  BY LjMessage
<1>2. /\ words # <<>> /\ \A k \in DOMAIN words : words[k] \in Plain
      /\ q.epsilon \in Plain /\ q.sigma \in Plain /\ q.cutoff \in Plain
  <2>1. /\ Encode("lj_pairwise_energy_forces", q)[1]
             = Payload(<<>>, <<q.epsilon, q.sigma, q.cutoff>>)
        /\ Encode("lj_pairwise_energy_forces", q)[2] = Payload(<<>>, words)
    BY DEF Encode, encode_lj_configuration, encode_lj_positions
  <2>2. \A h \in {Payload(<<>>, <<q.epsilon, q.sigma, q.cutoff>>), Payload(<<>>, words)} :
          h.words # <<>> /\ \A k \in DOMAIN h.words : h.words[k] \in Plain
    BY <2>1 DEF Ordinary, Plain
  <2>3. words # <<>> /\ \A k \in DOMAIN words : words[k] \in Plain
    BY <2>2 DEF Payload
  <2> DEFINE three == <<q.epsilon, q.sigma, q.cutoff>>
  <2>4. \A k \in DOMAIN three : three[k] \in Plain
    BY <2>2 DEF Payload
  <2>5. 1 \in DOMAIN three /\ 2 \in DOMAIN three /\ 3 \in DOMAIN three
    OBVIOUS
  <2> QED BY <2>3, <2>4, <2>5
<1> HIDE DEF P
<1>3. P # <<>>
  BY <1>2 DEF FlattenSeq
<1>4. ASSUME NEW k \in DOMAIN P PROVE Finite(P[k])
  <2>1. k \in 1..Len(P) /\ Len(P[k]) = 3 /\ P[k] \in Seq(Float64)
    BY <1>1, LenProperties, ElementOfSeq
  <2> DEFINE w == 3
  <2>2. w \in Nat /\ \A r \in 1..Len(P) : Len(P[r]) = w
    BY <1>1
  <2>3. DOMAIN P[k] = 1..w
    BY <2>1, LenProperties
  <2> HIDE DEF w
  <2>4. /\ words \in Seq(Float64) /\ Len(words) = Len(P) * w
        /\ \A j \in 1..w : words[(k - 1) * w + j] = P[k][j]
    BY <1>1, <2>1, <2>2, FlattenMatrix
  <2>5. (k - 1) * w \in Nat /\ (k - 1) * w + w <= Len(P) * w
    BY <1>1, <2>1, <2>2, RowsBefore, LenProperties
  <2>6. ASSUME NEW j \in 1..w PROVE isfinite(P[k][j])
    <3> DEFINE at == (k - 1) * w
               all == Len(P) * w
    <3>1. at \in Nat /\ at + w <= all /\ all = Len(words) /\ Len(words) \in Nat
      BY <2>4, <2>5, LenProperties
    <3> HIDE DEF at, all
    <3>2. at + j \in 1..Len(words)
      BY <2>2, <3>1
    <3>3. words[at + j] \in Plain
      BY <1>2, <2>4, <3>2, LenProperties
    <3> QED BY <2>4, <3>3, PlainWords DEF at
  <2> QED BY <2>3, <2>6 DEF Finite
<1> QED BY <1>2, <1>3, <1>4, PlainWords DEF validate_lj_input, P

LEMMA FourierMessage ==
    ASSUME NEW q \in Message("fourier_transform_1d")
    PROVE  /\ q = [direction |-> q.direction, normalization |-> q.normalization,
                   spacing |-> q.spacing, signal |-> q.signal]
           /\ q.spacing \in Float64 \cup {"None"}
           /\ q.signal \in Seq(Seq(Float64))
           /\ \A r \in 1..Len(q.signal) : Len(q.signal[r]) = 2
<1>1. q \in [direction : Int, normalization : Int, spacing : Float64 \cup {"None"},
             signal : Seq([1..2 -> Float64])]
  BY DEF Message
<1> DEFINE S == q.signal
<1>2. S \in Seq([1..2 -> Float64])
  BY <1>1
<1> HIDE DEF S
<1>3. S \in Seq(Seq(Float64)) /\ \A r \in 1..Len(S) : Len(S[r]) = 2
  BY <1>2, Tuples
<1> QED BY <1>1, <1>3 DEF S

LEMMA FourierDecodes ==
    ASSUME NEW q \in Message("fourier_transform_1d")
    PROVE  LET c == encode_fourier_configuration(q)
               i == encode_complex_signal(q)
               absent == q.spacing = "None"
           IN  DecodeFourier(c, i) =
                 IF /\ i.words # <<>> /\ Finite(i.words)
                    /\ q.direction \in {1, -1} /\ q.normalization \in {0, 1, 2}
                    /\ SpacingIsCanonical(IF absent THEN 0 ELSE 1,
                                          IF absent THEN "0" ELSE q.spacing)
                 THEN q ELSE Refused
<1> DEFINE S == q.signal
           words == FlattenSeq(S)
           flag == IF q.spacing = "None" THEN 0 ELSE 1
           word == IF q.spacing = "None" THEN "0" ELSE q.spacing
<1>1. S \in Seq(Seq(Float64)) /\ \A r \in 1..Len(S) : Len(S[r]) = 2
  BY FourierMessage
<1> HIDE DEF S
<1>2. Len(words) = Len(S) * 2 /\ Len(S) \in Nat
  <2> DEFINE w == 2
  <2>1. w \in Nat /\ \A r \in 1..Len(S) : Len(S[r]) = w
    BY <1>1
  <2> HIDE DEF w
  <2>2. Len(words) = Len(S) * w
    BY <1>1, <2>1, FlattenMatrix
  <2> QED BY <1>1, <2>2, LenProperties DEF w
<1>3. RowsOf(words, 0, Len(S), 2) = S
  BY <1>1, Uncut
<1>4. Len(words) % 2 = 0 /\ Len(words) \div 2 = Len(S)
  <2> DEFINE l == Len(words)
             n == Len(S)
  <2>1. n \in Nat /\ l = n * 2
    BY <1>2
  <2> HIDE DEF l, n
  <2> QED BY <2>1 DEF l, n
<1>5. /\ flag = 1 <=> q.spacing # "None"
      /\ q.spacing = IF flag = 1 THEN word ELSE "None"
  OBVIOUS
<1> HIDE DEF words, flag, word
<1>6. /\ encode_fourier_configuration(q) = Payload(<<q.direction, q.normalization, flag, 0>>, <<word>>)
      /\ encode_complex_signal(q) = Payload(<<>>, words)
  BY DEF encode_fourier_configuration, encode_complex_signal, words, S, flag, word
<1> DEFINE c == Payload(<<q.direction, q.normalization, flag, 0>>, <<word>>)
           i == Payload(<<>>, words)
<1>7. /\ c.ints[1] = q.direction /\ c.ints[2] = q.normalization /\ c.ints[3] = flag /\ c.ints[4] = 0
      /\ Len(c.words) = 1 /\ c.words[1] = word /\ i.words = words
  BY DEF Payload
<1> HIDE DEF c, i
<1>8. q = [direction |-> q.direction, normalization |-> q.normalization,
           spacing |-> IF flag = 1 THEN word ELSE "None", signal |-> S]
  BY <1>5, FourierMessage DEF S
<1>9. DecodeFourier(c, i) =
        IF /\ words # <<>> /\ Finite(words)
           /\ q.direction \in {1, -1} /\ q.normalization \in {0, 1, 2}
           /\ SpacingIsCanonical(flag, word)
        THEN q ELSE Refused
  BY <1>3, <1>4, <1>7, <1>8 DEF DecodeFourier
<1> QED BY <1>6, <1>7, <1>9 DEF flag, word, c, i

LEMMA FourierAccepted ==
    ASSUME NEW q \in Message("fourier_transform_1d"), Ordinary("fourier_transform_1d", q)
    PROVE  LET i == encode_complex_signal(q)
               absent == q.spacing = "None"
           IN  /\ i.words # <<>> /\ Finite(i.words)
               /\ q.direction \in {1, -1} /\ q.normalization \in {0, 1, 2}
               /\ SpacingIsCanonical(IF absent THEN 0 ELSE 1, IF absent THEN "0" ELSE q.spacing)
<1> DEFINE c == encode_fourier_configuration(q)
           i == encode_complex_signal(q)
<1>1. /\ Encode("fourier_transform_1d", q)[1] = c /\ Encode("fourier_transform_1d", q)[2] = i
  BY DEF Encode
<1>2. c # i
  <2>1. c.ints # i.ints
    BY DEF encode_fourier_configuration, encode_complex_signal, Payload
  <2> QED BY <2>1
<1> HIDE DEF c, i
<1>3. /\ q.direction \in {1, -1} /\ q.normalization \in {0, 1, 2}
      /\ \A h \in {c, i} :
            /\ h.words # <<>>
            /\ \A k \in DOMAIN h.words : h.words[k] \in Plain \/ (q.spacing = "None" /\ h = c)
  BY <1>1 DEF Ordinary, Plain
<1>4. i.words # <<>> /\ \A k \in DOMAIN i.words : i.words[k] \in Plain
  BY <1>2, <1>3
<1>5. Finite(i.words)
  BY <1>4, PlainWords DEF Finite
<1>6. CASE q.spacing = "None"
  <2>1. SpacingIsCanonical(0, "0")
    BY Ranks DEF SpacingIsCanonical, AtLeast, signbit
  <2> QED BY <1>3, <1>4, <1>5, <1>6, <2>1 DEF i
<1>7. CASE q.spacing # "None"
  <2>1. c.words = <<q.spacing>>
    BY <1>7 DEF c, encode_fourier_configuration, Payload
  <2>2. 1 \in DOMAIN c.words /\ c.words[1] = q.spacing
    BY <2>1
  <2>3. q.spacing \in Plain
    BY <1>3, <1>7, <2>2
  <2>4. SpacingIsCanonical(1, q.spacing)
    BY <2>3, PlainWords DEF SpacingIsCanonical
  <2> QED BY <1>3, <1>4, <1>5, <1>7, <2>4 DEF i
<1> QED BY <1>6, <1>7

LEMMA LeastSquaresMessage ==
    ASSUME NEW q \in Message("least_squares")
    PROVE  /\ q = [weighted |-> q.weighted, rank_tolerance |-> q.rank_tolerance,
                   design |-> q.design, response |-> q.response, weights |-> q.weights]
           /\ q.weighted \in BOOLEAN /\ q.rank_tolerance \in Float64
           /\ q.design \in Seq(Seq(EightBytes)) /\ q.response \in Seq(EightBytes)
           /\ q.weights \in Seq(EightBytes)
<1>1. q \in [weighted : BOOLEAN, rank_tolerance : Float64, design : Seq(Seq(Float64)),
             response : Seq(Float64), weights : Seq(Float64)]
  BY DEF Message
<1>2. /\ q.weighted \in BOOLEAN /\ q.rank_tolerance \in Float64
      /\ q.design \in Seq(Seq(Float64)) /\ q.response \in Seq(Float64)
      /\ q.weights \in Seq(Float64)
  BY <1>1
<1>3. /\ q.design \in Seq(Seq(EightBytes)) /\ q.response \in Seq(EightBytes)
      /\ q.weights \in Seq(EightBytes)
  BY <1>2, Widened, Zenon
<1>4. q = [weighted |-> q.weighted, rank_tolerance |-> q.rank_tolerance,
           design |-> q.design, response |-> q.response, weights |-> q.weights]
  BY <1>1
<1> QED BY <1>2, <1>3, <1>4

\* Where a matrix and three sequences after it are found.
AreLaidDown(words, V, s, t, u, v) ==
    /\ words \in Seq(V) /\ Len(words) = Len(s) + Len(t) + Len(u) + Len(v)
    /\ {Len(s), Len(t), Len(u), Len(v)} \subseteq Nat
    /\ At(words, 0, s) /\ At(words, Len(s), t) /\ At(words, Len(s) + Len(t), u)
    /\ At(words, Len(s) + Len(t) + Len(u), v)

LEMMA LaidDown ==
    ASSUME NEW V, NEW s \in Seq(V), NEW t \in Seq(V), NEW u \in Seq(V), NEW v \in Seq(V)
    PROVE  AreLaidDown(Cat(Cat(Cat(s, t), u), v), V, s, t, u, v)
<1> DEFINE st == Cat(s, t)
           stu == Cat(st, u)
           stuv == Cat(stu, v)
<1>1. st \in Seq(V)
  BY CatIsSeq
<1> HIDE DEF st
<1>2. stu \in Seq(V)
  BY <1>1, CatIsSeq
<1> HIDE DEF stu
<1>3. stuv \in Seq(V)
  BY <1>2, CatIsSeq
<1>4. IsCat(st, V, s, t) /\ IsCat(stu, V, st, u) /\ IsCat(stuv, V, stu, v)
  BY <1>1, <1>2, CatProperties DEF st, stu
<1>5. /\ At(st, 0, s) /\ At(st, Len(s), t)
      /\ \A k \in Nat, x \in Seq(V) : At(st, k, x) => At(stu, k, x)
  BY <1>1, CatAt DEF st, stu
<1>6. /\ At(stu, Len(st), u)
      /\ \A k \in Nat, x \in Seq(V) : At(stu, k, x) => At(stuv, k, x)
  BY <1>1, <1>2, CatAt DEF stu
<1>7. At(stuv, Len(stu), v)
  BY <1>2, CatAt
<1> HIDE DEF stuv
<1>8. /\ Len(s) \in Nat /\ Len(t) \in Nat /\ Len(u) \in Nat /\ Len(v) \in Nat
      /\ Len(st) = Len(s) + Len(t) /\ Len(stu) = Len(st) + Len(u)
      /\ Len(stuv) = Len(stu) + Len(v)
  BY <1>4 DEF IsCat
<1>9. /\ Len(stu) = Len(s) + Len(t) + Len(u) /\ Len(st) \in Nat /\ Len(stu) \in Nat
      /\ Len(stuv) = Len(s) + Len(t) + Len(u) + Len(v) /\ 0 \in Nat
  BY <1>8
<1>10. At(stuv, 0, s) /\ At(stuv, Len(s), t) /\ At(stuv, Len(st), u)
  BY <1>5, <1>6, <1>8, <1>9
<1>11. AreLaidDown(stuv, V, s, t, u, v)
  <2>1. {Len(s), Len(t), Len(u), Len(v)} \subseteq Nat
    BY <1>8
  <2>2. Len(st) = Len(s) + Len(t)
    BY <1>8
  <2> QED BY <1>3, <1>7, <1>9, <1>10, <2>1, <2>2, Zenon DEF AreLaidDown, stuv
<1> QED BY <1>11 DEF stuv, stu, st

\* A design, a response and weights, each where the operation looks for it.
LEMMA LeastSquaresLaidDown ==
    ASSUME NEW q \in Message("least_squares"), ~Raises(encode_least_squares_input(q))
    PROVE  LET rows == Len(q.design)   cols == Len(q.design[1])   given == rows * cols
               i == encode_least_squares_input(q)
           IN  /\ rows \in Nat \ {0} /\ cols \in Nat /\ given \in Nat
               /\ i.ints = <<rows, cols>> /\ i.words \in Seq(EightBytes)
               /\ Len(q.weights) \in Nat /\ Len(i.words) = given + rows + Len(q.weights)
               /\ IF q.weights = <<>> THEN Len(q.weights) = 0 ELSE Len(q.weights) = rows
               /\ RowsOf(i.words, 0, rows, cols) = q.design
               /\ SubSeq(i.words, given + 1, given + rows) = q.response
               /\ SubSeq(i.words, given + rows + 1, Len(i.words)) = q.weights
<1> DEFINE M == q.design
           t == q.response
           u == q.weights
           s == FlattenSeq(M)
           rows == Len(M)
           cols == Len(M[1])
           given == rows * cols
           words == Cat(Cat(s, t), u)
<1>1. M \in Seq(Seq(EightBytes)) /\ t \in Seq(EightBytes) /\ u \in Seq(EightBytes)
  BY LeastSquaresMessage
<1>2. /\ rows # 0 /\ Len(t) = rows /\ IsMatrix(M, rows, cols) /\ (u = <<>> \/ Len(u) = rows)
      /\ encode_least_squares_input(q) = Payload(<<rows, cols>>, s \o t \o u)
  BY Zenon DEF encode_least_squares_input, Raises, ValueError
<1> HIDE DEF M, t, u
<1>3. /\ rows \in Nat \ {0} /\ cols \in Nat /\ \A r \in 1..rows : Len(M[r]) = cols
      /\ Len(u) \in Nat /\ (u = <<>> => Len(u) = 0)
  <2>1. rows \in Nat \ {0} /\ DOMAIN M = 1..rows /\ Len(u) \in Nat
    BY <1>1, <1>2, LenProperties
  <2>2. M[1] \in Seq(EightBytes)
    BY <1>1, <2>1, ElementOfSeq
  <2>3. cols \in Nat
    BY <2>2, LenProperties
  <2>4. u = <<>> => Len(u) = 0
    OBVIOUS
  <2> QED BY <1>2, <2>1, <2>3, <2>4 DEF IsMatrix
<1> HIDE DEF cols
<1>4. s \in Seq(EightBytes) /\ Len(s) = given
  BY <1>1, <1>3, FlattenMatrix
<1>5. given \in Nat
  BY <1>4, LenProperties
<1> HIDE DEF s, given, rows
<1>6. Cat(s, t) \in Seq(EightBytes) /\ IsCat(Cat(s, t), EightBytes, s, t)
  BY <1>1, <1>4, CatIsSeq, CatProperties
<1>7. words \in Seq(EightBytes) /\ IsCat(words, EightBytes, Cat(s, t), u)
  BY <1>1, <1>6, CatIsSeq, CatProperties
<1>8. Len(Cat(s, t)) = given + rows /\ Len(words) = given + rows + Len(u)
  <2>1. Len(Cat(s, t)) = Len(s) + Len(t) /\ Len(words) = Len(Cat(s, t)) + Len(u)
    BY <1>6, <1>7 DEF IsCat
  <2> QED BY <1>2, <1>4, <2>1 DEF rows
<1>9. At(Cat(s, t), 0, s) /\ At(Cat(s, t), given, t)
  BY <1>1, <1>4, CatAt
<1>10. /\ At(words, Len(Cat(s, t)), u)
       /\ \A k \in Nat, x \in Seq(EightBytes) : At(Cat(s, t), k, x) => At(words, k, x)
  BY <1>1, <1>6, CatAt
<1> HIDE DEF words
<1>11. At(words, 0, s) /\ At(words, given, t) /\ At(words, given + rows, u)
  <2>1. 0 \in Nat
    OBVIOUS
  <2> QED BY <1>1, <1>4, <1>5, <1>8, <1>9, <1>10, <2>1, Zenon
<1>12. RowsOf(words, 0, rows, cols) = M
  <2>1. \A r \in 1..Len(M) : Len(M[r]) = cols
    BY <1>3 DEF rows
  <2>2. RowsOf(words, 0, Len(M), cols) = M
    BY <1>1, <1>3, <1>7, <1>11, <2>1, AtRows DEF s
  <2> QED BY <2>2 DEF rows
<1>13. Part(words, given, rows) = t
  <2>1. Part(words, given, Len(t)) = t
    BY <1>1, <1>5, <1>7, <1>11, AtPart
  <2> QED BY <1>2, <2>1 DEF rows
<1>14. SubSeq(words, given + rows + 1, Len(words)) = u
  <2>1. given + rows \in Nat
    BY <1>3, <1>5
  <2>2. Part(words, given + rows, Len(u)) = u
    BY <1>1, <1>7, <1>11, <2>1, AtPart
  <2> QED BY <1>8, <2>2, Zenon DEF Part
<1>15. encode_least_squares_input(q) = Payload(<<rows, cols>>, words)
  BY <1>2, Zenon DEF words, Cat, rows, cols
<1>16. encode_least_squares_input(q).ints = <<rows, cols>> /\ encode_least_squares_input(q).words = words
  BY <1>15 DEF Payload
<1>17. IF u = <<>> THEN Len(u) = 0 ELSE Len(u) = rows
  BY <1>2, <1>3 DEF rows
<1>18. SubSeq(words, given + 1, given + rows) = t
  BY <1>13, Zenon DEF Part
<1> QED
  BY <1>3, <1>5, <1>7, <1>8, <1>12, <1>14, <1>16, <1>17, <1>18, Zenon
     DEF M, t, u, given, rows, cols

LEMMA LeastSquaresDecodes ==
    ASSUME NEW q \in Message("least_squares"), ~Raises(encode_least_squares_input(q)),
           Accepted(DecodeLeastSquares(encode_least_squares_configuration(q),
                                       encode_least_squares_input(q)))
    PROVE  DecodeLeastSquares(encode_least_squares_configuration(q),
                              encode_least_squares_input(q)) = q
<1> DEFINE c == encode_least_squares_configuration(q)
           i == encode_least_squares_input(q)
           rows == Len(q.design)
           cols == Len(q.design[1])
           given == rows * cols
<1>1. /\ i.ints = <<rows, cols>>
      /\ RowsOf(i.words, 0, rows, cols) = q.design
      /\ SubSeq(i.words, given + 1, given + rows) = q.response
      /\ SubSeq(i.words, given + rows + 1, Len(i.words)) = q.weights
  BY LeastSquaresLaidDown, Zenon
<1>2. /\ q.weighted = (c.ints[1] = 1) /\ c.words[1] = q.rank_tolerance
  <2>1. q.weighted = TRUE \/ q.weighted = FALSE
    BY LeastSquaresMessage
  <2>2. c.ints[1] = (IF q.weighted THEN 1 ELSE 0) /\ c.words[1] = q.rank_tolerance
    BY DEF encode_least_squares_configuration, Payload
  <2> HIDE DEF c
  <2>3. q.weighted = TRUE => c.ints[1] = 1
    BY <2>2
  <2>4. q.weighted = FALSE => c.ints[1] # 1
    BY <2>2
  <2>5. q.weighted = (c.ints[1] = 1)
    BY <2>1, <2>3, <2>4, Zenon
  <2> QED BY <2>2, <2>5
<1>3. Accepted(DecodeLeastSquares(c, i))
  OBVIOUS
<1> HIDE DEF c, i
<1>4. DecodeLeastSquares(c, i) =
        [weighted |-> c.ints[1] = 1, rank_tolerance |-> c.words[1],
         design |-> RowsOf(i.words, 0, i.ints[1], i.ints[2]),
         response |-> SubSeq(i.words, i.ints[1] * i.ints[2] + 1,
                             i.ints[1] * i.ints[2] + i.ints[1]),
         weights |-> SubSeq(i.words, i.ints[1] * i.ints[2] + i.ints[1] + 1, Len(i.words))]
  BY <1>3, Zenon DEF DecodeLeastSquares, Accepted, Refused
<1> HIDE DEF rows, cols
<1>5. i.ints[1] = rows /\ i.ints[2] = cols
  BY <1>1
<1>6. q = [weighted |-> q.weighted, rank_tolerance |-> q.rank_tolerance,
           design |-> q.design, response |-> q.response, weights |-> q.weights]
  BY LeastSquaresMessage
<1>7. DecodeLeastSquares(c, i) = q
  BY <1>1, <1>2, <1>4, <1>5, <1>6, Zenon
<1> QED BY <1>7 DEF c, i

LEMMA LeastSquaresAccepted ==
    ASSUME NEW q \in Message("least_squares"), ~Raises(encode_least_squares_input(q)),
           Agree("least_squares", q), Ordinary("least_squares", q)
    PROVE  Accepted(DecodeLeastSquares(encode_least_squares_configuration(q),
                                       encode_least_squares_input(q)))
<1> DEFINE c == encode_least_squares_configuration(q)
           i == encode_least_squares_input(q)
           words == i.words
           rows == Len(q.design)
           cols == Len(q.design[1])
           given == rows * cols
           weighted == IF q.weighted THEN 1 ELSE 0
           left == Len(q.weights)
<1>1. /\ rows \in Nat \ {0} /\ cols \in Nat /\ given \in Nat
      /\ i.ints = <<rows, cols>> /\ words \in Seq(EightBytes)
      /\ left \in Nat /\ Len(words) = given + rows + left
      /\ IF q.weights = <<>> THEN left = 0 ELSE left = rows
  BY LeastSquaresLaidDown, Zenon
<1>2. c = Payload(<<weighted, 0, 0, 0>>, <<q.rank_tolerance>>)
  BY DEF encode_least_squares_configuration
<1>3. /\ q.weighted <=> q.weights # <<>>
      /\ rows >= cols
  BY DEF Agree
<1>4. q.design[1] # <<>>
  BY DEF Ordinary
<1>5. q.design[1] \in Seq(EightBytes)
  <2>1. q.design \in Seq(Seq(EightBytes))
    BY LeastSquaresMessage
  <2>2. 1 \in 1..Len(q.design)
    BY <1>1
  <2> QED BY <2>1, <2>2, ElementOfSeq
<1>6. cols # 0
  BY <1>4, <1>5, EmptySeq
<1>7. \A k \in DOMAIN words : words[k] \in Plain
  <2>1. Encode("least_squares", q)[2] = i
    BY DEF Encode
  <2> HIDE DEF i
  <2> QED BY <2>1 DEF Ordinary, Plain
<1>8. q.rank_tolerance \in Plain /\ q.rank_tolerance # "source"
  <2>1. Encode("least_squares", q)[1] = c
    BY DEF Encode
  <2>2. c.words = <<q.rank_tolerance>>
    BY <1>2 DEF Payload
  <2> HIDE DEF c
  <2>3. \A k \in DOMAIN c.words : c.words[k] \in Plain
    BY <2>1 DEF Ordinary, Plain
  <2>4. 1 \in DOMAIN c.words /\ c.words[1] = q.rank_tolerance
    BY <2>2
  <2>5. q.rank_tolerance \in Float64
    BY LeastSquaresMessage
  <2> QED BY <2>3, <2>4, <2>5 DEF Float64
<1>9. /\ Len(c.words) = 1 /\ c.words[1] = q.rank_tolerance
      /\ c.ints[1] = weighted /\ \A k \in 2..4 : c.ints[k] = 0
  <2> HIDE DEF weighted
  <2>1. Len(c.words) = 1 /\ c.words[1] = q.rank_tolerance /\ c.ints = <<weighted, 0, 0, 0>>
    BY <1>2 DEF Payload
  <2> QED BY <2>1
<1> HIDE DEF c, rows, cols, i, left
<1>10. i.ints[1] = rows /\ i.ints[2] = cols
  BY <1>1
<1>11. weighted \in {0, 1} /\ left = rows * weighted
  <2>1. CASE q.weighted
    BY <1>1, <1>3, <2>1
  <2>2. CASE ~q.weighted
    BY <1>1, <1>3, <2>2
  <2> QED BY <2>1, <2>2
<1> HIDE DEF weighted
<1>12. Len(words) = given + rows * (1 + weighted)
  <2> HIDE DEF given, words
  <2>1. CASE weighted = 0
    BY <1>1, <1>11, <2>1
  <2>2. CASE weighted = 1
    BY <1>1, <1>11, <2>2
  <2> QED BY <1>11, <2>1, <2>2
<1>13. /\ isfinite(q.rank_tolerance) /\ Less("0", q.rank_tolerance)
       /\ Less(q.rank_tolerance, "1")
  BY <1>8, PlainWords
<1>14. cols > 0 /\ rows >= cols
  BY <1>1, <1>3, <1>6 DEF rows, cols
<1> HIDE DEF given, words
<1>15. DOMAIN words = 1..Len(words)
  BY <1>1, LenProperties
<1>16. Finite(SubSeq(words, 1, given + rows))
  <2> DEFINE p == Part(words, 0, given + rows)
  <2>1. 0 \in Nat /\ given + rows \in Nat /\ 0 + (given + rows) <= Len(words)
    BY <1>1
  <2>2. IsPart(p, EightBytes, words, 0, given + rows)
    BY <1>1, <2>1, PartProperties
  <2>3. p \in Seq(EightBytes) /\ Len(p) = given + rows /\ \A j \in 1..(given + rows) : p[j] = words[j]
    <3> HIDE DEF p
    <3> QED BY <2>2 DEF IsPart
  <2>4. p = SubSeq(words, 1, given + rows)
    <3>1. 0 + 1 = 1 /\ 0 + (given + rows) = given + rows
      BY <1>1
    <3> QED BY <3>1, Zenon DEF Part
  <2> HIDE DEF p
  <2>5. DOMAIN p = 1..(given + rows)
    BY <2>3, LenProperties
  <2>6. \A j \in DOMAIN p : j \in DOMAIN words /\ p[j] = words[j]
    BY <1>1, <1>15, <2>3, <2>5
  <2>7. Finite(p)
    BY <1>7, <2>6, PlainWords DEF Finite
  <2> QED BY <2>4, <2>7
<1>17. \A k \in (given + rows + 1)..Len(words) : isfinite(words[k]) /\ AtLeast(words[k], "0")
  <2> TAKE k \in (given + rows + 1)..Len(words)
  <2>1. k \in DOMAIN words
    BY <1>1, <1>15
  <2> QED BY <1>7, <2>1, PlainWords
<1>18. Accepted(DecodeLeastSquares(c, i))
  BY <1>9, <1>10, <1>11, <1>12, <1>13, <1>14, <1>16, <1>17
     DEF DecodeLeastSquares, Accepted, words, given
<1> QED BY <1>18 DEF c, i

LEMMA KalmanMessage ==
    ASSUME NEW q \in Message("kalman_filter_linear")
    PROVE  /\ q = [F |-> q.F, H |-> q.H, Q |-> q.Q, R |-> q.R, provenance |-> q.provenance,
                   symmetry_tolerance |-> q.symmetry_tolerance,
                   psd_tolerance |-> q.psd_tolerance, x0 |-> q.x0, P0 |-> q.P0, z |-> q.z,
                   source |-> q.source]
           /\ q.F \in Seq(Seq(EightBytes)) /\ q.H \in Seq(Seq(EightBytes))
           /\ q.Q \in Seq(Seq(EightBytes)) /\ q.R \in Seq(Seq(EightBytes))
           /\ q.symmetry_tolerance \in EightBytes /\ q.psd_tolerance \in EightBytes
           /\ q.x0 \in Seq(EightBytes) /\ q.P0 \in Seq(Seq(EightBytes))
           /\ q.z \in Seq(Seq(EightBytes)) /\ q.source \in Seq(EightBytes)
<1>1. q \in [F : Seq(Seq(Float64)), H : Seq(Seq(Float64)), Q : Seq(Seq(Float64)),
             R : Seq(Seq(Float64)), provenance : Int, symmetry_tolerance : Float64,
             psd_tolerance : Float64, x0 : Seq(Float64), P0 : Seq(Seq(Float64)),
             z : Seq(Seq(Float64)), source : Seq({"source"})]
  BY DEF Message
<1>2. /\ q.F \in Seq(Seq(Float64)) /\ q.H \in Seq(Seq(Float64)) /\ q.Q \in Seq(Seq(Float64))
      /\ q.R \in Seq(Seq(Float64)) /\ q.symmetry_tolerance \in Float64
      /\ q.psd_tolerance \in Float64 /\ q.x0 \in Seq(Float64) /\ q.P0 \in Seq(Seq(Float64))
      /\ q.z \in Seq(Seq(Float64)) /\ q.source \in Seq({"source"})
  BY <1>1
<1>3. /\ q.F \in Seq(Seq(EightBytes)) /\ q.H \in Seq(Seq(EightBytes))
      /\ q.Q \in Seq(Seq(EightBytes)) /\ q.R \in Seq(Seq(EightBytes))
      /\ q.x0 \in Seq(EightBytes) /\ q.P0 \in Seq(Seq(EightBytes))
      /\ q.z \in Seq(Seq(EightBytes)) /\ q.source \in Seq(EightBytes)
  BY <1>2, Widened, Zenon
<1>4. q.symmetry_tolerance \in EightBytes /\ q.psd_tolerance \in EightBytes
  BY <1>2 DEF Float64
<1>5. q = [F |-> q.F, H |-> q.H, Q |-> q.Q, R |-> q.R, provenance |-> q.provenance,
           symmetry_tolerance |-> q.symmetry_tolerance,
           psd_tolerance |-> q.psd_tolerance, x0 |-> q.x0, P0 |-> q.P0, z |-> q.z,
           source |-> q.source]
  BY <1>1
<1> QED BY <1>3, <1>4, <1>5, Zenon

\* A matrix of any shape, as long when it is laid down as its shape says.
IsRows(M, rows, cols) ==
    /\ M \in Seq(Seq(EightBytes)) /\ Len(M) = rows /\ rows \in Nat /\ cols \in Nat
    /\ \A r \in 1..Len(M) : Len(M[r]) = cols
    /\ FlattenSeq(M) \in Seq(EightBytes) /\ Len(FlattenSeq(M)) = rows * cols
    /\ rows * cols \in Nat

LEMMA MatrixIsRows ==
    ASSUME NEW M \in Seq(Seq(EightBytes)), NEW rows, NEW cols \in Nat, IsMatrix(M, rows, cols)
    PROVE  IsRows(M, rows, cols)
<1>1. Len(M) = rows /\ rows \in Nat /\ DOMAIN M = 1..Len(M)
  BY LenProperties DEF IsMatrix
<1>2. \A r \in 1..Len(M) : Len(M[r]) = cols
  BY <1>1 DEF IsMatrix
<1>3. FlattenSeq(M) \in Seq(EightBytes) /\ Len(FlattenSeq(M)) = Len(M) * cols
  BY <1>2, FlattenMatrix
<1>4. rows * cols \in Nat
  BY <1>1, OneMoreRow
<1> QED BY <1>1, <1>2, <1>3, <1>4 DEF IsRows

LEMMA RowsFound ==
    ASSUME NEW words \in Seq(EightBytes), NEW start \in Nat, NEW M, NEW rows, NEW cols,
           IsRows(M, rows, cols), At(words, start, FlattenSeq(M))
    PROVE  RowsOf(words, start, rows, cols) = M
<1>1. /\ M \in Seq(Seq(EightBytes)) /\ Len(M) = rows /\ cols \in Nat
      /\ \A r \in 1..Len(M) : Len(M[r]) = cols
  BY DEF IsRows
<1>2. RowsOf(words, start, Len(M), cols) = M
  BY <1>1, AtRows
<1> QED BY <1>1, <1>2

\* A configuration, each matrix where the operation looks for it.
FoundInConfiguration(q, c, n, m, nn, mn, mm) ==
    /\ c.ints = <<n, m, 0, q.provenance, 0, 0>> /\ c.words \in Seq(EightBytes)
    /\ {n, m, nn, mn, mm} \subseteq Nat /\ nn = n * n /\ mn = m * n /\ mm = m * m
    /\ Len(c.words) = 2 + nn + mn + nn + mm
    /\ c.words[1] = q.symmetry_tolerance /\ c.words[2] = q.psd_tolerance
    /\ RowsOf(c.words, 2, n, n) = q.F /\ RowsOf(c.words, 2 + nn, m, n) = q.H
    /\ RowsOf(c.words, 2 + nn + mn, n, n) = q.Q
    /\ RowsOf(c.words, 2 + nn + mn + nn, m, m) = q.R

LEMMA KalmanConfigurationLaidDown ==
    ASSUME NEW q \in Message("kalman_filter_linear"), ~Raises(encode_kalman_configuration(q))
    PROVE  LET n == Len(q.F)   m == Len(q.H)
           IN  FoundInConfiguration(q, encode_kalman_configuration(q), n, m, n * n, m * n, m * m)
<1> DEFINE n == Len(q.F)
           m == Len(q.H)
           nn == n * n
           mn == m * n
           mm == m * m
           two == <<q.symmetry_tolerance, q.psd_tolerance>>
           f == FlattenSeq(q.F)
           h == FlattenSeq(q.H)
           s == FlattenSeq(q.Q)
           r == FlattenSeq(q.R)
           four == Cat(Cat(Cat(two, f), h), s)
           words == Cat(four, r)
<1>1. /\ q.F \in Seq(Seq(EightBytes)) /\ q.H \in Seq(Seq(EightBytes))
      /\ q.Q \in Seq(Seq(EightBytes)) /\ q.R \in Seq(Seq(EightBytes))
      /\ q.symmetry_tolerance \in EightBytes /\ q.psd_tolerance \in EightBytes
  BY KalmanMessage, Zenon
<1>2. /\ IsMatrix(q.F, n, n) /\ IsMatrix(q.H, m, n) /\ IsMatrix(q.Q, n, n) /\ IsMatrix(q.R, m, m)
      /\ encode_kalman_configuration(q)
           = Payload(<<n, m, 0, q.provenance, 0, 0>>, two \o f \o h \o s \o r)
  BY Zenon DEF encode_kalman_configuration, Raises, ValueError
<1>3. n \in Nat /\ m \in Nat
  BY <1>1, LenProperties
<1> HIDE DEF n, m
<1>4. IsRows(q.F, n, n) /\ IsRows(q.H, m, n) /\ IsRows(q.Q, n, n) /\ IsRows(q.R, m, m)
  BY <1>1, <1>2, <1>3, MatrixIsRows
<1>5. /\ f \in Seq(EightBytes) /\ h \in Seq(EightBytes) /\ s \in Seq(EightBytes)
      /\ r \in Seq(EightBytes) /\ nn \in Nat /\ mn \in Nat /\ mm \in Nat
      /\ Len(f) = nn /\ Len(h) = mn /\ Len(s) = nn /\ Len(r) = mm
  BY <1>4, Zenon DEF IsRows
<1>6. two \in Seq(EightBytes) /\ Len(two) = 2 /\ two[1] = q.symmetry_tolerance
      /\ two[2] = q.psd_tolerance
  <2> HIDE DEF f, h, s, r
  <2> QED BY <1>1
<1>7. nn = n * n /\ mn = m * n /\ mm = m * m
  OBVIOUS
<1> HIDE DEF two, f, h, s, r, nn, mn, mm
<1>8. AreLaidDown(four, EightBytes, two, f, h, s)
  BY <1>5, <1>6, LaidDown
<1> HIDE DEF four
<1>9. /\ four \in Seq(EightBytes) /\ Len(four) = 2 + nn + mn + nn
      /\ At(four, 0, two) /\ At(four, 2, f) /\ At(four, 2 + nn, h) /\ At(four, 2 + nn + mn, s)
  BY <1>5, <1>6, <1>8, Zenon DEF AreLaidDown
<1>10. words \in Seq(EightBytes) /\ IsCat(words, EightBytes, four, r)
  BY <1>5, <1>9, CatIsSeq, CatProperties
<1>11. /\ At(words, Len(four), r)
       /\ \A k \in Nat, x \in Seq(EightBytes) : At(four, k, x) => At(words, k, x)
  BY <1>5, <1>9, CatAt
<1> HIDE DEF words
<1>12. Len(words) = 2 + nn + mn + nn + mm
  BY <1>5, <1>9, <1>10, Zenon DEF IsCat
<1>13. 0 \in Nat /\ 2 \in Nat /\ 2 + nn \in Nat /\ 2 + nn + mn \in Nat /\ 2 + nn + mn + nn \in Nat
  BY <1>5
<1>14. /\ At(words, 0, two) /\ At(words, 2, f) /\ At(words, 2 + nn, h)
       /\ At(words, 2 + nn + mn, s) /\ At(words, 2 + nn + mn + nn, r)
  BY <1>5, <1>6, <1>9, <1>11, <1>13, Zenon
<1>15. words[1] = q.symmetry_tolerance /\ words[2] = q.psd_tolerance
  <2>1. \A j \in 1..2 : words[0 + j] = two[j]
    BY <1>6, <1>14 DEF At
  <2>2. words[0 + 1] = two[1] /\ words[0 + 2] = two[2] /\ 0 + 1 = 1 /\ 0 + 2 = 2
    BY <2>1
  <2> QED BY <1>6, <2>2, Zenon
<1>16. RowsOf(words, 2, n, n) = q.F
  BY <1>4, <1>10, <1>13, <1>14, RowsFound DEF f
<1>17. RowsOf(words, 2 + nn, m, n) = q.H
  BY <1>4, <1>10, <1>13, <1>14, RowsFound DEF h
<1>18. RowsOf(words, 2 + nn + mn, n, n) = q.Q
  BY <1>4, <1>10, <1>13, <1>14, RowsFound DEF s
<1>19. RowsOf(words, 2 + nn + mn + nn, m, m) = q.R
  BY <1>4, <1>10, <1>13, <1>14, RowsFound DEF r
<1>20. encode_kalman_configuration(q) = Payload(<<n, m, 0, q.provenance, 0, 0>>, words)
  BY <1>2, Zenon DEF words, four, Cat
<1> DEFINE c == encode_kalman_configuration(q)
<1>21. c.ints = <<n, m, 0, q.provenance, 0, 0>> /\ c.words = words
  BY <1>20 DEF Payload
<1> HIDE DEF c
<1>22. FoundInConfiguration(q, c, n, m, nn, mn, mm)
  BY <1>3, <1>5, <1>7, <1>10, <1>12, <1>15, <1>16, <1>17, <1>18, <1>19, <1>21, Zenon
     DEF FoundInConfiguration
<1> QED BY <1>22 DEF c, n, m, nn, mn, mm

\* An input, each part of it where the operation looks for it.
FoundInInput(q, i, n, m, steps, id_len, nn, sm) ==
    /\ i.ints = <<steps, id_len>> /\ i.words \in Seq(EightBytes) /\ id_len = Len(q.source)
    /\ {n, m, steps, id_len, nn, sm} \subseteq Nat /\ steps # 0 /\ nn = n * n /\ sm = steps * m
    /\ Len(i.words) = n + nn + sm + id_len
    /\ SubSeq(i.words, 1, n) = q.x0 /\ RowsOf(i.words, n, n, n) = q.P0
    /\ RowsOf(i.words, n + nn, steps, m) = q.z
    /\ SubSeq(i.words, n + nn + sm + 1, Len(i.words)) = q.source

LEMMA KalmanInputLaidDown ==
    ASSUME NEW q \in Message("kalman_filter_linear"), ~Raises(encode_kalman_input(q))
    PROVE  LET n == Len(q.x0)   m == Len(q.z[1])   steps == Len(q.z)
           IN  FoundInInput(q, encode_kalman_input(q), n, m, steps, Len(q.source),
                            n * n, steps * m)
<1> DEFINE n == Len(q.x0)
           m == Len(q.z[1])
           steps == Len(q.z)
           id_len == Len(q.source)
           nn == n * n
           sm == steps * m
           p == FlattenSeq(q.P0)
           z == FlattenSeq(q.z)
           words == Cat(Cat(Cat(q.x0, p), z), q.source)
<1>1. /\ q.x0 \in Seq(EightBytes) /\ q.P0 \in Seq(Seq(EightBytes))
      /\ q.z \in Seq(Seq(EightBytes)) /\ q.source \in Seq(EightBytes)
  BY KalmanMessage, Zenon
<1>2. /\ steps # 0 /\ IsMatrix(q.P0, n, n) /\ IsMatrix(q.z, steps, m)
      /\ encode_kalman_input(q) = Payload(<<steps, id_len>>, q.x0 \o p \o z \o q.source)
  BY Zenon DEF encode_kalman_input, Raises, ValueError
<1>3. n \in Nat /\ m \in Nat /\ steps \in Nat /\ id_len \in Nat
  <2>1. n \in Nat /\ steps \in Nat /\ id_len \in Nat
    BY <1>1, LenProperties
  <2>2. 1 \in 1..steps
    BY <1>2, <2>1
  <2>3. q.z[1] \in Seq(EightBytes)
    BY <1>1, <2>2, ElementOfSeq
  <2> QED BY <2>1, <2>3, LenProperties
<1>4. IsRows(q.P0, n, n) /\ IsRows(q.z, steps, m)
  <2> HIDE DEF n, m, steps
  <2> QED BY <1>1, <1>2, <1>3, MatrixIsRows
<1> HIDE DEF m, steps
<1>5. /\ p \in Seq(EightBytes) /\ z \in Seq(EightBytes) /\ nn \in Nat /\ sm \in Nat
      /\ Len(p) = nn /\ Len(z) = sm
  BY <1>4, Zenon DEF IsRows
<1>6. nn = n * n /\ sm = steps * m
  OBVIOUS
<1> HIDE DEF p, z, nn, sm
<1>7. AreLaidDown(words, EightBytes, q.x0, p, z, q.source)
  BY <1>1, <1>5, LaidDown
<1> HIDE DEF words
<1>8. /\ words \in Seq(EightBytes) /\ Len(words) = n + nn + sm + id_len
      /\ At(words, 0, q.x0) /\ At(words, n, p) /\ At(words, n + nn, z)
      /\ At(words, n + nn + sm, q.source)
  BY <1>5, <1>7, Zenon DEF AreLaidDown
<1>9. Part(words, 0, n) = q.x0
  <2>1. 0 \in Nat
    OBVIOUS
  <2> QED BY <1>1, <1>8, <2>1, AtPart
<1>10. Part(words, n + nn + sm, id_len) = q.source
  <2>1. n + nn + sm \in Nat
    BY <1>3, <1>5
  <2> QED BY <1>1, <1>8, <2>1, AtPart
<1> HIDE DEF n, id_len
<1>11. RowsOf(words, n, n, n) = q.P0
  BY <1>3, <1>4, <1>8, RowsFound DEF p
<1>12. RowsOf(words, n + nn, steps, m) = q.z
  <2>1. n + nn \in Nat
    BY <1>3, <1>5
  <2> QED BY <1>4, <1>8, <2>1, RowsFound DEF z
<1>13. encode_kalman_input(q) = Payload(<<steps, id_len>>, words)
  BY <1>2, Zenon DEF words, Cat
<1> DEFINE i == encode_kalman_input(q)
<1>14. i.ints = <<steps, id_len>> /\ i.words = words
  BY <1>13 DEF Payload
<1> HIDE DEF i
<1>15. 0 + 1 = 1 /\ 0 + n = n
  BY <1>3
<1>16. SubSeq(words, 1, n) = q.x0 /\ SubSeq(words, n + nn + sm + 1, Len(words)) = q.source
  BY <1>8, <1>9, <1>10, <1>15, Zenon DEF Part
<1>17. FoundInInput(q, i, n, m, steps, id_len, nn, sm)
  BY <1>2, <1>3, <1>5, <1>6, <1>8, <1>11, <1>12, <1>14, <1>16, Zenon DEF FoundInInput, id_len
<1> QED BY <1>17 DEF i, n, m, steps, id_len, nn, sm

\* Both halves, of the same dimensions.
LEMMA KalmanLaidDown ==
    ASSUME NEW q \in Message("kalman_filter_linear"),
           ~Raises(encode_kalman_configuration(q)), ~Raises(encode_kalman_input(q)),
           DimensionsAgree("kalman_filter_linear", q)
    PROVE  \E n, m, steps, id_len, nn, mn, mm, sm :
               /\ n = Len(q.F) /\ m = Len(q.H)
               /\ FoundInConfiguration(q, encode_kalman_configuration(q), n, m, nn, mn, mm)
               /\ FoundInInput(q, encode_kalman_input(q), n, m, steps, id_len, nn, sm)
<1> DEFINE n == Len(q.F)
           m == Len(q.H)
<1>1. Len(q.x0) = n /\ Len(q.z[1]) = m
  BY DEF DimensionsAgree
<1>2. FoundInConfiguration(q, encode_kalman_configuration(q), n, m, n * n, m * n, m * m)
  BY KalmanConfigurationLaidDown
<1>3. FoundInInput(q, encode_kalman_input(q), n, m, Len(q.z), Len(q.source), n * n,
                   Len(q.z) * m)
  BY <1>1, KalmanInputLaidDown
<1> HIDE DEF n, m
<1>4. n = Len(q.F) /\ m = Len(q.H)
  BY DEF n, m
<1> QED BY <1>2, <1>3, <1>4, Zenon

LEMMA KalmanDecodes ==
    ASSUME NEW q \in Message("kalman_filter_linear"),
           ~Raises(encode_kalman_configuration(q)), ~Raises(encode_kalman_input(q)),
           DimensionsAgree("kalman_filter_linear", q),
           Accepted(DecodeKalman(encode_kalman_configuration(q), encode_kalman_input(q)))
    PROVE  DecodeKalman(encode_kalman_configuration(q), encode_kalman_input(q)) = q
<1> DEFINE c == encode_kalman_configuration(q)
           i == encode_kalman_input(q)
<1>1. PICK n, m, steps, id_len, nn, mn, mm, sm :
               /\ FoundInConfiguration(q, c, n, m, nn, mn, mm)
               /\ FoundInInput(q, i, n, m, steps, id_len, nn, sm)
  BY KalmanLaidDown, Zenon
<1>2. Accepted(DecodeKalman(c, i))
  OBVIOUS
<1> HIDE DEF c, i
<1>3. DecodeKalman(c, i) =
        [F |-> RowsOf(c.words, 2, c.ints[1], c.ints[1]),
         H |-> RowsOf(c.words, 2 + c.ints[1] * c.ints[1], c.ints[2], c.ints[1]),
         Q |-> RowsOf(c.words, 2 + c.ints[1] * c.ints[1] + c.ints[2] * c.ints[1],
                      c.ints[1], c.ints[1]),
         R |-> RowsOf(c.words,
                      2 + c.ints[1] * c.ints[1] + c.ints[2] * c.ints[1] + c.ints[1] * c.ints[1],
                      c.ints[2], c.ints[2]),
         provenance |-> c.ints[4],
         symmetry_tolerance |-> c.words[1], psd_tolerance |-> c.words[2],
         x0 |-> SubSeq(i.words, 1, c.ints[1]),
         P0 |-> RowsOf(i.words, c.ints[1], c.ints[1], c.ints[1]),
         z |-> RowsOf(i.words, c.ints[1] + c.ints[1] * c.ints[1], i.ints[1], c.ints[2]),
         source |-> SubSeq(i.words,
                           c.ints[1] + c.ints[1] * c.ints[1] + i.ints[1] * c.ints[2] + 1,
                           Len(i.words))]
  BY <1>2, Zenon DEF DecodeKalman, Accepted, Refused
<1>4. c.ints[1] = n /\ c.ints[2] = m /\ c.ints[4] = q.provenance /\ i.ints[1] = steps
  <2>1. c.ints = <<n, m, 0, q.provenance, 0, 0>> /\ i.ints = <<steps, id_len>>
    BY <1>1, Zenon DEF FoundInConfiguration, FoundInInput
  <2> QED BY <2>1
<1>5. /\ c.words[1] = q.symmetry_tolerance /\ c.words[2] = q.psd_tolerance
      /\ RowsOf(c.words, 2, n, n) = q.F /\ RowsOf(c.words, 2 + n * n, m, n) = q.H
      /\ RowsOf(c.words, 2 + n * n + m * n, n, n) = q.Q
      /\ RowsOf(c.words, 2 + n * n + m * n + n * n, m, m) = q.R
  BY <1>1, Zenon DEF FoundInConfiguration
<1>6. /\ SubSeq(i.words, 1, n) = q.x0 /\ RowsOf(i.words, n, n, n) = q.P0
      /\ RowsOf(i.words, n + n * n, steps, m) = q.z
      /\ SubSeq(i.words, n + n * n + steps * m + 1, Len(i.words)) = q.source
  BY <1>1, Zenon DEF FoundInInput
<1>7. q = [F |-> q.F, H |-> q.H, Q |-> q.Q, R |-> q.R, provenance |-> q.provenance,
           symmetry_tolerance |-> q.symmetry_tolerance,
           psd_tolerance |-> q.psd_tolerance, x0 |-> q.x0, P0 |-> q.P0, z |-> q.z,
           source |-> q.source]
  BY KalmanMessage
<1>8. DecodeKalman(c, i) = q
  BY <1>3, <1>4, <1>5, <1>6, <1>7, Zenon
<1> QED BY <1>8 DEF c, i

LEMMA PlainPart ==
    ASSUME NEW words \in Seq(EightBytes), \A k \in DOMAIN words : words[k] \in Plain,
           NEW start \in Nat, NEW length \in Nat, start + length <= Len(words)
    PROVE  Finite(Part(words, start, length))
<1> DEFINE p == Part(words, start, length)
<1>1. IsPart(p, EightBytes, words, start, length)
  BY PartProperties
<1> HIDE DEF p
<1>2. p \in Seq(EightBytes) /\ Len(p) = length /\ \A j \in 1..length : p[j] = words[start + j]
  BY <1>1 DEF IsPart
<1>3. DOMAIN p = 1..length /\ DOMAIN words = 1..Len(words) /\ Len(words) \in Nat
  BY <1>2, LenProperties
<1>4. ASSUME NEW j \in DOMAIN p PROVE isfinite(p[j])
  <2>1. start + j \in DOMAIN words /\ p[j] = words[start + j]
    BY <1>2, <1>3
  <2> QED BY <2>1, PlainWords
<1>5. Finite(p)
  BY <1>4 DEF Finite
<1> QED BY <1>5 DEF p

LEMMA PlainRows ==
    ASSUME NEW words \in Seq(EightBytes), \A k \in DOMAIN words : words[k] \in Plain,
           NEW start \in Nat, NEW rows \in Nat, NEW cols \in Nat,
           start + rows * cols <= Len(words)
    PROVE  \A k \in 1..rows : Finite(RowsOf(words, start, rows, cols)[k])
<1> TAKE k \in 1..rows
<1>1. /\ (k - 1) * cols \in Nat /\ (k - 1) * cols + cols <= rows * cols
      /\ k * cols = (k - 1) * cols + cols /\ rows * cols \in Nat
  <2>1. k - 1 \in Nat /\ (k - 1) + 1 = k
    OBVIOUS
  <2> QED BY <2>1, RowsBefore, OneMoreRow
<1> DEFINE before == (k - 1) * cols
           all == rows * cols
           from == start + before
<1>2. RowsOf(words, start, rows, cols)[k]
        = SubSeq(words, start + before + 1, start + k * cols)
  BY DEF RowsOf
<1>3. /\ before \in Nat /\ before + cols <= all /\ k * cols = before + cols /\ all \in Nat
      /\ start + all <= Len(words) /\ Len(words) \in Nat
  BY <1>1, LenProperties
<1> HIDE DEF before, all
<1>4. /\ from \in Nat /\ from + cols <= Len(words)
      /\ start + before + 1 = from + 1 /\ start + k * cols = from + cols
  BY <1>3
<1> HIDE DEF from
<1>5. Finite(Part(words, from, cols))
  BY <1>4, PlainPart
<1>6. RowsOf(words, start, rows, cols)[k] = Part(words, from, cols)
  BY <1>2, <1>4, Zenon DEF Part
<1> QED BY <1>5, <1>6

LEMMA KalmanAccepted ==
    ASSUME NEW q \in Message("kalman_filter_linear"),
           ~Raises(encode_kalman_configuration(q)), ~Raises(encode_kalman_input(q)),
           Agree("kalman_filter_linear", q), Ordinary("kalman_filter_linear", q)
    PROVE  Accepted(DecodeKalman(encode_kalman_configuration(q), encode_kalman_input(q)))
<1> DEFINE c == encode_kalman_configuration(q)
           i == encode_kalman_input(q)
<1>1. DimensionsAgree("kalman_filter_linear", q) /\ (q.provenance = 1 <=> q.source # <<>>)
  BY DEF Agree
<1>2. PICK n, m, steps, id_len, nn, mn, mm, sm :
               /\ n = Len(q.F) /\ m = Len(q.H)
               /\ FoundInConfiguration(q, c, n, m, nn, mn, mm)
               /\ FoundInInput(q, i, n, m, steps, id_len, nn, sm)
  BY <1>1, KalmanLaidDown, Zenon
<1>3. /\ q.F # <<>> /\ q.H # <<>> /\ q.provenance \in {0, 1}
      /\ \A k \in DOMAIN c.words : c.words[k] \in Plain
      /\ \A k \in DOMAIN i.words : i.words[k] \in Plain
  <2>1. Encode("kalman_filter_linear", q)[1] = c /\ Encode("kalman_filter_linear", q)[2] = i
    BY DEF Encode
  <2> HIDE DEF c, i
  <2> QED BY <2>1 DEF Ordinary, Plain
<1> HIDE DEF c, i
<1>4. /\ c.ints = <<n, m, 0, q.provenance, 0, 0>> /\ c.words \in Seq(EightBytes)
      /\ n \in Nat /\ m \in Nat /\ nn \in Nat /\ mn \in Nat /\ mm \in Nat
      /\ nn = n * n /\ mn = m * n /\ mm = m * m
      /\ Len(c.words) = 2 + nn + mn + nn + mm
  BY <1>2, Zenon DEF FoundInConfiguration
<1>5. /\ i.ints = <<steps, id_len>> /\ i.words \in Seq(EightBytes)
      /\ steps \in Nat /\ id_len \in Nat /\ sm \in Nat /\ steps # 0 /\ sm = steps * m
      /\ Len(i.words) = n + nn + sm + id_len
      /\ SubSeq(i.words, n + nn + sm + 1, Len(i.words)) = q.source
  BY <1>2, Zenon DEF FoundInInput
<1>6. n # 0 /\ m # 0
  <2>1. q.F \in Seq(Seq(EightBytes)) /\ q.H \in Seq(Seq(EightBytes))
    BY KalmanMessage, Zenon
  <2> QED BY <1>2, <1>3, <2>1, EmptySeq
<1> DEFINE cw == c.words
           iw == i.words
<1>7. /\ c.ints[1] = n /\ c.ints[2] = m /\ c.ints[3] = 0 /\ c.ints[4] = q.provenance
      /\ c.ints[5] = 0 /\ c.ints[6] = 0 /\ i.ints[1] = steps /\ i.ints[2] = id_len
  <2>1. c.ints = <<n, m, 0, q.provenance, 0, 0>> /\ i.ints = <<steps, id_len>>
    BY <1>4, <1>5
  <2> QED BY <2>1
<1> HIDE DEF cw, iw
<1>8. /\ cw \in Seq(EightBytes) /\ \A k \in DOMAIN cw : cw[k] \in Plain
      /\ iw \in Seq(EightBytes) /\ \A k \in DOMAIN iw : iw[k] \in Plain
  BY <1>3, <1>4, <1>5 DEF cw, iw
<1>9. /\ Len(cw) = 2 + nn + mn + nn + mm /\ Len(iw) = n + nn + sm + id_len
      /\ n \in Nat /\ nn \in Nat /\ mn \in Nat /\ mm \in Nat /\ sm \in Nat /\ id_len \in Nat
  BY <1>4, <1>5, Zenon DEF cw, iw
<1>10. Tolerance(cw[1]) /\ Tolerance(cw[2])
  <2>1. Len(cw) >= 2 /\ Len(cw) \in Nat
    BY <1>9
  <2>2. 1 \in DOMAIN cw /\ 2 \in DOMAIN cw
    BY <1>8, <2>1, LenProperties
  <2> QED BY <1>8, <2>2, PlainWords
<1>11. Finite(SubSeq(cw, 3, 2 + nn + mn))
  <2> DEFINE both == nn + mn
  <2>1. 2 \in Nat /\ both \in Nat /\ 2 + both <= Len(cw) /\ 2 + 1 = 3 /\ 2 + both = 2 + nn + mn
    BY <1>9
  <2> HIDE DEF both
  <2>2. Finite(Part(cw, 2, both))
    BY <1>8, <2>1, PlainPart
  <2> QED BY <2>1, <2>2, Zenon DEF Part
<1>12. Finite(SubSeq(iw, 1, n))
  <2>1. 0 \in Nat /\ 0 + n <= Len(iw) /\ 0 + 1 = 1 /\ 0 + n = n
    BY <1>9
  <2>2. Finite(Part(iw, 0, n))
    BY <1>4, <1>8, <2>1, PlainPart
  <2> QED BY <2>1, <2>2, Zenon DEF Part
<1>13. \A k \in 1..steps : Finite(RowsOf(iw, n + nn, steps, m)[k])
  <2> DEFINE at == n + nn
  <2>1. at \in Nat /\ at + sm <= Len(iw)
    BY <1>9
  <2> HIDE DEF at
  <2>2. at + steps * m <= Len(iw)
    BY <1>5, <2>1
  <2>3. \A k \in 1..steps : Finite(RowsOf(iw, at, steps, m)[k])
    BY <1>4, <1>5, <1>8, <2>1, <2>2, PlainRows
  <2> QED BY <2>3 DEF at
<1>14. n > 0 /\ m > 0 /\ steps > 0 /\ id_len >= 0 /\ Len(cw) >= 2
  <2>1. \A k \in Nat : k >= 0 /\ (k # 0 => k > 0)
    OBVIOUS
  <2>2. Len(cw) >= 2
    BY <1>9
  <2> QED BY <1>4, <1>5, <1>6, <2>1, <2>2, Zenon
<1>15. /\ Len(cw) = 2 + n * n + m * n + n * n + m * m
       /\ Len(iw) = n + n * n + steps * m + id_len
       /\ Finite(SubSeq(cw, 3, 2 + n * n + m * n))
       /\ \A k \in 1..steps : Finite(RowsOf(iw, n + n * n, steps, m)[k])
       /\ SubSeq(iw, n + n * n + steps * m + 1, Len(iw)) = q.source
  BY <1>4, <1>5, <1>9, <1>11, <1>13, Zenon DEF iw
<1> DEFINE result == DecodeKalman(c, i)
<1>16. result =
         [F |-> RowsOf(cw, 2, n, n), H |-> RowsOf(cw, 2 + n * n, m, n),
          Q |-> RowsOf(cw, 2 + n * n + m * n, n, n),
          R |-> RowsOf(cw, 2 + n * n + m * n + n * n, m, m),
          provenance |-> q.provenance,
          symmetry_tolerance |-> cw[1], psd_tolerance |-> cw[2],
          x0 |-> SubSeq(iw, 1, n), P0 |-> RowsOf(iw, n, n, n),
          z |-> RowsOf(iw, n + n * n, steps, m), source |-> q.source]
  BY <1>1, <1>3, <1>7, <1>10, <1>12, <1>14, <1>15 DEF DecodeKalman, cw, iw
<1> HIDE DEF result
<1>17. "refused" \notin DOMAIN result
  <2>1. DOMAIN result = {"F", "H", "Q", "R", "provenance", "symmetry_tolerance",
                         "psd_tolerance", "x0", "P0", "z", "source"}
    BY <1>16
  <2> QED BY <2>1
<1> QED BY <1>17 DEF Accepted, result, c, i

\* What an operation computes with is what was meant, whatever the dimensions, and nothing
\* ordinary is refused (the encoders of client.py, fourier.py, least_squares.py and kalman.py,
\* with the decoders of op_*.cpp).
THEOREM EncodedIsUnderstoodHolds == CodecSpec => []EncodedIsUnderstood
<1>1. CodecInv => EncodedIsUnderstood
  <2> DEFINE op == sent.operation
             q == sent.message
             c == Encode(op, q)[1]
             i == Encode(op, q)[2]
  <2> SUFFICES ASSUME CodecInv, Called, ~Raises(received)
               PROVE  /\ Accepted(received) /\ DimensionsAgree(op, q) => received = q
                      /\ Agree(op, q) /\ Ordinary(op, q) => Accepted(received)
    BY DEF EncodedIsUnderstood
  <2>1. op \in DOMAIN Headers /\ q \in Message(op) /\ received = Transmitted(sent)
    BY DEF CodecInv, Called, IsExchange
  <2>2. ~Raises(c) /\ ~Raises(i) /\ received = Decode(op, c, i)
    BY <2>1, Zenon DEF Transmitted, Raises, ValueError
  <2> HIDE DEF op, q
  <2>3. CASE op = "lj_pairwise_energy_forces"
    <3>1. c = encode_lj_configuration(q) /\ i = encode_lj_positions(q)
          /\ received = DecodeLj(c, i) /\ q \in Message("lj_pairwise_energy_forces")
      BY <2>1, <2>2, <2>3 DEF Encode, Decode
    <3> HIDE DEF c, i
    <3>2. received = IF validate_lj_input(q) THEN q ELSE Refused
      BY <3>1, LjDecodes
    <3>3. Accepted(q) /\ ~Accepted(Refused)
      BY <3>1, LjMessage DEF Accepted, Refused
    <3>4. Ordinary("lj_pairwise_energy_forces", q) => validate_lj_input(q)
      BY <3>1, LjAccepted
    <3> QED BY <2>3, <3>2, <3>3, <3>4
  <2>4. CASE op = "fourier_transform_1d"
    <3>1. c = encode_fourier_configuration(q) /\ i = encode_complex_signal(q)
          /\ received = DecodeFourier(c, i) /\ q \in Message("fourier_transform_1d")
      BY <2>1, <2>2, <2>4 DEF Encode, Decode
    <3> DEFINE absent == q.spacing = "None"
               fine == /\ i.words # <<>> /\ Finite(i.words)
                       /\ q.direction \in {1, -1} /\ q.normalization \in {0, 1, 2}
                       /\ SpacingIsCanonical(IF absent THEN 0 ELSE 1,
                                             IF absent THEN "0" ELSE q.spacing)
    <3> HIDE DEF c, i
    <3>2. received = IF fine THEN q ELSE Refused
      BY <3>1, FourierDecodes
    <3>3. Accepted(q) /\ ~Accepted(Refused)
      BY <3>1, FourierMessage DEF Accepted, Refused
    <3>4. Ordinary("fourier_transform_1d", q) => fine
      BY <3>1, FourierAccepted
    <3> HIDE DEF fine
    <3> QED BY <2>4, <3>2, <3>3, <3>4
  <2>5. CASE op = "least_squares"
    <3>1. c = encode_least_squares_configuration(q) /\ i = encode_least_squares_input(q)
          /\ received = DecodeLeastSquares(c, i) /\ q \in Message("least_squares")
      BY <2>1, <2>2, <2>5 DEF Encode, Decode
    <3> HIDE DEF c, i
    <3>2. Accepted(received) => received = q
      BY <2>2, <3>1, LeastSquaresDecodes
    <3>3. Agree("least_squares", q) /\ Ordinary("least_squares", q) => Accepted(received)
      BY <2>2, <3>1, LeastSquaresAccepted
    <3> QED BY <2>5, <3>2, <3>3
  <2>6. CASE op = "kalman_filter_linear"
    <3>1. c = encode_kalman_configuration(q) /\ i = encode_kalman_input(q)
          /\ received = DecodeKalman(c, i) /\ q \in Message("kalman_filter_linear")
      BY <2>1, <2>2, <2>6 DEF Encode, Decode
    <3> HIDE DEF c, i
    <3>2. Accepted(received) /\ DimensionsAgree("kalman_filter_linear", q) => received = q
      BY <2>2, <3>1, KalmanDecodes
    <3>3. Agree("kalman_filter_linear", q) /\ Ordinary("kalman_filter_linear", q)
            => Accepted(received)
      BY <2>2, <3>1, KalmanAccepted
    <3> QED BY <2>6, <3>2, <3>3
  <2> QED BY <2>1, <2>3, <2>4, <2>5, <2>6 DEF Headers
<1> QED BY <1>1, CodecInvHolds, PTL

-----------------------------------------------------------------------------
(* The descriptor: what is joined is taken apart where it was joined *)

\* The symbols of a descriptor: the provers do not know that these are strings.
Symbol == STRING \cup {"_", "-", "LF", "[backend]", "ste.scl.", ".v1"}

LEMMA FindIs ==
    ASSUME NEW text, NEW part, NEW k \in Nat, Len(text) \in Nat, Len(part) \in Nat,
           1 <= k, k + Len(part) <= Len(text) + 1,
           SubSeq(text, k, k + Len(part) - 1) = part,
           \A l \in 1..(k - 1) : SubSeq(text, l, l + Len(part) - 1) # part
    PROVE  Find(text, part) = k
<1> DEFINE at == {l \in 1..(Len(text) - Len(part) + 1) : SubSeq(text, l, l + Len(part) - 1) = part}
<1>1. k \in at /\ at \subseteq Nat
  OBVIOUS
<1>2. \A l \in at : k <= l
  <2> TAKE l \in at
  <2>1. ~(l \in 1..(k - 1)) /\ l \in Nat /\ 1 <= l
    OBVIOUS
  <2> QED BY <2>1
<1>3. Find(text, part) = CHOOSE j \in at : \A l \in at : j <= l
  BY <1>1, Zenon DEF Find
<1> HIDE DEF at
<1>4. \A j \in at : (\A l \in at : j <= l) => j = k
  BY <1>1, <1>2
<1> QED BY <1>1, <1>2, <1>3, <1>4

LEMMA PartOfThree ==
    ASSUME NEW V, NEW words \in Seq(V), NEW l \in Nat, 1 <= l, l + 2 <= Len(words)
    PROVE  SubSeq(words, l, l + 2) = <<words[l], words[l + 1], words[l + 2]>>
<1> DEFINE k == l - 1
<1>1. k \in Nat /\ k + 3 <= Len(words) /\ k + 1 = l /\ k + 2 = l + 1 /\ k + 3 = l + 2 /\ 3 \in Nat
  BY LenProperties
<1> HIDE DEF k
<1> DEFINE p == Part(words, k, 3)
<1>2. IsPart(p, V, words, k, 3)
  BY <1>1, PartProperties
<1>3. p = SubSeq(words, l, l + 2)
  BY <1>1, Zenon DEF Part
<1> HIDE DEF p
<1>4. p \in Seq(V) /\ Len(p) = 3 /\ p[1] = words[k + 1] /\ p[2] = words[k + 2] /\ p[3] = words[k + 3]
  BY <1>2 DEF IsPart
<1>5. p = <<p[1], p[2], p[3]>>
  BY <1>4
<1> QED BY <1>1, <1>3, <1>4, <1>5, Zenon

LEMMA PartOfOne ==
    ASSUME NEW V, NEW words \in Seq(V), NEW l \in Nat, 1 <= l, l <= Len(words)
    PROVE  SubSeq(words, l, l) = <<words[l]>>
<1> DEFINE k == l - 1
<1>1. k \in Nat /\ k + 1 <= Len(words) /\ k + 1 = l /\ 1 \in Nat
  BY LenProperties
<1> HIDE DEF k
<1> DEFINE p == Part(words, k, 1)
<1>2. IsPart(p, V, words, k, 1)
  BY <1>1, PartProperties
<1>3. p = SubSeq(words, l, l)
  BY <1>1, Zenon DEF Part
<1> HIDE DEF p
<1>4. p \in Seq(V) /\ Len(p) = 1 /\ p[1] = words[k + 1]
  BY <1>2 DEF IsPart
<1>5. p = <<p[1]>>
  BY <1>4, OnlyWord
<1> QED BY <1>1, <1>3, <1>4, <1>5, Zenon

LEMMA TranslatedBack ==
    ASSUME NEW s \in Seq(Symbol), \A k \in DOMAIN s : s[k] # "-" /\ s[k] # "LF"
    PROVE  LET t == Translated(s, "_", "-")
           IN  /\ t \in Seq(Symbol) /\ Len(t) = Len(s) /\ \A k \in 1..Len(s) : t[k] # "LF"
               /\ Translated(t, "-", "_") = s
<1> DEFINE t == Translated(s, "_", "-")
<1>1. DOMAIN s = 1..Len(s) /\ Len(s) \in Nat /\ \A k \in 1..Len(s) : s[k] \in Symbol
  BY LenProperties, ElementOfSeq
<1>2. t = [k \in 1..Len(s) |-> IF s[k] = "_" THEN "-" ELSE s[k]]
  BY <1>1, Zenon DEF Translated
<1>3. \A k \in 1..Len(s) : (IF s[k] = "_" THEN "-" ELSE s[k]) \in Symbol
  BY <1>1 DEF Symbol
<1> HIDE DEF t
<1>4. t \in [1..Len(s) -> Symbol]
  BY <1>2, <1>3
<1>5. t \in Seq(Symbol) /\ Len(t) = Len(s) /\ DOMAIN t = 1..Len(s)
  BY <1>1, <1>4, SeqDef, LenProperties
<1>6. \A k \in 1..Len(s) : t[k] # "LF"
  BY <1>1, <1>2
<1>7. Translated(t, "-", "_") = [k \in 1..Len(s) |-> IF t[k] = "-" THEN "_" ELSE t[k]]
  BY <1>5, Zenon DEF Translated
<1>8. \A k \in 1..Len(s) : (IF t[k] = "-" THEN "_" ELSE t[k]) = s[k]
  BY <1>1, <1>2
<1>9. s = [k \in 1..Len(s) |-> s[k]]
  BY <1>1
<1>10. Translated(t, "-", "_") = s
  BY <1>7, <1>8, <1>9
<1> QED BY <1>5, <1>6, <1>10 DEF t

\* The first line, and where the operation stands in it.
IsHeader(header, operation) ==
    /\ header \in Seq(Symbol) /\ Len(header) \in Nat /\ Len(header) = Len(operation) + 2
    /\ header[1] = "ste.scl." /\ header[Len(header)] = ".v1"
    /\ \A k \in 1..Len(header) : header[k] # "LF"
    /\ operation_from_descriptor_header(header) = operation

LEMMA HeaderReadsBack ==
    ASSUME NEW s \in Seq(Symbol), \A k \in DOMAIN s : s[k] # "-" /\ s[k] # "LF"
    PROVE  IsHeader(descriptor_header(s), s)
<1> DEFINE t == Translated(s, "_", "-")
           first == <<"ste.scl.">>
           last == <<".v1">>
           ft == Cat(first, t)
           header == Cat(ft, last)
           l == Len(s)
<1>0. l \in Nat
  BY LenProperties
<1>1. /\ t \in Seq(Symbol) /\ Len(t) = l /\ \A k \in 1..l : t[k] # "LF"
      /\ Translated(t, "-", "_") = s
  BY TranslatedBack
<1>2. /\ first \in Seq(Symbol) /\ Len(first) = 1 /\ first[1] = "ste.scl."
      /\ last \in Seq(Symbol) /\ Len(last) = 1 /\ last[1] = ".v1"
  <2>1. "ste.scl." \in Symbol /\ ".v1" \in Symbol
    BY DEF Symbol
  <2> QED BY <2>1
<1>3. descriptor_header(s) = header
  BY DEF descriptor_header, Cat
<1> HIDE DEF t, first, last, l
<1>4. ft \in Seq(Symbol) /\ IsCat(ft, Symbol, first, t)
  BY <1>1, <1>2, CatIsSeq, CatProperties
<1>5. At(ft, 1, t)
  BY <1>1, <1>2, CatAt
<1> HIDE DEF ft
<1>6. header \in Seq(Symbol) /\ IsCat(header, Symbol, ft, last)
  BY <1>2, <1>4, CatIsSeq, CatProperties
<1>7. At(header, 1, t)
  <2>1. \A k \in Nat, x \in Seq(Symbol) : At(ft, k, x) => At(header, k, x)
    BY <1>2, <1>4, CatAt
  <2>2. 1 \in Nat
    OBVIOUS
  <2> QED BY <1>1, <1>5, <2>1, <2>2
<1> HIDE DEF header
<1>8. /\ Len(ft) = 1 + l /\ ft[1] = "ste.scl." /\ \A k \in 1..l : ft[1 + k] = t[k]
  <2>1. Len(first) = 1 /\ first[1] = "ste.scl." /\ Len(t) = l
    BY <1>1, <1>2
  <2> QED BY <1>0, <1>4, <2>1 DEF IsCat
<1>9. /\ Len(header) = l + 2 /\ header[1] = "ste.scl." /\ header[l + 2] = ".v1"
      /\ \A k \in 1..(1 + l) : header[k] = ft[k]
  <2>1. /\ Len(header) = Len(ft) + Len(last) /\ \A k \in 1..Len(ft) : header[k] = ft[k]
        /\ \A k \in 1..Len(last) : header[Len(ft) + k] = last[k]
    BY <1>6 DEF IsCat
  <2>2. Len(last) = 1 /\ last[1] = ".v1" /\ Len(ft) = 1 + l
    BY <1>2, <1>8
  <2>3. Len(header) = l + 2 /\ 1 \in 1..(1 + l)
    BY <1>0, <2>1, <2>2
  <2>4. header[Len(ft) + 1] = ".v1" /\ Len(ft) + 1 = l + 2
    BY <1>0, <2>1, <2>2
  <2> QED BY <1>8, <2>1, <2>3, <2>4
<1>10. \A k \in 1..(l + 2) : header[k] # "LF"
  <2> TAKE k \in 1..(l + 2)
  <2>1. CASE k = 1
    BY <1>9, <2>1
  <2>2. CASE k = l + 2
    BY <1>9, <2>2
  <2>3. CASE k # 1 /\ k # l + 2
    <3>1. k - 1 \in 1..l /\ k \in 1..(1 + l) /\ 1 + (k - 1) = k
      BY <1>0, <2>3
    <3>2. ft[1 + (k - 1)] = t[k - 1] /\ header[k] = ft[k]
      BY <1>8, <1>9, <3>1
    <3> QED BY <1>1, <3>1, <3>2
  <2> QED BY <2>1, <2>2, <2>3
<1>11. operation_from_descriptor_header(header) = s
  <2>1. Part(header, 1, Len(t)) = t
    <3>1. 1 \in Nat
      OBVIOUS
    <3> QED BY <1>1, <1>6, <1>7, <3>1, AtPart
  <2>2. 1 + 1 = 2 /\ 1 + l = Len(header) - 1
    BY <1>0, <1>9
  <2>3. SubSeq(header, 2, Len(header) - 1) = t
    BY <1>1, <2>1, <2>2, Zenon DEF Part
  <2> QED BY <1>1, <2>3 DEF operation_from_descriptor_header
<1>12. IsHeader(header, s)
  <2>1. Len(header) \in Nat
    BY <1>0, <1>9
  <2> QED BY <1>6, <1>9, <1>10, <1>11, <2>1 DEF IsHeader, l
<1> QED BY <1>3, <1>12

\* What is where in a descriptor: a header, a line feed, a version, the marker, a backend.
IsDescriptor(P, header, version, backend, hl, vl, bl) ==
    /\ P \in Seq(Symbol) /\ Len(P) = hl + 1 + vl + 3 + bl
    /\ At(P, 0, header) /\ At(P, hl, <<"LF">>) /\ At(P, hl + 1, version)
    /\ At(P, hl + 1 + vl, Marker) /\ At(P, hl + 1 + vl + 3, backend)

LEMMA DescriptorLaidDown ==
    ASSUME NEW header \in Seq(Symbol), NEW version \in Seq(Symbol), NEW backend \in Seq(Symbol)
    PROVE  IsDescriptor(header \o <<"LF">> \o version \o Marker \o backend,
                        header, version, backend, Len(header), Len(version), Len(backend))
<1> DEFINE lf == <<"LF">>
           hl == Len(header)
           vl == Len(version)
           bl == Len(backend)
           four == Cat(Cat(Cat(header, lf), version), Marker)
           P == Cat(four, backend)
<1>1. /\ lf \in Seq(Symbol) /\ Len(lf) = 1 /\ Marker \in Seq(Symbol) /\ Len(Marker) = 3
  <2>1. "LF" \in Symbol /\ "[backend]" \in Symbol
    BY DEF Symbol
  <2> QED BY <2>1 DEF Marker
<1>2. hl \in Nat /\ vl \in Nat /\ bl \in Nat
  BY LenProperties
<1> HIDE DEF lf
<1>3. AreLaidDown(four, Symbol, header, lf, version, Marker)
  BY <1>1, LaidDown
<1> HIDE DEF four
<1>4. /\ four \in Seq(Symbol) /\ Len(four) = hl + 1 + vl + 3
      /\ At(four, 0, header) /\ At(four, hl, lf) /\ At(four, hl + 1, version)
      /\ At(four, hl + 1 + vl, Marker)
  BY <1>1, <1>3, Zenon DEF AreLaidDown
<1>5. P \in Seq(Symbol) /\ IsCat(P, Symbol, four, backend)
  BY <1>4, CatIsSeq, CatProperties
<1>6. /\ At(P, Len(four), backend)
      /\ \A k \in Nat, x \in Seq(Symbol) : At(four, k, x) => At(P, k, x)
  BY <1>4, CatAt
<1> HIDE DEF P
<1>7. Len(P) = hl + 1 + vl + 3 + bl
  BY <1>4, <1>5, Zenon DEF IsCat
<1> HIDE DEF hl, vl, bl
<1>8. 0 \in Nat /\ hl + 1 \in Nat /\ hl + 1 + vl \in Nat
  BY <1>2
<1>9. /\ At(P, 0, header) /\ At(P, hl, lf) /\ At(P, hl + 1, version)
      /\ At(P, hl + 1 + vl, Marker) /\ At(P, hl + 1 + vl + 3, backend)
  BY <1>1, <1>2, <1>4, <1>6, <1>8, Zenon
<1>10. IsDescriptor(P, header, version, backend, hl, vl, bl)
  BY <1>5, <1>7, <1>9, Zenon DEF IsDescriptor, lf
<1>11. header \o <<"LF">> \o version \o Marker \o backend = P
  BY Zenon DEF P, four, lf, Cat
<1> QED BY <1>10, <1>11, Zenon DEF hl, vl, bl

LEMMA AtWithin ==
    ASSUME NEW V, NEW words \in Seq(V), NEW k \in Nat, NEW x \in Seq(V), NEW m \in Nat,
           At(words, k, x), k + Len(x) <= m, m <= Len(words)
    PROVE  At(Part(words, 0, m), k, x)
<1> DEFINE p == Part(words, 0, m)
<1>1. IsPart(p, V, words, 0, m)
  <2>1. 0 \in Nat /\ 0 + m <= Len(words)
    OBVIOUS
  <2> QED BY <2>1, PartProperties
<1> HIDE DEF p
<1>2. Len(p) = m /\ \A j \in 1..m : p[j] = words[0 + j]
  BY <1>1 DEF IsPart
<1>3. Len(x) \in Nat /\ \A j \in 1..Len(x) : words[k + j] = x[j]
  BY LenProperties DEF At
<1>4. ASSUME NEW j \in 1..Len(x) PROVE p[k + j] = x[j]
  <2>1. k + j \in 1..m /\ 0 + (k + j) = k + j
    BY <1>3
  <2>2. p[k + j] = words[0 + (k + j)]
    BY <1>2, <2>1
  <2> QED BY <1>3, <2>1, <2>2
<1>5. At(p, k, x)
  BY <1>2, <1>4 DEF At
<1> QED BY <1>5 DEF p

OneLine(s, l) == \A k \in 1..l : s[k] # "LF"
IsVersion(s, l) == OneLine(s, l) /\ s # <<"[backend]">>

\* The marker is not found before it: a version of one line, "[backend]" alone excepted,
\* leaves no other line feed that is followed by it.
LEMMA MarkerFound ==
    ASSUME NEW P, NEW header, NEW version \in Seq(Symbol), NEW backend,
           NEW hl \in Nat, NEW vl \in Nat, NEW bl \in Nat,
           IsDescriptor(P, header, version, backend, hl, vl, bl),
           Len(header) = hl, Len(version) = vl,
           OneLine(header, hl), IsVersion(version, vl)
    PROVE  Find(P, Marker) = hl + 1 + vl + 1
<1> DEFINE mark == hl + 1 + vl + 1
<1>1. P \in Seq(Symbol) /\ Len(P) = hl + 1 + vl + 3 + bl
  BY Zenon DEF IsDescriptor
<1>2. /\ Len(Marker) = 3 /\ Marker[1] = "LF" /\ Marker[2] = "[backend]" /\ Marker[3] = "LF"
  BY DEF Marker
<1>3. \A k \in 1..hl : P[k] # "LF"
  <2>1. At(P, 0, header)
    BY Zenon DEF IsDescriptor
  <2>2. \A k \in 1..hl : P[0 + k] = header[k]
    BY <2>1 DEF At
  <2>3. \A k \in 1..hl : 0 + k = k
    OBVIOUS
  <2> QED BY <2>2, <2>3 DEF OneLine
<1>4. \A k \in 1..vl : P[hl + 1 + k] = version[k]
  <2>1. At(P, hl + 1, version)
    BY Zenon DEF IsDescriptor
  <2> QED BY <2>1 DEF At
<1>5. P[mark] = "LF" /\ P[mark + 1] = "[backend]" /\ P[mark + 2] = "LF"
  <2> DEFINE before == hl + 1 + vl
  <2>1. At(P, before, Marker)
    BY Zenon DEF IsDescriptor
  <2> HIDE DEF before
  <2>2. \A k \in 1..3 : P[before + k] = Marker[k]
    BY <1>2, <2>1 DEF At
  <2>3. P[before + 1] = Marker[1] /\ P[before + 2] = Marker[2] /\ P[before + 3] = Marker[3]
    BY <2>2
  <2>4. before + 1 = mark /\ before + 2 = mark + 1 /\ before + 3 = mark + 2
    BY DEF before
  <2> QED BY <1>2, <2>3, <2>4
<1>6. mark \in Nat /\ 1 <= mark /\ mark + 2 <= Len(P) /\ Len(P) \in Nat
  BY <1>1
<1>7. SubSeq(P, mark, mark + 2) = Marker
  <2> HIDE DEF mark
  <2>1. SubSeq(P, mark, mark + 2) = <<P[mark], P[mark + 1], P[mark + 2]>>
    BY <1>1, <1>6, PartOfThree
  <2> QED BY <1>5, <2>1 DEF Marker
<1>8. ASSUME NEW l \in 1..(mark - 1), SubSeq(P, l, l + 2) = Marker PROVE FALSE
  <2>1. l \in Nat /\ 1 <= l /\ l + 2 <= Len(P) /\ l <= hl + 1 + vl
    BY <1>6
  <2>2. SubSeq(P, l, l + 2) = <<P[l], P[l + 1], P[l + 2]>>
    BY <1>1, <2>1, PartOfThree
  <2>3. P[l] = "LF" /\ P[l + 1] = "[backend]" /\ P[l + 2] = "LF"
    BY <1>2, <1>8, <2>2
  <2>4. CASE l <= hl
    BY <1>3, <2>1, <2>3, <2>4
  <2>5. CASE l > hl + 1
    <3> DEFINE k == l - (hl + 1)
    <3>1. k \in 1..vl /\ hl + 1 + k = l
      BY <2>1, <2>5
    <3> HIDE DEF k
    <3>2. P[l] = version[k] /\ version[k] # "LF"
      BY <1>4, <3>1 DEF OneLine, IsVersion
    <3> QED BY <2>3, <3>2
  <2>6. CASE l = hl + 1
    <3>1. CASE vl = 0
      <4>1. mark = l + 1
        BY <2>6, <3>1
      <4> QED BY <1>5, <2>3, <4>1
    <3>2. CASE vl = 1
      <4>1. 1 \in 1..vl /\ hl + 1 + 1 = l + 1
        BY <2>6, <3>2
      <4>2. P[l + 1] = version[1]
        BY <1>4, <4>1
      <4>3. version = <<version[1]>>
        BY <3>2, OnlyWord
      <4> QED BY <2>3, <4>2, <4>3 DEF IsVersion
    <3>3. CASE vl # 0 /\ vl # 1
      <4>1. 2 \in 1..vl /\ hl + 1 + 2 = l + 2
        BY <2>6, <3>3
      <4>2. P[l + 2] = version[2] /\ version[2] # "LF"
        BY <1>4, <4>1 DEF OneLine, IsVersion
      <4> QED BY <2>3, <4>2
    <3> QED BY <3>1, <3>2, <3>3
  <2> QED BY <2>1, <2>4, <2>5, <2>6
<1> HIDE DEF mark
<1>9. mark + Len(Marker) <= Len(P) + 1 /\ mark + Len(Marker) - 1 = mark + 2 /\ Len(Marker) \in Nat
  BY <1>2, <1>6
<1>10. \A l \in 1..(mark - 1) : l + Len(Marker) - 1 = l + 2
  BY <1>2
<1>11. \A l \in 1..(mark - 1) : SubSeq(P, l, l + Len(Marker) - 1) # Marker
  BY <1>8, <1>10
<1>12. Find(P, Marker) = mark
  BY <1>6, <1>7, <1>9, <1>11, FindIs
<1> QED BY <1>12 DEF mark

LEMMA DescriptorReadsBack ==
    ASSUME NEW version \in Seq(STRING), NEW backend \in Seq(STRING),
           NEW operation \in Seq(STRING),
           \A k \in DOMAIN version : version[k] # "LF", version # <<"[backend]">>,
           \A k \in DOMAIN operation : operation[k] # "-" /\ operation[k] # "LF"
    PROVE  split_descriptor(scl_program_descriptor(version, backend, operation))
             = [version_line |-> version, operation |-> operation, backend |-> backend]
<1> DEFINE header == descriptor_header(operation)
           hl == Len(header)
           vl == Len(version)
           bl == Len(backend)
           P == scl_program_descriptor(version, backend, operation)
           before == hl + 1 + vl
           head == Part(P, 0, before)
           lf == <<"LF">>
<1>1. version \in Seq(Symbol) /\ backend \in Seq(Symbol) /\ operation \in Seq(Symbol)
  <2>1. STRING \subseteq Symbol
    BY DEF Symbol
  <2> QED BY <2>1, SeqMonotonic
<1>2. IsHeader(header, operation)
  BY <1>1, HeaderReadsBack
<1> HIDE DEF header
<1>3. /\ header \in Seq(Symbol) /\ hl \in Nat /\ hl = Len(operation) + 2
      /\ header[1] = "ste.scl." /\ header[hl] = ".v1" /\ \A k \in 1..hl : header[k] # "LF"
      /\ operation_from_descriptor_header(header) = operation
  BY <1>2, Zenon DEF IsHeader
<1>4. vl \in Nat /\ bl \in Nat /\ DOMAIN version = 1..vl
  BY <1>1, LenProperties
<1>5. IsDescriptor(P, header, version, backend, hl, vl, bl)
  BY <1>1, <1>3, DescriptorLaidDown DEF scl_program_descriptor, header
<1> HIDE DEF P
<1>6. Find(P, Marker) = before + 1
  <2>1. \A k \in 1..vl : version[k] # "LF"
    BY <1>4
  <2> HIDE DEF hl, vl, bl
  <2>2. Len(header) = hl /\ Len(version) = vl
    BY DEF hl, vl
  <2>3. Find(P, Marker) = hl + 1 + vl + 1
    <3>1. /\ hl \in Nat /\ vl \in Nat /\ bl \in Nat /\ version \in Seq(Symbol)
          /\ OneLine(header, hl) /\ IsVersion(version, vl)
      BY <1>1, <1>3, <1>4, <2>1, Zenon DEF OneLine, IsVersion
    <3> QED BY <1>5, <2>2, <3>1, MarkerFound
  <2> QED BY <2>3
<1>7. /\ P \in Seq(Symbol) /\ Len(P) = hl + 1 + vl + 3 + bl
      /\ At(P, 0, header) /\ At(P, hl, lf) /\ At(P, hl + 1, version)
      /\ At(P, before + 3, backend)
  BY <1>5, Zenon DEF IsDescriptor
<1>8. /\ lf \in Seq(Symbol) /\ Len(lf) = 1 /\ lf[1] = "LF"
  <2>1. "LF" \in Symbol
    BY DEF Symbol
  <2> QED BY <2>1
<1>9. Len(operation) \in Nat
  BY <1>1, LenProperties
<1>10. /\ before \in Nat /\ before <= Len(P) /\ 0 + hl <= before /\ hl + 1 <= before
       /\ hl + 1 + vl <= before /\ 1 <= hl /\ hl + 1 \in Nat /\ 0 \in Nat /\ hl # 0
       /\ before + 1 <= Len(P) /\ before + 3 \in Nat /\ before + 3 + bl = Len(P)
       /\ (before + 1) - 1 = before /\ (before + 1) + 3 = (before + 3) + 1 /\ 0 + 1 = 1
       /\ 0 + before = before
  BY <1>3, <1>4, <1>7, <1>9
<1> HIDE DEF hl, vl, bl, before
<1>11. Len(header) = hl /\ Len(version) = vl /\ Len(backend) = bl
  BY DEF hl, vl, bl
<1>12. /\ At(head, 0, header) /\ At(head, hl, lf) /\ At(head, hl + 1, version)
  <2>1. At(head, 0, header)
    BY <1>3, <1>7, <1>10, <1>11, AtWithin
  <2>2. At(head, hl, lf)
    BY <1>3, <1>7, <1>8, <1>10, AtWithin
  <2>3. At(head, hl + 1, version)
    BY <1>1, <1>7, <1>10, <1>11, AtWithin
  <2> QED BY <2>1, <2>2, <2>3
<1>13. head \in Seq(Symbol) /\ Len(head) = before
  <2>1. IsPart(head, Symbol, P, 0, before)
    BY <1>7, <1>10, PartProperties
  <2> HIDE DEF head
  <2> QED BY <2>1, Zenon DEF IsPart
<1>14. head = SubSeq(P, 1, (before + 1) - 1)
  BY <1>10, Zenon DEF Part
<1> HIDE DEF head
<1>15. /\ \A k \in 1..hl : head[0 + k] = header[k]
       /\ head[hl + 1] = "LF"
  BY <1>8, <1>11, <1>12 DEF At
<1>16. \A k \in 1..hl : head[k] = header[k] /\ head[k] # "LF"
  <2>1. \A k \in 1..hl : 0 + k = k
    BY <1>3
  <2> QED BY <1>3, <1>15, <2>1
<1>17. head[1] = "ste.scl." /\ head[hl] = ".v1"
  <2>1. 1 \in 1..hl /\ hl \in 1..hl
    BY <1>3, <1>10
  <2> QED BY <1>3, <1>16, <2>1
<1>18. Find(head, lf) = hl + 1
  <2> DEFINE end == hl + 1
  <2>1. end \in Nat /\ 1 <= end /\ end <= before /\ end - 1 = hl /\ Len(head) \in Nat
    BY <1>3, <1>10, <1>13
  <2>2. head[end] = "LF"
    BY <1>15
  <2> HIDE DEF end
  <2>3. end + Len(lf) <= Len(head) + 1 /\ end + Len(lf) - 1 = end /\ Len(lf) \in Nat
    BY <1>8, <1>13, <2>1
  <2>4. SubSeq(head, end, end) = <<head[end]>>
    BY <1>13, <2>1, PartOfOne
  <2>5. SubSeq(head, end, end + Len(lf) - 1) = lf
    BY <2>2, <2>3, <2>4
  <2>6. ASSUME NEW l \in 1..(end - 1) PROVE SubSeq(head, l, l + Len(lf) - 1) # lf
    <3>1. l \in Nat /\ 1 <= l /\ l <= Len(head) /\ l + Len(lf) - 1 = l /\ l \in 1..hl
      BY <1>8, <1>13, <2>1
    <3>2. SubSeq(head, l, l) = <<head[l]>>
      BY <1>13, <3>1, PartOfOne
    <3>3. head[l] # "LF"
      BY <1>16, <3>1
    <3> QED BY <3>1, <3>2, <3>3
  <2>7. Find(head, lf) = end
    BY <2>1, <2>3, <2>5, <2>6, FindIs
  <2> QED BY <2>7 DEF end
<1>19. SubSeq(head, 1, hl) = header
  <2>1. Part(head, 0, Len(header)) = header
    BY <1>3, <1>10, <1>12, <1>13, AtPart
  <2>2. 0 + hl = hl
    BY <1>3
  <2> QED BY <1>10, <1>11, <2>1, <2>2, Zenon DEF Part
<1>20. SubSeq(head, hl + 1 + 1, Len(head)) = version
  <2>1. Part(head, hl + 1, Len(version)) = version
    BY <1>1, <1>10, <1>12, <1>13, AtPart
  <2> QED BY <1>11, <1>13, <2>1, Zenon DEF Part, before
<1>21. SubSeq(P, (before + 1) + 3, Len(P)) = backend
  <2>1. Part(P, before + 3, Len(backend)) = backend
    BY <1>1, <1>7, <1>10, AtPart
  <2> QED BY <1>10, <1>11, <2>1, Zenon DEF Part
<1>22. (hl + 1) - 1 = hl /\ ~(before + 1 > Len(P)) /\ ~(hl + 1 > Len(head))
  <2>1. Len(P) \in Nat
    BY <1>7, LenProperties
  <2> QED BY <1>3, <1>10, <1>13, <2>1
<1>23. split_descriptor(P)
         = [version_line |-> version, operation |-> operation, backend |-> backend]
  BY <1>3, <1>6, <1>14, <1>17, <1>18, <1>19, <1>20, <1>21, <1>22, Zenon DEF split_descriptor
<1> QED BY <1>23 DEF P

-----------------------------------------------------------------------------
(* The energy and forces: what is read back of a run *)

\* What the adapter decodes a second time is what the energy was of.
LEMMA LjRun ==
    ASSUME CodecInv, Executed, sent.operation = "lj_pairwise_energy_forces"
    PROVE  LET c == sent.configuration
               q == received.meaning
               said == split_descriptor(scl_program_descriptor(
                           sent.version_line, sent.backend, sent.operation_symbols))
           IN  /\ q.positions \in Seq(Seq(EightBytes))
               /\ \A r \in 1..Len(q.positions) : Len(q.positions[r]) = 3
               /\ q.cutoff = c.words[3] /\ q.epsilon = c.words[1] /\ q.sigma = c.words[2]
               /\ received.content =
                    [value |-> "half",
                     total_energy |-> absent_uncertainty("half", "epsilon"),
                     forces |-> [k \in DOMAIN Reverse(q.positions) |-> [x \in 1..3 |->
                        absent_uncertainty(Reverse(q.positions)[k][x], "epsilon_per_sigma")]],
                     method_block |->
                        lj_method_block_for(c.words[3], Len(q.positions), said.backend,
                                            said.version_line),
                     parameters |-> [epsilon |-> c.words[1], sigma |-> c.words[2]]]
<1> DEFINE c == sent.configuration
           i == sent.input
           q == received.meaning
           n == Len(i.words) \div 3
           program == scl_program_descriptor(
                          sent.version_line, sent.backend, sent.operation_symbols)
           R == Reverse(q.positions)
           output == encode_output("half", R)
<1>1. /\ IsPayload(c, 0) /\ IsPayload(i, 0) /\ Accepted(DecodeLj(c, i))
      /\ q = DecodeLj(c, i) /\ received.content = Content(sent, q)
  BY ExecutedRan DEF IsSpecification, Headers, Decode
<1>2. /\ Len(i.words) % 3 = 0
      /\ q = [epsilon |-> c.words[1], sigma |-> c.words[2], cutoff |-> c.words[3],
              positions |-> RowsOf(i.words, 0, n, 3)]
  <2> HIDE DEF c, i, q
  <2> QED BY <1>1 DEF DecodeLj, Accepted, Refused
<1>3. Content(sent, q) = interpret_lj_result(program, c, i, output)
  BY DEF Content, Output
<1>4. i.words \in Seq(EightBytes)
  BY <1>1 DEF IsPayload
<1> HIDE DEF c, i, q, program, output
<1>5. n \in Nat /\ Len(i.words) = n * 3
  <2> DEFINE l == Len(i.words)
  <2>1. l \in Nat /\ l % 3 = 0
    BY <1>2, <1>4, LenProperties
  <2> HIDE DEF l
  <2>2. l \div 3 \in Nat /\ l = (l \div 3) * 3
    BY <2>1
  <2> QED BY <2>2 DEF l
<1> HIDE DEF n
<1>6. q.positions = RowsOf(i.words, 0, n, 3)
  BY <1>2
<1>7. AreRows(q.positions, EightBytes, i.words, 0, n, 3)
  BY <1>4, <1>5, <1>6, Cut
<1>8. /\ q.positions \in Seq(Seq(EightBytes)) /\ Len(q.positions) = n
      /\ \A r \in 1..n : Len(q.positions[r]) = 3
  BY <1>7 DEF AreRows
<1>9. /\ R \in Seq(Seq(EightBytes)) /\ Len(R) = n
      /\ \A r \in 1..n : R[r] = q.positions[n - r + 1]
  BY <1>8, Reversed
<1> HIDE DEF R
<1>10. \A r \in 1..Len(R) : Len(R[r]) = 3
  <2> TAKE r \in 1..Len(R)
  <2> DEFINE k == n - r + 1
  <2>1. k \in 1..n /\ r \in 1..n
    <3>1. Len(R) = n
      BY <1>9
    <3> QED BY <1>5, <3>1
  <2>2. R[r] = q.positions[k]
    BY <1>9, <2>1
  <2> HIDE DEF k
  <2> QED BY <1>8, <2>1, <2>2
<1> DEFINE flat == FlattenSeq(R)
           one == <<"half">>
<1>11. flat \in Seq(EightBytes) /\ Len(flat) = n * 3
  <2> DEFINE w == 3
  <2>1. w \in Nat /\ \A r \in 1..Len(R) : Len(R[r]) = w
    BY <1>10
  <2> HIDE DEF w
  <2>2. flat \in Seq(EightBytes) /\ Len(flat) = Len(R) * w
    BY <1>9, <2>1, FlattenMatrix
  <2> QED BY <1>9, <2>2 DEF w
<1>12. output = Cat(one, flat) /\ one \in Seq(EightBytes) /\ Len(one) = 1 /\ one[1] = "half"
  <2> HIDE DEF flat
  <2>1. "half" \in EightBytes
    BY WordsAre
  <2>2. output = Cat(one, flat)
    BY Zenon DEF output, encode_output, Cat, flat
  <2> QED BY <2>1, <2>2
<1> HIDE DEF flat, one
<1>13. output \in Seq(EightBytes) /\ IsCat(output, EightBytes, one, flat)
  BY <1>11, <1>12, CatIsSeq, CatProperties
<1>14. At(output, 1, flat)
  <2>1. At(Cat(one, flat), Len(one), flat)
    BY <1>11, <1>12, CatAt
  <2> QED BY <1>12, <2>1
<1>15. output[1] = "half" /\ Len(output) = 1 + n * 3
  <2>1. \A j \in 1..1 : output[j] = one[j]
    BY <1>12, <1>13 DEF IsCat
  <2>2. Len(output) = Len(one) + Len(flat)
    BY <1>13, Zenon DEF IsCat
  <2> QED BY <1>11, <1>12, <2>1, <2>2
<1>16. RowsOf(output, 1, n, 3) = R
  <2>1. 1 \in Nat /\ 3 \in Nat
    OBVIOUS
  <2>2. RowsOf(output, 1, Len(R), 3) = R
    BY <1>9, <1>10, <1>13, <1>14, <2>1, AtRows DEF flat
  <2> QED BY <1>9, <2>2
<1>17. (Len(output) - 1) \div 3 = n /\ Len(i.words) \div 3 = n
  BY <1>5, <1>15
<1>18. decode_lj_output(output) = [total_energy |-> "half", forces |-> R]
  BY <1>15, <1>16, <1>17, Zenon DEF decode_lj_output
<1>19. interpret_lj_result(program, c, i, output) =
         [value |-> "half",
          total_energy |-> absent_uncertainty("half", "epsilon"),
          forces |-> [k \in DOMAIN R |-> [x \in 1..3 |->
                         absent_uncertainty(R[k][x], "epsilon_per_sigma")]],
          method_block |-> lj_method_block_for(c.words[3], n, split_descriptor(program).backend,
                                               split_descriptor(program).version_line),
          parameters |-> [epsilon |-> c.words[1], sigma |-> c.words[2]]]
  <2> DEFINE result == decode_lj_output(output)
  <2>1. result.total_energy = "half" /\ result.forces = R
    BY <1>18
  <2>2. Len(i.words) \div 3 = n
    BY <1>17
  <2> HIDE DEF result
  <2> QED BY <2>1, <2>2, Zenon DEF interpret_lj_result, result
<1>20. q.cutoff = c.words[3] /\ q.epsilon = c.words[1] /\ q.sigma = c.words[2]
  BY <1>2
<1>21. \A r \in 1..Len(q.positions) : Len(q.positions[r]) = 3
  BY <1>8
<1> QED BY <1>1, <1>3, <1>8, <1>19, <1>20, <1>21 DEF c, q, program, R

\* What the property reads out of rows of quantities.
ValuesOf(rows) == [k \in DOMAIN rows |-> [x \in DOMAIN rows[k] |-> rows[k][x].value]]

LEMMA ValuesReadBack ==
    ASSUME NEW V, NEW R \in Seq(Seq(V)), NEW w \in Nat, NEW unit,
           \A r \in 1..Len(R) : Len(R[r]) = w
    PROVE  ValuesOf([k \in DOMAIN R |-> [x \in 1..w |-> absent_uncertainty(R[k][x], unit)]]) = R
<1> DEFINE rows == [k \in DOMAIN R |-> [x \in 1..w |-> absent_uncertainty(R[k][x], unit)]]
<1>1. /\ DOMAIN R = 1..Len(R) /\ \A r \in 1..Len(R) : R[r] \in Seq(V)
  BY LenProperties, ElementOfSeq
<1>2. \A r \in DOMAIN R : R[r] = [x \in 1..w |-> R[r][x]]
  <2> TAKE r \in DOMAIN R
  <2> DEFINE s == R[r]
  <2>1. s \in Seq(V) /\ Len(s) = w
    BY <1>1
  <2> HIDE DEF s
  <2>2. s = [x \in 1..w |-> s[x]]
    BY <2>1
  <2> QED BY <2>2 DEF s
<1>3. DOMAIN rows = DOMAIN R /\ \A k \in DOMAIN R : DOMAIN rows[k] = 1..w
  OBVIOUS
<1>4. \A k \in DOMAIN R, x \in 1..w : rows[k][x].value = R[k][x]
  BY DEF absent_uncertainty
<1> HIDE DEF rows
<1>5. ValuesOf(rows) = [k \in DOMAIN R |-> [x \in 1..w |-> R[k][x]]]
  BY <1>3, <1>4 DEF ValuesOf
<1>6. [k \in DOMAIN R |-> [x \in 1..w |-> R[k][x]]] = [k \in DOMAIN R |-> R[k]]
  BY <1>2
<1>7. [k \in DOMAIN R |-> R[k]] = R
  BY <1>1
<1> QED BY <1>5, <1>6, <1>7 DEF rows

\* What the adapter records of a run is what was run, whatever its size
\* (ste_adapter.py against op_lj_pairwise.cpp and op_fourier.cpp).
THEOREM ContentIsOfTheRunHolds == CodecSpec => []ContentIsOfTheRun
<1>1. CodecInv => ContentIsOfTheRun
  <2> DEFINE q == received.meaning
             content == received.content
             block == content.method_block
             c == sent.configuration
             program == scl_program_descriptor(
                            sent.version_line, sent.backend, sent.operation_symbols)
             said == split_descriptor(program)
  <2> SUFFICES ASSUME CodecInv, Executed, content # Nothing
               PROVE  /\ block.backend = applicable(sent.backend)
                      /\ said.operation = sent.operation_symbols
                      /\ sent.operation = "lj_pairwise_energy_forces" =>
                           /\ block.potential_version = applicable(sent.version_line)
                           /\ ValuesOf(content.forces) = Reverse(q.positions)
                           /\ block.n_particles = applicable(Len(q.positions))
                           /\ block.cutoff = applicable(q.cutoff)
                           /\ content.parameters = [epsilon |-> q.epsilon, sigma |-> q.sigma]
                      /\ sent.operation = "fourier_transform_1d" =>
                           /\ block.kernel_version = applicable(sent.version_line)
                           /\ ValuesOf(content.spectrum) = Reverse(q.signal)
                           /\ "unknown" \notin {block.direction.value, block.normalization.value}
                           /\ block.frequency_axis.applicable <=> q.spacing # "None"
                           /\ block.frequency_axis.value = q.spacing
                           /\ IF q.spacing = "None" THEN content.frequency_hz = "None"
                              ELSE DOMAIN content.frequency_hz = 0..(Len(q.signal) - 1)
    BY DEF ContentIsOfTheRun, ValuesOf
  <2>1. /\ sent.operation \in DOMAIN Headers /\ IsSpecification(sent)
        /\ content = Content(sent, q)
    BY ExecutedRan
  <2>2. /\ said.version_line = sent.version_line /\ said.backend = sent.backend
        /\ said.operation = sent.operation_symbols
    <3> DEFINE v == sent.version_line
               b == sent.backend
               o == sent.operation_symbols
    <3>1. /\ v \in Seq(STRING) /\ b \in Seq(STRING) /\ o \in Seq(STRING)
          /\ \A k \in DOMAIN v : v[k] # "LF"
          /\ v # <<"[backend]">> /\ \A k \in DOMAIN o : o[k] # "-" /\ o[k] # "LF"
      BY <2>1, Zenon DEF IsSpecification
    <3> HIDE DEF v, b, o
    <3>2. split_descriptor(scl_program_descriptor(v, b, o))
            = [version_line |-> v, operation |-> o, backend |-> b]
      BY <3>1, DescriptorReadsBack
    <3> QED BY <3>2 DEF v, b, o
  <2>3. CASE sent.operation = "lj_pairwise_energy_forces"
    <3> DEFINE R == Reverse(q.positions)
    <3>1. /\ q.positions \in Seq(Seq(EightBytes))
          /\ \A r \in 1..Len(q.positions) : Len(q.positions[r]) = 3
          /\ q.cutoff = c.words[3] /\ q.epsilon = c.words[1] /\ q.sigma = c.words[2]
          /\ content =
               [value |-> "half",
                total_energy |-> absent_uncertainty("half", "epsilon"),
                forces |-> [k \in DOMAIN R |-> [x \in 1..3 |->
                               absent_uncertainty(R[k][x], "epsilon_per_sigma")]],
                method_block |-> lj_method_block_for(c.words[3], Len(q.positions), said.backend,
                                                     said.version_line),
                parameters |-> [epsilon |-> c.words[1], sigma |-> c.words[2]]]
      BY <2>3, LjRun, Zenon
    <3> HIDE DEF q, content, c, said
    <3>2. R \in Seq(Seq(EightBytes)) /\ Len(R) = Len(q.positions)
          /\ \A r \in 1..Len(R) : R[r] = q.positions[Len(q.positions) - r + 1]
      BY <3>1, Reversed
    <3>3. \A r \in 1..Len(R) : Len(R[r]) = 3
      <4> DEFINE n == Len(q.positions)
      <4>1. n \in Nat /\ Len(R) = n
        BY <3>1, <3>2, LenProperties
      <4> HIDE DEF n, R
      <4> TAKE r \in 1..Len(R)
      <4> DEFINE k == n - r + 1
      <4>2. k \in 1..n
        BY <4>1
      <4>3. R[r] = q.positions[k] /\ \A j \in 1..n : Len(q.positions[j]) = 3
        BY <3>1, <3>2 DEF n
      <4> HIDE DEF k
      <4> QED BY <4>2, <4>3
    <3> HIDE DEF R
    <3>4. ValuesOf([k \in DOMAIN R |-> [x \in 1..3 |->
                       absent_uncertainty(R[k][x], "epsilon_per_sigma")]]) = R
      <4> DEFINE w == 3
      <4>1. w \in Nat /\ \A r \in 1..Len(R) : Len(R[r]) = w
        BY <3>3
      <4> HIDE DEF w
      <4>2. ValuesOf([k \in DOMAIN R |-> [x \in 1..w |->
                         absent_uncertainty(R[k][x], "epsilon_per_sigma")]]) = R
        BY <3>2, <4>1, ValuesReadBack
      <4> QED BY <4>2 DEF w
    <3>5. /\ block = lj_method_block_for(c.words[3], Len(q.positions), said.backend,
                                         said.version_line)
          /\ content.forces = [k \in DOMAIN R |-> [x \in 1..3 |->
                                  absent_uncertainty(R[k][x], "epsilon_per_sigma")]]
          /\ content.parameters = [epsilon |-> c.words[1], sigma |-> c.words[2]]
      BY <3>1
    <3>6. /\ block.backend = applicable(said.backend)
          /\ block.potential_version = applicable(said.version_line)
          /\ block.n_particles = applicable(Len(q.positions))
          /\ block.cutoff = applicable(c.words[3])
      BY <3>5 DEF lj_method_block_for
    <3> QED BY <2>2, <2>3, <3>1, <3>4, <3>5, <3>6 DEF R
  <2>4. CASE sent.operation = "fourier_transform_1d"
    <3> DEFINE R == Reverse(q.signal)
    <3>1. /\ Len(q.signal) \in Nat \ {0} /\ q.signal \in Seq(Seq(EightBytes))
          /\ \A r \in 1..Len(q.signal) : Len(q.signal[r]) = 2
          /\ c.ints[1] \in {1, -1} /\ c.ints[2] \in {0, 1, 2}
          /\ q.spacing # "None" => Less("0", q.spacing)
          /\ content =
               [spectrum |-> [k \in DOMAIN R |-> [x \in 1..2 |->
                                 absent_uncertainty(R[k][x], "amplitude")]],
                method_block |->
                   fourier_method_block_for(c.ints[1], c.ints[2], Len(q.signal), q.spacing,
                                            said.backend, said.version_line),
                frequency_hz |-> frequency_bins(Len(q.signal), q.spacing)]
      BY <2>4, FourierRun, Zenon
    <3> HIDE DEF q, content, c, said
    <3>2. R \in Seq(Seq(EightBytes)) /\ Len(R) = Len(q.signal)
          /\ \A r \in 1..Len(R) : R[r] = q.signal[Len(q.signal) - r + 1]
      BY <3>1, Reversed
    <3>3. \A r \in 1..Len(R) : Len(R[r]) = 2
      <4> DEFINE n == Len(q.signal)
      <4>1. n \in Nat /\ Len(R) = n
        BY <3>1, <3>2, LenProperties
      <4> HIDE DEF n, R
      <4> TAKE r \in 1..Len(R)
      <4> DEFINE k == n - r + 1
      <4>2. k \in 1..n
        BY <4>1
      <4>3. R[r] = q.signal[k] /\ \A j \in 1..n : Len(q.signal[j]) = 2
        BY <3>1, <3>2 DEF n
      <4> HIDE DEF k
      <4> QED BY <4>2, <4>3
    <3> HIDE DEF R
    <3>4. ValuesOf([k \in DOMAIN R |-> [x \in 1..2 |->
                       absent_uncertainty(R[k][x], "amplitude")]]) = R
      <4> DEFINE w == 2
      <4>1. w \in Nat /\ \A r \in 1..Len(R) : Len(R[r]) = w
        BY <3>3
      <4> HIDE DEF w
      <4>2. ValuesOf([k \in DOMAIN R |-> [x \in 1..w |->
                         absent_uncertainty(R[k][x], "amplitude")]]) = R
        BY <3>2, <4>1, ValuesReadBack
      <4> QED BY <4>2 DEF w
    <3>5. /\ block = fourier_method_block_for(c.ints[1], c.ints[2], Len(q.signal), q.spacing,
                                              said.backend, said.version_line)
          /\ content.spectrum = [k \in DOMAIN R |-> [x \in 1..2 |->
                                    absent_uncertainty(R[k][x], "amplitude")]]
          /\ content.frequency_hz = frequency_bins(Len(q.signal), q.spacing)
      BY <3>1
    <3>6. /\ block.backend = applicable(said.backend)
          /\ block.kernel_version = applicable(said.version_line)
          /\ block.frequency_axis = IF q.spacing = "None" THEN not_applicable
                                    ELSE applicable(q.spacing)
      BY <3>5 DEF fourier_method_block_for
    <3>7. /\ block.direction.value \in {"forward", "inverse"}
          /\ block.normalization.value \in {"none", "one_over_n", "one_over_sqrt_n"}
      <4>1. block.direction.value = CASE c.ints[1] = 1 -> "forward" [] c.ints[1] = -1 -> "inverse"
                                      [] OTHER -> "unknown"
        BY <3>5 DEF fourier_method_block_for, applicable
      <4>2. block.normalization.value = CASE c.ints[2] = 0 -> "none"
                                          [] c.ints[2] = 1 -> "one_over_n"
                                          [] c.ints[2] = 2 -> "one_over_sqrt_n"
                                          [] OTHER -> "unknown"
        BY <3>5 DEF fourier_method_block_for, applicable
      <4> QED BY <3>1, <4>1, <4>2
    <3>8. /\ block.frequency_axis.applicable <=> q.spacing # "None"
          /\ block.frequency_axis.value = q.spacing
      BY <3>6 DEF applicable, not_applicable
    <3>9. IF q.spacing = "None" THEN content.frequency_hz = "None"
          ELSE DOMAIN content.frequency_hz = 0..(Len(q.signal) - 1)
      <4> DEFINE n == Len(q.signal)
      <4>1. n \in Nat \ {0} /\ (q.spacing # "None" => Less("0", q.spacing))
        BY <3>1
      <4>2. content.frequency_hz = frequency_bins(n, q.spacing)
        BY <3>5
      <4> HIDE DEF n
      <4>3. ~(n <= 0)
        BY <4>1
      <4> QED BY <4>1, <4>2, <4>3 DEF frequency_bins, n
    <3> QED BY <2>2, <2>4, <3>4, <3>5, <3>6, <3>7, <3>8, <3>9 DEF R
  <2>5. CASE sent.operation \in {"least_squares", "kalman_filter_linear"}
    BY <2>1, <2>5 DEF Content
  <2> QED BY <2>1, <2>3, <2>4, <2>5 DEF Headers
<1> QED BY <1>1, CodecInvHolds, PTL

-----------------------------------------------------------------------------
(* Quoted text: where it ends, and what it says, can be read from the front. *)

\* The characters that the escapes are made of.
Escaping == {"\\", "\"", "n", "r", "t"}

LEMMA FlattenIsSeq ==
    ASSUME NEW V, NEW s \in Seq(Seq(V)) PROVE FlattenSeq(s) \in Seq(V)
<1>1. CASE Len(s) = 0
  <2>1. FlattenSeq(s) = s /\ s = <<>>
    BY <1>1, EmptySeq DEF FlattenSeq
  <2> QED BY <2>1, EmptySeq
<1>2. CASE Len(s) # 0
  <2>1. s # <<>>
    BY <1>2, NotEmpty
  <2>2. PICK f \in [1..Len(s) -> Seq(V)] : IsFlattening(f, s) /\ FlattenSeq(s) = f[Len(s)]
    BY <2>1, Flattening
  <2>3. Len(s) \in 1..Len(s)
    BY <1>2, LenProperties
  <2> QED BY <2>2, <2>3
<1> QED BY <1>1, <1>2

LEMMA FlattenMore ==
    ASSUME NEW V, NEW s \in Seq(Seq(V)), NEW x \in Seq(V)
    PROVE  FlattenSeq(Append(s, x)) = Cat(FlattenSeq(s), x)
<1> DEFINE n == Len(s)
           u == Append(s, x)
<1>1. /\ n \in Nat /\ u \in Seq(Seq(V)) /\ Len(u) = n + 1
      /\ u[n + 1] = x /\ \A i \in 1..n : u[i] = s[i]
  BY LenProperties, AppendProperties
<1>4. n = Len(s) /\ u = Append(s, x)
  OBVIOUS
<1> HIDE DEF n, u
<1>2. CASE n = 0
  <2>1. FlattenSeq(u) = u[1]
    BY <1>1, <1>2, FlattenOne
  <2>2. s = <<>>
    BY <1>2, <1>4, EmptySeq
  <2>3. FlattenSeq(s) = <<>>
    BY <1>2, <1>4, <2>2, Zenon DEF FlattenSeq
  <2>4. Cat(<<>>, x) = x
    BY ConcatEmptySeq DEF Cat
  <2>5. u[1] = x
    BY <1>1, <1>2
  <2> QED BY <1>4, <2>1, <2>3, <2>4, <2>5, Zenon
<1>3. CASE n # 0
  <2>1. s # <<>> /\ u # <<>>
    <3>1. Len(s) # 0 /\ Len(u) # 0
      BY <1>1, <1>3, <1>4
    <3> QED BY <1>1, <3>1, NotEmpty
  <2>2. PICK f \in [1..n -> Seq(V)] : IsFlattening(f, s) /\ FlattenSeq(s) = f[n]
    BY <1>4, <2>1, Flattening
  <2>3. PICK g \in [1..(n + 1) -> Seq(V)] : IsFlattening(g, u) /\ FlattenSeq(u) = g[n + 1]
    BY <1>1, <2>1, Flattening
  <2> DEFINE T == {k \in 0..(n - 1) : f[k + 1] = g[k + 1]}
  <2>4. 0 \in T
    BY <1>1, <1>3, <1>4, <2>2, <2>3 DEF IsFlattening
  <2>5. \A k \in 0..(n - 2) : k \in T => k + 1 \in T
    <3> SUFFICES ASSUME NEW k \in 0..(n - 2), k \in T PROVE k + 1 \in T
      OBVIOUS
    <3>1. k + 2 \in 2..n /\ k + 2 \in 2..(n + 1) /\ k + 2 \in 1..n /\ (k + 2) - 1 = k + 1
      BY <1>1
    <3>2. f[k + 2] = f[k + 1] \o s[k + 2]
      BY <1>4, <2>2, <3>1 DEF IsFlattening
    <3>3. g[k + 2] = g[k + 1] \o u[k + 2]
      BY <1>1, <2>3, <3>1 DEF IsFlattening
    <3>4. f[k + 1] = g[k + 1] /\ u[k + 2] = s[k + 2]
      BY <1>1, <3>1
    <3>5. f[k + 2] = g[k + 2]
      BY <3>2, <3>3, <3>4, Zenon
    <3>6. k + 1 \in 0..(n - 1) /\ (k + 1) + 1 = k + 2
      BY <1>1
    <3>7. f[(k + 1) + 1] = g[(k + 1) + 1]
      BY <3>5, <3>6, Zenon
    <3> HIDE DEF IsFlattening
    <3> QED BY <3>6, <3>7
  <2>6. \A k \in 0..(n - 1) : k \in T
    <3>1. n - 1 \in Nat /\ (n - 1) - 1 = n - 2
      BY <1>1, <1>3
    <3> HIDE DEF T
    <3> QED BY <2>4, <2>5, <3>1, UpToInduction
  <2>7. f[n] = g[n]
    <3>1. n - 1 \in 0..(n - 1) /\ (n - 1) + 1 = n
      BY <1>1, <1>3
    <3> QED BY <2>6, <3>1
  <2>8. g[n + 1] = Cat(g[n], x)
    <3>1. n + 1 \in 2..(n + 1) /\ (n + 1) - 1 = n
      BY <1>1, <1>3
    <3>2. g[n + 1] = g[n] \o u[n + 1]
      BY <1>1, <2>3, <3>1 DEF IsFlattening
    <3> QED BY <1>1, <3>2, Zenon DEF Cat
  <2> QED BY <1>4, <2>2, <2>3, <2>7, <2>8, Zenon
<1> QED BY <1>2, <1>3, <1>4

\* What replaces one character is laid down where the character was.
LEMMA ReplaceMore ==
    ASSUME NEW V, NEW s \in Seq(V), NEW c \in V, NEW old, NEW new \in Seq(V)
    PROVE  /\ replace(s, old, new) \in Seq(V)
           /\ replace(Append(s, c), old, new)
                = Cat(replace(s, old, new), IF c = old THEN new ELSE <<c>>)
<1> DEFINE piece == [i \in DOMAIN s |-> IF s[i] = old THEN new ELSE <<s[i]>>]
           t == Append(s, c)
           last == IF c = old THEN new ELSE <<c>>
           pieces == [i \in DOMAIN t |-> IF t[i] = old THEN new ELSE <<t[i]>>]
<1>1. /\ Len(s) \in Nat /\ DOMAIN s = 1..Len(s) /\ \A i \in 1..Len(s) : s[i] \in V
      /\ t \in Seq(V) /\ Len(t) = Len(s) + 1 /\ DOMAIN t = 1..(Len(s) + 1)
      /\ t[Len(s) + 1] = c /\ \A i \in 1..Len(s) : t[i] = s[i]
  BY LenProperties, AppendProperties, ElementOfSeq
<1>2. \A d \in V : <<d>> \in Seq(V)
  OBVIOUS
<1>3. piece \in Seq(Seq(V)) /\ Len(piece) = Len(s)
  <2>1. \A i \in 1..Len(s) : piece[i] \in Seq(V)
    BY <1>1, <1>2
  <2>2. piece \in [1..Len(s) -> Seq(V)]
    BY <1>1, <2>1
  <2> HIDE DEF piece
  <2>3. piece \in Seq(Seq(V))
    BY <1>1, <2>2
  <2> QED BY <1>1, <2>2, <2>3, LenProperties
<1>4. last \in Seq(V)
  BY <1>2
<1> HIDE DEF t
<1>5. pieces = Append(piece, last)
  <2>1. DOMAIN pieces = 1..(Len(s) + 1)
    BY <1>1
  <2>2. \A i \in 1..Len(s) : pieces[i] = piece[i]
    BY <1>1
  <2>3. pieces[Len(s) + 1] = last
    BY <1>1
  <2>4. pieces = [i \in 1..(Len(s) + 1) |-> pieces[i]]
    BY <2>1
  <2> HIDE DEF pieces, piece, last
  <2>5. /\ Append(piece, last) \in Seq(Seq(V)) /\ Len(Append(piece, last)) = Len(s) + 1
        /\ Append(piece, last)[Len(s) + 1] = last
        /\ \A i \in 1..Len(s) : Append(piece, last)[i] = piece[i]
    BY <1>1, <1>3, <1>4, AppendProperties
  <2>6. pieces \in [1..(Len(s) + 1) -> Seq(V)]
    <3>1. \A i \in 1..(Len(s) + 1) : i \in 1..Len(s) \/ i = Len(s) + 1
      BY <1>1
    <3>2. \A i \in 1..Len(s) : piece[i] \in Seq(V)
      BY <1>3, ElementOfSeq
    <3>3. \A i \in 1..(Len(s) + 1) : pieces[i] \in Seq(V)
      BY <1>4, <2>2, <2>3, <3>1, <3>2
    <3> QED BY <2>4, <3>3
  <2>7. pieces \in Seq(Seq(V))
    BY <1>1, <2>6
  <2>8. Len(pieces) = Len(s) + 1
    BY <1>1, <2>1, <2>7, LenProperties
  <2>9. \A i \in 1..Len(pieces) : pieces[i] = Append(piece, last)[i]
    BY <1>1, <2>2, <2>3, <2>5, <2>8
  <2> QED BY <2>5, <2>7, <2>8, <2>9, SeqEqual
<1>6. replace(s, old, new) = FlattenSeq(piece) /\ replace(t, old, new) = FlattenSeq(pieces)
  BY Zenon DEF replace
<1> HIDE DEF piece, pieces, last
<1>7. FlattenSeq(Append(piece, last)) = Cat(FlattenSeq(piece), last)
  BY <1>3, <1>4, FlattenMore
<1>8. FlattenSeq(piece) \in Seq(V)
  BY <1>3, FlattenIsSeq
<1> QED BY <1>5, <1>6, <1>7, <1>8, Zenon DEF t, last

HasLast(t, V, k) == \E u \in Seq(V) : \E c \in V : Len(u) = k /\ t = Append(u, c)

LEMMA LastApart ==
    ASSUME NEW V, NEW k \in Nat, NEW t \in Seq(V), Len(t) = k + 1
    PROVE  HasLast(t, V, k)
<1> DEFINE u == [i \in 1..k |-> t[i]]
           c == t[k + 1]
           w == Append(u, c)
<1>1. \A i \in 1..k : t[i] \in V
  BY ElementOfSeq
<1>2. c \in V /\ u \in Seq(V)
  <2>1. k + 1 \in 1..Len(t)
    OBVIOUS
  <2>2. u \in [1..k -> V]
    BY <1>1
  <2> HIDE DEF u
  <2> QED BY <2>1, <2>2, ElementOfSeq
<1>3. Len(u) = k /\ \A i \in 1..k : u[i] = t[i]
  OBVIOUS
<1> HIDE DEF u, c
<1>4. w \in Seq(V) /\ Len(w) = k + 1 /\ w[k + 1] = c /\ \A i \in 1..k : w[i] = u[i]
  BY <1>2, <1>3, AppendProperties
<1>5. \A i \in 1..Len(t) : t[i] = w[i]
  BY <1>3, <1>4 DEF c
<1> HIDE DEF w
<1>6. t = w
  BY <1>4, <1>5, SeqEqual
<1> QED BY <1>2, <1>3, <1>6 DEF w, HasLast

\* What one character becomes is nobody's business but its own.
Distributes(s, t, old, new) ==
    replace(Cat(s, t), old, new) = Cat(replace(s, old, new), replace(t, old, new))

LEMMA ReplaceNothing == ASSUME NEW old, NEW new PROVE replace(<<>>, old, new) = <<>>
<1> DEFINE pieces == [i \in DOMAIN <<>> |-> IF <<>>[i] = old THEN new ELSE << <<>>[i] >>]
<1>1. replace(<<>>, old, new) = FlattenSeq(pieces)
  BY Zenon DEF replace
<1>2. pieces = <<>>
  OBVIOUS
<1>3. FlattenSeq(<<>>) = <<>>
  BY EmptySeq DEF FlattenSeq
<1> QED BY <1>1, <1>2, <1>3, Zenon

LEMMA CatNothing ==
    ASSUME NEW V, NEW s \in Seq(V) PROVE Cat(s, <<>>) = s /\ Cat(<<>>, s) = s
BY ConcatEmptySeq DEF Cat

LEMMA AppendIsCat ==
    ASSUME NEW V, NEW s \in Seq(V), NEW c \in V
    PROVE  <<c>> \in Seq(V) /\ Append(s, c) = Cat(s, <<c>>)
<1>1. <<c>> \in Seq(V)
  OBVIOUS
<1>2. Append(s, c) = s \o <<c>>
  BY AppendIsConcat
<1> QED BY <1>1, <1>2, Zenon DEF Cat

LEMMA ReplaceDistributes ==
    ASSUME NEW V, NEW s \in Seq(V), NEW old, NEW new \in Seq(V), NEW any \in V
    PROVE  \A t \in Seq(V) : Distributes(s, t, old, new)
<1> DEFINE T == {k \in Nat : \A t \in Seq(V) : Len(t) = k => Distributes(s, t, old, new)}
<1>1. 0 \in T
  <2> SUFFICES ASSUME NEW t \in Seq(V), Len(t) = 0 PROVE Distributes(s, t, old, new)
    OBVIOUS
  <2>1. t = <<>>
    BY EmptySeq
  <2>2. replace(s, old, new) \in Seq(V)
    BY ReplaceMore
  <2>3. replace(t, old, new) = <<>>
    BY <2>1, ReplaceNothing, Zenon
  <2>4. Cat(s, t) = s /\ Cat(replace(s, old, new), <<>>) = replace(s, old, new)
    BY <2>1, <2>2, CatNothing
  <2> QED BY <2>3, <2>4, Zenon DEF Distributes
<1>2. \A k \in T : k + 1 \in T
  <2> SUFFICES ASSUME NEW k \in T, NEW t \in Seq(V), Len(t) = k + 1
               PROVE  Distributes(s, t, old, new)
    OBVIOUS
  <2>1. k \in Nat
    OBVIOUS
  <2> HIDE DEF T
  <2>2. PICK u \in Seq(V), c \in V : Len(u) = k /\ t = Append(u, c)
    <3>1. HasLast(t, V, k)
      BY <2>1, LastApart
    <3> QED BY <3>1, Zenon DEF HasLast
  <2>3. Distributes(s, u, old, new)
    BY <2>2 DEF T
  <2> DEFINE last == IF c = old THEN new ELSE <<c>>
             rs == replace(s, old, new)
             ru == replace(u, old, new)
  <2>4. last \in Seq(V) /\ rs \in Seq(V) /\ ru \in Seq(V)
    BY ReplaceMore, AppendIsCat
  <2>5. Cat(s, u) \in Seq(V)
    BY CatIsSeq
  <2>6. Cat(s, t) = Append(Cat(s, u), c)
    <3>1. Append(u, c) = Cat(u, <<c>>) /\ <<c>> \in Seq(V)
      BY AppendIsCat
    <3>2. Append(Cat(s, u), c) = Cat(Cat(s, u), <<c>>)
      BY <2>5, AppendIsCat
    <3>3. Cat(Cat(s, u), <<c>>) = Cat(s, Cat(u, <<c>>))
      <4> DEFINE one == <<c>>
      <4>1. one \in Seq(V)
        BY <3>1
      <4> HIDE DEF one
      <4>2. Cat(Cat(s, u), one) = Cat(s, Cat(u, one))
        BY <4>1, CatAssociative
      <4> QED BY <4>2 DEF one
    <3> QED BY <2>2, <3>1, <3>2, <3>3, Zenon
  <2>7. replace(t, old, new) = Cat(ru, last)
    BY <2>2, ReplaceMore
  <2>8. replace(Append(Cat(s, u), c), old, new) = Cat(replace(Cat(s, u), old, new), last)
    BY <2>5, ReplaceMore
  <2>9. replace(Cat(s, u), old, new) = Cat(rs, ru)
    BY <2>3 DEF Distributes
  <2> HIDE DEF last, rs, ru
  <2>10. Cat(Cat(rs, ru), last) = Cat(rs, Cat(ru, last))
    BY <2>4, CatAssociative
  <2>11. replace(s, old, new) = rs
    BY DEF rs
  <2> QED BY <2>6, <2>7, <2>8, <2>9, <2>10, <2>11, Zenon DEF Distributes
<1>3. T = Nat
  <2> HIDE DEF T
  <2>1. T \in SUBSET Nat
    BY DEF T
  <2> QED BY <1>1, <1>2, <2>1, NatSetInduction
<1>4. \A t \in Seq(V) : Len(t) \in T
  BY <1>3, LenProperties
<1> QED BY <1>4

\* Of one character.
LEMMA ReplaceOne ==
    ASSUME NEW V, NEW c \in V, NEW old, NEW new \in Seq(V)
    PROVE  replace(<<c>>, old, new) = IF c = old THEN new ELSE <<c>>
<1> DEFINE last == IF c = old THEN new ELSE <<c>>
           nothing == <<>>
<1>1. nothing \in Seq(V) /\ last \in Seq(V)
  BY EmptySeq, AppendIsCat
<1>2. Append(nothing, c) = <<c>>
  OBVIOUS
<1>3. replace(nothing, old, new) = nothing
  BY ReplaceNothing
<1>4. Cat(nothing, last) = last
  BY <1>1, CatNothing
<1> HIDE DEF nothing
<1>5. replace(Append(nothing, c), old, new) = Cat(replace(nothing, old, new), last)
  BY <1>1, ReplaceMore
<1> QED BY <1>2, <1>3, <1>4, <1>5, Zenon

Pair(c, d) == <<c, d>>

LEMMA PairIsSeq ==
    ASSUME NEW V, NEW c \in V, NEW d \in V
    PROVE  Pair(c, d) \in Seq(V) /\ Pair(c, d) = Cat(<<c>>, <<d>>)
<1> DEFINE one == <<c>>
           two == <<d>>
           pair == <<c, d>>
<1>1. /\ one \in Seq(V) /\ Len(one) = 1 /\ one[1] = c
      /\ two \in Seq(V) /\ Len(two) = 1 /\ two[1] = d
      /\ Len(pair) = 2 /\ pair[1] = c /\ pair[2] = d
  OBVIOUS
<1>2. pair \in Seq(V)
  <2>1. <<c, d>> \in [1..2 -> V]
    OBVIOUS
  <2> QED BY <2>1
<1> HIDE DEF one, two, pair, Pair
<1>3. /\ Cat(one, two) \in Seq(V) /\ Len(Cat(one, two)) = 2
      /\ Cat(one, two)[1] = c /\ Cat(one, two)[2] = d
  <2>1. IsCat(Cat(one, two), V, one, two)
    BY <1>1, CatProperties
  <2>2. 1 \in 1..1
    OBVIOUS
  <2> QED BY <1>1, <2>1, <2>2 DEF IsCat
<1>4. \A i \in 1..Len(pair) : pair[i] = Cat(one, two)[i]
  BY <1>1, <1>3
<1>5. pair = Cat(one, two)
  BY <1>1, <1>2, <1>3, <1>4, SeqEqual
<1> QED BY <1>2, <1>5, Zenon DEF one, two, pair, Pair

\* The two characters of an escape keep off what is replaced after it.
LEMMA ReplaceTwo ==
    ASSUME NEW V, NEW c \in V, NEW d \in V, NEW old, NEW new \in Seq(V), c # old, d # old
    PROVE  replace(Pair(c, d), old, new) = Pair(c, d)
<1> DEFINE one == <<c>>
           two == <<d>>
<1>1. one \in Seq(V) /\ two \in Seq(V) /\ Pair(c, d) = Cat(one, two)
  BY PairIsSeq, AppendIsCat
<1>2. replace(one, old, new) = one /\ replace(two, old, new) = two
  BY ReplaceOne
<1> HIDE DEF one, two
<1>3. Distributes(one, two, old, new)
  BY <1>1, ReplaceDistributes
<1> QED BY <1>1, <1>2, <1>3, Zenon DEF Distributes

\* What stands between the quotes, and what stands there for one character.
Escape(text) == EscapeControls(EscapeQuotes(replace(text, "\\", <<"\\", "\\">>)))
Letters == [c \in {"\\", "\"", "LF", "CR", "TAB"} |->
    CASE c = "LF" -> "n" [] c = "CR" -> "r" [] c = "TAB" -> "t" [] OTHER -> c]
EscapeOf(c) == IF c \in DOMAIN Letters THEN Pair("\\", Letters[c]) ELSE <<c>>

LEMMA EscapingCharacters ==
    ASSUME NEW V, Escaping \subseteq V
    PROVE  /\ "\\" \in V /\ "\"" \in V /\ "n" \in V /\ "r" \in V /\ "t" \in V
           /\ Pair("\\", "\\") \in Seq(V) /\ Pair("\\", "\"") \in Seq(V)
           /\ Pair("\\", "n") \in Seq(V) /\ Pair("\\", "r") \in Seq(V)
           /\ Pair("\\", "t") \in Seq(V)
<1>1. /\ "\\" \in V /\ "\"" \in V /\ "n" \in V /\ "r" \in V /\ "t" \in V
  BY DEF Escaping
<1> QED BY <1>1, PairIsSeq

LEMMA OneIsSeq ==
    ASSUME NEW V, NEW c \in V PROVE <<c>> \in Seq(V) /\ Len(<<c>>) = 1 /\ <<c>>[1] = c
OBVIOUS

\* The escapes, one after another.
LEMMA Escaped ==
    ASSUME NEW s
    PROVE  /\ EscapeQuotes(s) = replace(s, "\"", Pair("\\", "\""))
           /\ EscapeControls(s) = replace(replace(replace(s, "LF", Pair("\\", "n")),
                                                  "CR", Pair("\\", "r")), "TAB", Pair("\\", "t"))
           /\ Escape(s) = EscapeControls(EscapeQuotes(replace(s, "\\", Pair("\\", "\\"))))
BY Zenon DEF EscapeQuotes, EscapeControls, Escape, Pair

LEMMA PairKept ==
    ASSUME NEW V, Escaping \subseteq V, NEW d \in {"\\", "\"", "n", "r", "t"}
    PROVE  /\ d # "\"" => EscapeQuotes(Pair("\\", d)) = Pair("\\", d)
           /\ EscapeControls(Pair("\\", d)) = Pair("\\", d)
           /\ replace(Pair("\\", d), "CR", Pair("\\", "r")) = Pair("\\", d)
           /\ replace(Pair("\\", d), "TAB", Pair("\\", "t")) = Pair("\\", d)
<1> DEFINE slash == "\\"
<1>1. slash \in V /\ d \in V /\ slash \notin {"LF", "CR", "TAB", "\""} /\ d \notin {"LF", "CR", "TAB"}
  BY EscapingCharacters
<1>2. ASSUME NEW old \in {"LF", "CR", "TAB", "\""}, d # old, NEW new \in Seq(V)
      PROVE  replace(Pair(slash, d), old, new) = Pair(slash, d)
  <2>1. slash # old
    BY <1>1
  <2>2. \A e \in V : e # old => replace(Pair(e, d), old, new) = Pair(e, d)
    <3> SUFFICES ASSUME NEW e \in V, e # old
                 PROVE  replace(Pair(e, d), old, new) = Pair(e, d)
      OBVIOUS
    <3>1. d \in V /\ d # old
      BY <1>1, <1>2
    <3> HIDE DEF slash
    <3> QED BY <3>1, ReplaceTwo
  <2> QED BY <1>1, <2>1, <2>2
<1>3. /\ replace(Pair(slash, d), "LF", Pair("\\", "n")) = Pair(slash, d)
      /\ replace(Pair(slash, d), "CR", Pair("\\", "r")) = Pair(slash, d)
      /\ replace(Pair(slash, d), "TAB", Pair("\\", "t")) = Pair(slash, d)
  <2>1. d # "LF" /\ d # "CR" /\ d # "TAB"
    BY <1>1
  <2>2. Pair("\\", "n") \in Seq(V) /\ Pair("\\", "r") \in Seq(V) /\ Pair("\\", "t") \in Seq(V)
    BY EscapingCharacters
  <2> QED BY <1>2, <2>1, <2>2
<1>4. EscapeControls(Pair(slash, d)) = Pair(slash, d)
  BY <1>3, Escaped, Zenon
<1>5. ASSUME d # "\"" PROVE EscapeQuotes(Pair(slash, d)) = Pair(slash, d)
  <2>1. Pair("\\", "\"") \in Seq(V)
    BY EscapingCharacters
  <2>2. replace(Pair(slash, d), "\"", Pair("\\", "\"")) = Pair(slash, d)
    BY <1>2, <1>5, <2>1
  <2> QED BY <2>2, Escaped, Zenon
<1> QED BY <1>3, <1>4, <1>5

LEMMA EscapeOne ==
    ASSUME NEW V, Escaping \subseteq V, NEW c \in V
    PROVE  Escape(<<c>>) = EscapeOf(c) /\ EscapeOf(c) \in Seq(V)
<1> DEFINE one == <<c>>
<1>1. one \in Seq(V)
  BY AppendIsCat
<1>2. /\ replace(one, "\\", Pair("\\", "\\")) = IF c = "\\" THEN Pair("\\", "\\") ELSE one
      /\ replace(one, "\"", Pair("\\", "\"")) = IF c = "\"" THEN Pair("\\", "\"") ELSE one
      /\ replace(one, "LF", Pair("\\", "n")) = IF c = "LF" THEN Pair("\\", "n") ELSE one
      /\ replace(one, "CR", Pair("\\", "r")) = IF c = "CR" THEN Pair("\\", "r") ELSE one
      /\ replace(one, "TAB", Pair("\\", "t")) = IF c = "TAB" THEN Pair("\\", "t") ELSE one
  <2>1. \A old : \A new \in Seq(V) : replace(one, old, new) = IF c = old THEN new ELSE one
    BY ReplaceOne
  <2> HIDE DEF one
  <2> QED BY <2>1, EscapingCharacters
<1>3. /\ c \in DOMAIN Letters => EscapeOf(c) = Pair("\\", Letters[c])
      /\ c \notin DOMAIN Letters => EscapeOf(c) = one
  BY DEF EscapeOf
<1>4. EscapeOf(c) \in Seq(V)
  <2>1. \A d \in DOMAIN Letters : Letters[d] \in V
    BY EscapingCharacters DEF Letters
  <2> HIDE DEF one
  <2> QED BY <1>1, <1>3, <2>1, EscapingCharacters, PairIsSeq
<1> HIDE DEF one
<1>5. CASE c = "\\"
  <2>1. EscapeOf(c) = Pair("\\", "\\")
    BY <1>5 DEF EscapeOf, Letters
  <2>2. /\ EscapeQuotes(Pair("\\", "\\")) = Pair("\\", "\\")
        /\ EscapeControls(Pair("\\", "\\")) = Pair("\\", "\\")
    BY PairKept
  <2>3. Escape(one) = Pair("\\", "\\")
    BY <1>2, <1>5, <2>2, Escaped
  <2> QED BY <1>4, <2>1, <2>3 DEF one
<1>6. CASE c = "\""
  <2>1. EscapeOf(c) = Pair("\\", "\"")
    BY <1>6 DEF EscapeOf, Letters
  <2>2. EscapeControls(Pair("\\", "\"")) = Pair("\\", "\"")
    BY PairKept
  <2>3. EscapeQuotes(one) = Pair("\\", "\"") /\ replace(one, "\\", Pair("\\", "\\")) = one
    BY <1>2, <1>6, Escaped
  <2>4. Escape(one) = Pair("\\", "\"")
    BY <2>2, <2>3, Escaped
  <2> QED BY <1>4, <2>1, <2>4 DEF one
<1>7. CASE c \notin {"\\", "\""}
  <2>1. Escape(one) = EscapeControls(one)
    BY <1>2, <1>7, Escaped
  <2>2. /\ replace(Pair("\\", "n"), "CR", Pair("\\", "r")) = Pair("\\", "n")
        /\ replace(Pair("\\", "n"), "TAB", Pair("\\", "t")) = Pair("\\", "n")
        /\ replace(Pair("\\", "r"), "TAB", Pair("\\", "t")) = Pair("\\", "r")
    BY PairKept
  <2>3. EscapeControls(one) = IF c = "LF" THEN Pair("\\", "n") ELSE IF c = "CR" THEN Pair("\\", "r")
                              ELSE IF c = "TAB" THEN Pair("\\", "t") ELSE one
    BY <1>2, <2>2, Escaped
  <2>4. EscapeOf(c) = IF c = "LF" THEN Pair("\\", "n") ELSE IF c = "CR" THEN Pair("\\", "r")
                      ELSE IF c = "TAB" THEN Pair("\\", "t") ELSE one
    BY <1>7 DEF EscapeOf, Letters, one
  <2> QED BY <1>4, <2>1, <2>3, <2>4 DEF one
<1> QED BY <1>5, <1>6, <1>7

LEMMA EscapeNothing == Escape(<<>>) = <<>>
<1> DEFINE once == replace(<<>>, "\\", Pair("\\", "\\"))
           feeds == replace(<<>>, "LF", Pair("\\", "n"))
           returns == replace(<<>>, "CR", Pair("\\", "r"))
<1>1. once = <<>> /\ feeds = <<>> /\ returns = <<>>
  BY ReplaceNothing
<1>2. EscapeQuotes(once) = <<>>
  BY <1>1, ReplaceNothing, Zenon DEF EscapeQuotes
<1>3. EscapeControls(<<>>) = replace(replace(feeds, "CR", Pair("\\", "r")), "TAB", Pair("\\", "t"))
  BY Zenon DEF EscapeControls, Pair
<1>4. replace(replace(feeds, "CR", Pair("\\", "r")), "TAB", Pair("\\", "t")) = <<>>
  BY <1>1, ReplaceNothing, Zenon
<1>5. Escape(<<>>) = EscapeControls(EscapeQuotes(once))
  BY Zenon DEF Escape, Pair
<1> QED BY <1>2, <1>3, <1>4, <1>5, Zenon

LEMMA ReplaceIsSeq ==
    ASSUME NEW V, NEW s \in Seq(V), NEW old, NEW new \in Seq(V), NEW any \in V
    PROVE  replace(s, old, new) \in Seq(V)
BY ReplaceMore

LEMMA EscapeDistributes ==
    ASSUME NEW V, Escaping \subseteq V, NEW s \in Seq(V), NEW t \in Seq(V)
    PROVE  /\ Escape(s) \in Seq(V)
           /\ Escape(Cat(s, t)) = Cat(Escape(s), Escape(t))
<1> DEFINE once(u) == replace(u, "\\", Pair("\\", "\\"))
           twice(u) == replace(u, "\"", Pair("\\", "\""))
           feeds(u) == replace(u, "LF", Pair("\\", "n"))
           returns(u) == replace(u, "CR", Pair("\\", "r"))
           tabs(u) == replace(u, "TAB", Pair("\\", "t"))
<1>1. ASSUME NEW u \in Seq(V)
      PROVE  /\ once(u) \in Seq(V) /\ twice(u) \in Seq(V) /\ feeds(u) \in Seq(V)
             /\ returns(u) \in Seq(V) /\ tabs(u) \in Seq(V)
  BY EscapingCharacters, ReplaceIsSeq
<1>2. ASSUME NEW u \in Seq(V), NEW w \in Seq(V)
      PROVE  /\ once(Cat(u, w)) = Cat(once(u), once(w))
             /\ twice(Cat(u, w)) = Cat(twice(u), twice(w))
             /\ feeds(Cat(u, w)) = Cat(feeds(u), feeds(w))
             /\ returns(Cat(u, w)) = Cat(returns(u), returns(w))
             /\ tabs(Cat(u, w)) = Cat(tabs(u), tabs(w))
  <2>1. /\ Distributes(u, w, "\\", Pair("\\", "\\")) /\ Distributes(u, w, "\"", Pair("\\", "\""))
        /\ Distributes(u, w, "LF", Pair("\\", "n")) /\ Distributes(u, w, "CR", Pair("\\", "r"))
        /\ Distributes(u, w, "TAB", Pair("\\", "t"))
    BY EscapingCharacters, ReplaceDistributes
  <2> QED BY <2>1, Zenon DEF Distributes
<1>3. \A u : Escape(u) = tabs(returns(feeds(twice(once(u)))))
  BY Escaped, Zenon
<1> HIDE DEF once, twice, feeds, returns, tabs
<1>4. /\ once(s) \in Seq(V) /\ once(t) \in Seq(V)
      /\ once(Cat(s, t)) = Cat(once(s), once(t))
  BY <1>1, <1>2
<1>5. /\ twice(once(s)) \in Seq(V) /\ twice(once(t)) \in Seq(V)
      /\ twice(Cat(once(s), once(t))) = Cat(twice(once(s)), twice(once(t)))
  BY <1>1, <1>2, <1>4
<1> DEFINE s2 == twice(once(s))
           t2 == twice(once(t))
<1> HIDE DEF s2, t2
<1>6. /\ feeds(s2) \in Seq(V) /\ feeds(t2) \in Seq(V)
      /\ feeds(Cat(s2, t2)) = Cat(feeds(s2), feeds(t2))
  BY <1>1, <1>2, <1>5 DEF s2, t2
<1>7. /\ returns(feeds(s2)) \in Seq(V) /\ returns(feeds(t2)) \in Seq(V)
      /\ returns(Cat(feeds(s2), feeds(t2))) = Cat(returns(feeds(s2)), returns(feeds(t2)))
  BY <1>1, <1>2, <1>6
<1>8. /\ tabs(returns(feeds(s2))) \in Seq(V)
      /\ tabs(Cat(returns(feeds(s2)), returns(feeds(t2))))
           = Cat(tabs(returns(feeds(s2))), tabs(returns(feeds(t2))))
  BY <1>1, <1>2, <1>7
<1>9. Escape(s) = tabs(returns(feeds(s2))) /\ Escape(t) = tabs(returns(feeds(t2)))
  BY <1>3 DEF s2, t2
<1>10. Escape(Cat(s, t)) = tabs(returns(feeds(Cat(s2, t2))))
  BY <1>3, <1>4, <1>5, Zenon DEF s2, t2
<1> QED BY <1>6, <1>7, <1>8, <1>9, <1>10, Zenon

\* The front of a text, and the rest of it.
HasFirst(t, V, k) == \E c \in V : \E u \in Seq(V) : Len(u) = k /\ t = Cat(<<c>>, u)

LEMMA FirstApart ==
    ASSUME NEW V, NEW k \in Nat, NEW t \in Seq(V), Len(t) = k + 1
    PROVE  HasFirst(t, V, k)
<1> DEFINE u == [i \in 1..k |-> t[i + 1]]
           c == t[1]
           one == <<c>>
           w == Cat(one, u)
<1>1. \A i \in 1..(k + 1) : t[i] \in V
  BY ElementOfSeq
<1>2. c \in V
  BY <1>1
<1>3. u \in Seq(V)
  <2>1. \A i \in 1..k : t[i + 1] \in V
    BY <1>1
  <2>2. u \in [1..k -> V]
    BY <2>1
  <2> HIDE DEF u
  <2> QED BY <2>2
<1>4. Len(u) = k /\ \A i \in 1..k : u[i] = t[i + 1]
  OBVIOUS
<1>5. one \in Seq(V) /\ Len(one) = 1 /\ one[1] = t[1]
  BY <1>2
<1> HIDE DEF u, c, one
<1>6. /\ w \in Seq(V) /\ Len(w) = k + 1 /\ w[1] = t[1] /\ \A i \in 1..k : w[1 + i] = u[i]
  <2>1. IsCat(w, V, one, u)
    BY <1>3, <1>5, CatProperties
  <2>2. 1 \in 1..1
    OBVIOUS
  <2> HIDE DEF w
  <2> QED BY <1>4, <1>5, <2>1, <2>2 DEF IsCat
<1> HIDE DEF w
<1>7. \A i \in 1..Len(t) : t[i] = w[i]
  <2> TAKE i \in 1..Len(t)
  <2>1. CASE i = 1
    BY <1>6, <2>1
  <2>2. CASE i # 1
    <3>1. i - 1 \in 1..k /\ 1 + (i - 1) = i /\ (i - 1) + 1 = i
      BY <2>2
    <3> QED BY <1>4, <1>6, <3>1
  <2> QED BY <2>1, <2>2
<1>8. t = w
  BY <1>6, <1>7, SeqEqual
<1> QED BY <1>2, <1>3, <1>4, <1>8, Zenon DEF w, one, HasFirst

\* What an escape begins with.
LEMMA FirstOfEscape ==
    ASSUME NEW V, Escaping \subseteq V, NEW e \in V, NEW z \in Seq(V)
    PROVE  /\ Cat(EscapeOf(e), z)[1] = IF e \in DOMAIN Letters THEN "\\" ELSE e
           /\ e \in DOMAIN Letters => Cat(EscapeOf(e), z)[2] = Letters[e]
<1>1. CASE e \in DOMAIN Letters
  <2> DEFINE l == Letters[e]
             w == Pair("\\", l)
  <2>1. EscapeOf(e) = w /\ w \in Seq(V)
    BY <1>1, EscapeOne DEF EscapeOf
  <2>2. Len(w) = 2 /\ w[1] = "\\" /\ w[2] = l
    BY DEF Pair
  <2> HIDE DEF w, l
  <2>3. IsCat(Cat(w, z), V, w, z)
    BY <2>1, CatProperties
  <2>4. Cat(w, z)[1] = "\\" /\ Cat(w, z)[2] = l
    BY <2>2, <2>3 DEF IsCat
  <2> QED BY <1>1, <2>1, <2>4 DEF l
<1>2. CASE e \notin DOMAIN Letters
  <2> DEFINE w == <<e>>
  <2>1. EscapeOf(e) = w /\ w \in Seq(V) /\ Len(w) = 1 /\ w[1] = e
    BY <1>2 DEF EscapeOf
  <2> HIDE DEF w
  <2>2. IsCat(Cat(w, z), V, w, z)
    BY <2>1, CatProperties
  <2> QED BY <1>2, <2>1, <2>2 DEF IsCat
<1> QED BY <1>1, <1>2

\* Two characters whose escapes are alike, whatever comes after them, are one.
LEMMA EscapesDiffer ==
    ASSUME NEW V, Escaping \subseteq V, NEW c \in V, NEW d \in V,
           NEW x \in Seq(V), NEW y \in Seq(V), Cat(EscapeOf(c), x) = Cat(EscapeOf(d), y)
    PROVE  c = d
<1> DEFINE first(e) == IF e \in DOMAIN Letters THEN "\\" ELSE e
<1>1. ASSUME NEW e \in V, NEW z \in Seq(V)
      PROVE  /\ Cat(EscapeOf(e), z)[1] = first(e)
             /\ e \in DOMAIN Letters => Cat(EscapeOf(e), z)[2] = Letters[e]
  BY FirstOfEscape
<1>2. first(c) = first(d) /\ (c \in DOMAIN Letters /\ d \in DOMAIN Letters => Letters[c] = Letters[d])
  BY <1>1
<1>3. "\\" \in DOMAIN Letters
  BY DEF Letters
<1>4. c \in DOMAIN Letters <=> d \in DOMAIN Letters
  BY <1>2, <1>3
<1>5. CASE c \notin DOMAIN Letters
  BY <1>2, <1>4, <1>5
<1>6. CASE c \in DOMAIN Letters
  <2>1. Letters[c] = Letters[d] /\ d \in DOMAIN Letters
    BY <1>2, <1>4, <1>6
  <2> QED BY <1>6, <2>1 DEF Letters
<1> QED BY <1>5, <1>6

\* Whatever comes after the quote that ends a text, the text ends there.
EndedText(text, rest) == Cat(Escape(text), Cat(<<"\"">>, rest))
ReadsAs(s, V) ==
    \A t \in Seq(V) : \A a, b \in Seq(V) : EndedText(s, a) = EndedText(t, b) => s = t /\ a = b

\* No text begins with a quote once it is escaped.
LEMMA QuoteComesLast ==
    ASSUME NEW V, Escaping \subseteq V, NEW c \in V, NEW u \in Seq(V),
           NEW a \in Seq(V), NEW b \in Seq(V)
    PROVE  EndedText(Cat(<<c>>, u), a) # Cat(<<"\"">>, b)
<1> DEFINE one == <<c>>
           quote == <<"\"">>
           rest == Cat(Escape(u), Cat(quote, a))
<1>1. one \in Seq(V) /\ quote \in Seq(V) /\ Len(quote) = 1 /\ quote[1] = "\""
  <2>1. "\"" \in V
    BY EscapingCharacters
  <2> QED BY <2>1, OneIsSeq
<1> HIDE DEF one, quote
<1>2. Escape(u) \in Seq(V) /\ Escape(Cat(one, u)) = Cat(Escape(one), Escape(u))
  BY <1>1, EscapeDistributes
<1>3. Escape(one) = EscapeOf(c) /\ EscapeOf(c) \in Seq(V)
  BY EscapeOne DEF one
<1>4. Cat(quote, a) \in Seq(V) /\ rest \in Seq(V)
  BY <1>1, <1>2, CatIsSeq
<1>5. Cat(Cat(EscapeOf(c), Escape(u)), Cat(quote, a)) = Cat(EscapeOf(c), rest)
  BY <1>2, <1>3, <1>4, CatAssociative
<1>6. EndedText(Cat(one, u), a) = Cat(EscapeOf(c), rest)
  BY <1>2, <1>3, <1>5, Zenon DEF EndedText, quote
<1> HIDE DEF rest
<1>7. Cat(EscapeOf(c), rest)[1] # "\""
  <2>1. Cat(EscapeOf(c), rest)[1] = IF c \in DOMAIN Letters THEN "\\" ELSE c
    BY <1>4, FirstOfEscape
  <2>2. "\"" \in DOMAIN Letters
    BY DEF Letters
  <2>3. "\\" # "\""
    OBVIOUS
  <2> QED BY <2>1, <2>2, <2>3
<1>8. Cat(quote, b)[1] = "\""
  <2>1. IsCat(Cat(quote, b), V, quote, b)
    BY <1>1, CatProperties
  <2>2. 1 \in 1..1
    OBVIOUS
  <2> QED BY <1>1, <2>1, <2>2 DEF IsCat
<1> QED BY <1>6, <1>7, <1>8 DEF one, quote

LEMMA Reading ==
    ASSUME NEW V, Escaping \subseteq V
    PROVE  \A s \in Seq(V) : ReadsAs(s, V)
<1> DEFINE T == {k \in Nat : \A s \in Seq(V) : Len(s) = k => ReadsAs(s, V)}
           quote == <<"\"">>
           nothing == <<>>
<1>1. quote \in Seq(V) /\ nothing \in Seq(V) /\ Len(nothing) = 0
  <2>1. "\"" \in V
    BY EscapingCharacters
  <2> QED BY <2>1, OneIsSeq, EmptySeq
<1>2. ASSUME NEW s \in Seq(V) PROVE \E k \in Nat : Len(s) = k /\ (k = 0 => s = nothing) /\ (k # 0 => HasFirst(s, V, k - 1))
  <2>1. Len(s) \in Nat /\ (Len(s) = 0 => s = nothing)
    BY LenProperties, EmptySeq
  <2>2. ASSUME Len(s) # 0 PROVE HasFirst(s, V, Len(s) - 1)
    <3>1. Len(s) - 1 \in Nat /\ Len(s) = (Len(s) - 1) + 1
      BY <2>1, <2>2
    <3> QED BY <3>1, FirstApart
  <2> QED BY <2>1, <2>2
<1>3. ASSUME NEW a \in Seq(V) PROVE EndedText(nothing, a) = Cat(quote, a)
  <2>1. Escape(nothing) = nothing
    BY EscapeNothing
  <2>2. Cat(quote, a) \in Seq(V)
    BY <1>1, CatIsSeq
  <2> HIDE DEF quote
  <2>3. Cat(<<>>, Cat(quote, a)) = Cat(quote, a)
    BY <2>2, CatNothing
  <2> QED BY <2>1, <2>3, Zenon DEF EndedText, quote
<1>4. ASSUME NEW c \in V, NEW u \in Seq(V), NEW a \in Seq(V)
      PROVE  /\ EndedText(u, a) \in Seq(V)
             /\ EndedText(Cat(<<c>>, u), a) = Cat(EscapeOf(c), EndedText(u, a))
  <2> DEFINE one == <<c>>
             end == Cat(quote, a)
  <2>1. one \in Seq(V)
    OBVIOUS
  <2>2. end \in Seq(V)
    BY <1>1, CatIsSeq
  <2>3. Escape(one) = EscapeOf(c) /\ EscapeOf(c) \in Seq(V)
    BY EscapeOne
  <2> HIDE DEF one, end
  <2>4. Escape(u) \in Seq(V) /\ Escape(Cat(one, u)) = Cat(Escape(one), Escape(u))
    BY <2>1, EscapeDistributes
  <2>5. Cat(Cat(EscapeOf(c), Escape(u)), end) = Cat(EscapeOf(c), Cat(Escape(u), end))
    BY <2>2, <2>3, <2>4, CatAssociative
  <2>6. Cat(Escape(u), end) \in Seq(V)
    BY <2>2, <2>4, CatIsSeq
  <2>7. \A w : EndedText(w, a) = Cat(Escape(w), end)
    BY Zenon DEF EndedText, end
  <2> QED BY <2>3, <2>4, <2>5, <2>6, <2>7, Zenon DEF one
<1> HIDE DEF quote, nothing
<1>5. 0 \in T
  <2> SUFFICES ASSUME NEW s \in Seq(V), Len(s) = 0, NEW t \in Seq(V), NEW a \in Seq(V),
                      NEW b \in Seq(V), EndedText(s, a) = EndedText(t, b)
               PROVE  s = t /\ a = b
    BY DEF ReadsAs
  <2>1. s = nothing
    BY <1>2
  <2>2. PICK k \in Nat : Len(t) = k /\ (k = 0 => t = nothing) /\ (k # 0 => HasFirst(t, V, k - 1))
    BY <1>2
  <2>3. CASE k = 0
    <3>1. t = nothing
      BY <2>2, <2>3
    <3>2. Cat(quote, a) = Cat(quote, b)
      BY <1>3, <2>1, <3>1
    <3>3. a = b
      BY <1>1, <3>2, CatCancels
    <3> QED BY <2>1, <3>1, <3>3
  <2>4. CASE k # 0
    <3>1. PICK d \in V : \E w \in Seq(V) : t = Cat(<<d>>, w)
      BY <2>2, <2>4, Zenon DEF HasFirst
    <3>2. PICK w \in Seq(V) : t = Cat(<<d>>, w)
      BY <3>1
    <3>3. EndedText(Cat(<<d>>, w), b) # Cat(<<"\"">>, a)
      BY QuoteComesLast
    <3>4. EndedText(s, a) = Cat(quote, a)
      BY <1>3, <2>1
    <3> QED BY <3>2, <3>3, <3>4, Zenon DEF quote
  <2> QED BY <2>3, <2>4
<1>6. \A k \in T : k + 1 \in T
  <2> SUFFICES ASSUME NEW k \in T, NEW s \in Seq(V), Len(s) = k + 1 PROVE ReadsAs(s, V)
    OBVIOUS
  <2> SUFFICES ASSUME NEW t \in Seq(V), NEW a \in Seq(V), NEW b \in Seq(V),
                      EndedText(s, a) = EndedText(t, b)
               PROVE  s = t /\ a = b
    BY DEF ReadsAs
  <2>1. k \in Nat
    OBVIOUS
  <2>2. HasFirst(s, V, k)
    <3> HIDE DEF T
    <3> QED BY <2>1, FirstApart
  <2>3. PICK c \in V : \E u \in Seq(V) : Len(u) = k /\ s = Cat(<<c>>, u)
    BY <2>2, Zenon DEF HasFirst
  <2>4. PICK u \in Seq(V) : Len(u) = k /\ s = Cat(<<c>>, u)
    BY <2>3
  <2>5. ReadsAs(u, V)
    BY <2>4
  <2>6. PICK l \in Nat : Len(t) = l /\ (l = 0 => t = nothing) /\ (l # 0 => HasFirst(t, V, l - 1))
    BY <1>2
  <2> HIDE DEF T
  <2>7. CASE l = 0
    <3>1. EndedText(t, b) = Cat(quote, b)
      BY <1>3, <2>6, <2>7
    <3>2. EndedText(Cat(<<c>>, u), a) # Cat(<<"\"">>, b)
      BY QuoteComesLast
    <3> QED BY <2>4, <3>1, <3>2, Zenon DEF quote
  <2>8. CASE l # 0
    <3>1. PICK d \in V : \E w \in Seq(V) : t = Cat(<<d>>, w)
      BY <2>6, <2>8, Zenon DEF HasFirst
    <3>2. PICK w \in Seq(V) : t = Cat(<<d>>, w)
      BY <3>1
    <3>3. /\ EndedText(u, a) \in Seq(V) /\ EndedText(w, b) \in Seq(V)
          /\ Cat(EscapeOf(c), EndedText(u, a)) = Cat(EscapeOf(d), EndedText(w, b))
      BY <1>4, <2>4, <3>2
    <3>4. c = d
      BY <3>3, EscapesDiffer
    <3>5. EndedText(u, a) = EndedText(w, b)
      <4>1. EscapeOf(c) \in Seq(V)
        BY EscapeOne
      <4>2. Cat(EscapeOf(c), EndedText(u, a)) = Cat(EscapeOf(c), EndedText(w, b))
        BY <3>3, <3>4
      <4> QED BY <3>3, <4>1, <4>2, CatCancels
    <3>6. u = w /\ a = b
      BY <2>5, <3>5 DEF ReadsAs
    <3> QED BY <2>4, <3>2, <3>4, <3>6, Zenon
  <2> QED BY <2>7, <2>8
<1>7. T = Nat
  <2> HIDE DEF T
  <2>1. T \in SUBSET Nat
    BY DEF T
  <2> QED BY <1>5, <1>6, <2>1, NatSetInduction
<1>8. \A s \in Seq(V) : Len(s) \in T
  BY <1>7, LenProperties
<1> QED BY <1>8

\* A text can be read from its quoted form whatever the text and whatever follows it: no
\* quote inside it is taken for the one that ends it, no two texts are quoted alike, and so
\* no two keys and no two strings share their bytes (_quote, which replaces one character
\* after another: had the backslash not come first, "\n" and a line feed would be alike).
THEOREM QuotedTextIsRead ==
    ASSUME NEW V, NEW s \in Seq(V), NEW t \in Seq(V), NEW a \in Seq(V), NEW b \in Seq(V),
           Quote(s) \o a = Quote(t) \o b
    PROVE  s = t /\ a = b
<1> DEFINE W == V \cup Escaping
           quote == <<"\"">>
<1>1. Escaping \subseteq W /\ V \subseteq W
  OBVIOUS
<1> HIDE DEF W
<1>2. s \in Seq(W) /\ t \in Seq(W) /\ a \in Seq(W) /\ b \in Seq(W)
  BY <1>1, SeqMonotonic
<1>3. quote \in Seq(W)
  <2>1. "\"" \in W
    BY <1>1, EscapingCharacters
  <2> QED BY <2>1, OneIsSeq
<1> HIDE DEF quote
<1>4. ASSUME NEW u \in Seq(W), NEW c \in Seq(W)
      PROVE  EndedText(u, c) \in Seq(W) /\ Quote(u) \o c = Cat(quote, EndedText(u, c))
  <2> DEFINE e == Escape(u)
  <2>1. e \in Seq(W)
    BY <1>1, EscapeDistributes
  <2>2. Quote(u) \o c = Cat(Cat(Cat(quote, e), quote), c)
    BY Zenon DEF Quote, Escape, Cat, quote
  <2>3. EndedText(u, c) = Cat(e, Cat(quote, c))
    BY Zenon DEF EndedText, quote
  <2> HIDE DEF e
  <2>4. Cat(quote, e) \in Seq(W) /\ Cat(quote, c) \in Seq(W)
    BY <1>3, <2>1, CatIsSeq
  <2>5. Cat(Cat(Cat(quote, e), quote), c) = Cat(Cat(quote, e), Cat(quote, c))
    BY <1>3, <2>4, CatAssociative
  <2>6. Cat(Cat(quote, e), Cat(quote, c)) = Cat(quote, Cat(e, Cat(quote, c)))
    BY <1>3, <2>1, <2>4, CatAssociative
  <2>7. Cat(e, Cat(quote, c)) \in Seq(W)
    BY <2>1, <2>4, CatIsSeq
  <2> QED BY <2>2, <2>3, <2>5, <2>6, <2>7, Zenon
<1>5. EndedText(s, a) = EndedText(t, b)
  <2>1. Cat(quote, EndedText(s, a)) = Cat(quote, EndedText(t, b))
    <3>1. Quote(s) \o a = Cat(quote, EndedText(s, a)) /\ Quote(t) \o b = Cat(quote, EndedText(t, b))
      BY <1>2, <1>4
    <3> QED BY <3>1, Zenon
  <2>2. EndedText(s, a) \in Seq(W) /\ EndedText(t, b) \in Seq(W)
    BY <1>2, <1>4
  <2> QED BY <1>3, <2>1, <2>2, CatCancels
<1>6. ReadsAs(s, W)
  BY <1>1, <1>2, Reading
<1> QED BY <1>2, <1>5, <1>6 DEF ReadsAs
=============================================================================
