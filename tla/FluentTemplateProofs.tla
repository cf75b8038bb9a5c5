------------------------ MODULE FluentTemplateProofs ------------------------
(***************************************************************************)
(* Theorems about FluentTemplate, for every set of documents: the solver   *)
(* is driven in the order a simulation needs, and computes exactly what    *)
(* was asked for; a run fails only over what could not be known before;    *)
(* every picture shows what was asked for under its name; checkpoints are  *)
(* written as often as asked; and the default names never lose an output.  *)
(***************************************************************************)
EXTENDS FluentTemplate, PolicyProofs, FiniteSetTheorems, TLAPS

(***************************************************************************)
(* Sequences in a row.                                                     *)
(***************************************************************************)
\* Where the elements of two sequences in a row come from, and where they go.
LEMMA ConcatParts ==
  ASSUME NEW s, NEW t, IsSequence(s), IsSequence(t)
  PROVE  /\ IsSequence(s \o t) /\ Len(s \o t) = Len(s) + Len(t)
         /\ Len(s) \in Nat /\ Len(t) \in Nat
         /\ \A k \in 1 .. Len(s) : (s \o t)[k] = s[k]
         /\ \A j \in 1 .. Len(t) : (s \o t)[Len(s) + j] = t[j]
         /\ \A k \in 1 .. Len(s) + Len(t) :
              k \notin 1 .. Len(s) => k - Len(s) \in 1 .. Len(t) /\ (s \o t)[k] = t[k - Len(s)]
<1> DEFINE M == Len(s)
           N == Len(t)
           u == s \o t
<1>1. /\ IsSequence(u) /\ Len(u) = M + N /\ M \in Nat /\ N \in Nat
      /\ \A k \in 1 .. M + N : u[k] = IF k <= M THEN s[k] ELSE t[k - M]
  BY SequenceConcat, SequenceDomain
<1> HIDE DEF M, N, u
<1>2. \A k \in 1 .. M : u[k] = s[k]
  BY <1>1
<1>3. ASSUME NEW j \in 1 .. N PROVE u[M + j] = t[j]
  <2>1. M + j \in 1 .. M + N /\ ~(M + j <= M) /\ M + j - M = j
    BY <1>1
  <2>2. u[M + j] = t[M + j - M]
    BY <1>1, <2>1
  <2>. QED
    BY <2>1, <2>2
<1>4. \A k \in 1 .. M + N : k \notin 1 .. M => k - M \in 1 .. N /\ u[k] = t[k - M]
  BY <1>1
<1>. QED
  BY <1>1, <1>2, <1>3, <1>4 DEF M, N, u

\* Two elements are one after the other.
LEMMA TwoInARow ==
  ASSUME NEW p, NEW q
  PROVE  <<p>> \o <<q>> = <<p, q>>
<1> DEFINE a == <<p>>
           b == <<q>>
           u == a \o b
           v == <<p, q>>
<1>1. /\ IsSequence(a) /\ Len(a) = 1 /\ a[1] = p
      /\ IsSequence(b) /\ Len(b) = 1 /\ b[1] = q
  BY SequenceOne
<1>2. v \in Seq({p, q}) /\ Len(v) = 2 /\ v[1] = p /\ v[2] = q
  OBVIOUS
<1> HIDE DEF a, b, v
<1>3. /\ IsSequence(u) /\ Len(u) = Len(a) + Len(b)
      /\ \A k \in 1 .. Len(a) : u[k] = a[k]
      /\ \A k \in 1 .. Len(a) + Len(b) :
           k \notin 1 .. Len(a) => k - Len(a) \in 1 .. Len(b) /\ u[k] = b[k - Len(a)]
  BY ZenonT(60), <1>1, ConcatParts
<1> HIDE DEF u
<1>4. Len(u) = 2 /\ u[1] = p /\ u[2] = q
  BY <1>1, <1>3
<1>5. \A k \in 1 .. 2 : u[k] = v[k]
  BY <1>2, <1>4
<1>6. u = v
  BY <1>2, <1>3, <1>4, <1>5, SequenceEqual, SequenceIn
<1>. QED
  BY <1>6 DEF a, b, u, v

\* Nothing added changes nothing.
LEMMA ConcatNothing ==
  ASSUME NEW s, IsSequence(s)
  PROVE  <<>> \o s = s /\ s \o <<>> = s
<1>1. /\ IsSequence(<<>> \o s) /\ Len(<<>> \o s) = Len(s)
      /\ IsSequence(s \o <<>>) /\ Len(s \o <<>>) = Len(s)
      /\ \A k \in 1 .. Len(s) : (<<>> \o s)[k] = s[k] /\ (s \o <<>>)[k] = s[k]
  BY SequenceConcat, SequenceEmpty, SequenceDomain
<1>. QED
  BY <1>1, SequenceEqual

\* It does not matter which two are put together first.
LEMMA ConcatAssoc ==
  ASSUME NEW s, NEW t, NEW u, IsSequence(s), IsSequence(t), IsSequence(u)
  PROVE  (s \o t) \o u = s \o (t \o u)
<1> DEFINE x == s \o t
           y == t \o u
           a == x \o u
           b == s \o y
<1>1. Len(s) \in Nat /\ Len(t) \in Nat /\ Len(u) \in Nat
  BY SequenceDomain
<1>2. /\ IsSequence(x) /\ Len(x) = Len(s) + Len(t)
      /\ \A k \in 1 .. Len(s) + Len(t) : x[k] = IF k <= Len(s) THEN s[k] ELSE t[k - Len(s)]
  BY SequenceConcat
<1>3. /\ IsSequence(y) /\ Len(y) = Len(t) + Len(u)
      /\ \A k \in 1 .. Len(t) + Len(u) : y[k] = IF k <= Len(t) THEN t[k] ELSE u[k - Len(t)]
  BY SequenceConcat
<1> HIDE DEF x, y
<1>4. /\ IsSequence(a) /\ Len(a) = Len(x) + Len(u)
      /\ \A k \in 1 .. Len(x) + Len(u) : a[k] = IF k <= Len(x) THEN x[k] ELSE u[k - Len(x)]
  BY <1>2, SequenceConcat
<1>5. /\ IsSequence(b) /\ Len(b) = Len(s) + Len(y)
      /\ \A k \in 1 .. Len(s) + Len(y) : b[k] = IF k <= Len(s) THEN s[k] ELSE y[k - Len(s)]
  BY <1>3, SequenceConcat
<1> HIDE DEF a, b
<1>6. ASSUME NEW k \in 1 .. Len(a) PROVE a[k] = b[k]
  <2>1. CASE k <= Len(s)
    BY <1>1, <1>2, <1>3, <1>4, <1>5, <2>1
  <2>2. CASE Len(s) < k /\ k <= Len(s) + Len(t)
    <3>1. a[k] = t[k - Len(s)]
      BY <1>1, <1>2, <1>4, <2>2
    <3>2. b[k] = t[k - Len(s)]
      <4>1. /\ k \in 1 .. Len(s) + Len(y) /\ ~(k <= Len(s))
            /\ k - Len(s) \in 1 .. Len(t) + Len(u) /\ k - Len(s) <= Len(t)
        BY <1>1, <1>3, <2>2
      <4>2. b[k] = y[k - Len(s)]
        BY <1>5, <4>1
      <4>. QED
        BY <1>3, <4>1, <4>2
    <3>. QED
      BY <3>1, <3>2
  <2>3. CASE Len(s) + Len(t) < k
    <3>1. a[k] = u[k - (Len(s) + Len(t))]
      BY <1>1, <1>2, <1>4, <2>3
    <3>2. b[k] = y[k - Len(s)] /\ k - Len(s) \in 1 .. Len(t) + Len(u) /\ ~(k - Len(s) <= Len(t))
      BY <1>1, <1>2, <1>3, <1>4, <1>5, <2>3
    <3>3. b[k] = u[k - Len(s) - Len(t)]
      BY <1>3, <3>2
    <3>4. k - Len(s) - Len(t) = k - (Len(s) + Len(t))
      BY <1>1
    <3>. QED
      BY <3>1, <3>3, <3>4
  <2>. QED
    BY <1>1, <2>1, <2>2, <2>3
<1>7. Len(a) = Len(b)
  BY <1>1, <1>2, <1>3, <1>4, <1>5
<1>8. a = b
  BY <1>4, <1>5, <1>6, <1>7, SequenceEqual
<1>. QED
  BY <1>8 DEF a, b, x, y

\* The same for a name that stands for \o.
Then(s, t) == s \o t

LEMMA ThenAssoc ==
  ASSUME NEW s, NEW t, NEW u, IsSequence(s), IsSequence(t), IsSequence(u)
  PROVE  Then(Then(s, t), u) = Then(s, Then(t, u))
<1>1. (s \o t) \o u = s \o (t \o u)
  BY SMTT(60), ConcatAssoc
<1>. QED
  BY <1>1 DEF Then

\* A sequence of sequences.
AllSequences(seqs) == IsSequence(seqs) /\ \A k \in 1 .. Len(seqs) : IsSequence(seqs[k])

\* row[k] is the first k of the sequences in a row.
Rows(seqs, row) == /\ row[0] = <<>>
                   /\ \A k \in 1 .. Len(seqs) : row[k] = row[k - 1] \o seqs[k]
                   /\ \A k \in 0 .. Len(seqs) : IsSequence(row[k])
                   /\ FlattenSeq(seqs) = row[Len(seqs)]

\* Putting one after the other is well defined.
LEMMA FlattenOneByOne ==
  ASSUME NEW seqs, AllSequences(seqs)
  PROVE  \E row : Rows(seqs, row)
<1> DEFINE N == Len(seqs)
           Through(n, f) ==
             f = [k \in 1 .. n |-> IF k = 1 THEN seqs[k] ELSE f[k - 1] \o seqs[k]]
           S == {n \in Nat : \E f : Through(n, f)}
<1>1. N \in Nat
  BY SequenceDomain DEF AllSequences
<1> HIDE DEF N
<1>2. 0 \in S
  <2>1. Through(0, [k \in 1 .. 0 |-> <<>>])
    OBVIOUS
  <2>. QED
    BY <2>1
<1>3. ASSUME NEW n \in Nat, n \in S PROVE n + 1 \in S
  <2>1. PICK f : Through(n, f)
    BY <1>3
  <2> DEFINE g == [k \in 1 .. n + 1 |-> IF k <= n THEN f[k]
                                        ELSE IF n = 0 THEN seqs[k] ELSE f[n] \o seqs[k]]
  <2>2. ASSUME NEW k \in 1 .. n + 1
        PROVE  g[k] = IF k = 1 THEN seqs[k] ELSE g[k - 1] \o seqs[k]
    <3>1. CASE k \in 1 .. n
      <4>1. f[k] = IF k = 1 THEN seqs[k] ELSE f[k - 1] \o seqs[k]
        BY <2>1, <3>1
      <4>2. g[k] = f[k] /\ (k # 1 => g[k - 1] = f[k - 1])
        BY <3>1
      <4>. QED
        BY <4>1, <4>2
    <3>2. CASE k = n + 1 /\ n = 0
      BY <3>2
    <3>3. CASE k = n + 1 /\ n # 0
      <4>1. n \in 1 .. n + 1 /\ n + 1 \in 1 .. n + 1 /\ n <= n /\ ~(n + 1 <= n) /\ n + 1 - 1 = n
        BY <3>3
      <4>2. g[n + 1] = f[n] \o seqs[n + 1]
        BY <3>3, <4>1
      <4>3. g[n] = f[n]
        BY <3>3, <4>1
      <4> HIDE DEF g
      <4>4. g[k] = f[n] \o seqs[k] /\ k # 1 /\ k - 1 = n
        BY <3>3, <4>2
      <4>5. g[k - 1] = f[n]
        BY <4>3, <4>4
      <4>. QED
        BY <4>4, <4>5
    <3>. QED
      BY <3>1, <3>2, <3>3
  <2>3. Through(n + 1, g)
    BY <2>2
  <2> HIDE DEF g, Through
  <2>4. \E h : Through(n + 1, h)
    BY <2>3
  <2>. QED
    BY <2>4
<1>4. \A n \in 0 .. N : n \in S
  <2> HIDE DEF S
  <2>. QED
    BY <1>1, <1>2, <1>3, CountingUp
<1>5. \E f : Through(N, f)
  <2>1. N \in S
    <3>1. N \in 0 .. N
      BY SMTT(60), <1>1
    <3> HIDE DEF S
    <3>. QED
      BY <1>4, <3>1
  <2> HIDE DEF Through
  <2>. QED
    BY <2>1
<1> DEFINE f == CHOOSE f : Through(N, f)
           row == [k \in 0 .. N |-> IF k = 0 THEN <<>> ELSE f[k]]
<1>6. Through(N, f)
  BY <1>5
<1>7. N # 0 => FlattenSeq(seqs) = f[N]
  BY DEF FlattenSeq, N
<1>8. N = 0 => FlattenSeq(seqs) = <<>>
  BY NothingInIt DEF FlattenSeq, N, AllSequences
<1> HIDE DEF f
<1>9. row[0] = <<>> /\ FlattenSeq(seqs) = row[N]
  BY <1>1, <1>7, <1>8
<1>10. ASSUME NEW k \in 1 .. N PROVE row[k] = row[k - 1] \o seqs[k]
  <2>1. f[k] = IF k = 1 THEN seqs[k] ELSE f[k - 1] \o seqs[k]
    BY <1>6
  <2>2. CASE k = 1
    <3>1. row[k] = seqs[k] /\ row[k - 1] = <<>>
      BY <1>1, <2>1, <2>2
    <3>2. IsSequence(seqs[k])
      BY DEF AllSequences, N
    <3>. QED
      BY <3>1, <3>2, ConcatNothing
  <2>3. CASE k # 1
    <3>1. row[k] = f[k] /\ row[k - 1] = f[k - 1]
      BY <1>1, <2>3
    <3>. QED
      BY <2>1, <2>3, <3>1
  <2>. QED
    BY <2>2, <2>3
<1> DEFINE T == {n \in Nat : n <= N => IsSequence(row[n])}
<1> HIDE DEF row
<1>11. 0 \in T
  BY <1>9, SequenceEmpty
<1>12. ASSUME NEW n \in Nat, n < N, n \in T PROVE n + 1 \in T
  <2> DEFINE m == n + 1
  <2>1. IsSequence(row[n]) /\ m \in 1 .. N /\ m - 1 = n
    BY <1>1, <1>12
  <2> HIDE DEF m
  <2>2. row[m] = row[m - 1] \o seqs[m] /\ row[m - 1] = row[n]
    BY <1>10, <2>1
  <2>3. IsSequence(seqs[m])
    BY <2>1 DEF AllSequences, N
  <2>4. IsSequence(row[m])
    BY <2>1, <2>2, <2>3, SequenceConcat
  <2>. QED
    BY <2>4 DEF m
<1>13. \A n \in 0 .. N : n \in T
  <2> HIDE DEF T
  <2>. QED
    BY <1>1, <1>11, <1>12, CountingUp
<1>14. \A k \in 0 .. N : IsSequence(row[k])
  BY <1>1, <1>13
<1>15. Rows(seqs, row)
  BY <1>9, <1>10, <1>14 DEF Rows, N
<1>. QED
  BY <1>15

\* Every element of sequences in a row is an element of one of them.
LEMMA FlattenElements ==
  ASSUME NEW seqs, AllSequences(seqs)
  PROVE  /\ IsSequence(FlattenSeq(seqs))
         /\ \A k \in 1 .. Len(FlattenSeq(seqs)) : \E i \in 1 .. Len(seqs) :
              \E j \in 1 .. Len(seqs[i]) :
              FlattenSeq(seqs)[k] = seqs[i][j]
<1>1. PICK row : Rows(seqs, row)
  BY FlattenOneByOne
<1> DEFINE N == Len(seqs)
           From(n) == \A k \in 1 .. Len(row[n]) : \E i \in 1 .. N : \E j \in 1 .. Len(seqs[i]) :
                        row[n][k] = seqs[i][j]
           S == {n \in Nat : n <= N => From(n)}
<1>2. N \in Nat
  BY SequenceDomain DEF AllSequences
<1>3. 0 \in S
  BY <1>1, SequenceEmpty DEF Rows
<1>4. ASSUME NEW n \in Nat, n < N, n \in S PROVE n + 1 \in S
  <2> DEFINE m == n + 1
             r == row[n]
             t == seqs[m]
  <2>1. m \in 1 .. N /\ m - 1 = n /\ n \in 0 .. N
    BY <1>2, <1>4
  <2>2. From(n)
    <3> HIDE DEF From
    <3>. QED
      BY <1>4
  <2> HIDE DEF m
  <2>3. IsSequence(r) /\ IsSequence(t) /\ row[m] = r \o t
    BY <1>1, <2>1 DEF Rows, AllSequences
  <2>4. \A k \in 1 .. Len(r) : \E i \in 1 .. N : \E j \in 1 .. Len(seqs[i]) : r[k] = seqs[i][j]
    BY <2>2
  <2> HIDE DEF r
  <2> DEFINE u == r \o t
  <2>5. /\ Len(u) = Len(r) + Len(t)
        /\ \A k \in 1 .. Len(r) : u[k] = r[k]
        /\ \A k \in 1 .. Len(r) + Len(t) :
             k \notin 1 .. Len(r) => k - Len(r) \in 1 .. Len(t) /\ u[k] = t[k - Len(r)]
    BY <2>3, ConcatParts
  <2> HIDE DEF u
  <2>7. ASSUME NEW k \in 1 .. Len(u)
        PROVE  \E i \in 1 .. N : \E j \in 1 .. Len(seqs[i]) : u[k] = seqs[i][j]
    <3>1. CASE k \in 1 .. Len(r)
      BY <2>4, <2>5, <3>1
    <3>2. CASE k \notin 1 .. Len(r)
      <4>1. k - Len(r) \in 1 .. Len(t) /\ u[k] = seqs[m][k - Len(r)]
        BY <2>5, <3>2
      <4>. QED
        BY <2>1, <4>1
    <3>. QED
      BY <3>1, <3>2
  <2>8. row[m] = u
    BY <2>3 DEF u
  <2>6. From(m)
    BY <2>7, <2>8
  <2> HIDE DEF From
  <2>. QED
    BY <2>6 DEF m
<1>5. N \in S
  <2> HIDE DEF S, N
  <2>1. \A n \in 0 .. N : n \in S
    BY <1>2, <1>3, <1>4, CountingUp
  <2>. QED
    BY <1>2, <2>1
<1>6. From(N)
  <2> HIDE DEF From
  <2>. QED
    BY <1>2, <1>5
<1>7. FlattenSeq(seqs) = row[N] /\ IsSequence(row[N])
  BY <1>1, <1>2 DEF Rows
<1>. QED
  BY <1>6, <1>7

\* A single sequence stays what it is.
LEMMA FlattenOne ==
  ASSUME NEW s, IsSequence(s)
  PROVE  FlattenSeq(<<s>>) = s
<1> DEFINE one == <<s>>
<1>1. IsSequence(one) /\ Len(one) = 1 /\ one[1] = s
  BY SequenceOne
<1> HIDE DEF one
<1>2. AllSequences(one)
  BY <1>1 DEF AllSequences
<1>3. PICK row : Rows(one, row)
  BY <1>2, FlattenOneByOne
<1>4. FlattenSeq(one) = <<>> \o s
  <2>1. FlattenSeq(one) = row[1] /\ row[0] = <<>>
    BY <1>1, <1>3 DEF Rows
  <2>2. 1 \in 1 .. 1 /\ 1 - 1 = 0
    OBVIOUS
  <2>3. row[1] = row[1 - 1] \o one[1]
    BY <1>1, <1>3, <2>2 DEF Rows
  <2>. QED
    BY <1>1, <2>1, <2>2, <2>3
<1>. QED
  BY <1>4, ConcatNothing DEF one

\* The sequences of two rows, one row after the other.
LEMMA FlattenConcat ==
  ASSUME NEW a, NEW b, AllSequences(a), AllSequences(b)
  PROVE  AllSequences(a \o b) /\ FlattenSeq(a \o b) = FlattenSeq(a) \o FlattenSeq(b)
<1> DEFINE c == a \o b
           M == Len(a)
           N == Len(b)
<1>1. /\ IsSequence(c) /\ Len(c) = M + N
      /\ \A k \in 1 .. M : c[k] = a[k]
      /\ \A j \in 1 .. N : c[M + j] = b[j]
      /\ \A k \in 1 .. M + N : k \notin 1 .. M => k - M \in 1 .. N /\ c[k] = b[k - M]
  BY ConcatParts DEF AllSequences
<1>2. M \in Nat /\ N \in Nat
  BY SequenceDomain DEF AllSequences
<1>3. /\ IsSequence(a) /\ \A k \in 1 .. M : IsSequence(a[k])
      /\ IsSequence(b) /\ \A k \in 1 .. N : IsSequence(b[k])
  BY DEF AllSequences
<1> HIDE DEF c
<1>4. AllSequences(c)
  <2> HIDE DEF M, N
  <2>. QED
    BY <1>1, <1>3 DEF AllSequences
<1>5. PICK ra : Rows(a, ra)
  BY FlattenOneByOne
<1>6. PICK rb : Rows(b, rb)
  BY FlattenOneByOne
<1>7. PICK rc : Rows(c, rc)
  BY <1>4, FlattenOneByOne
<1>8. /\ ra[0] = <<>> /\ FlattenSeq(a) = ra[M]
      /\ \A k \in 1 .. M : ra[k] = ra[k - 1] \o a[k]
      /\ \A k \in 0 .. M : IsSequence(ra[k])
  BY <1>5 DEF Rows
<1>9. /\ rb[0] = <<>> /\ FlattenSeq(b) = rb[N]
      /\ \A k \in 1 .. N : rb[k] = rb[k - 1] \o b[k]
      /\ \A k \in 0 .. N : IsSequence(rb[k])
  BY <1>6 DEF Rows
<1>10. /\ rc[0] = <<>> /\ FlattenSeq(c) = rc[M + N]
       /\ \A k \in 1 .. M + N : rc[k] = rc[k - 1] \o c[k]
  BY <1>1, <1>7 DEF Rows
<1> HIDE DEF M, N
<1> DEFINE S == {n \in Nat : n <= M => rc[n] = ra[n]}
           T == {n \in Nat : n <= N => rc[M + n] = ra[M] \o rb[n]}
<1>12. rc[M] = ra[M]
  <2>1. 0 \in S
    BY <1>8, <1>10
  <2>2. ASSUME NEW n \in Nat, n < M, n \in S PROVE n + 1 \in S
    <3> DEFINE m == n + 1
    <3>1. m \in 1 .. M /\ m \in 1 .. M + N /\ m - 1 = n /\ m \in Nat
      BY <1>2, <2>2
    <3>2. rc[n] = ra[n]
      BY <1>2, <2>2
    <3> HIDE DEF m
    <3>3. rc[m] = ra[m]
      BY <1>1, <1>8, <1>10, <3>1, <3>2
    <3>. QED
      BY <3>1, <3>3 DEF m
  <2>3. M \in S
    <3> HIDE DEF S
    <3>1. \A n \in 0 .. M : n \in S
      BY <1>2, <2>1, <2>2, CountingUp
    <3>. QED
      BY <1>2, <3>1
  <2>. QED
    BY <1>2, <2>3
<1>13. rc[M + N] = ra[M] \o rb[N]
  <2>1. 0 \in T
    <3>1. M + 0 = M /\ IsSequence(ra[M]) /\ ra[M] \o rb[0] = ra[M]
      BY <1>2, <1>8, <1>9, ConcatNothing
    <3>. QED
      BY <1>12, <3>1
  <2>2. ASSUME NEW n \in Nat, n < N, n \in T PROVE n + 1 \in T
    <3> DEFINE m == n + 1
               q == M + m
    <3>0. n <= N
      BY <1>2, <2>2
    <3>1. rc[M + n] = ra[M] \o rb[n]
      BY <2>2, <3>0, Zenon
    <3>2. m \in Nat /\ m \in 1 .. N /\ n \in 0 .. N /\ m - 1 = n
          /\ q \in 1 .. M + N /\ q - 1 = M + n
      BY <1>2, <2>2
    <3> HIDE DEF m
    <3>3. c[q] = b[m]
      BY <1>1, <3>2
    <3> HIDE DEF q
    <3>4. rc[q] = (ra[M] \o rb[n]) \o b[m]
      BY <1>10, <3>1, <3>2, <3>3
    <3>5. IsSequence(ra[M]) /\ IsSequence(rb[n]) /\ IsSequence(b[m])
      BY <1>2, <1>3, <1>8, <1>9, <3>2
    <3>6. (ra[M] \o rb[n]) \o b[m] = ra[M] \o (rb[n] \o b[m])
      <4>1. Then(Then(ra[M], rb[n]), b[m]) = Then(ra[M], Then(rb[n], b[m]))
        BY <3>5, ThenAssoc
      <4>. QED
        BY <4>1 DEF Then
    <3>7. rb[m] = rb[n] \o b[m]
      BY <1>9, <3>2
    <3>8. rc[q] = ra[M] \o rb[m]
      BY <3>4, <3>6, <3>7
    <3>9. rc[M + m] = ra[M] \o rb[m]
      BY <3>8 DEF q
    <3>10. m \in T
      BY <3>2, <3>9
    <3> HIDE DEF T
    <3>. QED
      BY <3>10 DEF m
  <2>3. N \in T
    <3> HIDE DEF T
    <3>1. \A n \in 0 .. N : n \in T
      BY <1>2, <2>1, <2>2, CountingUp
    <3>. QED
      BY <1>2, <3>1
  <2>4. N <= N
    BY <1>2
  <2>. QED
    BY <2>3, <2>4, Zenon
<1>11. FlattenSeq(c) = FlattenSeq(a) \o FlattenSeq(b)
  BY <1>8, <1>9, <1>10, <1>13
<1>. QED
  BY <1>4, <1>11 DEF c

-----------------------------------------------------------------------------
(***************************************************************************)
(* The calls of a program, operation by operation.                         *)
(***************************************************************************)
CallsOf(ops) == FlattenSeq([k \in DOMAIN ops |-> OperationCalls(ops[k])])

\* Operations whose calls are sequences.
Operations(ops) == IsSequence(ops) /\ \A k \in 1 .. Len(ops) : IsSequence(OperationCalls(ops[k]))

\* The calls of the operations are a sequence of sequences.
LEMMA CallsRow ==
  ASSUME NEW ops, Operations(ops)
  PROVE  LET r == [k \in DOMAIN ops |-> OperationCalls(ops[k])]
         IN /\ AllSequences(r) /\ Len(r) = Len(ops)
            /\ \A k \in 1 .. Len(ops) : r[k] = OperationCalls(ops[k])
<1> DEFINE r == [k \in DOMAIN ops |-> OperationCalls(ops[k])]
<1> HIDE DEF OperationCalls
<1>1. DOMAIN ops = 1 .. Len(ops) /\ Len(ops) \in Nat
  BY SequenceDomain DEF Operations
<1>2. \A k \in 1 .. Len(ops) : r[k] = OperationCalls(ops[k])
  BY <1>1
<1>3. r = [k \in 1 .. Len(ops) |-> r[k]]
  BY <1>1
<1> HIDE DEF r
<1>4. IsSequence(r) /\ Len(r) = Len(ops)
  BY <1>1, <1>3, SequenceOf
<1>5. AllSequences(r)
  BY <1>2, <1>4 DEF AllSequences, Operations
<1>. QED
  BY <1>2, <1>4, <1>5 DEF r

\* The calls of one operation, and of operations one after the other.
LEMMA CallsOfOne ==
  ASSUME NEW op, IsSequence(OperationCalls(op))
  PROVE  Operations(<<op>>) /\ CallsOf(<<op>>) = OperationCalls(op)
<1> DEFINE one == <<op>>
           r == [k \in DOMAIN one |-> OperationCalls(one[k])]
<1>1. IsSequence(one) /\ Len(one) = 1 /\ one[1] = op
  BY SequenceOne
<1> HIDE DEF one
<1>2. Operations(one)
  BY <1>1 DEF Operations
<1>3. AllSequences(r) /\ Len(r) = 1 /\ r[1] = OperationCalls(op)
  BY <1>1, <1>2, CallsRow
<1> HIDE DEF r
<1>4. IsSequence(<<OperationCalls(op)>>) /\ Len(<<OperationCalls(op)>>) = 1
      /\ <<OperationCalls(op)>>[1] = OperationCalls(op)
  BY SequenceOne
<1>5. r = <<OperationCalls(op)>>
  BY <1>3, <1>4, SequenceEqual DEF AllSequences
<1>6. FlattenSeq(r) = OperationCalls(op)
  BY <1>5, FlattenOne
<1>. QED
  BY <1>2, <1>6 DEF CallsOf, r, one

LEMMA CallsOfBoth ==
  ASSUME NEW a, NEW b, Operations(a), Operations(b)
  PROVE  Operations(a \o b) /\ CallsOf(a \o b) = CallsOf(a) \o CallsOf(b)
<1> DEFINE c == a \o b
           ra == [k \in DOMAIN a |-> OperationCalls(a[k])]
           rb == [k \in DOMAIN b |-> OperationCalls(b[k])]
           rc == [k \in DOMAIN c |-> OperationCalls(c[k])]
<1>1. /\ IsSequence(c) /\ Len(c) = Len(a) + Len(b)
      /\ \A k \in 1 .. Len(a) + Len(b) : c[k] = IF k <= Len(a) THEN a[k] ELSE b[k - Len(a)]
      /\ Len(a) \in Nat /\ Len(b) \in Nat
  BY SequenceConcat, SequenceDomain DEF Operations
<1> HIDE DEF c
<1>2. Operations(c)
  <2>1. ASSUME NEW k \in 1 .. Len(c) PROVE IsSequence(OperationCalls(c[k]))
    <3>1. CASE k <= Len(a)
      BY <1>1, <3>1 DEF Operations
    <3>2. CASE ~(k <= Len(a))
      <4>1. k - Len(a) \in 1 .. Len(b) /\ c[k] = b[k - Len(a)]
        BY <1>1, <3>2
      <4>. QED
        BY <4>1 DEF Operations
    <3>. QED
      BY <3>1, <3>2
  <2>. QED
    BY <1>1, <2>1 DEF Operations
<1>3. /\ AllSequences(ra) /\ Len(ra) = Len(a)
      /\ \A k \in 1 .. Len(a) : ra[k] = OperationCalls(a[k])
  BY CallsRow
<1>4. /\ AllSequences(rb) /\ Len(rb) = Len(b)
      /\ \A k \in 1 .. Len(b) : rb[k] = OperationCalls(b[k])
  BY CallsRow
<1>5. /\ AllSequences(rc) /\ Len(rc) = Len(c)
      /\ \A k \in 1 .. Len(c) : rc[k] = OperationCalls(c[k])
  BY <1>2, CallsRow
<1> HIDE DEF ra, rb, rc
<1>6. /\ IsSequence(ra \o rb) /\ Len(ra \o rb) = Len(a) + Len(b)
      /\ \A k \in 1 .. Len(a) + Len(b) :
           (ra \o rb)[k] = IF k <= Len(a) THEN ra[k] ELSE rb[k - Len(a)]
  BY <1>3, <1>4, SequenceConcat DEF AllSequences
<1>7. ASSUME NEW k \in 1 .. Len(a) + Len(b) PROVE rc[k] = (ra \o rb)[k]
  <2>1. CASE k <= Len(a)
    BY <1>1, <1>3, <1>5, <1>6, <2>1
  <2>2. CASE ~(k <= Len(a))
    <3>1. k - Len(a) \in 1 .. Len(b)
      BY <1>1, <2>2
    <3>. QED
      BY <1>1, <1>4, <1>5, <1>6, <2>2, <3>1
  <2>. QED
    BY <2>1, <2>2
<1>8. rc = ra \o rb
  BY <1>1, <1>5, <1>6, <1>7, SequenceEqual DEF AllSequences
<1>9. FlattenSeq(rc) = FlattenSeq(ra) \o FlattenSeq(rb)
  BY <1>3, <1>4, <1>8, FlattenConcat
<1>. QED
  BY <1>2, <1>9 DEF CallsOf, ra, rb, rc, c

-----------------------------------------------------------------------------
(***************************************************************************)
(* What a spec has by the time it is compiled.                             *)
(***************************************************************************)
\* An image of a spec: what the defaults would add is there.
ImageFit(image) ==
  /\ {"name", "file_name", "kind", "picture_state"} \subseteq DOMAIN image
  /\ image = [n \in DOMAIN image |-> image[n]]
  /\ IsName(image.name)
  /\ IsName(image.file_name) /\ TextFormed(image.file_name)
  /\ image.kind \in {Word("picture"), Word("contour")}
  /\ image.picture_state.t = "dict"
  /\ "contour" \in DOMAIN image =>
       LET c == image.contour.fields
       IN /\ image.contour = Dict([object_name |-> c.object_name, state |-> c.state])
          /\ IsName(c.object_name) /\ c.state.t = "dict"

\* What load_spec has looked at is what the policy will look at.
SpecSound(s) ==
  /\ \A k \in 1 .. Len(s.sections) : \A n \in 1 .. Len(s.sections[k].paths) :
       s.sections[k].paths[n].t = "str"
  /\ s.method \in {Word("hybrid"), Word("standard")}
  /\ s.workflow # "steady" => IsPositive(s.stepSize, {"float"}) /\ IsPositive(s.perStep, {"int"})
  /\ \A k \in 1 .. Len(s.outputs.reports) : ReportOk(s.outputs.reports[k])
  /\ \A k \in 1 .. Len(s.outputs.images) : ImageFit(s.outputs.images[k])

SpecFormed(s) ==
  /\ s.workflow \in {"steady", "reflow"}
  /\ s.kind \in {"mesh", "case", "case_data"}
  /\ IsSequence(s.sections) /\ \A k \in 1 .. Len(s.sections) : IsSequence(s.sections[k].paths)
  /\ s.total \in Nat \ {0} /\ s.chunk \in Nat \ {0}
  /\ IsSequence(s.outputs.reports) /\ IsSequence(s.outputs.images)
  /\ SpecSound(s)

\* Blocks of a section the document may have.
LEMMA SectionFormed ==
  ASSUME NEW d, DocumentFormed(d), NEW name
  PROVE  /\ IsSequence(Section(d, name))
         /\ \A k \in 1 .. Len(Section(d, name)) : IsSequence(Section(d, name)[k].paths)
<1>1. CASE name \in DOMAIN d.sections
  <2>1. Section(d, name) = d.sections[name] /\ IsSequence(d.sections[name])
    BY <1>1 DEF Section, DocumentFormed
  <2>2. DOMAIN d.sections[name] = 1 .. Len(d.sections[name])
    BY <2>1, SequenceDomain
  <2>. QED
    BY <1>1, <2>1, <2>2 DEF DocumentFormed
<1>2. CASE name \notin DOMAIN d.sections
  <2>1. Section(d, name) = <<>>
    BY <1>2 DEF Section
  <2>. QED
    BY <2>1, SequenceEmpty
<1>. QED
  BY <1>1, <1>2

\* An image the document may have becomes an image of a spec.
LEMMA ImageLoads ==
  ASSUME NEW image, RequestedImageOk(image), \A n \in DOMAIN image : TextFormed(image[n])
  PROVE  ImageFit(WithDefaults(image))
<1> DEFINE w == WithDefaults(image)
<1>1. /\ "name" \in DOMAIN image /\ "file_name" \in DOMAIN image
      /\ IsName(image.name) /\ IsName(image.file_name)
      /\ Field(image, "kind", Word("picture")) \in {Word("picture"), Word("contour")}
      /\ Field(image, "picture_state", Dict(<<>>)).t = "dict"
  BY DEF RequestedImageOk, Field, NoField, IsName
<1>2. /\ w = [n \in DOMAIN w |-> w[n]]
      /\ DOMAIN w = DOMAIN image \cup {"kind", "picture_state"}
      /\ \A n \in DOMAIN image \ {"contour"} : w[n] = image[n]
      /\ w.kind = Field(image, "kind", Word("picture"))
      /\ w.picture_state = Field(image, "picture_state", Dict(<<>>))
      /\ "contour" \in DOMAIN image =>
           w.contour = Dict([object_name |-> ObjectName(image.contour, image.name),
                             state |-> Field(image.contour.fields, "state", Dict(<<>>))])
  BY DefaultsOnce
<1> HIDE DEF w
<1>3. w.name = image.name /\ w.file_name = image.file_name
  BY <1>1, <1>2
<1>4. ASSUME "contour" \in DOMAIN w
      PROVE  LET c == w.contour.fields
             IN /\ w.contour = Dict([object_name |-> c.object_name, state |-> c.state])
                /\ IsName(c.object_name) /\ c.state.t = "dict"
  <2> DEFINE o == ObjectName(image.contour, image.name)
             t == Field(image.contour.fields, "state", Dict(<<>>))
  <2>1. "contour" \in DOMAIN image
    BY <1>2, <1>4
  <2>2. IsName(Get(image.contour, "object_name")) /\ t.t = "dict"
    BY <2>1 DEF RequestedImageOk
  <2>3. IsName(o)
    BY <2>2 DEF ObjectName, Get, Field, NoField, IsName
  <2>4. w.contour = Dict([object_name |-> o, state |-> t])
    BY <1>2, <2>1
  <2> HIDE DEF o, t
  <2>5. w.contour.fields.object_name = o /\ w.contour.fields.state = t
    BY <2>4 DEF Dict
  <2>. QED
    BY <2>2, <2>3, <2>4, <2>5
<1>5. ImageFit(w)
  BY <1>1, <1>2, <1>3, <1>4 DEF ImageFit
<1>. QED
  BY <1>5 DEF w

\* The policy will find what load_spec found.
LEMMA LoadSound ==
  ASSUME NEW d \in Documents, SpecOk(d)
  PROVE  SpecSound(LoadSpec(d))
<1> DEFINE s == LoadSpec(d)
<1>1. DocumentFormed(d)
  BY DocumentsAssumption
<1>2. ASSUME NEW name, NEW k \in 1 .. Len(Section(d, name)),
             NEW n \in 1 .. Len(Section(d, name)[k].paths)
      PROVE  Section(d, name)[k].paths[n].t = "str"
  <2>1. CASE name \in DOMAIN d.sections
    <3>1. Section(d, name) = d.sections[name]
      BY <2>1 DEF Section
    <3>2. DOMAIN d.sections[name] = 1 .. Len(d.sections[name])
      BY <1>1, <2>1, SequenceDomain DEF DocumentFormed
    <3>3. IsSequence(d.sections[name][k].paths)
      BY <1>1, <2>1, <3>1, <3>2 DEF DocumentFormed
    <3>4. n \in DOMAIN d.sections[name][k].paths
      BY <3>1, <3>3, SequenceDomain
    <3>. QED
      BY <2>1, <3>1, <3>2, <3>4 DEF SpecOk, SectionsOk, IsName
  <2>2. CASE name \notin DOMAIN d.sections
    <3>1. Len(Section(d, name)) = 0
      BY <2>2, SequenceEmpty DEF Section
    <3>. QED
      BY <3>1
  <2>. QED
    BY <2>1, <2>2
<1>3. \A k \in 1 .. Len(s.sections) : \A n \in 1 .. Len(s.sections[k].paths) :
        s.sections[k].paths[n].t = "str"
  <2>1. CASE d.workflow = "steady"
    <3>1. s.sections = Section(d, "setup")
      BY <2>1 DEF LoadSpec
    <3>. QED
      BY <1>2, <3>1
  <2>2. CASE d.workflow # "steady"
    <3> DEFINE a == Section(d, "physics")
               b == Section(d, "zones")
               c == a \o b
    <3>1. s.sections = c
      BY <2>2 DEF LoadSpec
    <3>2. /\ \A k \in 1 .. Len(a) : \A n \in 1 .. Len(a[k].paths) : a[k].paths[n].t = "str"
          /\ \A k \in 1 .. Len(b) : \A n \in 1 .. Len(b[k].paths) : b[k].paths[n].t = "str"
      BY <1>2
    <3>3. IsSequence(a) /\ IsSequence(b)
      BY <1>1, SectionFormed
    <3> HIDE DEF a, b, s
    <3>4. /\ Len(c) = Len(a) + Len(b)
          /\ \A k \in 1 .. Len(a) : c[k] = a[k]
          /\ \A k \in 1 .. Len(a) + Len(b) :
               k \notin 1 .. Len(a) => k - Len(a) \in 1 .. Len(b) /\ c[k] = b[k - Len(a)]
      BY <3>3, ConcatParts
    <3> HIDE DEF c
    <3>5. ASSUME NEW k \in 1 .. Len(c), NEW n \in 1 .. Len(c[k].paths)
          PROVE  c[k].paths[n].t = "str"
      <4>1. CASE k \in 1 .. Len(a)
        BY <3>2, <3>4, <4>1
      <4>2. CASE k \notin 1 .. Len(a)
        <5> DEFINE j == k - Len(a)
        <5>1. j \in 1 .. Len(b) /\ c[k] = b[j]
          BY <3>4, <4>2
        <5> HIDE DEF j
        <5>. QED
          BY <3>2, <5>1
      <4>. QED
        BY <4>1, <4>2
    <3>. QED
      BY <3>1, <3>5
  <2>. QED
    BY <2>1, <2>2
<1>4. s.method \in {Word("hybrid"), Word("standard")}
  BY DEF LoadSpec, SpecOk, SolveOk
<1>5. s.workflow # "steady" => IsPositive(s.stepSize, {"float"}) /\ IsPositive(s.perStep, {"int"})
  <2> SUFFICES ASSUME s.workflow # "steady"
               PROVE  IsPositive(s.stepSize, {"float"}) /\ IsPositive(s.perStep, {"int"})
    OBVIOUS
  <2>1. s.workflow = d.workflow
    BY DEF LoadSpec
  <2>2. d.workflow = "reflow"
    BY <1>1, <2>1 DEF DocumentFormed, SourceKinds
  <2>3. PositiveNumber(d.solve.stepSize) /\ PositiveInt(d.solve.perStep)
    BY <2>2 DEF SpecOk, SolveOk
  <2>4. s.stepSize = Number(d.solve.stepSize.n) /\ s.perStep = d.solve.perStep
    BY <2>2 DEF LoadSpec
  <2>. QED
    BY <2>3, <2>4 DEF PositiveNumber, PositiveInt, IsPositive, Number
<1> DEFINE o == d.outputs
           r == [k \in DOMAIN o.reports |-> Dict(o.reports[k])]
           i == [k \in DOMAIN o.images |-> WithDefaults(o.images[k])]
<1>6. s.outputs = Outputs(o)
  BY DEF LoadSpec
<1>7. s.outputs.reports = r /\ s.outputs.images = i
  BY <1>6 DEF Outputs
<1>8. /\ DOMAIN o.reports = 1 .. Len(o.reports) /\ Len(o.reports) \in Nat
      /\ DOMAIN o.images = 1 .. Len(o.images) /\ Len(o.images) \in Nat
  BY <1>1, SequenceDomain DEF DocumentFormed
<1>9. /\ \A k \in DOMAIN o.reports : RequestedReportOk(o.reports[k])
      /\ \A k \in DOMAIN o.images : RequestedImageOk(o.images[k])
  BY DEF SpecOk, OutputsOk
<1>10. \A k \in DOMAIN o.images : \A n \in DOMAIN o.images[k] : TextFormed(o.images[k][n])
  BY <1>1 DEF DocumentFormed
<1>11. /\ r = [k \in 1 .. Len(o.reports) |-> r[k]]
       /\ \A k \in 1 .. Len(o.reports) : r[k] = Dict(o.reports[k])
       /\ i = [k \in 1 .. Len(o.images) |-> i[k]]
       /\ \A k \in 1 .. Len(o.images) : i[k] = WithDefaults(o.images[k])
  BY <1>8
<1> HIDE DEF r, i, o, s
<1>12. Len(r) = Len(o.reports) /\ Len(i) = Len(o.images)
  BY <1>8, <1>11, SequenceOf
<1>13. \A k \in 1 .. Len(r) : ReportOk(r[k])
  BY <1>8, <1>9, <1>11, <1>12 DEF RequestedReportOk
<1>14. \A k \in 1 .. Len(i) : ImageFit(i[k])
  BY <1>8, <1>9, <1>10, <1>11, <1>12, ImageLoads
<1>15. SpecSound(s)
  BY <1>3, <1>4, <1>5, <1>7, <1>13, <1>14 DEF SpecSound
<1>. QED
  BY <1>15 DEF s

\* A document that is accepted becomes such a spec.
LEMMA LoadFormed ==
  ASSUME NEW d \in Documents, SpecOk(d)
  PROVE  SpecFormed(LoadSpec(d))
<1> DEFINE s == LoadSpec(d)
<1>1. DocumentFormed(d)
  BY DocumentsAssumption
<1>2. s.workflow = d.workflow /\ d.workflow \in {"steady", "reflow"}
  BY <1>1 DEF LoadSpec, DocumentFormed, SourceKinds
<1>3. s.kind \in {"mesh", "case", "case_data"}
  <2>1. s.kind = d.source.kind /\ d.source.kind \in SourceKinds[d.workflow]
    BY DEF LoadSpec, SpecOk, SourceOk
  <2>. QED
    BY <1>2, <2>1 DEF SourceKinds
<1>4. IsSequence(s.sections) /\ \A k \in 1 .. Len(s.sections) : IsSequence(s.sections[k].paths)
  <2>1. CASE d.workflow = "steady"
    <3>1. s.sections = Section(d, "setup")
      BY <2>1 DEF LoadSpec
    <3>. QED
      BY <1>1, <3>1, SectionFormed
  <2>2. CASE d.workflow # "steady"
    <3> DEFINE a == Section(d, "physics")
               b == Section(d, "zones")
               c == a \o b
    <3>1. s.sections = c
      BY <2>2 DEF LoadSpec
    <3>2. /\ IsSequence(a) /\ \A k \in 1 .. Len(a) : IsSequence(a[k].paths)
          /\ IsSequence(b) /\ \A k \in 1 .. Len(b) : IsSequence(b[k].paths)
      BY <1>1, SectionFormed
    <3> HIDE DEF a, b, s
    <3>3. /\ IsSequence(c) /\ Len(c) = Len(a) + Len(b)
          /\ \A k \in 1 .. Len(a) : c[k] = a[k]
          /\ \A k \in 1 .. Len(a) + Len(b) :
               k \notin 1 .. Len(a) => k - Len(a) \in 1 .. Len(b) /\ c[k] = b[k - Len(a)]
      BY <3>2, ConcatParts
    <3> HIDE DEF c
    <3>4. ASSUME NEW k \in 1 .. Len(c) PROVE IsSequence(c[k].paths)
      BY <3>2, <3>3
    <3>. QED
      BY <3>1, <3>3, <3>4
  <2>. QED
    BY <2>1, <2>2
<1>5. s.total \in Nat \ {0}
  <2>1. s.total = d.solve.total.n /\ d.solve.total.t = "int" /\ d.solve.total.n > 0
    BY DEF LoadSpec, SpecOk, SolveOk, PositiveInt, IsPositive
  <2>2. d.solve.total.n \in Int
    BY <1>1, <2>1 DEF DocumentFormed
  <2>. QED
    BY <2>1, <2>2
<1>6. s.chunk \in Nat \ {0}
  <2>1. CASE d.solve.chunk = NoField
    <3>1. s.chunk = DefaultChunk[d.workflow]
      BY <2>1 DEF LoadSpec
    <3>. QED
      BY <1>2, <3>1 DEF DefaultChunk
  <2>2. CASE d.solve.chunk # NoField
    <3>1. s.chunk = d.solve.chunk.n
      BY <2>2 DEF LoadSpec
    <3>2. d.solve.chunk.t = "int" /\ d.solve.chunk.n > 0
      BY <2>2 DEF SpecOk, SolveOk, ChunkOk, PositiveInt, IsPositive
    <3>3. d.solve.chunk.n \in Int
      BY <1>1, <3>2 DEF DocumentFormed
    <3>. QED
      BY <3>1, <3>2, <3>3
  <2>. QED
    BY <2>1, <2>2
<1>7. IsSequence(s.outputs.reports) /\ IsSequence(s.outputs.images)
  <2> DEFINE o == d.outputs
             r == [k \in DOMAIN o.reports |-> Dict(o.reports[k])]
             i == [k \in DOMAIN o.images |-> WithDefaults(o.images[k])]
  <2>1. s.outputs = Outputs(o)
    BY DEF LoadSpec
  <2>2. s.outputs.reports = r /\ s.outputs.images = i
    BY <2>1 DEF Outputs
  <2>3. /\ DOMAIN o.reports = 1 .. Len(o.reports) /\ Len(o.reports) \in Nat
        /\ DOMAIN o.images = 1 .. Len(o.images) /\ Len(o.images) \in Nat
    BY <1>1, SequenceDomain DEF DocumentFormed
  <2>4. r = [k \in 1 .. Len(o.reports) |-> r[k]] /\ i = [k \in 1 .. Len(o.images) |-> i[k]]
    BY <2>3
  <2> HIDE DEF r, i, o, s
  <2>5. IsSequence(r) /\ IsSequence(i)
    BY <2>3, <2>4, SequenceOf
  <2>. QED
    BY <2>2, <2>5
<1>8. SpecSound(s)
  BY LoadSound
<1>. QED
  BY <1>2, <1>3, <1>4, <1>5, <1>6, <1>7, <1>8 DEF SpecFormed

-----------------------------------------------------------------------------
(***************************************************************************)
(* Which calls there can be where.                                         *)
(***************************************************************************)
\* The actions of calls, or of operations, are among A.
Every(c, A) == IsSequence(c) /\ \A k \in 1 .. Len(c) : c[k].action \in A

LEMMA EveryOne ==
  ASSUME NEW e, NEW A, e.action \in A
  PROVE  Every(<<e>>, A) /\ Every(<<>>, A)
<1> DEFINE one == <<e>>
<1>1. IsSequence(one) /\ Len(one) = 1 /\ one[1] = e
  BY SequenceOne
<1> HIDE DEF one
<1>2. Every(one, A)
  BY <1>1 DEF Every
<1>3. Every(<<>>, A)
  BY SequenceEmpty DEF Every
<1>. QED
  BY <1>2, <1>3 DEF one

LEMMA EveryIf ==
  ASSUME NEW b, NEW e, NEW A, b => e.action \in A
  PROVE  Every(If(b, e), A)
<1>1. CASE b
  BY <1>1, EveryOne DEF If
<1>2. CASE ~b
  BY <1>2, SequenceEmpty DEF If, Every
<1>. QED
  BY <1>1, <1>2

LEMMA EveryConcat ==
  ASSUME NEW a, NEW b, NEW A, Every(a, A), Every(b, A)
  PROVE  Every(a \o b, A)
<1> DEFINE c == a \o b
<1>1. /\ IsSequence(c) /\ Len(c) = Len(a) + Len(b)
      /\ \A k \in 1 .. Len(a) : c[k] = a[k]
      /\ \A k \in 1 .. Len(a) + Len(b) :
           k \notin 1 .. Len(a) => k - Len(a) \in 1 .. Len(b) /\ c[k] = b[k - Len(a)]
  BY ConcatParts DEF Every
<1> HIDE DEF c
<1>2. Every(c, A)
  BY <1>1 DEF Every
<1>. QED
  BY <1>2 DEF c

LEMMA EveryMore ==
  ASSUME NEW a, NEW A, NEW B, Every(a, A), A \subseteq B
  PROVE  Every(a, B)
BY DEF Every

\* What holds of the calls of every operation holds of all of them.
LEMMA EveryFlat ==
  ASSUME NEW seqs, AllSequences(seqs), NEW A, \A k \in 1 .. Len(seqs) : Every(seqs[k], A)
  PROVE  Every(FlattenSeq(seqs), A)
<1> DEFINE f == FlattenSeq(seqs)
<1>1. IsSequence(f) /\ \A k \in 1 .. Len(f) : \E i \in 1 .. Len(seqs) :
        \E j \in 1 .. Len(seqs[i]) :
                         f[k] = seqs[i][j]
  BY FlattenElements
<1> HIDE DEF f
<1>2. Every(f, A)
  BY <1>1 DEF Every
<1>. QED
  BY <1>2 DEF f

LEMMA EveryCalls ==
  ASSUME NEW ops, IsSequence(ops), NEW A,
         \A k \in 1 .. Len(ops) : Every(OperationCalls(ops[k]), A)
  PROVE  Operations(ops) /\ Every(CallsOf(ops), A)
<1> DEFINE r == [k \in DOMAIN ops |-> OperationCalls(ops[k])]
<1>1. Operations(ops)
  BY DEF Operations, Every
<1>2. /\ AllSequences(r) /\ Len(r) = Len(ops)
      /\ \A k \in 1 .. Len(ops) : r[k] = OperationCalls(ops[k])
  BY <1>1, CallsRow
<1> HIDE DEF r
<1>3. \A k \in 1 .. Len(r) : Every(r[k], A)
  BY <1>2
<1>4. Every(FlattenSeq(r), A)
  BY <1>2, <1>3, EveryFlat
<1>. QED
  BY <1>1, <1>4 DEF CallsOf, r

\* An operation that is done once is one call and a look at the solver.
LEMMA OnceCalls ==
  ASSUME NEW op, op.mode = "once"
  PROVE  LET c == OperationCalls(op)
         IN /\ Every(c, {op.action, "get_solver_health"})
            /\ Len(c) = 2 /\ c[1].action = op.action
<1> DEFINE x == Call(op.action, op.params)
           c == <<x, Health>>
<1>1. x.action = op.action /\ Health.action = "get_solver_health"
  BY DEF Call, Health
<1>2. OperationCalls(op) = c
  BY DEF OperationCalls
<1> HIDE DEF x
<1>3. c \in Seq({x, Health}) /\ Len(c) = 2 /\ c[1] = x /\ c[2] = Health
  OBVIOUS
<1> HIDE DEF c
<1>4. IsSequence(c)
  BY <1>3, SequenceIn
<1>5. Every(c, {op.action, "get_solver_health"})
  BY <1>1, <1>3, <1>4 DEF Every
<1>. QED
  BY <1>1, <1>2, <1>3, <1>5

\* The changes of a section, block by block.
LEMMA ChangeCalls ==
  ASSUME NEW blocks, IsSequence(blocks), \A k \in 1 .. Len(blocks) : IsSequence(blocks[k].paths)
  PROVE  LET ops == Changes(blocks)
         IN /\ Operations(ops)
            /\ Every(CallsOf(ops), {"set_state", "get_solver_health"})
<1> DEFINE ops == Changes(blocks)
           r == [k \in DOMAIN blocks |-> BlockChanges(blocks[k])]
<1>1. DOMAIN blocks = 1 .. Len(blocks) /\ Len(blocks) \in Nat
  BY SequenceDomain
<1>2. ASSUME NEW k \in 1 .. Len(blocks)
      PROVE  /\ IsSequence(BlockChanges(blocks[k]))
             /\ \A n \in 1 .. Len(BlockChanges(blocks[k])) :
                  /\ BlockChanges(blocks[k])[n].mode = "once"
                  /\ BlockChanges(blocks[k])[n].action = "set_state"
  <2> DEFINE p == blocks[k].paths
             b == BlockChanges(blocks[k])
             e(n) == Once("change", "set_state", [path |-> p[n], state |-> None])
  <2>1. DOMAIN p = 1 .. Len(p) /\ Len(p) \in Nat
    BY <1>2, SequenceDomain
  <2>2. \A n : e(n).mode = "once" /\ e(n).action = "set_state"
    BY DEF Once
  <2>3. b = [n \in DOMAIN p |-> e(n)]
    BY DEF BlockChanges
  <2> HIDE DEF p, b, e
  <2>4. b = [n \in 1 .. Len(p) |-> b[n]] /\ \A n \in 1 .. Len(p) : b[n] = e(n)
    BY <2>1, <2>3
  <2>5. IsSequence(b) /\ Len(b) = Len(p)
    BY <2>1, <2>4, SequenceOf
  <2>6. \A n \in 1 .. Len(b) : b[n].mode = "once" /\ b[n].action = "set_state"
    BY <2>2, <2>4, <2>5
  <2>. QED
    BY <2>5, <2>6 DEF b
<1>3. /\ AllSequences(r) /\ Len(r) = Len(blocks)
      /\ \A k \in 1 .. Len(r) : r[k] = BlockChanges(blocks[k])
  <2> HIDE DEF BlockChanges
  <2>1. /\ r = [k \in 1 .. Len(blocks) |-> r[k]]
        /\ \A k \in 1 .. Len(blocks) : r[k] = BlockChanges(blocks[k])
    BY <1>1
  <2> HIDE DEF r
  <2>2. IsSequence(r) /\ Len(r) = Len(blocks)
    BY <1>1, <2>1, SequenceOf
  <2>. QED
    BY <1>2, <2>1, <2>2 DEF AllSequences
<1>4. ops = FlattenSeq(r)
  BY DEF Changes
<1> HIDE DEF r, ops
<1>5. /\ IsSequence(ops)
      /\ \A k \in 1 .. Len(ops) : \E i \in 1 .. Len(r) : \E j \in 1 .. Len(r[i]) :
           ops[k] = r[i][j]
  BY <1>3, <1>4, FlattenElements
<1>6. ASSUME NEW k \in 1 .. Len(ops) PROVE ops[k].mode = "once" /\ ops[k].action = "set_state"
  <2>1. PICK i \in 1 .. Len(r) : \E j \in 1 .. Len(r[i]) : ops[k] = r[i][j]
    BY <1>5
  <2>2. PICK j \in 1 .. Len(r[i]) : ops[k] = r[i][j]
    BY <2>1
  <2>3. i \in 1 .. Len(blocks) /\ r[i] = BlockChanges(blocks[i])
    BY <1>3
  <2>4. r[i][j].mode = "once" /\ r[i][j].action = "set_state"
    BY <1>2, <2>3
  <2>. QED
    BY <2>2, <2>4
<1>7. \A k \in 1 .. Len(ops) : Every(OperationCalls(ops[k]), {"set_state", "get_solver_health"})
  BY <1>6, OnceCalls
<1>8. Operations(ops) /\ Every(CallsOf(ops), {"set_state", "get_solver_health"})
  BY <1>5, <1>7, EveryCalls
<1>. QED
  BY <1>8 DEF ops

-----------------------------------------------------------------------------
(***************************************************************************)
(* The calls of a run: what comes before the solving, the solving, and     *)
(* what comes after it.                                                    *)
(***************************************************************************)
\* The transcript, the reading, the changes and the initialization.
Opening(s) == TranscriptCalls(s) \o
              ((CallsOf(<<Read(s)>>) \o CallsOf(Changes(s.sections)))
                \o CallsOf(<<Initialize(s)>>))

\* The one operation that is cut into chunks.
Solving(s) == OperationCalls(Solve(s))

\* The reports, the pictures and the files at the end.
Closing(s) == CallsOf(ReportOps(s.outputs)) \o CallsOf(Writes(s.outputs))

LEMMA ThenSequence ==
  ASSUME NEW s, NEW t, IsSequence(s), IsSequence(t)
  PROVE  IsSequence(Then(s, t))
BY SequenceConcat DEF Then

\* The parts in the order the program has them, put together in another way.
LEMMA Regroup ==
  ASSUME NEW t, NEW r, NEW h, NEW i, NEW f, NEW o, NEW w,
         IsSequence(t), IsSequence(r), IsSequence(h), IsSequence(i), IsSequence(f),
         IsSequence(o), IsSequence(w)
  PROVE  Then(t, Then(Then(Then(Then(r, h), Then(i, f)), o), w))
           = Then(Then(t, Then(Then(r, h), i)), Then(f, Then(o, w)))
<1> DEFINE x == Then(r, h)
           y == Then(x, i)
           z == Then(o, w)
<1>1. IsSequence(x) /\ IsSequence(z)
  BY ThenSequence
<1>2. IsSequence(y)
  BY <1>1, ThenSequence
<1> HIDE DEF x
<1>3. Then(x, Then(i, f)) = Then(y, f)
  BY <1>1, ThenAssoc
<1> HIDE DEF y
<1>4. Then(Then(y, f), o) = Then(y, Then(f, o))
  BY <1>2, ThenAssoc
<1>5. Then(Then(y, Then(f, o)), w) = Then(y, Then(Then(f, o), w))
  <2>1. IsSequence(Then(f, o))
    BY ThenSequence
  <2>. QED
    BY <1>2, <2>1, ThenAssoc
<1>6. Then(Then(f, o), w) = Then(f, z)
  BY ThenAssoc
<1>7. Then(t, Then(y, Then(f, z))) = Then(Then(t, y), Then(f, z))
  <2>1. IsSequence(Then(f, z))
    BY <1>1, ThenSequence
  <2>. QED
    BY <1>2, <2>1, ThenAssoc
<1>8. Then(t, Then(Then(Then(x, Then(i, f)), o), w)) = Then(Then(t, y), Then(f, z))
  BY <1>3, <1>4, <1>5, <1>6, <1>7
<1>. QED
  BY <1>8 DEF x, y, z

\* An operation of a list with at most one is that one.
LEMMA IfCalls ==
  ASSUME NEW b, NEW op, NEW A,
         b => op.mode = "once" /\ {op.action, "get_solver_health"} \subseteq A
  PROVE  Operations(If(b, op)) /\ Every(CallsOf(If(b, op)), A)
<1>1. IsSequence(If(b, op))
  BY SequenceOne, SequenceEmpty DEF If
<1>2. ASSUME NEW k \in 1 .. Len(If(b, op)) PROVE Every(OperationCalls(If(b, op)[k]), A)
  <2>1. b
    BY SequenceEmpty DEF If
  <2>2. If(b, op) = <<op>>
    BY <2>1 DEF If
  <2>3. If(b, op)[k] = op
    BY <2>2, SequenceOne
  <2>4. Every(OperationCalls(op), {op.action, "get_solver_health"})
    BY <2>1, OnceCalls
  <2>. QED
    BY <2>1, <2>3, <2>4, EveryMore
<1>. QED
  BY <1>1, <1>2, EveryCalls

\* What is computed and written after the solving.
LEMMA ClosingCalls ==
  ASSUME NEW s
  PROVE  LET A == {"collect_reports", "export_results", "write_case", "write_case_data",
                   "get_solver_health"}
         IN /\ Operations(ReportOps(s.outputs)) /\ Operations(Writes(s.outputs))
            /\ Every(Closing(s), A)
<1> DEFINE A == {"collect_reports", "export_results", "write_case", "write_case_data",
                 "get_solver_health"}
           o == s.outputs
           a == If(o.reports # <<>>,
             Once("report", "collect_reports", [reports |-> List(o.reports)]))
           b == If(o.images # <<>>,
             Once("report", "export_results", [images |-> Images(o.images)]))
           c == If(o.final_case.enabled, Once("write", "write_case",
                   [file_name |-> OutputFile(o.final_case.file, "final")]))
           d == If(o.final_case_data.enabled, Once("write", "write_case_data",
                   [file_name |-> OutputFile(o.final_case_data.file, "final-data")]))
<1>1. \A phase, action, params : /\ Once(phase, action, params).mode = "once"
                                 /\ Once(phase, action, params).action = action
  BY DEF Once
<1>2. Operations(a) /\ Every(CallsOf(a), A)
  BY <1>1, IfCalls
<1>3. Operations(b) /\ Every(CallsOf(b), A)
  BY <1>1, IfCalls
<1>4. Operations(c) /\ Every(CallsOf(c), A)
  BY <1>1, IfCalls
<1>5. Operations(d) /\ Every(CallsOf(d), A)
  BY <1>1, IfCalls
<1>6. ReportOps(o) = a \o b /\ Writes(o) = c \o d
  BY DEF ReportOps, Writes
<1> HIDE DEF a, b, c, d, A
<1>7. /\ Operations(a \o b) /\ CallsOf(a \o b) = CallsOf(a) \o CallsOf(b)
      /\ Operations(c \o d) /\ CallsOf(c \o d) = CallsOf(c) \o CallsOf(d)
  BY <1>2, <1>3, <1>4, <1>5, CallsOfBoth
<1>8. Every(CallsOf(a \o b), A) /\ Every(CallsOf(c \o d), A)
  BY <1>2, <1>3, <1>4, <1>5, <1>7, EveryConcat
<1>9. Every(CallsOf(a \o b) \o CallsOf(c \o d), A)
  BY <1>8, EveryConcat
<1>10. Every(Closing(s), A)
  BY <1>6, <1>9 DEF Closing
<1>. QED
  BY <1>6, <1>7, <1>10 DEF A

\* What is read and set before the solving.
LEMMA OpeningCalls ==
  ASSUME NEW s, SpecFormed(s)
  PROVE  /\ Every(TranscriptCalls(s), {"start_transcript"})
         /\ Operations(<<Read(s)>>)
         /\ LET r == CallsOf(<<Read(s)>>)
            IN /\ Every(r, Readers \cup {"get_solver_health"})
               /\ Len(r) = 2 /\ r[1].action \in Readers
         /\ Operations(Changes(s.sections))
         /\ Every(CallsOf(Changes(s.sections)), {"set_state", "get_solver_health"})
         /\ Operations(<<Initialize(s)>>)
         /\ LET i == CallsOf(<<Initialize(s)>>)
            IN /\ Every(i, {"initialize_solution", "get_solver_health"})
               /\ Len(i) = 2 /\ i[1].action = "initialize_solution"
<1>1. Every(TranscriptCalls(s), {"start_transcript"})
  <2>1. Call("start_transcript",
          [file_name |-> OutputFile(s.outputs.transcript.file, "transcript")]).action
          = "start_transcript"
    BY DEF Call
  <2>. QED
    BY <2>1, EveryIf DEF TranscriptCalls
<1>2. Operations(Changes(s.sections))
        /\ Every(CallsOf(Changes(s.sections)), {"set_state", "get_solver_health"})
  BY ChangeCalls DEF SpecFormed
<1>3. /\ Operations(<<Read(s)>>)
      /\ LET r == CallsOf(<<Read(s)>>)
         IN /\ Every(r, Readers \cup {"get_solver_health"})
            /\ Len(r) = 2 /\ r[1].action \in Readers
  <2> DEFINE op == Read(s)
             c == OperationCalls(op)
  <2>1. op.mode = "once" /\ op.action \in Readers
    BY DEF Read, Once, Reader, SpecFormed, Readers
  <2> HIDE DEF op
  <2>2. Every(c, {op.action, "get_solver_health"}) /\ Len(c) = 2 /\ c[1].action = op.action
    BY <2>1, OnceCalls
  <2>3. Operations(<<op>>) /\ CallsOf(<<op>>) = c
    BY <2>2, CallsOfOne DEF Every
  <2> HIDE DEF c
  <2>4. Every(c, Readers \cup {"get_solver_health"})
    BY <2>1, <2>2, EveryMore
  <2>. QED
    BY <2>1, <2>2, <2>3, <2>4 DEF op
<1>4. /\ Operations(<<Initialize(s)>>)
      /\ LET i == CallsOf(<<Initialize(s)>>)
         IN /\ Every(i, {"initialize_solution", "get_solver_health"})
            /\ Len(i) = 2 /\ i[1].action = "initialize_solution"
  <2> DEFINE op == Initialize(s)
             c == OperationCalls(op)
  <2>1. op.mode = "once" /\ op.action = "initialize_solution"
    BY DEF Initialize, Once
  <2> HIDE DEF op
  <2>2. Every(c, {op.action, "get_solver_health"}) /\ Len(c) = 2 /\ c[1].action = op.action
    BY <2>1, OnceCalls
  <2>3. Operations(<<op>>) /\ CallsOf(<<op>>) = c
    BY <2>2, CallsOfOne DEF Every
  <2>. QED
    BY <2>1, <2>2, <2>3 DEF op
<1>. QED
  BY <1>1, <1>2, <1>3, <1>4

\* The calls of a run are those three parts.
LEMMA CallsInParts ==
  ASSUME NEW s, SpecFormed(s), IsSequence(Solving(s))
  PROVE  Calls(s) = Opening(s) \o (Solving(s) \o Closing(s))
<1> DEFINE R == <<Read(s)>>
           H == Changes(s.sections)
           I == <<Initialize(s)>>
           F == <<Solve(s)>>
           O == ReportOps(s.outputs)
           W == Writes(s.outputs)
<1>1. Operations(R) /\ Operations(H) /\ Operations(I)
  BY OpeningCalls
<1>2. Operations(O) /\ Operations(W)
  BY ClosingCalls
<1>3. Operations(F) /\ CallsOf(F) = Solving(s)
  BY CallsOfOne DEF Solving
<1>4. <<Initialize(s), Solve(s)>> = I \o F
  BY TwoInARow
<1>5. Compile(s) = (((R \o H) \o (I \o F)) \o O) \o W
  BY <1>4 DEF Compile
<1>6. Calls(s) = TranscriptCalls(s) \o CallsOf(Compile(s))
  BY DEF Calls, CallsOf
<1>7. Opening(s) = TranscriptCalls(s) \o ((CallsOf(R) \o CallsOf(H)) \o CallsOf(I))
  BY DEF Opening
<1>8. Closing(s) = CallsOf(O) \o CallsOf(W)
  BY DEF Closing
<1> HIDE DEF R, H, I, F, O, W
<1>9. Operations(R \o H) /\ CallsOf(R \o H) = CallsOf(R) \o CallsOf(H)
  BY <1>1, CallsOfBoth
<1>10. Operations(I \o F) /\ CallsOf(I \o F) = CallsOf(I) \o CallsOf(F)
  BY <1>1, <1>3, CallsOfBoth
<1> DEFINE RH == R \o H
           IF_ == I \o F
           X == RH \o IF_
           Y == X \o O
           Z == Y \o W
<1>11. Operations(X) /\ CallsOf(X) = CallsOf(RH) \o CallsOf(IF_)
  BY <1>9, <1>10, CallsOfBoth
<1> HIDE DEF X
<1>12. Operations(Y) /\ CallsOf(Y) = CallsOf(X) \o CallsOf(O)
  BY <1>2, <1>11, CallsOfBoth
<1> HIDE DEF Y
<1>13. CallsOf(Z) = CallsOf(Y) \o CallsOf(W)
  BY <1>2, <1>12, CallsOfBoth
<1>14. IsSequence(TranscriptCalls(s)) /\ IsSequence(CallsOf(R)) /\ IsSequence(CallsOf(H))
       /\ IsSequence(CallsOf(I))
  BY OpeningCalls DEF Every, R, H, I
<1>15. IsSequence(CallsOf(O)) /\ IsSequence(CallsOf(W)) /\ IsSequence(CallsOf(F))
  <2>1. \A ops : Operations(ops) => IsSequence(CallsOf(ops))
    <3> SUFFICES ASSUME NEW ops, Operations(ops) PROVE IsSequence(CallsOf(ops))
      OBVIOUS
    <3> DEFINE r == [k \in DOMAIN ops |-> OperationCalls(ops[k])]
    <3>1. AllSequences(r)
      BY CallsRow
    <3> HIDE DEF r
    <3>2. IsSequence(FlattenSeq(r))
      BY <3>1, FlattenElements
    <3>. QED
      BY <3>2 DEF CallsOf, r
  <2>. QED
    BY <1>2, <1>3, <2>1
<1>16. Compile(s) = Z
  BY <1>5 DEF X, Y
<1>17. CallsOf(Compile(s)) = (((CallsOf(R) \o CallsOf(H)) \o (CallsOf(I) \o CallsOf(F)))
         \o CallsOf(O)) \o CallsOf(W)
  BY <1>9, <1>10, <1>11, <1>12, <1>13, <1>16
<1> DEFINE t == TranscriptCalls(s)
           r == CallsOf(R)
           h == CallsOf(H)
           i == CallsOf(I)
           f == CallsOf(F)
           o == CallsOf(O)
           w == CallsOf(W)
<1>18. t \o CallsOf(Compile(s)) = (t \o ((r \o h) \o i)) \o (f \o (o \o w))
  <2>1. CallsOf(Compile(s)) = (((r \o h) \o (i \o f)) \o o) \o w
    BY <1>17
  <2>2. /\ IsSequence(t) /\ IsSequence(r) /\ IsSequence(h) /\ IsSequence(i)
        /\ IsSequence(f) /\ IsSequence(o) /\ IsSequence(w)
    BY <1>14, <1>15
  <2> HIDE DEF t, r, h, i, f, o, w
  <2>3. t \o ((((r \o h) \o (i \o f)) \o o) \o w) = (t \o ((r \o h) \o i)) \o (f \o (o \o w))
    <3>1. Then(t, Then(Then(Then(Then(r, h), Then(i, f)), o), w))
            = Then(Then(t, Then(Then(r, h), i)), Then(f, Then(o, w)))
      BY <2>2, Regroup
    <3>. QED
      BY <3>1 DEF Then
  <2>. QED
    BY <2>1, <2>3
<1>. QED
  BY <1>3, <1>6, <1>7, <1>8, <1>18

-----------------------------------------------------------------------------
(***************************************************************************)
(* The chunks of a solve: how many there are, and that they add up.        *)
(***************************************************************************)
\* A longer stretch is no shorter when both are taken several times.
LEMMA TimesMore ==
  ASSUME NEW a \in Nat, NEW b \in Nat, NEW c \in Nat, a <= b
  PROVE  a * c <= b * c
<1> DEFINE d == b - a
<1>1. d \in Nat /\ b = a + d
  OBVIOUS
<1> HIDE DEF d
<1>2. (a + d) * c = a * c + d * c
  BY <1>1
<1>3. a * c \in Nat /\ d * c \in Nat
  BY <1>1
<1> DEFINE x == a * c
           y == d * c
<1>4. b * c = x + y
  BY <1>1, <1>2
<1> HIDE DEF x, y
<1>5. x \in Nat /\ y \in Nat
  BY <1>3 DEF x, y
<1>6. x <= b * c
  BY <1>4, <1>5
<1>. QED
  BY <1>6 DEF x

\* The chunks are numbered from 1, add up to the total, and are no longer than asked.
LEMMA ChunksCount ==
  ASSUME NEW op, op.total \in Nat \ {0}, op.chunk \in Nat \ {0}
  PROVE  \E N \in Nat \ {0} :
           /\ Chunks(op) = 1 .. N
           /\ Completed(op, 0) = 0 /\ Completed(op, N) = op.total
           /\ \A k \in 0 .. N : Completed(op, k) \in Nat
           /\ \A k \in 1 .. N : Completed(op, k) - Completed(op, k - 1) \in 1 .. op.chunk
<1> DEFINE T == op.total
           C == op.chunk
           S == {k \in Nat : T <= k * C}
<1>1. T \in Nat /\ C \in Nat /\ T # 0 /\ C # 0
  OBVIOUS
<1>2. \A k : Completed(op, k) = IF k * C < T THEN k * C ELSE T
  BY DEF Completed
<1>3. Chunks(op) = {k \in 1 .. T : (k - 1) * C < T}
  BY DEF Chunks
<1> HIDE DEF T, C
<1>4. T \in S
  <2>1. 1 <= C
    BY <1>1
  <2>2. 1 * T <= C * T
    BY <1>1, <2>1, TimesMore
  <2>3. 1 * T = T /\ C * T = T * C
    BY <1>1
  <2>. QED
    BY <1>1, <2>2, <2>3
<1>5. PICK N \in S : \A m \in S : N <= m
  <2>1. S \subseteq Nat /\ S # {}
    BY <1>4
  <2> HIDE DEF S
  <2>. QED
    BY <2>1, LeastNumber
<1>6. N \in Nat /\ T <= N * C /\ N <= T
  BY <1>4, <1>5
<1>7. \A k \in Nat : k * C \in Nat
  BY <1>1
<1>8. N # 0
  <2>1. 0 * C = 0
    BY <1>1
  <2>. QED
    BY <1>1, <1>6, <2>1
<1>9. \A k \in Nat : k < N => k * C < T
  <2> SUFFICES ASSUME NEW k \in Nat, k < N PROVE k * C < T
    OBVIOUS
  <2>1. k \notin S
    <3> HIDE DEF S
    <3>. QED
      BY <1>5, <1>6
  <2>2. ~(T <= k * C)
    BY <2>1
  <2>3. k * C \in Nat
    BY <1>7
  <2>. QED
    BY <1>1, <2>2, <2>3
<1>10. \A k \in Nat : N <= k => T <= k * C
  <2> SUFFICES ASSUME NEW k \in Nat, N <= k PROVE T <= k * C
    OBVIOUS
  <2>1. N * C <= k * C
    BY <1>1, <1>6, TimesMore
  <2>2. N * C \in Nat /\ k * C \in Nat
    BY <1>6, <1>7
  <2>. QED
    BY <1>1, <1>6, <2>1, <2>2
<1> HIDE DEF S
<1>11. Chunks(op) = 1 .. N
  <2>1. ASSUME NEW k \in 1 .. T PROVE (k - 1) * C < T <=> k <= N
    <3>1. k - 1 \in Nat /\ (k - 1 < N <=> k <= N) /\ (N <= k - 1 <=> ~(k <= N))
      BY <1>1, <1>6
    <3> DEFINE j == k - 1
    <3>2. CASE j < N
      <4> HIDE DEF j
      <4>1. j * C < T
        BY <1>9, <3>1, <3>2 DEF j
      <4>. QED
        BY <3>1, <3>2, <4>1 DEF j
    <3>3. CASE N <= j
      <4>1. T <= j * C /\ j * C \in Nat
        <5> HIDE DEF j
        <5>. QED
          BY <1>7, <1>10, <3>1, <3>3 DEF j
      <4> DEFINE x == j * C
      <4>2. x \in Nat /\ T <= x
        BY <4>1
      <4> HIDE DEF x
      <4>3. ~(x < T)
        BY <1>1, <4>2
      <4>. QED
        BY <3>1, <3>3, <4>3 DEF x, j
    <3>4. j < N \/ N <= j
      BY <1>6, <3>1
    <3>. QED
      BY <3>2, <3>3, <3>4
  <2> DEFINE P(k) == (k - 1) * C < T
  <2>2. \A k \in 1 .. T : P(k) <=> k <= N
    BY <2>1
  <2>3. Chunks(op) = {k \in 1 .. T : P(k)}
    BY <1>3
  <2> HIDE DEF P
  <2>. QED
    BY <1>1, <1>6, <2>2, <2>3
<1>12. Completed(op, 0) = 0 /\ Completed(op, N) = T
  <2>1. 0 * C = 0 /\ 0 * C < T
    BY <1>1
  <2>2. ~(N * C < T)
    BY <1>1, <1>6, <1>7
  <2>. QED
    BY <1>2, <2>1, <2>2
<1>13. \A k \in 0 .. N : Completed(op, k) \in Nat
  BY <1>1, <1>2, <1>6, <1>7
<1>14. ASSUME NEW k \in 1 .. N PROVE Completed(op, k) - Completed(op, k - 1) \in 1 .. C
  <2> DEFINE j == k - 1
             x == j * C
             y == k * C
  <2>1. j \in Nat /\ k \in Nat /\ j < N /\ k = j + 1
    BY <1>6
  <2>2. y = x + C
    <3>1. (j + 1) * C = j * C + 1 * C /\ 1 * C = C
      BY <1>1, <2>1
    <3>. QED
      BY <2>1, <3>1
  <2>3. x \in Nat /\ x < T
    <3> HIDE DEF j
    <3>. QED
      BY <1>7, <1>9, <2>1
  <2>4. Completed(op, j) = IF x < T THEN x ELSE T
    BY <1>2
  <2>5. Completed(op, k) = IF y < T THEN y ELSE T
    BY <1>2
  <2> HIDE DEF j, x, y
  <2>6. Completed(op, k) - Completed(op, j) \in 1 .. C
    BY <1>1, <2>2, <2>3, <2>4, <2>5
  <2>. QED
    BY <2>6 DEF j
<1>. QED
  BY <1>6, <1>8, <1>11, <1>12, <1>13, <1>14 DEF T, C

-----------------------------------------------------------------------------
(***************************************************************************)
(* What calls have the product solve.                                      *)
(***************************************************************************)
\* A call that solves as the spec wants it.
Solves(call, s) ==
  /\ call.action = IF s.workflow = "steady" THEN "run_iterations" ELSE "run_time_steps"
  /\ SizeOf(call) \in 1 .. s.chunk
  /\ IF s.workflow = "steady" THEN "count" \in DOMAIN call.params
     ELSE /\ {"step_count", "time_step_size"} \subseteq DOMAIN call.params
          /\ call.params.time_step_size = s.stepSize

\* How much a call solves.
Size(call) == IF call.action \in SolveActions THEN SizeOf(call) ELSE 0

Checkpoint == "checkpoint_case_data"

\* A call that saves what is done after a chunk, to the file of that chunk.
Saves(call, s, n) == \E k \in Chunks(Solve(s)) :
  n = Completed(Solve(s), k) /\ call.params = [file_name |-> CheckpointFile(Solve(s), k)]

\* sum[i] is what is solved after i of the calls.
Sums(c, s, sum, from, to) ==
  /\ IsSequence(c) /\ from \in Nat /\ to \in Nat
  /\ sum[0] = from /\ sum[Len(c)] = to
  /\ \A i \in 0 .. Len(c) : sum[i] \in from .. to
  /\ \A i \in 1 .. Len(c) : c[i].action = Checkpoint => Saves(c[i], s, sum[i])
  /\ \A i \in 1 .. Len(c) : /\ c[i].action \in SolveActions => Solves(c[i], s)
                            /\ sum[i] = sum[i - 1] + Size(c[i])

\* The calls lead from so much to so much.
Tally(c, s, from, to) == \E sum : Sums(c, s, sum, from, to)

LEMMA TallyNothing ==
  ASSUME NEW c, NEW A, Every(c, A), A \cap (SolveActions \cup {Checkpoint}) = {},
         NEW s, NEW n \in Nat
  PROVE  Tally(c, s, n, n)
<1> DEFINE sum == [i \in 0 .. Len(c) |-> n]
<1>1. IsSequence(c) /\ Len(c) \in Nat /\ \A k \in 1 .. Len(c) : c[k].action \in A
  BY SequenceDomain DEF Every
<1>2. \A i \in 1 .. Len(c) : /\ c[i].action \notin SolveActions /\ Size(c[i]) = 0
                             /\ c[i].action # Checkpoint
  BY <1>1 DEF Size
<1>3. \A i \in 0 .. Len(c) : sum[i] = n
  OBVIOUS
<1> HIDE DEF sum
<1>4. Sums(c, s, sum, n, n)
  BY <1>1, <1>2, <1>3 DEF Sums
<1>. QED
  BY <1>4 DEF Tally

LEMMA TallyOne ==
  ASSUME NEW e, NEW s, e.action \in SolveActions, Solves(e, s), NEW m \in Nat, NEW n \in Nat,
         n - m = SizeOf(e), s.chunk \in Nat
  PROVE  Tally(<<e>>, s, m, n)
<1> DEFINE c == <<e>>
           sum == [i \in 0 .. 1 |-> IF i = 0 THEN m ELSE n]
<1>1. IsSequence(c) /\ Len(c) = 1 /\ c[1] = e
  BY SequenceOne
<1>2. sum[0] = m /\ sum[1] = n
  OBVIOUS
<1>3. Size(e) = SizeOf(e) /\ SizeOf(e) \in 1 .. s.chunk
  BY DEF Size, Solves
<1> HIDE DEF c, sum
<1>4. m <= n /\ n = m + Size(e)
  <2> DEFINE z == SizeOf(e)
  <2>1. z \in 1 .. s.chunk /\ n - m = z /\ Size(e) = z
    BY <1>3
  <2> HIDE DEF z
  <2>. QED
    BY <2>1
<1>5. \A i \in 0 .. 1 : sum[i] \in m .. n
  BY <1>2, <1>4
<1>6. \A i \in 1 .. 1 : c[i].action \in SolveActions /\ Solves(c[i], s)
                        /\ sum[i] = sum[i - 1] + Size(c[i])
  <2>1. 1 - 1 = 0
    OBVIOUS
  <2>2. sum[1] = sum[1 - 1] + Size(c[1])
    BY <1>1, <1>2, <1>4, <2>1
  <2>. QED
    BY <1>1, <2>2
<1>7. c[1].action # Checkpoint
  BY <1>1 DEF SolveActions, Checkpoint
<1>8. Sums(c, s, sum, m, n)
  BY <1>1, <1>2, <1>5, <1>6, <1>7 DEF Sums
<1>. QED
  BY <1>8 DEF Tally, c

\* A checkpoint solves nothing.
LEMMA TallyPoint ==
  ASSUME NEW e, NEW s, e.action = Checkpoint, NEW n \in Nat, Saves(e, s, n)
  PROVE  Tally(<<e>>, s, n, n)
<1> DEFINE c == <<e>>
           sum == [i \in 0 .. 1 |-> n]
<1>1. IsSequence(c) /\ Len(c) = 1 /\ c[1] = e
  BY SequenceOne
<1>2. \A i \in 0 .. 1 : sum[i] = n
  OBVIOUS
<1>3. e.action \notin SolveActions /\ Size(e) = 0
  BY DEF Size, SolveActions, Checkpoint
<1> HIDE DEF c, sum
<1>4. \A i \in 1 .. 1 : c[i] = e /\ sum[i] = n /\ sum[i - 1] = n
  BY <1>1, <1>2
<1>5. Sums(c, s, sum, n, n)
  BY <1>1, <1>2, <1>3, <1>4 DEF Sums
<1>. QED
  BY <1>5 DEF Tally, c

LEMMA TallyConcat ==
  ASSUME NEW a, NEW b, NEW s, NEW x, NEW y, NEW z, Tally(a, s, x, y), Tally(b, s, y, z)
  PROVE  Tally(a \o b, s, x, z)
<1>1. PICK f : Sums(a, s, f, x, y)
  BY DEF Tally
<1>2. PICK g : Sums(b, s, g, y, z)
  BY DEF Tally
<1> DEFINE c == a \o b
           M == Len(a)
           N == Len(b)
           sum == [i \in 0 .. M + N |-> IF i <= M THEN f[i] ELSE g[i - M]]
<1>3. /\ IsSequence(c) /\ Len(c) = M + N
      /\ M \in Nat /\ N \in Nat
      /\ \A k \in 1 .. M : c[k] = a[k]
      /\ \A j \in 1 .. N : c[M + j] = b[j]
  BY <1>1, <1>2, ConcatParts DEF Sums
<1>4. /\ x \in Nat /\ y \in Nat /\ f[0] = x /\ f[M] = y
      /\ \A i \in 0 .. M : f[i] \in x .. y
      /\ \A i \in 1 .. M : /\ a[i].action \in SolveActions => Solves(a[i], s)
                           /\ a[i].action = Checkpoint => Saves(a[i], s, f[i])
                           /\ f[i] = f[i - 1] + Size(a[i])
  BY <1>1 DEF Sums
<1>5. /\ z \in Nat /\ g[0] = y /\ g[N] = z
      /\ \A i \in 0 .. N : g[i] \in y .. z
      /\ \A i \in 1 .. N : /\ b[i].action \in SolveActions => Solves(b[i], s)
                           /\ b[i].action = Checkpoint => Saves(b[i], s, g[i])
                           /\ g[i] = g[i - 1] + Size(b[i])
  BY <1>2 DEF Sums
<1> HIDE DEF c, M, N
<1>6. \A i \in 0 .. M : sum[i] = f[i]
  BY <1>3
<1>7. \A j \in 0 .. N : sum[M + j] = g[j]
  <2> SUFFICES ASSUME NEW j \in 0 .. N PROVE sum[M + j] = g[j]
    OBVIOUS
  <2>1. CASE j = 0
    BY <1>3, <1>4, <1>5, <2>1
  <2>2. CASE j # 0
    <3> DEFINE i == M + j
    <3>1. i \in 0 .. M + N /\ ~(i <= M) /\ i - M = j
      BY <1>3, <2>2
    <3> HIDE DEF i
    <3>2. sum[i] = g[i - M]
      BY <3>1
    <3>. QED
      BY <3>1, <3>2 DEF i
  <2>. QED
    BY <2>1, <2>2
<1> HIDE DEF sum
<1>8. x <= y /\ y <= z
  BY <1>3, <1>4, <1>5
<1>9. sum[0] = x /\ sum[M + N] = z
  BY <1>3, <1>4, <1>5, <1>6, <1>7
<1>10. ASSUME NEW i \in 0 .. M + N PROVE sum[i] \in x .. z
  <2>1. CASE i <= M
    <3>1. i \in 0 .. M
      BY <1>3, <2>1
    <3>2. sum[i] = f[i] /\ f[i] \in x .. y
      BY <1>4, <1>6, <3>1
    <3>. QED
      BY <1>4, <1>5, <1>8, <3>2
  <2>2. CASE ~(i <= M)
    <3> DEFINE j == i - M
    <3>1. j \in 0 .. N /\ i = M + j
      BY <1>3, <2>2
    <3> HIDE DEF j
    <3>. QED
      BY <1>4, <1>5, <1>7, <1>8, <3>1
  <2>. QED
    BY <2>1, <2>2
<1>11. ASSUME NEW i \in 1 .. M + N
       PROVE  /\ c[i].action \in SolveActions => Solves(c[i], s)
              /\ c[i].action = Checkpoint => Saves(c[i], s, sum[i])
              /\ sum[i] = sum[i - 1] + Size(c[i])
  <2>1. CASE i <= M
    <3>1. i \in 1 .. M /\ i \in 0 .. M /\ i - 1 \in 0 .. M
      BY <1>3, <2>1
    <3>2. c[i] = a[i] /\ sum[i] = f[i] /\ sum[i - 1] = f[i - 1]
      BY <1>3, <1>6, <3>1
    <3>. QED
      BY <1>4, <3>1, <3>2
  <2>2. CASE ~(i <= M)
    <3> DEFINE j == i - M
               l == j - 1
    <3>1. j \in 1 .. N /\ j \in 0 .. N /\ l \in 0 .. N /\ i = M + j /\ i - 1 = M + l
      BY <1>3, <2>2
    <3>2. \A n \in 1 .. N : g[n] = g[n - 1] + Size(b[n])
      BY <1>5
    <3>3. g[j] = g[l] + Size(b[j])
      BY <3>1, <3>2
    <3> HIDE DEF j, l
    <3>4. c[i] = b[j] /\ sum[i] = g[j] /\ sum[i - 1] = g[l]
      BY <1>3, <1>7, <3>1
    <3>. QED
      BY <1>5, <3>1, <3>3, <3>4
  <2>. QED
    BY <2>1, <2>2
<1>12. Sums(c, s, sum, x, z)
  BY <1>3, <1>4, <1>5, <1>9, <1>10, <1>11 DEF Sums
<1>. QED
  BY <1>12 DEF Tally, c

-----------------------------------------------------------------------------
(***************************************************************************)
(* The solving of a run.                                                   *)
(***************************************************************************)
\* The one operation that is cut into chunks.
LEMMA SolveFormed ==
  ASSUME NEW s, SpecFormed(s)
  PROVE  LET op == Solve(s)
         IN /\ op.total = s.total /\ op.chunk = s.chunk
            /\ op.total \in Nat \ {0} /\ op.chunk \in Nat \ {0}
            /\ op.mode = IF s.workflow = "steady" THEN "iterations" ELSE "time_steps"
            /\ op.action = IF s.workflow = "steady" THEN "run_iterations" ELSE "run_time_steps"
            /\ s.workflow # "steady" => /\ "time_step_size" \in DOMAIN op.params
                                        /\ op.params.time_step_size = s.stepSize
BY DEF SpecFormed, Solve

LEMMA SolveCallFormed ==
  ASSUME NEW s, SpecFormed(s), NEW k,
         Completed(Solve(s), k) - Completed(Solve(s), k - 1) \in 1 .. s.chunk
  PROVE  LET e == SolveCall(Solve(s), k)
         IN /\ e.action \in SolveActions /\ Solves(e, s)
            /\ SizeOf(e) = Completed(Solve(s), k) - Completed(Solve(s), k - 1)
<1> DEFINE op == Solve(s)
           n == Completed(op, k) - Completed(op, k - 1)
           e == SolveCall(op, k)
<1>1. n \in 1 .. s.chunk
  OBVIOUS
<1>2. e = Call(op.action, IF op.mode = "iterations" THEN [count |-> Whole(n)]
                          ELSE Over([step_count |-> Whole(n)], op.params))
  BY DEF SolveCall
<1>3. Whole(n).n = n
  BY DEF Whole
<1>4. /\ op.mode = IF s.workflow = "steady" THEN "iterations" ELSE "time_steps"
      /\ op.action = IF s.workflow = "steady" THEN "run_iterations" ELSE "run_time_steps"
      /\ s.workflow # "steady" => /\ "time_step_size" \in DOMAIN op.params
                                  /\ op.params.time_step_size = s.stepSize
  BY SolveFormed
<1> DEFINE w == Whole(n)
<1> HIDE DEF op, n, e, w
<1>5. CASE s.workflow = "steady"
  <2>1. e.action = "run_iterations" /\ e.params = [count |-> w]
    BY <1>2, <1>4, <1>5 DEF Call, w
  <2>2. SizeOf(e) = n /\ "count" \in DOMAIN e.params
    BY <1>3, <2>1 DEF SizeOf, w
  <2>. QED
    BY <1>1, <1>5, <2>1, <2>2 DEF Solves, SolveActions, op, n, e
<1>6. CASE s.workflow # "steady"
  <2>1. e.action = "run_time_steps" /\ e.params = Over([step_count |-> w], op.params)
    BY <1>2, <1>4, <1>6 DEF Call, w
  <2>2. /\ {"step_count", "time_step_size"} \subseteq DOMAIN e.params
        /\ e.params.step_count = w /\ e.params.time_step_size = s.stepSize
    BY <1>4, <1>6, <2>1 DEF Over
  <2>3. SizeOf(e) = n
    BY <1>3, <2>1, <2>2 DEF SizeOf, w
  <2>. QED
    BY <1>1, <1>6, <2>1, <2>2, <2>3 DEF Solves, SolveActions, op, n, e
<1>. QED
  BY <1>5, <1>6

\* The actions of a chunk.
ChunkActions == {"collect_reports", "get_solver_health", "checkpoint_case_data"}

\* A chunk solves its part of the whole, and does nothing but that, a look at the
\* reports and the solver, and a checkpoint.
LEMMA ChunkTally ==
  ASSUME NEW s, SpecFormed(s), NEW k \in Chunks(Solve(s)),
         Completed(Solve(s), k) \in Nat, Completed(Solve(s), k - 1) \in Nat,
         Completed(Solve(s), k) - Completed(Solve(s), k - 1) \in 1 .. s.chunk
  PROVE  LET c == ChunkCalls(Solve(s), k)
         IN /\ Tally(c, s, Completed(Solve(s), k - 1), Completed(Solve(s), k))
            /\ Every(c, SolveActions \cup ChunkActions)
<1> DEFINE op == Solve(s)
           m == Completed(op, k - 1)
           n == Completed(op, k)
           e == SolveCall(op, k)
           a == If(op.reports # <<>>, Call("collect_reports", [reports |-> List(op.reports)]))
           h == <<Health>>
           y == Call("checkpoint_case_data", [file_name |-> CheckpointFile(op, k)])
           p == If(CheckpointDue(op, k), y)
           D == {"collect_reports", "get_solver_health"}
<1>1. e.action \in SolveActions /\ Solves(e, s) /\ SizeOf(e) = n - m
  BY SolveCallFormed
<1>2. m \in Nat /\ n \in Nat
  OBVIOUS
<1>3. ChunkCalls(op, k) = ((<<e>> \o a) \o h) \o p
  BY DEF ChunkCalls
<1>4. \A action, params : Call(action, params).action = action
  BY DEF Call
<1>5. Every(a, D)
  BY <1>4, EveryIf
<1>6. Every(p, ChunkActions)
  BY <1>4, EveryIf DEF ChunkActions
<1>7. Every(h, D)
  BY <1>4, EveryOne DEF Health
<1>8. D \cap (SolveActions \cup {Checkpoint}) = {} /\ D \subseteq ChunkActions
  BY DEF ChunkActions, SolveActions, Checkpoint
<1>9. Every(<<e>>, SolveActions)
  BY <1>1, EveryOne
<1> DEFINE i == <<e>>
<1>10. s.chunk \in Nat
  BY DEF SpecFormed
<1> DEFINE j == <<y>>
<1>11. y.action = Checkpoint /\ Saves(y, s, n)
  <2>1. y.action = Checkpoint /\ y.params = [file_name |-> CheckpointFile(op, k)]
    BY DEF Call, Checkpoint
  <2> HIDE DEF y
  <2>. QED
    BY <2>1 DEF Saves
<1>12. p = j \/ p = <<>>
  BY DEF If
<1> HIDE DEF op, m, n, e, a, h, p, y, D
<1>13. Tally(p, s, n, n)
  <2>1. CASE p = j
    BY <1>2, <1>11, <2>1, TallyPoint
  <2>2. CASE p = <<>>
    <3>1. Every(<<>>, {})
      BY SequenceEmpty DEF Every
    <3>. QED
      BY <1>2, <2>2, <3>1, TallyNothing
  <2>. QED
    BY <1>12, <2>1, <2>2
<1>14. Tally(i, s, m, n)
  BY <1>1, <1>2, <1>10, TallyOne
<1>15. Tally(a, s, n, n) /\ Tally(h, s, n, n) /\ Tally(p, s, n, n)
  BY <1>2, <1>5, <1>7, <1>8, <1>13, TallyNothing
<1> DEFINE B == SolveActions \cup ChunkActions
<1>16. Every(i, B) /\ Every(a, B) /\ Every(h, B) /\ Every(p, B)
  BY <1>5, <1>6, <1>7, <1>8, <1>9, EveryMore
<1> HIDE DEF i, B
<1> DEFINE u == i \o a
           v == u \o h
           w == v \o p
<1>17. Tally(u, s, m, n) /\ Every(u, B)
  BY <1>14, <1>15, <1>16, TallyConcat, EveryConcat
<1> HIDE DEF u
<1>18. Tally(v, s, m, n) /\ Every(v, B)
  BY <1>15, <1>16, <1>17, TallyConcat, EveryConcat
<1> HIDE DEF v
<1>19. Tally(w, s, m, n) /\ Every(w, B)
  BY <1>15, <1>16, <1>18, TallyConcat, EveryConcat
<1>20. ChunkCalls(op, k) = w
  BY <1>3 DEF i, u, v
<1> HIDE DEF w
<1>. QED
  BY <1>19, <1>20 DEF op, m, n, B

\* All of the chunks solve all of it.
LEMMA SolvingTally ==
  ASSUME NEW s, SpecFormed(s)
  PROVE  /\ Tally(Solving(s), s, 0, s.total)
         /\ Every(Solving(s), SolveActions \cup ChunkActions)
<1> DEFINE op == Solve(s)
           A == SolveActions \cup ChunkActions
<1>1. /\ op.total = s.total /\ op.chunk = s.chunk
      /\ op.total \in Nat \ {0} /\ op.chunk \in Nat \ {0} /\ op.mode # "once"
  BY SolveFormed
<1>2. PICK N \in Nat \ {0} :
           /\ Chunks(op) = 1 .. N
           /\ Completed(op, 0) = 0 /\ Completed(op, N) = op.total
           /\ \A k \in 0 .. N : Completed(op, k) \in Nat
           /\ \A k \in 1 .. N : Completed(op, k) - Completed(op, k - 1) \in 1 .. op.chunk
  BY <1>1, ChunksCount
<1> DEFINE r == [k \in Chunks(op) |-> ChunkCalls(op, k)]
<1>3. Solving(s) = FlattenSeq(r)
  BY <1>1 DEF Solving, OperationCalls
<1>4. r = [k \in 1 .. N |-> r[k]] /\ \A k \in 1 .. N : r[k] = ChunkCalls(op, k)
  BY <1>2
<1> HIDE DEF r
<1>5. IsSequence(r) /\ Len(r) = N
  BY <1>2, <1>4, SequenceOf
<1>6. ASSUME NEW k \in 1 .. N
      PROVE  /\ Tally(r[k], s, Completed(op, k - 1), Completed(op, k))
             /\ Every(r[k], A)
  <2>1. k - 1 \in 0 .. N /\ k \in 0 .. N
    BY <1>2
  <2>2. /\ Completed(op, k) \in Nat /\ Completed(op, k - 1) \in Nat
        /\ Completed(op, k) - Completed(op, k - 1) \in 1 .. s.chunk
        /\ k \in Chunks(op)
    BY <1>1, <1>2, <2>1
  <2>. QED
    BY <1>4, <2>2, ChunkTally
<1>7. AllSequences(r)
  BY <1>5, <1>6 DEF AllSequences, Every
<1>8. PICK row : Rows(r, row)
  BY <1>7, FlattenOneByOne
<1>9. /\ row[0] = <<>> /\ FlattenSeq(r) = row[N]
      /\ \A k \in 1 .. N : row[k] = row[k - 1] \o r[k]
  BY <1>5, <1>8 DEF Rows
<1> DEFINE S == {k \in Nat : k <= N => Tally(row[k], s, 0, Completed(op, k)) /\ Every(row[k], A)}
<1> HIDE DEF op, A
<1>10. 0 \in S
  <2>1. Every(<<>>, {})
    BY SequenceEmpty DEF Every
  <2>2. Every(<<>>, A)
    BY <2>1, EveryMore
  <2>3. Tally(<<>>, s, 0, 0)
    BY <2>1, TallyNothing
  <2>. QED
    BY <1>2, <1>9, <2>2, <2>3
<1>11. ASSUME NEW k \in Nat, k < N, k \in S PROVE k + 1 \in S
  <2> DEFINE m == k + 1
             a == row[k]
             b == r[m]
  <2>1. m \in 1 .. N /\ m - 1 = k /\ m \in Nat
    BY <1>2, <1>11
  <2>2. Tally(a, s, 0, Completed(op, k)) /\ Every(a, A)
    BY <1>2, <1>11
  <2> HIDE DEF m
  <2>3. Tally(b, s, Completed(op, k), Completed(op, m)) /\ Every(b, A)
    <3>1. Tally(r[m], s, Completed(op, m - 1), Completed(op, m)) /\ Every(r[m], A)
      BY <1>6, <2>1
    <3>. QED
      BY <2>1, <3>1
  <2>4. row[m] = a \o b
    BY <1>9, <2>1
  <2> HIDE DEF a, b
  <2>5. Tally(a \o b, s, 0, Completed(op, m)) /\ Every(a \o b, A)
    BY <2>2, <2>3, TallyConcat, EveryConcat
  <2>6. m \in S
    BY <2>1, <2>4, <2>5
  <2>. QED
    BY <2>6 DEF m
<1>12. N \in S
  <2> HIDE DEF S
  <2>1. \A k \in 0 .. N : k \in S
    BY <1>2, <1>10, <1>11, CountingUp
  <2>. QED
    BY <1>2, <2>1
<1>13. Tally(row[N], s, 0, Completed(op, N)) /\ Every(row[N], A)
  BY <1>2, <1>12
<1>. QED
  BY <1>1, <1>2, <1>3, <1>9, <1>13 DEF op, A

-----------------------------------------------------------------------------
(***************************************************************************)
(* The order of the calls.                                                 *)
(***************************************************************************)
\* The stage of a simulation an action belongs to, 0 for those that belong to none.
Rank(action) ==
  CASE action \in Readers -> 1
    [] action = "set_state" -> 2
    [] action = "initialize_solution" -> 3
    [] action \in SolveActions \cup {"checkpoint_case_data"} -> 4
    [] action \in {"export_results", "write_case", "write_case_data"} -> 5
    [] OTHER -> 0

\* Calls of the stages from low to high, one stage after the other.
InOrder(c, low, high) ==
  /\ IsSequence(c)
  /\ \A k \in 1 .. Len(c) : Rank(c[k].action) \in {0} \cup low .. high
  /\ \A j, k \in 1 .. Len(c) :
       0 < Rank(c[j].action) /\ Rank(c[j].action) < Rank(c[k].action) => j < k

LEMMA InOrderStage ==
  ASSUME NEW c, NEW A, NEW n \in Nat, Every(c, A), \A a \in A : Rank(a) \in {0, n}
  PROVE  InOrder(c, n, n)
<1>1. \A k \in 1 .. Len(c) : Rank(c[k].action) \in {0, n}
  BY DEF Every
<1>. QED
  BY <1>1 DEF InOrder, Every

LEMMA InOrderConcat ==
  ASSUME NEW a, NEW b, NEW l \in Nat, NEW m \in Nat, NEW n \in Nat, NEW h \in Nat,
         InOrder(a, l, m), InOrder(b, n, h), l <= n, m <= n, m <= h
  PROVE  InOrder(a \o b, l, h)
<1> DEFINE c == a \o b
           M == Len(a)
           N == Len(b)
           ra(k) == Rank(a[k].action)
           rb(k) == Rank(b[k].action)
           rc(k) == Rank(c[k].action)
<1>1. /\ IsSequence(c) /\ Len(c) = M + N /\ M \in Nat /\ N \in Nat
      /\ \A k \in 1 .. M : c[k] = a[k]
      /\ \A k \in 1 .. M + N : k \notin 1 .. M => k - M \in 1 .. N /\ c[k] = b[k - M]
  BY ConcatParts DEF InOrder
<1>2. /\ \A k \in 1 .. M : ra(k) \in {0} \cup l .. m
      /\ \A j, k \in 1 .. M : 0 < ra(j) /\ ra(j) < ra(k) => j < k
  BY DEF InOrder
<1>3. /\ \A k \in 1 .. N : rb(k) \in {0} \cup n .. h
      /\ \A j, k \in 1 .. N : 0 < rb(j) /\ rb(j) < rb(k) => j < k
  BY DEF InOrder
<1>4. \A k \in 1 .. M : rc(k) = ra(k)
  BY <1>1
<1>5. \A k \in 1 .. M + N : k \notin 1 .. M => k - M \in 1 .. N /\ rc(k) = rb(k - M)
  BY <1>1
<1>6. InOrder(c, l, h) <=> /\ \A k \in 1 .. M + N : rc(k) \in {0} \cup l .. h
                           /\ \A j, k \in 1 .. M + N : 0 < rc(j) /\ rc(j) < rc(k) => j < k
  BY <1>1 DEF InOrder
<1> HIDE DEF M, N, ra, rb, rc, c
<1>7. ASSUME NEW k \in 1 .. M + N PROVE rc(k) \in {0} \cup l .. h
  <2>1. CASE k \in 1 .. M
    BY <1>2, <1>4, <2>1
  <2>2. CASE k \notin 1 .. M
    BY <1>3, <1>5, <2>2
  <2>. QED
    BY <2>1, <2>2
<1>8. ASSUME NEW j \in 1 .. M + N, NEW k \in 1 .. M + N, 0 < rc(j), rc(j) < rc(k)
      PROVE  j < k
  <2>1. CASE j \in 1 .. M /\ k \in 1 .. M
    BY <1>2, <1>4, <1>8, <2>1
  <2>2. CASE j \in 1 .. M /\ k \notin 1 .. M
    BY <1>1, <2>2
  <2>3. CASE j \notin 1 .. M /\ k \in 1 .. M
    <3>1. rc(j) \in {0} \cup n .. h /\ rc(k) \in {0} \cup l .. m
      BY <1>2, <1>3, <1>4, <1>5, <2>3
    <3>. QED
      BY <1>8, <3>1
  <2>4. CASE j \notin 1 .. M /\ k \notin 1 .. M
    <3>1. j - M \in 1 .. N /\ k - M \in 1 .. N /\ rc(j) = rb(j - M) /\ rc(k) = rb(k - M)
      BY <1>5, <2>4
    <3>2. j - M < k - M
      BY <1>3, <1>8, <3>1
    <3>. QED
      BY <1>1, <3>1, <3>2
  <2>. QED
    BY <2>1, <2>2, <2>3, <2>4
<1>. QED
  BY <1>6, <1>7, <1>8 DEF c

\* One of the calls is among A.
Some(c, A) == \E k \in 1 .. Len(c) : c[k].action \in A

LEMMA SomeConcat ==
  ASSUME NEW a, NEW b, IsSequence(a), IsSequence(b), NEW A
  PROVE  Some(a, A) \/ Some(b, A) => Some(a \o b, A)
<1> DEFINE c == a \o b
           M == Len(a)
           N == Len(b)
<1>1. /\ Len(c) = M + N /\ M \in Nat /\ N \in Nat
      /\ \A k \in 1 .. M : c[k] = a[k]
      /\ \A j \in 1 .. N : c[M + j] = b[j]
  BY ConcatParts
<1> HIDE DEF c
<1>2. ASSUME NEW k \in 1 .. M, a[k].action \in A PROVE Some(c, A)
  <2>1. k \in 1 .. Len(c) /\ c[k].action \in A
    <3> HIDE DEF M, N
    <3>. QED
      BY <1>1, <1>2
  <2>. QED
    BY <2>1 DEF Some
<1>3. ASSUME NEW j \in 1 .. N, b[j].action \in A PROVE Some(c, A)
  <2> DEFINE k == M + j
  <2>1. c[k] = b[j]
    BY <1>1
  <2>2. k \in 1 .. Len(c)
    <3> HIDE DEF M, N
    <3>. QED
      BY <1>1
  <2> HIDE DEF k
  <2>. QED
    BY <1>3, <2>1, <2>2 DEF Some
<1>. QED
  BY <1>2, <1>3 DEF Some, c

\* The calls of a run: in order, with something read and initialized, and solving what
\* was asked for.
LEMMA OpeningInOrder ==
  ASSUME NEW s, SpecFormed(s)
  PROVE  /\ InOrder(Opening(s), 0, 3)
         /\ Some(Opening(s), Readers) /\ Some(Opening(s), {"initialize_solution"})
         /\ Every(Opening(s), {"start_transcript", "set_state", "initialize_solution",
                               "get_solver_health"} \cup Readers)
<1> DEFINE t == TranscriptCalls(s)
           r == CallsOf(<<Read(s)>>)
           h == CallsOf(Changes(s.sections))
           i == CallsOf(<<Initialize(s)>>)
           A == {"start_transcript", "set_state", "initialize_solution", "get_solver_health"}
                  \cup Readers
<1>1. /\ Every(t, {"start_transcript"})
      /\ Every(r, Readers \cup {"get_solver_health"}) /\ Len(r) = 2 /\ r[1].action \in Readers
      /\ Every(h, {"set_state", "get_solver_health"})
      /\ Every(i, {"initialize_solution", "get_solver_health"})
      /\ Len(i) = 2 /\ i[1].action = "initialize_solution"
  BY OpeningCalls
<1>2. Opening(s) = t \o ((r \o h) \o i)
  BY DEF Opening
<1> HIDE DEF t, r, h, i
<1>3. InOrder(t, 0, 0)
  <2>1. \A a \in {"start_transcript"} : Rank(a) \in {0, 0}
    BY DEF Rank, Readers, SolveActions
  <2>. QED
    BY <1>1, <2>1, InOrderStage
<1>4. InOrder(r, 1, 1)
  <2>1. \A a \in Readers \cup {"get_solver_health"} : Rank(a) \in {0, 1}
    BY DEF Rank, Readers, SolveActions
  <2>. QED
    BY <1>1, <2>1, InOrderStage
<1>5. InOrder(h, 2, 2)
  <2>1. \A a \in {"set_state", "get_solver_health"} : Rank(a) \in {0, 2}
    BY DEF Rank, Readers, SolveActions
  <2>. QED
    BY <1>1, <2>1, InOrderStage
<1>6. InOrder(i, 3, 3)
  <2>1. \A a \in {"initialize_solution", "get_solver_health"} : Rank(a) \in {0, 3}
    BY DEF Rank, Readers, SolveActions
  <2>. QED
    BY <1>1, <2>1, InOrderStage
<1> DEFINE u == r \o h
           v == u \o i
           w == t \o v
<1>7. Some(r, Readers) /\ Some(i, {"initialize_solution"})
  BY <1>1 DEF Some
<1>8. Every(t, A) /\ Every(r, A) /\ Every(h, A) /\ Every(i, A)
  BY <1>1, EveryMore
<1>9. IsSequence(t) /\ IsSequence(r) /\ IsSequence(h) /\ IsSequence(i)
  BY <1>1 DEF Every
<1> HIDE DEF A
<1>10. InOrder(u, 1, 2) /\ Some(u, Readers) /\ Every(u, A)
  <2>1. InOrder(u, 1, 2)
    BY <1>4, <1>5, InOrderConcat
  <2>. QED
    BY <1>7, <1>8, <1>9, <2>1, SomeConcat, EveryConcat
<1> HIDE DEF u
<1>11. /\ InOrder(v, 1, 3) /\ Every(v, A)
       /\ Some(v, Readers) /\ Some(v, {"initialize_solution"})
  <2>1. InOrder(v, 1, 3)
    BY <1>6, <1>10, InOrderConcat
  <2>2. IsSequence(u)
    BY <1>10 DEF Every
  <2>. QED
    BY <1>7, <1>8, <1>9, <1>10, <2>1, <2>2, SomeConcat, EveryConcat
<1> HIDE DEF v
<1>12. /\ InOrder(w, 0, 3) /\ Every(w, A)
       /\ Some(w, Readers) /\ Some(w, {"initialize_solution"})
  <2>1. InOrder(w, 0, 3)
    BY <1>3, <1>11, InOrderConcat
  <2>2. IsSequence(v)
    BY <1>11 DEF Every
  <2>. QED
    BY <1>8, <1>9, <1>11, <2>1, <2>2, SomeConcat, EveryConcat
<1>13. Opening(s) = w
  BY <1>2 DEF u, v
<1> HIDE DEF w
<1>. QED
  BY <1>12, <1>13 DEF A

LEMMA CallsFormed ==
  ASSUME NEW s, SpecFormed(s)
  PROVE  LET c == Calls(s)
         IN /\ InOrder(c, 0, 5) /\ Some(c, Readers) /\ Some(c, {"initialize_solution"})
            /\ Tally(c, s, 0, s.total)
<1> DEFINE p == Opening(s)
           f == Solving(s)
           e == Closing(s)
           B == {"collect_reports", "export_results", "write_case", "write_case_data",
                 "get_solver_health"}
           n == s.total
<1>1. Tally(f, s, 0, n) /\ Every(f, SolveActions \cup ChunkActions)
  BY SolvingTally
<1>2. /\ InOrder(p, 0, 3) /\ Some(p, Readers) /\ Some(p, {"initialize_solution"})
      /\ Every(p, {"start_transcript", "set_state", "initialize_solution",
                   "get_solver_health"} \cup Readers)
  BY OpeningInOrder
<1>3. Every(e, B)
  BY ClosingCalls
<1>4. IsSequence(p) /\ IsSequence(f) /\ IsSequence(e)
  BY <1>1, <1>2, <1>3 DEF Every
<1>5. Calls(s) = p \o (f \o e)
  BY <1>4, CallsInParts
<1>6. n \in Nat
  BY DEF SpecFormed
<1> HIDE DEF p, f, e, n
<1>7. InOrder(f, 4, 4)
  <2>1. \A a \in SolveActions \cup ChunkActions : Rank(a) \in {0, 4}
    BY DEF Rank, Readers, SolveActions, ChunkActions
  <2>. QED
    BY <1>1, <2>1, InOrderStage
<1>8. InOrder(e, 5, 5)
  <2>1. \A a \in B : Rank(a) \in {0, 5}
    BY DEF Rank, Readers, SolveActions
  <2>. QED
    BY <1>3, <2>1, InOrderStage
<1>9. Tally(p, s, 0, 0)
  <2>1. ({"start_transcript", "set_state", "initialize_solution", "get_solver_health"}
           \cup Readers)
           \cap (SolveActions \cup {Checkpoint}) = {}
    BY DEF Readers, SolveActions, Checkpoint
  <2>. QED
    BY <1>2, <2>1, TallyNothing
<1>10. Tally(e, s, n, n)
  <2>1. B \cap (SolveActions \cup {Checkpoint}) = {}
    BY DEF SolveActions, Checkpoint
  <2>. QED
    BY <1>3, <1>6, <2>1, TallyNothing
<1> DEFINE u == f \o e
           w == p \o u
<1>11. InOrder(u, 4, 5) /\ Tally(u, s, 0, n)
  <2>1. InOrder(u, 4, 5)
    BY <1>7, <1>8, InOrderConcat
  <2>2. Tally(u, s, 0, n)
    BY <1>1, <1>10, TallyConcat
  <2>. QED
    BY <2>1, <2>2
<1> HIDE DEF u
<1>12. InOrder(w, 0, 5) /\ Tally(w, s, 0, n)
  <2>1. InOrder(w, 0, 5)
    BY <1>2, <1>11, InOrderConcat
  <2>2. Tally(w, s, 0, n)
    BY <1>9, <1>11, TallyConcat
  <2>. QED
    BY <2>1, <2>2
<1>13. Some(w, Readers) /\ Some(w, {"initialize_solution"})
  <2>1. IsSequence(u)
    BY <1>11 DEF InOrder
  <2>. QED
    BY <1>2, <1>4, <2>1, SomeConcat
<1>14. Calls(s) = w
  BY <1>5 DEF u
<1> HIDE DEF w
<1>. QED
  BY <1>12, <1>13, <1>14 DEF n

-----------------------------------------------------------------------------
(***************************************************************************)
(* How far a run has got with its calls.                                   *)
(***************************************************************************)
LEMMA SequenceTail ==
  ASSUME NEW s, IsSequence(s), s # <<>>
  PROVE  /\ IsSequence(Tail(s)) /\ Len(Tail(s)) = Len(s) - 1 /\ Len(s) \in Nat \ {0}
         /\ Head(s) = s[1]
         /\ \A k \in 1 .. Len(s) - 1 : Tail(s)[k] = s[k + 1]
<1> DEFINE R == {s[k] : k \in DOMAIN s}
           t == Tail(s)
<1>1. s \in Seq(R)
  BY DEF IsSequence
<1> HIDE DEF R
<1>2. Len(s) \in Nat /\ Len(s) # 0
  BY <1>1, NothingInIt
<1>3. t \in Seq(R) /\ Len(t) = Len(s) - 1 /\ Head(s) = s[1]
      /\ \A k \in 1 .. Len(s) - 1 : t[k] = s[k + 1]
  BY <1>1, <1>2
<1> HIDE DEF t
<1>4. IsSequence(t)
  BY <1>3, SequenceIn
<1>. QED
  BY <1>2, <1>3, <1>4 DEF t

\* The calls made are the first of c, the calls ahead are the others.
Follows(c) ==
  /\ IsSequence(made) /\ IsSequence(ahead) /\ Len(made) + Len(ahead) = Len(c)
  /\ \A k \in 1 .. Len(made) : made[k].action = c[k].action
  /\ \A k \in 1 .. Len(ahead) : ahead[k] = c[Len(made) + k]

\* A call is in hand only where there is one ahead and it was let through.
Phase ==
  /\ document \in Documents
  /\ status \in {"submitted", "refused"} =>
       spec = NoSpec /\ made = <<>> /\ ahead = <<>> /\ requests = <<>>
  /\ status \notin {"submitted", "refused"} =>
       spec # NoSpec /\ SpecFormed(spec) /\ Follows(Calls(spec))
  /\ requests # <<>> => status = "queued" /\ ahead # <<>> /\ Verdict.ok
  /\ status = "succeeded" => ahead = <<>>

\* A spec is never mistaken for none.
LEMMA SpecIsOne ==
  ASSUME NEW s, SpecFormed(s)
  PROVE  s # NoSpec
BY DEF SpecFormed, NoSpec

LEMMA PhaseInit == Init => Phase
BY DEF Init, SessionInit, Phase

\* With a call done, the calls made are one more and the calls ahead one less.
LEMMA OneMore ==
  ASSUME NEW c, IsSequence(c), Follows(c), ahead # <<>>, NEW q
  PROVE  LET m == Append(made, Call(Head(ahead).action, q))
             t == Tail(ahead)
         IN /\ IsSequence(m) /\ IsSequence(t) /\ Len(m) = Len(made) + 1
            /\ Len(m) + Len(t) = Len(c) /\ Len(m) \in 1 .. Len(c)
            /\ Head(ahead) = c[Len(m)] /\ m[Len(m)] = Call(c[Len(m)].action, q)
            /\ \A k \in 1 .. Len(made) : m[k] = made[k]
            /\ \A k \in 1 .. Len(m) : m[k].action = c[k].action
            /\ \A k \in 1 .. Len(t) : t[k] = c[Len(m) + k]
<1> DEFINE e == Call(Head(ahead).action, q)
           m == Append(made, e)
           t == Tail(ahead)
           M == Len(made)
           N == Len(ahead)
<1>1. /\ IsSequence(made) /\ IsSequence(ahead) /\ M + N = Len(c)
      /\ \A k \in 1 .. M : made[k].action = c[k].action
      /\ \A k \in 1 .. N : ahead[k] = c[M + k]
  BY DEF Follows
<1>2. /\ IsSequence(m) /\ Len(m) = M + 1 /\ M \in Nat
      /\ \A k \in 1 .. M : m[k] = made[k]
      /\ m[M + 1] = e
  BY <1>1, SequenceAppend, SequenceDomain
<1>3. /\ IsSequence(t) /\ Len(t) = N - 1 /\ N \in Nat \ {0} /\ Head(ahead) = ahead[1]
      /\ \A k \in 1 .. N - 1 : t[k] = ahead[k + 1]
  BY <1>1, SequenceTail
<1>4. e.action = Head(ahead).action
  BY DEF Call
<1> DEFINE h == Head(ahead)
<1> HIDE DEF m, M, N, t, h
<1>5. h = c[M + 1]
  BY <1>1, <1>3 DEF h
<1>6. ASSUME NEW k \in 1 .. N - 1 PROVE t[k] = c[M + 1 + k]
  <2> DEFINE l == k + 1
  <2>1. l \in 1 .. N /\ M + l = M + 1 + k
    BY <1>2, <1>3
  <2>2. t[k] = ahead[l]
    BY <1>3
  <2> HIDE DEF l
  <2>. QED
    BY <1>1, <2>1, <2>2
<1>7. ASSUME NEW k \in 1 .. M + 1 PROVE m[k].action = c[k].action
  <2>1. CASE k \in 1 .. M
    BY <1>1, <1>2, <2>1
  <2>2. CASE k = M + 1
    BY <1>2, <1>4, <1>5, <2>2 DEF h
  <2>. QED
    BY <1>2, <2>1, <2>2
<1>8. m[M + 1] = Call(c[M + 1].action, q)
  BY <1>2, <1>5 DEF h
<1> HIDE DEF e
<1>. QED
  BY <1>1, <1>2, <1>3, <1>5, <1>6, <1>7, <1>8 DEF m, t, h, M, N, e

LEMMA PhaseNext == Phase /\ [Next]_vars => Phase'
<1> SUFFICES ASSUME Phase, [Next]_vars PROVE Phase'
  OBVIOUS
<1> USE DEF Phase
<1>1. CASE Accept
  <2>1. SpecFormed(spec')
    BY <1>1, LoadFormed DEF Accept
  <2>2. IsSequence(Calls(spec'))
    BY <2>1, CallsFormed DEF InOrder
  <2>3. Follows(Calls(spec))'
    <3>1. made' = <<>> /\ ahead' = Calls(spec')
      BY <1>1 DEF Accept
    <3> DEFINE c == Calls(spec')
    <3>2. IsSequence(c) /\ Len(c) \in Nat
      BY <2>2, SequenceDomain
    <3> HIDE DEF c
    <3>3. /\ IsSequence(made') /\ IsSequence(ahead') /\ Len(made') + Len(ahead') = Len(c)
          /\ \A k \in 1 .. Len(made') : made'[k].action = c[k].action
          /\ \A k \in 1 .. Len(ahead') : ahead'[k] = c[Len(made') + k]
      <4>1. made' = <<>> /\ ahead' = c
        BY <3>1 DEF c
      <4>2. \A k \in 1 .. Len(c) : Len(made') + k = k
        BY <3>2, <4>1, SequenceEmpty
      <4>. QED
        BY <3>2, <4>1, <4>2, SequenceEmpty
    <3>. QED
      BY <3>3 DEF Follows, c
  <2>4. spec' # NoSpec
    BY <2>1, SpecIsOne
  <2>5. /\ requests' = <<>> /\ status' = "queued" /\ document' = document
    BY <1>1 DEF Accept, productVars
  <2>. QED
    BY <2>1, <2>3, <2>4, <2>5
<1>2. CASE Refuse
  BY <1>2 DEF Refuse, productVars
<1>3. CASE Proceed
  BY <1>3 DEF Proceed, Execute, workVars, Verdict, Context, Follows
<1>4. CASE Progress
  <2>1. requests # <<>>
    BY <1>4 DEF Progress, Carry, Swallow
  <2>2. status = "queued" /\ ahead # <<>> /\ SpecFormed(spec) /\ Follows(Calls(spec))
          /\ spec # NoSpec
    BY <2>1
  <2>3. document' = document /\ status' = status /\ spec' = spec
    BY <1>4 DEF Progress
  <2>4. CASE requests' = <<>>
    <3>1. made' = Append(made, Call(Head(ahead).action, Verdict.params)) /\ ahead' = Tail(ahead)
      BY <1>4, <2>4 DEF Progress
    <3>2. Follows(Calls(spec))'
      <4> DEFINE c == Calls(spec)
      <4>1. IsSequence(c)
        BY <2>2, CallsFormed DEF InOrder
      <4> HIDE DEF c
      <4>2. Follows(c)
        BY <2>2 DEF c
      <4>3. /\ IsSequence(made') /\ IsSequence(ahead') /\ Len(made') + Len(ahead') = Len(c)
            /\ \A k \in 1 .. Len(made') : made'[k].action = c[k].action
            /\ \A k \in 1 .. Len(ahead') : ahead'[k] = c[Len(made') + k]
        BY <2>2, <3>1, <4>1, <4>2, OneMore
      <4>4. Calls(spec') = c
        BY <2>3 DEF c
      <4>. QED
        BY <4>3, <4>4 DEF Follows
    <3>. QED
      BY <2>2, <2>3, <2>4, <3>2
  <2>5. CASE requests' # <<>>
    <3>1. made' = made /\ ahead' = ahead
      BY <1>4, <2>5 DEF Progress
    <3>. QED
      BY <2>1, <2>2, <2>3, <3>1 DEF Verdict, Context, Follows
  <2>. QED
    BY <2>4, <2>5
<1>5. CASE Fail
  <2>1. /\ status = "queued" /\ status' = "failed" /\ requests' = <<>>
        /\ UNCHANGED <<document, spec, ahead, made>>
    BY <1>5 DEF Fail, Raise, productVars
  <2>. QED
    BY <2>1 DEF Follows
<1>6. CASE Succeed
  BY <1>6 DEF Succeed, productVars, Follows
<1>7. CASE UNCHANGED vars
  BY <1>7 DEF vars, workVars, productVars, Verdict, Context, Follows
<1>. QED
  BY <1>1, <1>2, <1>3, <1>4, <1>5, <1>6, <1>7 DEF Next

\* At every moment the solver is driven in the order a simulation needs: read, change,
\* initialize, solve, and only then export and write (DrivenInOrder): compile_program
\* puts the operations in that order and the worker makes the calls one after the other.
THEOREM OrderIsKept == Spec => []DrivenInOrder
<1>1. Phase => DrivenInOrder
  <2> SUFFICES ASSUME Phase PROVE DrivenInOrder
    OBVIOUS
  <2>1. CASE status \in {"submitted", "refused"}
    <3>1. made = <<>>
      BY <2>1 DEF Phase
    <3>2. \A A : Made(A) = {}
      BY <3>1 DEF Made
    <3>. QED
      BY <3>2 DEF DrivenInOrder, Before
  <2>2. CASE status \notin {"submitted", "refused"}
    <3> DEFINE c == Calls(spec)
    <3>1. SpecFormed(spec) /\ Follows(c)
      BY <2>2 DEF Phase
    <3>2. InOrder(c, 0, 5) /\ Some(c, Readers) /\ Some(c, {"initialize_solution"})
      BY <3>1, CallsFormed
    <3> HIDE DEF c
    <3>3. DOMAIN made = 1 .. Len(made) /\ Len(made) \in Nat /\ Len(made) <= Len(c)
            /\ Len(c) \in Nat
      BY <3>1, <3>2, SequenceDomain DEF Follows, InOrder
    <3>4. \A k \in 1 .. Len(made) : k \in 1 .. Len(c) /\ made[k].action = c[k].action
      BY <3>1, <3>3 DEF Follows
    <3>5. ASSUME NEW A, NEW B,
                 \A a \in A, b \in B : 0 < Rank(a) /\ Rank(a) < Rank(b)
          PROVE  Before(A, B)
      <4> SUFFICES ASSUME NEW j \in Made(A), NEW k \in Made(B) PROVE j < k
        BY DEF Before
      <4>1. j \in 1 .. Len(made) /\ k \in 1 .. Len(made) /\ made[j].action \in A
              /\ made[k].action \in B
        BY <3>3 DEF Made
      <4>2. 0 < Rank(c[j].action) /\ Rank(c[j].action) < Rank(c[k].action)
        BY <3>4, <3>5, <4>1
      <4>. QED
        BY <3>2, <3>4, <4>1, <4>2 DEF InOrder
    <3>6. Before(Readers, {"set_state", "initialize_solution"} \cup SolveActions)
      <4>1. \A a \in Readers, b \in {"set_state", "initialize_solution"} \cup SolveActions :
              0 < Rank(a) /\ Rank(a) < Rank(b)
        BY DEF Rank, Readers, SolveActions
      <4>. QED
        BY <3>5, <4>1
    <3>7. Before({"set_state"}, {"initialize_solution"})
      <4>1. \A a \in {"set_state"}, b \in {"initialize_solution"} :
              0 < Rank(a) /\ Rank(a) < Rank(b)
        BY DEF Rank, Readers, SolveActions
      <4>. QED
        BY <3>5, <4>1
    <3>8. Before({"initialize_solution"}, SolveActions)
      <4>1. \A a \in {"initialize_solution"}, b \in SolveActions :
              0 < Rank(a) /\ Rank(a) < Rank(b)
        BY DEF Rank, Readers, SolveActions
      <4>. QED
        BY <3>5, <4>1
    <3>9. Before(SolveActions \cup {"checkpoint_case_data"},
                 {"export_results", "write_case", "write_case_data"})
      <4>1. \A a \in SolveActions \cup {"checkpoint_case_data"},
               b \in {"export_results", "write_case", "write_case_data"} :
              0 < Rank(a) /\ Rank(a) < Rank(b)
        BY DEF Rank, Readers, SolveActions
      <4>. QED
        BY <3>5, <4>1
    <3>10. ASSUME NEW A, Some(c, A), Made(SolveActions) # {},
                  \A a \in A, b \in SolveActions : 0 < Rank(a) /\ Rank(a) < Rank(b)
           PROVE  Made(A) # {}
      <4>1. PICK k \in Made(SolveActions) : TRUE
        BY <3>10
      <4>2. k \in 1 .. Len(made) /\ made[k].action \in SolveActions
        BY <3>3 DEF Made
      <4>3. PICK j \in 1 .. Len(c) : c[j].action \in A
        BY <3>10 DEF Some
      <4>4. j < k
        BY <3>2, <3>4, <3>10, <4>2, <4>3 DEF InOrder
      <4>5. j \in 1 .. Len(made)
        BY <3>3, <4>2, <4>3, <4>4
      <4>. QED
        BY <3>3, <3>4, <4>3, <4>5 DEF Made
    <3>11. Made(SolveActions) # {} => Made(Readers) # {} /\ Made({"initialize_solution"}) # {}
      <4>1. /\ \A a \in Readers, b \in SolveActions : 0 < Rank(a) /\ Rank(a) < Rank(b)
            /\ \A a \in {"initialize_solution"}, b \in SolveActions :
                 0 < Rank(a) /\ Rank(a) < Rank(b)
        BY DEF Rank, Readers, SolveActions
      <4>. QED
        BY <3>2, <3>10, <4>1
    <3>. QED
      BY <3>6, <3>7, <3>8, <3>9, <3>11 DEF DrivenInOrder
  <2>. QED
    BY <2>1, <2>2
<1>2. Init => Phase
  BY PhaseInit
<1>3. Phase /\ [Next]_vars => Phase'
  BY PhaseNext
<1>. QED
  BY <1>1, <1>2, <1>3, PTL DEF Spec

-----------------------------------------------------------------------------
(***************************************************************************)
(* What the calls of a run are, one by one.                                *)
(***************************************************************************)
\* A file that is written once goes where the spec says.
Destined(e, s) ==
  LET f == e.params.file_name
      o == s.outputs
  IN /\ e.action = "start_transcript" => f = OutputFile(o.transcript.file, "transcript")
     /\ e.action = "write_case" => f = OutputFile(o.final_case.file, "final")
     /\ e.action = "write_case_data" => f = OutputFile(o.final_case_data.file, "final-data")

\* A call of the run of s, with its parameters.
FormedCall(e, s) ==
  \/ /\ e.action \in Readers \cup Writers /\ e.params = [file_name |-> e.params.file_name]
     /\ Destined(e, s)
  \/ /\ e.action = "set_state" /\ e.params.path.t = "str"
     /\ e.params = [path |-> e.params.path, state |-> None]
  \/ e.action = "initialize_solution" /\ e.params = [method |-> s.method]
  \/ /\ e.action = Solve(s).action
     /\ \E n \in Nat \ {0} : e.params = IF s.workflow = "steady" THEN [count |-> Whole(n)]
                                        ELSE Over([step_count |-> Whole(n)], Solve(s).params)
  \/ /\ e.action = "collect_reports" /\ s.outputs.reports # <<>>
     /\ e.params = [reports |-> List(s.outputs.reports)]
  \/ /\ e.action = "export_results" /\ s.outputs.images # <<>>
     /\ e.params = [images |-> Images(s.outputs.images)]
  \/ e.action = "get_solver_health" /\ e.params = <<>>

\* The calls of c are.
FormedCalls(c, s) == IsSequence(c) /\ \A k \in 1 .. Len(c) : FormedCall(c[k], s)

LEMMA HealthFormed == \A s : FormedCall(Health, s)
BY DEF FormedCall, Health, Call

LEMMA FormedNone ==
  ASSUME NEW s
  PROVE  FormedCalls(<<>>, s)
BY SequenceEmpty DEF FormedCalls

LEMMA FormedIf ==
  ASSUME NEW s, NEW b, NEW e, b => FormedCall(e, s)
  PROVE  FormedCalls(If(b, e), s)
<1>1. CASE b
  <2> DEFINE c == <<e>>
  <2>1. IsSequence(c) /\ Len(c) = 1 /\ c[1] = e
    BY SequenceOne
  <2>2. If(b, e) = c
    BY <1>1 DEF If
  <2> HIDE DEF c
  <2>3. \A k \in 1 .. 1 : c[k] = e
    BY <2>1
  <2>. QED
    BY <1>1, <2>1, <2>2, <2>3 DEF FormedCalls
<1>2. CASE ~b
  BY <1>2, FormedNone DEF If
<1>. QED
  BY <1>1, <1>2

LEMMA FormedConcat ==
  ASSUME NEW s, NEW a, NEW b, FormedCalls(a, s), FormedCalls(b, s)
  PROVE  FormedCalls(a \o b, s)
<1> DEFINE c == a \o b
<1>1. /\ IsSequence(c) /\ Len(c) = Len(a) + Len(b)
      /\ \A k \in 1 .. Len(a) : c[k] = a[k]
      /\ \A k \in 1 .. Len(a) + Len(b) :
           k \notin 1 .. Len(a) => k - Len(a) \in 1 .. Len(b) /\ c[k] = b[k - Len(a)]
  BY ConcatParts DEF FormedCalls
<1> HIDE DEF c
<1>2. FormedCalls(c, s)
  BY <1>1 DEF FormedCalls
<1>. QED
  BY <1>2 DEF c

\* Rows of such calls make such calls.
LEMMA FormedFlat ==
  ASSUME NEW s, NEW r, IsSequence(r), \A k \in 1 .. Len(r) : FormedCalls(r[k], s)
  PROVE  FormedCalls(FlattenSeq(r), s)
<1> DEFINE g == FlattenSeq(r)
<1>1. AllSequences(r)
  BY DEF AllSequences, FormedCalls
<1>2. IsSequence(g) /\ \A k \in 1 .. Len(g) : \E i \in 1 .. Len(r) : \E j \in 1 .. Len(r[i]) :
                         g[k] = r[i][j]
  BY <1>1, FlattenElements
<1> HIDE DEF g
<1>3. FormedCalls(g, s)
  BY <1>2 DEF FormedCalls
<1>. QED
  BY <1>3 DEF g

\* An operation that is done once.
LEMMA FormedOnce ==
  ASSUME NEW s, NEW op, op.mode = "once", FormedCall(op, s)
  PROVE  FormedCalls(OperationCalls(op), s)
<1> DEFINE x == Call(op.action, op.params)
           c == <<x, Health>>
<1>1. x.action = op.action /\ x.params = op.params
  BY DEF Call
<1>2. OperationCalls(op) = c
  BY DEF OperationCalls
<1> HIDE DEF x
<1>3. FormedCall(x, s) /\ FormedCall(Health, s)
  <2>1. FormedCall(x, s)
    BY <1>1 DEF FormedCall, Destined
  <2>. QED
    BY <2>1, HealthFormed
<1>4. c \in Seq({x, Health}) /\ Len(c) = 2 /\ c[1] = x /\ c[2] = Health
  OBVIOUS
<1> HIDE DEF c
<1>5. FormedCalls(c, s)
  BY <1>3, <1>4, SequenceIn DEF FormedCalls
<1>. QED
  BY <1>2, <1>5

\* Operations that are done once, one after the other.
LEMMA FormedAll ==
  ASSUME NEW s, NEW ops, IsSequence(ops),
         \A k \in 1 .. Len(ops) : ops[k].mode = "once" /\ FormedCall(ops[k], s)
  PROVE  Operations(ops) /\ FormedCalls(CallsOf(ops), s)
<1> DEFINE r == [k \in DOMAIN ops |-> OperationCalls(ops[k])]
<1>1. \A k \in 1 .. Len(ops) : FormedCalls(OperationCalls(ops[k]), s)
  BY FormedOnce
<1>2. Operations(ops)
  BY <1>1 DEF Operations, FormedCalls
<1>3. /\ IsSequence(r) /\ Len(r) = Len(ops)
      /\ \A k \in 1 .. Len(ops) : r[k] = OperationCalls(ops[k])
  BY <1>2, CallsRow DEF AllSequences
<1> HIDE DEF r
<1>4. FormedCalls(FlattenSeq(r), s)
  BY <1>1, <1>3, FormedFlat
<1>. QED
  BY <1>2, <1>4 DEF CallsOf, r

\* An operation that may be left out.
LEMMA FormedMaybe ==
  ASSUME NEW s, NEW b, NEW op, op.mode = "once", b => FormedCall(op, s)
  PROVE  Operations(If(b, op)) /\ FormedCalls(CallsOf(If(b, op)), s)
<1> DEFINE ops == If(b, op)
<1>1. IsSequence(ops)
  BY SequenceOne, SequenceEmpty DEF If
<1>2. ASSUME NEW k \in 1 .. Len(ops) PROVE ops[k].mode = "once" /\ FormedCall(ops[k], s)
  <2>1. b
    BY SequenceEmpty DEF If
  <2>2. ops = <<op>>
    BY <2>1 DEF If
  <2>3. ops[k] = op
    BY <2>2, SequenceOne
  <2>. QED
    BY <2>1, <2>3
<1> HIDE DEF ops
<1>3. Operations(ops) /\ FormedCalls(CallsOf(ops), s)
  BY <1>1, <1>2, FormedAll
<1>. QED
  BY <1>3 DEF ops

\* The changes of a spec.
LEMMA FormedChanges ==
  ASSUME NEW s, SpecFormed(s)
  PROVE  FormedCalls(CallsOf(Changes(s.sections)), s)
<1> DEFINE blocks == s.sections
           ops == Changes(blocks)
           r == [k \in DOMAIN blocks |-> BlockChanges(blocks[k])]
<1>1. /\ DOMAIN blocks = 1 .. Len(blocks) /\ Len(blocks) \in Nat
      /\ \A k \in 1 .. Len(blocks) : /\ IsSequence(blocks[k].paths)
                                      /\ \A n \in 1 .. Len(blocks[k].paths) :
                                           blocks[k].paths[n].t = "str"
  BY SequenceDomain DEF SpecFormed, SpecSound
<1>2. ASSUME NEW k \in 1 .. Len(blocks)
      PROVE  /\ IsSequence(BlockChanges(blocks[k]))
             /\ \A n \in 1 .. Len(BlockChanges(blocks[k])) :
                  /\ BlockChanges(blocks[k])[n].mode = "once"
                  /\ FormedCall(BlockChanges(blocks[k])[n], s)
  <2> DEFINE p == blocks[k].paths
             b == BlockChanges(blocks[k])
             e(n) == Once("change", "set_state", [path |-> p[n], state |-> None])
  <2>1. DOMAIN p = 1 .. Len(p) /\ Len(p) \in Nat
    BY <1>1, SequenceDomain
  <2>2. \A n \in 1 .. Len(p) : e(n).mode = "once" /\ FormedCall(e(n), s)
    <3> SUFFICES ASSUME NEW n \in 1 .. Len(p) PROVE e(n).mode = "once" /\ FormedCall(e(n), s)
      OBVIOUS
    <3>1. p[n].t = "str"
      BY <1>1
    <3> DEFINE v == p[n]
               x == e(n)
    <3>2. /\ x.mode = "once" /\ x.action = "set_state"
          /\ x.params = [path |-> v, state |-> None]
      BY DEF Once
    <3> HIDE DEF v, x
    <3>3. x.params.path = v
      BY <3>2
    <3>4. FormedCall(x, s)
      BY <3>1, <3>2, <3>3 DEF FormedCall, v
    <3>. QED
      BY <3>2, <3>4 DEF x
  <2>3. b = [n \in DOMAIN p |-> e(n)]
    BY DEF BlockChanges
  <2> HIDE DEF p, b, e
  <2>4. b = [n \in 1 .. Len(p) |-> b[n]] /\ \A n \in 1 .. Len(p) : b[n] = e(n)
    BY <2>1, <2>3
  <2>5. IsSequence(b) /\ Len(b) = Len(p)
    BY <2>1, <2>4, SequenceOf
  <2>6. \A n \in 1 .. Len(b) : b[n].mode = "once" /\ FormedCall(b[n], s)
    BY <2>2, <2>4, <2>5
  <2>. QED
    BY <2>5, <2>6 DEF b
<1>3. /\ AllSequences(r) /\ Len(r) = Len(blocks)
      /\ \A k \in 1 .. Len(r) : r[k] = BlockChanges(blocks[k])
  <2> HIDE DEF BlockChanges, blocks
  <2>1. /\ r = [k \in 1 .. Len(blocks) |-> r[k]]
        /\ \A k \in 1 .. Len(blocks) : r[k] = BlockChanges(blocks[k])
    BY <1>1
  <2> HIDE DEF r
  <2>2. IsSequence(r) /\ Len(r) = Len(blocks)
    BY <1>1, <2>1, SequenceOf
  <2>. QED
    BY <1>2, <2>1, <2>2 DEF AllSequences
<1>4. ops = FlattenSeq(r)
  BY DEF Changes
<1> HIDE DEF r, ops
<1>5. /\ IsSequence(ops)
      /\ \A k \in 1 .. Len(ops) : \E i \in 1 .. Len(r) : \E j \in 1 .. Len(r[i]) :
           ops[k] = r[i][j]
  BY <1>3, <1>4, FlattenElements
<1>6. ASSUME NEW k \in 1 .. Len(ops) PROVE ops[k].mode = "once" /\ FormedCall(ops[k], s)
  <2>1. PICK i \in 1 .. Len(r) : \E j \in 1 .. Len(r[i]) : ops[k] = r[i][j]
    BY <1>5
  <2>2. i \in 1 .. Len(blocks) /\ r[i] = BlockChanges(blocks[i])
    BY <1>3
  <2>. QED
    BY <1>2, <2>1, <2>2
<1>7. FormedCalls(CallsOf(ops), s)
  BY <1>5, <1>6, FormedAll
<1>. QED
  BY <1>7 DEF ops

\* What comes before the solving.
LEMMA FormedOpening ==
  ASSUME NEW s, SpecFormed(s)
  PROVE  FormedCalls(Opening(s), s)
<1> DEFINE t == TranscriptCalls(s)
           r == CallsOf(<<Read(s)>>)
           h == CallsOf(Changes(s.sections))
           i == CallsOf(<<Initialize(s)>>)
<1>1. FormedCalls(t, s)
  <2> DEFINE f == OutputFile(s.outputs.transcript.file, "transcript")
             e == Call("start_transcript", [file_name |-> f])
  <2>1. e.action = "start_transcript" /\ e.params = [file_name |-> f]
    BY DEF Call
  <2>2. t = If(s.outputs.transcript.enabled, e)
    BY DEF TranscriptCalls
  <2>3. FormedCall(e, s)
    <3>1. PICK g : g = f
      OBVIOUS
    <3> HIDE DEF e
    <3>. QED
      BY <2>1, <3>1 DEF FormedCall, Writers, Destined
  <2> HIDE DEF e, f
  <2>. QED
    BY <2>2, <2>3, FormedIf
<1>2. FormedCalls(r, s)
  <2> DEFINE op == Read(s)
  <2>1. /\ op.mode = "once" /\ op.action \in Readers
        /\ op.params = [file_name |-> s.path]
    BY DEF Read, Once, Reader, SpecFormed, Readers
  <2> HIDE DEF op
  <2>2. FormedCall(op, s)
    BY <2>1 DEF FormedCall, Destined, Readers
  <2>3. FormedCalls(OperationCalls(op), s)
    BY <2>1, <2>2, FormedOnce
  <2>. QED
    BY <2>3, CallsOfOne DEF FormedCalls, op
<1>3. FormedCalls(i, s)
  <2> DEFINE op == Initialize(s)
  <2>1. /\ op.mode = "once" /\ op.action = "initialize_solution"
        /\ op.params = [method |-> s.method]
    BY DEF Initialize, Once
  <2> HIDE DEF op
  <2>2. FormedCall(op, s)
    BY <2>1 DEF FormedCall
  <2>3. FormedCalls(OperationCalls(op), s)
    BY <2>1, <2>2, FormedOnce
  <2>. QED
    BY <2>3, CallsOfOne DEF FormedCalls, op
<1>4. FormedCalls(h, s)
  BY FormedChanges
<1>5. Opening(s) = t \o ((r \o h) \o i)
  BY DEF Opening
<1> HIDE DEF t, r, h, i
<1> DEFINE u == r \o h
           v == u \o i
           w == t \o v
<1>6. FormedCalls(u, s)
  BY <1>2, <1>4, FormedConcat
<1> HIDE DEF u
<1>7. FormedCalls(v, s)
  BY <1>3, <1>6, FormedConcat
<1> HIDE DEF v
<1>8. FormedCalls(w, s)
  BY <1>1, <1>7, FormedConcat
<1>9. Opening(s) = w
  BY <1>5 DEF u, v
<1> HIDE DEF w
<1>. QED
  BY <1>8, <1>9

\* The solving, chunk by chunk.
LEMMA FormedSolving ==
  ASSUME NEW s, SpecFormed(s)
  PROVE  FormedCalls(Solving(s), s)
<1> DEFINE op == Solve(s)
<1>1. /\ op.total \in Nat \ {0} /\ op.chunk \in Nat \ {0} /\ op.mode # "once"
      /\ op.mode = "iterations" <=> s.workflow = "steady"
  BY SolveFormed
<1>2. op.reports = s.outputs.reports
  BY DEF Solve
<1>3. PICK N \in Nat \ {0} :
        /\ Chunks(op) = 1 .. N
        /\ \A k \in 1 .. N : Completed(op, k) - Completed(op, k - 1) \in 1 .. op.chunk
  BY <1>1, ChunksCount
<1> DEFINE r == [k \in Chunks(op) |-> ChunkCalls(op, k)]
<1>4. Solving(s) = FlattenSeq(r)
  BY <1>1 DEF Solving, OperationCalls
<1>5. r = [k \in 1 .. N |-> r[k]] /\ \A k \in 1 .. N : r[k] = ChunkCalls(op, k)
  BY <1>3
<1> HIDE DEF r, op
<1>6. IsSequence(r) /\ Len(r) = N
  BY <1>3, <1>5, SequenceOf
<1>7. ASSUME NEW k \in 1 .. N PROVE FormedCalls(r[k], s)
  <2> DEFINE n == Completed(op, k) - Completed(op, k - 1)
             x == SolveCall(op, k)
             i == If(TRUE, x)
             y == Call("collect_reports", [reports |-> List(op.reports)])
             a == If(op.reports # <<>>, y)
             h == If(TRUE, Health)
             f == CheckpointFile(op, k)
             z == Call("checkpoint_case_data", [file_name |-> f])
             q == If(CheckpointDue(op, k), z)
  <2>1. FormedCall(x, s)
    <3>1. n \in Nat \ {0}
      BY <1>1, <1>3
    <3>2. x = Call(op.action, IF op.mode = "iterations" THEN [count |-> Whole(n)]
                              ELSE Over([step_count |-> Whole(n)], op.params))
      BY DEF SolveCall
    <3> HIDE DEF n, x
    <3>3. /\ x.action = op.action
          /\ x.params = IF s.workflow = "steady" THEN [count |-> Whole(n)]
                        ELSE Over([step_count |-> Whole(n)], op.params)
      BY <1>1, <3>2 DEF Call
    <3>. QED
      BY <3>1, <3>3 DEF FormedCall, op
  <2>2. op.reports # <<>> => FormedCall(y, s)
    <3>1. y.action = "collect_reports" /\ y.params = [reports |-> List(op.reports)]
      BY DEF Call
    <3> HIDE DEF y
    <3>. QED
      BY <1>2, <3>1 DEF FormedCall
  <2>3. FormedCall(z, s)
    <3>1. z.action = "checkpoint_case_data" /\ z.params = [file_name |-> f]
      BY DEF Call
    <3> HIDE DEF z, f
    <3>. QED
      BY <3>1 DEF FormedCall, Writers, Destined
  <2>4. ChunkCalls(op, k) = ((i \o a) \o h) \o q
    BY DEF ChunkCalls, If
  <2> HIDE DEF x, y, z
  <2>5. FormedCalls(i, s) /\ FormedCalls(a, s) /\ FormedCalls(h, s) /\ FormedCalls(q, s)
    BY <2>1, <2>2, <2>3, HealthFormed, FormedIf
  <2> HIDE DEF i, a, h, q
  <2> DEFINE u == i \o a
             v == u \o h
             w == v \o q
  <2>6. FormedCalls(u, s)
    BY <2>5, FormedConcat
  <2> HIDE DEF u
  <2>7. FormedCalls(v, s)
    BY <2>5, <2>6, FormedConcat
  <2> HIDE DEF v
  <2>8. FormedCalls(w, s)
    BY <2>5, <2>7, FormedConcat
  <2>9. r[k] = w
    BY <1>5, <2>4 DEF u, v
  <2> HIDE DEF w
  <2>. QED
    BY <2>8, <2>9
<1>. QED
  BY <1>4, <1>6, <1>7, FormedFlat

\* What comes after the solving.
LEMMA FormedClosing ==
  ASSUME NEW s, SpecFormed(s)
  PROVE  FormedCalls(Closing(s), s)
<1> DEFINE o == s.outputs
           f == OutputFile(o.final_case.file, "final")
           g == OutputFile(o.final_case_data.file, "final-data")
           oa == Once("report", "collect_reports", [reports |-> List(o.reports)])
           ob == Once("report", "export_results", [images |-> Images(o.images)])
           oc == Once("write", "write_case", [file_name |-> f])
           od == Once("write", "write_case_data", [file_name |-> g])
           a == If(o.reports # <<>>, oa)
           b == If(o.images # <<>>, ob)
           c == If(o.final_case.enabled, oc)
           d == If(o.final_case_data.enabled, od)
<1>1. \A phase, action, params : /\ Once(phase, action, params).mode = "once"
                                 /\ Once(phase, action, params).action = action
                                 /\ Once(phase, action, params).params = params
  BY DEF Once
<1>2. o.reports # <<>> => FormedCall(oa, s)
  BY <1>1 DEF FormedCall
<1>3. o.images # <<>> => FormedCall(ob, s)
  BY <1>1 DEF FormedCall
<1>4. FormedCall(oc, s) /\ FormedCall(od, s)
  <2>1. /\ oc.action = "write_case" /\ oc.params = [file_name |-> f]
        /\ od.action = "write_case_data" /\ od.params = [file_name |-> g]
    BY <1>1
  <2>2. f = OutputFile(s.outputs.final_case.file, "final")
        /\ g = OutputFile(s.outputs.final_case_data.file, "final-data")
    OBVIOUS
  <2> HIDE DEF oc, od, f, g
  <2>. QED
    BY <2>1, <2>2 DEF FormedCall, Writers, Destined
<1>5. oa.mode = "once" /\ ob.mode = "once" /\ oc.mode = "once" /\ od.mode = "once"
  BY <1>1
<1>6. ReportOps(o) = a \o b /\ Writes(o) = c \o d
  BY DEF ReportOps, Writes
<1> HIDE DEF oa, ob, oc, od
<1>7. /\ Operations(a) /\ FormedCalls(CallsOf(a), s)
      /\ Operations(b) /\ FormedCalls(CallsOf(b), s)
      /\ Operations(c) /\ FormedCalls(CallsOf(c), s)
      /\ Operations(d) /\ FormedCalls(CallsOf(d), s)
  BY <1>2, <1>3, <1>4, <1>5, FormedMaybe
<1> HIDE DEF a, b, c, d
<1>8. CallsOf(a \o b) = CallsOf(a) \o CallsOf(b) /\ CallsOf(c \o d) = CallsOf(c) \o CallsOf(d)
  BY <1>7, CallsOfBoth
<1>9. FormedCalls(CallsOf(a \o b), s) /\ FormedCalls(CallsOf(c \o d), s)
  BY <1>7, <1>8, FormedConcat
<1>10. FormedCalls(CallsOf(a \o b) \o CallsOf(c \o d), s)
  BY <1>9, FormedConcat
<1>. QED
  BY <1>6, <1>10 DEF Closing

\* The calls of a run.
LEMMA AllFormed ==
  ASSUME NEW s, SpecFormed(s)
  PROVE  FormedCalls(Calls(s), s)
<1> DEFINE p == Opening(s)
           f == Solving(s)
           e == Closing(s)
<1>1. FormedCalls(p, s) /\ FormedCalls(f, s) /\ FormedCalls(e, s)
  BY FormedOpening, FormedSolving, FormedClosing
<1>2. Calls(s) = p \o (f \o e)
  BY <1>1, CallsInParts DEF FormedCalls
<1> HIDE DEF p, f, e
<1> DEFINE u == f \o e
           w == p \o u
<1>3. FormedCalls(u, s)
  BY <1>1, FormedConcat
<1> HIDE DEF u
<1>4. FormedCalls(w, s)
  BY <1>1, <1>3, FormedConcat
<1>5. Calls(s) = w
  BY <1>2 DEF u
<1> HIDE DEF w
<1>. QED
  BY <1>4, <1>5

(***************************************************************************)
(* What the calls that do not solve ask of the product.                    *)
(***************************************************************************)
\* Requests that have the product neither solve nor change its step.
Quiet(r) == IsSequence(r) /\ \A k \in 1 .. Len(r) : r[k].op \notin {"solve", "set_size"}

LEMMA QuietOne ==
  ASSUME NEW e, e.op \notin {"solve", "set_size"}
  PROVE  Quiet(<<e>>) /\ Quiet(<<>>)
<1> DEFINE one == <<e>>
<1>1. IsSequence(one) /\ Len(one) = 1 /\ one[1] = e
  BY SequenceOne
<1> HIDE DEF one
<1>2. Quiet(one)
  BY <1>1 DEF Quiet
<1>. QED
  BY <1>2, SequenceEmpty DEF Quiet, one

LEMMA QuietConcat ==
  ASSUME NEW a, NEW b, Quiet(a), Quiet(b)
  PROVE  Quiet(a \o b)
<1> DEFINE c == a \o b
<1>1. /\ IsSequence(c) /\ Len(c) = Len(a) + Len(b)
      /\ \A k \in 1 .. Len(a) : c[k] = a[k]
      /\ \A k \in 1 .. Len(a) + Len(b) :
           k \notin 1 .. Len(a) => k - Len(a) \in 1 .. Len(b) /\ c[k] = b[k - Len(a)]
  BY ConcatParts DEF Quiet
<1> HIDE DEF c
<1>2. Quiet(c)
  BY <1>1 DEF Quiet
<1>. QED
  BY <1>2 DEF c

LEMMA QuietImage ==
  ASSUME NEW image
  PROVE  Quiet(ImageRequests(image))
<1>1. \A op, with : Request(op, with).op = op
  BY DEF Request
<1>2. \A op, with : Tried(op, with).op = op
  BY DEF Request, Tried
<1>3. ASSUME NEW fields, NEW op, NEW with, op \notin {"solve", "set_size"}
      PROVE  Quiet(Given(fields, op, with))
  <2>1. CASE fields = <<>>
    BY <1>1, <2>1, QuietOne, SequenceEmpty DEF Given, Quiet
  <2>2. CASE fields # <<>>
    BY <1>1, <1>3, <2>2, QuietOne DEF Given
  <2>. QED
    BY <2>1, <2>2
<1>4. ASSUME NEW c PROVE Quiet(ContourRequests(c))
  <2> DEFINE x == Tried("create", c.object_name)
             y == Request("find", c.object_name)
             a == <<x, y>>
             b == Given(c.state.fields, "set_contour", c)
             d == <<Request("display", c.object_name)>>
  <2>1. Quiet(a)
    <3>1. x.op = "create" /\ y.op = "find"
      BY <1>1, <1>2
    <3> HIDE DEF x, y
    <3>2. a \in Seq({x, y}) /\ Len(a) = 2 /\ a[1] = x /\ a[2] = y
      OBVIOUS
    <3> HIDE DEF a
    <3>. QED
      BY <3>1, <3>2, SequenceIn DEF Quiet
  <2>2. Quiet(b)
    BY <1>3
  <2>3. Quiet(d)
    BY <1>1, QuietOne
  <2>4. ContourRequests(c) = (a \o b) \o d
    BY DEF ContourRequests
  <2> HIDE DEF a, b, d
  <2> DEFINE u == a \o b
             w == u \o d
  <2>5. Quiet(u)
    BY <2>1, <2>2, QuietConcat
  <2> HIDE DEF u
  <2>6. Quiet(w)
    BY <2>3, <2>5, QuietConcat
  <2>7. ContourRequests(c) = w
    BY <2>4 DEF u
  <2> HIDE DEF w
  <2>. QED
    BY <2>6, <2>7
<1> DEFINE a == IF "contour" \in DOMAIN image THEN ContourRequests(image.contour.fields) ELSE <<>>
           b == Given(image.picture_state.fields, "set_picture", image.picture_state.fields)
           d == <<Request("save", image.file_name)>>
<1>5. Quiet(a)
  <2>1. Quiet(<<>>)
    BY SequenceEmpty DEF Quiet
  <2>. QED
    BY <1>4, <2>1
<1>6. Quiet(b)
  BY <1>3
<1>7. Quiet(d)
  BY <1>1, QuietOne
<1>8. ImageRequests(image) = (a \o b) \o d
  BY DEF ImageRequests
<1> HIDE DEF a, b, d
<1> DEFINE u == a \o b
           w == u \o d
<1>9. Quiet(u)
  BY <1>5, <1>6, QuietConcat
<1> HIDE DEF u
<1>10. Quiet(w)
  BY <1>7, <1>9, QuietConcat
<1>11. ImageRequests(image) = w
  BY <1>8 DEF u
<1> HIDE DEF w
<1>. QED
  BY <1>10, <1>11

\* Parameters that are no paths reach the product as they were given.
LEMMA ValuesStay ==
  ASSUME NEW a, a \notin FileActions, NEW p, NEW x, Entitled(a, x), FieldsOk(a, p, x)
  PROVE  LET v == FieldValues(a, p, x)
         IN DOMAIN v = DOMAIN p /\ \A n \in DOMAIN p : v[n] = p[n]
<1>1. \A n \in DOMAIN Parameters[a] : Parameters[a][n].kind # "path"
  BY PathsOnlyInFiles
<1>2. DOMAIN p \subseteq DOMAIN Parameters[a]
  BY DEF FieldsOk
<1>. QED
  BY <1>1, <1>2 DEF FieldValues, FieldValue

LEMMA QuietRequests ==
  ASSUME NEW s, SpecFormed(s), NEW e, FormedCall(e, s), e.action \notin SolveActions,
         NEW x, NEW q,
         PrepareAction(e.action, e.params, x) = Accepted(q)
  PROVE  Quiet(Requests(e.action, q))
<1> DEFINE p == e.params
           v == FieldValues(e.action, p, x)
<1>1. /\ Entitled(e.action, x) /\ FieldsOk(e.action, p, x)
      /\ q = Rewritten(e.action, v, x)
  BY Accepting
<1>2. \A op, with : Request(op, with).op = op
  BY DEF Request
<1>3. CASE e.action = "collect_reports"
  <2>1. "reports" \in DOMAIN p /\ IsSequence(p.reports.items)
    <3>1. p = [reports |-> List(s.outputs.reports)]
      BY <1>3 DEF FormedCall, Readers, Writers, Solve
    <3>. QED
      BY <3>1 DEF List, SpecFormed
  <2>2. v.reports = p.reports
    BY <1>1, <1>3, <2>1, ValuesStay DEF FileActions
  <2>3. q = v
    BY <1>1, <1>3 DEF Rewritten
  <2> DEFINE items == p.reports.items
             r == [k \in DOMAIN items |-> Request("report", items[k].fields.name)]
  <2>4. Requests(e.action, q) = r
    BY <1>3, <2>2, <2>3 DEF Requests
  <2>5. DOMAIN items = 1 .. Len(items) /\ Len(items) \in Nat
    BY SMTT(60), <2>1, SequenceDomain
  <2>6. r = [k \in 1 .. Len(items) |-> r[k]] /\ \A k \in 1 .. Len(items) : r[k].op = "report"
    BY <1>2, <2>5
  <2> HIDE DEF r, items
  <2>7. IsSequence(r) /\ Len(r) = Len(items)
    BY <2>5, <2>6, SequenceOf
  <2>8. Quiet(r)
    BY <2>6, <2>7 DEF Quiet
  <2>. QED
    BY <2>4, <2>8
<1>4. CASE e.action = "export_results"
  <2>1. "images" \in DOMAIN p /\ IsSequence(p.images.items)
    <3>1. p = [images |-> Images(s.outputs.images)]
      BY <1>4 DEF FormedCall, Readers, Writers, Solve
    <3> DEFINE m == s.outputs.images
               g == [k \in DOMAIN m |->
                       Dict([m[k] EXCEPT !.file_name = OutputFile(@, "picture")])]
    <3>2. Images(m).items = g
      BY DEF Images, List
    <3>3. DOMAIN m = 1 .. Len(m) /\ Len(m) \in Nat
      BY SequenceDomain DEF SpecFormed
    <3>4. g = [k \in 1 .. Len(m) |-> g[k]]
      BY <3>3
    <3> HIDE DEF g, m
    <3>5. IsSequence(g)
      BY <3>3, <3>4, SequenceOf
    <3>. QED
      BY <3>1, <3>2, <3>5 DEF m
  <2>2. v.images = p.images /\ "images" \in DOMAIN v
    BY <1>1, <1>4, <2>1, ValuesStay DEF FileActions
  <2>3. q = [v EXCEPT !.images = ImagesInside(@, x)]
    BY <1>1, <1>4 DEF Rewritten
  <2> HIDE DEF v, p
  <2>4. q.images = ImagesInside(p.images, x)
    BY <2>2, <2>3
  <2> DEFINE given == p.images.items
             items == q.images.items
             r == [k \in DOMAIN items |-> ImageRequests(items[k].fields)]
  <2>5. DOMAIN given = 1 .. Len(given) /\ Len(given) \in Nat
    BY <2>1, SequenceDomain
  <2>6. DOMAIN items = DOMAIN given
    BY <2>4 DEF ImagesInside, List
  <2>7. Requests(e.action, q) = FlattenSeq(r)
    BY <1>4 DEF Requests
  <2> DEFINE n == Len(given)
  <2>8. r = [k \in 1 .. n |-> r[k]] /\ \A k \in 1 .. n : r[k] = ImageRequests(items[k].fields)
    BY <2>5, <2>6
  <2>9. n \in Nat
    BY <2>5
  <2> HIDE DEF r, items, given, n
  <2>10. IsSequence(r) /\ Len(r) = n
    BY <2>8, <2>9, SequenceOf
  <2>11. \A k \in 1 .. Len(r) : Quiet(r[k])
    BY <2>8, <2>10, QuietImage
  <2>12. AllSequences(r)
    BY <2>10, <2>11 DEF AllSequences, Quiet
  <2> DEFINE f == FlattenSeq(r)
  <2>13. IsSequence(f) /\ \A k \in 1 .. Len(f) : \E i \in 1 .. Len(r) : \E j \in 1 .. Len(r[i]) :
                            f[k] = r[i][j]
    BY <2>12, FlattenElements
  <2> HIDE DEF f
  <2>14. Quiet(f)
    BY <2>11, <2>13 DEF Quiet
  <2>. QED
    BY <2>7, <2>14 DEF f
<1>5. CASE e.action = "get_solver_health"
  <2> DEFINE y == Request("state", None)
             z == Tried("report", None)
             a == <<y, z>>
  <2>1. y.op = "state" /\ z.op = "report"
    BY DEF Request, Tried
  <2>2. Requests(e.action, q) = a
    BY <1>5 DEF Requests
  <2> HIDE DEF y, z
  <2>3. a \in Seq({y, z}) /\ Len(a) = 2 /\ a[1] = y /\ a[2] = z
    OBVIOUS
  <2> HIDE DEF a
  <2>. QED
    BY <2>1, <2>2, <2>3, SequenceIn DEF Quiet
<1>6. CASE e.action \in {"write_case", "write_case_data", "write_data", "checkpoint_case_data"}
  <2>1. Requests(e.action, q) = <<Request("write", q.file_name)>>
    BY <1>6 DEF Requests
  <2>. QED
    BY <1>2, <2>1, QuietOne
<1>7. CASE e.action \notin {"collect_reports", "export_results", "get_solver_health",
                            "write_case", "write_case_data", "write_data", "checkpoint_case_data"}
  <2>1. Requests(e.action, q) = <<Request(e.action, q)>>
    BY <1>7 DEF Requests, SolveActions
  <2>2. e.action \notin {"solve", "set_size"}
    BY DEF FormedCall, Readers, Writers, Solve
  <2>. QED
    BY <1>2, <2>1, <2>2, QuietOne
<1>. QED
  BY <1>3, <1>4, <1>5, <1>6, <1>7

\* A call that solves asks for what it was to solve, in steps of the size it was given.
LEMMA SolveRequests ==
  ASSUME NEW s, SpecFormed(s), NEW e, Solves(e, s), NEW x, NEW q,
         PrepareAction(e.action, e.params, x) = Accepted(q)
  PROVE  /\ SizeOf(Call(e.action, q)) = SizeOf(e)
         /\ Requests(e.action, q) = IF s.workflow = "steady" THEN <<Request("solve", SizeOf(e))>>
                                    ELSE <<Request("set_size", s.stepSize)>> \o
                                         <<Request("solve", SizeOf(e))>>
<1> DEFINE p == e.params
           v == FieldValues(e.action, p, x)
           c == Call(e.action, q)
<1>1. /\ Entitled(e.action, x) /\ FieldsOk(e.action, p, x)
      /\ q = Rewritten(e.action, v, x)
  BY Accepting
<1>2. e.action = IF s.workflow = "steady" THEN "run_iterations" ELSE "run_time_steps"
  BY DEF Solves
<1>3. e.action \notin FileActions /\ q = v
  BY <1>1, <1>2 DEF FileActions, Rewritten
<1>4. DOMAIN q = DOMAIN p /\ \A n \in DOMAIN p : q[n] = p[n]
  BY <1>1, <1>3, ValuesStay
<1>5. c.action = e.action /\ c.params = q
  BY DEF Call
<1>6. CASE s.workflow = "steady"
  <2>1. e.action = "run_iterations" /\ "count" \in DOMAIN p
    BY <1>2, <1>6 DEF Solves
  <2>2. q.count = p.count
    BY <1>4, <2>1
  <2>3. SizeOf(c) = q.count.n /\ SizeOf(e) = p.count.n
    BY <1>5, <2>1 DEF SizeOf
  <2>4. Requests(e.action, q) = <<Request("solve", q.count.n)>>
    BY <2>1 DEF Requests
  <2>. QED
    BY <1>6, <2>2, <2>3, <2>4
<1>7. CASE s.workflow # "steady"
  <2>1. e.action = "run_time_steps" /\ "step_count" \in DOMAIN p /\ "time_step_size" \in DOMAIN p
        /\ p.time_step_size = s.stepSize
    BY <1>2, <1>7 DEF Solves
  <2>2. q.step_count = p.step_count /\ q.time_step_size = s.stepSize
          /\ "time_step_size" \in DOMAIN q
    BY <1>4, <2>1
  <2>3. SizeOf(c) = q.step_count.n /\ SizeOf(e) = p.step_count.n
    BY <1>5, <2>1 DEF SizeOf
  <2>4. Requests(e.action, q) = <<Request("set_size", q.time_step_size)>> \o
                                <<Request("solve", q.step_count.n)>>
    BY <2>1, <2>2 DEF Requests
  <2>. QED
    BY <1>7, <2>2, <2>3, <2>4
<1>. QED
  BY <1>6, <1>7

-----------------------------------------------------------------------------
(***************************************************************************)
(* What the product has solved by the time each call is made.              *)
(***************************************************************************)
\* What a call still asks of the product: nothing of the solver, or all of what it was
\* to solve, with the step's size set before or yet to be set.
CallInHand ==
  requests # <<>> =>
    LET call == Head(ahead)
        solve == Request("solve", SizeOf(call))
    IN IF call.action \in SolveActions
       THEN \/ /\ requests = <<solve>>
               /\ spec.workflow = "reflow" => solver.size = spec.stepSize
            \/ /\ spec.workflow = "reflow"
               /\ requests = <<Request("set_size", spec.stepSize), solve>>
       ELSE Quiet(requests)

\* What the product has solved is what the calls made had it solve.
SolvedSoFar ==
  /\ spec = NoSpec => solver.steps = 0
  /\ spec # NoSpec => \E sum : /\ Sums(Calls(spec), spec, sum, 0, spec.total)
                               /\ solver.steps = sum[Len(made)]

\* The inductive invariant of the solving.
SolvedInv ==
  /\ {"steps", "size"} \subseteq DOMAIN solver
  /\ CallInHand
  /\ SolvedSoFar
  /\ solver.steps > 0 /\ spec.workflow = "reflow" => solver.size = spec.stepSize
  /\ \A k \in 1 .. Len(made) : made[k].action \in SolveActions =>
       SizeOf(made[k]) \in 1 .. spec.chunk

LEMMA SolvedInit == Init => SolvedInv
<1> SUFFICES ASSUME Init PROVE SolvedInv
  OBVIOUS
<1>1. /\ requests = <<>> /\ made = <<>> /\ spec = NoSpec
      /\ solver.steps = 0 /\ {"steps", "size"} \subseteq DOMAIN solver
  BY DEF Init, SessionInit
<1>2. CallInHand
  BY <1>1 DEF CallInHand
<1>3. SolvedSoFar
  BY <1>1 DEF SolvedSoFar
<1>. QED
  BY <1>1, <1>2, <1>3, SequenceEmpty DEF SolvedInv

\* The verdict is the acceptance of the parameters it gives.
LEMMA LetThroughWith ==
  ASSUME NEW a, NEW p, NEW x, PrepareAction(a, p, x).ok
  PROVE  PrepareAction(a, p, x) = Accepted(PrepareAction(a, p, x).params)
<1>1. \A q : Accepted(q).params = q
  BY DEF Accepted
<1>2. Refused.ok = FALSE
  BY DEF Refused
<1>. QED
  BY <1>1, <1>2 DEF PrepareAction

\* The call in hand is one of the run's calls.
LEMMA NextCall ==
  ASSUME Phase, ahead # <<>>
  PROVE  /\ SpecFormed(spec) /\ spec # NoSpec /\ Len(made) \in Nat
         /\ Len(made) + 1 \in 1 .. Len(Calls(spec))
         /\ Head(ahead) = Calls(spec)[Len(made) + 1]
         /\ FormedCall(Head(ahead), spec)
         /\ Head(ahead).action \in SolveActions => Solves(Head(ahead), spec)
<1> DEFINE c == Calls(spec)
<1>1. SpecFormed(spec) /\ spec # NoSpec /\ Follows(c)
  BY DEF Phase
<1>2. FormedCalls(c, spec)
  BY <1>1, AllFormed
<1>3. Tally(c, spec, 0, spec.total)
  BY <1>1, CallsFormed
<1>4. PICK sum : Sums(c, spec, sum, 0, spec.total)
  BY <1>3 DEF Tally
<1> HIDE DEF c
<1>5. /\ Len(Append(made, Call(Head(ahead).action, 0))) = Len(made) + 1
      /\ Len(Append(made, Call(Head(ahead).action, 0))) \in 1 .. Len(c)
      /\ Head(ahead) = c[Len(Append(made, Call(Head(ahead).action, 0)))]
  BY <1>1, <1>2, OneMore DEF FormedCalls
<1>6. Len(made) + 1 \in 1 .. Len(c) /\ Head(ahead) = c[Len(made) + 1]
  BY <1>5
<1>7. FormedCall(c[Len(made) + 1], spec)
  BY <1>2, <1>6 DEF FormedCalls
<1>8. c[Len(made) + 1].action \in SolveActions => Solves(c[Len(made) + 1], spec)
  BY <1>4, <1>6 DEF Sums
<1>9. Len(made) \in Nat
  BY <1>1, SequenceDomain DEF Follows
<1>. QED
  BY <1>1, <1>6, <1>7, <1>8, <1>9 DEF c

\* The requests of a call that has just been let through.
LEMMA FreshRequests ==
  ASSUME Phase, ahead # <<>>, Verdict.ok
  PROVE  LET call == Head(ahead)
             r == Requests(call.action, Verdict.params)
             solve == Request("solve", SizeOf(call))
         IN IF call.action \in SolveActions
            THEN /\ SizeOf(Call(call.action, Verdict.params)) = SizeOf(call)
                 /\ SizeOf(call) \in 1 .. spec.chunk
                 /\ \/ spec.workflow # "reflow" /\ r = <<solve>>
                    \/ spec.workflow = "reflow"
                         /\ r = <<Request("set_size", spec.stepSize), solve>>
            ELSE Quiet(r)
<1> DEFINE call == Head(ahead)
           p == call.params
           x == Context
           q == Verdict.params
<1>1. /\ SpecFormed(spec) /\ FormedCall(call, spec)
      /\ call.action \in SolveActions => Solves(call, spec)
  BY NextCall
<1>2. Verdict = PrepareAction(call.action, p, x)
  BY DEF Verdict
<1>3. PrepareAction(call.action, p, x) = Accepted(q)
  <2> HIDE DEF call, p, x
  <2>. QED
    BY <1>2, LetThroughWith
<1> HIDE DEF call, x, q
<1>4. CASE call.action \in SolveActions
  <2>1. Solves(call, spec)
    BY <1>1, <1>4
  <2>2. /\ SizeOf(Call(call.action, q)) = SizeOf(call)
        /\ Requests(call.action, q) = IF spec.workflow = "steady"
                                      THEN <<Request("solve", SizeOf(call))>>
                                      ELSE <<Request("set_size", spec.stepSize)>> \o
                                           <<Request("solve", SizeOf(call))>>
    BY <1>1, <1>3, <2>1, SolveRequests
  <2>3. SizeOf(call) \in 1 .. spec.chunk
    BY <2>1 DEF Solves
  <2>4. spec.workflow \in {"steady", "reflow"}
    BY <1>1 DEF SpecFormed
  <2> DEFINE y == Request("set_size", spec.stepSize)
             z == Request("solve", SizeOf(call))
  <2>5. <<y>> \o <<z>> = <<y, z>>
    <3> HIDE DEF y, z
    <3>. QED
      BY TwoInARow
  <2>6. Requests(call.action, q) = IF spec.workflow = "steady" THEN <<z>> ELSE <<y>> \o <<z>>
    BY <2>2
  <2>7. \/ spec.workflow # "reflow" /\ Requests(call.action, q) = <<z>>
        \/ spec.workflow = "reflow" /\ Requests(call.action, q) = <<y, z>>
    <3> HIDE DEF y, z
    <3>. QED
      BY <2>4, <2>5, <2>6
  <2>. QED
    BY <1>4, <2>2, <2>3, <2>7 DEF call, q
<1>5. CASE call.action \notin SolveActions
  <2>1. Quiet(Requests(call.action, q))
    BY <1>1, <1>3, <1>5, QuietRequests
  <2>. QED
    BY <1>5, <2>1 DEF call, q
<1>. QED
  BY <1>4, <1>5

\* A request that is not about the solver's steps leaves them and their size alone.
LEMMA CarriedQuiet ==
  ASSUME {"steps", "size"} \subseteq DOMAIN solver, NEW r, r.op \notin {"solve", "set_size"}
  PROVE  LET t == Carried(r)
         IN t.steps = solver.steps /\ t.size = solver.size /\ {"steps", "size"} \subseteq DOMAIN t
<1> DEFINE t == Carried(r)
           Same(x) == x.steps = solver.steps /\ x.size = solver.size
                      /\ {"steps", "size"} \subseteq DOMAIN x
<1>1. \A v : Same([solver EXCEPT !.contours = v])
  OBVIOUS
<1>2. \A v : Same([solver EXCEPT !.shown = v])
  OBVIOUS
<1>3. \A v : Same([solver EXCEPT !.look = v])
  OBVIOUS
<1>4. \A v : Same([solver EXCEPT !.pictures = v])
  OBVIOUS
<1>5. \A v : Same([solver EXCEPT !.data = v])
  OBVIOUS
<1>6. Same(solver)
  OBVIOUS
<1> SUFFICES Same(t)
  OBVIOUS
<1> HIDE DEF Same
<1>7. CASE r.op = "create"
  BY <1>1, <1>7 DEF Carried
<1>8. CASE r.op = "set_contour"
  BY <1>1, <1>8 DEF Carried
<1>9. CASE r.op = "display"
  BY <1>2, <1>9 DEF Carried
<1>10. CASE r.op = "set_picture"
  BY <1>3, <1>10 DEF Carried
<1>11. CASE r.op = "save"
  BY <1>4, <1>11 DEF Carried
<1>12. CASE r.op = "write"
  BY <1>5, <1>12 DEF Carried
<1>13. CASE r.op \notin {"create", "set_contour", "display", "set_picture", "save", "write"}
  BY <1>6, <1>13 DEF Carried
<1>. QED
  BY <1>7, <1>8, <1>9, <1>10, <1>11, <1>12, <1>13

\* A call that is done has had the product solve its part.
LEMMA PartSolved ==
  ASSUME NEW c, NEW s, NEW sum, NEW n, Sums(c, s, sum, 0, n), NEW m \in Nat, m + 1 \in 1 .. Len(c)
  PROVE  sum[m + 1] = sum[m] + Size(c[m + 1])
<1> DEFINE k == m + 1
<1>1. k \in 1 .. Len(c) /\ k - 1 = m
  OBVIOUS
<1> HIDE DEF k
<1>2. sum[k] = sum[k - 1] + Size(c[k])
  BY <1>1 DEF Sums
<1>. QED
  BY <1>1, <1>2 DEF k

\* The next call is done: the sum goes on.
LEMMA CallDone ==
  ASSUME Phase, SolvedInv, ahead # <<>>, NEW q,
         made' = Append(made, Call(Head(ahead).action, q)), spec' = spec,
         solver'.steps = solver.steps + Size(Head(ahead)),
         Head(ahead).action \in SolveActions =>
           SizeOf(Call(Head(ahead).action, q)) \in 1 .. spec.chunk
  PROVE  /\ SolvedSoFar'
         /\ \A k \in 1 .. Len(made') : made'[k].action \in SolveActions =>
              SizeOf(made'[k]) \in 1 .. spec.chunk
<1> DEFINE c == Calls(spec)
           h == Head(ahead)
           e == Call(h.action, q)
           M == Len(made)
<1>1. /\ SpecFormed(spec) /\ spec # NoSpec /\ M \in Nat
      /\ M + 1 \in 1 .. Len(c) /\ h = c[M + 1]
  BY NextCall
<1>2. IsSequence(made)
  BY <1>1 DEF Phase, Follows
<1>3. /\ Len(made') = M + 1 /\ made'[M + 1] = e
      /\ \A k \in 1 .. M : made'[k] = made[k]
  BY <1>2, SequenceAppend
<1>4. PICK sum : Sums(c, spec, sum, 0, spec.total) /\ solver.steps = sum[M]
  BY <1>1 DEF SolvedInv, SolvedSoFar
<1>5. sum[M + 1] = sum[M] + Size(h)
  BY <1>1, <1>4, PartSolved
<1>6. solver'.steps = sum[Len(made')]
  BY <1>3, <1>4, <1>5
<1>7. Calls(spec') = c /\ spec' = spec
  OBVIOUS
<1>8. SolvedSoFar'
  <2>1. Sums(Calls(spec'), spec', sum, 0, spec'.total) /\ solver'.steps = sum[Len(made')]
    BY <1>4, <1>6, <1>7
  <2>. QED
    BY <1>1, <2>1 DEF SolvedSoFar
<1>9. e.action = h.action
  BY DEF Call
<1> HIDE DEF e, M, h
<1>10. ASSUME NEW k \in 1 .. Len(made'), made'[k].action \in SolveActions
       PROVE  SizeOf(made'[k]) \in 1 .. spec.chunk
  <2>1. CASE k \in 1 .. M
    BY <1>3, <1>10, <2>1 DEF SolvedInv, M
  <2>2. CASE k = M + 1
    BY <1>3, <1>9, <1>10, <2>2 DEF e, h
  <2>. QED
    BY <1>1, <1>3, <2>1, <2>2
<1>. QED
  BY <1>8, <1>10

\* The one request of a list of one, and the first of a list of two.
LEMMA FirstOfThem ==
  ASSUME NEW y, NEW z
  PROVE  /\ Head(<<z>>) = z /\ Tail(<<z>>) = <<>> /\ <<z>> # <<>>
         /\ Head(<<y, z>>) = y /\ Tail(<<y, z>>) = <<z>>
<1>1. Head(<<z>>) = z /\ Tail(<<z>>) = <<>> /\ <<z>> # <<>>
  OBVIOUS
<1>2. Head(<<y, z>>) = y
  OBVIOUS
<1>3. Tail(<<y, z>>) = <<z>>
  <2>1. <<y, z>> \in Seq({y, z}) /\ Len(<<y, z>>) = 2 /\ <<y, z>>[2] = z /\ <<y, z>> # <<>>
    OBVIOUS
  <2> DEFINE s == <<y, z>>
             t == Tail(s)
             u == <<z>>
  <2>2. IsSequence(u) /\ Len(u) = 1 /\ u[1] = z
    BY SequenceOne
  <2>3. IsSequence(s) /\ s # <<>> /\ Len(s) = 2 /\ s[2] = z
    BY <2>1, SequenceIn
  <2> HIDE DEF s, u
  <2>4. IsSequence(t) /\ Len(t) = Len(s) - 1 /\ \A k \in 1 .. Len(s) - 1 : t[k] = s[k + 1]
    BY <2>3, SequenceTail
  <2> HIDE DEF t
  <2>5. Len(t) = 1 /\ t[1] = s[1 + 1] /\ s[1 + 1] = z
    BY <2>3, <2>4
  <2>6. \A k \in 1 .. 1 : t[k] = u[k]
    BY <2>2, <2>5
  <2>7. t = u
    BY <2>2, <2>4, <2>5, <2>6, SequenceEqual
  <2>. QED
    BY <2>7 DEF s, t, u
<1>. QED
  BY <1>1, <1>2, <1>3

LEMMA SolvedProgress ==
  ASSUME Phase, SolvedInv, Progress
  PROVE  SolvedInv'
<1> DEFINE call == Head(ahead)
           q == Verdict.params
           solve == Request("solve", SizeOf(call))
           resize == Request("set_size", spec.stepSize)
<1>1. /\ requests # <<>> /\ requests' = Tail(requests)
      /\ \/ solver' = Carried(Head(requests))
         \/ Head(requests).tried /\ solver' = solver
  BY DEF Progress, Carry, Swallow
<1>2. /\ status = "queued" /\ ahead # <<>> /\ Verdict.ok
  BY <1>1 DEF Phase
<1>3. spec' = spec /\ status' = status /\ document' = document
  BY DEF Progress
<1>4. IF requests' = <<>> THEN made' = Append(made, Call(call.action, q)) /\ ahead' = Tail(ahead)
      ELSE made' = made /\ ahead' = ahead
  BY DEF Progress
<1>5. {"steps", "size"} \subseteq DOMAIN solver
  BY DEF SolvedInv
<1>6. spec # NoSpec /\ SpecFormed(spec)
  BY <1>2, NextCall
<1>7. /\ solve.op = "solve" /\ solve.with = SizeOf(call) /\ ~solve.tried
      /\ resize.op = "set_size" /\ resize.with = spec.stepSize /\ ~resize.tried
  BY DEF Request
<1>8. call.action \in SolveActions =>
        SizeOf(Call(call.action, q)) = SizeOf(call) /\ SizeOf(call) \in 1 .. spec.chunk
  BY <1>2, FreshRequests
<1>9. /\ call.action \in SolveActions =>
           \/ /\ requests = <<solve>>
              /\ spec.workflow = "reflow" => solver.size = spec.stepSize
           \/ spec.workflow = "reflow" /\ requests = <<resize, solve>>
      /\ call.action \notin SolveActions => Quiet(requests)
  BY <1>1 DEF SolvedInv, CallInHand
<1> HIDE DEF solve, resize
<1>10. CASE call.action \in SolveActions /\ requests = <<solve>>
            /\ (spec.workflow = "reflow" => solver.size = spec.stepSize)
  <2>1. Head(requests) = solve /\ requests' = <<>>
    BY <1>1, <1>10, FirstOfThem
  <2>2. solver' = [solver EXCEPT !.steps = @ + SizeOf(call)]
    BY <1>1, <1>7, <2>1 DEF Carried
  <2>3. /\ solver'.steps = solver.steps + SizeOf(call) /\ solver'.size = solver.size
        /\ {"steps", "size"} \subseteq DOMAIN solver'
    BY <1>5, <2>2
  <2>4. Size(call) = SizeOf(call)
    BY <1>10 DEF Size
  <2>5. /\ SolvedSoFar'
        /\ \A k \in 1 .. Len(made') : made'[k].action \in SolveActions =>
             SizeOf(made'[k]) \in 1 .. spec.chunk
    BY <1>2, <1>3, <1>4, <1>8, <2>1, <2>3, <2>4, CallDone
  <2>6. CallInHand'
    BY <2>1 DEF CallInHand
  <2>. QED
    BY <1>3, <1>10, <2>3, <2>5, <2>6 DEF SolvedInv
<1>11. CASE call.action \in SolveActions /\ spec.workflow = "reflow"
              /\ requests = <<resize, solve>>
  <2>1. Head(requests) = resize /\ requests' = <<solve>> /\ requests' # <<>>
    BY <1>1, <1>11, FirstOfThem
  <2>2. solver' = [solver EXCEPT !.size = spec.stepSize]
    BY <1>1, <1>7, <2>1 DEF Carried
  <2>3. /\ solver'.steps = solver.steps /\ solver'.size = spec.stepSize
        /\ {"steps", "size"} \subseteq DOMAIN solver'
    BY <1>5, <2>2
  <2>4. made' = made /\ ahead' = ahead
    BY <1>4, <2>1
  <2>5. SolvedSoFar'
    BY <1>3, <2>3, <2>4 DEF SolvedInv, SolvedSoFar
  <2>6. CallInHand'
    BY <1>3, <1>11, <2>1, <2>3, <2>4 DEF CallInHand, solve
  <2>. QED
    BY <1>3, <2>3, <2>4, <2>5, <2>6 DEF SolvedInv
<1>12. CASE call.action \notin SolveActions
  <2>1. /\ IsSequence(requests)
        /\ \A k \in 1 .. Len(requests) : requests[k].op \notin {"solve", "set_size"}
    BY <1>9, <1>12 DEF Quiet
  <2>2. /\ IsSequence(Tail(requests)) /\ Len(Tail(requests)) = Len(requests) - 1
        /\ Len(requests) \in Nat \ {0} /\ Head(requests) = requests[1]
        /\ \A k \in 1 .. Len(requests) - 1 : Tail(requests)[k] = requests[k + 1]
    BY <1>1, <2>1, SequenceTail
  <2>3. Head(requests).op \notin {"solve", "set_size"}
    BY <2>1, <2>2
  <2>4. Quiet(requests')
    <3>1. ASSUME NEW k \in 1 .. Len(requests) - 1
          PROVE  requests'[k].op \notin {"solve", "set_size"}
      <4>1. k + 1 \in 1 .. Len(requests)
        BY <2>2
      <4>. QED
        BY <1>1, <2>1, <2>2, <4>1
    <3>. QED
      BY <1>1, <2>2, <3>1 DEF Quiet
  <2>5. /\ solver'.steps = solver.steps /\ solver'.size = solver.size
        /\ {"steps", "size"} \subseteq DOMAIN solver'
    <3>1. CASE solver' = Carried(Head(requests))
      BY <1>5, <2>3, <3>1, CarriedQuiet
    <3>2. CASE solver' = solver
      BY <1>5, <3>2
    <3>. QED
      BY <1>1, <3>1, <3>2
  <2>6. CASE requests' = <<>>
    <3>1. Size(call) = 0
      BY <1>12 DEF Size
    <3>2. solver.steps \in Nat
      <4>1. Len(made) \in Nat /\ Len(made) + 1 \in 1 .. Len(Calls(spec))
        BY <1>2, NextCall
      <4>2. PICK sum : Sums(Calls(spec), spec, sum, 0, spec.total)
                   /\ solver.steps = sum[Len(made)]
        BY <1>6 DEF SolvedInv, SolvedSoFar
      <4>3. Len(Calls(spec)) \in Nat
        BY <4>2, SequenceDomain DEF Sums
      <4> DEFINE L == Len(Calls(spec))
                 M == Len(made)
      <4>4. M \in 0 .. L
        <5>1. L \in Nat /\ M \in Nat /\ M + 1 \in 1 .. L
          BY <4>1, <4>3
        <5> HIDE DEF L, M
        <5>. QED
          BY <5>1
      <4>5. sum[M] \in 0 .. spec.total
        BY <4>2, <4>4 DEF Sums
      <4>. QED
        BY <4>2, <4>5
    <3>3. solver'.steps = solver.steps + Size(call)
      BY <2>5, <3>1, <3>2
    <3>4. /\ SolvedSoFar'
          /\ \A k \in 1 .. Len(made') : made'[k].action \in SolveActions =>
               SizeOf(made'[k]) \in 1 .. spec.chunk
      BY <1>2, <1>3, <1>4, <1>8, <1>12, <2>6, <3>3, CallDone
    <3>5. CallInHand'
      BY <2>6 DEF CallInHand
    <3>. QED
      BY <1>3, <2>5, <3>4, <3>5 DEF SolvedInv
  <2>7. CASE requests' # <<>>
    <3>1. made' = made /\ ahead' = ahead
      BY <1>4, <2>7
    <3>2. SolvedSoFar'
      BY <1>3, <2>5, <3>1 DEF SolvedInv, SolvedSoFar
    <3>3. CallInHand'
      BY <1>12, <2>4, <3>1 DEF CallInHand
    <3>. QED
      BY <1>3, <2>5, <3>1, <3>2, <3>3 DEF SolvedInv
  <2>. QED
    BY <2>6, <2>7
<1>. QED
  BY <1>9, <1>10, <1>11, <1>12

LEMMA SolvedNext == Phase /\ Phase' /\ SolvedInv /\ [Next]_vars => SolvedInv'
<1> SUFFICES ASSUME Phase, Phase', SolvedInv, [Next]_vars PROVE SolvedInv'
  OBVIOUS
<1>1. CASE Accept
  <2>1. /\ status = "submitted" /\ requests' = requests /\ solver' = solver /\ made' = made
        /\ status' = "queued"
    BY <1>1 DEF Accept, productVars
  <2>2. spec = NoSpec /\ requests = <<>> /\ made = <<>>
    BY <2>1 DEF Phase
  <2>3. solver.steps = 0
    BY <2>2 DEF SolvedInv, SolvedSoFar
  <2>4. spec' # NoSpec /\ SpecFormed(spec')
    BY <2>1 DEF Phase
  <2>5. SolvedSoFar'
    <3>1. Tally(Calls(spec'), spec', 0, spec'.total)
      BY <2>4, CallsFormed
    <3>2. PICK sum : Sums(Calls(spec'), spec', sum, 0, spec'.total)
      BY <3>1 DEF Tally
    <3>3. sum[0] = 0
      BY <3>2 DEF Sums
    <3>4. Len(made') = 0 /\ solver'.steps = 0
      BY <2>1, <2>2, <2>3, SequenceEmpty
    <3>5. solver'.steps = sum[Len(made')]
      BY <3>3, <3>4
    <3>. QED
      BY <2>4, <3>2, <3>5 DEF SolvedSoFar
  <2>6. CallInHand'
    BY <2>1, <2>2 DEF CallInHand
  <2>7. \A k \in 1 .. Len(made') : FALSE
    BY <2>1, <2>2, SequenceEmpty
  <2>. QED
    BY <2>1, <2>3, <2>5, <2>6, <2>7 DEF SolvedInv
<1>2. CASE Refuse
  BY <1>2 DEF Refuse, productVars, SolvedInv, CallInHand, SolvedSoFar
<1>3. CASE Proceed
  <2>1. /\ ahead # <<>> /\ Verdict.ok /\ requests' = Requests(Head(ahead).action, Verdict.params)
        /\ UNCHANGED <<solver, document, status, spec, ahead, made>>
    BY <1>3 DEF Proceed, Execute, workVars
  <2>2. CallInHand'
    BY <2>1, FreshRequests DEF CallInHand
  <2>3. SolvedSoFar'
    BY <2>1 DEF SolvedInv, SolvedSoFar
  <2>. QED
    BY <2>1, <2>2, <2>3 DEF SolvedInv
<1>4. CASE Progress
  BY <1>4, SolvedProgress
<1>5. CASE Fail
  <2>1. requests' = <<>> /\ UNCHANGED <<solver, spec, ahead, made>>
    BY <1>5 DEF Fail, Raise, productVars
  <2>. QED
    BY <2>1 DEF SolvedInv, CallInHand, SolvedSoFar
<1>6. CASE Succeed
  BY <1>6 DEF Succeed, productVars, SolvedInv, CallInHand, SolvedSoFar
<1>7. CASE UNCHANGED vars
  BY <1>7 DEF vars, workVars, productVars, SolvedInv, CallInHand, SolvedSoFar
<1>. QED
  BY <1>1, <1>2, <1>3, <1>4, <1>5, <1>6, <1>7 DEF Next

\* A run that succeeds has had the product solve exactly what was asked for, in steps of
\* the size asked for; never does a run solve more, or more at once, than it was told
\* (SolvesWhatWasAsked): the chunks of compile_program add up to the total, each is one
\* call, and a call's steps are done when it returns.
THEOREM SolvedAsAsked == Spec => []SolvesWhatWasAsked
<1>1. Phase /\ SolvedInv => SolvesWhatWasAsked
  <2> SUFFICES ASSUME Phase, SolvedInv PROVE SolvesWhatWasAsked
    OBVIOUS
  <2>1. CASE spec = NoSpec
    <3>1. status \in {"submitted", "refused"} /\ made = <<>>
      BY <2>1 DEF Phase
    <3>2. spec.workflow # "reflow"
      BY <2>1 DEF NoSpec
    <3>3. Made(SolveActions) = {}
      BY <3>1 DEF Made
    <3>. QED
      BY <2>1, <3>1, <3>2, <3>3 DEF SolvesWhatWasAsked
  <2>2. CASE spec # NoSpec
    <3> DEFINE c == Calls(spec)
               M == Len(made)
    <3>1. SpecFormed(spec) /\ Follows(c)
      BY <2>2 DEF Phase
    <3>2. PICK sum : Sums(c, spec, sum, 0, spec.total) /\ solver.steps = sum[M]
      BY <2>2 DEF SolvedInv, SolvedSoFar
    <3>3. spec.total \in Nat
      BY <3>1 DEF SpecFormed
    <3>4. /\ IsSequence(made) /\ IsSequence(ahead) /\ M + Len(ahead) = Len(c)
          /\ M \in Nat /\ Len(ahead) \in Nat /\ DOMAIN made = 1 .. M
      BY <3>1, SequenceDomain DEF Follows
    <3> HIDE DEF c, M
    <3>5. M \in 0 .. Len(c)
      BY <3>4
    <3>6. sum[M] \in 0 .. spec.total
      BY <3>2, <3>5 DEF Sums
    <3>7. solver.steps <= spec.total
      BY <3>2, <3>3, <3>6
    <3>8. status = "succeeded" => solver.steps = spec.total
      <4> SUFFICES ASSUME status = "succeeded" PROVE solver.steps = spec.total
        OBVIOUS
      <4>1. Len(ahead) = 0
        BY SequenceEmpty DEF Phase
      <4>2. M = Len(c)
        BY <3>4, <4>1
      <4>. QED
        BY <3>2, <4>2 DEF Sums
    <3>9. ASSUME NEW k \in Made(SolveActions) PROVE SizeOf(made[k]) \in 1 .. spec.chunk
      <4>1. k \in 1 .. Len(made) /\ made[k].action \in SolveActions
        BY <3>4 DEF Made, M
      <4>. QED
        BY <4>1 DEF SolvedInv
    <3>10. solver.steps > 0 /\ spec.workflow = "reflow" => solver.size = spec.stepSize
      BY DEF SolvedInv
    <3>. QED
      BY <3>7, <3>8, <3>9, <3>10 DEF SolvesWhatWasAsked
  <2>. QED
    BY <2>1, <2>2
<1>2. Init => Phase /\ SolvedInv
  BY PhaseInit, SolvedInit
<1>3. Phase /\ SolvedInv /\ [Next]_vars => Phase' /\ SolvedInv'
  BY PhaseNext, SolvedNext
<1>. QED
  BY <1>1, <1>2, <1>3, PTL DEF Spec
-----------------------------------------------------------------------------
(***************************************************************************)
(* What an image asks of the product, request by request.                  *)
(***************************************************************************)
PictureOps == {"create", "find", "set_contour", "display", "set_picture", "save"}

\* The operations image may ask for: the first, the one after op, and each as a request.
OpsOf(image) == IF "contour" \in DOMAIN image THEN PictureOps ELSE {"set_picture", "save"}
PictureOp(image) == IF image.picture_state.fields = <<>> THEN "save" ELSE "set_picture"
FirstOp(image) == IF "contour" \in DOMAIN image THEN "create" ELSE PictureOp(image)
AfterOp(image, op) ==
  CASE op = "create" -> "find"
    [] op = "find" -> IF image.contour.fields.state.fields = <<>> THEN "display"
                      ELSE "set_contour"
    [] op = "set_contour" -> "display"
    [] op = "display" -> PictureOp(image)
    [] op = "set_picture" -> "save"
    [] OTHER -> "done"
RequestOf(image, op) ==
  CASE op = "create" -> Tried(op, image.contour.fields.object_name)
    [] op \in {"find", "display"} -> Request(op, image.contour.fields.object_name)
    [] op = "set_contour" -> Request(op, image.contour.fields)
    [] op = "set_picture" -> Request(op, image.picture_state.fields)
    [] OTHER -> Request(op, PictureFile(image))

\* b is what image asks for from operation p on, until operation q.
Chain(b, image, p, q) ==
  /\ IsSequence(b)
  /\ Len(b) = 0 => p = q
  /\ Len(b) # 0 => b[1].op = p /\ AfterOp(image, b[Len(b)].op) = q
  /\ \A k \in 1 .. Len(b) : b[k].op \in OpsOf(image) /\ b[k] = RequestOf(image, b[k].op)
  /\ \A k \in 1 .. Len(b) - 1 : b[k + 1].op = AfterOp(image, b[k].op)

\* Nothing, one request, and two chains in a row.
LEMMA ChainNothing ==
  ASSUME NEW image, NEW p
  PROVE  Chain(<<>>, image, p, p)
BY SequenceEmpty DEF Chain

\* A request is of its operation.
LEMMA RequestOps ==
  ASSUME NEW image, NEW op
  PROVE  RequestOf(image, op).op = op
BY DEF RequestOf, Request, Tried

LEMMA ChainOne ==
  ASSUME NEW image, NEW op \in OpsOf(image)
  PROVE  Chain(<<RequestOf(image, op)>>, image, op, AfterOp(image, op))
<1> DEFINE r == RequestOf(image, op)
           b == <<r>>
<1>1. r.op = op
  BY RequestOps
<1>2. r = RequestOf(image, op)
  OBVIOUS
<1> HIDE DEF r
<1>3. IsSequence(b) /\ Len(b) = 1 /\ b[1] = r
  BY SequenceOne
<1> HIDE DEF b
<1>4. /\ \A k \in 1 .. Len(b) : b[k].op \in OpsOf(image) /\ b[k] = RequestOf(image, b[k].op)
      /\ b[1].op = op /\ b[Len(b)].op = op /\ \A k \in 1 .. Len(b) - 1 : FALSE
  BY <1>1, <1>2, <1>3
<1>5. Chain(b, image, op, AfterOp(image, op))
  BY <1>3, <1>4 DEF Chain
<1>. QED
  BY <1>5 DEF b, r

LEMMA ChainConcat ==
  ASSUME NEW a, NEW b, NEW image, NEW p, NEW q, NEW r,
         Chain(a, image, p, q), Chain(b, image, q, r)
  PROVE  Chain(a \o b, image, p, r)
<1> DEFINE c == a \o b
           M == Len(a)
           N == Len(b)
<1>1. /\ IsSequence(a) /\ IsSequence(b)
      /\ IsSequence(c) /\ Len(c) = M + N /\ M \in Nat /\ N \in Nat
      /\ \A k \in 1 .. M : c[k] = a[k]
      /\ \A k \in 1 .. N : c[M + k] = b[k]
      /\ \A k \in 1 .. M + N : k \notin 1 .. M => k - M \in 1 .. N /\ c[k] = b[k - M]
  BY ConcatParts DEF Chain
<1>2. CASE M = 0
  <2>1. a = <<>>
    BY <1>1, <1>2, NothingInIt
  <2>2. c = b
    BY <1>1, <2>1, ConcatNothing
  <2>3. p = q
    BY <1>2 DEF Chain
  <2>. QED
    BY <2>2, <2>3
<1>3. CASE N = 0
  <2>1. b = <<>>
    BY <1>1, <1>3, NothingInIt
  <2>2. c = a
    BY <1>1, <2>1, ConcatNothing
  <2>3. q = r
    BY <1>3 DEF Chain
  <2>. QED
    BY <2>2, <2>3
<1>4. CASE M # 0 /\ N # 0
  <2>1. /\ a[1].op = p /\ AfterOp(image, a[M].op) = q
        /\ \A k \in 1 .. M : a[k].op \in OpsOf(image) /\ a[k] = RequestOf(image, a[k].op)
        /\ \A k \in 1 .. M - 1 : a[k + 1].op = AfterOp(image, a[k].op)
        /\ b[1].op = q /\ AfterOp(image, b[N].op) = r
        /\ \A k \in 1 .. N : b[k].op \in OpsOf(image) /\ b[k] = RequestOf(image, b[k].op)
        /\ \A k \in 1 .. N - 1 : b[k + 1].op = AfterOp(image, b[k].op)
    <3>1. Chain(a, image, p, q) /\ Len(a) # 0
      BY <1>4
    <3>2. Chain(b, image, q, r) /\ Len(b) # 0
      BY <1>4
    <3>3. /\ a[1].op = p /\ AfterOp(image, a[M].op) = q
          /\ \A k \in 1 .. M : a[k].op \in OpsOf(image) /\ a[k] = RequestOf(image, a[k].op)
          /\ \A k \in 1 .. M - 1 : a[k + 1].op = AfterOp(image, a[k].op)
      BY ONLY <3>1 DEF Chain
    <3>4. /\ b[1].op = q /\ AfterOp(image, b[N].op) = r
          /\ \A k \in 1 .. N : b[k].op \in OpsOf(image) /\ b[k] = RequestOf(image, b[k].op)
          /\ \A k \in 1 .. N - 1 : b[k + 1].op = AfterOp(image, b[k].op)
      BY ONLY <3>2 DEF Chain
    <3>. QED
      BY <3>3, <3>4
  <2> HIDE DEF c, M, N
  <2>2. \A k \in 1 .. M + N : c[k].op \in OpsOf(image) /\ c[k] = RequestOf(image, c[k].op)
    BY ZenonT(60), <1>1, <2>1
  <2>3. c[1] = a[1] /\ c[M + N] = b[N] /\ M + N # 0
    BY <1>1, <1>4
  <2>4. ASSUME NEW k \in 1 .. M + N - 1 PROVE c[k + 1].op = AfterOp(image, c[k].op)
    <3>1. CASE k + 1 \in 1 .. M
      <4>1. k \in 1 .. M - 1 /\ k \in 1 .. M
        BY <1>1, <3>1
      <4>. QED
        BY <1>1, <2>1, <3>1, <4>1
    <3>2. CASE k = M
      <4>1. c[k] = a[M] /\ c[k + 1] = b[1]
        BY <1>1, <1>4, <3>2
      <4>. QED
        BY <2>1, <4>1
    <3>3. CASE k \notin 1 .. M
      <4> DEFINE l == k - M
      <4>1. l \in 1 .. N - 1 /\ l \in 1 .. N /\ k = M + l /\ l + 1 \in 1 .. N
            /\ k + 1 = M + (l + 1)
        BY <1>1, <3>3
      <4> HIDE DEF l
      <4> DEFINE m == l + 1
      <4>2. m \in 1 .. N /\ k + 1 = M + m /\ b[m].op = AfterOp(image, b[l].op)
        BY <2>1, <4>1
      <4> HIDE DEF m
      <4>3. c[k] = b[l] /\ c[k + 1] = b[m]
        BY <1>1, <4>1, <4>2
      <4>. QED
        BY <4>2, <4>3
    <3>. QED
      BY <1>1, <3>1, <3>2, <3>3
  <2>5. Chain(c, image, p, r)
    BY <1>1, <2>1, <2>2, <2>3, <2>4 DEF Chain
  <2>. QED
    BY <2>5 DEF c
<1>. QED
  BY <1>2, <1>3, <1>4

\* An image the session gets asks for what the image of the spec has.
LEMMA ImageChain ==
  ASSUME NEW image, NEW g,
         "contour" \in DOMAIN g <=> "contour" \in DOMAIN image,
         "contour" \in DOMAIN image => g.contour = image.contour,
         g.picture_state = image.picture_state, g.file_name = PictureFile(image)
  PROVE  Chain(ImageRequests(g), image, FirstOp(image), "done")
<1> DEFINE a == IF "contour" \in DOMAIN g THEN ContourRequests(g.contour.fields) ELSE <<>>
           b == Given(g.picture_state.fields, "set_picture", g.picture_state.fields)
           d == <<Request("save", g.file_name)>>
           p == PictureOp(image)
<1>1. Chain(d, image, "save", "done")
  <2>1. "save" \in OpsOf(image) /\ AfterOp(image, "save") = "done"
    BY DEF OpsOf, PictureOps, AfterOp
  <2>2. RequestOf(image, "save") = Request("save", g.file_name)
    BY DEF RequestOf
  <2>. QED
    BY <2>1, <2>2, ChainOne
<1>2. Chain(b, image, p, "save")
  <2>1. CASE image.picture_state.fields = <<>>
    BY <2>1, ChainNothing DEF Given, PictureOp
  <2>2. CASE image.picture_state.fields # <<>>
    <3>1. p = "set_picture" /\ p \in OpsOf(image) /\ AfterOp(image, p) = "save"
      BY <2>2 DEF PictureOp, OpsOf, PictureOps, AfterOp
    <3>2. b = <<Request("set_picture", image.picture_state.fields)>>
      BY <2>2 DEF Given
    <3>3. RequestOf(image, p) = Request("set_picture", image.picture_state.fields)
      BY <3>1 DEF RequestOf
    <3> HIDE DEF b, p
    <3>. QED
      BY <3>1, <3>2, <3>3, ChainOne
  <2>. QED
    BY <2>1, <2>2
<1>3. Chain(a, image, FirstOp(image), p)
  <2>1. CASE "contour" \notin DOMAIN image
    BY <2>1, ChainNothing DEF FirstOp
  <2>2. CASE "contour" \in DOMAIN image
    <3> DEFINE c == image.contour.fields
               u == <<RequestOf(image, "create")>>
               v == <<RequestOf(image, "find")>>
               w == Given(c.state.fields, "set_contour", c)
               x == <<RequestOf(image, "display")>>
    <3>1. /\ {"create", "find", "set_contour", "display"} \subseteq OpsOf(image)
          /\ AfterOp(image, "create") = "find"
          /\ AfterOp(image, "set_contour") = "display"
          /\ AfterOp(image, "display") = p
          /\ FirstOp(image) = "create"
      BY <2>2 DEF OpsOf, PictureOps, AfterOp, FirstOp
    <3>2. Chain(u, image, "create", "find")
      BY <3>1, ChainOne
    <3>3. Chain(v, image, "find", AfterOp(image, "find"))
      BY <3>1, ChainOne
    <3>4. Chain(w, image, AfterOp(image, "find"), "display")
      <4>1. CASE c.state.fields = <<>>
        <5>1. AfterOp(image, "find") = "display" /\ w = <<>>
          BY <4>1 DEF AfterOp, Given
        <5>. QED
          BY <5>1, ChainNothing
      <4>2. CASE c.state.fields # <<>>
        <5>1. AfterOp(image, "find") = "set_contour"
              /\ w = <<RequestOf(image, "set_contour")>>
          BY <4>2 DEF AfterOp, Given, RequestOf
        <5>. QED
          BY <3>1, <5>1, ChainOne
      <4>. QED
        BY <4>1, <4>2
    <3>5. Chain(x, image, "display", p)
      BY <3>1, ChainOne
    <3>6. a = (<<RequestOf(image, "create"), RequestOf(image, "find")>> \o w) \o x
      BY <2>2 DEF ContourRequests, RequestOf
    <3>7. <<RequestOf(image, "create"), RequestOf(image, "find")>> = u \o v
      BY TwoInARow
    <3> HIDE DEF a, c, u, v, w, x, p
    <3> DEFINE f == u \o v
               g1 == f \o w
               h == g1 \o x
    <3>8. Chain(f, image, "create", AfterOp(image, "find"))
      BY <3>2, <3>3, ChainConcat
    <3> HIDE DEF f
    <3>9. Chain(g1, image, "create", "display")
      BY <3>4, <3>8, ChainConcat
    <3> HIDE DEF g1
    <3>10. Chain(h, image, "create", p)
      BY <3>5, <3>9, ChainConcat
    <3>11. a = h
      BY <3>6, <3>7 DEF f, g1
    <3> HIDE DEF h
    <3>. QED
      BY <3>1, <3>10, <3>11
  <2>. QED
    BY <2>1, <2>2
<1>4. ImageRequests(g) = (a \o b) \o d
  BY DEF ImageRequests
<1> HIDE DEF a, b, d, p
<1> DEFINE f == a \o b
           h == f \o d
<1>5. Chain(f, image, FirstOp(image), "save")
  BY <1>2, <1>3, ChainConcat
<1> HIDE DEF f
<1>6. Chain(h, image, FirstOp(image), "done")
  BY <1>1, <1>5, ChainConcat
<1>7. ImageRequests(g) = h
  BY <1>4 DEF f
<1> HIDE DEF h
<1>. QED
  BY <1>6, <1>7

\* r is what images ask for, from the first of r on to the end of image n; of[k] is the
\* image request k is for.
Along(r, images, n, of) ==
  /\ IsSequence(r)
  /\ \A k \in 1 .. Len(r) : /\ of[k] \in 1 .. n /\ r[k].op \in OpsOf(images[of[k]])
                            /\ r[k] = RequestOf(images[of[k]], r[k].op)
  /\ \A k \in 1 .. Len(r) - 1 :
       IF r[k].op = "save"
       THEN of[k + 1] = of[k] + 1 /\ r[k + 1].op = FirstOp(images[of[k + 1]])
       ELSE of[k + 1] = of[k] /\ r[k + 1].op = AfterOp(images[of[k]], r[k].op)
  /\ Len(r) # 0 => r[Len(r)].op = "save" /\ of[Len(r)] = n

\* From the first image on.
FromFirst(r, images, n, of) == /\ Len(r) = 0 <=> n = 0
                               /\ n # 0 => of[1] = 1 /\ r[1].op = FirstOp(images[1])

\* A chain from the first operation to the last saves once, at its end.
LEMMA ChainEnds ==
  ASSUME NEW b, NEW image, Chain(b, image, FirstOp(image), "done")
  PROVE  /\ Len(b) \in Nat \ {0} /\ b[Len(b)].op = "save"
         /\ \A k \in 1 .. Len(b) - 1 : b[k].op # "save"
<1> DEFINE N == Len(b)
<1>1. N \in Nat
  BY SequenceDomain DEF Chain
<1>2. FirstOp(image) # "done"
  BY DEF FirstOp, PictureOp
<1>3. N # 0
  BY <1>2 DEF Chain
<1>4. \A op \in OpsOf(image) : op # "save" => AfterOp(image, op) # "done"
  BY DEF OpsOf, PictureOps, AfterOp, PictureOp
<1>5. AfterOp(image, "save") = "done" /\ "done" \notin OpsOf(image)
  BY DEF OpsOf, PictureOps, AfterOp
<1>6. /\ AfterOp(image, b[N].op) = "done"
      /\ \A k \in 1 .. N : b[k].op \in OpsOf(image)
      /\ \A k \in 1 .. N - 1 : b[k + 1].op = AfterOp(image, b[k].op)
  BY <1>3 DEF Chain
<1> HIDE DEF N
<1>7. b[N].op = "save"
  BY <1>1, <1>3, <1>4, <1>6
<1>8. ASSUME NEW k \in 1 .. N - 1 PROVE b[k].op # "save"
  <2>1. k + 1 \in 1 .. N
    BY <1>1
  <2>2. b[k + 1].op # "done"
    BY <1>5, <1>6, <2>1
  <2>. QED
    BY <1>5, <1>6, <2>2
<1>. QED
  BY <1>1, <1>3, <1>7, <1>8 DEF N

\* One more image.
LEMMA AlongMore ==
  ASSUME NEW a, NEW images, NEW n \in Nat, NEW of, Along(a, images, n, of),
         FromFirst(a, images, n, of),
         NEW b, Chain(b, images[n + 1], FirstOp(images[n + 1]), "done")
  PROVE  \E g : /\ Along(a \o b, images, n + 1, g)
                /\ FromFirst(a \o b, images, n + 1, g)
<1> DEFINE c == a \o b
           M == Len(a)
           N == Len(b)
           o == n + 1
           im == images[o]
           g == [k \in 1 .. M + N |-> IF k \in 1 .. M THEN of[k] ELSE o]
<1>1. /\ IsSequence(a) /\ IsSequence(b)
      /\ IsSequence(c) /\ Len(c) = M + N /\ M \in Nat /\ N \in Nat
      /\ \A k \in 1 .. M : c[k] = a[k]
      /\ \A k \in 1 .. N : c[M + k] = b[k]
      /\ \A k \in 1 .. M + N : k \notin 1 .. M => k - M \in 1 .. N /\ c[k] = b[k - M]
  BY ConcatParts DEF Chain, Along
<1>2. N # 0 /\ b[N].op = "save" /\ \A k \in 1 .. N - 1 : b[k].op # "save"
  BY ChainEnds
<1>3. /\ b[1].op = FirstOp(im)
      /\ \A k \in 1 .. N : b[k].op \in OpsOf(im) /\ b[k] = RequestOf(im, b[k].op)
      /\ \A k \in 1 .. N - 1 : b[k + 1].op = AfterOp(im, b[k].op)
  BY <1>2 DEF Chain
<1>4. /\ \A k \in 1 .. M : of[k] \in 1 .. n /\ a[k].op \in OpsOf(images[of[k]])
                           /\ a[k] = RequestOf(images[of[k]], a[k].op)
      /\ \A k \in 1 .. M - 1 :
           IF a[k].op = "save"
           THEN of[k + 1] = of[k] + 1 /\ a[k + 1].op = FirstOp(images[of[k + 1]])
           ELSE of[k + 1] = of[k] /\ a[k + 1].op = AfterOp(images[of[k]], a[k].op)
      /\ M # 0 => a[M].op = "save" /\ of[M] = n
      /\ M = 0 <=> n = 0
      /\ n # 0 => of[1] = 1 /\ a[1].op = FirstOp(images[1])
  BY DEF Along, FromFirst
<1>5. /\ \A k \in 1 .. M : g[k] = of[k]
      /\ \A k \in 1 .. M + N : k \notin 1 .. M => g[k] = o
  BY <1>1
<1>6. o \in Nat \ {0} /\ o = n + 1 /\ images[o] = im
  OBVIOUS
<1> HIDE DEF M, N, c, g, o, im
<1>7. ASSUME NEW k \in 1 .. M + N
      PROVE  g[k] \in 1 .. o /\ c[k].op \in OpsOf(images[g[k]])
             /\ c[k] = RequestOf(images[g[k]], c[k].op)
  <2>1. CASE k \in 1 .. M
    <3>1. g[k] \in 1 .. o
      BY <1>4, <1>5, <1>6, <2>1
    <3>. QED
      BY <1>1, <1>4, <1>5, <2>1, <3>1
  <2>2. CASE k \notin 1 .. M
    BY <1>1, <1>3, <1>5, <1>6, <2>2
  <2>. QED
    BY <2>1, <2>2
<1>8. ASSUME NEW k \in 1 .. M + N - 1
      PROVE  IF c[k].op = "save"
             THEN g[k + 1] = g[k] + 1 /\ c[k + 1].op = FirstOp(images[g[k + 1]])
             ELSE g[k + 1] = g[k] /\ c[k + 1].op = AfterOp(images[g[k]], c[k].op)
  <2> DEFINE m == k + 1
  <2>1. CASE m \in 1 .. M
    <3>1. k \in 1 .. M - 1 /\ k \in 1 .. M
      BY <1>1, <2>1
    <3>2. IF a[k].op = "save"
          THEN of[m] = of[k] + 1 /\ a[m].op = FirstOp(images[of[m]])
          ELSE of[m] = of[k] /\ a[m].op = AfterOp(images[of[k]], a[k].op)
      BY <1>4, <3>1
    <3> HIDE DEF m
    <3>3. c[k] = a[k] /\ c[m] = a[m] /\ g[k] = of[k] /\ g[m] = of[m]
      BY <1>1, <1>5, <2>1, <3>1
    <3>4. IF c[k].op = "save"
          THEN g[m] = g[k] + 1 /\ c[m].op = FirstOp(images[g[m]])
          ELSE g[m] = g[k] /\ c[m].op = AfterOp(images[g[k]], c[k].op)
      BY <3>2, <3>3
    <3>. QED
      BY <3>4 DEF m
  <2>2. CASE k = M
    <3>1. c[k] = a[M] /\ g[k] = of[M] /\ c[k].op = "save" /\ g[k] = n
      BY <1>1, <1>4, <1>5, <2>2
    <3>2. m = M + 1 /\ m \notin 1 .. M /\ m \in 1 .. M + N
      BY <1>1, <1>2, <2>2
    <3>3. c[m] = b[1] /\ g[m] = o
      BY <1>1, <1>2, <1>5, <3>2
    <3>. QED
      BY <1>3, <1>6, <3>1, <3>3
  <2>3. CASE k \notin 1 .. M
    <3> DEFINE l == k - M
               p == l + 1
    <3>1. l \in 1 .. N - 1 /\ l \in 1 .. N /\ p \in 1 .. N /\ k = M + l /\ m = M + p
          /\ m \in 1 .. M + N /\ m \notin 1 .. M
      BY <1>1, <2>3
    <3>2. b[p].op = AfterOp(im, b[l].op) /\ b[l].op # "save"
      BY <1>2, <1>3, <3>1
    <3> HIDE DEF l, p, m
    <3>3. c[k] = b[l] /\ c[m] = b[p] /\ g[k] = o /\ g[m] = o
      <4>1. c[M + l] = b[l] /\ c[M + p] = b[p]
        BY <1>1, <3>1
      <4>2. k \in 1 .. M + N
        BY <1>1
      <4>3. g[k] = o /\ g[m] = o
        BY <1>5, <2>3, <3>1, <4>2
      <4>. QED
        BY <3>1, <4>1, <4>3
    <3>4. c[k].op # "save" /\ g[m] = g[k] /\ c[m].op = AfterOp(images[g[k]], c[k].op)
      BY <1>6, <3>2, <3>3
    <3>. QED
      BY <3>4 DEF m
  <2>4. m \in 1 .. M \/ k = M \/ k \notin 1 .. M
    BY <1>1
  <2>. QED
    BY <2>1, <2>2, <2>3, <2>4
<1>9. c[M + N].op = "save" /\ g[M + N] = o /\ M + N # 0
  <2>1. M + N \in 1 .. M + N /\ M + N \notin 1 .. M /\ N \in 1 .. N
    BY <1>1, <1>2
  <2>. QED
    BY <1>1, <1>2, <1>5, <2>1
<1>10. g[1] = 1 /\ c[1].op = FirstOp(images[1])
  <2>1. CASE M = 0
    <3>1. o = 1 /\ c[1] = b[1] /\ g[1] = o
      <4>1. 1 \in 1 .. N /\ M + 1 = 1 /\ 1 \notin 1 .. M /\ 1 \in 1 .. M + N
        BY <1>1, <1>2, <2>1
      <4>2. c[M + 1] = b[1]
        BY <1>1, <4>1
      <4>. QED
        BY <1>4, <1>5, <1>6, <2>1, <4>1, <4>2
    <3>. QED
      BY <1>3, <1>6, <3>1
  <2>2. CASE M # 0
    <3>1. 1 \in 1 .. M
      BY <1>1, <2>2
    <3>. QED
      BY <1>1, <1>4, <1>5, <2>2, <3>1
  <2>. QED
    BY <2>1, <2>2
<1>11. Along(c, images, o, g) /\ FromFirst(c, images, o, g)
  BY <1>1, <1>6, <1>7, <1>8, <1>9, <1>10 DEF Along, FromFirst
<1>. QED
  BY <1>11 DEF c, o

\* What all images ask for, one after the other.
LEMMA AlongAll ==
  ASSUME NEW images, IsSequence(images), NEW r, IsSequence(r), Len(r) = Len(images),
         \A k \in 1 .. Len(r) : Chain(r[k], images[k], FirstOp(images[k]), "done")
  PROVE  \E of : /\ Along(FlattenSeq(r), images, Len(images), of)
                 /\ FromFirst(FlattenSeq(r), images, Len(images), of)
<1> DEFINE N == Len(images)
<1>1. AllSequences(r)
  BY DEF AllSequences, Chain
<1>2. PICK row : Rows(r, row)
  BY <1>1, FlattenOneByOne
<1> DEFINE P(n) == \E of : Along(row[n], images, n, of) /\ FromFirst(row[n], images, n, of)
           S == {n \in Nat : n <= N => P(n)}
<1>3. N \in Nat
  BY SequenceDomain
<1>4. 0 \in S
  <2>1. row[0] = <<>>
    BY <1>2 DEF Rows
  <2>2. Along(<<>>, images, 0, <<>>) /\ FromFirst(<<>>, images, 0, <<>>)
    BY SequenceEmpty DEF Along, FromFirst
  <2>. QED
    BY <2>1, <2>2
<1>5. ASSUME NEW n \in Nat, n < N, n \in S PROVE n + 1 \in S
  <2> DEFINE m == n + 1
  <2>1. m \in 1 .. Len(r) /\ m - 1 = n /\ m \in Nat
    BY <1>3, <1>5
  <2>2. row[m] = row[n] \o r[m]
    BY <1>2, <2>1 DEF Rows
  <2>3. PICK of : Along(row[n], images, n, of) /\ FromFirst(row[n], images, n, of)
    BY <1>5
  <2>4. Chain(r[m], images[n + 1], FirstOp(images[n + 1]), "done")
    BY <2>1
  <2> DEFINE a == row[n]
             b == r[m]
  <2> HIDE DEF a, b
  <2>5. \E g : Along(a \o b, images, n + 1, g) /\ FromFirst(a \o b, images, n + 1, g)
    BY <2>3, <2>4, AlongMore DEF a, b
  <2>6. P(m)
    BY <2>2, <2>5 DEF a, b
  <2> HIDE DEF P, m
  <2>7. m \in S
    BY <2>1, <2>6
  <2>. QED
    BY <2>7 DEF m
<1>6. \A n \in 0 .. N : n \in S
  <2> HIDE DEF S, N
  <2>. QED
    BY <1>3, <1>4, <1>5, CountingUp
<1>7. P(N)
  <2> HIDE DEF P, N
  <2>1. N \in 0 .. N
    BY <1>3
  <2>. QED
    BY <1>6, <2>1
<1>8. FlattenSeq(r) = row[N]
  BY <1>2 DEF Rows
<1> HIDE DEF N
<1>. QED
  BY <1>7, <1>8 DEF N

\* t is what is left of r when its first request, for image of[1], is done.
RestAlong(r, t, images, n, of) ==
  /\ Len(r) \in Nat \ {0} /\ IsSequence(t) /\ Len(t) = Len(r) - 1
  /\ of[1] \in 1 .. n /\ r[1].op \in OpsOf(images[of[1]])
  /\ r[1] = RequestOf(images[of[1]], r[1].op)
  /\ t = <<>> => r[1].op = "save" /\ of[1] = n
  /\ t # <<>> =>
       \E g : /\ Along(t, images, n, g)
              /\ IF r[1].op = "save"
                 THEN g[1] = of[1] + 1 /\ t[1].op = FirstOp(images[g[1]])
                 ELSE g[1] = of[1] /\ t[1].op = AfterOp(images[g[1]], r[1].op)

\* With the first request done, the rest is what the images ask for from there on.
LEMMA AlongTail ==
  ASSUME NEW r, NEW images, NEW n \in Nat, NEW of, Along(r, images, n, of), r # <<>>
  PROVE  Head(r) = r[1] /\ RestAlong(r, Tail(r), images, n, of)
<1> DEFINE t == Tail(r)
           N == Len(r)
           g == [k \in 1 .. N - 1 |-> of[k + 1]]
<1>1. /\ IsSequence(t) /\ Len(t) = N - 1 /\ N \in Nat \ {0} /\ Head(r) = r[1]
      /\ \A k \in 1 .. N - 1 : t[k] = r[k + 1]
  BY SequenceTail DEF Along
<1>2. t = <<>> <=> Len(t) = 0
  BY <1>1, NothingInIt
<1>3. /\ \A k \in 1 .. N : /\ of[k] \in 1 .. n /\ r[k].op \in OpsOf(images[of[k]])
                           /\ r[k] = RequestOf(images[of[k]], r[k].op)
      /\ \A k \in 1 .. N - 1 :
           IF r[k].op = "save"
           THEN of[k + 1] = of[k] + 1 /\ r[k + 1].op = FirstOp(images[of[k + 1]])
           ELSE of[k + 1] = of[k] /\ r[k + 1].op = AfterOp(images[of[k]], r[k].op)
      /\ r[N].op = "save" /\ of[N] = n
  BY <1>1 DEF Along
<1>4. \A k \in 1 .. N - 1 : g[k] = of[k + 1]
  OBVIOUS
<1> HIDE DEF t, N, g
<1>5. ASSUME NEW k \in 1 .. N - 1
      PROVE  /\ g[k] \in 1 .. n /\ t[k].op \in OpsOf(images[g[k]])
             /\ t[k] = RequestOf(images[g[k]], t[k].op)
  <2> DEFINE m == k + 1
  <2>1. m \in 1 .. N /\ t[k] = r[m] /\ g[k] = of[m]
    BY <1>1, <1>4
  <2> HIDE DEF m
  <2>. QED
    BY <1>3, <2>1
<1>6. ASSUME NEW k \in 1 .. N - 2
      PROVE  IF t[k].op = "save"
             THEN g[k + 1] = g[k] + 1 /\ t[k + 1].op = FirstOp(images[g[k + 1]])
             ELSE g[k + 1] = g[k] /\ t[k + 1].op = AfterOp(images[g[k]], t[k].op)
  <2> DEFINE m == k + 1
             l == m + 1
  <2>1. m \in 1 .. N - 1 /\ k \in 1 .. N - 1
    BY <1>1
  <2>2. IF r[m].op = "save"
        THEN of[l] = of[m] + 1 /\ r[l].op = FirstOp(images[of[l]])
        ELSE of[l] = of[m] /\ r[l].op = AfterOp(images[of[m]], r[m].op)
    BY <1>3, <2>1
  <2>3. t[k] = r[m] /\ g[k] = of[m] /\ t[m] = r[l] /\ g[m] = of[l]
    BY <1>1, <1>4, <2>1
  <2> HIDE DEF l, m
  <2>4. IF t[k].op = "save"
        THEN g[m] = g[k] + 1 /\ t[m].op = FirstOp(images[g[m]])
        ELSE g[m] = g[k] /\ t[m].op = AfterOp(images[g[k]], t[k].op)
    BY <2>2, <2>3
  <2>. QED
    BY <2>4 DEF m
<1>7. N - 1 # 0 => t[N - 1] = r[N] /\ g[N - 1] = of[N]
  BY <1>1, <1>4
<1>8. Along(t, images, n, g)
  BY <1>1, <1>3, <1>5, <1>6, <1>7 DEF Along
<1>9. N - 1 # 0 => t[1] = r[2] /\ g[1] = of[2] /\ 1 \in 1 .. N - 1
  BY <1>1, <1>4
<1>10. N - 1 # 0 => IF r[1].op = "save"
                    THEN of[2] = of[1] + 1 /\ r[2].op = FirstOp(images[of[2]])
                    ELSE of[2] = of[1] /\ r[2].op = AfterOp(images[of[1]], r[1].op)
  BY <1>3, <1>9
<1>11. N - 1 # 0 => IF r[1].op = "save"
                    THEN g[1] = of[1] + 1 /\ t[1].op = FirstOp(images[g[1]])
                    ELSE g[1] = of[1] /\ t[1].op = AfterOp(images[g[1]], r[1].op)
  BY <1>9, <1>10
<1>12. 1 \in 1 .. N
  BY <1>1
<1>13. N - 1 = 0 => r[1].op = "save" /\ of[1] = n
  BY <1>1, <1>3
<1>14. 1 \in 1 .. N => of[1] \in 1 .. n /\ r[1].op \in OpsOf(images[of[1]])
                        /\ r[1] = RequestOf(images[of[1]], r[1].op)
  BY <1>3
<1> HIDE DEF t, N, g
<1>15. RestAlong(r, t, images, n, of)
  BY <1>1, <1>2, <1>8, <1>11, <1>12, <1>13, <1>14 DEF RestAlong, N
<1>. QED
  BY <1>1, <1>15 DEF t

(***************************************************************************)
(* What an export asks of the product.                                     *)
(***************************************************************************)
\* A file as the user may give it: none, or a path.
FileValue(v) == IsNull(v) \/ (v.t = "str" /\ TextFormed(v))

\* A file of the run's directory of outputs is resolved, and is where it is wherever it
\* is looked at from.
LEMMA OutputSettles ==
  ASSUME NEW v, FileValue(v), NEW default, NEW x
  PROVE  LET f == OutputFile(v, default)
         IN f = Absolute(f.parts) /\ IsProperPath(f.parts) /\ NormalizePathValue(f, x) = f
<1> DEFINE w == IF IsNull(v) \/ Blank(v) THEN Word(default) ELSE v
           u == IF w.abs THEN w.parts ELSE OutputDir \o w.parts
           p == Resolve(u)
           f == OutputFile(v, default)
<1>1. IsSequence(w.parts)
  <2>1. CASE IsNull(v) \/ Blank(v)
    <3>1. w.parts = <<default>>
      BY <2>1 DEF Word, Text
    <3>. QED
      BY <3>1, SequenceOne
  <2>2. CASE ~(IsNull(v) \/ Blank(v))
    BY <2>2 DEF TextFormed, FileValue
  <2>. QED
    BY <2>1, <2>2
<1>2. f = Absolute(p)
  BY DEF OutputFile, NormalizePath
<1> HIDE DEF w, f
<1>3. IsSequence(u)
  BY <1>1, OutputAssumption, SequenceConcat
<1> HIDE DEF u
<1>4. IsProperPath(p)
  BY <1>3, ResolvedIsProper
<1>5. Resolve(p) = p
  BY <1>4, ProperStays
<1> HIDE DEF p
<1>6. f.parts = p /\ f.abs = TRUE
  BY <1>2 DEF Absolute
<1>7. NormalizePathValue(f, x) = Absolute(p)
  BY <1>5, <1>6 DEF NormalizePathValue, NormalizePath
<1>. QED
  BY <1>2, <1>4, <1>6, <1>7 DEF f

\* An image as compile_program hands it to the export, and as it gets to the session.
Placed(image) == [image EXCEPT !.file_name = OutputFile(@, "picture")]
AtSession(image, x) == Kept(Placed(image), x)

\* Only the file is another.
LEMMA PlacedFit ==
  ASSUME NEW image, ImageFit(image)
  PROVE  LET g == Placed(image)
         IN /\ DOMAIN g = DOMAIN image /\ g.file_name = PictureFile(image)
            /\ \A n \in DOMAIN image \ {"file_name"} : g[n] = image[n]
<1> DEFINE f == OutputFile(image.file_name, "picture")
           g == [image EXCEPT !.file_name = f]
<1>1. /\ "file_name" \in DOMAIN image /\ image = [n \in DOMAIN image |-> image[n]]
  BY DEF ImageFit
<1>2. Placed(image) = g
  BY DEF Placed
<1>3. PictureFile(image) = f
  BY DEF PictureFile
<1> HIDE DEF f
<1>4. DOMAIN g = DOMAIN image /\ g.file_name = f
      /\ \A n \in DOMAIN image \ {"file_name"} : g[n] = image[n]
  BY <1>1
<1>. QED
  BY <1>2, <1>3, <1>4

\* The session gets the image as the spec has it, its defaults filled in before.
LEMMA KeptFit ==
  ASSUME NEW image, ImageFit(image), NEW x
  PROVE  LET g == AtSession(image, x)
         IN /\ "contour" \in DOMAIN g <=> "contour" \in DOMAIN image
            /\ "contour" \in DOMAIN image => g.contour = image.contour
            /\ g.picture_state = image.picture_state
            /\ g.file_name = PictureFile(image)
<1> DEFINE p == Placed(image)
           w == WithDefaults(p)
           g == AtSession(image, x)
           f == PictureFile(image)
<1>1. /\ {"name", "file_name", "kind", "picture_state"} \subseteq DOMAIN image
      /\ IsName(image.file_name) /\ TextFormed(image.file_name)
      /\ "contour" \in DOMAIN image =>
           image.contour = Dict([object_name |-> image.contour.fields.object_name,
                                 state |-> image.contour.fields.state])
  BY DEF ImageFit
<1>2. /\ DOMAIN p = DOMAIN image /\ p.file_name = f
      /\ \A n \in DOMAIN image \ {"file_name"} : p[n] = image[n]
  BY PlacedFit
<1>3. NormalizePathValue(f, x) = f
  BY <1>1, OutputSettles DEF PictureFile, IsName, FileValue
<1> HIDE DEF p
<1>4. /\ w = [n \in DOMAIN w |-> w[n]]
      /\ DOMAIN w = DOMAIN p \cup {"kind", "picture_state"}
      /\ \A n \in DOMAIN p \ {"contour"} : w[n] = p[n]
      /\ w.picture_state = Field(p, "picture_state", Dict(<<>>))
      /\ "contour" \in DOMAIN p =>
           w.contour = Dict([object_name |-> ObjectName(p.contour, p.name),
                             state |-> Field(p.contour.fields, "state", Dict(<<>>))])
  BY DefaultsOnce
<1>5. g = [w EXCEPT !.file_name = NormalizePathValue(@, x)]
  BY DEF AtSession, Kept, p
<1> HIDE DEF w, g, f
<1>6. /\ w.file_name = f /\ "file_name" \in DOMAIN w
      /\ w.picture_state = image.picture_state
      /\ DOMAIN w = DOMAIN image
  BY <1>1, <1>2, <1>4
<1>7. /\ DOMAIN g = DOMAIN w /\ g.file_name = f
      /\ \A n \in DOMAIN w \ {"file_name"} : g[n] = w[n]
  BY <1>3, <1>4, <1>5, <1>6
<1>8. "contour" \in DOMAIN image => w.contour = image.contour
  <2> SUFFICES ASSUME "contour" \in DOMAIN image PROVE w.contour = image.contour
    OBVIOUS
  <2>1. p.contour = image.contour
    BY <1>2
  <2> DEFINE c == image.contour.fields
  <2>2. image.contour = Dict([object_name |-> c.object_name, state |-> c.state])
    BY <1>1
  <2>3. c = [object_name |-> c.object_name, state |-> c.state]
    BY <2>2 DEF Dict
  <2>4. {"object_name", "state"} \subseteq DOMAIN c
    BY <2>3
  <2>5. ObjectName(p.contour, p.name) = c.object_name
        /\ Field(p.contour.fields, "state", Dict(<<>>)) = c.state
    BY <2>1, <2>4 DEF ObjectName, Field
  <2>. QED
    BY <1>2, <1>4, <2>2, <2>5
<1>9. g.picture_state = image.picture_state
  BY <1>1, <1>6, <1>7
<1>. QED
  BY <1>6, <1>7, <1>8, <1>9 DEF g, f

\* An export that was let through asks for all images of the run, one after the other.
LEMMA ExportRequests ==
  ASSUME NEW s, SpecFormed(s), NEW e, FormedCall(e, s), e.action = "export_results",
         NEW x, NEW q, PrepareAction(e.action, e.params, x) = Accepted(q)
  PROVE  LET m == s.outputs.images
             r == Requests(e.action, q)
         IN \E of : Along(r, m, Len(m), of) /\ FromFirst(r, m, Len(m), of)
<1> DEFINE m == s.outputs.images
           p == e.params
           v == FieldValues(e.action, p, x)
           N == Len(m)
<1>1. /\ Entitled(e.action, x) /\ FieldsOk(e.action, p, x)
      /\ q = Rewritten(e.action, v, x)
  BY Accepting
<1>2. p = [images |-> Images(m)]
  BY DEF FormedCall, Readers, Writers, Solve
<1>3. v.images = p.images /\ "images" \in DOMAIN v
  BY <1>1, <1>2, ValuesStay DEF FileActions
<1>4. q = [v EXCEPT !.images = ImagesInside(@, x)]
  BY <1>1 DEF Rewritten
<1>5. p.images = Images(m)
  BY <1>2
<1>6. /\ IsSequence(m) /\ DOMAIN m = 1 .. N /\ N \in Nat
      /\ \A k \in 1 .. N : ImageFit(m[k])
  BY SequenceDomain DEF SpecFormed, SpecSound
<1>7. Requests(e.action, q) =
        FlattenSeq([k \in DOMAIN q.images.items |-> ImageRequests(q.images.items[k].fields)])
  BY DEF Requests
<1> HIDE DEF v, p
<1>8. q.images = ImagesInside(Images(m), x)
  BY <1>3, <1>4, <1>5
<1> DEFINE given == Images(m).items
           items == q.images.items
           r == [k \in DOMAIN items |-> ImageRequests(items[k].fields)]
<1>9. DOMAIN given = 1 .. N /\ \A k \in 1 .. N : given[k].fields = Placed(m[k])
  BY <1>6 DEF Images, List, Dict, Placed
<1>10. /\ DOMAIN items = DOMAIN given
       /\ \A k \in DOMAIN given : items[k].fields = [WithDefaults(given[k].fields)
                                      EXCEPT !.file_name = NormalizePathValue(@, x)]
  <2> DEFINE l == Images(m)
             g(k) == [WithDefaults(l.items[k].fields)
                        EXCEPT !.file_name = NormalizePathValue(@, x)]
             i == [k \in DOMAIN l.items |-> Dict(g(k))]
  <2>1. ImagesInside(l, x) = List(i)
    BY DEF ImagesInside
  <2> HIDE DEF l, g
  <2>2. q.images = List(i)
    BY <1>8, <2>1 DEF l
  <2>3. items = i
    BY <2>2 DEF List
  <2>4. DOMAIN items = DOMAIN l.items /\ \A k \in DOMAIN l.items : items[k].fields = g(k)
    BY <2>3 DEF Dict
  <2>. QED
    BY <2>4 DEF l, g
<1>11. DOMAIN items = 1 .. N /\ \A k \in 1 .. N : items[k].fields = AtSession(m[k], x)
  BY <1>9, <1>10 DEF AtSession, Kept
<1> HIDE DEF given, items
<1>12. r = [k \in 1 .. N |-> r[k]] /\ \A k \in 1 .. N : r[k] = ImageRequests(AtSession(m[k], x))
  BY <1>11
<1>13. FlattenSeq(r) = Requests(e.action, q)
  BY <1>7 DEF items
<1> HIDE DEF r, m, N
<1>14. IsSequence(r) /\ Len(r) = N
  BY <1>6, <1>12, SequenceOf
<1>15. ASSUME NEW k \in 1 .. Len(r) PROVE Chain(r[k], m[k], FirstOp(m[k]), "done")
  <2> DEFINE im == m[k]
             g == AtSession(im, x)
  <2>1. ImageFit(im) /\ r[k] = ImageRequests(g)
    BY <1>6, <1>12, <1>14
  <2> HIDE DEF im
  <2>2. /\ "contour" \in DOMAIN g <=> "contour" \in DOMAIN im
        /\ "contour" \in DOMAIN im => g.contour = im.contour
        /\ g.picture_state = im.picture_state
        /\ g.file_name = PictureFile(im)
    BY <2>1, KeptFit
  <2> HIDE DEF g
  <2>3. Chain(ImageRequests(g), im, FirstOp(im), "done")
    BY <2>2, ImageChain
  <2>. QED
    BY <2>1, <2>3 DEF im
<1>16. Len(r) = Len(m)
  BY <1>14 DEF N
<1>17. \E of : Along(FlattenSeq(r), m, Len(m), of) /\ FromFirst(FlattenSeq(r), m, Len(m), of)
  BY <1>6, <1>14, <1>15, <1>16, AlongAll
<1>. QED
  BY <1>13, <1>17 DEF m

\* Requests that are not about pictures.
Pictureless(r) == IsSequence(r) /\ \A k \in 1 .. Len(r) : r[k].op \notin PictureOps

\* No other call asks for anything of the kind.
LEMMA PlainRequests ==
  ASSUME NEW s, SpecFormed(s), NEW e, FormedCall(e, s), e.action # "export_results",
         e.action \in SolveActions => Solves(e, s),
         NEW x, NEW q, PrepareAction(e.action, e.params, x) = Accepted(q)
  PROVE  Pictureless(Requests(e.action, q))
<1> DEFINE r == Requests(e.action, q)
<1>1. \A op, with : Request(op, with).op = op /\ Tried(op, with).op = op
  BY DEF Request, Tried
<1>2. ASSUME NEW y, y.op \notin PictureOps PROVE Pictureless(<<y>>)
  <2> DEFINE a == <<y>>
  <2>1. IsSequence(a) /\ Len(a) = 1 /\ a[1] = y
    BY SequenceOne
  <2> HIDE DEF a
  <2>2. Pictureless(a)
    BY <1>2, <2>1 DEF Pictureless
  <2>. QED
    BY <2>2 DEF a
<1>3. ASSUME NEW y, y.op \notin PictureOps, NEW z, z.op \notin PictureOps
      PROVE  Pictureless(<<y, z>>)
  <2> DEFINE a == <<y, z>>
  <2>1. a \in Seq({y, z}) /\ Len(a) = 2 /\ a[1] = y /\ a[2] = z
    OBVIOUS
  <2> HIDE DEF a
  <2>2. IsSequence(a)
    BY <2>1, SequenceIn
  <2>3. Pictureless(a)
    BY <1>3, <2>1, <2>2 DEF Pictureless
  <2>. QED
    BY <2>3 DEF a
<1>4. CASE e.action \in SolveActions
  <2> DEFINE y == Request("set_size", s.stepSize)
             z == Request("solve", SizeOf(e))
  <2>1. r = IF s.workflow = "steady" THEN <<z>> ELSE <<y>> \o <<z>>
    BY <1>4, SolveRequests
  <2>2. y.op \notin PictureOps /\ z.op \notin PictureOps
    BY <1>1 DEF PictureOps
  <2> HIDE DEF y, z, r
  <2>3. <<y>> \o <<z>> = <<y, z>>
    BY TwoInARow
  <2>4. Pictureless(<<z>>) /\ Pictureless(<<y, z>>)
    BY <1>2, <1>3, <2>2
  <2>5. Pictureless(r)
    BY <2>1, <2>3, <2>4
  <2>. QED
    BY <2>5 DEF r
<1>5. CASE e.action = "collect_reports"
  <2>1. Quiet(r)
    BY <1>5, QuietRequests DEF SolveActions
  <2>2. IsSequence(r) /\ DOMAIN r = 1 .. Len(r)
    BY <2>1, SequenceDomain DEF Quiet
  <2> DEFINE m == q.reports.items
  <2>3. r = [k \in DOMAIN m |-> Request("report", m[k].fields.name)]
    BY <1>5 DEF Requests
  <2> HIDE DEF r, m
  <2>4. ASSUME NEW k \in 1 .. Len(r) PROVE r[k].op \notin PictureOps
    <3>1. r[k] = Request("report", m[k].fields.name)
      BY <2>2, <2>3
    <3>. QED
      BY <1>1, <3>1 DEF PictureOps
  <2>5. Pictureless(r)
    BY <2>2, <2>4 DEF Pictureless
  <2>. QED
    BY <2>5 DEF r
<1>6. CASE e.action = "get_solver_health"
  <2> DEFINE y == Request("state", None)
             z == Tried("report", None)
  <2>1. r = <<y, z>>
    BY <1>6 DEF Requests
  <2>2. y.op \notin PictureOps /\ z.op \notin PictureOps
    BY <1>1 DEF PictureOps
  <2> HIDE DEF y, z, r
  <2>3. Pictureless(r)
    BY <1>3, <2>1, <2>2
  <2>. QED
    BY <2>3 DEF r
<1>7. CASE e.action \in {"write_case", "write_case_data", "write_data", "checkpoint_case_data"}
  <2> DEFINE y == Request("write", q.file_name)
  <2>1. r = <<y>>
    BY <1>7 DEF Requests
  <2>2. y.op \notin PictureOps
    BY <1>1 DEF PictureOps
  <2> HIDE DEF y, r
  <2>3. Pictureless(r)
    BY <1>2, <2>1, <2>2
  <2>. QED
    BY <2>3 DEF r
<1>8. CASE e.action \notin {"run_iterations", "run_time_steps", "collect_reports",
                            "get_solver_health", "write_case", "write_case_data",
                            "write_data", "checkpoint_case_data"}
  <2> DEFINE y == Request(e.action, q)
  <2>1. r = <<y>>
    BY <1>8 DEF Requests
  <2>2. e.action \in Readers \cup Writers \cup {"set_state", "initialize_solution"}
    BY <1>8 DEF FormedCall, Solve
  <2>3. y.op \notin PictureOps
    BY <1>1, <2>2 DEF PictureOps, Readers, Writers
  <2> HIDE DEF y, r
  <2>4. Pictureless(r)
    BY <1>2, <2>1, <2>3
  <2>. QED
    BY <2>4 DEF r
<1>. QED
  BY <1>4, <1>5, <1>6, <1>7, <1>8 DEF SolveActions

-----------------------------------------------------------------------------
(***************************************************************************)
(* Which calls of a run the policy lets through.                           *)
(***************************************************************************)
\* The parameters of the calls of a run, and whom they are for.
LEMMA RunParameters ==
  /\ Parameters["set_state"] = [path |-> Optional("string"), state |-> Needed("any")]
  /\ Parameters["run_iterations"] = [count |-> Needed("integer")]
  /\ Parameters["run_time_steps"] = [step_count |-> Needed("integer"),
                                     max_iterations_per_step |-> Needed("integer"),
                                     time_step_size |-> Optional("number")]
  /\ Parameters["collect_reports"] = [reports |-> Needed("array")]
  /\ Parameters["get_solver_health"] = <<>>
  /\ DOMAIN Parameters = FileActions \cup PlainActions \cup DOMAIN OtherParameters
<1> DEFINE F == [a \in FileActions |-> [file_name |-> Needed("path")]]
           P == [a \in PlainActions |-> <<>>]
<1>1. Parameters = Over(F, Over(P, OtherParameters))
  BY DEF Parameters
<1>2. ASSUME NEW a \in DOMAIN OtherParameters, a \notin FileActions, a \notin PlainActions
      PROVE  Parameters[a] = OtherParameters[a]
  <2>1. a \notin DOMAIN F /\ a \notin DOMAIN P
    BY <1>2
  <2> HIDE DEF F, P
  <2>. QED
    BY <1>1, <1>2, <2>1 DEF Over
<1>3. DOMAIN F = FileActions /\ DOMAIN P = PlainActions
      /\ P["get_solver_health"] = <<>> /\ "get_solver_health" \in PlainActions
      /\ "get_solver_health" \notin FileActions
  BY DEF PlainActions, FileActions
<1> DEFINE o == OtherParameters
<1>4. {"set_state", "run_iterations", "run_time_steps", "collect_reports"} \subseteq DOMAIN o
  BY DEF OtherParameters
<1>5. o["set_state"] = [path |-> Optional("string"), state |-> Needed("any")]
  BY DEF OtherParameters
<1>6. o["run_iterations"] = [count |-> Needed("integer")]
  BY DEF OtherParameters
<1>7. o["run_time_steps"] = [step_count |-> Needed("integer"),
                             max_iterations_per_step |-> Needed("integer"),
                             time_step_size |-> Optional("number")]
  BY DEF OtherParameters
<1>8. o["collect_reports"] = [reports |-> Needed("array")]
  BY DEF OtherParameters
<1> HIDE DEF F, P
<1>9. DOMAIN Parameters = FileActions \cup PlainActions \cup DOMAIN OtherParameters
      /\ Parameters["get_solver_health"] = <<>>
  BY <1>1, <1>3 DEF Over
<1>. QED
  BY <1>2, <1>4, <1>5, <1>6, <1>7, <1>8, <1>9 DEF FileActions, PlainActions

\* The worker's session may do all that a run's calls do.
LEMMA RunEntitled ==
  ASSUME NEW s, NEW e, FormedCall(e, s)
  PROVE  Entitled(e.action, Context)
<1>1. /\ Context.profile = "safe" /\ Context.adapter = "fluent" /\ Context.raw = FALSE
  BY DEF Context
<1>2. e.action \in FileActions \cup {"set_state", "initialize_solution", "run_iterations",
                                     "run_time_steps", "collect_reports", "export_results",
                                     "get_solver_health"}
  BY DEF FormedCall, Readers, Writers, Solve, FileActions
<1>3. {"set_state", "initialize_solution", "run_iterations", "run_time_steps",
       "collect_reports", "export_results"} \subseteq DOMAIN OtherParameters
  BY DEF OtherParameters
<1>4. "get_solver_health" \in PlainActions
  BY DEF PlainActions
<1>5. e.action \in DOMAIN Parameters
  BY <1>2, <1>3, <1>4, RunParameters
<1>6. e.action \notin {"script", "python"} /\ e.action \notin RawActions
  BY <1>2 DEF FileActions, RawActions
<1>7. Actions["fluent"] = DOMAIN Parameters \ {"script", "python"} /\ "fluent" \in DOMAIN Actions
  BY DEF Actions
<1>. QED
  BY <1>1, <1>5, <1>6, <1>7 DEF Entitled, Profiles

\* What a refusal comes to, for who is entitled.
LEMMA RefusedOver ==
  ASSUME NEW a, NEW p, NEW x, Entitled(a, x), ~PrepareAction(a, p, x).ok, FieldsOk(a, p, x)
  PROVE  ~Demands(a, FieldValues(a, p, x), x)
<1>1. \A q : Accepted(q).ok
  BY DEF Accepted
<1>. QED
  BY <1>1 DEF PrepareAction

\* A call on a file is refused over where the file lies.
LEMMA FilePlace ==
  ASSUME NEW a \in FileActions, NEW f, NEW p, p = [file_name |-> f], NEW x, Entitled(a, x),
         ~PrepareAction(a, p, x).ok
  PROVE  ~PathOk(f, x)
<1> SUFFICES ASSUME PathOk(f, x) PROVE FALSE
  OBVIOUS
<1> DEFINE v == FieldValues(a, p, x)
           n == NormalizePathValue(f, x)
<1>1. Parameters[a] = [file_name |-> Needed("path")]
  BY ParametersOf
<1>2. Needed("path").kind = "path" /\ ~Needed("path").repeated
  BY DEF Needed
<1>3. f.t = "str" /\ Types["path"] = {"str"}
  BY DEF PathOk, Types
<1>4. FieldOk(Needed("path"), f, x)
  BY <1>2, <1>3 DEF FieldOk
<1>5. FieldsOk(a, p, x)
  BY <1>1, <1>4 DEF FieldsOk
<1>6. v.file_name = n
  BY <1>1, <1>2 DEF FieldValues, FieldValue
<1>7. IsName(n)
  BY DEF NormalizePathValue, Absolute, IsName, Blank
<1> HIDE DEF v, n
<1>8. Demands(a, v, x)
  <2>1. CASE a = "checkpoint_case_data"
    BY <1>6, <1>7, <2>1 DEF Demands
  <2>2. CASE a # "checkpoint_case_data"
    BY <2>2 DEF Demands, FileActions
  <2>. QED
    BY <2>1, <2>2
<1>. QED
  BY <1>5, <1>8, RefusedOver DEF v

\* Kinds of parameters that are no paths.
LEMMA KindsOk ==
  ASSUME NEW v, NEW x, NEW kind, kind # "path", v.t \in Types[kind]
  PROVE  FieldOk(Needed(kind), v, x) /\ FieldOk(Optional(kind), v, x)
BY DEF FieldOk, Needed, Optional

\* A call that changes the settings, or initializes the solution, goes through.
LEMMA SettingsPass ==
  ASSUME NEW p, NEW x, NEW w, w.t = "str", NEW s, SpecFormed(s)
  PROVE  /\ Entitled("set_state", x) /\ p = [path |-> w, state |-> None] =>
              PrepareAction("set_state", p, x).ok
         /\ Entitled("initialize_solution", x) /\ p = [method |-> s.method] =>
              PrepareAction("initialize_solution", p, x).ok
         /\ Entitled("get_solver_health", x) /\ p = <<>> =>
              PrepareAction("get_solver_health", p, x).ok
<1>1. None.t \in Types["any"] /\ w.t \in Types["string"]
  BY DEF None, Types
<1>2. ASSUME Entitled("set_state", x), p = [path |-> w, state |-> None]
      PROVE  PrepareAction("set_state", p, x).ok
  <2>1. FieldOk(Optional("string"), w, x) /\ FieldOk(Needed("any"), None, x)
    BY <1>1, KindsOk
  <2>2. Parameters["set_state"] = [path |-> Optional("string"), state |-> Needed("any")]
    BY RunParameters
  <2>3. FieldsOk("set_state", p, x)
    BY <1>2, <2>1, <2>2 DEF FieldsOk
  <2>4. \A v : Demands("set_state", v, x)
    BY DEF Demands
  <2>. QED
    BY <1>2, <2>3, <2>4, RefusedOver
<1>3. ASSUME Entitled("initialize_solution", x), p = [method |-> s.method]
      PROVE  PrepareAction("initialize_solution", p, x).ok
  <2>1. s.method \in {Word("hybrid"), Word("standard")}
    BY DEF SpecFormed, SpecSound
  <2>2. s.method.t \in Types["string"]
    BY <2>1 DEF Types, Word, Text
  <2>3. FieldOk(Optional("string"), s.method, x)
    BY <2>2, KindsOk
  <2>4. Parameters["initialize_solution"] = [method |-> Optional("string")]
    BY ParametersOf
  <2>5. FieldsOk("initialize_solution", p, x)
    BY <1>3, <2>3, <2>4 DEF FieldsOk
  <2> DEFINE v == FieldValues("initialize_solution", p, x)
  <2>6. DOMAIN v = DOMAIN p /\ \A n \in DOMAIN p : v[n] = p[n]
    BY <1>3, <2>5, ValuesStay DEF FileActions
  <2> HIDE DEF v
  <2>7. "method" \in DOMAIN v /\ v.method = s.method
    BY <1>3, <2>6
  <2>8. Demands("initialize_solution", v, x)
    BY <2>1, <2>7 DEF Demands, Field
  <2>. QED
    BY <1>3, <2>5, <2>8, RefusedOver DEF v
<1>4. ASSUME Entitled("get_solver_health", x), p = <<>>
      PROVE  PrepareAction("get_solver_health", p, x).ok
  <2>1. Parameters["get_solver_health"] = <<>>
    BY RunParameters
  <2>2. FieldsOk("get_solver_health", p, x)
    BY <1>4, <2>1 DEF FieldsOk
  <2>3. \A v : Demands("get_solver_health", v, x)
    BY DEF Demands
  <2>. QED
    BY <1>4, <2>2, <2>3, RefusedOver
<1>. QED
  BY <1>2, <1>3, <1>4

\* A call that solves goes through.
LEMMA SolvingPasses ==
  ASSUME NEW s, SpecFormed(s), NEW n \in Nat \ {0}, NEW p, NEW x
  PROVE  /\ Entitled("run_iterations", x) /\ p = [count |-> Whole(n)] =>
              PrepareAction("run_iterations", p, x).ok
         /\ Entitled("run_time_steps", x) /\ s.workflow # "steady"
              /\ p = Over([step_count |-> Whole(n)], Solve(s).params) =>
              PrepareAction("run_time_steps", p, x).ok
<1>1. IsPositive(Whole(n), {"int"}) /\ Whole(n).t = "int"
  BY DEF IsPositive, Whole
<1>2. /\ Types["integer"] = {"int"} /\ Types["number"] = {"int", "float"}
  BY DEF Types
<1>3. ASSUME Entitled("run_iterations", x), p = [count |-> Whole(n)]
      PROVE  PrepareAction("run_iterations", p, x).ok
  <2>1. FieldOk(Needed("integer"), Whole(n), x)
    BY <1>1, <1>2, KindsOk
  <2>2. Parameters["run_iterations"] = [count |-> Needed("integer")]
    BY RunParameters
  <2>3. FieldsOk("run_iterations", p, x)
    BY <1>3, <2>1, <2>2 DEF FieldsOk
  <2> DEFINE v == FieldValues("run_iterations", p, x)
  <2>4. DOMAIN v = DOMAIN p /\ \A k \in DOMAIN p : v[k] = p[k]
    BY <1>3, <2>3, ValuesStay DEF FileActions
  <2> HIDE DEF v
  <2>5. \A k \in DOMAIN v : IsPositive(v[k], {"int"})
    BY <1>1, <1>3, <2>4
  <2>6. Demands("run_iterations", v, x)
    BY <2>5 DEF Demands
  <2>. QED
    BY <1>3, <2>3, <2>6, RefusedOver DEF v
<1>4. ASSUME Entitled("run_time_steps", x), s.workflow # "steady",
             p = Over([step_count |-> Whole(n)], Solve(s).params)
      PROVE  PrepareAction("run_time_steps", p, x).ok
  <2>1. IsPositive(s.stepSize, {"float"}) /\ IsPositive(s.perStep, {"int"})
    BY <1>4 DEF SpecFormed, SpecSound
  <2>2. Solve(s).params = [max_iterations_per_step |-> s.perStep, time_step_size |-> s.stepSize]
    BY <1>4 DEF Solve
  <2>3. /\ DOMAIN p = {"step_count", "max_iterations_per_step", "time_step_size"}
        /\ p.step_count = Whole(n) /\ p.max_iterations_per_step = s.perStep
        /\ p.time_step_size = s.stepSize
    BY <1>4, <2>2 DEF Over
  <2>4. s.stepSize.t = "float" /\ s.perStep.t = "int"
        /\ IsPositive(s.stepSize, {"int", "float"})
    BY <2>1 DEF IsPositive
  <2>5. /\ FieldOk(Needed("integer"), Whole(n), x) /\ FieldOk(Needed("integer"), s.perStep, x)
        /\ FieldOk(Optional("number"), s.stepSize, x)
    BY <1>1, <1>2, <2>4, KindsOk
  <2>6. Parameters["run_time_steps"] = [step_count |-> Needed("integer"),
                                        max_iterations_per_step |-> Needed("integer"),
                                        time_step_size |-> Optional("number")]
    BY RunParameters
  <2>7. FieldsOk("run_time_steps", p, x)
    BY <2>3, <2>5, <2>6 DEF FieldsOk
  <2> DEFINE v == FieldValues("run_time_steps", p, x)
  <2>8. DOMAIN v = DOMAIN p /\ \A k \in DOMAIN p : v[k] = p[k]
    BY <1>4, <2>7, ValuesStay DEF FileActions
  <2> HIDE DEF v
  <2>9. /\ v.step_count = Whole(n) /\ v.max_iterations_per_step = s.perStep
        /\ v.time_step_size = s.stepSize
    BY <2>3, <2>8
  <2>10. Demands("run_time_steps", v, x)
    BY <1>1, <2>1, <2>4, <2>9 DEF Demands
  <2>. QED
    BY <1>4, <2>7, <2>10, RefusedOver DEF v
<1>. QED
  BY <1>3, <1>4

\* A call for reports goes through.
LEMMA ReportsPass ==
  ASSUME NEW s, SpecFormed(s), s.outputs.reports # <<>>, NEW x,
         Entitled("collect_reports", x), NEW p, p = [reports |-> List(s.outputs.reports)]
  PROVE  PrepareAction("collect_reports", p, x).ok
<1> DEFINE m == s.outputs.reports
           l == List(m)
           v == FieldValues("collect_reports", p, x)
<1>1. l.t = "list" /\ l.items = m /\ Types["array"] = {"list"}
  BY DEF List, Types
<1>2. FieldOk(Needed("array"), l, x)
  BY <1>1, KindsOk
<1>3. DOMAIN m = 1 .. Len(m) /\ \A k \in 1 .. Len(m) : ReportOk(m[k])
  BY SequenceDomain DEF SpecFormed, SpecSound
<1>4. Parameters["collect_reports"] = [reports |-> Needed("array")]
  BY RunParameters
<1>5. p = [reports |-> l] /\ m # <<>>
  OBVIOUS
<1> HIDE DEF l, m
<1>6. FieldsOk("collect_reports", p, x)
  BY <1>2, <1>4, <1>5 DEF FieldsOk
<1>7. DOMAIN v = DOMAIN p /\ \A n \in DOMAIN p : v[n] = p[n]
  BY <1>6, ValuesStay DEF FileActions
<1> HIDE DEF v
<1>8. v.reports = l
  BY <1>5, <1>7
<1>9. Demands("collect_reports", v, x)
  BY <1>1, <1>3, <1>5, <1>8 DEF Demands, IsNonEmptyList
<1>. QED
  BY <1>6, <1>9, RefusedOver DEF v

\* An image whose file lies where it may goes through.
LEMMA ImagePasses ==
  ASSUME NEW image, ImageFit(image), NEW x, PathOk(PictureFile(image), x)
  PROVE  ImageOk(Dict(Placed(image)), x)
<1> DEFINE g == Placed(image)
           f == PictureFile(image)
           d == Dict(g)
<1>1. /\ {"name", "file_name", "kind", "picture_state"} \subseteq DOMAIN image
      /\ IsName(image.name)
      /\ image.kind \in {Word("picture"), Word("contour")}
      /\ image.picture_state.t = "dict"
      /\ "contour" \in DOMAIN image =>
           LET c == image.contour.fields
           IN /\ image.contour = Dict([object_name |-> c.object_name, state |-> c.state])
              /\ IsName(c.object_name) /\ c.state.t = "dict"
  BY DEF ImageFit
<1>2. /\ DOMAIN g = DOMAIN image /\ g.file_name = f
      /\ \A n \in DOMAIN image \ {"file_name"} : g[n] = image[n]
  BY PlacedFit
<1>3. IsName(f)
  BY DEF PictureFile, OutputFile, Absolute, IsName, Blank
<1>4. d.t = "dict" /\ d.fields = g
  BY DEF Dict
<1> HIDE DEF g, f, d
<1>5. /\ Field(d.fields, "name", None) = image.name /\ Field(d.fields, "file_name", None) = f
      /\ Field(d.fields, "kind", Word("picture")) = image.kind
      /\ Field(d.fields, "picture_state", Dict(<<>>)) = image.picture_state
  BY <1>1, <1>2, <1>4 DEF Field
<1>6. ASSUME "contour" \in DOMAIN d.fields PROVE ContourOk(d.fields.contour, image.name)
  <2> DEFINE c == image.contour.fields
  <2>1. "contour" \in DOMAIN image /\ d.fields.contour = image.contour
    BY <1>2, <1>4, <1>6
  <2>2. /\ image.contour = Dict([object_name |-> c.object_name, state |-> c.state])
        /\ IsName(c.object_name) /\ c.state.t = "dict"
    BY <1>1, <2>1
  <2>3. image.contour.t = "dict" /\ c = [object_name |-> c.object_name, state |-> c.state]
    BY <2>2 DEF Dict
  <2>4. {"object_name", "state"} \subseteq DOMAIN c
    BY <2>3
  <2>5. /\ ObjectName(image.contour, image.name) = c.object_name
        /\ Field(c, "state", Dict(<<>>)) = c.state
    BY <2>4 DEF ObjectName, Field
  <2>. QED
    BY <2>1, <2>2, <2>3, <2>5 DEF ContourOk
<1>7. PathOk(f, x)
  BY DEF f
<1>8. ImageOk(d, x)
  BY <1>1, <1>3, <1>4, <1>5, <1>6, <1>7 DEF ImageOk
<1>. QED
  BY <1>8 DEF d, g

\* The images of an export.
LEMMA ImagesPlaced ==
  ASSUME NEW s, SpecFormed(s)
  PROVE  LET m == s.outputs.images
             items == Images(m).items
         IN /\ IsSequence(m) /\ DOMAIN items = 1 .. Len(m) /\ Len(m) \in Nat
            /\ \A k \in 1 .. Len(m) : ImageFit(m[k]) /\ items[k] = Dict(Placed(m[k]))
<1> DEFINE m == s.outputs.images
<1>1. /\ IsSequence(m) /\ DOMAIN m = 1 .. Len(m) /\ Len(m) \in Nat
      /\ \A k \in 1 .. Len(m) : ImageFit(m[k])
  BY SequenceDomain DEF SpecFormed, SpecSound
<1> HIDE DEF m
<1>2. Images(m).items = [k \in DOMAIN m |-> Dict(Placed(m[k]))]
  BY DEF Images, List, Placed
<1>. QED
  BY <1>1, <1>2 DEF m

\* An export is refused over where one of its files lies.
LEMMA ExportPlace ==
  ASSUME NEW s, SpecFormed(s), s.outputs.images # <<>>, NEW x, Entitled("export_results", x),
         NEW p, p = [images |-> Images(s.outputs.images)],
         ~PrepareAction("export_results", p, x).ok
  PROVE  \E k \in DOMAIN p.images.items : ~PathOk(p.images.items[k].fields.file_name, x)
<1> SUFFICES ASSUME \A k \in DOMAIN p.images.items :
                      PathOk(p.images.items[k].fields.file_name, x)
             PROVE  FALSE
  OBVIOUS
<1> DEFINE m == s.outputs.images
           l == Images(m)
           v == FieldValues("export_results", p, x)
<1>1. l.t = "list" /\ Types["array"] = {"list"}
  BY DEF Images, List, Types
<1>2. FieldOk(Needed("array"), l, x)
  BY <1>1, KindsOk
<1>3. /\ DOMAIN l.items = 1 .. Len(m) /\ Len(m) \in Nat /\ IsSequence(m)
      /\ \A k \in 1 .. Len(m) : ImageFit(m[k]) /\ l.items[k] = Dict(Placed(m[k]))
  BY ImagesPlaced
<1>4. Parameters["export_results"] = [images |-> Needed("array")]
  BY ParametersOf
<1>5. p = [images |-> l] /\ m # <<>>
  OBVIOUS
<1> HIDE DEF l, m
<1>6. FieldsOk("export_results", p, x)
  BY <1>2, <1>4, <1>5 DEF FieldsOk
<1>7. DOMAIN v = DOMAIN p /\ \A n \in DOMAIN p : v[n] = p[n]
  BY <1>6, ValuesStay DEF FileActions
<1> HIDE DEF v
<1>8. v.images = l
  BY <1>5, <1>7
<1>9. ASSUME NEW k \in DOMAIN l.items PROVE ImageOk(l.items[k], x)
  <2>1. ImageFit(m[k]) /\ l.items[k] = Dict(Placed(m[k]))
    BY <1>3
  <2>2. Placed(m[k]).file_name = PictureFile(m[k])
    BY <2>1, PlacedFit
  <2>3. l.items[k].fields.file_name = PictureFile(m[k])
    BY <2>1, <2>2 DEF Dict
  <2>4. PathOk(l.items[k].fields.file_name, x)
    BY <1>5
  <2>5. PathOk(PictureFile(m[k]), x)
    BY <2>3, <2>4
  <2>. QED
    BY <2>1, <2>5, ImagePasses
<1>10. l.items # <<>>
  <2>1. Len(m) # 0
    BY <1>3, <1>5, NothingInIt
  <2>2. DOMAIN l.items # {} /\ DOMAIN <<>> = {}
    BY <1>3, <2>1
  <2>. QED
    BY <2>2
<1>11. IsNonEmptyList(v.images) /\ \A k \in DOMAIN v.images.items : ImageOk(v.images.items[k], x)
  BY <1>1, <1>8, <1>9, <1>10 DEF IsNonEmptyList
<1>12. Demands("export_results", v, x)
  BY SMTT(60), <1>11 DEF Demands
<1>. QED
  BY <1>6, <1>12, RefusedOver DEF v

\* A call of a run is refused over where a file lies, and over nothing else.
LEMMA RefusedOnlyOverPlace ==
  ASSUME NEW s, SpecFormed(s), NEW e, FormedCall(e, s), NEW x, Entitled(e.action, x),
         ~PrepareAction(e.action, e.params, x).ok
  PROVE  \/ "file_name" \in DOMAIN e.params /\ ~PathOk(e.params.file_name, x)
         \/ "images" \in DOMAIN e.params /\ \E k \in DOMAIN e.params.images.items :
              ~PathOk(e.params.images.items[k].fields.file_name, x)
<1> DEFINE p == e.params
<1>1. CASE e.action \in Readers \cup Writers /\ p = [file_name |-> p.file_name]
  <2>1. e.action \in FileActions
    BY <1>1 DEF Readers, Writers, FileActions
  <2>2. ~PathOk(p.file_name, x)
    BY <1>1, <2>1, FilePlace
  <2>3. "file_name" \in DOMAIN p
    BY <1>1
  <2>. QED
    BY <2>2, <2>3
<1>2. CASE e.action = "set_state" /\ p.path.t = "str" /\ p = [path |-> p.path, state |-> None]
  BY <1>2, SettingsPass
<1>3. CASE e.action = "initialize_solution" /\ p = [method |-> s.method]
  <2>1. Word("hybrid").t = "str"
    BY DEF Word, Text
  <2>. QED
    BY <1>3, <2>1, SettingsPass
<1>4. CASE /\ e.action = Solve(s).action
           /\ \E n \in Nat \ {0} : p = IF s.workflow = "steady" THEN [count |-> Whole(n)]
                                       ELSE Over([step_count |-> Whole(n)], Solve(s).params)
  <2>1. PICK n \in Nat \ {0} : p = IF s.workflow = "steady" THEN [count |-> Whole(n)]
                                    ELSE Over([step_count |-> Whole(n)], Solve(s).params)
    BY <1>4
  <2>2. e.action = IF s.workflow = "steady" THEN "run_iterations" ELSE "run_time_steps"
    BY <1>4 DEF Solve
  <2> HIDE DEF p
  <2>. QED
    BY <2>1, <2>2, SolvingPasses DEF p
<1>5. CASE /\ e.action = "collect_reports" /\ s.outputs.reports # <<>>
           /\ p = [reports |-> List(s.outputs.reports)]
  BY <1>5, ReportsPass
<1>6. CASE /\ e.action = "export_results" /\ s.outputs.images # <<>>
           /\ p = [images |-> Images(s.outputs.images)]
  <2>1. \E k \in DOMAIN p.images.items : ~PathOk(p.images.items[k].fields.file_name, x)
    BY <1>6, ExportPlace
  <2>2. "images" \in DOMAIN p
    BY <1>6
  <2>. QED
    BY <2>1, <2>2
<1>7. CASE e.action = "get_solver_health" /\ p = <<>>
  <2>1. Word("hybrid").t = "str"
    BY DEF Word, Text
  <2>. QED
    BY <1>7, <2>1, SettingsPass
<1>. QED
  BY <1>1, <1>2, <1>3, <1>4, <1>5, <1>6, <1>7 DEF FormedCall

-----------------------------------------------------------------------------
(***************************************************************************)
(* The pictures, and what runs fail over.                                  *)
(***************************************************************************)
\* A run with images exports them.
LEMMA Exporting ==
  ASSUME NEW s, SpecFormed(s), s.outputs.images # <<>>
  PROVE  Some(Calls(s), {"export_results"})
<1> DEFINE A == {"export_results"}
           o == s.outputs
           op == Once("report", "export_results", [images |-> Images(o.images)])
           a == If(o.reports # <<>>,
             Once("report", "collect_reports", [reports |-> List(o.reports)]))
           b == <<op>>
           w == CallsOf(Writes(o))
           p == Opening(s)
           f == Solving(s)
<1>1. \A phase, action, params : Once(phase, action, params).mode = "once"
                                 /\ Once(phase, action, params).action = action
  BY DEF Once
<1>2. ReportOps(o) = a \o b
  BY DEF ReportOps, If
<1>3. Operations(a) /\ IsSequence(CallsOf(a))
  <2> DEFINE oa == Once("report", "collect_reports", [reports |-> List(o.reports)])
  <2>1. Operations(If(o.reports # <<>>, oa))
        /\ Every(CallsOf(If(o.reports # <<>>, oa)), {"collect_reports", "get_solver_health"})
    BY <1>1, IfCalls
  <2>. QED
    BY <2>1 DEF Every
<1>4. op.mode = "once" /\ op.action \in A
  BY <1>1
<1>5. FormedCalls(p, s) /\ FormedCalls(f, s) /\ IsSequence(w)
  <2>1. Operations(Writes(o))
    BY ClosingCalls
  <2>2. IsSequence(w)
    <3> DEFINE r == [k \in DOMAIN Writes(o) |-> OperationCalls(Writes(o)[k])]
    <3>1. AllSequences(r)
      BY <2>1, CallsRow
    <3> HIDE DEF r
    <3>2. IsSequence(FlattenSeq(r))
      BY <3>1, FlattenElements
    <3>. QED
      BY <3>2 DEF CallsOf, r
  <2>. QED
    BY <2>2, FormedOpening, FormedSolving
<1>6. Calls(s) = p \o (f \o Closing(s))
  BY <1>5, CallsInParts DEF FormedCalls
<1> HIDE DEF op, a, w, p, f, A
<1>7. Operations(b) /\ IsSequence(CallsOf(b)) /\ Some(CallsOf(b), A)
  <2> DEFINE c == OperationCalls(op)
  <2>1. IsSequence(c) /\ Len(c) = 2 /\ c[1].action \in A
    BY <1>4, OnceCalls DEF Every
  <2>2. Operations(b) /\ CallsOf(b) = c
    BY <2>1, CallsOfOne
  <2> HIDE DEF c
  <2>3. Some(c, A)
    BY <2>1 DEF Some
  <2>. QED
    BY <2>1, <2>2, <2>3
<1> HIDE DEF b
<1>8. CallsOf(a \o b) = CallsOf(a) \o CallsOf(b)
  BY <1>3, <1>7, CallsOfBoth
<1> DEFINE x == CallsOf(a)
           y == CallsOf(b)
           g == x \o y
           h == g \o w
           i == f \o h
           j == p \o i
<1>9. IsSequence(x) /\ IsSequence(y) /\ Some(y, A)
  BY <1>3, <1>7
<1>10. Closing(s) = g \o w
  BY <1>2, <1>8 DEF Closing, w
<1> HIDE DEF x, y
<1>11. IsSequence(g) /\ Some(g, A)
  BY <1>9, SomeConcat, SequenceConcat
<1> HIDE DEF g
<1>12. IsSequence(h) /\ Some(h, A)
  BY <1>5, <1>11, SomeConcat, SequenceConcat
<1> HIDE DEF h
<1>13. IsSequence(i) /\ Some(i, A)
  BY <1>5, <1>12, SomeConcat, SequenceConcat DEF FormedCalls
<1> HIDE DEF i
<1>14. Some(j, A)
  BY <1>5, <1>13, SomeConcat DEF FormedCalls
<1>15. Calls(s) = j
  BY <1>6, <1>10 DEF h, i
<1> HIDE DEF j
<1>. QED
  BY <1>14, <1>15 DEF A

\* What the invariant is about in the product.
PictureFields == {"contours", "shown", "look", "pictures"}

\* The contour of image is shown, in the state asked for it if a path carries its name.
ContourShown(image) ==
  "contour" \in DOMAIN image =>
    /\ solver.shown # None
    /\ solver.shown.contour = image.contour.fields.object_name
    /\ Carriable(image.contour.fields.object_name) =>
         Agrees(solver.shown.state, image.contour.fields.state)

\* The product is as image's operation op needs it; a contour may be missing where the
\* product raised of its own accord, and the operation will raise as well.
Ready(image, op) ==
  /\ op \in {"find", "set_contour", "display"} =>
       fault \/ image.contour.fields.object_name \in DOMAIN solver.contours
  /\ op = "display" /\ Carriable(image.contour.fields.object_name) =>
       Agrees(solver.contours[image.contour.fields.object_name], image.contour.fields.state)
  /\ op \in {"set_picture", "save"} => ContourShown(image)
  /\ op = "save" => Agrees(solver.look, image.picture_state)

\* Nothing is needed to begin with.
LEMMA ReadyFirst ==
  ASSUME NEW image
  PROVE  Ready(image, FirstOp(image)) /\ Ready(image, FirstOp(image))'
<1>1. image.picture_state.fields = <<>> => \A f : Agrees(f, image.picture_state)
  BY DEF Agrees
<1>. QED
  BY <1>1 DEF Ready, FirstOp, PictureOp, ContourShown

\* What was given is there.
LEMMA OverAgrees ==
  ASSUME NEW asked, NEW f
  PROVE  Agrees(Over(asked.fields, f), asked)
BY DEF Agrees, Over, Field

\* What is asked to be nothing is so of anything.
LEMMA NothingAgrees ==
  ASSUME NEW asked, asked.fields = <<>>, NEW f
  PROVE  Agrees(f, asked)
BY DEF Agrees

\* An operation of an image that is done, or swallowed, makes way for the next one.
LEMMA ReadyNext ==
  ASSUME PictureFields \subseteq DOMAIN solver,
         NEW image, NEW op \in OpsOf(image), op # "save", Ready(image, op),
         NEW r, r = RequestOf(image, op),
         \/ Possible(r) /\ solver' = Carried(r) /\ fault' = fault
         \/ r.tried /\ solver' = solver /\ fault' = (fault \/ Possible(r))
  PROVE  /\ Ready(image, AfterOp(image, op))'
         /\ PictureFields \subseteq DOMAIN solver' /\ solver'.pictures = solver.pictures
<1> DEFINE c == image.contour.fields
           n == c.object_name
<1>1. r.op = op
  BY RequestOps
<1>2. CASE op = "create"
  <2>1. r = Tried(op, n) /\ r.with = n /\ AfterOp(image, op) = "find"
    BY <1>2 DEF RequestOf, Tried, Request, AfterOp
  <2>2. CASE Possible(r) /\ solver' = Carried(r) /\ fault' = fault
    <3>1. solver' = [solver EXCEPT !.contours = Over(@, [k \in {n} |-> <<>>])]
      BY <1>1, <1>2, <2>1, <2>2 DEF Carried
    <3>2. /\ solver'.contours = Over(solver.contours, [k \in {n} |-> <<>>])
          /\ DOMAIN solver' = DOMAIN solver /\ solver'.pictures = solver.pictures
      BY <3>1 DEF PictureFields
    <3>3. n \in DOMAIN solver'.contours
      BY <3>2 DEF Over
    <3>4. Ready(image, "find")'
      BY <3>3 DEF Ready
    <3>. QED
      BY SMTT(60), <2>1, <3>2, <3>4
  <2>3. CASE solver' = solver /\ fault' = (fault \/ Possible(r))
    <3>1. Possible(r) \/ n \in DOMAIN solver.contours
      BY <1>1, <1>2, <2>1 DEF Possible
    <3>. QED
      BY <2>1, <2>3, <3>1 DEF Ready
  <2>. QED
    BY <2>2, <2>3
<1>3. CASE op # "create"
  <2>1. ~r.tried
    BY <1>3 DEF RequestOf, Request
  <2>2. Possible(r) /\ solver' = Carried(r) /\ fault' = fault
    BY <2>1
  <2>3. CASE op = "find"
    <3>1. solver' = solver
      BY <1>1, <2>2, <2>3 DEF Carried
    <3>2. CASE c.state.fields = <<>>
      <4>1. AfterOp(image, op) = "display"
        BY <2>3, <3>2 DEF AfterOp
      <4>2. Agrees(solver.contours[n], c.state)
        BY <3>2, NothingAgrees
      <4>. QED
        BY <2>2, <2>3, <3>1, <4>1, <4>2 DEF Ready
    <3>3. CASE c.state.fields # <<>>
      <4>1. AfterOp(image, op) = "set_contour"
        BY <2>3, <3>3 DEF AfterOp
      <4>. QED
        BY <2>2, <2>3, <3>1, <4>1 DEF Ready
    <3>. QED
      BY <3>2, <3>3
  <2>4. CASE op = "set_contour"
    <3>1. r = Request(op, c) /\ r.with = c /\ AfterOp(image, op) = "display"
      BY <2>4 DEF RequestOf, Request, AfterOp
    <3> DEFINE q == InPath(n)
    <3>2. q \in DOMAIN solver.contours
      BY <1>1, <2>2, <2>4, <3>1 DEF Possible, Found, NameIn
    <3>3. solver' = [solver EXCEPT !.contours = Set(q, c.state.fields)]
      BY <1>1, <2>2, <2>4, <3>1 DEF Carried
    <3>4. Carriable(n) => q = n
      BY DEF Carriable
    <3>5. fault \/ n \in DOMAIN solver.contours
      BY <2>4 DEF Ready
    <3> HIDE DEF q
    <3>6. /\ solver'.contours = Set(q, c.state.fields)
          /\ DOMAIN solver' = DOMAIN solver /\ solver'.pictures = solver.pictures
      BY <3>3 DEF PictureFields
    <3>7. /\ DOMAIN solver'.contours = DOMAIN solver.contours
          /\ solver'.contours[q] = Over(c.state.fields, solver.contours[q])
      BY <3>2, <3>6 DEF Set
    <3>8. Carriable(n) => Agrees(solver'.contours[n], c.state)
      BY <3>4, <3>7, OverAgrees
    <3>9. fault' \/ n \in DOMAIN solver'.contours
      BY <2>2, <3>5, <3>7
    <3>. QED
      BY <3>1, <3>6, <3>8, <3>9 DEF Ready
  <2>5. CASE op = "display"
    <3>1. r = Request(op, n) /\ r.with = n /\ AfterOp(image, op) = PictureOp(image)
      BY <2>5 DEF RequestOf, Request, AfterOp
    <3> DEFINE v == solver.contours[n]
               d == [contour |-> n, state |-> v]
    <3>2. solver' = [solver EXCEPT !.shown = d]
      BY <1>1, <2>2, <2>5, <3>1 DEF Carried
    <3>3. Carriable(n) => Agrees(v, c.state)
      BY <2>5 DEF Ready
    <3>4. d # None /\ d.contour = n /\ d.state = v
      <4> HIDE DEF v
      <4>1. "contour" \in DOMAIN d /\ "contour" \notin DOMAIN None
        BY DEF None
      <4>2. d # None
        BY <4>1
      <4>. QED
        BY <4>2
    <3> HIDE DEF v, d
    <3>5. /\ solver'.shown = d /\ solver'.pictures = solver.pictures
          /\ DOMAIN solver' = DOMAIN solver
      BY <3>2 DEF PictureFields
    <3>6. ContourShown(image)'
      BY <3>3, <3>4, <3>5 DEF ContourShown
    <3>7. image.picture_state.fields = <<>> => Agrees(solver'.look, image.picture_state)
      BY NothingAgrees
    <3>. QED
      BY <3>1, <3>5, <3>6, <3>7 DEF Ready, PictureOp
  <2>6. CASE op = "set_picture"
    <3> DEFINE f == image.picture_state.fields
    <3>1. r = Request(op, f) /\ r.with = f /\ AfterOp(image, op) = "save"
      BY <2>6 DEF RequestOf, Request, AfterOp
    <3>2. solver' = [solver EXCEPT !.look = Over(f, @)]
      BY <1>1, <2>2, <2>6, <3>1 DEF Carried
    <3>3. /\ solver'.look = Over(f, solver.look) /\ solver'.shown = solver.shown
          /\ DOMAIN solver' = DOMAIN solver /\ solver'.pictures = solver.pictures
      BY <3>2 DEF PictureFields
    <3>4. Agrees(solver'.look, image.picture_state)
      BY <3>3, OverAgrees
    <3>5. ContourShown(image)'
      BY <2>6, <3>3 DEF Ready, ContourShown
    <3>. QED
      BY <3>1, <3>3, <3>4, <3>5 DEF Ready
  <2>7. op \in PictureOps
    BY DEF OpsOf, PictureOps
  <2>. QED
    BY <1>3, <2>3, <2>4, <2>5, <2>6, <2>7 DEF PictureOps
<1>. QED
  BY <1>2, <1>3

\* A saved picture shows what its image asks for; the other pictures stay.
LEMMA Saving ==
  ASSUME PictureFields \subseteq DOMAIN solver,
         NEW image, Ready(image, "save"), solver' = Carried(RequestOf(image, "save"))
  PROVE  LET f == PictureFile(image)
         IN /\ PictureFields \subseteq DOMAIN solver'
            /\ DOMAIN solver'.pictures = DOMAIN solver.pictures \cup {f}
            /\ Shows(solver'.pictures[f], image)
            /\ \A g \in DOMAIN solver.pictures \ {f} :
                 solver'.pictures[g] = solver.pictures[g]
<1> DEFINE f == PictureFile(image)
           r == RequestOf(image, "save")
           p == [of |-> solver.shown, look |-> solver.look]
<1>1. r.op = "save" /\ r.with = f
  BY DEF RequestOf, Request
<1>2. p.of = solver.shown /\ p.look = solver.look
  OBVIOUS
<1> HIDE DEF f, r, p
<1>3. solver' = [solver EXCEPT !.pictures = Over([g \in {f} |-> p], @)]
  BY <1>1 DEF Carried, p, r
<1>4. solver'.pictures = Over([g \in {f} |-> p], solver.pictures)
      /\ DOMAIN solver' = DOMAIN solver
  BY <1>3 DEF PictureFields
<1>5. /\ DOMAIN solver'.pictures = DOMAIN solver.pictures \cup {f}
      /\ solver'.pictures[f] = p
      /\ \A g \in DOMAIN solver.pictures \ {f} : solver'.pictures[g] = solver.pictures[g]
  BY <1>4 DEF Over
<1>6. Shows(p, image)
  BY <1>2 DEF Ready, ContourShown, Shows
<1>. QED
  BY <1>4, <1>5, <1>6 DEF f

\* A request that is not about pictures leaves them alone.
LEMMA CarriedPictures ==
  ASSUME PictureFields \subseteq DOMAIN solver, NEW r, r.op \notin PictureOps
  PROVE  LET t == Carried(r)
         IN PictureFields \subseteq DOMAIN t /\ t.pictures = solver.pictures
<1> DEFINE t == Carried(r)
<1>1. CASE r.op = "solve"
  <2>1. t = [solver EXCEPT !.steps = @ + r.with]
    BY <1>1 DEF Carried
  <2> HIDE DEF t
  <2>. QED
    BY <2>1 DEF PictureFields, t
<1>2. CASE r.op = "set_size"
  <2>1. t = [solver EXCEPT !.size = r.with]
    BY <1>2 DEF Carried
  <2> HIDE DEF t
  <2>. QED
    BY <2>1 DEF PictureFields, t
<1>3. CASE r.op = "write"
  <2>1. t = [solver EXCEPT !.data = Over([f \in {r.with} |-> solver.steps], @)]
    BY <1>3 DEF Carried
  <2> DEFINE v == Over([f \in {r.with} |-> solver.steps], solver.data)
  <2>2. t = [solver EXCEPT !.data = v]
    BY <2>1
  <2> HIDE DEF t, v
  <2>. QED
    BY <2>2 DEF PictureFields, t
<1>4. CASE r.op \notin {"solve", "set_size", "write"}
  <2>1. t = solver
    BY <1>4 DEF Carried, PictureOps
  <2>. QED
    BY <2>1
<1>. QED
  BY <1>1, <1>2, <1>3, <1>4

\* Where nothing raised before, what an image asks for can be done, unless its
\* contour's name is another one in a path, or none.
LEMMA ImpossibleOnly ==
  ASSUME NEW image, NEW op \in OpsOf(image), Ready(image, op), ~fault,
         NEW r, r = RequestOf(image, op), ~r.tried, ~Possible(r)
  PROVE  "contour" \in DOMAIN image /\ ~Carriable(image.contour.fields.object_name)
<1> DEFINE n == image.contour.fields.object_name
<1>1. r.op = op
  BY RequestOps
<1>2. op # "create"
  BY DEF RequestOf, Tried, Request
<1>3. op \in {"find", "set_contour", "display"}
  <2>1. op \in PictureOps
    BY DEF OpsOf, PictureOps
  <2>. QED
    BY <1>1, <1>2, <2>1 DEF Possible, PictureOps
<1>4. "contour" \in DOMAIN image
  BY <1>3 DEF OpsOf
<1>5. n \in DOMAIN solver.contours
  BY <1>3 DEF Ready
<1>6. CASE op = "display"
  <2>1. r.with = n
    BY <1>6 DEF RequestOf, Request
  <2>. QED
    BY <1>1, <1>5, <1>6, <2>1 DEF Possible
<1>7. CASE op = "find"
  <2>1. r.with = n
    BY <1>7 DEF RequestOf, Request
  <2>. QED
    BY <1>1, <1>4, <1>5, <1>7, <2>1 DEF Possible, Found, NameIn, Carriable
<1>8. CASE op = "set_contour"
  <2>1. r.with = image.contour.fields
    BY <1>8 DEF RequestOf, Request
  <2>. QED
    BY <1>1, <1>4, <1>5, <1>8, <2>1 DEF Possible, Found, NameIn, Carriable
<1>. QED
  BY <1>3, <1>6, <1>7, <1>8

\* All images from the first to the n-th are saved.
SavedTo(n) == \A k \in 1 .. n : PictureFile(spec.outputs.images[k]) \in DOMAIN solver.pictures

\* What the call in hand still asks of the product.
PicturesInHand ==
  requests # <<>> =>
    LET images == spec.outputs.images
    IN IF Head(ahead).action = "export_results"
       THEN \E of : /\ Along(requests, images, Len(images), of)
                    /\ Ready(images[of[1]], requests[1].op)
                    /\ SavedTo(of[1] - 1)
       ELSE Pictureless(requests)

\* Every picture shows what one of the images of its name asks for.
PicturesShow ==
  /\ spec = NoSpec => DOMAIN solver.pictures = {}
  /\ \A f \in DOMAIN solver.pictures :
       \E k \in 1 .. Len(spec.outputs.images) :
         /\ PictureFile(spec.outputs.images[k]) = f
         /\ Shows(solver.pictures[f], spec.outputs.images[k])

\* Once the export is done all images are saved.
ExportSaved ==
  Some(made, {"export_results"}) => SavedTo(Len(spec.outputs.images))

\* The inductive invariant of the pictures.
PictureInv == /\ PictureFields \subseteq DOMAIN solver
              /\ PicturesInHand
              /\ PicturesShow
              /\ ExportSaved

\* The invariant holds at first.
LEMMA PictureInit == Init => PictureInv
<1> SUFFICES ASSUME Init PROVE PictureInv
  OBVIOUS
<1>1. /\ requests = <<>> /\ made = <<>>
      /\ solver.pictures = <<>> /\ PictureFields \subseteq DOMAIN solver
  BY DEF Init, SessionInit, PictureFields
<1>2. DOMAIN solver.pictures = {}
  BY <1>1
<1>3. ~Some(made, {"export_results"})
  BY <1>1, SequenceEmpty DEF Some
<1>. QED
  BY <1>1, <1>2, <1>3 DEF PictureInv, PicturesInHand, PicturesShow, ExportSaved

\* The requests of a call that has just been let through.
LEMMA FreshPictures ==
  ASSUME Phase, ahead # <<>>, Verdict.ok,
         NEW r, r = Requests(Head(ahead).action, Verdict.params), r # <<>>
  PROVE  LET images == spec.outputs.images
         IN IF Head(ahead).action = "export_results"
            THEN \E of : /\ Along(r, images, Len(images), of)
                         /\ Ready(images[of[1]], r[1].op)
                         /\ SavedTo(of[1] - 1)
            ELSE Pictureless(r)
<1> DEFINE call == Head(ahead)
           p == call.params
           x == Context
           q == Verdict.params
           images == spec.outputs.images
<1>1. /\ SpecFormed(spec) /\ FormedCall(call, spec)
      /\ call.action \in SolveActions => Solves(call, spec)
  BY NextCall
<1>2. Verdict = PrepareAction(call.action, p, x)
  BY DEF Verdict
<1>3. PrepareAction(call.action, p, x) = Accepted(q)
  <2> HIDE DEF call, p, x
  <2>. QED
    BY <1>2, LetThroughWith
<1>4. r = Requests(call.action, q)
  OBVIOUS
<1> HIDE DEF call, x, q, images
<1>5. CASE call.action = "export_results"
  <2>1. PICK of : Along(r, images, Len(images), of) /\ FromFirst(r, images, Len(images), of)
    BY <1>1, <1>3, <1>4, <1>5, ExportRequests DEF images
  <2>2. Len(r) # 0
    BY <2>1, NothingInIt DEF Along
  <2>3. of[1] = 1 /\ r[1].op = FirstOp(images[1])
    BY <2>1, <2>2 DEF FromFirst
  <2>4. Ready(images[of[1]], r[1].op)
    BY <2>3, ReadyFirst
  <2>5. SavedTo(of[1] - 1)
    BY <2>3 DEF SavedTo
  <2>. QED
    BY <1>5, <2>1, <2>4, <2>5 DEF call, images
<1>6. CASE call.action # "export_results"
  <2>1. Pictureless(Requests(call.action, q))
    BY <1>1, <1>3, <1>6, PlainRequests
  <2>. QED
    BY <1>4, <1>6, <2>1 DEF call
<1>. QED
  BY <1>5, <1>6

\* With more pictures saved than before, what was saved still is.
LEMMA SavedStill ==
  ASSUME NEW n, SavedTo(n), spec' = spec,
         DOMAIN solver.pictures \subseteq DOMAIN solver'.pictures
  PROVE  SavedTo(n)'
BY DEF SavedTo

\* A call made is one more, and is the one that was ahead.
LEMMA OneMoreMade ==
  ASSUME Phase, ahead # <<>>, NEW q, made' = Append(made, Call(Head(ahead).action, q)),
         NEW A, Some(made, A)'
  PROVE  Some(made, A) \/ Head(ahead).action \in A
<1> DEFINE e == Call(Head(ahead).action, q)
           M == Len(made)
<1>1. IsSequence(made) /\ M \in Nat
  BY SequenceDomain, NextCall DEF Phase, Follows
<1>2. /\ Len(made') = M + 1 /\ made'[M + 1] = e /\ \A k \in 1 .. M : made'[k] = made[k]
  BY <1>1, SequenceAppend
<1>3. e.action = Head(ahead).action
  BY DEF Call
<1>4. PICK k \in 1 .. Len(made') : made'[k].action \in A
  BY DEF Some
<1> HIDE DEF e
<1>5. CASE k \in 1 .. M
  BY <1>2, <1>4, <1>5 DEF Some
<1>6. CASE k = M + 1
  BY <1>2, <1>3, <1>4, <1>6
<1> HIDE DEF M
<1>7. k \in 1 .. M \/ k = M + 1
  BY <1>1, <1>2
<1>. QED
  BY <1>5, <1>6, <1>7

\* The product does one thing of a call, and the next finds what it needs.
LEMMA PictureProgress ==
  ASSUME Phase, PictureInv, Progress
  PROVE  PictureInv'
<1>1. PICK h, t, m, call :
        h = Head(requests) /\ t = Tail(requests) /\ m = spec.outputs.images /\ call = Head(ahead)
  OBVIOUS
<1> DEFINE N == Len(m)
<1>2. /\ requests # <<>> /\ requests' = t
      /\ \/ Possible(h) /\ solver' = Carried(h) /\ fault' = fault
         \/ h.tried /\ solver' = solver /\ fault' = (fault \/ Possible(h))
  BY <1>1 DEF Progress, Carry, Swallow
<1>3. /\ spec' = spec /\ spec # NoSpec /\ SpecFormed(spec) /\ ahead # <<>>
      /\ spec'.outputs.images = m
  BY <1>1, <1>2 DEF Phase, Progress
<1>4. /\ t = <<>> => made' = Append(made, Call(call.action, Verdict.params))
      /\ t # <<>> => made' = made /\ ahead' = ahead
  BY <1>1, <1>2 DEF Progress
<1>5. PictureFields \subseteq DOMAIN solver
  BY DEF PictureInv
<1>6. N \in Nat
  BY <1>1, <1>3, SequenceDomain DEF SpecFormed
<1>7. /\ \A f \in DOMAIN solver.pictures :
           \E k \in 1 .. N : PictureFile(m[k]) = f /\ Shows(solver.pictures[f], m[k])
      /\ Some(made, {"export_results"}) => SavedTo(N)
  BY <1>1 DEF PictureInv, PicturesShow, ExportSaved
<1>8. Some(made, {"export_results"})' /\ call.action # "export_results" =>
        Some(made, {"export_results"})
  BY <1>1, <1>3, <1>4, OneMoreMade DEF Some
<1>9. CASE call.action = "export_results"
  <2>1. PICK of : /\ Along(requests, m, N, of) /\ Ready(m[of[1]], requests[1].op)
                  /\ SavedTo(of[1] - 1)
    BY <1>1, <1>2, <1>9 DEF PictureInv, PicturesInHand
  <2> DEFINE j == of[1]
             im == m[j]
             op == h.op
  <2>2. /\ h = requests[1] /\ j \in 1 .. N /\ op \in OpsOf(im) /\ h = RequestOf(im, op)
        /\ t = <<>> => op = "save" /\ j = N
        /\ t # <<>> =>
             \E g : /\ Along(t, m, N, g)
                    /\ IF op = "save"
                       THEN g[1] = j + 1 /\ t[1].op = FirstOp(m[g[1]])
                       ELSE g[1] = j /\ t[1].op = AfterOp(m[g[1]], op)
    <3>1. PICK r : r = requests
      OBVIOUS
    <3>2. r # <<>> /\ Along(r, m, N, of) /\ t = Tail(r) /\ h = Head(r)
      BY <1>1, <1>2, <2>1, <3>1
    <3> HIDE DEF N, im, j, op
    <3>3. h = r[1] /\ RestAlong(r, t, m, N, of)
      BY <1>6, <3>2, AlongTail
    <3>4. op = r[1].op /\ j = of[1] /\ im = m[of[1]]
      BY <3>3 DEF op, im, j
    <3>. QED
      BY <3>1, <3>3, <3>4 DEF RestAlong
  <2>3. Ready(im, op) /\ SavedTo(j - 1)
    BY <2>1, <2>2
  <2>4. PictureFile(im) = PictureFile(m[j]) /\ im = m[j]
    OBVIOUS
  <2> HIDE DEF j, im, N
  <2>5. CASE op # "save"
    <3>1. t # <<>> /\ made' = made /\ ahead' = ahead
      BY <1>4, <2>2, <2>5
    <3>2. PICK g : Along(t, m, N, g) /\ g[1] = j /\ t[1].op = AfterOp(m[g[1]], op)
      BY <2>2, <2>5, <3>1
    <3>3. /\ Ready(im, AfterOp(im, op))' /\ PictureFields \subseteq DOMAIN solver'
          /\ solver'.pictures = solver.pictures
      BY <1>2, <1>5, <2>2, <2>3, <2>5, ReadyNext
    <3>4. Ready(m[g[1]], t[1].op)'
      BY <2>4, <3>2, <3>3
    <3>5. SavedTo(g[1] - 1)'
      BY <1>3, <2>3, <3>2, <3>3, SavedStill
    <3>6. PicturesInHand'
      BY <1>1, <1>2, <1>3, <1>9, <3>1, <3>2, <3>4, <3>5 DEF PicturesInHand, N
    <3>7. PicturesShow'
      BY <1>3, <1>7, <3>3 DEF PicturesShow, N
    <3>8. ExportSaved'
      <4>1. Some(made', {"export_results"}) => SavedTo(N)'
        BY <1>3, <1>7, <3>1, <3>3, SavedStill
      <4>. QED
        BY <1>3, <4>1 DEF ExportSaved, N
    <3>. QED
      BY <3>3, <3>6, <3>7, <3>8 DEF PictureInv
  <2>6. CASE op = "save"
    <3> DEFINE f == PictureFile(im)
    <3>1. ~h.tried
      BY <2>2, <2>6 DEF RequestOf, Request
    <3>2. solver' = Carried(RequestOf(im, "save")) /\ Ready(im, "save")
      BY <1>2, <2>2, <2>3, <2>6, <3>1
    <3>3. /\ PictureFields \subseteq DOMAIN solver'
          /\ DOMAIN solver'.pictures = DOMAIN solver.pictures \cup {f}
          /\ Shows(solver'.pictures[f], im)
          /\ \A g \in DOMAIN solver.pictures \ {f} : solver'.pictures[g] = solver.pictures[g]
      BY <1>5, <3>2, Saving
    <3> HIDE DEF f
    <3>4. \A k : SavedTo(k) => SavedTo(k)'
      BY <1>3, <3>3, SavedStill
    <3>5. SavedTo(j)'
      <4>1. PictureFile(m[j]) \in DOMAIN solver'.pictures
        BY <2>4, <3>3 DEF f
      <4>2. \A k \in 1 .. j - 1 : PictureFile(m[k]) \in DOMAIN solver'.pictures
        BY <1>3, <2>3, <3>4 DEF SavedTo
      <4>3. \A k \in 1 .. j : PictureFile(m[k]) \in DOMAIN solver'.pictures
        BY <1>6, <2>2, <4>1, <4>2
      <4>. QED
        BY <1>3, <4>3 DEF SavedTo
    <3>6. PicturesShow'
      <4>1. ASSUME NEW g \in DOMAIN solver'.pictures
            PROVE  \E k \in 1 .. N : PictureFile(m[k]) = g /\ Shows(solver'.pictures[g], m[k])
        <5>1. CASE g = f
          BY <2>2, <2>4, <3>3, <5>1 DEF f
        <5>2. CASE g # f
          <6>1. g \in DOMAIN solver.pictures /\ solver'.pictures[g] = solver.pictures[g]
            BY <3>3, <5>2
          <6>. QED
            BY <1>7, <6>1
        <5>. QED
          BY <5>1, <5>2
      <4>. QED
        BY <1>3, <4>1 DEF PicturesShow, N
    <3>7. CASE t # <<>>
      <4>1. made' = made /\ ahead' = ahead
        BY <1>4, <3>7
      <4>2. PICK g : Along(t, m, N, g) /\ g[1] = j + 1 /\ t[1].op = FirstOp(m[g[1]])
        BY <2>2, <2>6, <3>7
      <4>3. Ready(m[g[1]], t[1].op)'
        BY <4>2, ReadyFirst
      <4>4. g[1] - 1 = j
        BY <1>6, <2>2, <4>2
      <4>5. SavedTo(g[1] - 1)'
        BY <3>5, <4>4
      <4>6. PicturesInHand'
        BY <1>1, <1>2, <1>3, <1>9, <4>1, <4>2, <4>3, <4>5 DEF PicturesInHand, N
      <4>7. Some(made', {"export_results"}) => SavedTo(N)'
        BY <1>7, <3>4, <4>1
      <4>8. ExportSaved'
        BY <1>3, <4>7 DEF ExportSaved, N
      <4>. QED
        BY <3>3, <3>6, <4>6, <4>8 DEF PictureInv
    <3>8. CASE t = <<>>
      <4>1. PicturesInHand'
        BY <1>2, <3>8 DEF PicturesInHand
      <4>2. ExportSaved'
        BY <1>3, <2>2, <3>5, <3>8 DEF ExportSaved, N
      <4>. QED
        BY <3>3, <3>6, <4>1, <4>2 DEF PictureInv
    <3>. QED
      BY <3>7, <3>8
  <2>. QED
    BY <2>5, <2>6
<1>10. CASE call.action # "export_results"
  <2>1. Pictureless(requests)
    BY <1>1, <1>2, <1>10 DEF PictureInv, PicturesInHand
  <2>2. /\ IsSequence(t) /\ Len(t) = Len(requests) - 1 /\ Len(requests) \in Nat \ {0}
        /\ h = requests[1] /\ \A k \in 1 .. Len(requests) - 1 : t[k] = requests[k + 1]
    BY <1>1, <1>2, <2>1, SequenceTail DEF Pictureless
  <2>3. h.op \notin PictureOps
    BY <2>1, <2>2 DEF Pictureless
  <2>4. PictureFields \subseteq DOMAIN solver' /\ solver'.pictures = solver.pictures
    BY <1>2, <1>5, <2>3, CarriedPictures
  <2>5. Pictureless(t)
    <3>1. ASSUME NEW k \in 1 .. Len(requests) - 1 PROVE t[k].op \notin PictureOps
      <4>1. k + 1 \in 1 .. Len(requests)
        BY <2>2
      <4>. QED
        BY <2>1, <2>2, <4>1 DEF Pictureless
    <3>. QED
      BY <2>2, <3>1 DEF Pictureless
  <2>6. PicturesInHand'
    BY <1>1, <1>2, <1>4, <1>10, <2>5 DEF PicturesInHand
  <2>7. PicturesShow'
    BY <1>3, <1>7, <2>4 DEF PicturesShow
  <2>8. Some(made, {"export_results"})' => SavedTo(N)'
    BY <1>3, <1>7, <1>8, <1>10, <2>4, SavedStill
  <2>9. ExportSaved'
    BY <1>3, <2>8 DEF ExportSaved
  <2>. QED
    BY <2>4, <2>6, <2>7, <2>9 DEF PictureInv
<1>. QED
  BY <1>9, <1>10

\* The pictures' invariant is kept.
LEMMA PictureNext == Phase /\ Phase' /\ PictureInv /\ [Next]_vars => PictureInv'
<1> SUFFICES ASSUME Phase, Phase', PictureInv, [Next]_vars PROVE PictureInv'
  OBVIOUS
<1>1. CASE Accept
  <2>1. /\ status = "submitted" /\ requests' = requests /\ solver' = solver /\ made' = made
        /\ status' = "queued"
    BY <1>1 DEF Accept, productVars
  <2>2. spec = NoSpec /\ requests = <<>> /\ made = <<>>
    BY <2>1 DEF Phase
  <2>3. DOMAIN solver.pictures = {} /\ PictureFields \subseteq DOMAIN solver
    BY <2>2 DEF PictureInv, PicturesShow
  <2>4. \A k \in 1 .. Len(made') : FALSE
    BY <2>1, <2>2, SequenceEmpty
  <2>5. PicturesShow'
    BY <2>1, <2>3 DEF PicturesShow
  <2>6. PicturesInHand'
    BY <2>1, <2>2 DEF PicturesInHand
  <2>7. ExportSaved'
    BY <2>4 DEF ExportSaved, Some
  <2>. QED
    BY <2>1, <2>3, <2>5, <2>6, <2>7 DEF PictureInv
<1>2. CASE Proceed
  <2>1. /\ ahead # <<>> /\ Verdict.ok /\ requests' = Requests(Head(ahead).action, Verdict.params)
        /\ UNCHANGED <<solver, fault, document, status, spec, ahead, made>>
    BY <1>2 DEF Proceed, Execute, workVars
  <2>2. PICK r : r = Requests(Head(ahead).action, Verdict.params)
    OBVIOUS
  <2>3. PicturesInHand'
    <3> SUFFICES ASSUME requests' # <<>> PROVE PicturesInHand'
      BY DEF PicturesInHand
    <3>1. requests' = r /\ r # <<>>
      BY <2>1, <2>2
    <3>2. PICK m, call : m = spec.outputs.images /\ call = Head(ahead)
      OBVIOUS
    <3>3. IF call.action = "export_results"
          THEN \E of : /\ Along(r, m, Len(m), of)
                       /\ Ready(m[of[1]], r[1].op)
                       /\ SavedTo(of[1] - 1)
          ELSE Pictureless(r)
      BY <2>1, <2>2, <3>1, <3>2, FreshPictures
    <3>4. spec'.outputs.images = m /\ Head(ahead') = call /\ requests' = r
      BY <2>1, <3>1, <3>2
    <3>5. CASE call.action = "export_results"
      <4>1. PICK of : Along(r, m, Len(m), of) /\ Ready(m[of[1]], r[1].op) /\ SavedTo(of[1] - 1)
        BY <3>3, <3>5
      <4>2. Ready(m[of[1]], r[1].op)'
        BY <2>1, <4>1 DEF Ready, ContourShown
      <4>3. SavedTo(of[1] - 1)'
        BY <2>1, <4>1 DEF SavedTo
      <4>. QED
        BY <3>4, <3>5, <4>1, <4>2, <4>3 DEF PicturesInHand
    <3>6. CASE call.action # "export_results"
      BY <3>3, <3>4, <3>6 DEF PicturesInHand
    <3>. QED
      BY <3>5, <3>6
  <2>4. PicturesShow'
    BY <2>1 DEF PictureInv, PicturesShow
  <2>5. ExportSaved'
    BY <2>1 DEF PictureInv, ExportSaved, SavedTo
  <2>. QED
    BY <2>1, <2>3, <2>4, <2>5 DEF PictureInv
<1>3. CASE Progress
  BY <1>3, PictureProgress
<1>4. CASE Fail
  <2>1. requests' = <<>> /\ UNCHANGED <<solver, spec, made>>
    BY <1>4 DEF Fail, Raise, productVars
  <2>2. PicturesInHand'
    BY <2>1 DEF PicturesInHand
  <2>. QED
    BY <2>1, <2>2 DEF PictureInv, PicturesShow, ExportSaved, SavedTo
<1>5. CASE Refuse \/ Succeed \/ UNCHANGED vars
  <2>1. UNCHANGED <<requests, solver, fault, spec, ahead, made>>
    <3>1. Refuse \/ Succeed => UNCHANGED <<productVars, spec, ahead, made>>
      BY DEF Refuse, Succeed
    <3>2. UNCHANGED vars => UNCHANGED <<productVars, spec, ahead, made>>
      BY DEF vars, workVars
    <3>. QED
      BY <1>5, <3>1, <3>2 DEF productVars
  <2>2. PicturesInHand'
    <3>1. \A image, op : Ready(image, op) => Ready(image, op)'
      BY <2>1 DEF Ready, ContourShown
    <3>2. \A n : SavedTo(n) => SavedTo(n)'
      BY <2>1 DEF SavedTo
    <3>. QED
      BY <2>1, <3>1, <3>2 DEF PictureInv, PicturesInHand
  <2>. QED
    BY <2>1, <2>2 DEF PictureInv, PicturesShow, ExportSaved, SavedTo
<1>. QED
  BY <1>1, <1>2, <1>3, <1>4, <1>5 DEF Next

\* What the call that fails was over: the place of a file, or the name of a contour.
FailedOver(p, x) ==
  \/ "file_name" \in DOMAIN p /\ (p.file_name = Null \/ ~PathOk(p.file_name, x))
  \/ "images" \in DOMAIN p /\ \E k \in DOMAIN p.images.items :
       LET image == p.images.items[k].fields
       IN image.file_name = Null \/ ~PathOk(image.file_name, x) \/ Unnameable(image)

\* A call the policy refuses was over the place of a file.
LEMMA RefusalOver ==
  ASSUME Phase, ahead # <<>>, ~Verdict.ok
  PROVE  FailedOver(Head(ahead).params, Context)
<1>1. PICK e, x : e = Head(ahead) /\ x = Context
  OBVIOUS
<1>2. SpecFormed(spec) /\ FormedCall(e, spec)
  BY <1>1, NextCall
<1>3. Entitled(e.action, x)
  BY <1>1, <1>2, RunEntitled
<1>4. ~PrepareAction(e.action, e.params, x).ok
  BY <1>1 DEF Verdict
<1>5. \/ "file_name" \in DOMAIN e.params /\ ~PathOk(e.params.file_name, x)
      \/ "images" \in DOMAIN e.params /\ \E k \in DOMAIN e.params.images.items :
           ~PathOk(e.params.images.items[k].fields.file_name, x)
  BY <1>2, <1>3, <1>4, RefusedOnlyOverPlace
<1>6. FailedOver(e.params, x)
  BY <1>5 DEF FailedOver
<1>. QED
  BY <1>1, <1>6

\* A call that raises though the product did as it was told was over a contour's name.
LEMMA RaiseOver ==
  ASSUME Phase, PictureInv, requests # <<>>, ~Head(requests).tried, ~fault,
         ~Possible(Head(requests))
  PROVE  FailedOver(Head(ahead).params, Context)
<1>1. PICK h, r, m, e, x :
        h = Head(requests) /\ r = requests /\ m = spec.outputs.images /\ e = Head(ahead)
        /\ x = Context
  OBVIOUS
<1> DEFINE N == Len(m)
<1>2. ahead # <<>>
  BY DEF Phase
<1>3. SpecFormed(spec) /\ FormedCall(e, spec)
  BY <1>1, <1>2, NextCall
<1>4. r # <<>> /\ h = Head(r)
  BY <1>1
<1>5. CASE e.action = "export_results"
  <2>1. PICK of : Along(r, m, N, of) /\ Ready(m[of[1]], r[1].op)
    BY <1>1, <1>4, <1>5 DEF PictureInv, PicturesInHand
  <2>2. /\ IsSequence(m) /\ DOMAIN Images(m).items = 1 .. N /\ N \in Nat
        /\ \A k \in 1 .. N : ImageFit(m[k]) /\ Images(m).items[k] = Dict(Placed(m[k]))
    BY <1>1, <1>3, ImagesPlaced
  <2> HIDE DEF N
  <2>3. h = r[1] /\ RestAlong(r, Tail(r), m, N, of)
    BY <1>4, <2>1, <2>2, AlongTail
  <2> DEFINE j == of[1]
             im == m[j]
             op == r[1].op
  <2>4. j \in 1 .. N /\ op \in OpsOf(im) /\ h = RequestOf(im, op)
    BY <2>3 DEF RestAlong
  <2>5. Ready(im, op)
    BY <2>1
  <2>6. ~h.tried /\ ~Possible(h)
    BY <1>1
  <2>7. ImageFit(im) /\ Images(m).items[j] = Dict(Placed(im))
    BY <2>2, <2>4
  <2> HIDE DEF j, im, op
  <2>8. "contour" \in DOMAIN im /\ ~Carriable(im.contour.fields.object_name)
    BY <2>4, <2>5, <2>6, ImpossibleOnly
  <2> DEFINE g == Placed(im)
  <2>9. "contour" \in DOMAIN g /\ g.contour = im.contour
    BY <2>7, <2>8, PlacedFit
  <2>10. Images(m).items[j].fields = g
    BY <2>7 DEF Dict
  <2> HIDE DEF g
  <2>11. Unnameable(g)
    BY <2>8, <2>9 DEF Unnameable
  <2>12. e.params = [images |-> Images(m)]
    BY <1>1, <1>3, <1>5 DEF FormedCall, Readers, Writers, Solve
  <2>13. "images" \in DOMAIN e.params /\ e.params.images = Images(m)
    BY <2>12
  <2>14. FailedOver(e.params, x)
    BY <2>2, <2>4, <2>10, <2>11, <2>13 DEF FailedOver
  <2>. QED
    BY <1>1, <2>14
<1>6. CASE e.action # "export_results"
  <2>1. Pictureless(r)
    BY <1>1, <1>4, <1>6 DEF PictureInv, PicturesInHand
  <2>2. Len(r) \in Nat \ {0} /\ h = r[1]
    BY <1>4, <2>1, SequenceTail DEF Pictureless
  <2>3. h.op \notin PictureOps
    BY <2>1, <2>2 DEF Pictureless
  <2>4. h.op \notin {"find", "set_contour", "display", "create"}
    BY <2>3 DEF PictureOps
  <2>5. Possible(h)
    BY <2>4 DEF Possible
  <2>. QED
    BY <1>1, <2>5
<1>. QED
  BY <1>5, <1>6

\* That is what FailsOnlyOverPlace is about, now and after a step.
FailureOver == status = "failed" /\ ~fault => FailedOver(Head(ahead).params, Context)

LEMMA OnlyOverPlace == FailureOver => FailsOnlyOverPlace
<1> DEFINE p == Head(ahead).params
<1> SUFFICES ASSUME FailureOver, status = "failed", ~fault
             PROVE  \/ "file_name" \in DOMAIN p /\ Place(p.file_name)
                    \/ "images" \in DOMAIN p /\ \E k \in DOMAIN p.images.items :
                         LET image == p.images.items[k].fields
                         IN Place(image.file_name) \/ Unnameable(image)
  BY Zenon DEF FailsOnlyOverPlace
<1>1. FailedOver(p, Context)
  BY DEF FailureOver
<1>2. \A v : v = Null \/ ~PathOk(v, Context) => Place(v)
  BY DEF Place
<1>. QED
  BY <1>1, <1>2, Zenon DEF FailedOver

\* What start_workflow lets through is never refused later for its form: unless the product
\* raises, a run fails only over where a file lies, over the braces of a template, or over
\* a contour whose name no settings path carries as it is (FailsOnlyOverPlace).  The calls of a
\* spec have the form prepare_action asks for, and an export finds the contours it needs.
THEOREM FailsOverPlace == Spec => []FailsOnlyOverPlace
<1>1. Phase /\ PictureInv /\ Fail => FailureOver'
  <2> SUFFICES ASSUME Phase, PictureInv, Fail, ~fault'
               PROVE  FailedOver(Head(ahead').params, Context')
    BY DEF FailureOver
  <2>1. FailedOver(Head(ahead).params, Context)
    <3>1. CASE requests = <<>> /\ ahead # <<>> /\ ~Verdict.ok
      BY <3>1, RefusalOver
    <3>2. CASE Raise
      <4>1. /\ requests # <<>> /\ ~Head(requests).tried
            /\ ~fault /\ ~Possible(Head(requests))
        BY <3>2 DEF Raise
      <4>. QED
        BY <4>1, RaiseOver
    <3>. QED
      BY <3>1, <3>2 DEF Fail
  <2>2. Head(ahead').params = Head(ahead).params /\ Context' = Context
    BY DEF Fail, Context
  <2>. QED
    BY <2>1, <2>2
<1>2. Phase /\ FailureOver /\ [Next]_vars /\ ~Fail => FailureOver'
  <2> SUFFICES ASSUME Phase, FailureOver, [Next]_vars, ~Fail, status' = "failed"
               PROVE  FailureOver'
    BY DEF FailureOver
  <2>1. UNCHANGED vars
    <3>1. Progress => status' = status /\ status = "queued"
      BY DEF Phase, Progress, Carry, Swallow
    <3>2. Proceed => status' = status /\ status = "queued"
      BY DEF Proceed, workVars
    <3>. QED
      BY <3>1, <3>2 DEF Next, Accept, Refuse, Succeed
  <2>2. UNCHANGED <<status, fault, ahead, spec>>
    BY <2>1 DEF vars, workVars, productVars
  <2>3. Context' = Context
    BY <2>2 DEF Context
  <2>. QED
    BY <2>2, <2>3 DEF FailureOver
<1>3. Init => Phase /\ PictureInv /\ FailureOver
  <2>1. Init => FailureOver
    BY DEF Init, FailureOver
  <2>. QED
    BY <2>1, PhaseInit, PictureInit
<1>4. Phase /\ PictureInv /\ FailureOver /\ [Next]_vars => Phase' /\ PictureInv' /\ FailureOver'
  BY <1>1, <1>2, PhaseNext, PictureNext
<1>. QED
  BY <1>3, <1>4, OnlyOverPlace, PTL DEF Spec

\* A picture shows what was asked for under its name: its own contour, with the state given
\* for it, whatever other pictures were saved before with the same contour or another, and
\* whatever raised; and a run that succeeds saved them all (PicturesShowTheirs).  Every
\* request of an export finds the product as the requests before it left it.
THEOREM PicturesTrue == Spec => []PicturesShowTheirs
<1>1. Phase /\ PictureInv => PicturesShowTheirs
  <2> SUFFICES ASSUME Phase, PictureInv, spec # NoSpec PROVE PicturesShowTheirs
    BY DEF PicturesShowTheirs
  <2>1. SpecFormed(spec) /\ Follows(Calls(spec))
    BY DEF Phase
  <2>2. PICK m : m = spec.outputs.images
    OBVIOUS
  <2> DEFINE N == Len(m)
  <2>3. DOMAIN m = 1 .. N /\ N \in Nat /\ IsSequence(m)
    BY <2>1, <2>2, ImagesPlaced
  <2>4. \A f \in DOMAIN solver.pictures :
          \E j \in 1 .. N : PictureFile(m[j]) = f /\ Shows(solver.pictures[f], m[j])
    BY <2>2 DEF PictureInv, PicturesShow
  <2>5. ASSUME status = "succeeded", NEW k \in 1 .. N
        PROVE  PictureFile(m[k]) \in DOMAIN solver.pictures
    <3>1. m # <<>>
      BY <2>3, SequenceEmpty
    <3>2. Some(Calls(spec), {"export_results"})
      BY <2>1, <2>2, <3>1, Exporting
    <3>3. Len(ahead) = 0
      BY <2>5, SequenceEmpty DEF Phase
    <3>4. Some(made, {"export_results"})
      <4>1. PICK c : c = Calls(spec)
        OBVIOUS
      <4>2. /\ Len(made) \in Nat /\ Len(made) + Len(ahead) = Len(c)
            /\ \A i \in 1 .. Len(made) : made[i].action = c[i].action
        BY <2>1, <4>1, SequenceDomain DEF Follows
      <4>3. Len(made) = Len(c)
        BY <3>3, <4>2
      <4>. QED
        BY <3>2, <4>1, <4>2, <4>3 DEF Some
    <3>5. SavedTo(N)
      BY <2>2, <3>4 DEF PictureInv, ExportSaved
    <3>. QED
      BY <2>2, <3>5 DEF SavedTo
  <2> HIDE DEF N
  <2>. QED
    BY <2>2, <2>3, <2>4, <2>5 DEF PicturesShowTheirs
<1>2. Init => Phase /\ PictureInv
  BY PhaseInit, PictureInit
<1>3. Phase /\ PictureInv /\ [Next]_vars => Phase' /\ PictureInv'
  BY PhaseNext, PictureNext
<1>. QED
  BY <1>1, <1>2, <1>3, PTL DEF Spec

-----------------------------------------------------------------------------
(***************************************************************************)
(* The pace of the checkpoints.                                            *)
(***************************************************************************)
\* The action of a checkpoint.
\* What a call makes of the number of chunks since the last checkpoint, of which there
\* are never more than e, and e when the next one is due.
Beat(call, e, m, n) ==
  IF call.action \in SolveActions THEN n = m + 1
  ELSE IF call.action = Checkpoint THEN m = e /\ n = 0 ELSE n = m

\* pace[i] is that number after i of the calls.
Paces(c, e, pace) ==
  /\ IsSequence(c)
  /\ \A i \in 0 .. Len(c) : pace[i] \in 0 .. e
  /\ \A i \in 1 .. Len(c) : Beat(c[i], e, pace[i - 1], pace[i])

\* The calls lead from so many to so many.
Pace(c, e, from, to) == \E pace : Paces(c, e, pace) /\ pace[0] = from /\ pace[Len(c)] = to

\* Calls that neither solve nor save leave it as it was.
LEMMA PaceNothing ==
  ASSUME NEW c, NEW A, Every(c, A), A \cap (SolveActions \cup {Checkpoint}) = {},
         NEW e, NEW n \in 0 .. e
  PROVE  Pace(c, e, n, n)
<1> DEFINE pace == [i \in 0 .. Len(c) |-> n]
<1>1. IsSequence(c) /\ Len(c) \in Nat /\ \A k \in 1 .. Len(c) : c[k].action \in A
  BY SequenceDomain DEF Every
<1>2. \A i \in 0 .. Len(c) : pace[i] = n
  OBVIOUS
<1> HIDE DEF pace
<1>3. \A i \in 1 .. Len(c) : Beat(c[i], e, pace[i - 1], pace[i])
  BY <1>1, <1>2 DEF Beat
<1>4. Paces(c, e, pace) /\ pace[0] = n /\ pace[Len(c)] = n
  BY <1>1, <1>2, <1>3 DEF Paces
<1>. QED
  BY <1>4 DEF Pace

\* One call leads from one number to the next.
LEMMA PaceOne ==
  ASSUME NEW x, NEW e, NEW m \in 0 .. e, NEW n \in 0 .. e, Beat(x, e, m, n)
  PROVE  Pace(<<x>>, e, m, n)
<1> DEFINE c == <<x>>
           pace == [i \in 0 .. 1 |-> IF i = 0 THEN m ELSE n]
<1>1. IsSequence(c) /\ Len(c) = 1 /\ c[1] = x
  BY SequenceOne
<1>2. pace[0] = m /\ pace[1] = n /\ 1 - 1 = 0
  OBVIOUS
<1> HIDE DEF c, pace
<1>3. Beat(c[1], e, pace[1 - 1], pace[1])
  BY <1>1, <1>2
<1>4. /\ \A i \in 0 .. 1 : pace[i] \in 0 .. e
      /\ \A i \in 1 .. 1 : Beat(c[i], e, pace[i - 1], pace[i])
  BY <1>2, <1>3
<1>5. Paces(c, e, pace) /\ pace[0] = m /\ pace[Len(c)] = n
  BY <1>1, <1>2, <1>4 DEF Paces
<1>. QED
  BY <1>5 DEF Pace, c

\* What follows goes on from there.
LEMMA PaceConcat ==
  ASSUME NEW a, NEW b, NEW e, NEW x, NEW y, NEW z, Pace(a, e, x, y), Pace(b, e, y, z)
  PROVE  Pace(a \o b, e, x, z)
<1>1. PICK f : Paces(a, e, f) /\ f[0] = x /\ f[Len(a)] = y
  BY DEF Pace
<1>2. PICK g : Paces(b, e, g) /\ g[0] = y /\ g[Len(b)] = z
  BY DEF Pace
<1> DEFINE c == a \o b
           M == Len(a)
           N == Len(b)
           pace == [i \in 0 .. M + N |-> IF i <= M THEN f[i] ELSE g[i - M]]
<1>3. /\ IsSequence(c) /\ Len(c) = M + N
      /\ M \in Nat /\ N \in Nat
      /\ \A k \in 1 .. M : c[k] = a[k]
      /\ \A j \in 1 .. N : c[M + j] = b[j]
  BY <1>1, <1>2, ConcatParts DEF Paces
<1>4. /\ f[0] = x /\ f[M] = y
      /\ \A i \in 0 .. M : f[i] \in 0 .. e
      /\ \A i \in 1 .. M : Beat(a[i], e, f[i - 1], f[i])
  BY <1>1 DEF Paces
<1>5. /\ g[0] = y /\ g[N] = z
      /\ \A i \in 0 .. N : g[i] \in 0 .. e
      /\ \A i \in 1 .. N : Beat(b[i], e, g[i - 1], g[i])
  BY <1>2 DEF Paces
<1> HIDE DEF c, M, N
<1>6. \A i \in 0 .. M : pace[i] = f[i]
  BY <1>3
<1>7. \A j \in 0 .. N : pace[M + j] = g[j]
  <2> SUFFICES ASSUME NEW j \in 0 .. N PROVE pace[M + j] = g[j]
    OBVIOUS
  <2>1. CASE j = 0
    <3>1. M + j = M /\ M \in 0 .. M
      BY <1>3, <2>1
    <3> HIDE DEF pace
    <3>. QED
      BY <1>4, <1>5, <1>6, <2>1, <3>1
  <2>2. CASE j # 0
    <3> DEFINE i == M + j
    <3>1. i \in 0 .. M + N /\ ~(i <= M) /\ i - M = j
      BY <1>3, <2>2
    <3> HIDE DEF i
    <3>2. pace[i] = g[i - M]
      BY <3>1
    <3>. QED
      BY <3>1, <3>2 DEF i
  <2>. QED
    BY <2>1, <2>2
<1> HIDE DEF pace
<1>8. pace[0] = x /\ pace[M + N] = z
  BY <1>3, <1>4, <1>5, <1>6, <1>7
<1>9. ASSUME NEW i \in 0 .. M + N PROVE pace[i] \in 0 .. e
  <2>1. CASE i <= M
    <3>1. i \in 0 .. M
      BY <1>3, <2>1
    <3>. QED
      BY <1>4, <1>6, <3>1
  <2>2. CASE ~(i <= M)
    <3> DEFINE j == i - M
    <3>1. j \in 0 .. N /\ i = M + j
      BY <1>3, <2>2
    <3> HIDE DEF j
    <3>. QED
      BY <1>5, <1>7, <3>1
  <2>. QED
    BY <2>1, <2>2
<1>10. ASSUME NEW i \in 1 .. M + N PROVE Beat(c[i], e, pace[i - 1], pace[i])
  <2>1. CASE i <= M
    <3>1. i \in 1 .. M /\ i \in 0 .. M /\ i - 1 \in 0 .. M
      BY <1>3, <2>1
    <3>2. c[i] = a[i] /\ pace[i] = f[i] /\ pace[i - 1] = f[i - 1]
      BY <1>3, <1>6, <3>1
    <3>. QED
      BY <1>4, <3>1, <3>2
  <2>2. CASE ~(i <= M)
    <3> DEFINE j == i - M
               l == j - 1
    <3>1. j \in 1 .. N /\ j \in 0 .. N /\ l \in 0 .. N /\ i = M + j /\ i - 1 = M + l
      BY <1>3, <2>2
    <3>2. Beat(b[j], e, g[l], g[j])
      BY <1>5, <3>1
    <3> HIDE DEF j, l
    <3>3. c[i] = b[j] /\ pace[i] = g[j] /\ pace[i - 1] = g[l]
      BY <1>3, <1>7, <3>1
    <3>. QED
      BY <3>2, <3>3
  <2>. QED
    BY <2>1, <2>2
<1>11. Paces(c, e, pace) /\ pace[0] = x /\ pace[Len(c)] = z
  BY <1>3, <1>8, <1>9, <1>10 DEF Paces
<1>. QED
  BY <1>11 DEF Pace, c

\* The calls among the first n of c that have an action of A.
FirstCalls(c, A, n) == {k \in 1 .. n : c[k].action \in A}

\* The next call is one of them if its action is.
LEMMA OneMoreCall ==
  ASSUME NEW c, NEW A, NEW n \in Nat
  PROVE  FirstCalls(c, A, n + 1) = IF c[n + 1].action \in A THEN FirstCalls(c, A, n) \cup {n + 1}
                                   ELSE FirstCalls(c, A, n)
<1>1. 1 .. n + 1 = (1 .. n) \cup {n + 1}
  OBVIOUS
<1>. QED
  BY <1>1 DEF FirstCalls

\* What the pace says of the calls made: the chunks are e for each checkpoint and those
\* since the last one.
Counted(c, e, pace, n) ==
  LET solves == FirstCalls(c, SolveActions, n)
      points == FirstCalls(c, {Checkpoint}, n)
  IN /\ IsFiniteSet(solves) /\ IsFiniteSet(points)
     /\ Cardinality(solves) = e * Cardinality(points) + pace[n]
     /\ \E j \in {0} \cup points : Cardinality({k \in solves : k > j}) = pace[n]

\* Call after call, it says so.
LEMMA PaceCounts ==
  ASSUME NEW c, NEW e \in Nat, NEW pace, Paces(c, e, pace), pace[0] = 0
  PROVE  \A n \in 0 .. Len(c) : Counted(c, e, pace, n)
<1> DEFINE S == {n \in Nat : Counted(c, e, pace, n)}
           N == Len(c)
<1>1. N \in Nat /\ \A i \in 0 .. N : pace[i] \in Nat
  BY SequenceDomain DEF Paces
<1>2. 0 \in S
  <2>1. \A A : FirstCalls(c, A, 0) = {}
    BY DEF FirstCalls
  <2>2. {k \in {} : k > 0} = {}
    OBVIOUS
  <2>3. e * 0 + 0 = 0
    OBVIOUS
  <2>. QED
    BY <2>1, <2>2, <2>3, FS_EmptySet DEF Counted
<1>3. ASSUME NEW n \in Nat, n < N, n \in S PROVE n + 1 \in S
  <2> DEFINE m == n + 1
             s == FirstCalls(c, SolveActions, n)
             t == FirstCalls(c, SolveActions, m)
             p == FirstCalls(c, {Checkpoint}, n)
             q == FirstCalls(c, {Checkpoint}, m)
  <2>1. /\ IsFiniteSet(s) /\ IsFiniteSet(p)
        /\ Cardinality(s) = e * Cardinality(p) + pace[n]
    BY <1>3 DEF Counted
  <2>2. PICK j \in {0} \cup p : Cardinality({k \in s : k > j}) = pace[n]
    BY <1>3 DEF Counted
  <2>3. /\ t = IF c[m].action \in SolveActions THEN s \cup {m} ELSE s
        /\ q = IF c[m].action = Checkpoint THEN p \cup {m} ELSE p
    BY OneMoreCall
  <2>4. s \subseteq 1 .. n /\ p \subseteq 1 .. n
    BY DEF FirstCalls
  <2>5. m \in 1 .. N /\ m - 1 = n /\ m \in Nat /\ m \notin 1 .. n
    BY <1>1, <1>3
  <2>6. Beat(c[m], e, pace[n], pace[m]) /\ pace[n] \in Nat /\ pace[m] \in Nat
    BY <1>1, <1>3, <2>5 DEF Paces
  <2>7. Cardinality(s) \in Nat /\ Cardinality(p) \in Nat
    BY <2>1, FS_CardinalityType
  <2> HIDE DEF m, s, t, p, q
  <2>8. j \in 0 .. n
    BY <2>4
  <2>9. CASE c[m].action \in SolveActions
    <3>1. c[m].action # Checkpoint /\ pace[m] = pace[n] + 1
      BY <2>6, <2>9 DEF Beat, SolveActions, Checkpoint
    <3>2. t = s \cup {m} /\ q = p
      BY <2>3, <2>9, <3>1
    <3>3. IsFiniteSet(t) /\ Cardinality(t) = Cardinality(s) + 1
      BY <2>1, <2>4, <2>5, <3>2, FS_AddElement
    <3> DEFINE r == {k \in s : k > j}
    <3>4. {k \in t : k > j} = r \cup {m} /\ m \notin r
      BY <2>4, <2>5, <2>8, <3>2
    <3>5. IsFiniteSet(r)
      BY <2>1, FS_Subset
    <3>6. Cardinality({k \in t : k > j}) = pace[m]
      <4>1. Cardinality(r) = pace[n]
        BY <2>2
      <4> HIDE DEF r
      <4>2. Cardinality(r \cup {m}) = Cardinality(r) + 1
        BY <3>4, <3>5, FS_AddElement
      <4>. QED
        BY <3>1, <3>4, <4>1, <4>2
    <3>7. Cardinality(t) = e * Cardinality(q) + pace[m]
      <4> DEFINE x == e * Cardinality(p)
      <4>1. x \in Nat /\ Cardinality(s) = x + pace[n]
        BY <2>1, <2>7
      <4> HIDE DEF x
      <4>2. Cardinality(t) = x + pace[m]
        BY <2>6, <3>1, <3>3, <4>1
      <4>. QED
        BY <3>2, <4>2 DEF x
    <3>. QED
      BY <2>1, <2>5, <3>2, <3>3, <3>6, <3>7 DEF Counted, m, t, q
  <2>10. CASE c[m].action = Checkpoint
    <3>1. c[m].action \notin SolveActions /\ pace[n] = e /\ pace[m] = 0
      BY <2>6, <2>10 DEF Beat, SolveActions, Checkpoint
    <3>2. t = s /\ q = p \cup {m}
      BY <2>3, <2>10, <3>1
    <3>3. IsFiniteSet(q) /\ Cardinality(q) = Cardinality(p) + 1
      BY <2>1, <2>4, <2>5, <3>2, FS_AddElement
    <3>4. {k \in t : k > m} = {}
      <4>1. \A k \in 1 .. n : ~(k > m)
        BY <2>5
      <4>. QED
        BY <2>4, <3>2, <4>1
    <3>5. m \in {0} \cup q /\ Cardinality({k \in t : k > m}) = pace[m]
      BY <3>1, <3>2, <3>4, FS_EmptySet
    <3>6. Cardinality(t) = e * Cardinality(q) + pace[m]
      <4> DEFINE x == Cardinality(p)
      <4>1. x \in Nat /\ Cardinality(s) = e * x + e
        BY <2>1, <2>7, <3>1
      <4> HIDE DEF x
      <4>2. e * (x + 1) + 0 = e * x + e
        BY <4>1
      <4>3. Cardinality(q) = x + 1
        BY <3>3 DEF x
      <4>. QED
        BY <3>1, <3>2, <4>1, <4>2, <4>3
    <3>. QED
      BY <2>1, <2>5, <3>2, <3>3, <3>5, <3>6 DEF Counted, m, t, q
  <2>11. CASE c[m].action \notin SolveActions \cup {Checkpoint}
    <3>1. t = s /\ q = p /\ pace[m] = pace[n]
      BY <2>3, <2>6, <2>11 DEF Beat
    <3>. QED
      BY <2>1, <2>2, <2>5, <3>1 DEF Counted, m, t, q
  <2>. QED
    BY <2>9, <2>10, <2>11
<1>. QED
  <2> HIDE DEF S
  <2>1. \A n \in 0 .. N : n \in S
    BY <1>1, <1>2, <1>3, CountingUp
  <2>. QED
    BY <2>1 DEF S

\* A division that leaves r leaves r.
LEMMA Rest ==
  ASSUME NEW q \in Nat, NEW e \in Nat \ {0}, NEW r \in 0 .. e - 1
  PROVE  (e * q + r) % e = r
OBVIOUS

\* A chunk is counted, and saved when it is the e-th since the last checkpoint.
LEMMA ChunkPace ==
  ASSUME NEW s, SpecFormed(s), NEW e \in Nat \ {0}, Solve(s).every = e, NEW k,
         Completed(Solve(s), k) - Completed(Solve(s), k - 1) \in 1 .. s.chunk,
         NEW q \in Nat, NEW r \in 0 .. e - 1, k = e * q + r + 1
  PROVE  Pace(ChunkCalls(Solve(s), k), e, r, IF r + 1 = e THEN 0 ELSE r + 1)
<1> DEFINE op == Solve(s)
           x == SolveCall(op, k)
           a == If(op.reports # <<>>, Call("collect_reports", [reports |-> List(op.reports)]))
           h == <<Health>>
           y == Call("checkpoint_case_data",
                     [file_name |-> CheckpointFile(op, k)])
           p == If(CheckpointDue(op, k), y)
           n == IF r + 1 = e THEN 0 ELSE r + 1
           A == {"collect_reports", "get_solver_health"}
<1>1. x.action \in SolveActions
  BY SolveCallFormed
<1>2. ChunkCalls(op, k) = ((<<x>> \o a) \o h) \o p
  BY DEF ChunkCalls
<1>3. \A action, params : Call(action, params).action = action
  BY DEF Call
<1>4. Every(a, A) /\ Every(h, A)
  BY <1>3, EveryIf, EveryOne DEF Health
<1>5. A \cap (SolveActions \cup {Checkpoint}) = {}
  BY DEF SolveActions, Checkpoint
<1>6. CheckpointDue(op, k) <=> r + 1 = e
  <2>1. CheckpointDue(op, k) <=> k % e = 0
    BY DEF CheckpointDue
  <2>2. CASE r + 1 = e
    <3>1. k = e * (q + 1) + 0
      <4>1. e * (q + 1) = e * q + e /\ e * q \in Nat
        OBVIOUS
      <4>2. k = e * q + e
        BY <2>2, <4>1
      <4>. QED
        BY <4>1, <4>2
    <3>2. k % e = 0
      <4> DEFINE m == q + 1
                 o == 0
      <4>1. k = e * m + o /\ m \in Nat /\ o \in 0 .. e - 1
        BY <3>1
      <4> HIDE DEF m, o
      <4>2. (e * m + o) % e = o
        BY <4>1, Rest
      <4>. QED
        BY <4>1, <4>2 DEF o
    <3>. QED
      BY <2>1, <2>2, <3>2
  <2>3. CASE r + 1 # e
    <3>1. k = e * q + (r + 1) /\ r + 1 \in 0 .. e - 1
      BY <2>3
    <3>2. k % e = r + 1
      BY <3>1, Rest
    <3>. QED
      BY <2>1, <2>3, <3>2
  <2>. QED
    BY <2>2, <2>3
<1>7. y.action = Checkpoint
  BY <1>3 DEF Checkpoint
<1> HIDE DEF op, x, a, h, y, A
<1>8. r \in 0 .. e /\ r + 1 \in 0 .. e /\ n \in 0 .. e
  OBVIOUS
<1>9. Pace(<<x>>, e, r, r + 1)
  BY <1>1, <1>8, PaceOne DEF Beat
<1>10. Pace(a, e, r + 1, r + 1) /\ Pace(h, e, r + 1, r + 1)
  BY <1>4, <1>5, <1>8, PaceNothing
<1>11. Pace(p, e, r + 1, n)
  <2>1. CASE r + 1 = e
    <3>1. p = <<y>> /\ n = 0
      BY <1>6, <2>1 DEF If
    <3>2. Beat(y, e, r + 1, 0)
      BY <1>7, <2>1 DEF Beat, SolveActions, Checkpoint
    <3> HIDE DEF n, p
    <3>3. 0 \in 0 .. e
      OBVIOUS
    <3>. QED
      BY <1>8, <3>1, <3>2, <3>3, PaceOne
  <2>2. CASE r + 1 # e
    <3>1. p = <<>> /\ n = r + 1
      BY <1>6, <2>2 DEF If
    <3>2. Every(<<>>, {})
      BY SequenceEmpty DEF Every
    <3> HIDE DEF n, p
    <3>. QED
      BY <1>8, <3>1, <3>2, PaceNothing
  <2>. QED
    BY <2>1, <2>2
<1> DEFINE i == <<x>>
           m == r + 1
           u == i \o a
           v == u \o h
           w == v \o p
<1> HIDE DEF p, n, i, m
<1>12. Pace(u, e, r, m)
  BY <1>9, <1>10, PaceConcat DEF i, m
<1> HIDE DEF u
<1>13. Pace(v, e, r, m)
  BY <1>10, <1>12, PaceConcat DEF m
<1> HIDE DEF v
<1>14. Pace(w, e, r, n)
  BY <1>11, <1>13, PaceConcat DEF m
<1>15. ChunkCalls(op, k) = w
  BY <1>2 DEF i, u, v
<1> HIDE DEF w
<1>. QED
  BY <1>14, <1>15 DEF op, n

\* All of the chunks keep to the pace.
LEMMA SolvingPace ==
  ASSUME NEW s, SpecFormed(s), NEW e \in Nat \ {0}, Solve(s).every = e
  PROVE  \E r \in 0 .. e : Pace(Solving(s), e, 0, r)
<1> DEFINE op == Solve(s)
<1>1. /\ op.total = s.total /\ op.chunk = s.chunk
      /\ op.total \in Nat \ {0} /\ op.chunk \in Nat \ {0} /\ op.mode # "once"
  BY SolveFormed
<1>2. PICK N \in Nat \ {0} :
           /\ Chunks(op) = 1 .. N
           /\ \A k \in 0 .. N : Completed(op, k) \in Nat
           /\ \A k \in 1 .. N : Completed(op, k) - Completed(op, k - 1) \in 1 .. op.chunk
  BY <1>1, ChunksCount
<1> DEFINE c == [k \in Chunks(op) |-> ChunkCalls(op, k)]
<1>3. Solving(s) = FlattenSeq(c)
  BY <1>1 DEF Solving, OperationCalls
<1>4. c = [k \in 1 .. N |-> c[k]] /\ \A k \in 1 .. N : c[k] = ChunkCalls(op, k)
  BY <1>2
<1> HIDE DEF c
<1>5. IsSequence(c) /\ Len(c) = N
  BY <1>2, <1>4, SequenceOf
<1>6. ASSUME NEW k \in 1 .. N, NEW q \in Nat, NEW r \in 0 .. e - 1, k = e * q + r + 1
      PROVE  Pace(c[k], e, r, IF r + 1 = e THEN 0 ELSE r + 1)
  <2>1. Completed(op, k) - Completed(op, k - 1) \in 1 .. s.chunk
    BY <1>1, <1>2
  <2>2. Pace(ChunkCalls(op, k), e, r, IF r + 1 = e THEN 0 ELSE r + 1)
    BY <1>6, <2>1, ChunkPace
  <2>. QED
    BY <1>4, <2>2
<1>7. AllSequences(c)
  <2>1. ASSUME NEW k \in 1 .. N PROVE IsSequence(c[k])
    <3>1. k - 1 \in 0 .. N /\ k \in 0 .. N
      BY <1>2
    <3>2. /\ Completed(op, k) \in Nat /\ Completed(op, k - 1) \in Nat
          /\ Completed(op, k) - Completed(op, k - 1) \in 1 .. s.chunk
          /\ k \in Chunks(op)
      BY <1>1, <1>2, <3>1
    <3>3. Every(ChunkCalls(op, k), SolveActions \cup ChunkActions)
      BY <3>2, ChunkTally
    <3>. QED
      BY <1>4, <3>3 DEF Every
  <2>. QED
    BY <1>5, <2>1 DEF AllSequences
<1>8. PICK row : Rows(c, row)
  BY <1>7, FlattenOneByOne
<1>9. /\ row[0] = <<>> /\ FlattenSeq(c) = row[N]
      /\ \A k \in 1 .. N : row[k] = row[k - 1] \o c[k]
  BY <1>5, <1>8 DEF Rows
<1> DEFINE S == {k \in Nat : k <= N => \E q \in Nat, r \in 0 .. e - 1 :
                               k = e * q + r /\ Pace(row[k], e, 0, r)}
<1> HIDE DEF op
<1>10. 0 \in S
  <2>1. Every(<<>>, {})
    BY SequenceEmpty DEF Every
  <2>2. Pace(<<>>, e, 0, 0)
    BY <2>1, PaceNothing
  <2>3. 0 = e * 0 + 0 /\ 0 \in Nat /\ 0 \in 0 .. e - 1
    OBVIOUS
  <2>. QED
    BY <1>9, <2>2, <2>3
<1>11. ASSUME NEW k \in Nat, k < N, k \in S PROVE k + 1 \in S
  <2>1. PICK q \in Nat, r \in 0 .. e - 1 : k = e * q + r /\ Pace(row[k], e, 0, r)
    BY <1>2, <1>11
  <2> DEFINE m == k + 1
             n == IF r + 1 = e THEN 0 ELSE r + 1
             p == IF r + 1 = e THEN q + 1 ELSE q
             a == row[k]
             b == c[m]
  <2>2. m \in 1 .. N /\ m - 1 = k /\ m \in Nat /\ m = e * q + r + 1
    BY <1>2, <1>11, <2>1
  <2>3. row[m] = a \o b
    BY <1>9, <2>2
  <2>4. Pace(b, e, r, n)
    <3> HIDE DEF m
    <3>. QED
      BY <1>6, <2>2
  <2>5. p \in Nat /\ n \in 0 .. e - 1 /\ m = e * p + n
    <3>1. CASE r + 1 = e
      BY <2>1, <3>1
    <3>2. CASE r + 1 # e
      BY <2>1, <3>2
    <3>. QED
      BY <3>1, <3>2
  <2> HIDE DEF m, n, p, a, b
  <2>6. Pace(a \o b, e, 0, n)
    BY <2>1, <2>4, PaceConcat DEF a
  <2>7. m \in S
    BY <2>2, <2>3, <2>5, <2>6
  <2>. QED
    BY <2>7 DEF m
<1>12. N \in S
  <2> HIDE DEF S
  <2>1. \A k \in 0 .. N : k \in S
    BY <1>2, <1>10, <1>11, CountingUp
  <2>. QED
    BY <1>2, <2>1
<1>13. PICK r \in 0 .. e - 1 : Pace(row[N], e, 0, r)
  BY <1>2, <1>12
<1>14. r \in 0 .. e /\ Pace(Solving(s), e, 0, r)
  BY <1>3, <1>9, <1>13
<1>. QED
  BY <1>14

\* And nothing else of the run counts.
LEMMA CallsPace ==
  ASSUME NEW s, SpecFormed(s), NEW e \in Nat \ {0}, Solve(s).every = e
  PROVE  \E pace : Paces(Calls(s), e, pace) /\ pace[0] = 0
<1> DEFINE p == Opening(s)
           f == Solving(s)
           z == Closing(s)
           A == {"start_transcript", "set_state", "initialize_solution",
                 "get_solver_health"} \cup Readers
           B == {"collect_reports", "export_results", "write_case", "write_case_data",
                 "get_solver_health"}
<1>1. PICK r \in 0 .. e : Pace(f, e, 0, r)
  BY SolvingPace
<1>2. Every(p, A) /\ Every(z, B)
  BY OpeningInOrder, ClosingCalls
<1>3. /\ A \cap (SolveActions \cup {Checkpoint}) = {}
      /\ B \cap (SolveActions \cup {Checkpoint}) = {}
  BY DEF SolveActions, Checkpoint, Readers
<1>4. IsSequence(f)
  BY <1>1 DEF Pace, Paces
<1>5. Calls(s) = p \o (f \o z)
  BY <1>4, CallsInParts
<1> HIDE DEF p, f, z, A, B
<1>6. Pace(p, e, 0, 0) /\ Pace(z, e, r, r)
  BY <1>2, <1>3, PaceNothing
<1> DEFINE u == f \o z
           w == p \o u
<1>7. Pace(u, e, 0, r)
  BY <1>1, <1>6, PaceConcat
<1> HIDE DEF u
<1>8. Pace(w, e, 0, r)
  BY <1>6, <1>7, PaceConcat
<1>9. Calls(s) = w
  BY <1>5 DEF u
<1> HIDE DEF w
<1>. QED
  BY <1>8, <1>9 DEF Pace

\* A run that is not to save does not save.
LEMMA NothingSaved ==
  ASSUME NEW s, SpecFormed(s), ~(Solve(s).every > 0)
  PROVE  ~Some(Calls(s), {Checkpoint})
<1> DEFINE op == Solve(s)
           A == SolveActions \cup {"collect_reports", "get_solver_health"}
           B == A \cup Readers \cup {"start_transcript", "set_state", "initialize_solution",
                                     "export_results", "write_case", "write_case_data"}
<1>1. ASSUME NEW k,
             Completed(op, k) - Completed(op, k - 1) \in 1 .. s.chunk
      PROVE  Every(ChunkCalls(op, k), A)
  <2> DEFINE x == <<SolveCall(op, k)>>
             a == If(op.reports # <<>>, Call("collect_reports", [reports |-> List(op.reports)]))
             h == <<Health>>
             y == Call("checkpoint_case_data",
                       [file_name |-> CheckpointFile(op, k)])
             p == If(CheckpointDue(op, k), y)
             u == x \o a
             v == u \o h
             w == v \o p
  <2>1. SolveCall(op, k).action \in SolveActions
    BY <1>1, SolveCallFormed
  <2>2. \A action, params : Call(action, params).action = action
    BY DEF Call
  <2>3. Every(x, A) /\ Every(a, A) /\ Every(h, A)
    BY <2>1, <2>2, EveryIf, EveryOne DEF Health
  <2>4. p = <<>>
    BY DEF If, CheckpointDue
  <2>5. Every(p, A)
    BY <2>4, SequenceEmpty DEF Every
  <2>6. ChunkCalls(op, k) = w
    BY DEF ChunkCalls
  <2> HIDE DEF x, a, h, p, op, A
  <2>7. Every(u, A)
    BY <2>3, EveryConcat
  <2> HIDE DEF u
  <2>8. Every(v, A)
    BY <2>3, <2>7, EveryConcat
  <2> HIDE DEF v
  <2>9. Every(w, A)
    BY <2>5, <2>8, EveryConcat
  <2>. QED
    BY <2>6, <2>9
<1>2. /\ op.total = s.total /\ op.chunk = s.chunk
      /\ op.total \in Nat \ {0} /\ op.chunk \in Nat \ {0} /\ op.mode # "once"
  BY SolveFormed
<1>3. PICK N \in Nat \ {0} :
           /\ Chunks(op) = 1 .. N
           /\ \A k \in 1 .. N : Completed(op, k) - Completed(op, k - 1) \in 1 .. op.chunk
  BY <1>2, ChunksCount
<1> DEFINE c == [k \in Chunks(op) |-> ChunkCalls(op, k)]
<1>4. Solving(s) = FlattenSeq(c)
  BY <1>2 DEF Solving, OperationCalls
<1>5. c = [k \in 1 .. N |-> c[k]] /\ \A k \in 1 .. N : c[k] = ChunkCalls(op, k)
  BY <1>3
<1> HIDE DEF c
<1>6. IsSequence(c) /\ Len(c) = N
  BY <1>3, <1>5, SequenceOf
<1>7. \A k \in 1 .. N : Every(c[k], A)
  BY <1>1, <1>2, <1>3, <1>5
<1> HIDE DEF op, A
<1>8. AllSequences(c) /\ Every(FlattenSeq(c), A)
  <2>1. AllSequences(c)
    BY <1>6, <1>7 DEF AllSequences, Every
  <2>. QED
    BY <1>6, <1>7, <2>1, EveryFlat
<1> DEFINE p == Opening(s)
           f == Solving(s)
           z == Closing(s)
<1>9. Every(f, A) /\ A \subseteq B
  BY <1>4, <1>8
<1>10. Every(f, B)
  BY <1>9, EveryMore
<1>11. Every(p, B)
  <2>1. Every(p, {"start_transcript", "set_state", "initialize_solution",
                  "get_solver_health"} \cup Readers)
    BY OpeningInOrder
  <2>. QED
    BY <2>1, EveryMore DEF A
<1>12. Every(z, B)
  <2>1. Every(z, {"collect_reports", "export_results", "write_case", "write_case_data",
                  "get_solver_health"})
    BY ClosingCalls
  <2>. QED
    BY <2>1, EveryMore DEF A
<1>13. Calls(s) = p \o (f \o z)
  BY <1>10, CallsInParts DEF Every
<1>14. Checkpoint \notin B
  BY DEF A, SolveActions, Checkpoint, Readers
<1> HIDE DEF p, f, z, B
<1> DEFINE u == f \o z
           w == p \o u
<1>15. Every(u, B)
  BY <1>10, <1>12, EveryConcat
<1> HIDE DEF u
<1>16. Every(w, B)
  BY <1>11, <1>15, EveryConcat
<1>17. Calls(s) = w
  BY <1>13 DEF u
<1> HIDE DEF w
<1>. QED
  BY <1>14, <1>16, <1>17 DEF Every, Some

\* What load_spec makes of the checkpoints is a number of chunks.
Numbered(s) == s.outputs.checkpoints.enabled \in BOOLEAN /\ s.outputs.checkpoints.every \in Nat

\* What load_spec has looked at gives no other.
LEMMA LoadNumbered ==
  ASSUME NEW d \in Documents, SpecOk(d)
  PROVE  Numbered(LoadSpec(d))
<1> DEFINE v == d.outputs.checkpoints
           n == Get(v, "every_chunks")
<1>1. /\ v.t = "bool" => v \in {Truth(TRUE), Truth(FALSE)}
      /\ v.t = "dict" => (n.t = "int" => n.n \in Int)
  BY DocumentsAssumption DEF DocumentFormed
<1>2. \/ IsNull(v) \/ v.t = "bool" \/ IsNumber(v, 0)
      \/ v.t = "dict" /\ (IsNull(n) \/ PositiveInt(n))
  BY DEF SpecOk, OutputsOk, CheckpointsOk
<1>3. LoadSpec(d).outputs.checkpoints = Checkpoints(v)
  BY DEF LoadSpec, Outputs
<1>4. Enabled(v) \in BOOLEAN
  BY DEF Enabled, Truthy
<1>5. EveryChunks(v) = IF n = NoField THEN (IF Enabled(v) THEN 1 ELSE 0)
                       ELSE IF IsNull(n) THEN 0 ELSE n.n
  BY DEF EveryChunks
<1>6. v.t = "dict" => EveryChunks(v) \in Nat
  <2> HIDE DEF n, v
  <2>1. PositiveInt(n) => n.t = "int" /\ n.n > 0
    BY DEF PositiveInt, IsPositive
  <2>2. v.t = "dict" => v.t # "bool" /\ ~IsNull(v) /\ ~IsNumber(v, 0)
    BY DEF IsNull, IsNumber
  <2>3. v.t = "dict" => IsNull(n) \/ (n.t = "int" /\ n.n \in Int /\ n.n > 0)
    BY <1>1, <1>2, <2>1, <2>2
  <2>. QED
    BY <1>5, <2>3
<1>7. Checkpoints(v).enabled \in BOOLEAN /\ Checkpoints(v).every \in Nat
  <2> HIDE DEF n, v
  <2> DEFINE off == IsNull(v) \/ IsBool(v, FALSE) \/ IsNumber(v, 0)
  <2>1. CASE off
    BY <2>1 DEF Checkpoints
  <2>2. CASE ~off /\ IsBool(v, TRUE)
    BY <2>2 DEF Checkpoints
  <2>3. CASE ~off /\ ~IsBool(v, TRUE)
    <3>1. v.t = "dict"
      BY <1>1, <1>2, <2>3 DEF IsBool
    <3>2. Checkpoints(v).enabled = Enabled(v) /\ Checkpoints(v).every = EveryChunks(v)
      BY <2>3 DEF Checkpoints
    <3>. QED
      BY <1>4, <1>6, <3>1, <3>2
  <2>. QED
    BY <2>1, <2>2, <2>3
<1>. QED
  BY <1>3, <1>7 DEF Numbered

\* The calls made are the first of the run's.
LEMMA MadeCalls ==
  ASSUME Phase, spec # NoSpec
  PROVE  /\ SpecFormed(spec) /\ Len(made) \in 0 .. Len(Calls(spec))
         /\ \A A : Made(A) = FirstCalls(Calls(spec), A, Len(made))
<1>1. PICK c : c = Calls(spec)
  OBVIOUS
<1>2. SpecFormed(spec) /\ Follows(c)
  BY <1>1 DEF Phase
<1>3. /\ Len(made) \in Nat /\ Len(ahead) \in Nat /\ DOMAIN made = 1 .. Len(made)
      /\ Len(made) + Len(ahead) = Len(c)
      /\ \A k \in 1 .. Len(made) : made[k].action = c[k].action
  BY <1>2, SequenceDomain DEF Follows
<1>4. Len(made) \in 0 .. Len(c)
  BY <1>3
<1>5. \A A : Made(A) = FirstCalls(c, A, Len(made))
  BY <1>3 DEF Made, FirstCalls
<1>. QED
  BY <1>1, <1>2, <1>4, <1>5

\* Rounded down, e for each of p and at most e more are no fewer than p.
LEMMA AtLeast ==
  ASSUME NEW p \in Nat, NEW e \in Nat \ {0}, NEW f \in 0 .. e
  PROVE  p <= (e * p + f) \div e
OBVIOUS

\* With checkpoints every n chunks, a crash never costs more than n chunks, and no more
\* checkpoints are written than were asked for (CheckpointsKeepUp): the worker counts
\* the chunks from one and saves after each n-th, before it begins the next.
THEOREM CheckpointsInTime == Spec => []CheckpointsKeepUp
<1> DEFINE Known == spec # NoSpec => Numbered(spec)
<1>1. Phase /\ Known => CheckpointsKeepUp
  <2> SUFFICES ASSUME Phase, spec # NoSpec, Numbered(spec), spec.workflow = "reflow"
               PROVE  CheckpointsKeepUp
    BY DEF CheckpointsKeepUp
  <2> DEFINE points == spec.outputs.checkpoints
             M == Len(made)
             s == Made(SolveActions)
             p == Made({"checkpoint_case_data"})
  <2>1. PICK c : c = Calls(spec)
    OBVIOUS
  <2>2. /\ SpecFormed(spec) /\ M \in 0 .. Len(c)
        /\ s = FirstCalls(c, SolveActions, M) /\ p = FirstCalls(c, {Checkpoint}, M)
    BY <2>1, MadeCalls DEF Checkpoint
  <2>3. Solve(spec).every = IF points.enabled THEN points.every ELSE 0
    BY DEF Solve
  <2>4. Saved = {0} \cup p
    BY DEF Saved
  <2>5. CASE points.enabled /\ points.every > 0
    <3>1. PICK e : e = points.every
      OBVIOUS
    <3>2. e \in Nat \ {0} /\ Solve(spec).every = e
      BY <2>3, <2>5, <3>1 DEF Numbered
    <3>3. PICK pace : Paces(c, e, pace) /\ pace[0] = 0
      BY <2>1, <2>2, <3>2, CallsPace
    <3>4. Counted(c, e, pace, M)
      BY <2>2, <3>2, <3>3, PaceCounts
    <3>5. pace[M] \in 0 .. e
      BY <2>2, <3>3 DEF Paces
    <3> HIDE DEF s, p, M
    <3>6. /\ IsFiniteSet(s) /\ IsFiniteSet(p)
          /\ Cardinality(s) = e * Cardinality(p) + pace[M]
      BY <2>2, <3>4 DEF Counted
    <3>7. PICK j \in {0} \cup p : Cardinality({k \in s : k > j}) = pace[M]
      BY <2>2, <3>4 DEF Counted
    <3>8. \E i \in Saved : ChunksSince(i) <= e
      <4>1. ChunksSince(j) = pace[M]
        BY <3>7 DEF ChunksSince, s
      <4>2. ChunksSince(j) <= e
        BY <3>2, <3>5, <4>1
      <4>. QED
        BY <2>4, <3>7, <4>2
    <3>9. Cardinality(Saved) - 1 <= Cardinality(s) \div e
      <4>1. 0 \notin p
        BY <2>2 DEF FirstCalls
      <4>2. Cardinality(p) \in Nat
        BY <3>6, FS_CardinalityType
      <4>3. Cardinality(p \cup {0}) = Cardinality(p) + 1
        BY <3>6, <4>1, FS_AddElement
      <4>4. p \cup {0} = Saved
        BY <2>4
      <4>5. Cardinality(Saved) - 1 = Cardinality(p)
        <5>1. PICK x : x = Cardinality(p)
          OBVIOUS
        <5>2. Cardinality(Saved) = x + 1
          BY <4>3, <4>4, <5>1
        <5>3. x \in Nat
          BY <4>2, <5>1
        <5>. QED
          BY <5>1, <5>2, <5>3
      <4>6. Cardinality(p) <= (e * Cardinality(p) + pace[M]) \div e
        BY <3>2, <3>5, <4>2, AtLeast
      <4>. QED
        BY <3>6, <4>5, <4>6
    <3>. QED
      BY <2>5, <3>1, <3>8, <3>9 DEF CheckpointsKeepUp, s
  <2>6. CASE ~(points.enabled /\ points.every > 0)
    <3>1. ~(Solve(spec).every > 0)
      BY <2>3, <2>6 DEF Numbered
    <3>2. ~Some(c, {Checkpoint})
      BY <2>1, <2>2, <3>1, NothingSaved
    <3>3. p = {}
      <4> HIDE DEF p, s, M
      <4> SUFFICES ASSUME NEW k \in p PROVE FALSE
        OBVIOUS
      <4>1. k \in 1 .. M /\ c[k].action \in {Checkpoint}
        BY <2>2 DEF FirstCalls
      <4>2. Len(c) \in Nat
        BY <2>1, <2>2, CallsFormed, SequenceDomain DEF InOrder
      <4>3. k \in 1 .. Len(c)
        BY <2>2, <4>1, <4>2
      <4>. QED
        BY <3>2, <4>1, <4>3 DEF Some
    <3>. QED
      BY <2>4, <2>6, <3>3 DEF CheckpointsKeepUp
  <2>. QED
    BY <2>5, <2>6
<1>2. Init => Phase /\ Known
  BY PhaseInit DEF Init
<1>3. Phase /\ Known /\ [Next]_vars => Phase' /\ Known'
  <2> SUFFICES ASSUME Phase, Known, [Next]_vars PROVE Known'
    BY PhaseNext
  <2>1. CASE Accept
    <3>1. spec' = LoadSpec(document) /\ document \in Documents /\ SpecOk(document)
      BY <2>1 DEF Accept, Phase
    <3>2. Numbered(LoadSpec(document))
      BY <3>1, LoadNumbered
    <3>. QED
      BY <3>1, <3>2 DEF Numbered
  <2>2. CASE ~Accept
    <3>1. spec' = spec
      BY <2>2 DEF Next, Refuse, Proceed, Progress, Fail, Succeed, workVars, vars
    <3>. QED
      BY <3>1 DEF Numbered
  <2>. QED
    BY <2>1, <2>2
<1>. QED
  BY <1>1, <1>2, <1>3, PTL DEF Spec

-----------------------------------------------------------------------------
(***************************************************************************)
(* What a run writes, and where to.                                        *)
(***************************************************************************)
\* An action that occurs in no call of c, and one that occurs in one at most.
Lacks(c, a) == \A k \in 1 .. Len(c) : c[k].action # a
Singly(c, a) == \A i, j \in 1 .. Len(c) : c[i].action = a /\ c[j].action = a => i = j

LEMMA EveryLacks ==
  ASSUME NEW c, NEW A, Every(c, A), NEW a, a \notin A
  PROVE  IsSequence(c) /\ Lacks(c, a) /\ Singly(c, a)
BY DEF Every, Lacks, Singly

\* Calls of which only one part has the action.
LEMMA SinglyConcat ==
  ASSUME NEW x, NEW y, IsSequence(x), IsSequence(y), NEW a, Singly(x, a), Singly(y, a),
         Lacks(x, a) \/ Lacks(y, a)
  PROVE  IsSequence(x \o y) /\ Singly(x \o y, a)
<1> DEFINE c == x \o y
           M == Len(x)
<1>1. /\ IsSequence(c) /\ Len(c) = M + Len(y) /\ M \in Nat /\ Len(y) \in Nat
      /\ \A k \in 1 .. M : c[k] = x[k]
      /\ \A k \in 1 .. M + Len(y) : k \notin 1 .. M => k - M \in 1 .. Len(y) /\ c[k] = y[k - M]
  BY ConcatParts
<1> HIDE DEF c, M
<1>2. ASSUME NEW i \in 1 .. Len(c), NEW j \in 1 .. Len(c), c[i].action = a, c[j].action = a
      PROVE  i = j
  <2>1. CASE i \in 1 .. M /\ j \in 1 .. M
    BY <1>1, <1>2, <2>1 DEF Singly, M
  <2>2. CASE i \in 1 .. M /\ j \notin 1 .. M
    BY <1>1, <1>2, <2>2 DEF Lacks, M
  <2>3. CASE i \notin 1 .. M /\ j \in 1 .. M
    BY <1>1, <1>2, <2>3 DEF Lacks, M
  <2>4. CASE i \notin 1 .. M /\ j \notin 1 .. M
    <3>1. i - M \in 1 .. Len(y) /\ y[i - M].action = a /\ j - M \in 1 .. Len(y)
            /\ y[j - M].action = a
      BY <1>1, <1>2, <2>4
    <3>2. i - M = j - M
      BY <3>1 DEF Singly
    <3>. QED
      BY <1>1, <3>2
  <2>. QED
    BY <2>1, <2>2, <2>3, <2>4
<1>. QED
  BY <1>1, <1>2 DEF Singly, c

\* An operation that is done once has its action once.
LEMMA SinglyMaybe ==
  ASSUME NEW b, NEW op, op.mode = "once", NEW a, a # "get_solver_health"
  PROVE  Singly(CallsOf(If(b, op)), a)
<1>1. CASE b
  <2> DEFINE x == Call(op.action, op.params)
             c == <<x, Health>>
  <2>1. x.action = op.action /\ Health.action = "get_solver_health"
    BY DEF Call, Health
  <2>2. OperationCalls(op) = c
    BY DEF OperationCalls
  <2>3. IsSequence(OperationCalls(op))
    BY OnceCalls DEF Every
  <2>4. CallsOf(<<op>>) = OperationCalls(op)
    BY <2>3, CallsOfOne
  <2> HIDE DEF x
  <2>5. Len(c) = 2 /\ c[1] = x /\ c[2] = Health
    OBVIOUS
  <2> HIDE DEF c
  <2>6. Singly(c, a)
    BY <2>1, <2>5 DEF Singly
  <2>. QED
    BY <1>1, <2>2, <2>4, <2>6 DEF If
<1>2. CASE ~b
  <2>1. \A k \in 1 .. Len(<<>>) : FALSE
    BY SequenceEmpty
  <2>2. Every(CallsOf(<<>>), {})
    BY <2>1, SequenceEmpty, EveryCalls
  <2>. QED
    BY <1>2, <2>2, EveryLacks DEF If
<1>. QED
  BY <1>1, <1>2

\* The files that are written once.
OnceWritten == {"start_transcript", "write_case", "write_case_data"}

LEMMA OpeningSingly ==
  ASSUME NEW s, SpecFormed(s), NEW a \in OnceWritten
  PROVE  IsSequence(Opening(s)) /\ Singly(Opening(s), a)
<1> DEFINE t == TranscriptCalls(s)
           r == CallsOf(<<Read(s)>>)
           h == CallsOf(Changes(s.sections))
           i == CallsOf(<<Initialize(s)>>)
           A == {"set_state", "initialize_solution", "get_solver_health"} \cup Readers
           e == Call("start_transcript",
                     [file_name |-> OutputFile(s.outputs.transcript.file, "transcript")])
<1>1. Every(t, {"start_transcript"})
  BY OpeningCalls
<1>2. /\ Every(r, Readers \cup {"get_solver_health"})
      /\ Every(h, {"set_state", "get_solver_health"})
      /\ Every(i, {"initialize_solution", "get_solver_health"})
  BY OpeningCalls
<1>3. Every(r, A) /\ Every(h, A) /\ Every(i, A)
  BY <1>2, EveryMore
<1>4. Opening(s) = t \o ((r \o h) \o i)
  BY DEF Opening
<1>5. a \notin A
  BY DEF OnceWritten, Readers
<1>6. Singly(t, a)
  <2>1. t = If(s.outputs.transcript.enabled, e)
    BY DEF TranscriptCalls
  <2> HIDE DEF e, t
  <2>2. Len(<<e>>) = 1 /\ Len(<<>>) = 0
    BY SequenceOne, SequenceEmpty
  <2>3. Len(t) \in {0, 1}
    BY <2>1, <2>2 DEF If
  <2>. QED
    BY <2>3 DEF Singly
<1> HIDE DEF t, r, h, i, A
<1> DEFINE u == r \o h
           v == u \o i
           w == t \o v
<1>7. Every(u, A)
  BY <1>3, EveryConcat
<1> HIDE DEF u
<1>8. Every(v, A)
  BY <1>3, <1>7, EveryConcat
<1> HIDE DEF v
<1>9. IsSequence(w) /\ Singly(w, a)
  <2>1. IsSequence(t)
    BY <1>1 DEF Every
  <2>. QED
    BY <1>5, <1>6, <1>8, <2>1, EveryLacks, SinglyConcat
<1>10. Opening(s) = w
  BY <1>4 DEF u, v
<1> HIDE DEF w
<1>. QED
  BY <1>9, <1>10

LEMMA ClosingSingly ==
  ASSUME NEW s, NEW a \in OnceWritten
  PROVE  IsSequence(Closing(s)) /\ Singly(Closing(s), a)
<1> DEFINE o == s.outputs
           oc == Once("write", "write_case",
                      [file_name |-> OutputFile(o.final_case.file, "final")])
           od == Once("write", "write_case_data",
                      [file_name |-> OutputFile(o.final_case_data.file, "final-data")])
           p == CallsOf(ReportOps(o))
           c == If(o.final_case.enabled, oc)
           d == If(o.final_case_data.enabled, od)
           x == CallsOf(c)
           y == CallsOf(d)
           A == {"collect_reports", "export_results", "get_solver_health"}
<1>1. /\ oc.mode = "once" /\ oc.action = "write_case"
      /\ od.mode = "once" /\ od.action = "write_case_data"
  BY DEF Once
<1>2. Every(p, A)
  <2> DEFINE oa == Once("report", "collect_reports", [reports |-> List(o.reports)])
             ob == Once("report", "export_results", [images |-> Images(o.images)])
             f == If(o.reports # <<>>, oa)
             g == If(o.images # <<>>, ob)
  <2>1. /\ oa.mode = "once" /\ oa.action = "collect_reports"
        /\ ob.mode = "once" /\ ob.action = "export_results"
    BY DEF Once
  <2>2. ReportOps(o) = f \o g
    BY DEF ReportOps
  <2> HIDE DEF oa, ob
  <2>3. /\ Operations(f) /\ Every(CallsOf(f), A)
        /\ Operations(g) /\ Every(CallsOf(g), A)
    BY <2>1, IfCalls
  <2> HIDE DEF f, g, A
  <2>4. CallsOf(f \o g) = CallsOf(f) \o CallsOf(g)
    BY <2>3, CallsOfBoth
  <2>5. Every(CallsOf(f) \o CallsOf(g), A)
    BY <2>3, EveryConcat
  <2>. QED
    BY <2>2, <2>4, <2>5
<1>3. Writes(o) = c \o d
  BY DEF Writes
<1> HIDE DEF oc, od
<1>4. /\ Operations(c) /\ Every(x, {"write_case", "get_solver_health"}) /\ Singly(x, a)
      /\ Operations(d) /\ Every(y, {"write_case_data", "get_solver_health"}) /\ Singly(y, a)
  BY <1>1, IfCalls, SinglyMaybe DEF OnceWritten
<1> HIDE DEF c, d
<1>5. CallsOf(c \o d) = x \o y
  BY <1>4, CallsOfBoth
<1>6. Closing(s) = p \o (x \o y)
  BY <1>3, <1>5 DEF Closing
<1>7. a \notin A /\ (a \notin {"write_case", "get_solver_health"}
                      \/ a \notin {"write_case_data", "get_solver_health"})
  BY DEF OnceWritten
<1> HIDE DEF p, x, y, A
<1> DEFINE u == x \o y
           w == p \o u
<1>8. IsSequence(u) /\ Singly(u, a)
  BY SMTT(60), <1>4, <1>7, EveryLacks, SinglyConcat
<1> HIDE DEF u
<1>9. IsSequence(w) /\ Singly(w, a)
  BY <1>2, <1>7, <1>8, EveryLacks, SinglyConcat
<1>10. Closing(s) = w
  BY <1>6 DEF u
<1> HIDE DEF w
<1>. QED
  BY <1>9, <1>10

\* A run opens its transcript once, and writes its case and its data once.
LEMMA CallsSingly ==
  ASSUME NEW s, SpecFormed(s), NEW a \in OnceWritten
  PROVE  Singly(Calls(s), a)
<1> DEFINE p == Opening(s)
           f == Solving(s)
           z == Closing(s)
           F == SolveActions \cup ChunkActions
           P == {"start_transcript", "set_state", "initialize_solution",
                 "get_solver_health"} \cup Readers
           Z == {"collect_reports", "export_results", "write_case", "write_case_data",
                 "get_solver_health"}
<1>1. Every(f, F) /\ Every(p, P) /\ Every(z, Z)
  BY SolvingTally, OpeningInOrder, ClosingCalls
<1>2. a \notin F /\ (a \notin P \/ a \notin Z)
  BY DEF OnceWritten, SolveActions, ChunkActions, Readers
<1>3. Calls(s) = p \o (f \o z)
  BY <1>1, CallsInParts DEF Every
<1>4. IsSequence(p) /\ Singly(p, a) /\ IsSequence(z) /\ Singly(z, a)
  BY OpeningSingly, ClosingSingly
<1> HIDE DEF p, f, z, F, P, Z
<1> DEFINE u == f \o z
           w == p \o u
<1>5. IsSequence(u) /\ Singly(u, a)
  BY <1>1, <1>2, <1>4, EveryLacks, SinglyConcat
<1>6. Lacks(p, a) \/ Lacks(u, a)
  <2>1. CASE a \notin P
    BY <1>1, <2>1, EveryLacks
  <2>2. CASE a \notin Z
    <3>1. Every(f, F \cup Z) /\ Every(z, F \cup Z)
      BY <1>1, EveryMore
    <3>2. Every(u, F \cup Z)
      BY <3>1, EveryConcat
    <3>. QED
      BY <1>2, <2>2, <3>2, EveryLacks
  <2>. QED
    BY <1>2, <2>1, <2>2
<1> HIDE DEF u
<1>7. Singly(w, a)
  BY <1>4, <1>5, <1>6, SinglyConcat
<1>8. Calls(s) = w
  BY <1>3 DEF u
<1> HIDE DEF w
<1>. QED
  BY <1>7, <1>8

\* The calls that leave a case behind, each with one request.
CaseWriters == {"checkpoint_case_data", "write_case", "write_case_data"}

\* Requests that leave none.
Writeless(r) == IsSequence(r) /\ \A k \in 1 .. Len(r) : r[k].op # "write"

LEMMA WritelessOne ==
  ASSUME NEW y, y.op # "write"
  PROVE  Writeless(<<y>>)
<1> DEFINE a == <<y>>
<1>1. IsSequence(a) /\ Len(a) = 1 /\ a[1] = y
  BY SequenceOne
<1> HIDE DEF a
<1>2. Writeless(a)
  BY <1>1 DEF Writeless
<1>. QED
  BY <1>2 DEF a

LEMMA WritelessTwo ==
  ASSUME NEW y, y.op # "write", NEW z, z.op # "write"
  PROVE  Writeless(<<y, z>>)
<1> DEFINE a == <<y, z>>
<1>1. a \in Seq({y, z}) /\ Len(a) = 2 /\ a[1] = y /\ a[2] = z
  OBVIOUS
<1> HIDE DEF a
<1>2. IsSequence(a)
  BY <1>1, SequenceIn
<1>3. Writeless(a)
  BY <1>1, <1>2 DEF Writeless
<1>. QED
  BY <1>3 DEF a

\* A call that leaves a case asks for one write; no other asks for any.
LEMMA WriteRequests ==
  ASSUME NEW s, SpecFormed(s), NEW e, FormedCall(e, s),
         e.action \in SolveActions => Solves(e, s),
         NEW x, NEW q, PrepareAction(e.action, e.params, x) = Accepted(q)
  PROVE  IF e.action \in CaseWriters
         THEN Requests(e.action, q) = <<Request("write", q.file_name)>>
         ELSE Writeless(Requests(e.action, q))
<1> DEFINE r == Requests(e.action, q)
<1>1. \A op, with : Request(op, with).op = op /\ Tried(op, with).op = op
  BY DEF Request, Tried
<1>2. CASE e.action \in CaseWriters
  BY <1>2 DEF Requests, CaseWriters
<1>3. CASE e.action \in SolveActions
  <2> DEFINE y == Request("set_size", s.stepSize)
             z == Request("solve", SizeOf(e))
  <2>1. r = IF s.workflow = "steady" THEN <<z>> ELSE <<y>> \o <<z>>
    BY <1>3, SolveRequests
  <2>2. y.op # "write" /\ z.op # "write"
    BY <1>1
  <2> HIDE DEF y, z, r
  <2>3. <<y>> \o <<z>> = <<y, z>>
    BY TwoInARow
  <2>4. Writeless(<<z>>) /\ Writeless(<<y, z>>)
    BY <2>2, WritelessOne, WritelessTwo
  <2>5. Writeless(r)
    BY <2>1, <2>3, <2>4
  <2>6. e.action \notin CaseWriters
    BY <1>3 DEF CaseWriters, SolveActions
  <2>. QED
    BY <2>5, <2>6 DEF r
<1>4. CASE e.action = "collect_reports"
  <2>1. Quiet(r)
    BY <1>4, QuietRequests DEF SolveActions
  <2>2. IsSequence(r) /\ DOMAIN r = 1 .. Len(r)
    BY <2>1, SequenceDomain DEF Quiet
  <2> DEFINE m == q.reports.items
  <2>3. r = [k \in DOMAIN m |-> Request("report", m[k].fields.name)]
    BY <1>4 DEF Requests
  <2> HIDE DEF r, m
  <2>4. ASSUME NEW k \in 1 .. Len(r) PROVE r[k].op # "write"
    <3>1. r[k] = Request("report", m[k].fields.name)
      BY <2>2, <2>3
    <3>. QED
      BY <1>1, <3>1
  <2>5. Writeless(r) /\ e.action \notin CaseWriters
    BY <1>4, <2>2, <2>4 DEF Writeless, CaseWriters
  <2>. QED
    BY <2>5 DEF r
<1>5. CASE e.action = "export_results"
  <2> DEFINE m == s.outputs.images
             N == Len(m)
  <2>1. PICK of : Along(r, m, N, of)
    BY <1>5, ExportRequests
  <2> HIDE DEF r, m, N
  <2>2. IsSequence(r) /\ \A k \in 1 .. Len(r) : r[k].op \in OpsOf(m[of[k]])
    BY <2>1 DEF Along
  <2>3. \A image : "write" \notin OpsOf(image)
    BY DEF OpsOf, PictureOps
  <2>4. Writeless(r) /\ e.action \notin CaseWriters
    BY <1>5, <2>2, <2>3 DEF Writeless, CaseWriters
  <2>. QED
    BY <2>4 DEF r
<1>6. CASE e.action = "get_solver_health"
  <2> DEFINE y == Request("state", None)
             z == Tried("report", None)
  <2>1. r = <<y, z>>
    BY <1>6 DEF Requests
  <2>2. y.op # "write" /\ z.op # "write"
    BY <1>1
  <2> HIDE DEF y, z, r
  <2>3. Writeless(r) /\ e.action \notin CaseWriters
    BY <1>6, <2>1, <2>2, WritelessTwo DEF CaseWriters
  <2>. QED
    BY <2>3 DEF r
<1>7. CASE e.action \notin CaseWriters \cup SolveActions \cup
                            {"collect_reports", "export_results", "get_solver_health"}
  <2> DEFINE y == Request(e.action, q)
  <2>1. e.action \in Readers \cup {"start_transcript", "set_state", "initialize_solution"}
    BY <1>7 DEF FormedCall, Solve, Writers, CaseWriters, SolveActions
  <2>2. r = <<y>>
    BY <2>1 DEF Requests, Readers
  <2>3. y.op # "write"
    BY <1>1, <2>1 DEF Readers
  <2> HIDE DEF y, r
  <2>4. Writeless(r)
    BY <2>2, <2>3, WritelessOne
  <2>. QED
    BY <1>7, <2>4 DEF r
<1>. QED
  BY <1>2, <1>3, <1>4, <1>5, <1>6, <1>7

(***************************************************************************)
(* The names of the files.                                                 *)
(***************************************************************************)
\* A name at the end of a path is at the end of the resolved path.
LEMMA LastName ==
  ASSUME NEW u, IsSequence(u), NEW x, x \notin {".", ".."}
  PROVE  Resolve(u \o <<x>>) = Append(Resolve(u), x)
<1> DEFINE w == u \o <<x>>
           M == Len(u)
           N == M + 1
<1>1. IsSequence(<<x>>) /\ Len(<<x>>) = 1 /\ <<x>>[1] = x
  BY SequenceOne
<1>2. /\ IsSequence(w) /\ Len(w) = N /\ M \in Nat
      /\ \A k \in 1 .. M : w[k] = u[k]
      /\ w[N] = x
  <2> DEFINE y == <<x>>
  <2>1. IsSequence(y) /\ Len(y) = 1 /\ y[1] = x
    BY <1>1
  <2> HIDE DEF y
  <2>2. /\ IsSequence(u \o y) /\ Len(u \o y) = Len(u) + 1
        /\ \A k \in 1 .. Len(u) + 1 :
             (u \o y)[k] = IF k <= Len(u) THEN u[k] ELSE y[k - Len(u)]
    BY ZenonT(60), <2>1, SequenceConcat
  <2>3. M \in Nat
    BY SequenceDomain
  <2> DEFINE z == u \o y
  <2>4. w = z
    BY DEF y
  <2>5. \A k \in 1 .. M + 1 : z[k] = IF k <= M THEN u[k] ELSE y[k - M]
    BY <2>2
  <2>6. IsSequence(z) /\ Len(z) = M + 1
    BY <2>2
  <2> HIDE DEF z, w, M
  <2>7. z[M + 1] = y[1]
    <3> DEFINE n == M + 1
    <3>1. n \in 1 .. M + 1 /\ ~(n <= M) /\ n - M = 1
      BY <2>3
    <3> HIDE DEF n
    <3>2. z[n] = y[n - M]
      BY <2>5, <3>1
    <3>. QED
      BY <3>1, <3>2 DEF n
  <2>8. \A k \in 1 .. M : z[k] = u[k]
    BY <2>3, <2>5
  <2>. QED
    BY <2>1, <2>3, <2>4, <2>6, <2>7, <2>8
<1>3. PICK f : /\ f[0] = <<>> /\ \A k \in 1 .. M : f[k] = Enter(f[k - 1], u[k])
               /\ Resolve(u) = f[M]
  BY EnterOneByOne
<1> HIDE DEF w
<1>4. PICK g : /\ g[0] = <<>> /\ \A k \in 1 .. N : g[k] = Enter(g[k - 1], w[k])
               /\ Resolve(w) = g[N]
  <2>1. IsSequence(w) /\ Len(w) = N
    BY <1>2
  <2> HIDE DEF N
  <2>. QED
    BY <2>1, EnterOneByOne
<1> DEFINE S == {n \in Nat : n <= M => g[n] = f[n]}
<1> HIDE DEF M
<1>5. 0 \in S
  BY <1>3, <1>4
<1>6. ASSUME NEW n \in Nat, n < M, n \in S PROVE n + 1 \in S
  <2> DEFINE m == n + 1
  <2>1. m \in 1 .. M /\ m \in 1 .. N /\ m - 1 = n /\ m \in Nat
    BY <1>2, <1>6
  <2>2. g[n] = f[n]
    BY <1>2, <1>6
  <2> HIDE DEF m
  <2>3. g[m] = f[m]
    BY <1>2, <1>3, <1>4, <2>1, <2>2
  <2>4. m \in S
    BY <2>1, <2>3
  <2>. QED
    BY <2>4 DEF m
<1>7. M \in S
  <2> HIDE DEF S
  <2>1. \A k \in 0 .. M : k \in S
    BY <1>2, <1>5, <1>6, CountingUp
  <2>. QED
    BY <1>2, <2>1
<1>8. g[M] = f[M]
  BY <1>2, <1>7
<1>9. g[N] = Enter(g[M], x)
  <2>1. N \in 1 .. N /\ N - 1 = M
    BY <1>2
  <2>. QED
    BY <1>2, <1>4, <2>1
<1>10. Enter(g[M], x) = Append(g[M], x)
  BY DEF Enter
<1>. QED
  BY <1>3, <1>4, <1>8, <1>9, <1>10 DEF w

\* A file without a name of the user's has the default's, in the directory of outputs.
LEMMA DefaultFile ==
  ASSUME NEW v, IsNull(v) \/ Blank(v), NEW default, default \notin {".", ".."}
  PROVE  OutputFile(v, default) = Absolute(Append(Resolve(OutputDir), default))
<1> DEFINE w == Word(default)
<1>1. OutputFile(v, default) = Absolute(NormalizePath(w, OutputDir))
  BY DEF OutputFile
<1>2. ~w.abs /\ w.parts = <<default>>
  BY DEF Word, Text
<1> HIDE DEF w
<1>3. NormalizePath(w, OutputDir) = Resolve(OutputDir \o <<default>>)
  BY <1>2 DEF NormalizePath
<1>. QED
  BY <1>1, <1>3, OutputAssumption, LastName

\* What the proofs need to know of a spec that load_spec has made: its numbers, and its
\* files.
Filed(s) ==
  /\ 1 .. s.total \subseteq Numbers
  /\ FileValue(s.outputs.transcript.file) /\ FileValue(s.outputs.final_case.file)
  /\ FileValue(s.outputs.final_case_data.file) /\ FileValue(s.outputs.checkpoints.file)

LEMMA OutputFiled ==
  ASSUME NEW v, FileOutputOk(v), TextFormed(v),
         v.t = "dict" => TextFormed(Get(v, "file_name")), NEW default
  PROVE  FileValue(FileOutput(v, default).file)
<1>1. On(Null).file = Null /\ Off.file = Null /\ IsNull(Null) /\ \A f : On(f).file = f
  BY DEF On, Off, IsNull, Null, None
<1>2. CASE IsNull(v)
  <2>1. FileOutput(v, default) \in {On(Null), Off}
    BY <1>2 DEF FileOutput, IsNull
  <2>. QED
    BY <1>1, <2>1 DEF FileValue
<1>3. CASE v.t = "bool"
  <2>1. FileOutput(v, default) \in {On(Null), Off}
    BY <1>3 DEF FileOutput, IsNull
  <2>. QED
    BY <1>1, <2>1 DEF FileValue
<1>4. CASE v.t = "str"
  BY <1>1, <1>4 DEF FileOutput, FileValue, IsNull, IsNumber
<1>5. CASE v.t = "dict"
  <2>1. FileOutput(v, default).file = Get(v, "file_name")
    BY <1>5 DEF FileOutput, IsNull, IsNumber
  <2>2. IsNull(Get(v, "file_name")) \/ Get(v, "file_name").t = "str"
    BY <1>5 DEF FileOutputOk, IsNull, IsNumber
  <2>. QED
    BY <1>5, <2>1, <2>2 DEF FileValue
<1>6. CASE IsNumber(v, 1)
  <2>1. FileOutput(v, default) = On(Null)
    BY <1>6 DEF FileOutput, IsNull, IsNumber
  <2>. QED
    BY <1>1, <2>1 DEF FileValue
<1>. QED
  BY <1>2, <1>3, <1>4, <1>5, <1>6 DEF FileOutputOk

LEMMA LoadFiled ==
  ASSUME NEW d \in Documents, SpecOk(d)
  PROVE  Filed(LoadSpec(d))
<1> DEFINE o == d.outputs
           v == o.checkpoints
           w == IF o.final_case_data = NoField THEN Truth(TRUE) ELSE o.final_case_data
           s == LoadSpec(d)
<1>1. /\ TextFormed(o.transcript) /\ TextFormed(o.final_case) /\ TextFormed(o.final_case_data)
      /\ o.transcript.t = "dict" => TextFormed(Get(o.transcript, "file_name"))
      /\ o.final_case.t = "dict" => TextFormed(Get(o.final_case, "file_name"))
      /\ o.final_case_data.t = "dict" => TextFormed(Get(o.final_case_data, "file_name"))
      /\ v.t = "dict" => TextFormed(Get(v, "file_name_template"))
      /\ v.t = "bool" => v \in {Truth(TRUE), Truth(FALSE)}
  BY DocumentsAssumption DEF DocumentFormed
<1>2. /\ FileOutputOk(o.transcript) /\ FileOutputOk(o.final_case)
      /\ FileOutputOk(o.final_case_data) /\ CheckpointsOk(v)
  BY DEF SpecOk, OutputsOk
<1>3. /\ s.outputs = Outputs(o) /\ s.total = d.solve.total.n
  BY DEF LoadSpec
<1>4. /\ s.outputs.transcript = FileOutput(o.transcript, TRUE)
      /\ s.outputs.final_case = FileOutput(o.final_case, FALSE)
      /\ s.outputs.final_case_data = FileOutput(w, FALSE)
      /\ s.outputs.checkpoints = Checkpoints(v)
  BY <1>3 DEF Outputs
<1>5. 1 .. s.total \subseteq Numbers
  BY <1>3 DEF Numbers, SpecOk, SolveOk
<1> HIDE DEF s, v, o
<1>6. /\ FileOutputOk(w) /\ TextFormed(w)
      /\ w.t = "dict" => TextFormed(Get(w, "file_name"))
  <2>1. Truth(TRUE).t = "bool"
    BY DEF Truth
  <2>2. /\ FileOutputOk(Truth(TRUE)) /\ TextFormed(Truth(TRUE)) /\ Truth(TRUE).t # "dict"
    BY <2>1 DEF FileOutputOk, TextFormed
  <2>. QED
    BY <1>1, <1>2, <2>2
<1> HIDE DEF w
<1>7. FileValue(Checkpoints(v).file)
  <2> DEFINE off == IsNull(v) \/ IsBool(v, FALSE) \/ IsNumber(v, 0)
  <2>1. CASE off \/ IsBool(v, TRUE)
    <3>1. Checkpoints(v).file = Null
      BY <2>1 DEF Checkpoints
    <3>. QED
      BY <3>1 DEF FileValue, IsNull, Null, None
  <2>2. CASE ~(off \/ IsBool(v, TRUE))
    <3>1. v.t = "dict"
      BY <1>1, <1>2, <2>2 DEF CheckpointsOk, IsBool
    <3>2. Checkpoints(v).file = Get(v, "file_name_template")
      BY <2>2 DEF Checkpoints
    <3>3. IsNull(Get(v, "file_name_template")) \/ Get(v, "file_name_template").t = "str"
      BY <1>2, <3>1 DEF CheckpointsOk, IsNull, IsNumber
    <3>. QED
      BY <1>1, <3>1, <3>2, <3>3 DEF FileValue
  <2>. QED
    BY <2>1, <2>2
<1>. QED
  BY <1>1, <1>2, <1>4, <1>5, <1>6, <1>7, OutputFiled DEF Filed, s

\* The numbers that get into the name of a checkpoint.
LEMMA ChunkNumbers ==
  ASSUME NEW s, SpecFormed(s), Filed(s), NEW k \in Chunks(Solve(s))
  PROVE  k \in Numbers /\ Completed(Solve(s), k) \in Numbers
<1>1. PICK op : op = Solve(s)
  OBVIOUS
<1>2. op.total = s.total /\ op.total \in Nat \ {0} /\ op.chunk \in Nat \ {0}
  BY <1>1, SolveFormed
<1>3. PICK N \in Nat \ {0} :
           /\ Chunks(op) = 1 .. N
           /\ \A i \in 0 .. N : Completed(op, i) \in Nat
           /\ \A i \in 1 .. N : Completed(op, i) - Completed(op, i - 1) \in 1 .. op.chunk
  BY <1>2, ChunksCount
<1>4. k \in 1 .. N /\ k - 1 \in 0 .. N /\ k \in 0 .. N
  BY SMTT(60), <1>1, <1>3
<1>5. k \in 1 .. op.total
  BY <1>1 DEF Chunks
<1>6. Completed(op, k) \in 1 .. op.total
  <2>1. PICK x : x = Completed(op, k)
    OBVIOUS
  <2>2. PICK y : y = Completed(op, k - 1)
    OBVIOUS
  <2>3. x \in Nat /\ y \in Nat /\ x - y \in 1 .. op.chunk
    BY <1>3, <1>4, <2>1, <2>2
  <2>4. x <= op.total
    <3> DEFINE z == k * op.chunk
    <3>1. x = IF z < op.total THEN z ELSE op.total
      BY <2>1 DEF Completed
    <3>2. z \in Int
      BY <1>2, <1>4
    <3> HIDE DEF z
    <3>. QED
      BY <1>2, <3>1, <3>2
  <2>5. x \in 1 .. op.total
    BY <1>2, <2>3, <2>4
  <2>. QED
    BY <2>1, <2>5
<1>. QED
  BY <1>1, <1>2, <1>5, <1>6 DEF Filed

\* The name of a checkpoint is a name.
LEMMA ChunkNameProper ==
  ASSUME NEW s, SpecFormed(s), Filed(s), NEW k \in Chunks(Solve(s)),
         NEW name, name \notin {".", ".."}
  PROVE  ChunkName(name, Solve(s), k) \notin {".", ".."}
<1>1. k \in Numbers /\ Completed(Solve(s), k) \in Numbers
  BY ChunkNumbers
<1>2. name \in Counting \cup Indexed => \A n \in Numbers : WithNumber(name, n) \notin {".", ".."}
  BY NumbersAssumption
<1>. QED
  BY <1>1, <1>2 DEF ChunkName

\* A checkpoint goes to the template's path with the numbers put in, or nowhere.
LEMMA CheckpointPlace ==
  ASSUME NEW s, SpecFormed(s), Filed(s), Solve(s).every > 0, NEW k \in Chunks(Solve(s))
  PROVE  LET t == Solve(s).checkpoint
             f == CheckpointFile(Solve(s), k)
         IN /\ t = OutputFile(s.outputs.checkpoints.file, "checkpoint-step")
            /\ t = Absolute(t.parts) /\ IsProperPath(t.parts)
            /\ f # Null =>
                 /\ f = Absolute(f.parts) /\ IsProperPath(f.parts)
                 /\ f.parts = [p \in DOMAIN t.parts |-> ChunkName(t.parts[p], Solve(s), k)]
<1> DEFINE v == s.outputs.checkpoints.file
<1>1. PICK op : op = Solve(s)
  OBVIOUS
<1>2. op.checkpoint = OutputFile(v, "checkpoint-step")
  BY <1>1 DEF Solve
<1>3. PICK t : t = op.checkpoint
  OBVIOUS
<1>4. t = Absolute(t.parts) /\ IsProperPath(t.parts)
  BY <1>2, <1>3, OutputSettles DEF Filed
<1>8. PICK r : r = t.parts /\ t = Absolute(r)
  BY <1>4
<1> DEFINE g == [p \in DOMAIN t.parts |-> ChunkName(t.parts[p], op, k)]
           f == CheckpointFile(op, k)
<1>5. f # Null => f = Absolute(g)
  <2>1. f # Null => f = [t EXCEPT !.parts = [p \in DOMAIN @ |-> ChunkName(@[p], op, k)]]
    BY <1>3 DEF CheckpointFile
  <2>2. [t EXCEPT !.parts = [p \in DOMAIN @ |-> ChunkName(@[p], op, k)]] = Absolute(g)
    <3> DEFINE h == [p \in DOMAIN r |-> ChunkName(r[p], op, k)]
    <3>1. g = h
      BY <1>8
    <3>2. ASSUME NEW z PROVE [Absolute(r) EXCEPT !.parts = z] = Absolute(z)
      <4> DEFINE A == Absolute(r)
                 D == {"t", "abs", "parts"}
      <4>1. DOMAIN A = D /\ A.t = "str" /\ A.abs = TRUE
        BY DEF Absolute
      <4>2. [A EXCEPT !.parts = z] = [n \in D |-> IF n = "parts" THEN z ELSE A[n]]
        <5> HIDE DEF A
        <5>. QED
          BY <4>1
      <4>3. Absolute(z) = [n \in D |-> IF n = "parts" THEN z ELSE A[n]]
        <5> DEFINE B == Absolute(z)
        <5>1. B = [n \in D |-> B[n]] /\ B.t = "str" /\ B.abs = TRUE /\ B.parts = z
          BY DEF Absolute
        <5> HIDE DEF A, B
        <5>2. \A n \in D : B[n] = IF n = "parts" THEN z ELSE A[n]
          BY <4>1, <5>1
        <5>3. B = [n \in D |-> IF n = "parts" THEN z ELSE A[n]]
          BY <5>1, <5>2
        <5>. QED
          BY <5>3 DEF B
      <4>. QED
        BY <4>2, <4>3
    <3>3. [Absolute(r) EXCEPT !.parts = [p \in DOMAIN @ |-> ChunkName(@[p], op, k)]]
            = [Absolute(r) EXCEPT !.parts = h]
      <4>1. Absolute(r).parts = r
        BY DEF Absolute
      <4>. QED
        BY <4>1
    <3> HIDE DEF g, h
    <3>. QED
      BY <1>8, <3>1, <3>2, <3>3
  <2>. QED
    BY <2>1, <2>2
<1>6. IsProperPath(g)
  <2>1. DOMAIN t.parts = 1 .. Len(t.parts) /\ Len(t.parts) \in Nat
        /\ \A p \in DOMAIN t.parts : t.parts[p] \notin {".", ".."}
    BY <1>4, SequenceDomain DEF IsProperPath
  <2>2. g = [p \in 1 .. Len(t.parts) |-> g[p]]
        /\ \A p \in DOMAIN g : g[p] \notin {".", ".."}
    <3>1. \A p \in DOMAIN t.parts : ChunkName(t.parts[p], op, k) \notin {".", ".."}
      BY <1>1, <2>1, ChunkNameProper
    <3>. QED
      BY <2>1, <3>1
  <2>3. PICK n \in Nat : n = Len(t.parts)
    BY <2>1
  <2> HIDE DEF g
  <2>4. IsSequence(g)
    BY <2>2, <2>3, SequenceOf
  <2>. QED
    BY <2>2, <2>4 DEF IsProperPath
<1>7. f # Null => f.parts = g /\ f = Absolute(f.parts)
  <2> HIDE DEF f, g
  <2>. QED
    BY <1>5 DEF Absolute
<1>. QED
  BY <1>1, <1>2, <1>3, <1>4, <1>6, <1>7

\* A checkpoint is called for where there is one due.
Due(e, s) == e.action = Checkpoint =>
  /\ Solve(s).every > 0
  /\ \E k \in Chunks(Solve(s)) : e.params.file_name = CheckpointFile(Solve(s), k)

LEMMA CallsDue ==
  ASSUME NEW s, SpecFormed(s)
  PROVE  \A i \in 1 .. Len(Calls(s)) : Due(Calls(s)[i], s)
<1>1. PICK c : c = Calls(s)
  OBVIOUS
<1>2. PICK sum : Sums(c, s, sum, 0, s.total)
  BY <1>1, CallsFormed DEF Tally
<1> SUFFICES ASSUME NEW i \in 1 .. Len(c), c[i].action = Checkpoint
             PROVE  /\ Solve(s).every > 0
                    /\ \E k \in Chunks(Solve(s)) :
                         c[i].params.file_name = CheckpointFile(Solve(s), k)
  BY <1>1 DEF Due
<1>3. Solve(s).every > 0
  <2>1. Some(c, {Checkpoint})
    BY DEF Some
  <2>. QED
    BY <1>1, <2>1, NothingSaved
<1>4. Saves(c[i], s, sum[i])
  BY <1>2 DEF Sums
<1>5. PICK k \in Chunks(Solve(s)) : c[i].params = [file_name |-> CheckpointFile(Solve(s), k)]
  BY <1>4 DEF Saves
<1>. QED
  BY <1>3, <1>5

\* The file a call of the run writes is the file the call names.
LEMMA WriterStays ==
  ASSUME NEW s, SpecFormed(s), Filed(s), NEW e, FormedCall(e, s), Due(e, s),
         e.action \in Writers, NEW x, NEW q,
         PrepareAction(e.action, e.params, x) = Accepted(q)
  PROVE  q.file_name = e.params.file_name /\ q.file_name # Null
<1> DEFINE a == e.action
           f == e.params.file_name
           v == FieldValues(a, e.params, x)
<1>1. /\ a \in FileActions /\ e.params = [file_name |-> f] /\ Destined(e, s)
  BY DEF FormedCall, Writers, FileActions, Solve
<1>2. /\ FieldsOk(a, e.params, x) /\ q = Rewritten(a, v, x)
  BY Accepting
<1>3. Parameters[a] = [file_name |-> Needed("path")]
        /\ Needed("path").kind = "path" /\ ~Needed("path").repeated
  BY <1>1, ParametersOf DEF Needed
<1>4. f.t = "str"
  <2>1. FieldOk(Needed("path"), f, x)
    BY <1>1, <1>2, <1>3 DEF FieldsOk
  <2>. QED
    BY <1>3, <2>1 DEF FieldOk, PathOk
<1>5. q.file_name = NormalizePathValue(f, x)
  <2>1. q = v
    BY <1>1, <1>2 DEF Rewritten, FileActions
  <2>2. v = [n \in {"file_name"} |-> FieldValue(Parameters[a][n], e.params[n], x)]
    BY <1>1 DEF FieldValues
  <2>3. v.file_name = FieldValue(Needed("path"), f, x)
    BY <1>1, <1>3, <2>2
  <2>. QED
    BY <1>3, <2>1, <2>3 DEF FieldValue
<1> HIDE DEF v
<1>8. f # Null
  BY <1>4 DEF Null, None
<1>6. CASE a = Checkpoint
  <2>1. PICK k \in Chunks(Solve(s)) : f = CheckpointFile(Solve(s), k)
    BY <1>6 DEF Due
  <2>3. Solve(s).every > 0
    BY <1>6 DEF Due
  <2> HIDE DEF f, a
  <2>6. f = Absolute(f.parts) /\ IsProperPath(f.parts)
    BY <1>8, <2>1, <2>3, CheckpointPlace
  <2>4. f.abs = TRUE /\ Resolve(f.parts) = f.parts
    BY <2>6, ProperStays DEF Absolute
  <2>5. NormalizePathValue(f, x) = Absolute(f.parts)
    BY <2>4 DEF NormalizePathValue, NormalizePath
  <2>. QED
    BY <1>5, <1>8, <2>5, <2>6 DEF f
<1>7. CASE a # Checkpoint
  <2>1. \/ f = OutputFile(s.outputs.transcript.file, "transcript")
        \/ f = OutputFile(s.outputs.final_case.file, "final")
        \/ f = OutputFile(s.outputs.final_case_data.file, "final-data")
    <3>1. a \in {"start_transcript", "write_case", "write_case_data"}
      BY <1>7 DEF Writers, Checkpoint
    <3>. QED
      BY <1>1, <3>1 DEF Destined
  <2>2. NormalizePathValue(f, x) = f
    <3> HIDE DEF f
    <3>. QED
      BY <2>1, OutputSettles DEF Filed
  <2>. QED
    BY <1>5, <1>8, <2>2
<1>. QED
  BY <1>6, <1>7

\* Between two checkpoints something is solved.
LEMMA PointsApart ==
  ASSUME NEW s, SpecFormed(s), Numbered(s), NEW c, c = Calls(s),
         NEW sum, Sums(c, s, sum, 0, s.total),
         NEW i \in 1 .. Len(c), c[i].action = Checkpoint,
         NEW j \in 1 .. Len(c), c[j].action = Checkpoint, i < j
  PROVE  sum[i] < sum[j]
<1>1. PICK e : e = Solve(s).every
  OBVIOUS
<1>2. e \in Nat \ {0}
  <2>1. e > 0
    BY <1>1, CallsDue DEF Due
  <2>2. e \in Nat
    BY <1>1 DEF Numbered, Solve
  <2>. QED
    BY <2>1, <2>2
<1>3. PICK pace : Paces(c, e, pace)
  BY <1>1, <1>2, CallsPace
<1>4. PICK N : N = Len(c)
  OBVIOUS
<1>5. /\ N \in Nat /\ i \in 1 .. N /\ j \in 1 .. N
      /\ \A n \in 0 .. N : sum[n] \in 0 .. s.total
      /\ \A n \in 1 .. N : /\ c[n].action \in SolveActions => Solves(c[n], s)
                           /\ sum[n] = sum[n - 1] + Size(c[n])
  BY <1>4, SequenceDomain DEF Sums
<1>6. /\ \A n \in 0 .. N : pace[n] \in 0 .. e
      /\ \A n \in 1 .. N : Beat(c[n], e, pace[n - 1], pace[n])
  BY <1>3, <1>4 DEF Paces
<1>7. \A n \in 0 .. N : sum[n] \in Nat /\ pace[n] \in Nat
  <2>1. s.total \in Nat
    BY DEF SpecFormed
  <2>. QED
    BY <1>2, <1>5, <1>6, <2>1
<1>8. Checkpoint \notin SolveActions
  BY DEF Checkpoint, SolveActions
<1> DEFINE More(n) == sum[i] <= sum[n] /\ (pace[n] > 0 => sum[i] < sum[n])
           S == {d \in Nat : i + d <= N => More(i + d)}
<1>9. 0 \in S
  <2>1. pace[i] = 0
    BY <1>5, <1>6, <1>8 DEF Beat
  <2>2. i \in 0 .. N /\ i + 0 = i
    BY <1>5
  <2>3. sum[i] <= sum[i]
    BY <1>7, <2>2
  <2>. QED
    BY <2>1, <2>2, <2>3
<1>10. ASSUME NEW m \in 0 .. N, m + 1 \in 1 .. N, i \in 0 .. N, More(m) PROVE More(m + 1)
  <2> DEFINE n == m + 1
  <2>1. n \in 1 .. N /\ n - 1 = m
    BY <1>5, <1>10
  <2> HIDE DEF n
  <2>2. sum[n] = sum[m] + Size(c[n]) /\ Beat(c[n], e, pace[m], pace[n])
    BY <1>5, <1>6, <2>1
  <2>3. /\ sum[n] \in Nat /\ sum[m] \in Nat /\ sum[i] \in Nat
        /\ pace[n] \in Nat /\ pace[m] \in Nat
    BY <1>5, <1>7, <1>10, <2>1
  <2>4. CASE c[n].action \in SolveActions
    <3>1. Size(c[n]) \in 1 .. s.chunk
      BY <1>5, <2>1, <2>4 DEF Size, Solves
    <3>2. s.chunk \in Nat
      BY DEF SpecFormed
    <3>3. sum[m] < sum[n]
      <4>1. PICK z : z = Size(c[n])
        OBVIOUS
      <4>. QED
        BY <2>2, <2>3, <3>1, <3>2, <4>1
    <3>. QED
      BY <1>10, <2>3, <3>3 DEF n
  <2>5. CASE c[n].action \notin SolveActions
    <3>1. sum[n] = sum[m]
      BY <2>2, <2>3, <2>5 DEF Size
    <3>2. pace[n] = 0 \/ pace[n] = pace[m]
      BY <2>2, <2>5 DEF Beat
    <3>. QED
      BY <1>10, <2>3, <3>1, <3>2 DEF n
  <2>. QED
    BY <2>4, <2>5
<1>11. ASSUME NEW d \in Nat, d < N, d \in S PROVE d + 1 \in S
  <2> SUFFICES ASSUME i + (d + 1) <= N PROVE More(i + (d + 1))
    OBVIOUS
  <2> HIDE DEF More
  <2> DEFINE m == i + d
  <2>1. m \in 0 .. N /\ m + 1 \in 1 .. N /\ i \in 0 .. N /\ m + 1 = i + (d + 1)
    BY <1>5
  <2>2. More(m)
    BY <1>5, <1>11
  <2> HIDE DEF m, S
  <2>3. More(m + 1)
    BY <1>10, <2>1, <2>2
  <2>. QED
    BY <2>1, <2>3
<1>12. \A d \in 0 .. N : d \in S
  <2> HIDE DEF S
  <2>. QED
    BY <1>5, <1>9, <1>11, CountingUp
<1> DEFINE d == (j - 1) - i
           m == j - 1
<1>13. d \in 0 .. N /\ i + d = m /\ m <= N /\ m \in 0 .. N
  BY <1>5
<1>14. More(m)
  <2> HIDE DEF More, d, m
  <2>. QED
    BY <1>12, <1>13
<1>15. sum[j] = sum[m] + Size(c[j]) /\ pace[m] = e
  BY <1>5, <1>6, <1>8 DEF Beat
<1>16. Size(c[j]) = 0 /\ sum[m] \in Nat
  BY <1>7, <1>8, <1>13 DEF Size
<1> HIDE DEF d, m
<1>. QED
  BY <1>2, <1>14, <1>15, <1>16

\* Two checkpoints with one file have no number in its name, and the file a name of
\* the user's.
LEMMA PointFiles ==
  ASSUME NEW s, SpecFormed(s), Numbered(s), Filed(s), NEW c, c = Calls(s),
         NEW i \in 1 .. Len(c), c[i].action = Checkpoint,
         NEW j \in 1 .. Len(c), c[j].action = Checkpoint, i < j,
         c[i].params.file_name = c[j].params.file_name, c[i].params.file_name # Null
  PROVE  LET parts == Solve(s).checkpoint.parts
             v == s.outputs.checkpoints.file
         IN /\ \A p \in DOMAIN parts : parts[p] \notin Counting \cup Indexed
            /\ ~(IsNull(v) \/ Blank(v))
<1>1. PICK op : op = Solve(s)
  OBVIOUS
<1>2. PICK sum : Sums(c, s, sum, 0, s.total)
  BY CallsFormed DEF Tally
<1>3. sum[i] < sum[j]
  BY <1>2, PointsApart
<1>4. Saves(c[i], s, sum[i]) /\ Saves(c[j], s, sum[j])
  BY <1>2 DEF Sums
<1>5. PICK k \in Chunks(op) : sum[i] = Completed(op, k)
                              /\ c[i].params = [file_name |-> CheckpointFile(op, k)]
  BY <1>1, <1>4 DEF Saves
<1>6. PICK l \in Chunks(op) : sum[j] = Completed(op, l)
                              /\ c[j].params = [file_name |-> CheckpointFile(op, l)]
  BY <1>1, <1>4 DEF Saves
<1>7. CheckpointFile(op, k) = CheckpointFile(op, l) /\ CheckpointFile(op, k) # Null
  BY <1>5, <1>6
<1>8. /\ k \in Numbers /\ Completed(op, k) \in Numbers
      /\ l \in Numbers /\ Completed(op, l) \in Numbers
  BY <1>1, <1>5, <1>6, ChunkNumbers
<1>9. op.every > 0
  BY <1>1, CallsDue DEF Due
<1>10. PICK t : t = op.checkpoint
  OBVIOUS
<1>11. t = OutputFile(s.outputs.checkpoints.file, "checkpoint-step")
  BY <1>1, <1>5, <1>9, <1>10, CheckpointPlace
<1>12. [p \in DOMAIN t.parts |-> ChunkName(t.parts[p], op, k)]
         = [p \in DOMAIN t.parts |-> ChunkName(t.parts[p], op, l)]
  <2>1. CheckpointFile(op, k).parts = [p \in DOMAIN t.parts |-> ChunkName(t.parts[p], op, k)]
    BY <1>1, <1>5, <1>7, <1>9, <1>10, CheckpointPlace
  <2>2. CheckpointFile(op, l).parts = [p \in DOMAIN t.parts |-> ChunkName(t.parts[p], op, l)]
    BY <1>1, <1>6, <1>7, <1>9, <1>10, CheckpointPlace
  <2>. QED
    BY <1>7, <2>1, <2>2
<1>13. \A p \in DOMAIN t.parts : ChunkName(t.parts[p], op, k) = ChunkName(t.parts[p], op, l)
  <2> DEFINE f == [p \in DOMAIN t.parts |-> ChunkName(t.parts[p], op, k)]
             g == [p \in DOMAIN t.parts |-> ChunkName(t.parts[p], op, l)]
  <2>1. \A p \in DOMAIN t.parts : f[p] = ChunkName(t.parts[p], op, k)
                                  /\ g[p] = ChunkName(t.parts[p], op, l)
    OBVIOUS
  <2>2. f = g
    BY <1>12
  <2> HIDE DEF f, g
  <2>. QED
    BY <2>1, <2>2
<1>14. Completed(op, k) # Completed(op, l) /\ k # l
  <2>1. Completed(op, k) < Completed(op, l)
    BY <1>3, <1>5, <1>6
  <2>2. Numbers \subseteq Int
    BY DEF Numbers
  <2>3. Completed(op, k) # Completed(op, l)
    <3>1. PICK x \in Int : x = Completed(op, k)
      BY <1>8, <2>2
    <3>2. PICK y \in Int : y = Completed(op, l)
      BY <1>8, <2>2
    <3>3. x < y
      BY <2>1, <3>1, <3>2
    <3>. QED
      BY <3>1, <3>2, <3>3
  <2>. QED
    BY <2>3
<1>15. ASSUME NEW p \in DOMAIN t.parts PROVE t.parts[p] \notin Counting \cup Indexed
  <2>1. \A name \in Counting \cup Indexed, m, n \in Numbers :
          WithNumber(name, m) = WithNumber(name, n) => m = n
    BY NumbersAssumption
  <2>2. ChunkName(t.parts[p], op, k) = ChunkName(t.parts[p], op, l)
    BY <1>13
  <2>. QED
    BY <1>8, <1>14, <2>1, <2>2 DEF ChunkName
<1> DEFINE v == s.outputs.checkpoints.file
<1>16. ASSUME IsNull(v) \/ Blank(v) PROVE FALSE
  <2> DEFINE R == Resolve(OutputDir)
             b == Append(R, "checkpoint-step")
  <2>1. t = Absolute(b)
    BY <1>11, <1>16, DefaultFile
  <2>2. IsSequence(R)
    BY OutputAssumption, ResolvedIsProper DEF IsProperPath
  <2> HIDE DEF R
  <2>3. IsSequence(b) /\ Len(b) = Len(R) + 1 /\ b[Len(R) + 1] = "checkpoint-step"
          /\ Len(R) \in Nat
    BY <2>2, SequenceAppend, SequenceDomain
  <2> HIDE DEF b
  <2>4. t.parts = b
    BY <2>1 DEF Absolute
  <2>5. Len(R) + 1 \in DOMAIN b
    BY <2>3, SequenceDomain
  <2>. QED
    BY <1>15, <2>3, <2>4, <2>5, NumbersAssumption
<1>. QED
  BY <1>1, <1>10, <1>15, <1>16

\* Sequences are equal name for name, the last with the last.
LEMMA LastOf ==
  ASSUME NEW u, IsSequence(u), NEW x
  PROVE  /\ Len(u) + 1 \in DOMAIN Append(u, x)
         /\ Append(u, x)[Len(u) + 1] = x
<1> DEFINE w == Append(u, x)
<1>1. IsSequence(w) /\ Len(w) = Len(u) + 1 /\ w[Len(u) + 1] = x /\ Len(u) \in Nat
  BY SequenceAppend, SequenceDomain
<1> HIDE DEF w
<1>2. Len(u) + 1 \in DOMAIN w
  BY <1>1, SequenceDomain
<1>. QED
  BY <1>1, <1>2 DEF w

\* The user gave the file of an action no name.
Unnamed(a, s) == LET v == s.outputs[OutputOf[a]].file IN IsNull(v) \/ Blank(v)

\* The name its file then has.
DefaultName(a, name) ==
  \/ a = "start_transcript" /\ name = "transcript"
  \/ a = "write_case" /\ name = "final"
  \/ a = "write_case_data" /\ name = "final-data"
  \/ a = Checkpoint /\ \E n \in Numbers : name = WithNumber("checkpoint-step", n)

\* No two actions have it.
LEMMA DefaultsApart ==
  ASSUME NEW a, NEW b, NEW name, DefaultName(a, name), DefaultName(b, name)
  PROVE  a = b
<1>1. \A n \in Numbers :
        WithNumber("checkpoint-step", n) \notin {"transcript", "final", "final-data"}
  BY NumbersAssumption
<1>2. "transcript" # "final" /\ "transcript" # "final-data" /\ "final" # "final-data"
  OBVIOUS
<1>. QED
  BY <1>1, <1>2 DEF DefaultName

\* A file without a name of the user's has its default name, right in the directory of
\* outputs.
LEMMA DefaultPlace ==
  ASSUME NEW s, SpecFormed(s), Filed(s), NEW e, FormedCall(e, s), Due(e, s),
         e.action \in Writers, Unnamed(e.action, s), e.params.file_name # Null
  PROVE  \E name : /\ DefaultName(e.action, name)
                   /\ e.params.file_name.parts[Len(Resolve(OutputDir)) + 1] = name
<1> DEFINE a == e.action
           f == e.params.file_name
<1>1. PICK R : R = Resolve(OutputDir)
  OBVIOUS
<1>2. IsSequence(R)
  BY <1>1, OutputAssumption, ResolvedIsProper DEF IsProperPath
<1>3. ASSUME NEW v, IsNull(v) \/ Blank(v), NEW default, default \notin {".", ".."}
      PROVE  /\ Len(R) + 1 \in DOMAIN OutputFile(v, default).parts
             /\ OutputFile(v, default).parts[Len(R) + 1] = default
  <2>1. OutputFile(v, default) = Absolute(Append(R, default))
    BY <1>1, <1>3, DefaultFile
  <2>2. OutputFile(v, default).parts = Append(R, default)
    BY <2>1 DEF Absolute
  <2>. QED
    BY <1>2, <2>2, LastOf
<1>4. CASE a = Checkpoint
  <2> DEFINE v == s.outputs.checkpoints.file
  <2>1. PICK op : op = Solve(s)
    OBVIOUS
  <2>2. op.every > 0
    BY <1>4, <2>1 DEF Due
  <2>3. PICK k \in Chunks(op) : f = CheckpointFile(op, k)
    BY <1>4, <2>1 DEF Due
  <2>4. PICK t : t = op.checkpoint
    OBVIOUS
  <2>5. /\ t = OutputFile(v, "checkpoint-step")
        /\ f.parts = [p \in DOMAIN t.parts |-> ChunkName(t.parts[p], op, k)]
    BY <2>1, <2>2, <2>3, <2>4, CheckpointPlace
  <2>6. IsNull(v) \/ Blank(v)
    BY <1>4 DEF Unnamed, OutputOf, Checkpoint
  <2>7. Len(R) + 1 \in DOMAIN t.parts /\ t.parts[Len(R) + 1] = "checkpoint-step"
    BY <1>3, <2>5, <2>6
  <2>8. f.parts[Len(R) + 1] = ChunkName("checkpoint-step", op, k)
    <3> DEFINE n == Len(R) + 1
    <3> HIDE DEF n, f
    <3>. QED
      BY <2>5, <2>7 DEF n
  <2>9. ChunkName("checkpoint-step", op, k) = WithNumber("checkpoint-step", Completed(op, k))
    BY NumbersAssumption DEF ChunkName
  <2>10. Completed(op, k) \in Numbers
    BY <2>1, <2>3, ChunkNumbers
  <2>11. DefaultName(a, f.parts[Len(R) + 1])
    <3> HIDE DEF a, f
    <3>. QED
      BY <1>4, <2>8, <2>9, <2>10 DEF DefaultName
  <2>. QED
    BY <1>1, <2>11
<1>5. CASE a # Checkpoint
  <2>1. Destined(e, s)
    BY DEF FormedCall, Writers, Solve
  <2>2. a \in {"start_transcript", "write_case", "write_case_data"}
    BY <1>5 DEF Writers, Checkpoint
  <2> DEFINE n == Len(R) + 1
  <2>3. CASE a = "start_transcript"
    <3>1. f = OutputFile(s.outputs.transcript.file, "transcript")
      BY <2>1, <2>3 DEF Destined
    <3>2. IsNull(s.outputs.transcript.file) \/ Blank(s.outputs.transcript.file)
      BY <2>3 DEF Unnamed, OutputOf
    <3>3. f.parts[n] = "transcript"
      BY <1>3, <3>1, <3>2
    <3>. QED
      BY <1>1, <2>3, <3>3 DEF DefaultName
  <2>4. CASE a = "write_case"
    <3>1. f = OutputFile(s.outputs.final_case.file, "final")
      BY <2>1, <2>4 DEF Destined
    <3>2. IsNull(s.outputs.final_case.file) \/ Blank(s.outputs.final_case.file)
      BY <2>4 DEF Unnamed, OutputOf
    <3>3. f.parts[n] = "final"
      BY <1>3, <3>1, <3>2
    <3>. QED
      BY <1>1, <2>4, <3>3 DEF DefaultName
  <2>5. CASE a = "write_case_data"
    <3>1. f = OutputFile(s.outputs.final_case_data.file, "final-data")
      BY <2>1, <2>5 DEF Destined
    <3>2. IsNull(s.outputs.final_case_data.file) \/ Blank(s.outputs.final_case_data.file)
      BY <2>5 DEF Unnamed, OutputOf
    <3>3. f.parts[n] = "final-data"
      BY <1>3, <3>1, <3>2
    <3>. QED
      BY <1>1, <2>5, <3>3 DEF DefaultName
  <2>. QED
    BY <2>2, <2>3, <2>4, <2>5
<1>. QED
  BY <1>4, <1>5

-----------------------------------------------------------------------------
(***************************************************************************)
(* What is in the files.                                                   *)
(***************************************************************************)
\* A call that leaves a case behind still asks for its write, the others ask for none.
WriteInHand ==
  requests # <<>> =>
    LET call == Head(ahead)
    IN IF call.action \in CaseWriters
       THEN requests = <<Request("write", call.params.file_name)>>
       ELSE Writeless(requests)

\* A file holds what was done after the chunk its name tells of, or a case's call has
\* written it.
Honest(f) == \E k \in Chunks(Solve(spec)) : /\ CheckpointFile(Solve(spec), k) = f
                                            /\ solver.data[f] = Completed(Solve(spec), k)
ByCase(f) == \E k \in 1 .. Len(made) : /\ made[k].action \in {"write_case", "write_case_data"}
                                       /\ made[k].params.file_name = f

\* A call that was made wrote the file that was planned.
MadeAsPlanned ==
  \A k \in 1 .. Len(made) : made[k].action \in Writers =>
    /\ made[k].params.file_name = Calls(spec)[k].params.file_name
    /\ made[k].params.file_name # Null

\* What the checkpoints have written is there.
PointsThere ==
  \A k \in 1 .. Len(made) :
    made[k].action = Checkpoint => made[k].params.file_name \in DOMAIN solver.data

\* The inductive invariant of the files.
FilesInv == /\ "data" \in DOMAIN solver
            /\ WriteInHand /\ MadeAsPlanned /\ PointsThere
            /\ spec = NoSpec => DOMAIN solver.data = {}
            /\ \A f \in DOMAIN solver.data : ByCase(f) \/ Honest(f)

\* A spec there is was made by load_spec.
SpecFiled == spec # NoSpec => Numbered(spec) /\ Filed(spec)

LEMMA SpecFiledNext == Phase /\ SpecFiled /\ [Next]_vars => SpecFiled'
<1> SUFFICES ASSUME Phase, SpecFiled, [Next]_vars PROVE SpecFiled'
  OBVIOUS
<1>1. CASE Accept
  <2>1. spec' = LoadSpec(document) /\ document \in Documents /\ SpecOk(document)
    BY <1>1 DEF Accept, Phase
  <2>2. Numbered(LoadSpec(document)) /\ Filed(LoadSpec(document))
    BY <2>1, LoadNumbered, LoadFiled
  <2>3. Numbered(spec') /\ Filed(spec')
    BY <2>1, <2>2
  <2>. QED
    BY <2>3 DEF SpecFiled, Numbered, Filed
<1>2. CASE ~Accept
  <2>1. spec' = spec
    BY <1>2 DEF Next, Refuse, Proceed, Progress, Fail, Succeed, workVars, vars
  <2>. QED
    BY <2>1 DEF SpecFiled, Numbered, Filed
<1>. QED
  BY <1>1, <1>2

LEMMA FilesInit == Init => FilesInv
<1> SUFFICES ASSUME Init PROVE FilesInv
  OBVIOUS
<1>1. requests = <<>> /\ made = <<>> /\ solver.data = <<>> /\ "data" \in DOMAIN solver
  BY DEF Init, SessionInit
<1>2. DOMAIN solver.data = {}
  BY <1>1
<1>3. \A k \in 1 .. Len(made) : FALSE
  BY <1>1, SequenceEmpty
<1>4. WriteInHand
  BY <1>1 DEF WriteInHand
<1>5. MadeAsPlanned
  BY <1>3 DEF MadeAsPlanned
<1>6. PointsThere
  BY <1>3 DEF PointsThere
<1>. QED
  BY <1>1, <1>2, <1>4, <1>5, <1>6 DEF FilesInv

\* The requests of a call that has just been let through, and the file it gets.
LEMMA FreshFiles ==
  ASSUME Phase, SpecFiled, ahead # <<>>, Verdict.ok
  PROVE  LET call == Head(ahead)
             q == Verdict.params
             r == Requests(call.action, q)
         IN /\ IF call.action \in CaseWriters
               THEN r = <<Request("write", call.params.file_name)>>
               ELSE Writeless(r)
            /\ call.action \in Writers =>
                 q.file_name = call.params.file_name /\ q.file_name # Null
<1>1. PICK call : call = Head(ahead)
  OBVIOUS
<1>2. PICK x : x = Context
  OBVIOUS
<1>3. PICK q : q = Verdict.params
  OBVIOUS
<1>4. /\ SpecFormed(spec) /\ FormedCall(call, spec)
      /\ call.action \in SolveActions => Solves(call, spec)
      /\ Numbered(spec) /\ Filed(spec)
  BY <1>1, NextCall DEF SpecFiled
<1>5. PrepareAction(call.action, call.params, x) = Accepted(q)
  <2>1. Verdict = PrepareAction(call.action, call.params, x)
    BY <1>1, <1>2 DEF Verdict
  <2>. QED
    BY <1>3, <2>1, LetThroughWith
<1>6. Due(call, spec)
  <2>1. PICK n : n = Len(made) + 1 /\ n \in 1 .. Len(Calls(spec)) /\ call = Calls(spec)[n]
    BY <1>1, NextCall
  <2>. QED
    BY <1>4, <2>1, CallsDue
<1>7. call.action \in Writers => q.file_name = call.params.file_name /\ q.file_name # Null
  BY <1>4, <1>5, <1>6, WriterStays
<1>8. IF call.action \in CaseWriters
      THEN Requests(call.action, q) = <<Request("write", q.file_name)>>
      ELSE Writeless(Requests(call.action, q))
  BY <1>4, <1>5, WriteRequests
<1>9. CaseWriters \subseteq Writers
  BY DEF CaseWriters, Writers
<1>10. call.action \in CaseWriters => q.file_name = call.params.file_name
  BY <1>7, <1>9
<1>. QED
  BY <1>1, <1>3, <1>7, <1>8, <1>10

\* A request that writes nothing leaves the files alone.
LEMMA CarriedWriteless ==
  ASSUME "data" \in DOMAIN solver, NEW r, r.op # "write"
  PROVE  Carried(r).data = solver.data /\ "data" \in DOMAIN Carried(r)
<1> DEFINE t == Carried(r)
           Same(x) == x.data = solver.data /\ "data" \in DOMAIN x
<1>1. \A v : Same([solver EXCEPT !.contours = v])
  OBVIOUS
<1>2. \A v : Same([solver EXCEPT !.shown = v])
  OBVIOUS
<1>3. \A v : Same([solver EXCEPT !.look = v])
  OBVIOUS
<1>4. \A v : Same([solver EXCEPT !.pictures = v])
  OBVIOUS
<1>5. \A v : Same([solver EXCEPT !.steps = v])
  OBVIOUS
<1>6. \A v : Same([solver EXCEPT !.size = v])
  OBVIOUS
<1>7. Same(solver)
  OBVIOUS
<1> SUFFICES Same(t)
  OBVIOUS
<1> HIDE DEF Same
<1>8. CASE r.op = "create"
  BY <1>1, <1>8 DEF Carried
<1>9. CASE r.op = "set_contour"
  BY <1>1, <1>9 DEF Carried
<1>10. CASE r.op = "display"
  BY <1>2, <1>10 DEF Carried
<1>11. CASE r.op = "set_picture"
  BY <1>3, <1>11 DEF Carried
<1>12. CASE r.op = "save"
  BY <1>4, <1>12 DEF Carried
<1>13. CASE r.op = "solve"
  BY <1>5, <1>13 DEF Carried
<1>14. CASE r.op = "set_size"
  BY <1>6, <1>14 DEF Carried
<1>15. CASE r.op \notin {"create", "set_contour", "display", "set_picture", "save", "solve",
                         "set_size"}
  BY <1>7, <1>15 DEF Carried
<1>. QED
  BY <1>8, <1>9, <1>10, <1>11, <1>12, <1>13, <1>14, <1>15

\* A checkpoint saves what is done after the chunk its name tells of.
LEMMA PointHonest ==
  ASSUME Phase, SolvedInv, ahead # <<>>, Head(ahead).action = Checkpoint
  PROVE  \E k \in Chunks(Solve(spec)) :
           /\ CheckpointFile(Solve(spec), k) = Head(ahead).params.file_name
           /\ solver.steps = Completed(Solve(spec), k)
<1>1. PICK c : c = Calls(spec)
  OBVIOUS
<1>2. PICK call : call = Head(ahead)
  OBVIOUS
<1>3. PICK M : M = Len(made)
  OBVIOUS
<1>4. PICK n : n = M + 1
  OBVIOUS
<1>5. spec # NoSpec /\ M \in Nat /\ M + 1 \in 1 .. Len(c) /\ call = c[M + 1]
  BY <1>1, <1>2, <1>3, NextCall
<1>6. PICK sum : Sums(c, spec, sum, 0, spec.total) /\ solver.steps = sum[M]
  BY <1>1, <1>3, <1>5 DEF SolvedInv, SolvedSoFar
<1>7. sum[M + 1] = sum[M] + Size(c[M + 1])
  BY <1>5, <1>6, PartSolved
<1>8. n \in 1 .. Len(c) /\ call = c[n] /\ sum[n] = sum[M] + Size(call) /\ n - 1 = M
  BY <1>4, <1>5, <1>7
<1>9. Size(call) = 0
  BY <1>2 DEF Size, Checkpoint, SolveActions
<1>10. M \in 0 .. Len(c)
  <2>1. Len(c) \in Nat
    BY <1>6, SequenceDomain DEF Sums
  <2>. QED
    BY <1>4, <1>5, <1>8, <2>1
<1>11. sum[M] \in Nat
  <2>1. sum[M] \in 0 .. spec.total
    BY <1>6, <1>10 DEF Sums
  <2>. QED
    BY <2>1
<1>12. sum[n] = sum[M]
  BY <1>8, <1>9, <1>11
<1>13. Saves(call, spec, sum[n])
  BY <1>2, <1>6, <1>8 DEF Sums
<1>14. PICK k \in Chunks(Solve(spec)) :
          /\ sum[n] = Completed(Solve(spec), k)
          /\ call.params = [file_name |-> CheckpointFile(Solve(spec), k)]
  BY <1>13 DEF Saves
<1>. QED
  BY <1>2, <1>6, <1>12, <1>14

\* The calls made, with one more.
LEMMA CallMade ==
  ASSUME Phase, SpecFiled, MadeAsPlanned, ahead # <<>>, Verdict.ok, spec' = spec,
         made' = Append(made, Call(Head(ahead).action, Verdict.params))
  PROVE  /\ Len(made) \in Nat /\ Len(made') = Len(made) + 1
         /\ \A k \in 1 .. Len(made) : made'[k] = made[k]
         /\ made'[Len(made) + 1].action = Head(ahead).action
         /\ Head(ahead).action \in Writers =>
              made'[Len(made) + 1].params.file_name = Head(ahead).params.file_name
         /\ MadeAsPlanned'
<1>1. PICK call : call = Head(ahead)
  OBVIOUS
<1>2. PICK q : q = Verdict.params
  OBVIOUS
<1>3. PICK M : M = Len(made)
  OBVIOUS
<1>4. PICK c : c = Calls(spec)
  OBVIOUS
<1>5. M \in Nat /\ call = c[M + 1] /\ spec # NoSpec
  BY <1>1, <1>3, <1>4, NextCall
<1>6. IsSequence(made)
  BY <1>5 DEF Phase, Follows
<1>7. PICK e : e = Call(call.action, q)
  OBVIOUS
<1>8. e.action = call.action /\ e.params = q
  BY <1>7 DEF Call
<1>9. Len(made') = M + 1 /\ made'[M + 1] = e /\ \A k \in 1 .. M : made'[k] = made[k]
  BY <1>1, <1>2, <1>3, <1>6, <1>7, SequenceAppend
<1>10. call.action \in Writers => q.file_name = call.params.file_name /\ q.file_name # Null
  BY <1>1, <1>2, FreshFiles
<1>11. Calls(spec') = c
  BY <1>4
<1>12. ASSUME NEW k \in 1 .. Len(made'), made'[k].action \in Writers
       PROVE  made'[k].params.file_name = c[k].params.file_name
              /\ made'[k].params.file_name # Null
  <2>1. CASE k \in 1 .. M
    BY <1>3, <1>4, <1>9, <1>12, <2>1 DEF MadeAsPlanned
  <2>2. CASE k = M + 1
    BY <1>5, <1>8, <1>9, <1>10, <1>12, <2>2
  <2>3. k \in 1 .. M \/ k = M + 1
    BY <1>5, <1>9
  <2>. QED
    BY <2>1, <2>2, <2>3
<1>13. MadeAsPlanned'
  BY <1>11, <1>12 DEF MadeAsPlanned
<1>. QED
  BY <1>1, <1>3, <1>5, <1>8, <1>9, <1>10, <1>13

\* The write of a case is done, and the call with it.
LEMMA FileWritten ==
  ASSUME Phase, SolvedInv, SpecFiled, FilesInv, Progress, Head(ahead).action \in CaseWriters
  PROVE  FilesInv'
<1>1. PICK call : call = Head(ahead)
  OBVIOUS
<1>2. PICK f : f = call.params.file_name
  OBVIOUS
<1>3. PICK M : M = Len(made)
  OBVIOUS
<1>4. PICK r : r = Request("write", f)
  OBVIOUS
<1>5. r.op = "write" /\ r.with = f /\ ~r.tried
  BY <1>4 DEF Request
<1>6. requests # <<>> /\ requests' = Tail(requests) /\ spec' = spec
      /\ (solver' = Carried(Head(requests)) \/ Head(requests).tried)
  BY DEF Progress, Carry, Swallow
<1>7. ahead # <<>> /\ Verdict.ok /\ spec # NoSpec
  BY <1>6 DEF Phase
<1>8. requests = <<r>>
  BY <1>1, <1>2, <1>4, <1>6 DEF FilesInv, WriteInHand
<1>9. Head(requests) = r /\ requests' = <<>>
  BY <1>6, <1>8, FirstOfThem
<1>10. made' = Append(made, Call(Head(ahead).action, Verdict.params))
  BY <1>9 DEF Progress
<1>11. call.action \in CaseWriters /\ CaseWriters \subseteq Writers
  BY <1>1 DEF CaseWriters, Writers
<1>12. /\ M \in Nat /\ Len(made') = M + 1
       /\ \A k \in 1 .. M : made'[k] = made[k]
       /\ made'[M + 1].action = call.action
       /\ made'[M + 1].params.file_name = f
       /\ MadeAsPlanned'
  BY <1>1, <1>2, <1>3, <1>6, <1>7, <1>10, <1>11, CallMade DEF FilesInv
<1>13. /\ M + 1 \in 1 .. Len(made')
       /\ \A k \in 1 .. M : k \in 1 .. Len(made')
       /\ \A k \in 1 .. Len(made') : k \in 1 .. M \/ k = M + 1
  BY <1>12
<1>14. PICK d : d = solver.data
  OBVIOUS
<1>15. PICK n : n = solver.steps
  OBVIOUS
<1> DEFINE w == Over([g \in {f} |-> n], d)
<1>16. "data" \in DOMAIN solver' /\ solver'.data = w
  <2>1. solver' = [solver EXCEPT !.data = Over([g \in {r.with} |-> solver.steps], @)]
    BY <1>5, <1>6, <1>9 DEF Carried
  <2>2. "data" \in DOMAIN solver
    BY DEF FilesInv
  <2>3. solver'.data = Over([g \in {r.with} |-> solver.steps], solver.data)
        /\ "data" \in DOMAIN solver'
    BY <2>1, <2>2
  <2>. QED
    BY <1>5, <1>14, <1>15, <2>3
<1>17. /\ DOMAIN w = {f} \cup DOMAIN d
       /\ w[f] = n
       /\ \A g \in DOMAIN d : g # f => w[g] = d[g]
  BY DEF Over
<1> HIDE DEF w
<1>18. WriteInHand'
  BY <1>9 DEF WriteInHand
<1>19. PointsThere'
  <2>1. ASSUME NEW k \in 1 .. Len(made'), made'[k].action = Checkpoint
        PROVE  made'[k].params.file_name \in DOMAIN w
    <3>1. CASE k \in 1 .. M
      BY <1>3, <1>12, <1>14, <1>17, <2>1, <3>1 DEF FilesInv, PointsThere
    <3>2. CASE k = M + 1
      BY <1>12, <1>17, <3>2
    <3>. QED
      BY <1>13, <3>1, <3>2
  <2>. QED
    BY <1>16, <2>1 DEF PointsThere, Checkpoint
<1>20. \A g \in DOMAIN solver'.data : ByCase(g)' \/ Honest(g)'
  <2> SUFFICES ASSUME NEW g \in DOMAIN w PROVE ByCase(g)' \/ Honest(g)'
    BY <1>16
  <2>1. CASE g = f /\ call.action # Checkpoint
    <3>1. call.action \in {"write_case", "write_case_data"}
      BY <1>11, <2>1 DEF CaseWriters, Checkpoint
    <3>. QED
      BY <1>12, <1>13, <2>1, <3>1 DEF ByCase
  <2>2. CASE g = f /\ call.action = Checkpoint
    <3>1. PICK k \in Chunks(Solve(spec)) :
             CheckpointFile(Solve(spec), k) = f /\ n = Completed(Solve(spec), k)
      BY <1>1, <1>2, <1>7, <1>15, <2>2, PointHonest
    <3>. QED
      BY <1>6, <1>16, <1>17, <2>2, <3>1 DEF Honest
  <2>3. CASE g # f
    <3>1. g \in DOMAIN d /\ w[g] = d[g]
      BY <1>17, <2>3
    <3>2. ByCase(g) \/ Honest(g)
      BY <1>14, <3>1 DEF FilesInv
    <3>3. ByCase(g) => ByCase(g)'
      BY <1>3, <1>12, <1>13 DEF ByCase
    <3>4. Honest(g) => Honest(g)'
      BY <1>6, <1>14, <1>16, <3>1 DEF Honest
    <3>. QED
      BY <3>2, <3>3, <3>4
  <2>. QED
    BY <2>1, <2>2, <2>3
<1>. QED
  BY <1>6, <1>7, <1>12, <1>16, <1>18, <1>19, <1>20 DEF FilesInv

\* A step of a call that writes no case.
LEMMA NothingWritten ==
  ASSUME Phase, SpecFiled, FilesInv, Progress, Head(ahead).action \notin CaseWriters
  PROVE  FilesInv'
<1>1. PICK call : call = Head(ahead)
  OBVIOUS
<1>2. requests # <<>> /\ requests' = Tail(requests) /\ spec' = spec
      /\ (solver' = Carried(Head(requests)) \/ solver' = solver)
  BY DEF Progress, Carry, Swallow
<1>3. ahead # <<>> /\ Verdict.ok /\ spec # NoSpec
  BY <1>2 DEF Phase
<1>4. Writeless(requests)
  BY <1>2 DEF FilesInv, WriteInHand
<1>5. /\ IsSequence(Tail(requests)) /\ Len(Tail(requests)) = Len(requests) - 1
      /\ Len(requests) \in Nat \ {0} /\ Head(requests) = requests[1]
      /\ \A k \in 1 .. Len(requests) - 1 : Tail(requests)[k] = requests[k + 1]
  BY <1>2, <1>4, SequenceTail DEF Writeless
<1>6. Head(requests).op # "write"
  BY <1>4, <1>5 DEF Writeless
<1>7. Writeless(requests')
  <2>1. ASSUME NEW k \in 1 .. Len(requests) - 1 PROVE requests'[k].op # "write"
    <3>1. k + 1 \in 1 .. Len(requests)
      BY <1>5
    <3>. QED
      BY <1>2, <1>4, <1>5, <3>1 DEF Writeless
  <2>. QED
    BY <1>2, <1>5, <2>1 DEF Writeless
<1>8. solver'.data = solver.data /\ "data" \in DOMAIN solver'
  <2>1. "data" \in DOMAIN solver
    BY DEF FilesInv
  <2>. QED
    BY <1>2, <1>6, <2>1, CarriedWriteless
<1>9. \A g : Honest(g) => Honest(g)'
  BY <1>2, <1>8 DEF Honest
<1>10. CASE requests' = <<>>
  <2>1. made' = Append(made, Call(Head(ahead).action, Verdict.params))
    BY <1>10 DEF Progress
  <2>2. PICK M : M = Len(made)
    OBVIOUS
  <2>3. /\ M \in Nat /\ Len(made') = M + 1
        /\ \A k \in 1 .. M : made'[k] = made[k]
        /\ made'[M + 1].action = call.action
        /\ MadeAsPlanned'
    BY <1>1, <1>2, <1>3, <2>1, <2>2, CallMade DEF FilesInv
  <2>4. \A k \in 1 .. M : k \in 1 .. Len(made')
    BY <2>3
  <2>5. \A k \in 1 .. Len(made') : k \in 1 .. M \/ k = M + 1
    BY <2>3
  <2>6. call.action # Checkpoint
    BY <1>1 DEF CaseWriters, Checkpoint
  <2>7. WriteInHand'
    BY <1>10 DEF WriteInHand
  <2>8. PointsThere'
    BY <1>8, <2>2, <2>3, <2>5, <2>6 DEF FilesInv, PointsThere
  <2>9. \A g : ByCase(g) => ByCase(g)'
    BY <2>2, <2>3, <2>4 DEF ByCase
  <2>10. \A g \in DOMAIN solver'.data : ByCase(g)' \/ Honest(g)'
    BY <1>8, <1>9, <2>9 DEF FilesInv
  <2>. QED
    BY <1>2, <1>3, <1>8, <2>3, <2>7, <2>8, <2>10 DEF FilesInv
<1>11. CASE requests' # <<>>
  <2>1. made' = made /\ ahead' = ahead
    BY <1>11 DEF Progress
  <2>2. WriteInHand'
    BY <1>7, <2>1 DEF WriteInHand
  <2>3. MadeAsPlanned'
    BY <1>2, <2>1 DEF FilesInv, MadeAsPlanned
  <2>4. PointsThere'
    BY <1>8, <2>1 DEF FilesInv, PointsThere
  <2>5. \A g : ByCase(g) => ByCase(g)'
    BY <2>1 DEF ByCase
  <2>6. \A g \in DOMAIN solver'.data : ByCase(g)' \/ Honest(g)'
    BY <1>8, <1>9, <2>5 DEF FilesInv
  <2>. QED
    BY <1>2, <1>3, <1>8, <2>2, <2>3, <2>4, <2>6 DEF FilesInv
<1>. QED
  BY <1>10, <1>11

\* The files' invariant is kept.
LEMMA FilesNext ==
  Phase /\ Phase' /\ SolvedInv /\ SpecFiled /\ FilesInv /\ [Next]_vars => FilesInv'
<1> SUFFICES ASSUME Phase, Phase', SolvedInv, SpecFiled, FilesInv, [Next]_vars
             PROVE  FilesInv'
  OBVIOUS
<1>1. CASE Accept
  <2>1. /\ status = "submitted" /\ requests' = requests /\ solver' = solver /\ made' = made
    BY <1>1 DEF Accept, productVars
  <2>2. requests = <<>> /\ made = <<>> /\ spec = NoSpec
    BY <2>1 DEF Phase
  <2>3. \A k \in 1 .. Len(made) : FALSE
    BY <2>2, SequenceEmpty
  <2>4. \A k \in 1 .. Len(made') : FALSE
    BY <2>1, <2>3
  <2>5. WriteInHand' /\ MadeAsPlanned' /\ PointsThere'
    <3>1. WriteInHand'
      BY <2>1, <2>2 DEF WriteInHand
    <3>2. MadeAsPlanned'
      BY <2>4 DEF MadeAsPlanned
    <3>3. PointsThere'
      BY <2>4 DEF PointsThere
    <3>. QED
      BY <3>1, <3>2, <3>3
  <2>6. DOMAIN solver'.data = {} /\ "data" \in DOMAIN solver'
    BY <2>1, <2>2 DEF FilesInv
  <2>. QED
    BY <2>5, <2>6 DEF FilesInv
<1>2. CASE Proceed
  <2>1. /\ ahead # <<>> /\ Verdict.ok /\ requests' = Requests(Head(ahead).action, Verdict.params)
        /\ UNCHANGED <<solver, spec, ahead, made>>
    BY <1>2 DEF Proceed, Execute, workVars
  <2>2. WriteInHand'
    BY <2>1, FreshFiles DEF WriteInHand
  <2>. QED
    BY <2>1, <2>2 DEF FilesInv, MadeAsPlanned, PointsThere, ByCase, Honest
<1>3. CASE Progress
  BY <1>3, FileWritten, NothingWritten
<1>4. CASE Fail
  <2>1. requests' = <<>> /\ UNCHANGED <<solver, spec, made>>
    BY <1>4 DEF Fail, Raise, productVars
  <2>2. WriteInHand'
    BY <2>1 DEF WriteInHand
  <2>. QED
    BY <2>1, <2>2 DEF FilesInv, MadeAsPlanned, PointsThere, ByCase, Honest
<1>5. CASE Refuse \/ Succeed \/ UNCHANGED vars
  <2>1. UNCHANGED <<requests, solver, spec, ahead, made>>
    <3>1. Refuse \/ Succeed => UNCHANGED <<productVars, spec, ahead, made>>
      BY DEF Refuse, Succeed
    <3>2. UNCHANGED vars => UNCHANGED <<productVars, spec, ahead, made>>
      BY DEF vars, workVars
    <3>. QED
      BY <1>5, <3>1, <3>2 DEF productVars
  <2>2. WriteInHand'
    BY <2>1 DEF FilesInv, WriteInHand
  <2>. QED
    BY <2>1, <2>2 DEF FilesInv, MadeAsPlanned, PointsThere, ByCase, Honest
<1>. QED
  BY <1>1, <1>2, <1>3, <1>4, <1>5 DEF Next

\* A call that was made is one of the run's, and wrote the file that was planned.
LEMMA MadeFormed ==
  ASSUME Phase, SpecFiled, FilesInv, NEW j \in Made(Writers)
  PROVE  LET e == Calls(spec)[j]
         IN /\ j \in 1 .. Len(made) /\ j \in 1 .. Len(Calls(spec))
            /\ SpecFormed(spec) /\ Numbered(spec) /\ Filed(spec)
            /\ FormedCall(e, spec) /\ Due(e, spec)
            /\ e.action = made[j].action /\ e.action \in Writers
            /\ e.params.file_name = made[j].params.file_name /\ e.params.file_name # Null
<1>1. j \in 1 .. Len(made) /\ made[j].action \in Writers
  <2>1. IsSequence(made)
    <3>1. CASE spec = NoSpec
      <4>1. made = <<>>
        BY <3>1 DEF Phase
      <4>. QED
        BY <4>1, SequenceEmpty
    <3>2. CASE spec # NoSpec
      BY <3>2 DEF Phase, Follows
    <3>. QED
      BY <3>1, <3>2
  <2>. QED
    BY <2>1, SequenceDomain DEF Made
<1>2. spec # NoSpec
  <2> SUFFICES ASSUME spec = NoSpec PROVE FALSE
    OBVIOUS
  <2>1. made = <<>>
    BY DEF Phase
  <2>. QED
    BY <1>1, <2>1, SequenceEmpty
<1>3. PICK c : c = Calls(spec)
  OBVIOUS
<1>4. /\ SpecFormed(spec) /\ Follows(c) /\ Numbered(spec) /\ Filed(spec)
      /\ status \notin {"submitted", "refused"}
  BY <1>2, <1>3 DEF Phase, SpecFiled
<1>5. FormedCalls(c, spec) /\ \A i \in 1 .. Len(c) : Due(c[i], spec)
  BY <1>3, <1>4, AllFormed, CallsDue
<1>6. j \in 1 .. Len(c)
  <2>1. Len(made) \in 0 .. Len(c) /\ Len(c) \in Nat
    BY <1>2, <1>3, <1>5, MadeCalls, SequenceDomain DEF FormedCalls
  <2>. QED
    BY <1>1, <2>1
<1>7. FormedCall(c[j], spec) /\ Due(c[j], spec)
  BY <1>5, <1>6 DEF FormedCalls
<1>8. c[j].action = made[j].action
  BY <1>1, <1>4 DEF Follows
<1>9. /\ c[j].params.file_name = made[j].params.file_name
      /\ c[j].params.file_name # Null
  BY <1>1, <1>3 DEF FilesInv, MadeAsPlanned
<1>. QED
  BY <1>1, <1>3, <1>4, <1>6, <1>7, <1>8, <1>9

\* Two checkpoints have one file only if the user gave it a name without a number.
LEMMA TwoPoints ==
  ASSUME Phase, SpecFiled, FilesInv, NEW j \in Made(Writers), NEW k \in Made(Writers), j # k,
         made[j].params.file_name = made[k].params.file_name,
         made[j].action = made[k].action
  PROVE  made[j].action = Checkpoint /\ ~Unnamed(Checkpoint, spec) /\ ~NumberGiven
<1>1. PICK c : c = Calls(spec)
  OBVIOUS
<1>2. PICK a : a = made[j].action
  OBVIOUS
<1>3. /\ SpecFormed(spec) /\ Numbered(spec) /\ Filed(spec)
      /\ j \in 1 .. Len(c) /\ k \in 1 .. Len(c)
      /\ c[j].action = a /\ c[k].action = a /\ a \in Writers
      /\ c[j].params.file_name = c[k].params.file_name /\ c[j].params.file_name # Null
  BY <1>1, <1>2, MadeFormed
<1>4. a = Checkpoint
  <2> SUFFICES ASSUME a \in OnceWritten PROVE FALSE
    BY <1>3 DEF Writers, OnceWritten, Checkpoint
  <2>1. Singly(c, a)
    BY <1>1, <1>3, CallsSingly
  <2>. QED
    BY <1>3, <2>1 DEF Singly
<1>5. j \in Int /\ k \in Int
  BY <1>3
<1>6. /\ \A p \in DOMAIN Solve(spec).checkpoint.parts :
           Solve(spec).checkpoint.parts[p] \notin Counting \cup Indexed
      /\ ~(IsNull(spec.outputs.checkpoints.file) \/ Blank(spec.outputs.checkpoints.file))
  <2>1. CASE j < k
    BY <1>1, <1>3, <1>4, <2>1, PointFiles
  <2>2. CASE k < j
    BY <1>1, <1>3, <1>4, <2>2, PointFiles
  <2>. QED
    BY <1>5, <2>1, <2>2
<1>7. ~NumberGiven
  BY <1>6 DEF NumberGiven
<1>8. ~Unnamed(Checkpoint, spec)
  BY <1>6 DEF Unnamed, OutputOf, Checkpoint
<1>. QED
  BY <1>2, <1>4, <1>7, <1>8

\* Two writes of a run go to two files, unless the user gave one of the files its name or
\* the checkpoints a template without a number: the default names never lose an output.  So
\* a checkpoint holds what was done after the chunk its name tells of, unless the case at
\* the end has got that name (NothingOverwritten): the program writes each output once, the
\* default names differ and lie in one directory, and the number of a checkpoint is that of
\* the chunk that is done.
THEOREM NoFileLost == Spec => []NothingOverwritten
<1>1. Phase /\ SpecFiled /\ FilesInv => FilesApart
  <2> SUFFICES ASSUME Phase, SpecFiled, FilesInv,
                      NEW j \in Made(Writers), NEW k \in Made(Writers), j # k,
                      made[j].params.file_name = made[k].params.file_name
               PROVE  /\ NameGiven(made[j]) \/ NameGiven(made[k])
                      /\ made[j].action = made[k].action =>
                           made[j].action = "checkpoint_case_data" /\ ~NumberGiven
    BY DEF FilesApart
  <2>1. \A call : NameGiven(call) <=> ~Unnamed(call.action, spec)
    BY DEF NameGiven, Unnamed
  <2>2. CASE made[j].action = made[k].action
    BY <2>1, <2>2, TwoPoints DEF Checkpoint
  <2>3. CASE made[j].action # made[k].action
    <3> SUFFICES ASSUME Unnamed(made[j].action, spec), Unnamed(made[k].action, spec)
                 PROVE  FALSE
      BY <2>1, <2>3
    <3>1. PICK e : e = Calls(spec)[j]
      OBVIOUS
    <3>2. PICK g : g = Calls(spec)[k]
      OBVIOUS
    <3>3. PICK f : f = made[j].params.file_name
      OBVIOUS
    <3>4. /\ SpecFormed(spec) /\ Filed(spec) /\ FormedCall(e, spec) /\ Due(e, spec)
          /\ e.action = made[j].action /\ e.action \in Writers
          /\ e.params.file_name = f /\ f # Null
      BY <3>1, <3>3, MadeFormed
    <3>5. /\ FormedCall(g, spec) /\ Due(g, spec)
          /\ g.action = made[k].action /\ g.action \in Writers
          /\ g.params.file_name = f
      BY <3>2, <3>3, MadeFormed
    <3>6. PICK name : /\ DefaultName(e.action, name)
                      /\ f.parts[Len(Resolve(OutputDir)) + 1] = name
      BY <3>4, DefaultPlace
    <3>7. PICK other : /\ DefaultName(g.action, other)
                       /\ f.parts[Len(Resolve(OutputDir)) + 1] = other
      BY <3>4, <3>5, DefaultPlace
    <3>8. name = other
      BY <3>6, <3>7
    <3>. QED
      BY <2>3, <3>4, <3>5, <3>6, <3>7, <3>8, DefaultsApart
  <2>. QED
    BY <2>2, <2>3
<1>2. Phase /\ SpecFiled /\ FilesInv => CheckpointsHonest
  <2> SUFFICES ASSUME Phase, SpecFiled, FilesInv, NEW j \in Saved \ {0}
               PROVE  LET op == Solve(spec)
                          file == made[j].params.file_name
                      IN \/ \E k \in Chunks(op) : /\ CheckpointFile(op, k) = file
                                                  /\ solver.data[file] = Completed(op, k)
                         \/ \E k \in Made({"write_case", "write_case_data"}) :
                              made[k].params.file_name = file
    BY DEF CheckpointsHonest
  <2>1. j \in Made({Checkpoint})
    BY DEF Saved, Checkpoint
  <2>2. made[j].action = Checkpoint /\ j \in Made(Writers)
    BY <2>1 DEF Made, Writers, Checkpoint
  <2>3. j \in 1 .. Len(made)
    BY <2>2, MadeFormed
  <2>4. PICK f : f = made[j].params.file_name
    OBVIOUS
  <2>5. f \in DOMAIN solver.data
    BY <2>2, <2>3, <2>4 DEF FilesInv, PointsThere
  <2>6. ByCase(f) \/ Honest(f)
    BY <2>5 DEF FilesInv
  <2>7. IsSequence(made)
    <3>1. spec # NoSpec
      <4> SUFFICES ASSUME spec = NoSpec PROVE FALSE
        OBVIOUS
      <4>1. made = <<>>
        BY DEF Phase
      <4>. QED
        BY <2>3, <4>1, SequenceEmpty
    <3>. QED
      BY <3>1 DEF Phase, Follows
  <2>8. ByCase(f) => \E k \in Made({"write_case", "write_case_data"}) :
                       made[k].params.file_name = f
    BY <2>7, SequenceDomain DEF ByCase, Made
  <2>9. Honest(f) => \E k \in Chunks(Solve(spec)) :
                       /\ CheckpointFile(Solve(spec), k) = f
                       /\ solver.data[f] = Completed(Solve(spec), k)
    BY DEF Honest
  <2>. QED
    BY <2>4, <2>6, <2>8, <2>9
<1>3. Phase /\ SpecFiled /\ FilesInv => NothingOverwritten
  BY <1>1, <1>2 DEF NothingOverwritten
<1>4. Init => Phase /\ SolvedInv /\ SpecFiled /\ FilesInv
  BY PhaseInit, SolvedInit, FilesInit DEF Init, SpecFiled
<1>5. Phase /\ SolvedInv /\ SpecFiled /\ FilesInv /\ [Next]_vars
        => Phase' /\ SolvedInv' /\ SpecFiled' /\ FilesInv'
  BY PhaseNext, SolvedNext, SpecFiledNext, FilesNext
<1>. QED
  BY <1>3, <1>4, <1>5, PTL DEF Spec
=============================================================================
