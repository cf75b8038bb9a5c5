---------------------------- MODULE PolicyProofs ----------------------------
(***************************************************************************)
(* Lemmas about Policy: resolving a path leaves nothing to resolve, and    *)
(* what the policy let through it lets through again, unchanged.           *)
(*                                                                         *)
(* Facts about sequences of every length are proved by induction, which is *)
(* stated here with a set in place of a predicate.                         *)
(***************************************************************************)
EXTENDS Policy, SequenceTheorems, WellFoundedInduction, TLAPS

(***************************************************************************)
(* Induction.                                                              *)
(***************************************************************************)
\* "Less than" as a relation is well founded.
LEMMA LessThan ==
  \E R : IsWellFoundedOn(R, Nat) /\ \A m, n \in Nat : <<m, n>> \in R <=> m < n
<1> DEFINE R == OpToRel(<, Nat)
<1>1. IsWellFoundedOn(R, Nat)
  BY NatLessThanWellFounded
<1>2. \A m, n \in Nat : <<m, n>> \in R <=> m < n
  BY DEF OpToRel
<1> HIDE DEF R
<1>. QED
  BY <1>1, <1>2, Zenon

\* A set of numbers has a least one.
LEMMA LeastNumber ==
  ASSUME NEW S, S \subseteq Nat, S # {}
  PROVE  \E n \in S : \A m \in S : n <= m
<1>1. PICK R : IsWellFoundedOn(R, Nat) /\ \A m, n \in Nat : <<m, n>> \in R <=> m < n
  BY LessThan
<1>2. PICK n \in S : \A m \in S : ~(<<m, n>> \in R)
  <2>1. IsWellFoundedOn(R, Nat)
    BY <1>1
  <2>2. \E n \in S : \A m \in S : ~(<<m, n>> \in R)
    BY <2>1, WFMin
  <2>. QED
    BY <2>2
<1>3. ASSUME NEW m \in S PROVE n <= m
  <2>1. m \in Nat /\ n \in Nat /\ ~(m < n)
    BY <1>1, <1>2
  <2>. QED
    BY <2>1
<1>. QED
  BY <1>3

\* What holds of 0 and, with a number up to N, of the next one, holds up to N.
LEMMA CountingUp ==
  ASSUME NEW N \in Nat, NEW S, 0 \in S, \A n \in Nat : n < N /\ n \in S => n + 1 \in S
  PROVE  \A n \in 0 .. N : n \in S
<1> DEFINE Bad == {n \in 0 .. N : n \notin S}
<1>. SUFFICES ASSUME Bad # {} PROVE FALSE
  OBVIOUS
<1>1. PICK n \in Bad : \A m \in Bad : n <= m
  <2>1. Bad \subseteq Nat
    OBVIOUS
  <2> HIDE DEF Bad
  <2>2. \E n \in Bad : \A m \in Bad : n <= m
    BY <2>1, LeastNumber
  <2>. QED
    BY <2>2
<1>2. n \in Nat /\ n # 0 /\ n <= N
  BY <1>1
<1>3. n - 1 \in Nat /\ n - 1 < N /\ n - 1 \notin Bad
  BY <1>1, <1>2
<1>4. n - 1 \in S
  BY <1>2, <1>3
<1>. QED
  BY <1>1, <1>2, <1>3, <1>4

-----------------------------------------------------------------------------
(***************************************************************************)
(* Sequences of whatever they hold.                                        *)
(***************************************************************************)
\* A sequence has its length and its domain.
LEMMA SequenceDomain ==
  ASSUME NEW s, IsSequence(s)
  PROVE  Len(s) \in Nat /\ DOMAIN s = 1 .. Len(s) /\ s = [k \in 1 .. Len(s) |-> s[k]]
BY DEF IsSequence

\* A sequence in some set is a sequence.
LEMMA SequenceIn ==
  ASSUME NEW R, NEW s \in Seq(R)
  PROVE  IsSequence(s)
<1>1. DOMAIN s = 1 .. Len(s) /\ Len(s) \in Nat
  OBVIOUS
<1>2. \A k \in 1 .. Len(s) : s[k] \in {s[j] : j \in DOMAIN s}
  BY <1>1
<1>. QED
  BY <1>1, <1>2 DEF IsSequence

\* A function on 1 to n is a sequence of length n.
LEMMA SequenceOf ==
  ASSUME NEW n \in Nat, NEW f, f = [k \in 1 .. n |-> f[k]]
  PROVE  IsSequence(f) /\ Len(f) = n
<1> DEFINE R == {f[k] : k \in 1 .. n}
<1>1. f \in [1 .. n -> R]
  OBVIOUS
<1>2. f \in Seq(R)
  BY <1>1, SeqDef
<1>3. Len(f) = n
  BY <1>1, <1>2
<1>. QED
  BY <1>2, <1>3, SequenceIn

\* Two sequences of one length with the same elements are the same.
LEMMA SequenceEqual ==
  ASSUME NEW s, NEW t, IsSequence(s), IsSequence(t), Len(s) = Len(t),
         \A k \in 1 .. Len(s) : s[k] = t[k]
  PROVE  s = t
<1>1. s = [k \in 1 .. Len(s) |-> s[k]] /\ t = [k \in 1 .. Len(t) |-> t[k]]
  BY SequenceDomain
<1>2. [k \in 1 .. Len(s) |-> s[k]] = [k \in 1 .. Len(s) |-> t[k]]
  OBVIOUS
<1>. QED
  BY <1>1, <1>2

\* The empty sequence.
LEMMA SequenceEmpty == IsSequence(<<>>) /\ Len(<<>>) = 0
BY DEF IsSequence

\* A sequence of one element.
LEMMA SequenceOne ==
  ASSUME NEW e
  PROVE  IsSequence(<<e>>) /\ Len(<<e>>) = 1 /\ <<e>>[1] = e
<1>1. <<e>> \in Seq({e})
  OBVIOUS
<1>. QED
  BY <1>1, SequenceIn

\* A sequence without elements is the empty one.
LEMMA NothingInIt ==
  ASSUME NEW s, IsSequence(s)
  PROVE  s = <<>> <=> Len(s) = 0
BY SequenceEmpty, SequenceEqual, SequenceDomain

\* Append adds one element and keeps the others.
LEMMA SequenceAppend ==
  ASSUME NEW s, IsSequence(s), NEW e
  PROVE  /\ IsSequence(Append(s, e))
         /\ Len(Append(s, e)) = Len(s) + 1
         /\ \A k \in 1 .. Len(s) : Append(s, e)[k] = s[k]
         /\ Append(s, e)[Len(s) + 1] = e
<1> DEFINE R == {s[k] : k \in DOMAIN s} \cup {e}
           t == Append(s, e)
<1>1. s \in Seq(R)
  BY DEF IsSequence
<1>2. t \in Seq(R) /\ Len(t) = Len(s) + 1
  BY <1>1
<1>3. /\ \A k \in 1 .. Len(s) : t[k] = s[k]
      /\ t[Len(s) + 1] = e
  BY <1>1
<1>. QED
  BY <1>2, <1>3, SequenceIn

\* Two sequences in a row.
LEMMA SequenceConcat ==
  ASSUME NEW s, NEW t, IsSequence(s), IsSequence(t)
  PROVE  /\ IsSequence(s \o t)
         /\ Len(s \o t) = Len(s) + Len(t)
         /\ \A k \in 1 .. Len(s) + Len(t) :
              (s \o t)[k] = IF k <= Len(s) THEN s[k] ELSE t[k - Len(s)]
<1> DEFINE R == {s[k] : k \in DOMAIN s} \cup {t[k] : k \in DOMAIN t}
<1>1. s \in Seq(R) /\ t \in Seq(R)
  BY SeqMonotonic DEF IsSequence
<1> HIDE DEF R
<1>. QED
  BY <1>1, ConcatProperties, SequenceIn

\* The first elements of a sequence.
LEMMA SequenceBegin ==
  ASSUME NEW s, IsSequence(s), NEW n \in 0 .. Len(s)
  PROVE  /\ IsSequence(SubSeq(s, 1, n))
         /\ Len(SubSeq(s, 1, n)) = n
         /\ \A k \in 1 .. n : SubSeq(s, 1, n)[k] = s[k]
<1> DEFINE R == {s[k] : k \in DOMAIN s}
<1>1. s \in Seq(R) /\ Len(s) \in Nat /\ DOMAIN s = 1 .. Len(s)
  BY SequenceDomain DEF IsSequence
<1>2. \A k \in 1 .. n : s[k] \in R
  BY <1>1
<1>3. 1 \in Int /\ n \in Int
  BY <1>1
<1> HIDE DEF R
<1>4. /\ SubSeq(s, 1, n) \in Seq(R)
      /\ Len(SubSeq(s, 1, n)) = IF 1 <= n THEN n - 1 + 1 ELSE 0
      /\ \A i \in 1 .. n - 1 + 1 : SubSeq(s, 1, n)[i] = s[1 + i - 1]
  BY <1>2, <1>3, SubSeqProperties
<1> DEFINE t == SubSeq(s, 1, n)
<1>5. IsSequence(t)
  BY <1>4, SequenceIn
<1> HIDE DEF t
<1>6. Len(t) = n /\ \A i \in 1 .. n : t[i] = s[i]
  <2>1. /\ Len(t) = IF 1 <= n THEN n - 1 + 1 ELSE 0
        /\ \A i \in 1 .. n - 1 + 1 : t[i] = s[1 + i - 1]
    BY <1>4 DEF t
  <2>. QED
    BY <1>1, <2>1
<1>. QED
  BY <1>5, <1>6 DEF t

-----------------------------------------------------------------------------
(***************************************************************************)
(* Paths.                                                                  *)
(***************************************************************************)
\* Entering one name after the other is well defined.
LEMMA EnterOneByOne ==
  ASSUME NEW parts, IsSequence(parts)
  PROVE  \E place : /\ place[0] = <<>>
                    /\ \A k \in 1 .. Len(parts) : place[k] = Enter(place[k - 1], parts[k])
                    /\ Resolve(parts) = place[Len(parts)]
<1> DEFINE Through(n, f) ==
             f = [k \in 0 .. n |-> IF k = 0 THEN <<>> ELSE Enter(f[k - 1], parts[k])]
           S == {n \in Nat : \E f : Through(n, f)}
<1>1. Len(parts) \in Nat
  BY SequenceDomain
<1>2. 0 \in S
  <2>1. Through(0, [k \in 0 .. 0 |-> <<>>])
    OBVIOUS
  <2>. QED
    BY <2>1
<1>3. ASSUME NEW n \in Nat, n \in S PROVE n + 1 \in S
  <2>1. PICK f : Through(n, f)
    BY <1>3
  <2> DEFINE g == [k \in 0 .. n + 1 |-> IF k <= n THEN f[k] ELSE Enter(f[n], parts[n + 1])]
  <2>2. ASSUME NEW k \in 0 .. n + 1
        PROVE  g[k] = IF k = 0 THEN <<>> ELSE Enter(g[k - 1], parts[k])
    <3>1. CASE k = 0
      BY <2>1, <3>1
    <3>2. CASE k \in 1 .. n
      <4>1. f[k] = Enter(f[k - 1], parts[k])
        BY <2>1, <3>2
      <4>2. g[k] = f[k] /\ g[k - 1] = f[k - 1]
        BY <3>2
      <4>. QED
        BY <3>2, <4>1, <4>2
    <3>3. CASE k = n + 1
      <4>1. g[k] = Enter(f[n], parts[n + 1]) /\ g[k - 1] = f[n]
        BY <3>3
      <4>. QED
        BY <3>3, <4>1
    <3>. QED
      BY <3>1, <3>2, <3>3
  <2>3. Through(n + 1, g)
    BY <2>2
  <2> HIDE DEF g, Through
  <2>4. \E h : Through(n + 1, h)
    BY <2>3
  <2>. QED
    BY <2>4
<1>4. \A n \in 0 .. Len(parts) : n \in S
  <2> HIDE DEF S
  <2>. QED
    BY <1>1, <1>2, <1>3, CountingUp
<1>5. \E f : Through(Len(parts), f)
  BY <1>1, <1>4
<1> DEFINE place == CHOOSE f : Through(Len(parts), f)
<1>6. Through(Len(parts), place)
  BY <1>5
<1>7. Resolve(parts) = place[Len(parts)]
  BY DEF Resolve
<1> HIDE DEF place
<1>8. place[0] = <<>> /\ \A k \in 1 .. Len(parts) : place[k] = Enter(place[k - 1], parts[k])
  BY <1>1, <1>6
<1>. QED
  BY <1>7, <1>8

\* Entering a name leaves nothing to resolve.
LEMMA EnterProper ==
  ASSUME NEW place, IsProperPath(place), NEW name
  PROVE  IsProperPath(Enter(place, name))
<1>1. CASE name = "."
  BY <1>1 DEF Enter
<1>2. CASE name = ".." /\ place = <<>>
  BY <1>2 DEF Enter
<1>3. CASE name = ".." /\ place # <<>>
  <2>1. Len(place) \in Nat /\ Len(place) # 0 /\ IsSequence(place)
          /\ DOMAIN place = 1 .. Len(place)
    BY <1>3, SequenceDomain, NothingInIt DEF IsProperPath
  <2> DEFINE front == SubSeq(place, 1, Len(place) - 1)
  <2>2. /\ IsSequence(front) /\ Len(front) = Len(place) - 1
        /\ \A k \in 1 .. Len(place) - 1 : front[k] = place[k]
    <3>1. Len(place) - 1 \in 0 .. Len(place)
      BY <2>1
    <3>. QED
      BY <2>1, <3>1, SequenceBegin
  <2>3. Enter(place, name) = front
    BY <1>3 DEF Enter, Front
  <2> HIDE DEF front
  <2>4. \A k \in DOMAIN front : front[k] \notin {".", ".."}
    BY <2>1, <2>2, SequenceDomain DEF IsProperPath
  <2>. QED
    BY <2>2, <2>3, <2>4 DEF IsProperPath
<1>4. CASE name \notin {".", ".."}
  <2>1. Enter(place, name) = Append(place, name)
    BY <1>4 DEF Enter
  <2>2. \A k \in DOMAIN Append(place, name) : Append(place, name)[k] \notin {".", ".."}
    BY <1>4, SequenceAppend, SequenceDomain DEF IsProperPath
  <2>3. IsSequence(Append(place, name))
    BY SequenceAppend DEF IsProperPath
  <2>. QED
    BY <2>1, <2>2, <2>3 DEF IsProperPath
<1>. QED
  BY <1>1, <1>2, <1>3, <1>4

\* A resolved path has nothing left to resolve.
THEOREM ResolvedIsProper ==
  ASSUME NEW parts, IsSequence(parts)
  PROVE  IsProperPath(Resolve(parts))
<1>1. PICK place : /\ place[0] = <<>>
                   /\ \A k \in 1 .. Len(parts) : place[k] = Enter(place[k - 1], parts[k])
                   /\ Resolve(parts) = place[Len(parts)]
  BY EnterOneByOne
<1> DEFINE S == {n \in Nat : n <= Len(parts) => IsProperPath(place[n])}
<1>2. Len(parts) \in Nat
  BY SequenceDomain
<1>3. 0 \in S
  BY <1>1, SequenceEmpty DEF IsProperPath
<1>4. ASSUME NEW n \in Nat, n \in S PROVE n + 1 \in S
  <2>. SUFFICES ASSUME n + 1 <= Len(parts) PROVE IsProperPath(place[n + 1])
    OBVIOUS
  <2>1. n + 1 \in 1 .. Len(parts) /\ n + 1 - 1 = n
    BY <1>2
  <2>2. place[n + 1] = Enter(place[n], parts[n + 1])
    BY <1>1, <2>1
  <2>3. IsProperPath(place[n])
    BY <1>2, <1>4
  <2>. QED
    BY <2>2, <2>3, EnterProper
<1>5. \A n \in 0 .. Len(parts) : n \in S
  <2> HIDE DEF S
  <2>. QED
    BY <1>2, <1>3, <1>4, CountingUp
<1>. QED
  BY <1>1, <1>2, <1>5

\* A path with nothing to resolve is its own resolution.
LEMMA ProperStays ==
  ASSUME NEW parts, IsProperPath(parts)
  PROVE  Resolve(parts) = parts
<1>. IsSequence(parts)
  BY DEF IsProperPath
<1>1. PICK place : /\ place[0] = <<>>
                   /\ \A k \in 1 .. Len(parts) : place[k] = Enter(place[k - 1], parts[k])
                   /\ Resolve(parts) = place[Len(parts)]
  BY EnterOneByOne
<1> DEFINE Begun(n) == /\ IsSequence(place[n])
                       /\ Len(place[n]) = n
                       /\ \A k \in 1 .. n : place[n][k] = parts[k]
           S == {n \in Nat : n <= Len(parts) => Begun(n)}
<1>2. Len(parts) \in Nat /\ DOMAIN parts = 1 .. Len(parts)
  BY SequenceDomain
<1>3. 0 \in S
  BY <1>1, SequenceEmpty
<1>4. ASSUME NEW n \in Nat, n \in S PROVE n + 1 \in S
  <2>. SUFFICES ASSUME n + 1 <= Len(parts) PROVE Begun(n + 1)
    OBVIOUS
  <2>1. n + 1 \in 1 .. Len(parts) /\ n + 1 - 1 = n /\ n <= Len(parts)
    BY <1>2
  <2>2. Begun(n)
    BY <1>4, <2>1
  <2>3. place[n + 1] = Append(place[n], parts[n + 1])
    <3>1. parts[n + 1] \notin {".", ".."}
      BY <1>2, <2>1 DEF IsProperPath
    <3>2. place[n + 1] = Enter(place[n], parts[n + 1])
      BY <1>1, <2>1
    <3>. QED
      BY <3>1, <3>2 DEF Enter
  <2>. QED
    BY <2>2, <2>3, SequenceAppend
<1>5. \A n \in 0 .. Len(parts) : n \in S
  <2> HIDE DEF S
  <2>. QED
    BY <1>2, <1>3, <1>4, CountingUp
<1>6. Begun(Len(parts))
  BY <1>2, <1>5
<1>. QED
  BY <1>1, <1>6, SequenceEqual

-----------------------------------------------------------------------------
(***************************************************************************)
(* The session's own check: its context has the roots resolved.            *)
(***************************************************************************)
\* c with its roots, as the session that was opened has them.
Settled(c) == [c EXCEPT !.roots = {Absolute(r) : r \in AllowedRoots(c.roots, c.cwd)}]

\* The working directory and the text of a path make a path.
LEMMA PathProper ==
  ASSUME NEW v, IsSequence(v.parts), NEW cwd, IsProperPath(cwd)
  PROVE  IsProperPath(NormalizePath(v, cwd))
<1>1. IsSequence(v.parts) /\ IsSequence(cwd \o v.parts)
  BY SequenceConcat DEF IsProperPath
<1>. QED
  BY <1>1, ResolvedIsProper DEF NormalizePath

\* The roots of a session are resolved.
LEMMA RootsProper ==
  ASSUME NEW c, SessionFormed(c), NEW root \in AllowedRoots(c.roots, c.cwd)
  PROVE  IsProperPath(root)
<1>1. IsProperPath(c.cwd) /\ IsSequence(c.cwd)
  BY DEF SessionFormed, IsProperPath
<1>2. CASE root = Append(c.cwd, "outputs")
  <2>1. Enter(c.cwd, "outputs") = Append(c.cwd, "outputs")
    BY DEF Enter
  <2>. QED
    BY <1>1, <1>2, <2>1, EnterProper
<1>3. CASE root \in {NormalizePath(x, c.cwd) : x \in c.roots}
  BY <1>1, <1>3, PathProper DEF SessionFormed
<1>. QED
  BY <1>1, <1>2, <1>3 DEF AllowedRoots

\* Resolving the roots again changes nothing.
LEMMA RootsSettle ==
  ASSUME NEW c, SessionFormed(c)
  PROVE  /\ Settled(c).cwd = c.cwd /\ Settled(c).adapter = c.adapter
         /\ Settled(c).profile = c.profile /\ Settled(c).raw = c.raw
         /\ AllowedRoots(Settled(c).roots, c.cwd) = AllowedRoots(c.roots, c.cwd)
<1> DEFINE R == AllowedRoots(c.roots, c.cwd)
<1>1. /\ Settled(c).cwd = c.cwd /\ Settled(c).adapter = c.adapter
      /\ Settled(c).profile = c.profile /\ Settled(c).raw = c.raw
      /\ Settled(c).roots = {Absolute(r) : r \in R}
  BY DEF Settled, SessionFormed
<1>2. \A r \in R : NormalizePath(Absolute(r), c.cwd) = r
  BY RootsProper, ProperStays DEF NormalizePath, Absolute
<1>3. {NormalizePath(x, c.cwd) : x \in {Absolute(r) : r \in R}} = R
  <2> HIDE DEF R
  <2>. QED BY <1>2
<1>4. {c.cwd, Append(c.cwd, "outputs")} \subseteq R
  BY DEF AllowedRoots
<1>5. AllowedRoots({Absolute(r) : r \in R}, c.cwd) = R
  <2> HIDE DEF R
  <2>. QED BY <1>3, <1>4 DEF AllowedRoots
<1>. QED
  BY <1>1, <1>5

\* A path that was normalized is a path, and is its own normal form.
LEMMA PathSettles ==
  ASSUME NEW c, SessionFormed(c), NEW v, v.t = "str", TextFormed(v)
  PROVE  LET q == NormalizePathValue(v, c)
         IN /\ q = Absolute(q.parts) /\ q.parts = NormalizePath(v, c.cwd)
            /\ IsProperPath(q.parts)
            /\ NormalizePathValue(q, Settled(c)) = q
            /\ PathOk(v, c) => PathOk(q, Settled(c))
<1> DEFINE q == NormalizePathValue(v, c)
<1>1. q = Absolute(q.parts) /\ q.parts = NormalizePath(v, c.cwd)
  BY DEF NormalizePathValue, Absolute
<1>2. IsProperPath(q.parts)
  BY <1>1, PathProper DEF TextFormed, SessionFormed
<1> HIDE DEF q
<1>3. NormalizePath(q, c.cwd) = q.parts /\ q.t = "str"
  BY <1>1, <1>2, ProperStays DEF NormalizePath, Absolute
<1>4. NormalizePathValue(q, Settled(c)) = q
  BY <1>1, <1>3, RootsSettle DEF NormalizePathValue
<1>5. PathOk(v, c) => PathOk(q, Settled(c))
  BY <1>1, <1>3, RootsSettle DEF PathOk, Inside
<1>. QED
  BY <1>1, <1>2, <1>4, <1>5 DEF q

\* A path that is let through lies under a root.
LEMMA PathUnderRoot ==
  ASSUME NEW c, SessionFormed(c), NEW v, v.t = "str", TextFormed(v), PathOk(v, c)
  PROVE  \E root \in AllowedRoots(c.roots, c.cwd) : IsPrefix(root, NormalizePath(v, c.cwd))
<1> DEFINE path == NormalizePath(v, c.cwd)
<1>1. PICK root \in AllowedRoots(c.roots, c.cwd) : Within(path, root)
  BY DEF PathOk, Inside
<1>2. Len(root) \in Nat
  BY RootsProper, SequenceDomain DEF IsProperPath
<1> HIDE DEF path
<1>3. IsPrefix(root, path)
  BY <1>1, <1>2 DEF Within, IsStrictPrefix, IsPrefix
<1>. QED
  BY <1>3 DEF path

-----------------------------------------------------------------------------
(***************************************************************************)
(* The tables.                                                             *)
(***************************************************************************)
\* The parameters of the actions the policy treats in ways of their own.
LEMMA ParametersOf ==
  /\ \A a \in FileActions : Parameters[a] = [file_name |-> Needed("path")]
  /\ Parameters["export_results"] = [images |-> Needed("array")]
  /\ Parameters["initialize_solution"] = [method |-> Optional("string")]
  /\ Parameters["tui"] = RawCommands
  /\ Parameters["scheme"] = Over([mode |-> Optional("string"),
                                  suppress_prompts |-> Optional("boolean")], RawCommands)
<1> DEFINE F == [a \in FileActions |-> [file_name |-> Needed("path")]]
           P == [a \in PlainActions |-> <<>>]
<1>1. Parameters = Over(F, Over(P, OtherParameters))
  BY DEF Parameters
<1>2. ASSUME NEW a \in FileActions PROVE Parameters[a] = [file_name |-> Needed("path")]
  <2>1. a \in DOMAIN F /\ F[a] = [file_name |-> Needed("path")]
    OBVIOUS
  <2> HIDE DEF F, P
  <2>. QED
    BY <1>1, <2>1 DEF Over
<1>3. ASSUME NEW a \in DOMAIN OtherParameters, a \notin FileActions, a \notin PlainActions
      PROVE  Parameters[a] = OtherParameters[a]
  <2>1. a \notin DOMAIN F /\ a \notin DOMAIN P
    BY <1>3
  <2> HIDE DEF F, P
  <2>. QED
    BY <1>1, <1>3, <2>1 DEF Over
<1>4. /\ {"export_results", "initialize_solution", "tui", "scheme"}
           \subseteq DOMAIN OtherParameters
      /\ OtherParameters["export_results"] = [images |-> Needed("array")]
      /\ OtherParameters["initialize_solution"] = [method |-> Optional("string")]
      /\ OtherParameters["tui"] = RawCommands
      /\ OtherParameters["scheme"] = Over([mode |-> Optional("string"),
                                    suppress_prompts |-> Optional("boolean")], RawCommands)
  BY DEF OtherParameters
<1>. QED
  BY <1>2, <1>3, <1>4 DEF FileActions, PlainActions

\* An action that can be used has its parameters in the table; only an action on a
\* file has a path among them, and only the export has images.
LEMMA PathsOnlyInFiles ==
  ASSUME NEW s, NEW a, Entitled(a, s), a \notin FileActions
  PROVE  /\ \A n \in DOMAIN Parameters[a] : Parameters[a][n].kind # "path"
         /\ "file_name" \notin DOMAIN Parameters[a]
         /\ "images" \in DOMAIN Parameters[a] => a = "export_results"
<1> DEFINE F == [x \in FileActions |-> [file_name |-> Needed("path")]]
           P == [x \in PlainActions |-> <<>>]
<1>1. DOMAIN F = FileActions /\ DOMAIN P = PlainActions /\ \A x \in PlainActions : P[x] = <<>>
  OBVIOUS
<1>2. Parameters = Over(F, Over(P, OtherParameters))
  BY DEF Parameters
<1> HIDE DEF F, P
<1>3. DOMAIN Parameters = FileActions \cup PlainActions \cup DOMAIN OtherParameters
  BY <1>1, <1>2 DEF Over
<1>4. a \in DOMAIN Parameters
  <2>1. s.adapter \in {"workbench", "mechanical", "fluent"} /\ a \in Actions[s.adapter]
    BY DEF Entitled, Actions
  <2>2. {"version", "script", "python"} \subseteq DOMAIN Parameters
    BY <1>3 DEF PlainActions, OtherParameters
  <2>. QED
    BY <2>1, <2>2 DEF Actions
<1>5. CASE a \in PlainActions
  BY <1>1, <1>2, <1>5 DEF Over
<1>6. CASE a \notin PlainActions
  <2>1. a \in DOMAIN OtherParameters /\ Parameters[a] = OtherParameters[a]
    BY <1>1, <1>2, <1>3, <1>4, <1>6 DEF Over
  <2>2. \A x \in DOMAIN OtherParameters : \A n \in DOMAIN OtherParameters[x] :
          /\ OtherParameters[x][n].kind # "path"
          /\ n # "file_name"
          /\ n = "images" => x = "export_results"
    <3>1. \A n \in DOMAIN RawCommands :
            RawCommands[n].kind # "path" /\ n # "file_name" /\ n # "images"
      BY DEF RawCommands, Optional, Several
    <3>2. LET f == [mode |-> Optional("string"), suppress_prompts |-> Optional("boolean")]
          IN \A n \in DOMAIN Over(f, RawCommands) :
               Over(f, RawCommands)[n].kind # "path" /\ n # "file_name" /\ n # "images"
      BY <3>1 DEF Over, Optional
    <3>3. ASSUME NEW x \in DOMAIN OtherParameters \ {"tui", "scheme"}
          PROVE  \A n \in DOMAIN OtherParameters[x] :
                   /\ OtherParameters[x][n].kind # "path"
                   /\ n # "file_name"
                   /\ n = "images" => x = "export_results"
      <4> DEFINE o == OtherParameters
      <4>1. CASE x = "set_state"
        <5>1. o["set_state"] = [path |-> Optional("string"), state |-> Needed("any")]
          BY DEF OtherParameters
        <5>. QED
          BY <4>1, <5>1 DEF Needed, Optional
      <4>2. CASE x = "initialize_solution"
        <5>1. o["initialize_solution"] = [method |-> Optional("string")]
          BY DEF OtherParameters
        <5>. QED
          BY <4>2, <5>1 DEF Needed, Optional
      <4>3. CASE x = "run_iterations"
        <5>1. o["run_iterations"] = [count |-> Needed("integer")]
          BY DEF OtherParameters
        <5>. QED
          BY <4>3, <5>1 DEF Needed, Optional
      <4>4. CASE x = "run_time_steps"
        <5>1. o["run_time_steps"] = [step_count |-> Needed("integer"),
                                     max_iterations_per_step |-> Needed("integer"),
                                     time_step_size |-> Optional("number")]
          BY DEF OtherParameters
        <5>. QED
          BY <4>4, <5>1 DEF Needed, Optional
      <4>5. CASE x = "collect_reports"
        <5>1. o["collect_reports"] = [reports |-> Needed("array")]
          BY DEF OtherParameters
        <5>. QED
          BY <4>5, <5>1 DEF Needed, Optional
      <4>6. CASE x = "export_results"
        <5>1. o["export_results"] = [images |-> Needed("array")]
          BY DEF OtherParameters
        <5>. QED
          BY <4>6, <5>1 DEF Needed, Optional
      <4>7. CASE x = "command"
        <5>1. o["command"] = [path |-> Needed("string"), args |-> Optional("array"),
                kwargs |-> Optional("object")]
          BY DEF OtherParameters
        <5>. QED
          BY <4>7, <5>1 DEF Needed, Optional
      <4>8. CASE x = "describe"
        <5>1. o["describe"] = [path |-> Optional("string")]
          BY DEF OtherParameters
        <5>. QED
          BY <4>8, <5>1 DEF Needed, Optional
      <4>9. CASE x = "get_state"
        <5>1. o["get_state"] = [path |-> Optional("string"), with_units |-> Optional("boolean")]
          BY DEF OtherParameters
        <5>. QED
          BY <4>9, <5>1 DEF Needed, Optional
      <4>10. CASE x = "iterate"
        <5>1. o["iterate"] = [iter_count |-> Optional("integer"), count |-> Optional("integer"),
                number_of_iterations |-> Optional("integer")]
          BY DEF OtherParameters
        <5>. QED
          BY <4>10, <5>1 DEF Needed, Optional
      <4>11. CASE x = "python"
        <5>1. o["python"] = [script |-> Needed("string")]
          BY DEF OtherParameters
        <5>. QED
          BY <4>11, <5>1 DEF Needed, Optional
      <4>12. CASE x = "script"
        <5>1. o["script"] = [script |-> Needed("string"), args |-> Optional("any"),
                log_level |-> Optional("string")]
          BY DEF OtherParameters
        <5>. QED
          BY <4>12, <5>1 DEF Needed, Optional
      <4>13. x \in {"set_state", "initialize_solution", "run_iterations", "run_time_steps",
                      "collect_reports", "export_results", "command", "describe",
                      "get_state", "iterate", "python", "script"}
        BY DEF OtherParameters
      <4>. QED
        BY <4>1, <4>2, <4>3, <4>4, <4>5, <4>6, <4>7, <4>8, <4>9, <4>10, <4>11, <4>12, <4>13
    <3>4. /\ OtherParameters["tui"] = RawCommands
          /\ OtherParameters["scheme"] = Over([mode |-> Optional("string"),
                                        suppress_prompts |-> Optional("boolean")], RawCommands)
      BY DEF OtherParameters
    <3>. QED
      BY <3>1, <3>2, <3>3, <3>4
  <2>. QED
    BY <2>1, <2>2
<1>. QED
  BY <1>5, <1>6

-----------------------------------------------------------------------------
(***************************************************************************)
(* What is accepted is accepted again, and stays as it is.                 *)
(***************************************************************************)
\* The parameters of a call.
ParamsFormed(p) == p = [n \in DOMAIN p |-> p[n]] /\ \A n \in DOMAIN p : Formed(p[n])

\* What accepting comes to.
LEMMA Accepting ==
  ASSUME NEW a, NEW p, NEW s, NEW q
  PROVE  PrepareAction(a, p, s) = Accepted(q) <=>
           /\ Entitled(a, s) /\ FieldsOk(a, p, s)
           /\ Demands(a, FieldValues(a, p, s), s)
           /\ q = Rewritten(a, FieldValues(a, p, s), s)
<1>1. \A x, y : Accepted(x) = Accepted(y) <=> x = y
  BY DEF Accepted
<1>2. \A x : Accepted(x) # Refused
  <2>1. \A x : Accepted(x).ok /\ ~Refused.ok
    BY DEF Accepted, Refused
  <2>. QED
    BY <2>1
<1>. QED
  BY <1>1, <1>2 DEF PrepareAction

\* The session says of the user's rights what its configuration says.
LEMMA EntitledAgain ==
  ASSUME NEW c, SessionFormed(c), NEW a
  PROVE  Entitled(a, Settled(c)) <=> Entitled(a, c)
BY RootsSettle DEF Entitled

\* Without paths the context makes no difference to the parameters.
LEMMA FieldsAnywhere ==
  ASSUME NEW a, \A n \in DOMAIN Parameters[a] : Parameters[a][n].kind # "path",
         NEW p, p = [n \in DOMAIN p |-> p[n]], NEW s, NEW t
  PROVE  /\ FieldsOk(a, p, s) => FieldsOk(a, p, t)
         /\ FieldsOk(a, p, s) => FieldValues(a, p, s) = p
<1>1. \A n \in DOMAIN Parameters[a] : \A v :
        FieldOk(Parameters[a][n], v, s) = FieldOk(Parameters[a][n], v, t)
  BY DEF FieldOk
<1>2. \A n \in DOMAIN Parameters[a] : \A v : FieldValue(Parameters[a][n], v, s) = v
  BY DEF FieldValue
<1>. QED
  BY <1>1, <1>2 DEF FieldsOk, FieldValues

\* The parameters of an action on a file.
LEMMA FileAgain ==
  ASSUME NEW c, SessionFormed(c), NEW a \in FileActions, NEW p, ParamsFormed(p),
         NEW q, PrepareAction(a, p, c) = Accepted(q)
  PROVE  /\ PrepareAction(a, q, Settled(c)) = Accepted(q)
         /\ DOMAIN q = {"file_name"}
         /\ q.file_name = NormalizePathValue(p.file_name, c)
         /\ p.file_name.t = "str" /\ TextFormed(p.file_name) /\ PathOk(p.file_name, c)
<1>1. Parameters[a] = [file_name |-> Needed("path")]
  BY ParametersOf
<1>2. /\ Entitled(a, c) /\ FieldsOk(a, p, c) /\ q = Rewritten(a, FieldValues(a, p, c), c)
  BY Accepting
<1>3. DOMAIN p = {"file_name"} /\ FieldOk(Needed("path"), p.file_name, c)
  <2>1. /\ DOMAIN Parameters[a] = {"file_name"} /\ Parameters[a]["file_name"] = Needed("path")
        /\ Needed("path").required
    BY <1>1 DEF Needed
  <2>. QED
    BY <1>2, <2>1 DEF FieldsOk
<1>4. p.file_name.t = "str" /\ TextFormed(p.file_name) /\ PathOk(p.file_name, c)
  BY <1>3 DEF FieldOk, Needed, PathOk, ParamsFormed, Formed
<1>5. \A v, s : FieldValues(a, v, s) = [n \in DOMAIN v |-> FieldValue(Parameters[a][n], v[n], s)]
  BY DEF FieldValues
<1>6. \A v, s : Rewritten(a, v, s) = v
  BY DEF Rewritten, FileActions
<1>7. q = [file_name |-> NormalizePathValue(p.file_name, c)]
  BY <1>1, <1>2, <1>3, <1>5, <1>6 DEF FieldValue, Needed
<1> DEFINE f == NormalizePathValue(p.file_name, c)
<1>8. f = Absolute(f.parts) /\ NormalizePathValue(f, Settled(c)) = f /\ PathOk(f, Settled(c))
  BY <1>4, PathSettles
<1> HIDE DEF f
<1>9. q = [file_name |-> f]
  BY <1>7 DEF f
<1>10. FieldsOk(a, q, Settled(c))
  BY <1>1, <1>8, <1>9 DEF FieldsOk, FieldOk, Needed, Types, PathOk
<1>11. FieldValues(a, q, Settled(c)) = q
  BY <1>1, <1>5, <1>8, <1>9 DEF FieldValue, Needed
<1>12. Demands(a, q, Settled(c))
  <2>1. f.t = "str" /\ f.abs
    BY <1>8 DEF Absolute
  <2>. QED
    BY <1>9, <2>1 DEF Demands, FileActions, IsName, Blank
<1>13. PrepareAction(a, q, Settled(c)) = Accepted(q)
  BY <1>2, <1>6, <1>10, <1>11, <1>12, Accepting, EntitledAgain
<1>. QED
  BY <1>4, <1>9, <1>13 DEF f

\* An action whose parameters stay as they are.
LEMMA PlainAgain ==
  ASSUME NEW c, SessionFormed(c), NEW a, a \notin FileActions, a # "export_results",
         NEW p, ParamsFormed(p), Rewritten(a, p, c) = p,
         NEW q, PrepareAction(a, p, c) = Accepted(q)
  PROVE  PrepareAction(a, q, Settled(c)) = Accepted(q) /\ q = p
<1>1. /\ Entitled(a, c) /\ FieldsOk(a, p, c) /\ Demands(a, FieldValues(a, p, c), c)
      /\ q = Rewritten(a, FieldValues(a, p, c), c)
  BY Accepting
<1>2. /\ FieldValues(a, p, c) = p /\ FieldsOk(a, p, Settled(c))
           /\ FieldValues(a, p, Settled(c)) = p
  BY <1>1, PathsOnlyInFiles, FieldsAnywhere DEF ParamsFormed
<1>3. Demands(a, p, Settled(c))
  BY <1>1, <1>2 DEF Demands
<1>4. Rewritten(a, p, Settled(c)) = p
  BY DEF Rewritten
<1>5. q = p
  BY <1>1, <1>2
<1>. QED
  BY <1>1, <1>2, <1>3, <1>4, <1>5, Accepting, EntitledAgain

\* The method of an initialization is spelled out once.
LEMMA MethodAgain ==
  ASSUME NEW c, SessionFormed(c), NEW p, ParamsFormed(p),
         NEW q, PrepareAction("initialize_solution", p, c) = Accepted(q)
  PROVE  PrepareAction("initialize_solution", q, Settled(c)) = Accepted(q)
           /\ DOMAIN q = {"method"}
<1> DEFINE a == "initialize_solution"
           m == Field(p, "method", Word("hybrid"))
<1>1. /\ Entitled(a, c) /\ FieldsOk(a, p, c) /\ Demands(a, FieldValues(a, p, c), c)
      /\ q = Rewritten(a, FieldValues(a, p, c), c)
  BY Accepting
<1>2. a \notin FileActions
  BY DEF FileActions
<1>3. FieldValues(a, p, c) = p
  BY <1>1, <1>2, PathsOnlyInFiles, FieldsAnywhere DEF ParamsFormed
<1>4. q = [method |-> m]
  BY <1>1, <1>3 DEF Rewritten
<1>5. m \in {Word("hybrid"), Word("standard")}
  BY <1>1, <1>3 DEF Demands
<1>6. m.t = "str"
  BY <1>5 DEF Word, Text
<1> HIDE DEF m
<1>7. DOMAIN q = {"method"} /\ q.method = m /\ q = [n \in DOMAIN q |-> q[n]]
  BY <1>4
<1>8. FieldsOk(a, q, Settled(c))
  <2>1. /\ DOMAIN Parameters[a] = {"method"}
        /\ Parameters[a]["method"] = Optional("string")
    BY ParametersOf DEF Optional
  <2>2. FieldOk(Optional("string"), m, Settled(c))
    BY <1>6 DEF FieldOk, Optional, Types
  <2>. QED
    BY <1>7, <2>1, <2>2 DEF FieldsOk
<1>9. FieldValues(a, q, Settled(c)) = q
  BY <1>1, <1>2, <1>7, <1>8, PathsOnlyInFiles, FieldsAnywhere
<1>10. Field(q, "method", Word("hybrid")) = m
  BY <1>7 DEF Field
<1>11. Demands(a, q, Settled(c))
  BY <1>5, <1>10 DEF Demands
<1>12. Rewritten(a, q, Settled(c)) = q
  BY <1>4, <1>10 DEF Rewritten
<1>. QED
  BY <1>1, <1>7, <1>8, <1>9, <1>11, <1>12, Accepting, EntitledAgain

\* A single command becomes a list of one, once.
LEMMA CommandsAgain ==
  ASSUME NEW c, SessionFormed(c), NEW a \in {"tui", "scheme"}, NEW p, ParamsFormed(p),
         a = "scheme" => Field(p, "mode", None) = Word("exec"),
         NEW q, PrepareAction(a, p, c) = Accepted(q)
  PROVE  /\ PrepareAction(a, q, Settled(c)) = Accepted(q)
         /\ "file_name" \notin DOMAIN q /\ "images" \notin DOMAIN q
<1>1. /\ Entitled(a, c) /\ FieldsOk(a, p, c) /\ Demands(a, FieldValues(a, p, c), c)
      /\ q = Rewritten(a, FieldValues(a, p, c), c)
  BY Accepting
<1>2. a \notin FileActions
  BY DEF FileActions
<1>3. FieldValues(a, p, c) = p
  BY <1>1, <1>2, PathsOnlyInFiles, FieldsAnywhere DEF ParamsFormed
<1>4. q = CommandList(p)
  BY <1>1, <1>3 DEF Rewritten
<1>5. a = "scheme" => "mode" \in DOMAIN p /\ p.mode = Word("exec")
  BY DEF Field, None, Word, Text
<1>6. CommandsOk(p)
  <2>1. a = "scheme" => Field(p, "mode", Word("eval")) = Word("exec")
    BY <1>5 DEF Field
  <2>. QED
    BY <1>1, <1>3, <2>1 DEF Demands
<1> DEFINE R == Parameters[a]
<1>7. /\ {"command", "commands"} \subseteq DOMAIN R
      /\ R["command"] = Optional("string") /\ R["commands"] = Several("string")
      /\ \A n \in DOMAIN R : ~R[n].required
      /\ "file_name" \notin DOMAIN R /\ "images" \notin DOMAIN R
  <2>1. CASE a = "tui"
    <3>1. R = RawCommands
      BY <2>1, ParametersOf
    <3>. QED
      BY <3>1 DEF RawCommands, Optional, Several
  <2>2. CASE a = "scheme"
    <3> DEFINE f == [mode |-> Optional("string"), suppress_prompts |-> Optional("boolean")]
    <3>1. R = Over(f, RawCommands)
      BY <2>2, ParametersOf
    <3>2. /\ DOMAIN f = {"mode", "suppress_prompts"}
          /\ ~f["mode"].required /\ ~f["suppress_prompts"].required
      BY DEF Optional
    <3>3. /\ DOMAIN RawCommands = {"command", "commands", "wait", "silent"}
          /\ RawCommands["command"] = Optional("string")
          /\ RawCommands["commands"] = Several("string")
          /\ \A n \in DOMAIN RawCommands : ~RawCommands[n].required
      BY DEF RawCommands, Optional, Several
    <3> HIDE DEF f
    <3>. QED
      BY <3>1, <3>2, <3>3 DEF Over
  <2>. QED
    BY <2>1, <2>2
<1> HIDE DEF R
<1>8. DOMAIN p \subseteq DOMAIN R /\ \A n \in DOMAIN p : FieldOk(R[n], p[n], c)
  BY <1>1 DEF FieldsOk, R
<1>9. /\ DOMAIN q \subseteq DOMAIN R /\ q = [n \in DOMAIN q |-> q[n]]
      /\ "commands" \in DOMAIN q
      /\ \A n \in DOMAIN q \ {"commands"} : n \in DOMAIN p /\ q[n] = p[n]
      /\ FieldOk(R["commands"], q["commands"], c)
      /\ IsNonEmptyList(q["commands"])
  <2>1. CASE "commands" \in DOMAIN p
    <3>1. q = p
      BY <1>4, <2>1 DEF CommandList
    <3>2. IsNonEmptyList(p["commands"])
      BY <1>6, <2>1 DEF CommandsOk, Field
    <3>. QED
      BY <1>7, <1>8, <2>1, <3>1, <3>2 DEF ParamsFormed
  <2>2. CASE "commands" \notin DOMAIN p
    <3>1. "command" \in DOMAIN p /\ p["command"].t = "str"
      BY <1>6, <2>2 DEF CommandsOk, Field, None, IsNonEmptyList
    <3> DEFINE list == List(<<p["command"]>>)
    <3>2. q = [n \in (DOMAIN p \ {"command"}) \cup {"commands"} |->
                 IF n = "commands" THEN list ELSE p[n]]
      BY <1>4, <2>2 DEF CommandList
    <3>3. list.t = "list" /\ list.items = <<p["command"]>> /\ <<p["command"]>> # <<>>
      BY DEF List
    <3>4. FieldOk(Several("string"), list, c) /\ IsNonEmptyList(list)
      BY <3>1, <3>3 DEF FieldOk, Several, Types, IsNonEmptyList
    <3> HIDE DEF list
    <3>. QED
      BY <1>7, <1>8, <2>2, <3>2, <3>4
  <2>. QED
    BY <2>1, <2>2
<1>10. FieldsOk(a, q, c)
  BY <1>7, <1>8, <1>9 DEF FieldsOk, R
<1>11. FieldsOk(a, q, Settled(c)) /\ FieldValues(a, q, Settled(c)) = q
  BY <1>1, <1>2, <1>9, <1>10, PathsOnlyInFiles, FieldsAnywhere
<1>12. CommandsOk(q) /\ CommandList(q) = q
  BY <1>9 DEF CommandsOk, CommandList, Field
<1>13. a = "scheme" => "mode" \in DOMAIN q /\ q.mode = Word("exec")
  <2>1. a = "scheme" => q = [n \in (DOMAIN p \ {"command"}) \cup {"commands"} |-> q[n]] \/ q = p
    BY <1>4 DEF CommandList
  <2>2. ASSUME a = "scheme" PROVE "mode" \in DOMAIN q
    BY <1>5, <2>1, <2>2
  <2>. QED
    BY <1>5, <1>9, <2>2
<1>14. Demands(a, q, Settled(c)) /\ Rewritten(a, q, Settled(c)) = q
  BY <1>12, <1>13 DEF Demands, Rewritten, Field
<1>. QED
  BY <1>1, <1>7, <1>9, <1>11, <1>14, Accepting, EntitledAgain

-----------------------------------------------------------------------------
(***************************************************************************)
(* The images of an export.                                                *)
(***************************************************************************)
\* An image as the validator leaves it.
Kept(fields, s) == [WithDefaults(fields) EXCEPT !.file_name = NormalizePathValue(@, s)]

\* The defaults add what is missing, once.
LEMMA DefaultsOnce ==
  ASSUME NEW f
  PROVE  LET w == WithDefaults(f)
         IN /\ w = [n \in DOMAIN w |-> w[n]]
            /\ DOMAIN w = DOMAIN f \cup {"kind", "picture_state"}
            /\ \A n \in DOMAIN f \ {"contour"} : w[n] = f[n]
            /\ w.kind = Field(f, "kind", Word("picture"))
            /\ w.picture_state = Field(f, "picture_state", Dict(<<>>))
            /\ "contour" \in DOMAIN f =>
                 w.contour = Dict([object_name |-> ObjectName(f.contour, f.name),
                                   state |-> Field(f.contour.fields, "state", Dict(<<>>))])
<1> DEFINE d == [kind |-> Word("picture"), picture_state |-> Dict(<<>>)]
           whole == Over(f, d)
<1>1. /\ DOMAIN d = {"kind", "picture_state"}
      /\ d.kind = Word("picture") /\ d.picture_state = Dict(<<>>)
  OBVIOUS
<1> HIDE DEF d
<1>2. /\ whole = [n \in DOMAIN whole |-> whole[n]]
      /\ DOMAIN whole = DOMAIN f \cup {"kind", "picture_state"}
      /\ \A n \in DOMAIN f : whole[n] = f[n]
      /\ whole.kind = Field(f, "kind", Word("picture"))
      /\ whole.picture_state = Field(f, "picture_state", Dict(<<>>))
  BY <1>1 DEF Over, Field
<1>3. WithDefaults(f) =
        IF "contour" \notin DOMAIN whole THEN whole
        ELSE [whole EXCEPT !.contour =
                Dict([object_name |-> ObjectName(@, f.name),
                      state |-> Field(@.fields, "state", Dict(<<>>))])]
  BY DEF WithDefaults, d
<1> HIDE DEF whole
<1>4. CASE "contour" \notin DOMAIN f
  <2>1. WithDefaults(f) = whole
    BY <1>2, <1>3, <1>4
  <2>. QED
    BY <1>2, <1>4, <2>1
<1>5. CASE "contour" \in DOMAIN f
  <2> DEFINE c == Dict([object_name |-> ObjectName(f.contour, f.name),
                        state |-> Field(f.contour.fields, "state", Dict(<<>>))])
  <2>1. WithDefaults(f) = [whole EXCEPT !.contour = c]
    BY <1>2, <1>3, <1>5
  <2> HIDE DEF c
  <2>2. LET w == [whole EXCEPT !.contour = c]
        IN /\ w = [n \in DOMAIN w |-> w[n]]
           /\ DOMAIN w = DOMAIN whole
           /\ w.contour = c
           /\ \A n \in DOMAIN whole \ {"contour"} : w[n] = whole[n]
    BY <1>2, <1>5
  <2>. QED
    BY <1>2, <1>5, <2>1, <2>2 DEF c
<1>. QED
  BY <1>4, <1>5

\* An image that is all right is all right, and the same, when it comes again.
LEMMA ImageAgain ==
  ASSUME NEW c, SessionFormed(c), NEW image, ImageOk(image, c),
         \A n \in DOMAIN image.fields : TextFormed(image.fields[n])
  PROVE  LET k == Kept(image.fields, c)
             file == image.fields.file_name
         IN /\ ImageOk(Dict(k), Settled(c))
            /\ Kept(k, Settled(c)) = k
            /\ k.file_name = NormalizePathValue(file, c)
            /\ file.t = "str" /\ TextFormed(file) /\ PathOk(file, c)
<1> DEFINE f == image.fields
           w == WithDefaults(f)
           k == Kept(f, c)
           path == NormalizePathValue(f.file_name, c)
<1>1. /\ "name" \in DOMAIN f /\ "file_name" \in DOMAIN f
      /\ IsName(f.name) /\ IsName(f.file_name) /\ PathOk(f.file_name, c)
      /\ Field(f, "kind", Word("picture")) \in {Word("picture"), Word("contour")}
      /\ Field(f, "picture_state", Dict(<<>>)).t = "dict"
      /\ "contour" \in DOMAIN f => ContourOk(f.contour, f.name)
  BY DEF ImageOk, Field, None, IsName
<1>2. f.file_name.t = "str" /\ TextFormed(f.file_name)
  BY <1>1 DEF IsName
<1>3. /\ path = Absolute(path.parts)
      /\ NormalizePathValue(path, Settled(c)) = path
      /\ PathOk(path, Settled(c))
  BY <1>1, <1>2, PathSettles
<1>4. path.t = "str" /\ IsName(path)
  BY <1>3 DEF Absolute, IsName, Blank
<1> HIDE DEF path
<1>5. /\ w = [n \in DOMAIN w |-> w[n]]
      /\ DOMAIN w = DOMAIN f \cup {"kind", "picture_state"}
      /\ \A n \in DOMAIN f \ {"contour"} : w[n] = f[n]
      /\ w.kind = Field(f, "kind", Word("picture"))
      /\ w.picture_state = Field(f, "picture_state", Dict(<<>>))
      /\ "contour" \in DOMAIN f =>
           w.contour = Dict([object_name |-> ObjectName(f.contour, f.name),
                             state |-> Field(f.contour.fields, "state", Dict(<<>>))])
  BY DefaultsOnce
<1> HIDE DEF w
<1>6. /\ k = [n \in DOMAIN k |-> k[n]] /\ DOMAIN k = DOMAIN w
      /\ k.file_name = path
      /\ \A n \in DOMAIN w \ {"file_name"} : k[n] = w[n]
  BY <1>1, <1>5 DEF Kept, w, path
<1> HIDE DEF k
<1>7. /\ k.name = f.name /\ k.kind = w.kind /\ k.picture_state = w.picture_state
      /\ {"name", "file_name", "kind", "picture_state"} \subseteq DOMAIN k
      /\ "contour" \in DOMAIN k <=> "contour" \in DOMAIN f
      /\ "contour" \in DOMAIN f => k.contour = w.contour
  BY <1>1, <1>5, <1>6
<1>8. ASSUME "contour" \in DOMAIN f
      PROVE  /\ ContourOk(k.contour, k.name)
             /\ k.contour = Dict([object_name |-> ObjectName(k.contour, k.name),
                                  state |-> Field(k.contour.fields, "state", Dict(<<>>))])
  <2> DEFINE o == ObjectName(f.contour, f.name)
             s == Field(f.contour.fields, "state", Dict(<<>>))
  <2>1. IsName(o) /\ s.t = "dict"
    BY <1>1, <1>8 DEF ContourOk
  <2>2. k.contour = Dict([object_name |-> o, state |-> s])
    BY <1>5, <1>7, <1>8
  <2> HIDE DEF o, s
  <2>3. k.contour.t = "dict" /\ k.contour.fields = [object_name |-> o, state |-> s]
    BY <2>2 DEF Dict
  <2>4. ObjectName(k.contour, k.name) = o /\ Field(k.contour.fields, "state", Dict(<<>>)) = s
    BY <2>3 DEF ObjectName, Field
  <2>. QED
    BY <2>1, <2>2, <2>3, <2>4 DEF ContourOk
<1>9. ImageOk(Dict(k), Settled(c))
  <2>1. Dict(k).t = "dict" /\ Dict(k).fields = k
    BY DEF Dict
  <2>2. /\ Field(k, "name", None) = f.name /\ Field(k, "file_name", None) = path
        /\ Field(k, "kind", Word("picture")) = w.kind
        /\ Field(k, "picture_state", Dict(<<>>)) = w.picture_state
    BY <1>6, <1>7 DEF Field
  <2>. QED
    BY <1>1, <1>3, <1>4, <1>5, <1>7, <1>8, <2>1, <2>2 DEF ImageOk
<1>10. Kept(k, Settled(c)) = k
  <2> DEFINE v == WithDefaults(k)
  <2>1. /\ v = [n \in DOMAIN v |-> v[n]]
        /\ DOMAIN v = DOMAIN k \cup {"kind", "picture_state"}
        /\ \A n \in DOMAIN k \ {"contour"} : v[n] = k[n]
        /\ "contour" \in DOMAIN k =>
             v.contour = Dict([object_name |-> ObjectName(k.contour, k.name),
                               state |-> Field(k.contour.fields, "state", Dict(<<>>))])
    BY DefaultsOnce
  <2> HIDE DEF v
  <2>2. DOMAIN v = DOMAIN k /\ \A n \in DOMAIN k : v[n] = k[n]
    BY <1>7, <1>8, <2>1
  <2>3. v = k
    BY <1>6, <2>1, <2>2
  <2>4. [k EXCEPT !.file_name = NormalizePathValue(@, Settled(c))] = k
    BY <1>3, <1>6, <1>7
  <2>. QED
    BY <2>3, <2>4 DEF Kept, v
<1>. QED
  BY <1>1, <1>2, <1>6, <1>9, <1>10 DEF k, path

\* The images of an export, once they are let through.
LEMMA ImagesAgain ==
  ASSUME NEW c, SessionFormed(c), NEW p, ParamsFormed(p),
         NEW q, PrepareAction("export_results", p, c) = Accepted(q)
  PROVE  /\ PrepareAction("export_results", q, Settled(c)) = Accepted(q)
         /\ DOMAIN q = {"images"}
         /\ DOMAIN q.images.items = DOMAIN p.images.items
         /\ \A k \in DOMAIN q.images.items :
              LET file == p.images.items[k].fields.file_name
              IN /\ q.images.items[k].fields.file_name = NormalizePathValue(file, c)
                 /\ file.t = "str" /\ TextFormed(file) /\ PathOk(file, c)
<1> DEFINE a == "export_results"
<1>1. /\ Entitled(a, c) /\ FieldsOk(a, p, c) /\ Demands(a, FieldValues(a, p, c), c)
      /\ q = Rewritten(a, FieldValues(a, p, c), c)
  BY Accepting
<1>2. a \notin FileActions
  BY DEF FileActions
<1>3. FieldValues(a, p, c) = p
  BY <1>1, <1>2, PathsOnlyInFiles, FieldsAnywhere DEF ParamsFormed
<1>4. /\ DOMAIN Parameters[a] = {"images"} /\ Parameters[a]["images"] = Needed("array")
      /\ Parameters[a]["images"].required
  BY ParametersOf DEF Needed
<1>5. DOMAIN p = {"images"} /\ p.images.t = "list"
  <2>1. DOMAIN p = {"images"} /\ FieldOk(Needed("array"), p.images, c)
    BY <1>1, <1>4 DEF FieldsOk
  <2>. QED
    BY <2>1 DEF FieldOk, Needed, Types
<1> DEFINE items == p.images.items
           kept == [k \in DOMAIN items |-> Dict(Kept(items[k].fields, c))]
<1>6. /\ items # <<>> /\ IsSequence(items)
      /\ \A k \in DOMAIN items : ImageOk(items[k], c)
  BY <1>1, <1>3, <1>5 DEF Demands, IsNonEmptyList, ParamsFormed, Formed
<1>7. ASSUME NEW k \in DOMAIN items, NEW n \in DOMAIN items[k].fields
      PROVE  TextFormed(items[k].fields[n])
  BY <1>5, <1>6 DEF ParamsFormed, Formed, ImageOk
<1>8. q = [images |-> List(kept)]
  <2>1. q = [p EXCEPT !.images = ImagesInside(@, c)]
    BY <1>1, <1>3 DEF Rewritten
  <2>2. ImagesInside(p.images, c) = List(kept)
    BY DEF ImagesInside, Kept
  <2> HIDE DEF kept
  <2>. QED
    BY <1>5, <2>1, <2>2
<1> HIDE DEF items
<1>9. ASSUME NEW k \in DOMAIN items
      PROVE  LET x == Kept(items[k].fields, c)
                 file == items[k].fields.file_name
             IN /\ ImageOk(Dict(x), Settled(c))
                /\ Kept(x, Settled(c)) = x
                /\ x.file_name = NormalizePathValue(file, c)
                /\ file.t = "str" /\ TextFormed(file) /\ PathOk(file, c)
  BY <1>6, <1>7, ImageAgain
<1>10. /\ DOMAIN kept = DOMAIN items /\ kept = [k \in DOMAIN items |-> kept[k]]
       /\ \A k \in DOMAIN items : kept[k] = Dict(Kept(items[k].fields, c))
  OBVIOUS
<1> HIDE DEF kept
<1>11. kept # <<>>
  <2>1. Len(items) \in Nat /\ Len(items) # 0 /\ DOMAIN items = 1 .. Len(items)
    BY <1>6, SequenceDomain, NothingInIt
  <2>2. 1 \in DOMAIN kept
    BY <1>10, <2>1
  <2>. QED
    BY <2>2
<1>12. DOMAIN q = {"images"} /\ q.images.t = "list" /\ q.images.items = kept
       /\ q = [n \in DOMAIN q |-> q[n]]
  BY <1>8 DEF List
<1>13. FieldsOk(a, q, Settled(c))
  <2>1. FieldOk(Needed("array"), q.images, Settled(c))
    BY <1>12 DEF FieldOk, Needed, Types
  <2>. QED
    BY <1>4, <1>12, <2>1 DEF FieldsOk
<1>14. FieldValues(a, q, Settled(c)) = q
  BY <1>1, <1>2, <1>12, <1>13, PathsOnlyInFiles, FieldsAnywhere
<1>15. Demands(a, q, Settled(c))
  <2>1. \A k \in DOMAIN kept : ImageOk(kept[k], Settled(c))
    BY <1>9, <1>10
  <2>2. IsNonEmptyList(q.images)
    BY <1>11, <1>12 DEF IsNonEmptyList
  <2>. QED
    BY <1>12, <2>1, <2>2 DEF Demands
<1>16. Rewritten(a, q, Settled(c)) = q
  <2>1. ASSUME NEW k \in DOMAIN kept
        PROVE  Dict(Kept(kept[k].fields, Settled(c))) = kept[k]
    <3>1. kept[k].fields = Kept(items[k].fields, c)
      BY <1>10, <2>1 DEF Dict
    <3>. QED
      BY <1>9, <1>10, <2>1, <3>1
  <2>2. [k \in DOMAIN kept |-> Dict(Kept(kept[k].fields, Settled(c)))] = kept
    BY <1>10, <2>1
  <2>3. ImagesInside(q.images, Settled(c)) = List(kept)
    BY <1>12, <2>2 DEF ImagesInside, Kept
  <2>4. Rewritten(a, q, Settled(c)) = [q EXCEPT !.images = ImagesInside(@, Settled(c))]
    BY DEF Rewritten
  <2>. QED
    BY <1>8, <1>12, <2>3, <2>4
<1>17. PrepareAction(a, q, Settled(c)) = Accepted(q)
  BY <1>1, <1>13, <1>14, <1>15, <1>16, Accepting, EntitledAgain
<1>18. ASSUME NEW k \in DOMAIN kept
       PROVE  kept[k].fields.file_name = NormalizePathValue(items[k].fields.file_name, c)
  BY <1>9, <1>10, <1>18 DEF Dict
<1>. QED
  BY <1>9, <1>10, <1>12, <1>17, <1>18 DEF items

-----------------------------------------------------------------------------
\* The session's own check never overrules the first, nor changes what it let through.
THEOREM AcceptedAgain ==
  ASSUME NEW c, SessionFormed(c), NEW a, NEW p, ParamsFormed(p),
         NEW q, PrepareAction(a, p, c) = Accepted(q)
  PROVE  PrepareAction(a, q, Settled(c)) = Accepted(q)
<1>1. CASE a \in FileActions
  BY <1>1, FileAgain
<1>2. CASE a = "export_results"
  BY <1>2, ImagesAgain
<1>3. CASE a = "initialize_solution"
  BY <1>3, MethodAgain
<1>4. CASE a = "tui" \/ (a = "scheme" /\ Field(p, "mode", None) = Word("exec"))
  BY <1>4, CommandsAgain
<1>5. CASE /\ a \notin FileActions \cup {"export_results", "initialize_solution", "tui"}
           /\ ~(a = "scheme" /\ Field(p, "mode", None) = Word("exec"))
  <2>1. Rewritten(a, p, c) = p
    BY <1>5 DEF Rewritten
  <2>. QED
    BY <1>5, <2>1, PlainAgain
<1>. QED
  BY <1>1, <1>2, <1>3, <1>4, <1>5

\* A path the policy is content with: it lies under a root of the session.
UnderRoot(v, c) ==
  /\ v.t = "str" /\ DOMAIN v = {"t", "abs", "parts"}
  /\ IsProperPath(v.parts)
  /\ \E root \in AllowedRoots(c.roots, c.cwd) : IsPrefix(root, v.parts)

\* A path that is let through ends up under a root.
LEMMA LetThrough ==
  ASSUME NEW c, SessionFormed(c), NEW v, v.t = "str", TextFormed(v), PathOk(v, c)
  PROVE  UnderRoot(NormalizePathValue(v, c), c)
<1> DEFINE q == NormalizePathValue(v, c)
<1>1. q = Absolute(q.parts) /\ q.parts = NormalizePath(v, c.cwd) /\ IsProperPath(q.parts)
  BY PathSettles
<1> HIDE DEF q
<1>2. q.t = "str" /\ DOMAIN q = {"t", "abs", "parts"}
  BY <1>1 DEF Absolute
<1>. QED
  BY <1>1, <1>2, PathUnderRoot DEF UnderRoot, q

\* What is accepted keeps to the policy.
THEOREM AcceptedKeeps ==
  ASSUME NEW c, SessionFormed(c), NEW a, NEW p, ParamsFormed(p),
         NEW q, PrepareAction(a, p, c) = Accepted(q)
  PROVE  /\ a \in RawActions => c.profile = "expert" /\ c.raw
         /\ "file_name" \in DOMAIN q => UnderRoot(q.file_name, c)
         /\ "images" \in DOMAIN q =>
              \A k \in DOMAIN q.images.items : UnderRoot(q.images.items[k].fields.file_name, c)
<1>1. Entitled(a, c) /\ FieldsOk(a, p, c)
  BY Accepting
<1>2. a \in RawActions => c.profile = "expert" /\ c.raw
  BY <1>1 DEF Entitled, Profiles
<1>3. CASE a \in FileActions
  <2>1. /\ DOMAIN q = {"file_name"} /\ q.file_name = NormalizePathValue(p.file_name, c)
        /\ p.file_name.t = "str" /\ TextFormed(p.file_name) /\ PathOk(p.file_name, c)
    BY <1>3, FileAgain
  <2>. QED
    BY <1>2, <2>1, LetThrough
<1>4. CASE a = "export_results"
  <2>1. /\ DOMAIN q = {"images"}
        /\ \A k \in DOMAIN q.images.items :
              LET file == p.images.items[k].fields.file_name
              IN /\ q.images.items[k].fields.file_name = NormalizePathValue(file, c)
                 /\ file.t = "str" /\ TextFormed(file) /\ PathOk(file, c)
    BY <1>4, ImagesAgain
  <2>2. \A k \in DOMAIN q.images.items : UnderRoot(q.images.items[k].fields.file_name, c)
    BY <2>1, LetThrough
  <2>. QED
    BY <1>2, <2>1, <2>2
<1>5. CASE a \notin FileActions \cup {"export_results"}
  <2>1. "file_name" \notin DOMAIN q /\ "images" \notin DOMAIN q
    <3>1. CASE a = "initialize_solution"
      BY <3>1, MethodAgain
    <3>2. CASE a = "tui" \/ (a = "scheme" /\ Field(p, "mode", None) = Word("exec"))
      BY <3>2, CommandsAgain
    <3>3. CASE /\ a \notin {"initialize_solution", "tui"}
               /\ ~(a = "scheme" /\ Field(p, "mode", None) = Word("exec"))
      <4>1. Rewritten(a, p, c) = p
        BY <1>5, <3>3 DEF Rewritten
      <4>2. q = p
        BY <1>5, <4>1, PlainAgain
      <4>3. DOMAIN p \subseteq DOMAIN Parameters[a]
        BY <1>1 DEF FieldsOk
      <4>. QED
        BY <1>1, <1>5, <4>2, <4>3, PathsOnlyInFiles
    <3>. QED
      BY <3>1, <3>2, <3>3
  <2>. QED
    BY <1>2, <2>1
<1>. QED
  BY <1>3, <1>4, <1>5
=============================================================================
