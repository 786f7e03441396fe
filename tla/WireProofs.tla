----------------------------- MODULE WireProofs -----------------------------
(***************************************************************************)
(* Proofs about Wire, for any strings the application and the server come  *)
(* up with, any number of edits, any payloads and any limits.              *)
(*                                                                         *)
(* An op is a line of words and a body of counted bytes.  The lemmas say   *)
(* of each step of encode that the parsers undo it: a number is read back  *)
(* from its decimals, a line of words is split into them, a block of lines *)
(* into those, and a length cuts off what was measured.  The strings have  *)
(* any length, so most of it is induction: SetInduction, StrongInduction   *)
(* and SeqInduction state it for sets, and Recursion finds the functions   *)
(* that the recursive definitions ask for.                                 *)
(*                                                                         *)
(* The invariant, WireInv, says that the HeaderMap holds what the          *)
(* application asked for, and for every stage what op, wire and read have  *)
(* to do with each other.                                                  *)
(***************************************************************************)
EXTENDS Wire, SequenceTheorems, FiniteSetTheorems, WellFoundedInduction, TLAPS

\* Natural induction, over the set of the numbers that have a property.
LEMMA SetInduction ==
    ASSUME NEW S, 0 \in S, \A n \in Nat : n \in S => n + 1 \in S
    PROVE  Nat \subseteq S
<1>1. IsWellFoundedOn(OpToRel(<, Nat), Nat)
  BY NatLessThanWellFounded
<1> DEFINE R == OpToRel(<, Nat)
           T == Nat \ S
<1>2. \A y, x \in Nat : y < x => <<y, x>> \in R
  BY DEF OpToRel
<1> HIDE DEF R
<1>3. SUFFICES ASSUME T # {} PROVE FALSE
  OBVIOUS
<1>4. PICK x \in T : \A y \in T : <<y, x>> \notin R
  BY <1>1, <1>3, WFMin DEF R
<1>5. x # 0 /\ x - 1 \in Nat /\ x - 1 < x
  BY <1>4
<1>6. x - 1 \in S
  BY <1>2, <1>4, <1>5
<1> QED
  BY <1>4, <1>5, <1>6

(***************************************************************************)
(* FlattenSeq: what several sequences are one after the other.            *)
(***************************************************************************)
\* What FlattenSeq defines: the bytes of the first i pieces.
Joins(f, s) == f = [i \in 1..Len(s) |-> IF i = 1 THEN s[i] ELSE f[i - 1] \o s[i]]

\* What a further piece makes of it.
LEMMA JoinsExtend ==
    ASSUME NEW X, NEW s \in Seq(Seq(X)), NEW x \in Seq(X), NEW f, Joins(f, s)
    PROVE  Joins([i \in 1..Len(s) + 1 |->
                     IF i <= Len(s) THEN f[i] ELSE IF s = <<>> THEN x ELSE f[Len(s)] \o x],
                 Append(s, x))
<1> DEFINE N == Len(s)
           t == Append(s, x)
           last == IF s = <<>> THEN x ELSE f[Len(s)] \o x
           g == [i \in 1..N + 1 |-> IF i <= N THEN f[i] ELSE last]
<1>1. N \in Nat /\ Len(t) = N + 1 /\ (\A i \in 1..N : t[i] = s[i]) /\ t[N + 1] = x
  BY AppendProperties, LenProperties
<1>2. (s = <<>>) <=> (N = 0)
  BY EmptySeq
<1>3. \A i \in 1..N : f[i] = IF i = 1 THEN s[i] ELSE f[i - 1] \o s[i]
  BY DEF Joins
<1>4. last = IF N + 1 = 1 THEN x ELSE f[N] \o x
  BY <1>1, <1>2
<1> HIDE DEF N, t, last
<1>5. (\A i \in 1..N : g[i] = f[i]) /\ g[N + 1] = last
  BY <1>1
<1> HIDE DEF g
<1>6. ASSUME NEW i \in 1..N + 1 PROVE g[i] = IF i = 1 THEN t[i] ELSE g[i - 1] \o t[i]
  <2>1. CASE i \in 1..N
    <3>1. i = 1 \/ i - 1 \in 1..N
      BY <1>1, <2>1
    <3> QED
      BY <1>1, <1>3, <1>5, <2>1, <3>1
  <2>2. CASE i = N + 1
    <3>1. i # 1 => i - 1 = N /\ N \in 1..N
      BY <1>1, <2>2
    <3>2. i = 1 <=> N + 1 = 1
      BY <2>2
    <3> QED
      BY <1>1, <1>4, <1>5, <2>2, <3>1, <3>2
  <2> QED
    BY <1>1, <2>1, <2>2
<1>7. g = [i \in 1..N + 1 |-> g[i]]
  BY DEF g
<1>8. g = [i \in 1..N + 1 |-> IF i = 1 THEN t[i] ELSE g[i - 1] \o t[i]]
  BY <1>6, <1>7
<1>9. Joins(g, t)
  BY <1>1, <1>8 DEF Joins
<1> QED
  BY <1>9 DEF g, N, t, last

\* Such a function exists for any pieces.
LEMMA JoinsExist ==
    ASSUME NEW X PROVE \A s \in Seq(Seq(X)) : \E f : Joins(f, s)
<1> DEFINE S == {n \in Nat : \A s \in Seq(Seq(X)) : Len(s) = n => \E f : Joins(f, s)}
<1>1. 0 \in S
  <2>1. ASSUME NEW s \in Seq(Seq(X)), Len(s) = 0 PROVE \E f : Joins(f, s)
    <3> DEFINE f == [i \in 1..Len(s) |-> 0]
    <3>1. \A i \in 1..Len(s) : FALSE
      BY <2>1
    <3>2. f = [i \in 1..Len(s) |-> IF i = 1 THEN s[i] ELSE f[i - 1] \o s[i]]
      BY <3>1
    <3> QED
      BY <3>2 DEF Joins
  <2> QED
    BY <2>1
<1>2. ASSUME NEW n \in Nat, n \in S PROVE n + 1 \in S
  <2>1. ASSUME NEW s \in Seq(Seq(X)), Len(s) = n + 1 PROVE \E f : Joins(f, s)
    <3>1. s # <<>>
      BY <2>1
    <3>2. PICK r \in Seq(Seq(X)), x \in Seq(X) : s = Append(r, x)
      BY <3>1, SequenceEmptyOrAppend
    <3>3. Len(r) = n
      BY <2>1, <3>2, AppendProperties, LenProperties
    <3>4. PICK f : Joins(f, r)
      BY <1>2, <3>3
    <3> QED
      BY <3>2, <3>4, JoinsExtend
  <2> QED
    BY <2>1
<1> HIDE DEF S
<1>3. Nat \subseteq S
  BY <1>1, <1>2, SetInduction
<1>4. \A s \in Seq(Seq(X)) : Len(s) \in S
  BY <1>3, LenProperties
<1> QED
  BY <1>4 DEF S

\* There is one such function.
LEMMA JoinsUnique ==
    ASSUME NEW X, NEW s \in Seq(Seq(X)), NEW f, Joins(f, s), NEW g, Joins(g, s)
    PROVE  f = g
<1> DEFINE N == Len(s)
           S == {n \in Nat : n + 1 \in 1..N => f[n + 1] = g[n + 1]}
<1>1. N \in Nat
  BY LenProperties
<1>2. \A i \in 1..N : /\ f[i] = IF i = 1 THEN s[i] ELSE f[i - 1] \o s[i]
                      /\ g[i] = IF i = 1 THEN s[i] ELSE g[i - 1] \o s[i]
  BY DEF Joins
<1>3. f = [i \in 1..N |-> f[i]] /\ g = [i \in 1..N |-> g[i]]
  BY DEF Joins
<1> HIDE DEF N
<1>4. 0 \in S
  BY <1>2
<1>5. ASSUME NEW n \in Nat, n \in S PROVE n + 1 \in S
  <2>1. SUFFICES ASSUME n + 1 + 1 \in 1..N PROVE f[n + 1 + 1] = g[n + 1 + 1]
    OBVIOUS
  <2>2. n + 1 \in 1..N /\ n + 1 + 1 # 1 /\ n + 1 + 1 - 1 = n + 1
    BY <1>1, <2>1
  <2>3. f[n + 1] = g[n + 1]
    BY <1>5, <2>2
  <2> QED
    BY <1>2, <2>1, <2>2, <2>3
<1> HIDE DEF S
<1>6. Nat \subseteq S
  BY <1>4, <1>5, SetInduction
<1>7. ASSUME NEW i \in 1..N PROVE f[i] = g[i]
  <2>1. i - 1 \in S /\ i - 1 + 1 = i
    BY <1>1, <1>6
  <2> QED
    BY <1>7, <2>1 DEF S
<1> QED
  BY <1>3, <1>7

\* FlattenSeq takes the last value of that function.
LEMMA FlattenIs ==
    ASSUME NEW X, NEW s \in Seq(Seq(X)), s # <<>>, NEW f, Joins(f, s)
    PROVE  FlattenSeq(s) = f[Len(s)]
<1>1. Len(s) # 0
  BY EmptySeq
<1>2. FlattenSeq(s) = (CHOOSE g : Joins(g, s))[Len(s)]
  BY <1>1 DEF FlattenSeq, Joins
<1>3. Joins(CHOOSE g : Joins(g, s), s)
  OBVIOUS
<1>4. (CHOOSE g : Joins(g, s)) = f
  BY <1>3, JoinsUnique
<1> QED
  BY <1>2, <1>4

\* Nothing from no pieces.
LEMMA FlattenEmpty == FlattenSeq(<<>>) = <<>>
BY DEF FlattenSeq

\* One piece more.
LEMMA FlattenAppend ==
    ASSUME NEW X, NEW s \in Seq(Seq(X)), NEW x \in Seq(X)
    PROVE  /\ Append(s, x) \in Seq(Seq(X))
           /\ FlattenSeq(Append(s, x)) = IF s = <<>> THEN x ELSE FlattenSeq(s) \o x
<1>1. PICK f : Joins(f, s)
  BY JoinsExist
<1> DEFINE g == [i \in 1..Len(s) + 1 |->
                    IF i <= Len(s) THEN f[i] ELSE IF s = <<>> THEN x ELSE f[Len(s)] \o x]
<1>2. Joins(g, Append(s, x))
  BY <1>1, JoinsExtend
<1>3. Append(s, x) \in Seq(Seq(X)) /\ Append(s, x) # <<>> /\ Len(Append(s, x)) = Len(s) + 1
      /\ Len(s) \in Nat
  BY AppendProperties, LenProperties
<1>4. g[Len(s) + 1] = IF s = <<>> THEN x ELSE f[Len(s)] \o x
  BY <1>3
<1> HIDE DEF g
<1>5. FlattenSeq(Append(s, x)) = g[Len(s) + 1]
  BY <1>2, <1>3, FlattenIs
<1>6. s # <<>> => FlattenSeq(s) = f[Len(s)]
  BY <1>1, FlattenIs
<1> QED
  BY <1>3, <1>4, <1>5, <1>6

\* The bytes of the pieces are those of the first ones, and then of the others.
LEMMA FlattenType ==
    ASSUME NEW X PROVE \A s \in Seq(Seq(X)) : FlattenSeq(s) \in Seq(X)
<1> DEFINE S == {n \in Nat : \A s \in Seq(Seq(X)) : Len(s) = n => FlattenSeq(s) \in Seq(X)}
<1>1. 0 \in S
  <2>1. \A s \in Seq(Seq(X)) : Len(s) = 0 => s = <<>>
    BY EmptySeq
  <2>2. <<>> \in Seq(X)
    BY EmptySeq
  <2> QED
    BY <2>1, <2>2, FlattenEmpty
<1>2. ASSUME NEW n \in Nat, n \in S PROVE n + 1 \in S
  <2>1. ASSUME NEW s \in Seq(Seq(X)), Len(s) = n + 1 PROVE FlattenSeq(s) \in Seq(X)
    <3>1. s # <<>>
      BY <2>1
    <3>2. PICK r \in Seq(Seq(X)), x \in Seq(X) : s = Append(r, x)
      BY <3>1, SequenceEmptyOrAppend
    <3>3. Len(r) = n
      BY <2>1, <3>2, AppendProperties, LenProperties
    <3>4. FlattenSeq(r) \in Seq(X)
      BY <1>2, <3>3
    <3>5. FlattenSeq(r) \o x \in Seq(X)
      BY <3>4, ConcatProperties
    <3> QED
      BY <3>2, <3>5, FlattenAppend
  <2> QED
    BY <2>1
<1> HIDE DEF S
<1>3. Nat \subseteq S
  BY <1>1, <1>2, SetInduction
<1>4. \A s \in Seq(Seq(X)) : Len(s) \in S
  BY <1>3, LenProperties
<1> QED
  BY <1>4 DEF S

\* The bytes of the pieces are those of the first ones, and then of the others.
LEMMA FlattenConcat ==
    ASSUME NEW X, NEW s \in Seq(Seq(X))
    PROVE  \A t \in Seq(Seq(X)) : /\ s \o t \in Seq(Seq(X))
                             /\ FlattenSeq(s \o t) = FlattenSeq(s) \o FlattenSeq(t)
<1> DEFINE Joined(t) == FlattenSeq(s \o t) = FlattenSeq(s) \o FlattenSeq(t)
           S == {n \in Nat : \A t \in Seq(Seq(X)) : Len(t) = n => Joined(t)}
<1>1. FlattenSeq(s) \in Seq(X)
  BY FlattenType
<1>2. 0 \in S
  <2>1. \A t \in Seq(Seq(X)) : Len(t) = 0 => t = <<>>
    BY EmptySeq
  <2>2. s \o <<>> = s /\ FlattenSeq(s) \o <<>> = FlattenSeq(s)
    BY <1>1, ConcatEmptySeq
  <2> QED
    BY <2>1, <2>2, FlattenEmpty
<1>3. ASSUME NEW n \in Nat, n \in S PROVE n + 1 \in S
  <2>1. ASSUME NEW t \in Seq(Seq(X)), Len(t) = n + 1 PROVE Joined(t)
    <3>1. t # <<>>
      BY <2>1
    <3>2. PICK r \in Seq(Seq(X)), x \in Seq(X) : t = Append(r, x)
      BY <3>1, SequenceEmptyOrAppend
    <3>3. Len(r) = n
      BY <2>1, <3>2, AppendProperties, LenProperties
    <3>4. Joined(r)
      BY <1>3, <3>3
    <3>5. s \o r \in Seq(Seq(X)) /\ <<x>> \in Seq(Seq(X))
      BY ConcatProperties
    <3>6. s \o t = Append(s \o r, x)
      <4>1. t = r \o <<x>> /\ Append(s \o r, x) = (s \o r) \o <<x>>
        BY <3>2, <3>5, AppendIsConcat
      <4> QED
        BY <3>5, <4>1, ConcatAssociative
    <3>7. /\ FlattenSeq(t) = IF r = <<>> THEN x ELSE FlattenSeq(r) \o x
          /\ FlattenSeq(s \o t) = IF s \o r = <<>> THEN x ELSE FlattenSeq(s \o r) \o x
      BY <3>2, <3>5, <3>6, FlattenAppend
    <3>8. (s \o r = <<>>) <=> (s = <<>> /\ r = <<>>)
      BY ConcatEqualIffEmpty
    <3>9. FlattenSeq(r) \in Seq(X) /\ <<>> \in Seq(X) /\ <<>> \o x = x
      BY FlattenType, EmptySeq, ConcatEmptySeq
    <3>10. (FlattenSeq(s) \o FlattenSeq(r)) \o x = FlattenSeq(s) \o (FlattenSeq(r) \o x)
      BY <1>1, <3>9, ConcatAssociative
    <3>11. FlattenSeq(s \o r) = FlattenSeq(s) \o FlattenSeq(r)
      BY <3>4
    <3>12. CASE r = <<>>
      <4>1. s \o r = s /\ FlattenSeq(t) = x
        BY <3>7, <3>12, ConcatEmptySeq
      <4> QED
        BY <3>7, <3>8, <3>9, <3>12, <4>1, FlattenEmpty
    <3>13. CASE r # <<>>
      BY <3>7, <3>8, <3>10, <3>11, <3>13
    <3> QED
      BY <3>12, <3>13
  <2> QED
    BY <2>1
<1> HIDE DEF S
<1>4. Nat \subseteq S
  BY <1>2, <1>3, SetInduction
<1>5. ASSUME NEW t \in Seq(Seq(X)) PROVE Joined(t)
  <2>1. Len(t) \in S
    BY <1>4, LenProperties
  <2> QED
    BY <2>1 DEF S
<1>6. \A t \in Seq(Seq(X)) : s \o t \in Seq(Seq(X))
  BY ConcatProperties
<1> QED
  BY <1>5, <1>6

\* One piece gives itself.
LEMMA FlattenOne ==
    ASSUME NEW X, NEW x \in Seq(X)
    PROVE  <<x>> \in Seq(Seq(X)) /\ FlattenSeq(<<x>>) = x
<1>1. <<>> \in Seq(Seq(X)) /\ Append(<<>>, x) = <<x>>
  BY EmptySeq
<1> QED
  BY <1>1, FlattenAppend

(***************************************************************************)
(* Recursive functions.  D is what the function is about, and each step    *)
(* goes from an x outside B to next[x], which is smaller.                  *)
(***************************************************************************)
\* Induction from all smaller numbers.
LEMMA StrongInduction ==
    ASSUME NEW S, \A n \in Nat : (\A m \in 0..n - 1 : m \in S) => n \in S
    PROVE  Nat \subseteq S
<1>1. IsWellFoundedOn(OpToRel(<, Nat), Nat)
  BY NatLessThanWellFounded
<1> DEFINE R == OpToRel(<, Nat)
           T == Nat \ S
<1>2. \A y, x \in Nat : y < x => <<y, x>> \in R
  BY DEF OpToRel
<1> HIDE DEF R
<1>3. SUFFICES ASSUME T # {} PROVE FALSE
  OBVIOUS
<1>4. PICK x \in T : \A y \in T : <<y, x>> \notin R
  BY <1>1, <1>3, WFMin DEF R
<1>5. ASSUME NEW m \in 0..x - 1 PROVE m \in S
  <2>1. m \in Nat /\ m < x
    BY <1>4
  <2> QED
    BY <1>2, <1>4, <2>1
<1> QED
  BY <1>4, <1>5

\* Solves(f, n): f is the function as far as the size of its argument is below n.
SolvesAt(f, x, B, base, comb, next) ==
    f[x] = IF x \in B THEN base[x] ELSE comb[<<x, f[next[x]]>>]

\* A definition that recurs on something smaller has a function that satisfies it.
LEMMA Recursion ==
    ASSUME NEW D, NEW V, NEW B, NEW size \in [D -> Nat], NEW next \in [D -> D],
           NEW base \in [D -> V], NEW comb \in [D \X V -> V],
           \A x \in D : x \notin B => size[next[x]] < size[x]
    PROVE  \E f \in [D -> V] : \A x \in D : SolvesAt(f, x, B, base, comb, next)
<1> DEFINE At(f, x) == SolvesAt(f, x, B, base, comb, next)
           Upto(f, n) == f \in [D -> V] /\ \A x \in D : size[x] < n => At(f, x)
           S == {n \in Nat : \E f : Upto(f, n)}
           Step(f, x) == IF x \in B THEN base[x] ELSE comb[<<x, f[next[x]]>>]
<1>1. 0 \in S
  <2>1. Upto(base, 0)
    OBVIOUS
  <2> QED
    BY <2>1
<1>2. ASSUME NEW n \in Nat, n \in S PROVE n + 1 \in S
  <2>1. PICK f : Upto(f, n)
    BY <1>2
  <2> DEFINE g == [x \in D |-> IF size[x] < n THEN f[x] ELSE Step(f, x)]
  <2>2. \A x \in D : Step(f, x) \in V
    BY <2>1
  <2>3. g \in [D -> V]
    BY <2>1, <2>2
  <2>4. \A x \in D : size[x] < n + 1 => g[x] = Step(f, x)
    BY <2>1 DEF SolvesAt
  <2>5. ASSUME NEW x \in D, size[x] < n + 1 PROVE At(g, x)
    <3>1. x \notin B => next[x] \in D /\ size[next[x]] \in Nat /\ size[x] \in Nat /\ size[next[x]] < n
      BY <2>5
    <3>2. x \notin B => g[next[x]] = f[next[x]]
      BY <3>1
    <3> HIDE DEF g
    <3> QED
      BY <2>4, <2>5, <3>2 DEF SolvesAt
  <2>6. Upto(g, n + 1)
    BY <2>3, <2>5
  <2> HIDE DEF g
  <2>7. \E h : Upto(h, n + 1)
    BY <2>6
  <2> QED
    BY <2>7
<1> HIDE DEF S
<1>3. Nat \subseteq S
  BY <1>1, <1>2, SetInduction
<1>4. \A n \in Nat : \E f : Upto(f, n)
  BY <1>3 DEF S
<1> DEFINE F(n) == CHOOSE f : Upto(f, n)
<1>5. \A n \in Nat : Upto(F(n), n)
  BY <1>4
<1> HIDE DEF F
<1> DEFINE A == {k \in Nat : \A x \in D : size[x] = k =>
                    \A m, n \in Nat : k < m /\ k < n => F(m)[x] = F(n)[x]}
<1>6. ASSUME NEW k \in Nat, \A j \in 0..k - 1 : j \in A PROVE k \in A
  <2>1. SUFFICES ASSUME NEW x \in D, size[x] = k, NEW m \in Nat, NEW n \in Nat, k < m, k < n
                 PROVE  F(m)[x] = F(n)[x]
    OBVIOUS
  <2>2. At(F(m), x) /\ At(F(n), x)
    BY <1>5, <2>1
  <2>3. CASE x \in B
    BY <2>2, <2>3 DEF SolvesAt
  <2>4. CASE x \notin B
    <3>1. next[x] \in D /\ size[next[x]] \in 0..k - 1
      BY <2>1, <2>4
    <3>2. size[next[x]] < m /\ size[next[x]] < n
      BY <2>1, <3>1
    <3>3. F(m)[next[x]] = F(n)[next[x]]
      BY <1>6, <3>1, <3>2
    <3> QED
      BY <2>2, <2>4, <3>3 DEF SolvesAt
  <2> QED
    BY <2>3, <2>4
<1> HIDE DEF A
<1>7. Nat \subseteq A
  BY <1>6, StrongInduction
<1>8. \A x \in D, m, n \in Nat : size[x] < m /\ size[x] < n => F(m)[x] = F(n)[x]
  BY <1>7 DEF A
<1> DEFINE g == [x \in D |-> F(size[x] + 1)[x]]
<1>9. g \in [D -> V]
  BY <1>5
<1>10. ASSUME NEW x \in D PROVE At(g, x)
  <2>1. size[x] \in Nat /\ size[x] + 1 \in Nat /\ g[x] = F(size[x] + 1)[x]
    OBVIOUS
  <2>2. At(F(size[x] + 1), x)
    BY <1>5, <2>1
  <2>3. CASE x \in B
    BY <2>1, <2>2, <2>3 DEF SolvesAt
  <2>4. CASE x \notin B
    <3>1. next[x] \in D /\ size[next[x]] \in Nat /\ size[next[x]] < size[x]
      BY <2>4
    <3>2. g[next[x]] = F(size[next[x]] + 1)[next[x]]
      BY <3>1
    <3>3. g[next[x]] = F(size[x] + 1)[next[x]]
      BY <1>8, <2>1, <3>1, <3>2
    <3> QED
      BY <2>1, <2>2, <2>4, <3>3 DEF SolvesAt
  <2> QED
    BY <2>3, <2>4
<1> QED
  BY <1>9, <1>10

(***************************************************************************)
(* Numbers                                                                 *)
(***************************************************************************)
\* What is left of a number without its last digit.
LEMMA Division ==
    ASSUME NEW n \in Nat
    PROVE  /\ n % 10 \in 0..9 /\ n \div 10 \in Nat
           /\ n = 10 * (n \div 10) + (n % 10)
           /\ n >= 10 => n \div 10 < n
OBVIOUS

\* The ten digits are symbols, different from each other, and none separates.
LEMMA DigitsAre ==
    /\ \A d \in 0..9 : Digits[d + 1] \in Symbols /\ IsAsciiDigit(Digits[d + 1])
    /\ \A c, d \in 0..9 : Digits[c + 1] = Digits[d + 1] => c = d
    /\ \A d \in 0..9 : Digits[d + 1] \notin Separators
<1>1. \A d \in 0..9 : Digits[d + 1] \in Symbols
  BY DEF Symbols
<1>2. \A d \in 0..9 : IsAsciiDigit(Digits[d + 1])
  BY DEF IsAsciiDigit
<1>3. \A c, d \in 0..9 : Digits[c + 1] = Digits[d + 1] => c = d
  BY DEF Digits
<1>4. \A d \in 0..9 : Digits[d + 1] \notin Separators
  <2>1. \A d \in 0..9 : Digits[d + 1] \in {"0", "1", "2", "3", "4", "5", "6", "7", "8", "9"}
    BY DEF Digits
  <2>2. Separators = {" ", "tab", "crlf"}
    BY DEF Separators, Blanks, Crlf
  <2> QED
    BY <2>1, <2>2
<1> QED
  BY <1>1, <1>2, <1>3, <1>4

\* A digit has the value it stands for.
LEMMA DigitOfIs == \A d \in 0..9 : DigitOf(Digits[d + 1]) = d
BY DigitsAre DEF DigitOf

\* What the definition of Decimal says.
LEMMA DecimalIs ==
    \A n \in Nat :
      Decimal[n] = IF n < 10 THEN <<Digits[n + 1]>>
                   ELSE Append(Decimal[n \div 10], Digits[(n % 10) + 1])
<1> DEFINE D == Nat
           V == Strings
           B == 0..9
           size == [n \in Nat |-> n]
           next == [n \in Nat |-> n \div 10]
           base == [n \in Nat |-> IF n < 10 THEN <<Digits[n + 1]>> ELSE <<>>]
           comb == [p \in Nat \X V |-> Append(p[2], Digits[(p[1] % 10) + 1])]
           Fits(f) == f = [n \in Nat |-> IF n < 10 THEN <<Digits[n + 1]>>
                                    ELSE Append(f[n \div 10], Digits[(n % 10) + 1])]
<1>1. size \in [D -> Nat] /\ next \in [D -> D] /\ \A n \in D : n \notin B => size[next[n]] < size[n]
  BY Division
<1>2. base \in [D -> V]
  <2>1. <<>> \in Strings
    BY EmptySeq DEF Strings
  <2>2. \A n \in 0..9 : <<Digits[n + 1]>> \in Strings
    BY DigitsAre DEF Strings
  <2>3. \A n \in Nat : n < 10 => n \in 0..9
    OBVIOUS
  <2> QED
    BY <2>1, <2>2, <2>3
<1>3. comb \in [D \X V -> V]
  <2>1. \A n \in Nat, s \in Strings : Append(s, Digits[(n % 10) + 1]) \in Strings
    BY DigitsAre, Division, AppendProperties DEF Strings
  <2> QED
    BY <2>1
<1>4. PICK f \in [D -> V] : \A n \in D : SolvesAt(f, n, B, base, comb, next)
  <2> HIDE DEF D, V, B, size, next, base, comb
  <2> QED
    BY <1>1, <1>2, <1>3, Recursion
<1>5. \A n \in Nat : f[n] = IF n < 10 THEN <<Digits[n + 1]>>
                            ELSE Append(f[n \div 10], Digits[(n % 10) + 1])
  <2>1. ASSUME NEW n \in Nat, n < 10 PROVE f[n] = <<Digits[n + 1]>>
    <3>1. n \in B
      BY <2>1
    <3>2. base[n] = <<Digits[n + 1]>>
      BY <2>1
    <3>3. SolvesAt(f, n, B, base, comb, next)
      <4> HIDE DEF B, base, comb, next
      <4> QED
        BY <1>4, <2>1
    <3> HIDE DEF B, base, comb, next
    <3> QED
      BY <3>1, <3>2, <3>3 DEF SolvesAt
  <2>2. ASSUME NEW n \in Nat, ~(n < 10) PROVE f[n] = Append(f[n \div 10], Digits[(n % 10) + 1])
    <3>1. f[n] = comb[<<n, f[n \div 10]>>]
      <4>1. n \notin B
        BY <2>2
      <4>2. next[n] = n \div 10
        BY <2>2
      <4> HIDE DEF B, base, comb, next
      <4>3. SolvesAt(f, n, B, base, comb, next)
        BY <1>4, <2>2
      <4> QED
        BY <4>1, <4>2, <4>3 DEF SolvesAt
    <3>2. f[n \div 10] \in V
      BY <1>4, Division
    <3> QED
      BY <3>1, <3>2
  <2> QED
    BY <2>1, <2>2
<1>6. Fits(f)
  BY <1>4, <1>5
<1> HIDE DEF Fits
<1>7. Fits(CHOOSE g : Fits(g))
  BY <1>6
<1>8. Decimal = CHOOSE g : Fits(g)
  BY DEF Decimal, Fits
<1>9. Fits(Decimal)
  BY <1>7, <1>8
<1> QED
  BY <1>9 DEF Fits

\* Nothing but digits, and at least one.
IsNumeral(s) ==
    /\ s \in Strings /\ s # <<>>
    /\ \A i \in 1..Len(s) : IsAsciiDigit(s[i])

\* Every number is written with digits only.
LEMMA DecimalType == \A n \in Nat : IsNumeral(Decimal[n])
<1> DEFINE S == {n \in Nat : IsNumeral(Decimal[n])}
<1>1. ASSUME NEW n \in Nat, \A m \in 0..n - 1 : m \in S PROVE n \in S
  <2>1. CASE n < 10
    <3>1. Decimal[n] = <<Digits[n + 1]>>
      BY <1>1, <2>1, DecimalIs
    <3>0. n \in 0..9
      BY <1>1, <2>1
    <3>2. Digits[n + 1] \in Symbols /\ IsAsciiDigit(Digits[n + 1])
      BY <3>0, DigitsAre
    <3>3. \A x \in Symbols : <<x>> \in Strings /\ Len(<<x>>) = 1 /\ <<x>>[1] = x /\ <<x>> # <<>>
      BY DEF Strings
    <3>4. ASSUME NEW x \in Symbols, IsAsciiDigit(x) PROVE IsNumeral(<<x>>)
      BY <3>3, <3>4 DEF IsNumeral
    <3> QED
      BY <3>1, <3>2, <3>4
  <2>2. CASE ~(n < 10)
    <3>1. n \div 10 \in 0..n - 1 /\ n % 10 \in 0..9
      BY <2>2, Division
    <3>2. Decimal[n] = Append(Decimal[n \div 10], Digits[(n % 10) + 1])
      BY <1>1, <2>2, DecimalIs
    <3>3. IsNumeral(Decimal[n \div 10])
      BY <1>1, <3>1
    <3>4. Digits[(n % 10) + 1] \in Symbols /\ IsAsciiDigit(Digits[(n % 10) + 1])
      BY <3>1, DigitsAre
    <3>5. ASSUME NEW s, IsNumeral(s), NEW x \in Symbols, IsAsciiDigit(x) PROVE IsNumeral(Append(s, x))
      <4>1. s \in Seq(Symbols)
        BY <3>5 DEF IsNumeral, Strings
      <4>2. /\ Append(s, x) \in Seq(Symbols) /\ Append(s, x) # <<>>
            /\ Len(Append(s, x)) = Len(s) + 1 /\ Len(s) \in Nat
            /\ \A i \in 1..Len(s) : Append(s, x)[i] = s[i]
            /\ Append(s, x)[Len(s) + 1] = x
        BY <4>1, AppendProperties, LenProperties
      <4>3. \A i \in 1..Len(s) + 1 : i \in 1..Len(s) \/ i = Len(s) + 1
        BY <4>2
      <4> QED
        BY <3>5, <4>2, <4>3 DEF IsNumeral, Strings
    <3> QED
      BY <3>2, <3>3, <3>4, <3>5
  <2> QED
    BY <2>1, <2>2
<1> HIDE DEF S
<1>2. Nat \subseteq S
  BY <1>1, StrongInduction
<1> QED
  BY <1>2 DEF S

\* An outcome is either a value or an error.
LEMMA Outcomes ==
    /\ \A v : Accepts(Ok(v)) /\ Ok(v).val = v
    /\ \A e : e # NoErr => ~Accepts(Err(e))
BY DEF Accepts, Ok, Err

\* What a number may be read as.
Numbers == {Ok(n) : n \in Nat} \cup {Err("InvalidByte"), Err("Overflow")}

\* A digit more keeps to values and the two errors.
LEMMA NextDigitType ==
    ASSUME NEW acc \in Numbers, NEW b, NEW max \in Nat
    PROVE  NextDigit(acc, b, max) \in Numbers
<1>1. CASE Accepts(acc)
  <2>1. PICK n \in Nat : acc = Ok(n)
    <3>1. ~Accepts(Err("InvalidByte")) /\ ~Accepts(Err("Overflow"))
      BY Outcomes DEF NoErr
    <3> QED
      BY <1>1, <3>1 DEF Numbers
  <2>2. acc.val = n
    BY <2>1, Outcomes
  <2>3. IsAsciiDigit(b) => n * 10 + DigitOf(b) \in Nat
    <3>1. IsAsciiDigit(b) => DigitOf(b) \in 0..9
      BY DEF IsAsciiDigit, DigitOf
    <3> QED
      BY <3>1
  <2>4. IsAsciiDigit(b) => Ok(n * 10 + DigitOf(b)) \in Numbers
    BY <2>3 DEF Numbers
  <2>5. Err("InvalidByte") \in Numbers /\ Err("Overflow") \in Numbers
    BY DEF Numbers
  <2> QED
    BY <1>1, <2>2, <2>4, <2>5 DEF NextDigit
<1>2. CASE ~Accepts(acc)
  BY <1>2 DEF NextDigit
<1> QED
  BY <1>1, <1>2

\* The function ParseUint defines.
Reads(f, max) ==
    f = [s \in Strings |-> IF s = <<>> THEN Ok(0) ELSE NextDigit(f[Front(s)], Last(s), max)]

\* A sequence without its last element, and that element.
LEMMA FrontLast ==
    ASSUME NEW X, NEW s \in Seq(X), s # <<>>
    PROVE  /\ Front(s) \in Seq(X) /\ Last(s) \in X
           /\ Len(Front(s)) = Len(s) - 1 /\ Len(s) \in Nat \ {0}
           /\ \A i \in 1..Len(s) - 1 : Front(s)[i] = s[i]
<1>1. Len(s) \in Nat \ {0} /\ \A i \in 1..Len(s) : s[i] \in X
  BY EmptySeq, ElementOfSeq
<1>2. s[Len(s)] \in X
  BY <1>1
<1> DEFINE n == Len(s) - 1
<1>3. n \in Nat /\ (\A i \in 1..n : s[i] \in X) /\ n - 1 + 1 = n
  BY <1>1
<1> HIDE DEF n
<1>4. /\ SubSeq(s, 1, n) \in Seq(X)
      /\ Len(SubSeq(s, 1, n)) = IF 1 <= n THEN n - 1 + 1 ELSE 0
      /\ \A i \in 1..n - 1 + 1 : SubSeq(s, 1, n)[i] = s[1 + i - 1]
  BY <1>3, SubSeqProperties
<1> QED
  BY <1>1, <1>2, <1>3, <1>4 DEF Front, Last, n

\* Append is undone by Front and Last.
LEMMA FrontLastAppend ==
    ASSUME NEW X, NEW s \in Seq(X), NEW x \in X
    PROVE  Front(Append(s, x)) = s /\ Last(Append(s, x)) = x
<1> DEFINE t == Append(s, x)
<1>1. /\ t \in Seq(X) /\ t # <<>> /\ Len(t) = Len(s) + 1 /\ t[Len(s) + 1] = x
      /\ Len(s) \in Nat /\ \A i \in 1..Len(s) : t[i] = s[i]
  BY AppendProperties, LenProperties
<1> HIDE DEF t
<1>2. Front(t) \in Seq(X) /\ Len(Front(t)) = Len(s) /\ \A i \in 1..Len(s) : Front(t)[i] = s[i]
  BY <1>1, FrontLast
<1>3. Front(t) = s
  BY <1>2, SeqEqual
<1>4. Last(t) = x
  BY <1>1 DEF Last
<1> QED
  BY <1>3, <1>4 DEF t

\* ParseUint's function exists.
LEMMA ReadsExists == ASSUME NEW max \in Nat PROVE \E f : Reads(f, max)
<1> DEFINE D == Strings
           B == {<<>>}
           size == [s \in Strings |-> Len(s)]
           next == [s \in Strings |-> IF s = <<>> THEN <<>> ELSE Front(s)]
           base == [s \in Strings |-> Ok(0)]
           comb == [p \in Strings \X Numbers |-> NextDigit(p[2], Last(p[1]), max)]
<1>1. size \in [D -> Nat]
  BY LenProperties DEF Strings
<1>2. next \in [D -> D] /\ \A s \in D : s \notin B => size[next[s]] < size[s]
  <2>1. \A s \in Strings : s # <<>> => /\ Front(s) \in Strings /\ Len(Front(s)) < Len(s)
    BY FrontLast DEF Strings
  <2>2. <<>> \in Strings
    BY EmptySeq DEF Strings
  <2> QED
    BY <2>1, <2>2
<1>3. base \in [D -> Numbers]
  BY DEF Numbers
<1>4. comb \in [D \X Numbers -> Numbers]
  BY NextDigitType
<1>5. PICK f \in [D -> Numbers] : \A s \in D : SolvesAt(f, s, B, base, comb, next)
  <2> HIDE DEF D, B, size, next, base, comb
  <2> QED
    BY <1>1, <1>2, <1>3, <1>4, Recursion
<1>6. ASSUME NEW s \in Strings
      PROVE  f[s] = IF s = <<>> THEN Ok(0) ELSE NextDigit(f[Front(s)], Last(s), max)
  <2>1. SolvesAt(f, s, B, base, comb, next)
    <3> HIDE DEF B, size, next, base, comb
    <3> QED
      BY <1>5
  <2>2. s # <<>> => next[s] = Front(s) /\ Front(s) \in Strings
    BY FrontLast DEF Strings
  <2>3. s # <<>> => comb[<<s, f[Front(s)]>>] = NextDigit(f[Front(s)], Last(s), max)
    BY <1>5, <2>2
  <2>4. s # <<>> => f[s] = comb[<<s, f[Front(s)]>>]
    <3> HIDE DEF size, next, base, comb
    <3> QED
      BY <2>1, <2>2 DEF SolvesAt
  <2>5. s = <<>> => f[s] = Ok(0)
    <3> HIDE DEF size, next, comb
    <3> QED
      BY <2>1 DEF SolvesAt
  <2> QED
    BY <2>3, <2>4, <2>5
<1> QED
  BY <1>5, <1>6 DEF Reads

\* One symbol more.
LEMMA ParseAppend ==
    ASSUME NEW max \in Nat, NEW s \in Strings, NEW b \in Symbols
    PROVE  ParseUint(Append(s, b), max) =
             NextDigit(IF s = <<>> THEN Ok(0) ELSE ParseUint(s, max), b, max)
<1> DEFINE val == CHOOSE f : Reads(f, max)
<1>1. Reads(val, max)
  BY ReadsExists
<1>2. \A u : ParseUint(u, max) = IF u = <<>> THEN Err("Empty") ELSE val[u]
  BY DEF ParseUint, Reads
<1> HIDE DEF val
<1>3. Append(s, b) \in Strings /\ Append(s, b) # <<>>
      /\ Front(Append(s, b)) = s /\ Last(Append(s, b)) = b
  BY AppendProperties, FrontLastAppend DEF Strings
<1>4. val[Append(s, b)] = NextDigit(val[s], b, max)
  BY <1>1, <1>3 DEF Reads
<1>5. <<>> \in Strings
  BY EmptySeq DEF Strings
<1>6. val[<<>>] = Ok(0)
  BY <1>1, <1>5 DEF Reads
<1> QED
  BY <1>2, <1>3, <1>4, <1>6
\* What is written with Decimal is read back.
LEMMA ParseDecimal ==
    ASSUME NEW max \in Nat
    PROVE  \A n \in Nat : n <= max => ParseUint(Decimal[n], max) = Ok(n)
<1> DEFINE S == {n \in Nat : n <= max => ParseUint(Decimal[n], max) = Ok(n)}
<1>1. ASSUME NEW acc \in Nat, NEW d \in 0..9, acc * 10 + d <= max
      PROVE  NextDigit(Ok(acc), Digits[d + 1], max) = Ok(acc * 10 + d)
  <2>1. IsAsciiDigit(Digits[d + 1]) /\ DigitOf(Digits[d + 1]) = d
    BY DigitsAre, DigitOfIs
  <2>2. Accepts(Ok(acc)) /\ Ok(acc).val = acc
    BY Outcomes
  <2>3. ~(acc * 10 + d > max)
    BY <1>1
  <2> QED
    BY <2>1, <2>2, <2>3 DEF NextDigit
<1>2. ASSUME NEW n \in Nat, \A m \in 0..n - 1 : m \in S PROVE n \in S
  <2>1. SUFFICES ASSUME n <= max PROVE ParseUint(Decimal[n], max) = Ok(n)
    BY <1>2
  <2>2. CASE n < 10
    <3>1. n \in 0..9
      BY <1>2, <2>2
    <3>2. Decimal[n] = <<Digits[n + 1]>>
      BY <1>2, <2>2, DecimalIs
    <3>3. Digits[n + 1] \in Symbols
      BY <3>1, DigitsAre
    <3>4. <<>> \in Strings /\ Append(<<>>, Digits[n + 1]) = <<Digits[n + 1]>>
      BY EmptySeq DEF Strings
    <3>5. ParseUint(Decimal[n], max) = NextDigit(Ok(0), Digits[n + 1], max)
      BY <3>2, <3>3, <3>4, ParseAppend
    <3>6. NextDigit(Ok(0), Digits[n + 1], max) = Ok(0 * 10 + n)
      BY <1>1, <2>1, <3>1
    <3>7. 0 * 10 + n = n
      BY <1>2
    <3> QED
      BY <3>5, <3>6, <3>7
  <2>3. CASE ~(n < 10)
    <3>1. /\ n \div 10 \in 0..n - 1 /\ n % 10 \in 0..9 /\ (n \div 10) * 10 + (n % 10) = n
          /\ n \div 10 \in Nat /\ n \div 10 <= max
      BY <1>2, <2>1, <2>3, Division
    <3>2. Decimal[n] = Append(Decimal[n \div 10], Digits[(n % 10) + 1])
      BY <1>2, <2>3, DecimalIs
    <3>3. ParseUint(Decimal[n \div 10], max) = Ok(n \div 10)
      BY <1>2, <3>1
    <3>4. Decimal[n \div 10] \in Strings /\ Decimal[n \div 10] # <<>>
      BY <3>1, DecimalType DEF IsNumeral
    <3>5. Digits[(n % 10) + 1] \in Symbols
      BY <3>1, DigitsAre
    <3>6. ParseUint(Decimal[n], max) = NextDigit(Ok(n \div 10), Digits[(n % 10) + 1], max)
      BY <3>2, <3>3, <3>4, <3>5, ParseAppend
    <3>7. NextDigit(Ok(n \div 10), Digits[(n % 10) + 1], max) = Ok((n \div 10) * 10 + (n % 10))
      BY <1>1, <2>1, <3>1
    <3> QED
      BY <3>1, <3>6, <3>7
  <2> QED
    BY <2>2, <2>3
<1> HIDE DEF S
<1>3. Nat \subseteq S
  BY <1>2, StrongInduction
<1> QED
  BY <1>3 DEF S

(***************************************************************************)
(* Where the first of some symbols is                                      *)
(***************************************************************************)
\* Min of a set of numbers is in it, and below the others.
LEMMA MinIs ==
    ASSUME NEW S \in SUBSET Nat, S # {}
    PROVE  Min(S) \in S /\ \A x \in S : Min(S) <= x
<1>1. \E m \in S : \A x \in S : m <= x
  <2>1. SUFFICES ASSUME ~\E m \in S : \A x \in S : m <= x PROVE FALSE
    OBVIOUS
  <2> DEFINE T == {n \in Nat : n \notin S}
  <2>2. ASSUME NEW n \in Nat, \A m \in 0..n - 1 : m \in T PROVE n \in T
    BY <2>1, <2>2
  <2> HIDE DEF T
  <2>3. Nat \subseteq T
    BY <2>2, StrongInduction
  <2> QED
    BY <2>3 DEF T
<1> QED
  BY <1>1 DEF Min

Lacks(s, set) == \A i \in 1..Len(s) : s[i] \notin set

\* FirstOf is 0 exactly where none of the symbols occurs.
LEMMA FirstOfNone ==
    ASSUME NEW X, NEW s \in Seq(X), NEW set
    PROVE  FirstOf(s, set) = 0 <=> Lacks(s, set)
<1>1. DOMAIN s = 1..Len(s) /\ Len(s) \in Nat
  BY LenProperties
<1> DEFINE found == {i \in DOMAIN s : s[i] \in set}
<1>2. found # {} => Min(found) # 0
  <2>1. found \in SUBSET Nat /\ 0 \notin found
    BY <1>1
  <2> HIDE DEF found
  <2> QED
    BY <2>1, MinIs
<1>3. FirstOf(s, set) = IF found = {} THEN 0 ELSE Min(found)
  BY DEF FirstOf
<1>4. found = {} <=> Lacks(s, set)
  BY <1>1 DEF Lacks
<1> QED
  BY <1>2, <1>3, <1>4

\* Otherwise it is the place of the first of them.
LEMMA FirstOfSome ==
    ASSUME NEW X, NEW s \in Seq(X), NEW set, FirstOf(s, set) # 0
    PROVE  /\ FirstOf(s, set) \in 1..Len(s) /\ s[FirstOf(s, set)] \in set
           /\ \A i \in 1..FirstOf(s, set) - 1 : s[i] \notin set
<1>1. DOMAIN s = 1..Len(s) /\ Len(s) \in Nat
  BY LenProperties
<1> DEFINE found == {i \in DOMAIN s : s[i] \in set}
<1>2. FirstOf(s, set) = IF found = {} THEN 0 ELSE Min(found)
  BY DEF FirstOf
<1>3. found \in SUBSET Nat /\ found # {}
  BY <1>1, <1>2
<1>4. Min(found) \in found /\ \A x \in found : Min(found) <= x
  <2> HIDE DEF found
  <2> QED
    BY <1>3, MinIs
<1>5. FirstOf(s, set) = Min(found)
  BY <1>2, <1>3
<1> DEFINE m == Min(found)
<1>6. m \in found /\ \A x \in found : m <= x
  BY <1>4
<1> HIDE DEF m
<1>7. m \in 1..Len(s) /\ s[m] \in set
  BY <1>1, <1>6
<1>8. ASSUME NEW i \in 1..m - 1 PROVE s[i] \notin set
  <2>1. i \in DOMAIN s /\ ~(m <= i)
    BY <1>1, <1>7
  <2> QED
    BY <1>6, <2>1
<1> QED
  BY <1>5, <1>7, <1>8 DEF m

\* Three parts, the middle one a single symbol.
LEMMA ThreeParts ==
    ASSUME NEW X, NEW a \in Seq(X), NEW c \in X, NEW b \in Seq(X)
    PROVE  /\ a \o <<c>> \o b \in Seq(X)
           /\ Len(a \o <<c>> \o b) = Len(a) + 1 + Len(b)
           /\ Len(a) \in Nat /\ Len(b) \in Nat
           /\ \A i \in 1..Len(a) : (a \o <<c>> \o b)[i] = a[i]
           /\ (a \o <<c>> \o b)[Len(a) + 1] = c
           /\ \A i \in 1..Len(b) : (a \o <<c>> \o b)[Len(a) + 1 + i] = b[i]
<1>1. <<c>> \in Seq(X) /\ Len(<<c>>) = 1 /\ <<c>>[1] = c
  OBVIOUS
<1>2. Len(a) \in Nat /\ Len(b) \in Nat
  BY LenProperties
<1> DEFINE w == a \o <<c>>
<1>3. /\ w \in Seq(X) /\ Len(w) = Len(a) + Len(<<c>>)
      /\ \A i \in 1..Len(a) + Len(<<c>>) : w[i] = IF i <= Len(a) THEN a[i] ELSE <<c>>[i - Len(a)]
  BY <1>1, ConcatProperties
<1>4. Len(w) = Len(a) + 1 /\ (\A i \in 1..Len(a) : w[i] = a[i]) /\ w[Len(a) + 1] = c
  BY <1>1, <1>2, <1>3
<1> HIDE DEF w
<1>5. /\ w \o b \in Seq(X) /\ Len(w \o b) = Len(w) + Len(b)
      /\ \A i \in 1..Len(w) + Len(b) : (w \o b)[i] = IF i <= Len(w) THEN w[i] ELSE b[i - Len(w)]
  <2>1. w \in Seq(X)
    BY <1>3
  <2> QED
    BY <2>1, ConcatProperties
<1>6. \A i \in 1..Len(a) : (w \o b)[i] = a[i]
  BY <1>2, <1>4, <1>5
<1>7. (w \o b)[Len(a) + 1] = c
  BY <1>2, <1>4, <1>5
<1>8. \A i \in 1..Len(b) : (w \o b)[Len(a) + 1 + i] = b[i]
  BY <1>2, <1>4, <1>5
<1> QED
  BY <1>2, <1>4, <1>5, <1>6, <1>7, <1>8 DEF w

\* A middle part of a sequence.
LEMMA PartOf ==
    ASSUME NEW X, NEW s \in Seq(X), NEW m \in 1..Len(s) + 1, NEW n \in m - 1..Len(s)
    PROVE  /\ SubSeq(s, m, n) \in Seq(X) /\ Len(SubSeq(s, m, n)) = n - m + 1
           /\ \A i \in 1..n - m + 1 : SubSeq(s, m, n)[i] = s[m + i - 1]
<1>1. Len(s) \in Nat /\ \A i \in 1..Len(s) : s[i] \in X
  BY LenProperties, ElementOfSeq
<1>3. \A i \in m..n : s[i] \in X
  BY <1>1
<1>4. m \in Int /\ n \in Int
  BY <1>1
<1>5. /\ SubSeq(s, m, n) \in Seq(X)
      /\ Len(SubSeq(s, m, n)) = IF m <= n THEN n - m + 1 ELSE 0
      /\ \A i \in 1..n - m + 1 : SubSeq(s, m, n)[i] = s[m + i - 1]
  BY <1>3, <1>4, SubSeqProperties
<1>6. ~(m <= n) => n - m + 1 = 0
  BY <1>1
<1> QED
  BY <1>5, <1>6

\* What equals a part of a sequence.
LEMMA PartIs ==
    ASSUME NEW X, NEW s \in Seq(X), NEW t \in Seq(X), NEW m \in 1..Len(s) + 1, NEW n \in m - 1..Len(s),
           Len(t) = n - m + 1, \A i \in 1..Len(t) : t[i] = s[m + i - 1]
    PROVE  SubSeq(s, m, n) = t
<1> DEFINE u == SubSeq(s, m, n)
<1>1. u \in Seq(X) /\ Len(u) = n - m + 1 /\ \A i \in 1..n - m + 1 : u[i] = s[m + i - 1]
  BY PartOf
<1> HIDE DEF u
<1>2. u = t
  BY <1>1, SeqEqual
<1> QED
  BY <1>2 DEF u

\* Cut at the separator, such a string gives its two parts again.
LEMMA ThreePartsCut ==
    ASSUME NEW X, NEW a \in Seq(X), NEW c \in X, NEW b \in Seq(X), NEW set, c \in set, Lacks(a, set)
    PROVE  /\ FirstOf(a \o <<c>> \o b, set) = Len(a) + 1
           /\ SubSeq(a \o <<c>> \o b, 1, Len(a)) = a
           /\ SubSeq(a \o <<c>> \o b, Len(a) + 2, Len(a \o <<c>> \o b)) = b
<1> DEFINE w == a \o <<c>> \o b
<1>1. /\ w \in Seq(X) /\ Len(w) = Len(a) + 1 + Len(b)
      /\ Len(a) \in Nat /\ Len(b) \in Nat
      /\ \A i \in 1..Len(a) : w[i] = a[i]
      /\ w[Len(a) + 1] = c
      /\ \A i \in 1..Len(b) : w[Len(a) + 1 + i] = b[i]
  BY ThreeParts
<1> HIDE DEF w
<1>2. FirstOf(w, set) = Len(a) + 1
  <2>1. Len(a) + 1 \in 1..Len(w) /\ ~Lacks(w, set)
    BY <1>1 DEF Lacks
  <2>2. FirstOf(w, set) # 0
    BY <1>1, <2>1, FirstOfNone
  <2> DEFINE k == FirstOf(w, set)
  <2>3. k \in 1..Len(w) /\ w[k] \in set /\ \A i \in 1..k - 1 : w[i] \notin set
    BY <1>1, <2>2, FirstOfSome
  <2> HIDE DEF k
  <2>4. ~(k \in 1..Len(a))
    BY <1>1, <2>3 DEF Lacks
  <2>5. ~(Len(a) + 1 \in 1..k - 1)
    BY <1>1, <2>3
  <2> QED
    BY <1>1, <2>3, <2>4, <2>5 DEF k
<1>3. SubSeq(w, 1, Len(a)) = a
  <2>1. 1 \in 1..Len(w) + 1 /\ Len(a) \in 1 - 1..Len(w) /\ Len(a) = Len(a) - 1 + 1
    BY <1>1
  <2>2. \A i \in 1..Len(a) : a[i] = w[1 + i - 1]
    BY <1>1
  <2> QED
    BY <1>1, <2>1, <2>2, PartIs
<1>4. SubSeq(w, Len(a) + 2, Len(w)) = b
  <2>1. Len(a) + 2 \in 1..Len(w) + 1 /\ Len(w) \in Len(a) + 2 - 1..Len(w)
        /\ Len(b) = Len(w) - (Len(a) + 2) + 1
    BY <1>1
  <2>2. \A i \in 1..Len(b) : b[i] = w[Len(a) + 2 + i - 1]
    BY <1>1
  <2> QED
    BY <1>1, <2>1, <2>2, PartIs
<1> QED
  BY <1>2, <1>3, <1>4 DEF w

(***************************************************************************)
(* Splitting a string                                                      *)
(***************************************************************************)
\* What splits a string piece by piece is a function of the string.
LEMMA SplitExists ==
    ASSUME NEW first \in [Strings -> Strings], NEW next \in [Strings -> Strings],
           \A s \in Strings : s # <<>> => Len(next[s]) < Len(s)
    PROVE  \E f : f = [s \in Strings |-> IF s = <<>> THEN <<>> ELSE <<first[s]>> \o f[next[s]]]
<1> DEFINE V == Seq(Strings)
           B == {<<>>}
           size == [s \in Strings |-> Len(s)]
           base == [s \in Strings |-> <<>>]
           comb == [p \in Strings \X V |-> <<first[p[1]]>> \o p[2]]
<1>1. size \in [Strings -> Nat]
  BY LenProperties DEF Strings
<1>2. \A s \in Strings : s \notin B => size[next[s]] < size[s]
  OBVIOUS
<1>3. base \in [Strings -> V]
  BY EmptySeq
<1>4. comb \in [Strings \X V -> V]
  <2>1. \A s \in Strings, v \in V : <<first[s]>> \in V /\ <<first[s]>> \o v \in V
    BY ConcatProperties
  <2> QED
    BY <2>1
<1>5. PICK f \in [Strings -> V] : \A s \in Strings : SolvesAt(f, s, B, base, comb, next)
  <2> HIDE DEF V, B, size, base, comb
  <2> QED
    BY <1>1, <1>2, <1>3, <1>4, Recursion
<1>6. ASSUME NEW s \in Strings
      PROVE  f[s] = IF s = <<>> THEN <<>> ELSE <<first[s]>> \o f[next[s]]
  <2>1. SolvesAt(f, s, B, base, comb, next)
    <3> HIDE DEF B, base, comb
    <3> QED
      BY <1>5
  <2>2. comb[<<s, f[next[s]]>>] = <<first[s]>> \o f[next[s]]
    BY <1>5
  <2>3. s # <<>> => f[s] = comb[<<s, f[next[s]]>>]
    <3> HIDE DEF base, comb
    <3> QED
      BY <2>1 DEF SolvesAt
  <2>4. s = <<>> => f[s] = <<>>
    <3> HIDE DEF comb
    <3> QED
      BY <2>1 DEF SolvesAt
  <2> QED
    BY <2>2, <2>3, <2>4
<1> QED
  BY <1>5, <1>6

\* A part of a string after its first symbols.
LEMMA TailPart ==
    ASSUME NEW s \in Strings, NEW k \in 1..Len(s)
    PROVE  /\ SubSeq(s, 1, k - 1) \in Strings
           /\ SubSeq(s, k + 1, Len(s)) \in Strings /\ Len(SubSeq(s, k + 1, Len(s))) < Len(s)
<1>1. Len(s) \in Nat /\ s \in Seq(Symbols)
  BY LenProperties DEF Strings
<1>2. 1 \in 1..Len(s) + 1 /\ k - 1 \in 1 - 1..Len(s) /\ k + 1 \in 1..Len(s) + 1
      /\ Len(s) \in k + 1 - 1..Len(s) /\ Len(s) - (k + 1) + 1 < Len(s)
  BY <1>1
<1>3. SubSeq(s, 1, k - 1) \in Seq(Symbols)
  BY <1>1, <1>2, PartOf
<1>4. SubSeq(s, k + 1, Len(s)) \in Seq(Symbols)
      /\ Len(SubSeq(s, k + 1, Len(s))) = Len(s) - (k + 1) + 1
  BY <1>1, <1>2, PartOf
<1> QED
  BY <1>2, <1>3, <1>4 DEF Strings

\* Line and AfterLine are parts of the string, the second one shorter.
LEMMA LineType ==
    ASSUME NEW s \in Strings
    PROVE  /\ Line(s) \in Strings /\ AfterLine(s) \in Strings
           /\ s # <<>> => Len(AfterLine(s)) < Len(s)
<1>1. <<>> \in Strings /\ Len(<<>>) = 0 /\ (s # <<>> => Len(s) \in Nat \ {0})
  BY EmptySeq DEF Strings
<1>2. CASE EndOfLine(s) = 0
  BY <1>1, <1>2 DEF Line, AfterLine
<1>3. CASE EndOfLine(s) # 0
  <2>1. EndOfLine(s) \in 1..Len(s)
    BY <1>3, FirstOfSome DEF EndOfLine, Strings
  <2> QED
    BY <1>3, <2>1, TailPart DEF Line, AfterLine
<1> QED
  BY <1>2, <1>3

\* FirstChunk and AfterChunk too.
LEMMA ChunkType ==
    ASSUME NEW s \in Strings
    PROVE  /\ FirstChunk(s) \in Strings /\ AfterChunk(s) \in Strings
           /\ s # <<>> => Len(AfterChunk(s)) < Len(s)
<1> DEFINE cut == FirstOf(s, Blanks)
           more == {i \in DOMAIN s : i > cut /\ s[i] \notin Blanks}
<1>1. <<>> \in Strings /\ Len(<<>>) = 0 /\ (s # <<>> => Len(s) \in Nat \ {0})
  BY EmptySeq DEF Strings
<1>2. cut # 0 => cut \in 1..Len(s)
  BY FirstOfSome DEF Strings
<1>3. FirstChunk(s) \in Strings
  BY <1>2, TailPart DEF FirstChunk
<1>4. AfterChunk(s) = IF cut = 0 \/ more = {} THEN <<>> ELSE SubSeq(s, Min(more), Len(s))
  BY DEF AfterChunk
<1>5. ASSUME cut # 0, more # {}
      PROVE  SubSeq(s, Min(more), Len(s)) \in Strings /\ Len(SubSeq(s, Min(more), Len(s))) < Len(s)
  <2>1. DOMAIN s = 1..Len(s) /\ Len(s) \in Nat
    BY LenProperties DEF Strings
  <2>2. more \in SUBSET Nat /\ more \subseteq 1..Len(s) /\ \A i \in more : i > cut
    BY <2>1
  <2> DEFINE m == Min(more)
  <2> HIDE DEF more
  <2>3. m \in more
    BY <1>5, <2>2, MinIs
  <2> HIDE DEF m, cut
  <2>4. m - 1 \in 1..Len(s) /\ m - 1 + 1 = m
    BY <1>2, <1>5, <2>1, <2>2, <2>3
  <2>5. SubSeq(s, m - 1 + 1, Len(s)) \in Strings /\ Len(SubSeq(s, m - 1 + 1, Len(s))) < Len(s)
    BY <2>4, TailPart
  <2> QED
    BY <2>4, <2>5 DEF m
<1>6. s # <<>> => Len(<<>>) < Len(s)
  BY <1>1
<1> HIDE DEF cut, more
<1> QED
  BY <1>1, <1>3, <1>4, <1>5, <1>6

\* What the definition of Lines says.
LEMMA LinesIs ==
    \A s \in Strings : Lines[s] = IF s = <<>> THEN <<>> ELSE <<Line(s)>> \o Lines[AfterLine(s)]
<1> DEFINE first == [s \in Strings |-> Line(s)]
           next == [s \in Strings |-> AfterLine(s)]
           Fits(f) == f = [s \in Strings |-> IF s = <<>> THEN <<>> ELSE <<Line(s)>> \o f[AfterLine(s)]]
<1>1. first \in [Strings -> Strings] /\ next \in [Strings -> Strings]
      /\ \A s \in Strings : s # <<>> => Len(next[s]) < Len(s)
  BY LineType
<1>2. PICK f : f = [s \in Strings |-> IF s = <<>> THEN <<>> ELSE <<first[s]>> \o f[next[s]]]
  <2> HIDE DEF first, next
  <2> QED
    BY <1>1, SplitExists
<1>3. Fits(f)
  BY <1>2
<1> HIDE DEF Fits
<1>4. Fits(CHOOSE g : Fits(g))
  BY <1>3
<1>5. Lines = CHOOSE g : Fits(g)
  BY DEF Lines, Fits
<1>6. Fits(Lines)
  BY <1>4, <1>5
<1> QED
  BY <1>6 DEF Fits

\* What the definition of SplitSpaces says.
LEMMA SplitIs ==
    \A s \in Strings :
      SplitSpaces[s] = IF s = <<>> THEN <<>> ELSE <<FirstChunk(s)>> \o SplitSpaces[AfterChunk(s)]
<1> DEFINE first == [s \in Strings |-> FirstChunk(s)]
           next == [s \in Strings |-> AfterChunk(s)]
           Fits(f) == f = [s \in Strings |-> IF s = <<>> THEN <<>> ELSE <<FirstChunk(s)>> \o f[AfterChunk(s)]]
<1>1. first \in [Strings -> Strings] /\ next \in [Strings -> Strings]
      /\ \A s \in Strings : s # <<>> => Len(next[s]) < Len(s)
  BY ChunkType
<1>2. PICK f : f = [s \in Strings |-> IF s = <<>> THEN <<>> ELSE <<first[s]>> \o f[next[s]]]
  <2> HIDE DEF first, next
  <2> QED
    BY <1>1, SplitExists
<1>3. Fits(f)
  BY <1>2
<1> HIDE DEF Fits
<1>4. Fits(CHOOSE g : Fits(g))
  BY <1>3
<1>5. SplitSpaces = CHOOSE g : Fits(g)
  BY DEF SplitSpaces, Fits
<1>6. Fits(SplitSpaces)
  BY <1>4, <1>5
<1> QED
  BY <1>6 DEF Fits

\* A line and what follows it.
LEMMA LineOf ==
    ASSUME NEW a \in Strings, Lacks(a, {Crlf}), NEW b \in Strings
    PROVE  /\ Terminated(a) \o b \in Strings /\ Terminated(a) \o b # <<>>
           /\ Line(Terminated(a) \o b) = a /\ AfterLine(Terminated(a) \o b) = b
<1> DEFINE w == a \o <<Crlf>> \o b
<1>1. Crlf \in Symbols /\ a \in Seq(Symbols) /\ b \in Seq(Symbols) /\ Crlf \in {Crlf}
  BY DEF Symbols, Strings
<1>2. /\ FirstOf(w, {Crlf}) = Len(a) + 1
      /\ SubSeq(w, 1, Len(a)) = a
      /\ SubSeq(w, Len(a) + 2, Len(w)) = b
  BY <1>1, ThreePartsCut
<1>3. w \in Seq(Symbols) /\ Len(w) = Len(a) + 1 + Len(b) /\ Len(a) \in Nat /\ Len(b) \in Nat
  BY <1>1, ThreeParts
<1>4. w # <<>>
  BY <1>3
<1>5. Terminated(a) \o b = w
  BY DEF Terminated
<1> HIDE DEF w
<1>6. EndOfLine(w) # 0 /\ EndOfLine(w) - 1 = Len(a) /\ EndOfLine(w) + 1 = Len(a) + 2
  BY <1>2, <1>3 DEF EndOfLine
<1>7. Line(w) = a
  BY <1>2, <1>6 DEF Line
<1>8. AfterLine(w) = b
  BY <1>2, <1>6 DEF AfterLine
<1> QED
  BY <1>3, <1>4, <1>5, <1>7, <1>8 DEF Strings

\* A line in front is one more line.
LEMMA LinesOf ==
    ASSUME NEW a \in Strings, Lacks(a, {Crlf}), NEW b \in Strings
    PROVE  Lines[Terminated(a) \o b] = <<a>> \o Lines[b]
<1> DEFINE w == Terminated(a) \o b
<1>1. w \in Strings /\ w # <<>> /\ Line(w) = a /\ AfterLine(w) = b
  BY LineOf
<1> HIDE DEF w
<1>2. Lines[w] = <<Line(w)>> \o Lines[AfterLine(w)]
  BY <1>1, LinesIs
<1> QED
  BY <1>1, <1>2 DEF w

\* An argument: nothing a control line could break on, and not empty.
IsArg(s) == s \in Strings /\ s # <<>> /\ Lacks(s, Blanks)

\* An argument alone is the only chunk.
LEMMA SplitOne ==
    ASSUME NEW a, IsArg(a)
    PROVE  SplitSpaces[a] = <<a>>
<1>1. a \in Strings /\ a # <<>> /\ FirstOf(a, Blanks) = 0
  BY FirstOfNone DEF IsArg, Strings
<1>2. FirstChunk(a) = a /\ AfterChunk(a) = <<>>
  BY <1>1 DEF FirstChunk, AfterChunk
<1>3. <<>> \in Strings /\ <<a>> \o <<>> = <<a>>
  BY <1>1, EmptySeq, ConcatEmptySeq DEF Strings
<1>4. SplitSpaces[<<>>] = <<>>
  BY <1>3, SplitIs
<1> QED
  BY <1>1, <1>2, <1>3, <1>4, SplitIs

\* The string goes on with something that is no blank.
LEMMA SplitArg ==
    ASSUME NEW a, IsArg(a), NEW b \in Strings, b # <<>>, b[1] \notin Blanks
    PROVE  /\ Arg(a, b) \in Strings /\ Arg(a, b) # <<>> /\ Arg(a, b)[1] \notin Blanks
           /\ SplitSpaces[Arg(a, b)] = <<a>> \o SplitSpaces[b]
<1> DEFINE w == a \o <<" ">> \o b
           more == {i \in DOMAIN w : i > FirstOf(w, Blanks) /\ w[i] \notin Blanks}
<1>1. /\ " " \in Symbols /\ " " \in Blanks /\ a \in Seq(Symbols) /\ b \in Seq(Symbols)
      /\ a # <<>> /\ Lacks(a, Blanks)
  BY DEF Symbols, Blanks, IsArg, Strings
<1>2. Len(a) \in Nat \ {0} /\ Len(b) \in Nat \ {0}
  BY <1>1, EmptySeq
<1>3. /\ FirstOf(w, Blanks) = Len(a) + 1
      /\ SubSeq(w, 1, Len(a)) = a
      /\ SubSeq(w, Len(a) + 2, Len(w)) = b
  <2> DEFINE c == " "
  <2>1. c \in Symbols /\ c \in Blanks /\ a \in Seq(Symbols) /\ b \in Seq(Symbols) /\ Lacks(a, Blanks)
    BY <1>1
  <2>2. w = a \o <<c>> \o b
    OBVIOUS
  <2> HIDE DEF c, w
  <2> QED
    BY <2>1, <2>2, ThreePartsCut
<1>4. /\ w \in Seq(Symbols) /\ Len(w) = Len(a) + 1 + Len(b)
      /\ \A i \in 1..Len(a) : w[i] = a[i]
      /\ \A i \in 1..Len(b) : w[Len(a) + 1 + i] = b[i]
  <2> DEFINE c == " "
  <2>1. c \in Symbols /\ a \in Seq(Symbols) /\ b \in Seq(Symbols)
    BY <1>1
  <2>2. w = a \o <<c>> \o b
    OBVIOUS
  <2> HIDE DEF c, w
  <2> QED
    BY <2>1, <2>2, ThreeParts
<1>5. Arg(a, b) = w
  BY DEF Arg
<1> HIDE DEF w
<1>6. w # <<>> /\ DOMAIN w = 1..Len(w)
  BY <1>2, <1>4, LenProperties, EmptySeq
<1>7. w[1] \notin Blanks
  <2>1. 1 \in 1..Len(a)
    BY <1>2
  <2> QED
    BY <1>1, <1>4, <2>1 DEF Lacks
<1>8. Len(a) + 2 \in more /\ \A i \in more : Len(a) + 2 <= i
  <2>1. 1 \in 1..Len(b) /\ Len(a) + 1 + 1 = Len(a) + 2 /\ Len(a) + 2 \in 1..Len(w)
        /\ Len(a) + 2 > Len(a) + 1
    BY <1>2, <1>4
  <2>2. w[Len(a) + 2] = b[1]
    BY <1>4, <2>1
  <2>3. Len(a) + 2 \in more
    BY <1>3, <1>6, <2>1, <2>2
  <2>4. \A i \in more : i \in Nat /\ i > Len(a) + 1
    BY <1>2, <1>3, <1>4, <1>6
  <2>5. \A i \in more : Len(a) + 2 <= i
    <3> HIDE DEF more
    <3> QED
      BY <1>2, <2>4
  <2> QED
    BY <2>3, <2>5
<1>9. Min(more) = Len(a) + 2 /\ more # {}
  <2>1. more \in SUBSET Nat
    BY <1>6
  <2> HIDE DEF more
  <2>2. Min(more) \in more /\ \A x \in more : Min(more) <= x
    BY <1>8, <2>1, MinIs
  <2>3. Min(more) <= Len(a) + 2 /\ Len(a) + 2 <= Min(more) /\ Min(more) \in Nat
    BY <1>8, <2>1, <2>2
  <2> QED
    BY <1>2, <1>8, <2>3
<1>10. FirstChunk(w) = a
  <2>1. Len(a) + 1 # 0 /\ Len(a) + 1 - 1 = Len(a)
    BY <1>2
  <2> QED
    BY <1>3, <2>1 DEF FirstChunk
<1>11. AfterChunk(w) = b
  <2>1. FirstOf(w, Blanks) # 0
    BY <1>2, <1>3
  <2>2. AfterChunk(w) = IF FirstOf(w, Blanks) = 0 \/ more = {} THEN <<>>
                        ELSE SubSeq(w, Min(more), Len(w))
    BY DEF AfterChunk
  <2> HIDE DEF more
  <2> QED
    BY <1>3, <1>9, <2>1, <2>2
<1>12. w \in Strings
  BY <1>4 DEF Strings
<1> QED
  BY <1>5, <1>6, <1>7, <1>10, <1>11, <1>12, SplitIs

\* A word of a control line, and a line with the words it splits into.
IsWord(s) == s \in Strings /\ s # <<>> /\ Lacks(s, Separators)

Splits(s, words) ==
    /\ s \in Strings /\ s # <<>> /\ s[1] \notin Blanks /\ Lacks(s, {Crlf})
    /\ SplitSpaces[s] = words

\* A word splits into itself.
LEMMA SplitsWord ==
    ASSUME NEW a, IsWord(a)
    PROVE  Splits(a, <<a>>)
<1>1. IsArg(a) /\ Lacks(a, {Crlf})
  BY DEF IsWord, IsArg, Lacks, Separators
<1>2. 1 \in 1..Len(a)
  BY EmptySeq DEF IsWord, Strings
<1>3. a[1] \notin Blanks
  BY <1>1, <1>2 DEF IsArg, Lacks
<1> QED
  BY <1>1, <1>3, SplitOne DEF Splits, IsArg

\* A word in front of a line is one more word.
LEMMA SplitsArg ==
    ASSUME NEW a, IsWord(a), NEW b, NEW words, Splits(b, words)
    PROVE  Splits(Arg(a, b), <<a>> \o words)
<1>1. IsArg(a) /\ Lacks(a, {Crlf}) /\ a \in Strings
  BY DEF IsWord, IsArg, Lacks, Separators
<1>2. /\ Arg(a, b) \in Strings /\ Arg(a, b) # <<>> /\ Arg(a, b)[1] \notin Blanks
      /\ SplitSpaces[Arg(a, b)] = <<a>> \o words
  BY <1>1, SplitArg DEF Splits
<1>3. Lacks(Arg(a, b), {Crlf})
  <2> DEFINE c == " "
             w == a \o <<c>> \o b
  <2>1. c \in Symbols /\ a \in Seq(Symbols) /\ b \in Seq(Symbols)
        /\ c # Crlf /\ Lacks(a, {Crlf}) /\ Lacks(b, {Crlf})
    BY <1>1 DEF Splits, Strings, Symbols, Blanks, Crlf
  <2>2. Arg(a, b) = w
    BY DEF Arg
  <2> HIDE DEF c
  <2>3. /\ Len(w) = Len(a) + 1 + Len(b)
        /\ Len(a) \in Nat /\ Len(b) \in Nat
        /\ \A i \in 1..Len(a) : w[i] = a[i]
        /\ w[Len(a) + 1] = c
        /\ \A i \in 1..Len(b) : w[Len(a) + 1 + i] = b[i]
    BY <2>1, ThreeParts
  <2> HIDE DEF w
  <2>4. ASSUME NEW i \in 1..Len(w) PROVE w[i] # Crlf
    <3>1. i \in 1..Len(a) \/ i = Len(a) + 1 \/ (i - (Len(a) + 1)) \in 1..Len(b)
      BY <2>3
    <3>2. Len(a) + 1 + (i - (Len(a) + 1)) = i
      BY <2>3
    <3>3. (i - (Len(a) + 1)) \in 1..Len(b) => w[i] = b[i - (Len(a) + 1)]
      BY <2>3, <3>2
    <3> QED
      BY <2>1, <2>3, <3>1, <3>3 DEF Lacks
  <2> QED
    BY <2>2, <2>4 DEF Lacks
<1> QED
  BY <1>2, <1>3 DEF Splits

\* One element in front.
LEMMA Prepend ==
    ASSUME NEW X, NEW a \in X, NEW s \in Seq(X)
    PROVE  /\ <<a>> \o s \in Seq(X) /\ Len(<<a>> \o s) = 1 + Len(s)
           /\ (<<a>> \o s)[1] = a
           /\ \A i \in 1..Len(s) : (<<a>> \o s)[1 + i] = s[i]
<1>1. <<a>> \in Seq(X) /\ Len(<<a>>) = 1 /\ <<a>>[1] = a
  OBVIOUS
<1>2. Len(s) \in Nat
  BY LenProperties
<1> DEFINE o == <<a>>
<1> HIDE DEF o
<1>3. /\ o \o s \in Seq(X) /\ Len(o \o s) = 1 + Len(s)
      /\ \A i \in 1..1 + Len(s) : (o \o s)[i] = IF i <= 1 THEN o[i] ELSE s[i - 1]
  BY <1>1, ConcatProperties DEF o
<1>4. (o \o s)[1] = a
  BY <1>1, <1>2, <1>3 DEF o
<1>5. \A i \in 1..Len(s) : 1 + i \in 1..1 + Len(s) /\ ~(1 + i <= 1) /\ 1 + i - 1 = i
  BY <1>2
<1> QED
  BY <1>3, <1>4, <1>5 DEF o

\* What has this element in front of those.
LEMMA PrependIs ==
    ASSUME NEW X, NEW a \in X, NEW s \in Seq(X), NEW t \in Seq(X), Len(t) = 1 + Len(s), t[1] = a,
           \A i \in 1..Len(s) : t[1 + i] = s[i]
    PROVE  <<a>> \o s = t
<1> DEFINE w == <<a>> \o s
<1>1. w \in Seq(X) /\ Len(w) = 1 + Len(s) /\ w[1] = a /\ \A i \in 1..Len(s) : w[1 + i] = s[i]
  BY Prepend
<1>2. Len(s) \in Nat
  BY LenProperties
<1> HIDE DEF w
<1>3. ASSUME NEW i \in 1..Len(w) PROVE w[i] = t[i]
  <2>1. i = 1 \/ (i - 1 \in 1..Len(s) /\ 1 + (i - 1) = i)
    BY <1>1, <1>2
  <2>2. i - 1 \in 1..Len(s) => w[1 + (i - 1)] = t[1 + (i - 1)]
    BY <1>1
  <2> QED
    BY <1>1, <2>1, <2>2
<1> QED
  BY <1>1, <1>3, SeqEqual DEF w

\* Two words in a list. The same for up to six follows.
LEMMA Words2 ==
    ASSUME NEW a \in Strings, NEW b \in Strings
    PROVE  <<a>> \o <<b>> = <<a, b>>
<1> DEFINE s == <<b>>
           t == <<a, b>>
<1>1. a \in Strings /\ s \in Seq(Strings) /\ Len(s) = 1 /\ t \in Seq(Strings) /\ Len(t) = 2 /\ t[1] = a
  OBVIOUS
<1>2. t[1 + 1] = s[1]
  OBVIOUS
<1> HIDE DEF s, t
<1>3. Len(t) = 1 + Len(s) /\ \A i \in 1..Len(s) : i = 1
  BY <1>1
<1>4. \A i \in 1..Len(s) : t[1 + i] = s[i]
  BY <1>2, <1>3
<1>5. <<a>> \o s = t
  BY <1>1, <1>3, <1>4, PrependIs
<1> QED
  BY <1>5 DEF s, t

\* Three words.
LEMMA Words3 ==
    ASSUME NEW a \in Strings, NEW b \in Strings, NEW c \in Strings
    PROVE  <<a>> \o <<b, c>> = <<a, b, c>>
<1> DEFINE s == <<b, c>>
           t == <<a, b, c>>
<1>1. a \in Strings /\ s \in Seq(Strings) /\ Len(s) = 2 /\ t \in Seq(Strings) /\ Len(t) = 3 /\ t[1] = a
  OBVIOUS
<1>2. t[1 + 1] = s[1] /\ t[1 + 2] = s[2]
  OBVIOUS
<1> HIDE DEF s, t
<1>3. Len(t) = 1 + Len(s) /\ \A i \in 1..Len(s) : i = 1 \/ i = 2
  BY <1>1
<1>4. \A i \in 1..Len(s) : t[1 + i] = s[i]
  BY <1>2, <1>3
<1>5. <<a>> \o s = t
  BY <1>1, <1>3, <1>4, PrependIs
<1> QED
  BY <1>5 DEF s, t

\* Four words.
LEMMA Words4 ==
    ASSUME NEW a \in Strings, NEW b \in Strings, NEW c \in Strings, NEW d \in Strings
    PROVE  <<a>> \o <<b, c, d>> = <<a, b, c, d>>
<1> DEFINE s == <<b, c, d>>
           t == <<a, b, c, d>>
<1>1. a \in Strings /\ s \in Seq(Strings) /\ Len(s) = 3 /\ t \in Seq(Strings) /\ Len(t) = 4 /\ t[1] = a
  OBVIOUS
<1>2. t[1 + 1] = s[1] /\ t[1 + 2] = s[2] /\ t[1 + 3] = s[3]
  OBVIOUS
<1> HIDE DEF s, t
<1>3. Len(t) = 1 + Len(s) /\ \A i \in 1..Len(s) : i = 1 \/ i = 2 \/ i = 3
  BY <1>1
<1>4. \A i \in 1..Len(s) : t[1 + i] = s[i]
  BY <1>2, <1>3
<1>5. <<a>> \o s = t
  BY <1>1, <1>3, <1>4, PrependIs
<1> QED
  BY <1>5 DEF s, t

\* Five words.
LEMMA Words5 ==
    ASSUME NEW a \in Strings, NEW b \in Strings, NEW c \in Strings, NEW d \in Strings, NEW e \in Strings
    PROVE  <<a>> \o <<b, c, d, e>> = <<a, b, c, d, e>>
<1> DEFINE s == <<b, c, d, e>>
           t == <<a, b, c, d, e>>
<1>1. a \in Strings /\ s \in Seq(Strings) /\ Len(s) = 4 /\ t \in Seq(Strings) /\ Len(t) = 5 /\ t[1] = a
  OBVIOUS
<1>2. t[1 + 1] = s[1] /\ t[1 + 2] = s[2] /\ t[1 + 3] = s[3] /\ t[1 + 4] = s[4]
  OBVIOUS
<1> HIDE DEF s, t
<1>3. Len(t) = 1 + Len(s) /\ \A i \in 1..Len(s) : i = 1 \/ i = 2 \/ i = 3 \/ i = 4
  BY <1>1
<1>4. \A i \in 1..Len(s) : t[1 + i] = s[i]
  BY <1>2, <1>3
<1>5. <<a>> \o s = t
  BY <1>1, <1>3, <1>4, PrependIs
<1> QED
  BY <1>5 DEF s, t

\* Six words.
LEMMA Words6 ==
    ASSUME NEW a \in Strings, NEW b \in Strings, NEW c \in Strings, NEW d \in Strings, NEW e \in Strings, NEW f \in Strings
    PROVE  <<a>> \o <<b, c, d, e, f>> = <<a, b, c, d, e, f>>
<1> DEFINE s == <<b, c, d, e, f>>
           t == <<a, b, c, d, e, f>>
<1>1. a \in Strings /\ s \in Seq(Strings) /\ Len(s) = 5 /\ t \in Seq(Strings) /\ Len(t) = 6 /\ t[1] = a
  OBVIOUS
<1>2. t[1 + 1] = s[1] /\ t[1 + 2] = s[2] /\ t[1 + 3] = s[3] /\ t[1 + 4] = s[4] /\ t[1 + 5] = s[5]
  OBVIOUS
<1> HIDE DEF s, t
<1>3. Len(t) = 1 + Len(s) /\ \A i \in 1..Len(s) : i = 1 \/ i = 2 \/ i = 3 \/ i = 4 \/ i = 5
  BY <1>1
<1>4. \A i \in 1..Len(s) : t[1 + i] = s[i]
  BY <1>2, <1>3
<1>5. <<a>> \o s = t
  BY <1>1, <1>3, <1>4, PrependIs
<1> QED
  BY <1>5 DEF s, t

\* Numerals and verbs are words.
LEMMA NumeralWord == \A n \in Nat : IsWord(Decimal[n])
<1> SUFFICES ASSUME NEW n \in Nat PROVE IsWord(Decimal[n])
  OBVIOUS
<1>1. IsNumeral(Decimal[n])
  BY DecimalType
<1>2. \A d \in 0..9 : Digits[d + 1] \notin Separators
  BY DigitsAre
<1> QED
  BY <1>1, <1>2 DEF IsNumeral, IsWord, Lacks, IsAsciiDigit

\* A verb is a word.
LEMMA VerbWord == \A v \in Verbs : IsWord(<<v>>)
<1> SUFFICES ASSUME NEW v \in Verbs PROVE IsWord(<<v>>)
  OBVIOUS
<1>1. v \in Symbols /\ v \notin Separators
  BY DEF Symbols, Verbs, Separators, Blanks, Crlf
<1> QED
  BY <1>1 DEF IsWord, Lacks, Strings

\* What the constructors of Subject and QueueGroup accept is a word.
LEMMA SubjectWord ==
    ASSUME NEW s \in Strings
    PROVE  /\ Accepts(NewSubject(s)) => IsWord(s)
           /\ Accepts(NewQueueGroup(s)) => IsWord(s)
<1>1. DOMAIN s = 1..Len(s)
  BY LenProperties DEF Strings
<1>2. NoErr # "Empty" /\ NoErr # "IllegalCharacter"
  BY DEF NoErr
<1>3. Accepts(NewSubject(s)) => s # <<>> /\ ~IsSeparated(s)
  BY <1>2 DEF Accepts, NewSubject, Checked, ValidateSubject, Err, Ok
<1>4. Accepts(NewQueueGroup(s)) => s # <<>> /\ ~IsSeparated(s)
  BY <1>2 DEF Accepts, NewQueueGroup, Checked, ValidateQueueGroup, Err, Ok
<1>5. s # <<>> /\ ~IsSeparated(s) => IsWord(s)
  BY <1>1 DEF IsWord, Lacks, IsSeparated
<1> QED
  BY <1>3, <1>4, <1>5

(***************************************************************************)
(* Lengths in bytes                                                        *)
(***************************************************************************)
\* Symbols counted in two parts.
LEMMA CountConcat ==
    ASSUME NEW s \in Strings, NEW t \in Strings, NEW b
    PROVE  /\ Count(s, b) \in 0..Len(s) /\ Count(t, b) \in Nat
           /\ Count(s \o t, b) = Count(s, b) + Count(t, b)
<1> DEFINE N == Len(s)
           M == Len(t)
           A == {i \in 1..N : s[i] = b}
           B == {j \in 1..M : t[j] = b}
           C == {i \in N + 1..N + M : t[i - N] = b}
           f == [j \in B |-> N + j]
<1>1. s \in Seq(Symbols) /\ t \in Seq(Symbols)
  BY DEF Strings
<1>2. N \in Nat /\ M \in Nat /\ DOMAIN s = 1..N /\ DOMAIN t = 1..M
  BY <1>1, LenProperties
<1>3. /\ s \o t \in Seq(Symbols) /\ Len(s \o t) = N + M
      /\ \A i \in 1..N + M : (s \o t)[i] = IF i <= N THEN s[i] ELSE t[i - N]
  BY <1>1, ConcatProperties
<1>4. DOMAIN (s \o t) = 1..N + M
  BY <1>3, LenProperties
<1>5. Count(s, b) = Cardinality(A) /\ Count(t, b) = Cardinality(B)
  BY <1>2 DEF Count
<1>6. {i \in DOMAIN (s \o t) : (s \o t)[i] = b} = A \cup C
  <2> DEFINE w == s \o t
  <2>1. \A i \in 1..N + M : w[i] = IF i <= N THEN s[i] ELSE t[i - N]
    BY <1>3
  <2>2. DOMAIN w = 1..N + M
    BY <1>4
  <2> HIDE DEF w, N, M
  <2>3. {i \in 1..N + M : w[i] = b} = A \cup C
    BY <1>2, <2>1
  <2> QED
    BY <2>2, <2>3 DEF w
<1>7. Count(s \o t, b) = Cardinality(A \cup C)
  BY <1>6 DEF Count
<1> HIDE DEF N, M
<1>8. IsFiniteSet(A) /\ Cardinality(A) \in 0..N
  <2>1. IsFiniteSet(1..N) /\ Cardinality(1..N) = N
    BY <1>2, FS_Interval
  <2>2. A \in SUBSET (1..N)
    OBVIOUS
  <2> HIDE DEF A
  <2>3. IsFiniteSet(A) /\ Cardinality(A) <= N
    BY <2>1, <2>2, FS_Subset
  <2>4. Cardinality(A) \in Nat
    BY <2>3, FS_CardinalityType
  <2> QED
    BY <1>2, <2>3, <2>4
<1>9. IsFiniteSet(B) /\ Cardinality(B) \in Nat
  <2>1. IsFiniteSet(1..M)
    BY <1>2, FS_Interval
  <2>2. B \in SUBSET (1..M)
    OBVIOUS
  <2> HIDE DEF B
  <2>3. IsFiniteSet(B)
    BY <2>1, <2>2, FS_Subset
  <2> QED
    BY <2>3, FS_CardinalityType
<1>10. ExistsBijection(B, C)
  <2>1. \A j \in B : N + j \in C
    <3>1. \A j \in B : N + j \in N + 1..N + M /\ (N + j) - N = j
      BY <1>2
    <3> QED
      BY <3>1
  <2>2. f \in [B -> C]
    BY <2>1
  <2>3. \A j, k \in B : f[j] = f[k] => j = k
    BY <1>2
  <2>4. \A i \in C : i - N \in B /\ f[i - N] = i
    <3>1. \A i \in C : i - N \in B /\ N + (i - N) = i
      BY <1>2
    <3> QED
      BY <3>1
  <2> HIDE DEF f, B, C
  <2>5. f \in Injection(B, C)
    BY <2>2, <2>3 DEF Injection, IsInjective
  <2>6. f \in Surjection(B, C)
    BY <2>2, <2>4 DEF Surjection
  <2> QED
    BY <2>5, <2>6 DEF ExistsBijection, Bijection
<1>11. A \cap C = {}
  BY <1>2
<1> HIDE DEF A, B, C
<1>12. IsFiniteSet(C) /\ Cardinality(C) = Cardinality(B)
  BY <1>9, <1>10, FS_Bijection
<1>13. Cardinality(A \cup C) = Cardinality(A) + Cardinality(C) - Cardinality(A \cap C)
  BY <1>8, <1>12, FS_Union
<1>14. Cardinality(A \cap C) = 0
  BY <1>11, FS_EmptySet
<1> QED
  BY <1>5, <1>7, <1>8, <1>9, <1>12, <1>13, <1>14 DEF N

\* A string has at least a byte for each symbol.
LEMMA BytesType ==
    ASSUME NEW s \in Strings
    PROVE  Bytes(s) \in Nat /\ Bytes(s) >= Len(s) /\ Len(s) \in Nat
<1>1. Len(s) \in Nat
  BY LenProperties DEF Strings
<1>2. Count(s, Crlf) \in 0..Len(s) /\ Count(s, "NATS/1.0") \in 0..Len(s)
  BY CountConcat
<1> QED
  BY <1>1, <1>2 DEF Bytes

\* The bytes of two parts.
LEMMA BytesConcat ==
    ASSUME NEW s \in Strings, NEW t \in Strings
    PROVE  s \o t \in Strings /\ Bytes(s \o t) = Bytes(s) + Bytes(t)
<1>1. s \o t \in Strings /\ Len(s \o t) = Len(s) + Len(t)
  BY ConcatProperties DEF Strings
<1>2. /\ Count(s \o t, Crlf) = Count(s, Crlf) + Count(t, Crlf)
      /\ Count(s, Crlf) \in Nat /\ Count(t, Crlf) \in Nat
  BY CountConcat
<1>3. /\ Count(s \o t, "NATS/1.0") = Count(s, "NATS/1.0") + Count(t, "NATS/1.0")
      /\ Count(s, "NATS/1.0") \in Nat /\ Count(t, "NATS/1.0") \in Nat
  BY CountConcat
<1>4. Len(s) \in Nat /\ Len(t) \in Nat
  BY BytesType
<1> QED
  BY <1>1, <1>2, <1>3, <1>4 DEF Bytes

\* The empty string has none.
LEMMA BytesEmpty == <<>> \in Strings /\ Bytes(<<>>) = 0
<1>1. <<>> \in Strings /\ <<>> \o <<>> = <<>>
  BY EmptySeq, ConcatEmptySeq DEF Strings
<1>2. Bytes(<<>> \o <<>>) = Bytes(<<>>) + Bytes(<<>>) /\ Bytes(<<>>) \in Nat
  BY <1>1, BytesConcat, BytesType
<1>3. Bytes(<<>>) = Bytes(<<>>) + Bytes(<<>>)
  BY <1>1, <1>2
<1> QED
  BY <1>1, <1>2, <1>3

\* As many bytes as a string has are that string.
LEMMA TakeIs ==
    ASSUME NEW p \in Strings, NEW q \in Strings
    PROVE  /\ p \o q \in Strings /\ Len(p \o q) = Len(p) + Len(q)
           /\ CanTake(p \o q, Bytes(p)) /\ Take(p \o q, Bytes(p)) = Len(p)
<1> DEFINE w == p \o q
           n == Bytes(p)
           Fits(k) == k \in 0..Len(w) /\ Bytes(SubSeq(w, 1, k)) = n
<1>1. p \in Seq(Symbols) /\ q \in Seq(Symbols)
  BY DEF Strings
<1>2. /\ w \in Seq(Symbols) /\ Len(w) = Len(p) + Len(q)
      /\ \A i \in 1..Len(p) + Len(q) : w[i] = IF i <= Len(p) THEN p[i] ELSE q[i - Len(p)]
  BY <1>1, ConcatProperties
<1>3. Len(p) \in Nat /\ Len(q) \in Nat
  BY BytesType
<1> HIDE DEF w
<1>4. \A k \in 0..Len(w) : SubSeq(w, 1, k) \in Strings /\ Len(SubSeq(w, 1, k)) = k
  <2> SUFFICES ASSUME NEW k \in 0..Len(w) PROVE SubSeq(w, 1, k) \in Strings /\ Len(SubSeq(w, 1, k)) = k
    OBVIOUS
  <2>1. 1 \in 1..Len(w) + 1 /\ k \in 1 - 1..Len(w) /\ k - 1 + 1 = k
    BY <1>2, <1>3
  <2>2. SubSeq(w, 1, k) \in Seq(Symbols) /\ Len(SubSeq(w, 1, k)) = k - 1 + 1
    BY <1>2, <2>1, PartOf
  <2> QED
    BY <2>1, <2>2 DEF Strings
<1>5. SubSeq(w, 1, Len(p)) = p
  <2>1. 1 \in 1..Len(w) + 1 /\ Len(p) \in 1 - 1..Len(w) /\ Len(p) = Len(p) - 1 + 1
    BY <1>2, <1>3
  <2>2. \A i \in 1..Len(p) : p[i] = w[1 + i - 1]
    BY <1>2, <1>3
  <2> QED
    BY <1>1, <1>2, <2>1, <2>2, PartIs
<1>6. Fits(Len(p))
  <2>1. Len(p) \in 0..Len(w)
    BY <1>2, <1>3
  <2> QED
    BY <1>5, <2>1
\* A longer beginning has more bytes.
<1>7. ASSUME NEW j \in 0..Len(w), NEW k \in 0..Len(w), j < k
      PROVE  Bytes(SubSeq(w, 1, j)) < Bytes(SubSeq(w, 1, k))
  <2> DEFINE x == SubSeq(w, 1, j)
             y == SubSeq(w, j + 1, k)
  <2>1. 1 \in 1..Len(w) + 1 /\ j \in 1 - 1..Len(w) /\ k \in j..Len(w)
        /\ j + 1 \in 1..Len(w) + 1 /\ k \in j + 1 - 1..Len(w) /\ k - (j + 1) + 1 > 0
    BY <1>2, <1>3, <1>7
  <2>2. SubSeq(w, 1, k) = x \o y
    BY <1>2, <2>1, ConcatAdjacentSubSeq
  <2>3. y \in Seq(Symbols) /\ Len(y) > 0
    BY <1>2, <2>1, PartOf
  <2>4. x \in Strings /\ y \in Strings
    BY <1>4, <2>3 DEF Strings
  <2> HIDE DEF x, y
  <2>5. Bytes(x \o y) = Bytes(x) + Bytes(y) /\ Bytes(x) \in Nat /\ Bytes(y) \in Nat /\ Bytes(y) >= Len(y)
        /\ Len(y) \in Nat
    BY <2>4, BytesConcat, BytesType
  <2>6. Bytes(x) < Bytes(x \o y)
    BY <2>3, <2>5
  <2> QED
    BY <2>2, <2>6 DEF x
<1>8. ASSUME NEW k, Fits(k) PROVE k = Len(p)
  <2>1. k \in 0..Len(w) /\ Len(p) \in 0..Len(w)
    BY <1>6, <1>8
  <2>2. Bytes(SubSeq(w, 1, k)) = n /\ Bytes(SubSeq(w, 1, Len(p))) = n /\ n \in Nat
    BY <1>6, <1>8, BytesType
  <2>3. ~(k < Len(p)) /\ ~(Len(p) < k)
    BY <1>7, <2>1, <2>2
  <2> QED
    BY <1>2, <1>3, <2>1, <2>3
<1>9. CanTake(w, n)
  BY <1>6 DEF CanTake
<1>10. Take(w, n) = Len(p)
  <2>1. Take(w, n) = CHOOSE k \in 0..Len(w) : Bytes(SubSeq(w, 1, k)) = n
    BY DEF Take
  <2> DEFINE k0 == Take(w, n)
  <2>2. Fits(k0)
    <3> HIDE DEF n
    <3> QED
      BY <1>6, <2>1
  <2> QED
    BY <1>8, <2>2
<1> QED
  BY <1>2, <1>9, <1>10 DEF w, Strings

(***************************************************************************)
(* What the server reads                                                   *)
(***************************************************************************)
\* A control line is split into its words, and what follows it is left.
LEMMA ControlLine ==
    ASSUME NEW l, NEW words, Splits(l, words), NEW body \in Strings
    PROVE  /\ SplitSpaces[Line(Terminated(l) \o body)] = words
           /\ Line(Terminated(l) \o body) = l
           /\ AfterLine(Terminated(l) \o body) = body
<1>1. l \in Strings /\ Lacks(l, {Crlf}) /\ SplitSpaces[l] = words
  BY DEF Splits
<1>2. Line(Terminated(l) \o body) = l /\ AfterLine(Terminated(l) \o body) = body
  BY <1>1, LineOf
<1> QED
  BY <1>1, <1>2

\* The same without anything that follows.
LEMMA BareLine ==
    ASSUME NEW l, NEW words, Splits(l, words)
    PROVE  /\ SplitSpaces[Line(Terminated(l))] = words /\ AfterLine(Terminated(l)) = <<>>
<1> DEFINE w == Terminated(l)
<1>1. <<>> \in Strings
  BY BytesEmpty
<1>2. w \in Seq(Symbols)
  <2>1. l \in Seq(Symbols) /\ <<Crlf>> \in Seq(Symbols)
    BY DEF Splits, Strings, Symbols
  <2> QED
    BY <2>1, ConcatProperties DEF Terminated
<1>3. w \o <<>> = w
  <2> HIDE DEF w
  <2> QED
    BY <1>2, ConcatEmptySeq
<1> HIDE DEF w
<1>4. SplitSpaces[Line(w \o <<>>)] = words /\ AfterLine(w \o <<>>) = <<>>
  BY <1>1, ControlLine DEF w
<1> QED
  BY <1>3, <1>4 DEF w

IsOptional(arg) == arg = <<>> \/ IsWord(arg)

\* An optional argument is a word more, or none.
LEMMA SplitsOptional ==
    ASSUME NEW arg, IsOptional(arg), NEW rest, NEW words, Splits(rest, words)
    PROVE  Splits(OptionalArg(arg, rest), IF arg = <<>> THEN words ELSE <<arg>> \o words)
<1>1. CASE arg = <<>>
  BY <1>1 DEF OptionalArg
<1>2. CASE arg # <<>>
  <2>1. IsWord(arg)
    BY <1>2 DEF IsOptional
  <2>2. Splits(Arg(arg, rest), <<arg>> \o words)
    BY <2>1, SplitsArg
  <2> QED
    BY <1>2, <2>2 DEF OptionalArg
<1> QED
  BY <1>1, <1>2

\* A number that fits is written as a word and read back.
LEMMA NumberIs ==
    ASSUME NEW n \in 0..MaxInt
    PROVE  IsWord(Decimal[n]) /\ Number(Decimal[n]) = n
<1>1. MaxInt \in Nat /\ n \in Nat /\ n <= MaxInt
  BY WireAssumption
<1>2. ParseUint(Decimal[n], MaxInt) = Ok(n)
  BY <1>1, ParseDecimal
<1>3. Accepts(Ok(n)) /\ Ok(n).val = n
  BY Outcomes
<1>4. IsWord(Decimal[n])
  BY <1>1, NumeralWord
<1> QED
  BY <1>2, <1>3, <1>4 DEF Number

\* The server reads SUB as it was encoded.
LEMMA ReadsSubscribe ==
    ASSUME NEW o, IsWord(o.subject), IsOptional(o.group), o.id \in 0..MaxInt
    PROVE  /\ ServerReads(EncodeSubscribe(o)).kind = "Subscribe"
           /\ ServerReads(EncodeSubscribe(o)).rest = <<>>
           /\ ServerReads(EncodeSubscribe(o)).subject = o.subject
           /\ ServerReads(EncodeSubscribe(o)).group = o.group
           /\ ServerReads(EncodeSubscribe(o)).id = o.id
<1> DEFINE v == <<"SUB">>
           d == Decimal[o.id]
           s == EncodeSubscribe(o)
           words == IF o.group = <<>> THEN <<v, o.subject, d>> ELSE <<v, o.subject, o.group, d>>
<1>1. IsWord(d) /\ Number(d) = o.id
  BY NumberIs
<1>2. IsWord(v)
  BY VerbWord DEF Verbs
<1>3. s = Terminated(Arg(v, Arg(o.subject, OptionalArg(o.group, d))))
  BY DEF EncodeSubscribe
<1> HIDE DEF v, d, s
<1>4. Splits(Arg(v, Arg(o.subject, OptionalArg(o.group, d))),
             <<v>> \o (<<o.subject>> \o IF o.group = <<>> THEN <<d>> ELSE <<o.group>> \o <<d>>))
  BY <1>1, <1>2, SplitsWord, SplitsArg, SplitsOptional
<1>5. <<v>> \o (<<o.subject>> \o IF o.group = <<>> THEN <<d>> ELSE <<o.group>> \o <<d>>) = words
  <2> DEFINE t == o.subject
             g == o.group
  <2>1. v \in Strings /\ d \in Strings /\ t \in Strings /\ (g # <<>> => g \in Strings)
    BY <1>1, <1>2 DEF IsWord, IsOptional
  <2> HIDE DEF t, g
  <2>2. <<t>> \o <<d>> = <<t, d>>
    BY <2>1, Words2
  <2>3. <<v>> \o <<t, d>> = <<v, t, d>>
    BY <2>1, Words3
  <2>4. g # <<>> => <<g>> \o <<d>> = <<g, d>>
    BY <2>1, Words2
  <2>5. g # <<>> => <<t>> \o <<g, d>> = <<t, g, d>>
    BY <2>1, Words3
  <2>6. g # <<>> => <<v>> \o <<t, g, d>> = <<v, t, g, d>>
    BY <2>1, Words4
  <2>7. CASE g = <<>>
    BY <2>2, <2>3, <2>7 DEF t, g
  <2>8. CASE g # <<>>
    BY <2>4, <2>5, <2>6, <2>8 DEF t, g
  <2> QED
    BY <2>7, <2>8
<1> HIDE DEF words
<1>6. SplitSpaces[Line(s)] = words /\ AfterLine(s) = <<>>
  BY <1>3, <1>4, <1>5, BareLine
<1>7. words[1] = <<"SUB">> /\ words[2] = o.subject /\ words[Len(words)] = d
      /\ (IF Len(words) = 4 THEN words[3] ELSE <<>>) = o.group
  BY DEF words, v
<1>8. ServerReads(s) = [kind |-> "Subscribe", subject |-> words[2], id |-> Number(words[Len(words)]),
                        group |-> IF Len(words) = 4 THEN words[3] ELSE <<>>, rest |-> <<>>]
  BY <1>6, <1>7 DEF ServerReads
<1> QED
  BY <1>1, <1>7, <1>8 DEF s

\* And UNSUB.
LEMMA ReadsUnsubscribe ==
    ASSUME NEW o, o.id \in 0..MaxInt, o.max \in 0..MaxInt
    PROVE  /\ ServerReads(EncodeUnsubscribe(o)).kind = "Unsubscribe"
           /\ ServerReads(EncodeUnsubscribe(o)).rest = <<>>
           /\ ServerReads(EncodeUnsubscribe(o)).id = o.id
           /\ ServerReads(EncodeUnsubscribe(o)).max = o.max
<1> DEFINE v == <<"UNSUB">>
           d == Decimal[o.id]
           e == Decimal[o.max]
           s == EncodeUnsubscribe(o)
           words == IF o.max = 0 THEN <<v, d>> ELSE <<v, d, e>>
<1>1. IsWord(d) /\ Number(d) = o.id /\ IsWord(e) /\ Number(e) = o.max
  BY NumberIs
<1>2. IsWord(v)
  BY VerbWord DEF Verbs
<1>3. s = Terminated(Arg(v, IF o.max = 0 THEN d ELSE Arg(d, e)))
  BY DEF EncodeUnsubscribe
<1> HIDE DEF v, d, e, s
<1>4. Splits(Arg(v, IF o.max = 0 THEN d ELSE Arg(d, e)), words)
  <2>1. v \in Strings /\ d \in Strings /\ e \in Strings
    BY <1>1, <1>2 DEF IsWord
  <2>2. <<v>> \o <<d>> = <<v, d>> /\ <<d>> \o <<e>> = <<d, e>> /\ <<v>> \o <<d, e>> = <<v, d, e>>
    BY <2>1, Words2, Words3
  <2>3. Splits(d, <<d>>) /\ Splits(Arg(d, e), <<d>> \o <<e>>)
    BY <1>1, SplitsWord, SplitsArg
  <2>4. Splits(Arg(v, d), <<v>> \o <<d>>) /\ Splits(Arg(v, Arg(d, e)), <<v>> \o <<d, e>>)
    BY <1>2, <2>2, <2>3, SplitsArg
  <2> QED
    BY <2>2, <2>4
<1> HIDE DEF words
<1>6. SplitSpaces[Line(s)] = words /\ AfterLine(s) = <<>>
  BY <1>3, <1>4, BareLine
<1>7. words[1] = <<"UNSUB">> /\ words[1] # <<"SUB">> /\ words[2] = d
      /\ (Len(words) = 3 <=> o.max # 0) /\ (o.max # 0 => words[3] = e)
  BY DEF words, v
<1>8. ServerReads(s) = [kind |-> "Unsubscribe", id |-> Number(words[2]),
                        max |-> IF Len(words) = 3 THEN Number(words[3]) ELSE 0, rest |-> <<>>]
  BY <1>6, <1>7 DEF ServerReads
<1> QED
  BY <1>1, <1>7, <1>8 DEF s

\* Two words, a reply that need not be there, and the lengths of the block and of the whole.
SizedLine(x, y, reply, block, payload) ==
    Arg(x, Arg(y, OptionalArg(reply, Sizes(block, payload))))

SizedWords(x, y, reply, block, payload) ==
    LET h == Decimal[Bytes(block)]
        t == Decimal[Bytes(block) + Bytes(payload)]
    IN IF block = <<>> THEN IF reply = <<>> THEN <<x, y, t>> ELSE <<x, y, reply, t>>
       ELSE IF reply = <<>> THEN <<x, y, h, t>> ELSE <<x, y, reply, h, t>>

\* The arguments of PUB, HPUB, MSG and HMSG split into their words.
LEMMA SizedSplits ==
    ASSUME NEW x, NEW y, NEW reply, NEW block \in Strings, NEW payload \in Strings,
           IsWord(x), IsWord(y), IsOptional(reply)
    PROVE  Splits(SizedLine(x, y, reply, block, payload), SizedWords(x, y, reply, block, payload))
<1> DEFINE h == Decimal[Bytes(block)]
           t == Decimal[Bytes(block) + Bytes(payload)]
           sizes == IF block = <<>> THEN <<t>> ELSE <<h, t>>
           more == IF reply = <<>> THEN sizes ELSE <<reply>> \o sizes
<1>1. IsWord(h) /\ IsWord(t)
  <2>1. Bytes(block) \in Nat /\ Bytes(payload) \in Nat
    BY BytesType
  <2>2. Bytes(block) + Bytes(payload) \in Nat
    BY <2>1
  <2> QED
    BY <2>1, <2>2, NumeralWord
<1>2. Sizes(block, payload) = IF block = <<>> THEN t ELSE Arg(h, t)
  BY DEF Sizes
<1> HIDE DEF h, t
<1>3. x \in Strings /\ y \in Strings /\ h \in Strings /\ t \in Strings /\ (reply # <<>> => reply \in Strings)
  BY <1>1 DEF IsWord, IsOptional
<1>4. Splits(Sizes(block, payload), sizes)
  <2>1. Splits(t, <<t>>) /\ Splits(Arg(h, t), <<h>> \o <<t>>)
    BY <1>1, SplitsWord, SplitsArg
  <2>2. <<h>> \o <<t>> = <<h, t>>
    BY <1>3, Words2
  <2> QED
    BY <1>2, <2>1, <2>2
<1> HIDE DEF sizes
<1>5. Splits(OptionalArg(reply, Sizes(block, payload)), more)
  BY <1>4, SplitsOptional
<1> HIDE DEF more
<1>6. Splits(SizedLine(x, y, reply, block, payload), <<x>> \o (<<y>> \o more))
  BY <1>5, SplitsArg DEF SizedLine
<1>7. <<x>> \o (<<y>> \o more) = SizedWords(x, y, reply, block, payload)
  <2>1. CASE block = <<>> /\ reply = <<>>
    <3>1. more = <<t>>
      BY <2>1 DEF more, sizes
    <3>2. <<y>> \o <<t>> = <<y, t>> /\ <<x>> \o <<y, t>> = <<x, y, t>>
      BY <1>3, Words2, Words3
    <3> QED
      BY <2>1, <3>1, <3>2 DEF SizedWords, t
  <2>2. CASE block = <<>> /\ reply # <<>>
    <3>1. more = <<reply>> \o <<t>>
      BY <2>2 DEF more, sizes
    <3>2. <<reply>> \o <<t>> = <<reply, t>> /\ <<y>> \o <<reply, t>> = <<y, reply, t>>
      BY <1>3, <2>2, Words2, Words3
    <3>3. <<x>> \o <<y, reply, t>> = <<x, y, reply, t>>
      BY <1>3, <2>2, Words4
    <3> QED
      BY <2>2, <3>1, <3>2, <3>3 DEF SizedWords, t
  <2>3. CASE block # <<>> /\ reply = <<>>
    <3>1. more = <<h, t>>
      BY <2>3 DEF more, sizes
    <3>2. <<y>> \o <<h, t>> = <<y, h, t>> /\ <<x>> \o <<y, h, t>> = <<x, y, h, t>>
      BY <1>3, Words3, Words4
    <3> QED
      BY <2>3, <3>1, <3>2 DEF SizedWords, h, t
  <2>4. CASE block # <<>> /\ reply # <<>>
    <3>1. more = <<reply>> \o <<h, t>>
      BY <2>4 DEF more, sizes
    <3>2. <<reply>> \o <<h, t>> = <<reply, h, t>> /\ <<y>> \o <<reply, h, t>> = <<y, reply, h, t>>
      BY <1>3, <2>4, Words3, Words4
    <3>3. <<x>> \o <<y, reply, h, t>> = <<x, y, reply, h, t>>
      BY <1>3, <2>4, Words5
    <3> QED
      BY <2>4, <3>1, <3>2, <3>3 DEF SizedWords, h, t
  <2> QED
    BY <2>1, <2>2, <2>3, <2>4
<1> QED
  BY <1>6, <1>7

\* What those words are, by their places.
SizedShape(c, x, y, reply, block, payload) ==
    /\ c[1] = x /\ c[2] = y /\ (reply # <<>> => c[3] = reply)
    /\ Len(c) = IF block = <<>> THEN IF reply = <<>> THEN 3 ELSE 4
                ELSE IF reply = <<>> THEN 4 ELSE 5
    /\ ParseUint(c[Len(c)], MaxInt) = Ok(Bytes(block) + Bytes(payload))
    /\ block # <<>> => ParseUint(c[Len(c) - 1], MaxInt) = Ok(Bytes(block))

\* Each word of theirs is at its place, and the lengths are read back.
LEMMA SizedWordsAre ==
    ASSUME NEW x, NEW y, NEW reply, NEW block \in Strings, NEW payload \in Strings,
           Bytes(block) + Bytes(payload) <= MaxInt
    PROVE  SizedShape(SizedWords(x, y, reply, block, payload), x, y, reply, block, payload)
<1> DEFINE c == SizedWords(x, y, reply, block, payload)
<1> DEFINE h == Decimal[Bytes(block)]
           t == Decimal[Bytes(block) + Bytes(payload)]
<1>1. ParseUint(h, MaxInt) = Ok(Bytes(block)) /\ ParseUint(t, MaxInt) = Ok(Bytes(block) + Bytes(payload))
  <2>1. Bytes(block) \in Nat /\ Bytes(payload) \in Nat /\ MaxInt \in Nat
    BY BytesType, WireAssumption
  <2>2. Bytes(block) + Bytes(payload) \in Nat /\ Bytes(block) <= MaxInt
    BY <2>1
  <2> QED
    BY <2>1, <2>2, ParseDecimal
<1>2. c = IF block = <<>> THEN IF reply = <<>> THEN <<x, y, t>> ELSE <<x, y, reply, t>>
          ELSE IF reply = <<>> THEN <<x, y, h, t>> ELSE <<x, y, reply, h, t>>
  BY DEF SizedWords
<1> HIDE DEF c, h, t
<1>3. /\ c[1] = x /\ c[2] = y /\ (reply # <<>> => c[3] = reply)
      /\ Len(c) = IF block = <<>> THEN IF reply = <<>> THEN 3 ELSE 4
                  ELSE IF reply = <<>> THEN 4 ELSE 5
      /\ c[Len(c)] = t /\ (block # <<>> => c[Len(c) - 1] = h)
  BY <1>2
<1>4. SizedShape(c, x, y, reply, block, payload)
  BY <1>1, <1>3 DEF SizedShape, h, t
<1> QED
  BY <1>4 DEF c

\* The parts of what follows the line.
BodyShape(body, block, payload) ==
    /\ body \in Strings
    /\ CanTake(body, 0) /\ Take(body, 0) = 0
    /\ CanTake(body, Bytes(block)) /\ Take(body, Bytes(block)) = Len(block)
    /\ CanTake(body, Bytes(block) + Bytes(payload))
    /\ Take(body, Bytes(block) + Bytes(payload)) = Len(block) + Len(payload)
    /\ SubSeq(body, 1, 0) = <<>>
    /\ SubSeq(body, 1, Len(block)) = block
    /\ SubSeq(body, Len(block) + 1, Len(block) + Len(payload)) = payload
    /\ SubSeq(body, Len(block) + Len(payload) + 1, Len(body)) = <<Crlf>>

\* The two lengths cut the body into the block, the payload and the rest.
LEMMA BodyParts ==
    ASSUME NEW block \in Strings, NEW payload \in Strings
    PROVE  BodyShape(block \o Terminated(payload), block, payload)
<1> DEFINE body == block \o Terminated(payload)
<1> DEFINE both == block \o payload
           e == <<Crlf>>
<1>1. e \in Strings /\ e \in Seq(Symbols) /\ Len(e) = 1 /\ <<>> \in Strings
  BY EmptySeq DEF Strings, Symbols
<1> HIDE DEF e
<1>2. block \in Seq(Symbols) /\ payload \in Seq(Symbols)
  BY DEF Strings
<1>3. body = both \o e
  <2>1. body = block \o (payload \o e)
    BY DEF Terminated, e
  <2>2. e \in Seq(Symbols)
    BY <1>1
  <2>3. (block \o payload) \o e = block \o (payload \o e)
    BY <1>2, <2>2, ConcatAssociative
  <2> QED
    BY <2>1, <2>3
<1>4. both \in Strings /\ Bytes(both) = Bytes(block) + Bytes(payload)
  BY BytesConcat
<1>5. payload \o e \in Strings /\ body = block \o (payload \o e)
  BY <1>1, BytesConcat DEF Terminated, e
<1> HIDE DEF body
<1>6. Len(block) \in Nat /\ Len(payload) \in Nat /\ Len(both) = Len(block) + Len(payload)
      /\ \A i \in 1..Len(block) + Len(payload) :
           both[i] = IF i <= Len(block) THEN block[i] ELSE payload[i - Len(block)]
  <2>1. Len(block) \in Nat /\ Len(payload) \in Nat
    BY BytesType
  <2> QED
    BY <1>2, <2>1, ConcatProperties
<1>7. body \in Strings /\ Len(body) = Len(both) + 1
      /\ \A i \in 1..Len(both) + 1 : body[i] = IF i <= Len(both) THEN both[i] ELSE e[i - Len(both)]
  <2>1. both \in Seq(Symbols)
    BY <1>4 DEF Strings
  <2> HIDE DEF both
  <2>2. both \o e \in Seq(Symbols) /\ Len(both \o e) = Len(both) + Len(e)
        /\ \A i \in 1..Len(both) + Len(e) :
             (both \o e)[i] = IF i <= Len(both) THEN both[i] ELSE e[i - Len(both)]
    BY <1>1, <2>1, ConcatProperties
  <2> QED
    BY <1>1, <1>3, <2>2 DEF Strings
<1>8. CanTake(both \o e, Bytes(both)) /\ Take(both \o e, Bytes(both)) = Len(both)
  BY <1>1, <1>4, TakeIs
<1>9. CanTake(body, Bytes(block)) /\ Take(body, Bytes(block)) = Len(block)
  BY <1>5, TakeIs
<1>10. CanTake(body, 0) /\ Take(body, 0) = 0 /\ SubSeq(body, 1, 0) = <<>>
  <2>1. <<>> \o body = body
    BY <1>7, ConcatEmptySeq DEF Strings
  <2>2. CanTake(<<>> \o body, Bytes(<<>>)) /\ Take(<<>> \o body, Bytes(<<>>)) = Len(<<>>)
    BY <1>1, <1>7, TakeIs
  <2>3. Bytes(<<>>) = 0 /\ Len(<<>>) = 0
    BY BytesEmpty, EmptySeq
  <2>4. SubSeq(body, 1, 0) = <<>>
    BY SubSeqEmpty
  <2> QED
    BY <2>1, <2>2, <2>3, <2>4
<1> HIDE DEF both
<1>11. SubSeq(body, 1, Len(block)) = block
  <2>1. 1 \in 1..Len(body) + 1 /\ Len(block) \in 1 - 1..Len(body) /\ Len(block) = Len(block) - 1 + 1
    BY <1>6, <1>7
  <2>2. \A i \in 1..Len(block) : block[i] = body[1 + i - 1]
    BY <1>6, <1>7
  <2>3. body \in Seq(Symbols)
    BY <1>7 DEF Strings
  <2> QED
    BY <1>2, <2>1, <2>2, <2>3, PartIs
<1>12. SubSeq(body, Len(block) + 1, Len(block) + Len(payload)) = payload
  <2> DEFINE m == Len(block) + 1
             n == Len(block) + Len(payload)
  <2>1. m \in 1..Len(body) + 1 /\ n \in m - 1..Len(body) /\ Len(payload) = n - m + 1
    BY <1>6, <1>7
  <2>2. ASSUME NEW i \in 1..Len(payload) PROVE payload[i] = body[m + i - 1]
    <3> DEFINE k == m + i - 1
    <3>1. k \in 1..Len(block) + Len(payload) /\ ~(k <= Len(block))
          /\ k - Len(block) = i /\ k \in 1..Len(both) + 1 /\ k <= Len(both)
      BY <1>6
    <3> HIDE DEF k
    <3>2. body[k] = both[k]
      BY <1>7, <3>1
    <3>3. both[k] = payload[k - Len(block)]
      BY <1>6, <3>1
    <3> QED
      BY <3>1, <3>2, <3>3 DEF k
  <2>3. body \in Seq(Symbols)
    BY <1>7 DEF Strings
  <2> HIDE DEF m, n
  <2>4. SubSeq(body, m, n) = payload
    BY <1>2, <2>1, <2>2, <2>3, PartIs
  <2> QED
    BY <2>4 DEF m, n
<1>13. SubSeq(body, Len(block) + Len(payload) + 1, Len(body)) = e
  <2> DEFINE m == Len(block) + Len(payload) + 1
             n == Len(body)
  <2>1. m \in 1..Len(body) + 1 /\ n \in m - 1..Len(body) /\ Len(e) = n - m + 1 /\ m = Len(both) + 1
    BY <1>1, <1>6, <1>7
  <2>2. ASSUME NEW i \in 1..Len(e) PROVE e[i] = body[m + i - 1]
    <3>1. i = 1 /\ m + 1 - 1 = Len(both) + 1 /\ Len(both) + 1 \in 1..Len(both) + 1
          /\ ~(Len(both) + 1 <= Len(both)) /\ Len(both) + 1 - Len(both) = 1
      BY <1>1, <1>6
    <3> HIDE DEF m
    <3> QED
      BY <1>7, <3>1
  <2>3. body \in Seq(Symbols)
    BY <1>7 DEF Strings
  <2> HIDE DEF m, n
  <2>4. SubSeq(body, m, n) = e
    BY <1>1, <2>1, <2>2, <2>3, PartIs
  <2> QED
    BY <2>4 DEF m, n
<1> HIDE DEF body
<1>14. BodyShape(body, block, payload)
  BY <1>3, <1>4, <1>6, <1>7, <1>8, <1>9, <1>10, <1>11, <1>12, <1>13 DEF e, BodyShape
<1> QED
  BY <1>14 DEF body

(***************************************************************************)
(* Sequences, one element after the other                                  *)
(***************************************************************************)
\* Induction over sequences, one element more each time.
LEMMA SeqInduction ==
    ASSUME NEW S, NEW T, <<>> \in T, \A s \in Seq(S), e \in S : s \in T => Append(s, e) \in T
    PROVE  Seq(S) \subseteq T
<1> DEFINE N == {n \in Nat : \A s \in Seq(S) : Len(s) = n => s \in T}
<1>1. 0 \in N
  <2>1. \A s \in Seq(S) : Len(s) = 0 => s = <<>>
    BY EmptySeq
  <2> QED
    BY <2>1
<1>2. ASSUME NEW n \in Nat, n \in N PROVE n + 1 \in N
  <2> SUFFICES ASSUME NEW s \in Seq(S), Len(s) = n + 1 PROVE s \in T
    BY <1>2
  <2>1. s # <<>>
    BY EmptySeq
  <2>2. PICK t \in Seq(S), e \in S : s = Append(t, e)
    BY <2>1, SequenceEmptyOrAppend
  <2>3. Len(s) = Len(t) + 1 /\ Len(t) \in Nat
    BY <2>2, AppendProperties, LenProperties
  <2>4. Len(t) = n
    BY <2>3
  <2> QED
    BY <1>2, <2>2, <2>4
<1> HIDE DEF N
<1>3. Nat \subseteq N
  BY <1>1, <1>2, SetInduction
<1> QED
  BY <1>3, LenProperties DEF N

\* What a function gives for each element, one after the other.
Gives(g, S, X) == g \in [S -> Seq(X)]
Each(s, g) == [i \in DOMAIN s |-> g[s[i]]]
Pick(s, g) == FlattenSeq(Each(s, g))

\* Nothing from no elements.
LEMMA PickEmpty == ASSUME NEW g PROVE Pick(<<>>, g) = <<>>
<1>1. Each(<<>>, g) = <<>>
  BY DEF Each
<1> QED
  BY <1>1, FlattenEmpty DEF Pick

\* What each element gives, as a sequence of sequences.
LEMMA PickParts ==
    ASSUME NEW S, NEW X, NEW g, Gives(g, S, X), NEW s \in Seq(S)
    PROVE  Each(s, g) \in Seq(Seq(X)) /\ Len(Each(s, g)) = Len(s)
<1>1. Len(s) \in Nat /\ DOMAIN s = 1..Len(s) /\ \A i \in 1..Len(s) : s[i] \in S
  BY LenProperties, ElementOfSeq
<1>2. \A i \in 1..Len(s) : g[s[i]] \in Seq(X)
  BY <1>1 DEF Gives
<1> QED
  BY <1>1, <1>2 DEF Each

\* One element more.
LEMMA PickAppend ==
    ASSUME NEW S, NEW X, NEW g, Gives(g, S, X), NEW s \in Seq(S), NEW e \in S
    PROVE  Pick(s, g) \in Seq(X) /\ Pick(Append(s, e), g) = Pick(s, g) \o g[e]
<1> DEFINE p == Each(s, g)
           t == Append(s, e)
           q == Each(t, g)
<1>1. p \in Seq(Seq(X)) /\ Len(p) = Len(s)
  BY PickParts
<1>2. Len(s) \in Nat /\ DOMAIN s = 1..Len(s)
  BY LenProperties
<1>3. /\ t \in Seq(S) /\ Len(t) = Len(s) + 1 /\ t[Len(s) + 1] = e
      /\ \A i \in 1..Len(s) : t[i] = s[i]
  BY AppendProperties
<1>4. DOMAIN t = 1..Len(s) + 1
  BY <1>3, LenProperties
<1> HIDE DEF t
<1>5. q \in Seq(Seq(X)) /\ Len(q) = Len(s) + 1
  BY <1>3, PickParts
<1>6. g[e] \in Seq(X)
  BY DEF Gives
<1>7. /\ Append(p, g[e]) \in Seq(Seq(X)) /\ Len(Append(p, g[e])) = Len(p) + 1
      /\ Append(p, g[e])[Len(p) + 1] = g[e] /\ \A i \in 1..Len(p) : Append(p, g[e])[i] = p[i]
  <2> HIDE DEF p
  <2> QED
    BY <1>1, <1>6, AppendProperties
<1>8. \A i \in 1..Len(s) : p[i] = g[s[i]] /\ q[i] = g[s[i]]
  BY <1>2, <1>3, <1>4 DEF Each
<1>9. q[Len(s) + 1] = g[e]
  BY <1>2, <1>3, <1>4 DEF Each
<1> DEFINE r == Append(p, g[e])
<1> HIDE DEF p, q, r
<1>10. q = r
  <2>1. r \in Seq(Seq(X)) /\ Len(r) = Len(s) + 1 /\ r[Len(s) + 1] = g[e] /\ \A i \in 1..Len(s) : r[i] = p[i]
    BY <1>1, <1>7 DEF r
  <2>2. \A i \in 1..Len(s) + 1 : i \in 1..Len(s) \/ i = Len(s) + 1
    BY <1>2
  <2>3. \A i \in 1..Len(s) + 1 : q[i] = r[i]
    BY <1>8, <1>9, <2>1, <2>2
  <2> QED
    BY <1>5, <2>1, <2>3, SeqEqual
<1>11. FlattenSeq(r) = IF p = <<>> THEN g[e] ELSE FlattenSeq(p) \o g[e]
  BY <1>1, <1>6, FlattenAppend DEF r
<1>12. FlattenSeq(p) \in Seq(X) /\ (p = <<>> => FlattenSeq(p) = <<>>)
  BY <1>1, FlattenType, FlattenEmpty
<1>13. FlattenSeq(r) = FlattenSeq(p) \o g[e]
  <2>1. <<>> \o g[e] = g[e]
    BY <1>6, ConcatEmptySeq
  <2> QED
    BY <1>11, <1>12, <2>1
<1> QED
  BY <1>10, <1>12, <1>13 DEF Pick, p, q, t

\* What is picked is of the kind that is given.
LEMMA PickType ==
    ASSUME NEW S, NEW X, NEW g, Gives(g, S, X)
    PROVE  \A s \in Seq(S) : Pick(s, g) \in Seq(X)
<1> SUFFICES ASSUME NEW s \in Seq(S) PROVE Pick(s, g) \in Seq(X)
  OBVIOUS
<1> QED
  BY PickParts, FlattenType DEF Pick

\* One element.
LEMMA PickOne ==
    ASSUME NEW S, NEW X, NEW g, Gives(g, S, X), NEW e \in S
    PROVE  Pick(<<e>>, g) = g[e]
<1>1. Each(<<e>>, g) = <<g[e]>>
  BY DEF Each
<1>2. g[e] \in Seq(X)
  BY DEF Gives
<1> QED
  BY <1>1, <1>2, FlattenOne DEF Pick

\* Two sequences, one after the other.
LEMMA PickConcat ==
    ASSUME NEW S, NEW X, NEW g, Gives(g, S, X), NEW s \in Seq(S)
    PROVE  \A t \in Seq(S) : Pick(s \o t, g) = Pick(s, g) \o Pick(t, g)
<1> DEFINE T == {t \in Seq(S) : Pick(s \o t, g) = Pick(s, g) \o Pick(t, g)}
<1>1. <<>> \in T
  <2>1. s \o <<>> = s /\ <<>> \in Seq(S)
    BY ConcatEmptySeq, EmptySeq
  <2>2. Pick(s, g) \in Seq(X)
    BY PickType
  <2>3. Pick(s, g) \o <<>> = Pick(s, g)
    BY <2>2, ConcatEmptySeq
  <2> QED
    BY <2>1, <2>3, PickEmpty
<1>2. ASSUME NEW t \in Seq(S), NEW e \in S, t \in T PROVE Append(t, e) \in T
  <2>1. Append(t, e) \in Seq(S) /\ Append(t, e) = t \o <<e>> /\ <<e>> \in Seq(S)
    BY AppendProperties, AppendIsConcat
  <2>2. s \o t \in Seq(S) /\ Append(s \o t, e) = (s \o t) \o <<e>>
    BY ConcatProperties, AppendIsConcat
  <2>3. s \o Append(t, e) = Append(s \o t, e)
    <3>1. (s \o t) \o <<e>> = s \o (t \o <<e>>)
      BY <2>1, ConcatAssociative
    <3> QED
      BY <2>1, <2>2, <3>1
  <2>4. Pick(Append(s \o t, e), g) = Pick(s \o t, g) \o g[e]
    <3> DEFINE u == s \o t
    <3>1. u \in Seq(S)
      BY <2>2
    <3> HIDE DEF u
    <3>2. Pick(Append(u, e), g) = Pick(u, g) \o g[e]
      BY <3>1, PickAppend
    <3> QED
      BY <3>2 DEF u
  <2>5. Pick(Append(t, e), g) = Pick(t, g) \o g[e]
    BY PickAppend
  <2>6. Pick(s, g) \in Seq(X) /\ Pick(t, g) \in Seq(X) /\ g[e] \in Seq(X)
    BY PickType DEF Gives
  <2>7. (Pick(s, g) \o Pick(t, g)) \o g[e] = Pick(s, g) \o (Pick(t, g) \o g[e])
    <3> DEFINE a == Pick(s, g)
               b == Pick(t, g)
               c == g[e]
    <3>1. a \in Seq(X) /\ b \in Seq(X) /\ c \in Seq(X)
      BY <2>6
    <3> HIDE DEF a, b, c
    <3>2. (a \o b) \o c = a \o (b \o c)
      BY <3>1, ConcatAssociative
    <3> QED
      BY <3>2 DEF a, b, c
  <2> QED
    BY <1>2, <2>1, <2>3, <2>4, <2>5, <2>7
<1> HIDE DEF T
<1>3. Seq(S) \subseteq T
  BY <1>1, <1>2, SeqInduction
<1> QED
  BY <1>3 DEF T

\* An element each, or none at all.
LEMMA PickEach ==
    ASSUME NEW S, NEW X, NEW g \in [S -> X]
    PROVE  \A s \in Seq(S) : Pick(s, [e \in S |-> <<g[e]>>]) = Each(s, g)
<1> DEFINE h == [e \in S |-> <<g[e]>>]
           T == {s \in Seq(S) : Pick(s, h) = Each(s, g)}
<1>1. Gives(h, S, X) /\ \A e \in S : h[e] = <<g[e]>>
  BY DEF Gives
<1> HIDE DEF h
<1>2. <<>> \in T
  <2>1. Each(<<>>, g) = <<>> /\ <<>> \in Seq(S)
    BY DEF Each
  <2> QED
    BY <2>1, PickEmpty
<1>3. ASSUME NEW s \in Seq(S), NEW e \in S, s \in T PROVE Append(s, e) \in T
  <2> DEFINE p == Each(s, g)
             t == Append(s, e)
             q == Each(t, g)
  <2>1. Len(s) \in Nat /\ DOMAIN s = 1..Len(s) /\ \A i \in 1..Len(s) : s[i] \in S
    BY LenProperties, ElementOfSeq
  <2>2. /\ t \in Seq(S) /\ Len(t) = Len(s) + 1 /\ t[Len(s) + 1] = e
        /\ \A i \in 1..Len(s) : t[i] = s[i]
    BY AppendProperties
  <2>3. DOMAIN t = 1..Len(s) + 1 /\ \A i \in 1..Len(s) + 1 : t[i] \in S
    BY <2>2, LenProperties, ElementOfSeq
  <2> HIDE DEF t
  <2>4. p \in Seq(X) /\ Len(p) = Len(s) /\ \A i \in 1..Len(s) : p[i] = g[s[i]]
    BY <2>1 DEF Each
  <2>5. q \in Seq(X) /\ Len(q) = Len(s) + 1
    BY <2>1, <2>3 DEF Each
  <2>6. q[Len(s) + 1] = g[e] /\ \A i \in 1..Len(s) : q[i] = g[s[i]]
    BY <2>1, <2>2, <2>3 DEF Each
  <2>7. g[e] \in X
    OBVIOUS
  <2> HIDE DEF p, q
  <2> DEFINE r == Append(p, g[e])
  <2>8. r \in Seq(X) /\ Len(r) = Len(s) + 1 /\ r[Len(s) + 1] = g[e] /\ \A i \in 1..Len(s) : r[i] = p[i]
    BY <2>4, <2>7, AppendProperties
  <2>9. r = p \o <<g[e]>>
    BY <2>4, <2>7, AppendIsConcat
  <2> HIDE DEF r
  <2>10. q = r
    <3>1. \A i \in 1..Len(s) + 1 : i \in 1..Len(s) \/ i = Len(s) + 1
      BY <2>1
    <3>2. \A i \in 1..Len(s) + 1 : q[i] = r[i]
      BY <2>4, <2>6, <2>8, <3>1
    <3> QED
      BY <2>5, <2>8, <3>2, SeqEqual
  <2>11. Pick(t, h) = Pick(s, h) \o <<g[e]>>
    <3>1. Pick(Append(s, e), h) = Pick(s, h) \o h[e]
      BY <1>1, PickAppend
    <3> QED
      BY <1>1, <3>1 DEF t
  <2>12. Pick(s, h) = p
    BY <1>3 DEF p
  <2>13. Pick(t, h) = q
    BY <2>9, <2>10, <2>11, <2>12
  <2> QED
    BY <2>2, <2>13 DEF q, t
<1> HIDE DEF T
<1>4. Seq(S) \subseteq T
  BY <1>2, <1>3, SeqInduction
<1> QED
  BY <1>4 DEF T, h

\* Where no element gives anything, nothing is picked.
LEMMA PickNone ==
    ASSUME NEW S, NEW X, NEW g, Gives(g, S, X)
    PROVE  \A s \in Seq(S) : (\A i \in 1..Len(s) : g[s[i]] = <<>>) => Pick(s, g) = <<>>
<1> DEFINE None(s) == \A i \in 1..Len(s) : g[s[i]] = <<>>
           T == {s \in Seq(S) : None(s) => Pick(s, g) = <<>>}
<1>1. <<>> \in T
  BY EmptySeq, PickEmpty
<1>2. ASSUME NEW s \in Seq(S), NEW e \in S, s \in T PROVE Append(s, e) \in T
  <2>1. /\ Append(s, e) \in Seq(S) /\ Len(Append(s, e)) = Len(s) + 1 /\ Append(s, e)[Len(s) + 1] = e
        /\ \A i \in 1..Len(s) : Append(s, e)[i] = s[i]
    BY AppendProperties
  <2>2. Len(s) \in Nat
    BY LenProperties
  <2>3. ASSUME None(Append(s, e)) PROVE Pick(Append(s, e), g) = <<>>
    <3>1. g[e] = <<>>
      BY <2>1, <2>2, <2>3
    <3>2. None(s)
      BY <2>1, <2>2, <2>3
    <3>3. Pick(Append(s, e), g) = <<>> \o <<>>
      BY <1>2, <3>1, <3>2, PickAppend
    <3>4. <<>> \o <<>> = <<>>
      BY EmptySeq, ConcatEmptySeq
    <3> QED
      BY <3>3, <3>4
  <2> QED
    BY <2>1, <2>3
<1> HIDE DEF T
<1>3. Seq(S) \subseteq T
  BY <1>1, <1>2, SeqInduction
<1> QED
  BY <1>3 DEF T

\* A number that was parsed.
LEMMA ParsedNumber ==
    ASSUME NEW b, NEW n, ParseUint(b, MaxInt) = Ok(n)
    PROVE  Number(b) = n /\ Accepts(ParseUint(b, MaxInt)) /\ ParseUint(b, MaxInt).val = n
BY Outcomes DEF Number

PublishVerb(block) == IF block = <<>> THEN <<"PUB">> ELSE <<"HPUB">>
PublishText(x, reply, block, payload) ==
    Terminated(SizedLine(PublishVerb(block), x, reply, block, payload)) \o (block \o Terminated(payload))

\* The server reads PUB and HPUB as they were encoded.
LEMMA ReadsSized ==
    ASSUME NEW x, NEW reply, NEW block \in Strings, NEW payload \in Strings,
           IsWord(x), IsOptional(reply), Bytes(block) + Bytes(payload) <= MaxInt
    PROVE  ServerReads(PublishText(x, reply, block, payload)) =
                            [kind |-> "Publish", subject |-> x, reply |-> reply, block |-> block,
                             payload |-> payload, rest |-> <<Crlf>>]
<1> DEFINE s == PublishText(x, reply, block, payload)
           v == PublishVerb(block)
           line == SizedLine(v, x, reply, block, payload)
           words == SizedWords(v, x, reply, block, payload)
           body == block \o Terminated(payload)
           n == Len(words)
           sizes == IF v = <<"HPUB">> THEN 2 ELSE 1
           h == IF sizes = 2 THEN Number(words[n - 1]) ELSE 0
           t == Number(words[n])
<1>1. s = Terminated(line) \o body
  BY DEF PublishText
<1>2. IsWord(v)
  BY VerbWord DEF Verbs, PublishVerb
<1>3. v # <<"SUB">> /\ v # <<"UNSUB">> /\ v \in {<<"PUB">>, <<"HPUB">>}
      /\ sizes = IF block = <<>> THEN 1 ELSE 2
  BY DEF PublishVerb
<1> HIDE DEF sizes, s, v
<1>4. Splits(line, words)
  BY <1>2, SizedSplits
<1>5. SizedShape(words, v, x, reply, block, payload)
  BY SizedWordsAre
<1> HIDE DEF words, line
<1>6. BodyShape(body, block, payload)
  BY BodyParts
<1> HIDE DEF body
<1>7. SplitSpaces[Line(s)] = words /\ AfterLine(s) = body
  BY <1>1, <1>4, <1>6, ControlLine DEF BodyShape
<1>8. t = Bytes(block) + Bytes(payload)
  BY <1>5, ParsedNumber DEF SizedShape
<1>9. h = IF block = <<>> THEN 0 ELSE Bytes(block)
  BY <1>3, <1>5, ParsedNumber DEF SizedShape
<1>10. CanTake(body, h) /\ Take(body, h) = Len(block) /\ CanTake(body, t)
       /\ Take(body, t) = Len(block) + Len(payload)
  <2>1. block = <<>> => Len(block) = 0
    OBVIOUS
  <2> QED
    BY <1>6, <1>8, <1>9, <2>1 DEF BodyShape
<1>11. (IF n = 3 + sizes THEN words[3] ELSE <<>>) = reply
  BY <1>3, <1>5 DEF SizedShape
<1>12. ServerReads(s) = [kind |-> "Publish", subject |-> words[2],
                         reply |-> IF n = 3 + sizes THEN words[3] ELSE <<>>,
                         block |-> SubSeq(body, 1, Take(body, h)),
                         payload |-> SubSeq(body, Take(body, h) + 1, Take(body, t)),
                         rest |-> SubSeq(body, Take(body, t) + 1, Len(body))]
  <2> HIDE DEF h, t
  <2>1. h = (IF sizes = 2 THEN Number(words[n - 1]) ELSE 0) /\ t = Number(words[n])
    BY DEF h, t
  <2>2. words[1] # <<"SUB">> /\ words[1] # <<"UNSUB">> /\ words[1] \in {<<"PUB">>, <<"HPUB">>}
        /\ sizes = IF words[1] = <<"HPUB">> THEN 2 ELSE 1
    BY <1>3, <1>5 DEF sizes, SizedShape
  <2> QED
    BY <1>7, <1>10, <2>1, <2>2 DEF ServerReads
<1> QED
  BY <1>5, <1>6, <1>10, <1>11, <1>12 DEF SizedShape, BodyShape, s

\* The same of an op.
LEMMA ReadsPublish ==
    ASSUME NEW o, IsWord(o.subject), IsOptional(o.reply), NEW block \in Strings, block = Block(o.headers),
           o.payload \in Strings, Bytes(block) + Bytes(o.payload) <= MaxInt
    PROVE  ServerReads(EncodePublish(o)) =
             [kind |-> "Publish", subject |-> o.subject, reply |-> o.reply, block |-> block,
              payload |-> o.payload, rest |-> <<Crlf>>]
<1> DEFINE x == o.subject
           reply == o.reply
           payload == o.payload
           s == EncodePublish(o)
<1>1. s = PublishText(x, reply, block, payload)
  BY DEF EncodePublish, SizedLine, PublishText, PublishVerb
<1>2. payload \in Strings /\ IsWord(x) /\ IsOptional(reply) /\ Bytes(block) + Bytes(payload) <= MaxInt
  OBVIOUS
<1> HIDE DEF x, reply, payload, s
<1>3. ServerReads(s) = [kind |-> "Publish", subject |-> x, reply |-> reply, block |-> block,
                        payload |-> payload, rest |-> <<Crlf>>]
  BY <1>1, <1>2, ReadsSized
<1> QED
  BY <1>3 DEF x, reply, payload, s

\* The line of a frame of the server, and what follows it.
LEMMA FrameParts ==
    ASSUME NEW subject, NEW reply, NEW block \in Strings, NEW payload \in Strings,
           IsWord(subject), IsOptional(reply), NEW s, s = ServerFrame(subject, reply, block, payload)
    PROVE  /\ s[1] = (IF block = <<>> THEN "MSG" ELSE "HMSG")
           /\ SubSeq(Line(s), 3, Len(Line(s))) = SizedLine(subject, Decimal[Sid], reply, block, payload)
           /\ AfterLine(s) = block \o Terminated(payload)
<1> DEFINE verb == IF block = <<>> THEN "MSG" ELSE "HMSG"
           v == <<verb>>
           d == Decimal[Sid]
           args == SizedLine(subject, d, reply, block, payload)
           words == SizedWords(subject, d, reply, block, payload)
           line == Arg(v, args)
           body == block \o Terminated(payload)
<1>1. s = Terminated(line) \o body
  BY DEF ServerFrame, SizedLine
<1>2. IsWord(v) /\ verb \in Symbols
  <2>1. verb \in Verbs
    BY DEF Verbs
  <2> HIDE DEF verb
  <2>2. IsWord(<<verb>>)
    BY <2>1, VerbWord
  <2> QED
    BY <2>1, <2>2 DEF Symbols
<1>3. IsWord(d)
  BY NumeralWord DEF Sid
<1>4. body \in Strings
  BY BodyParts DEF BodyShape
<1> HIDE DEF verb, d, body
<1>5. Splits(args, words)
  BY <1>3, SizedSplits
<1> HIDE DEF args, words
<1>6. Splits(line, <<v>> \o words)
  BY <1>2, <1>5, SplitsArg
<1>7. Line(s) = line /\ AfterLine(s) = body
  <2> HIDE DEF line
  <2> QED
    BY <1>1, <1>4, <1>6, ControlLine DEF BodyShape
<1>8. args \in Seq(Symbols)
  BY <1>5 DEF Splits, Strings
<1>9. line[1] = verb /\ SubSeq(line, 3, Len(line)) = args /\ line \in Seq(Symbols) /\ Len(line) > 0
  <2> DEFINE c == " "
             w == v \o <<c>> \o args
  <2>1. v \in Seq(Symbols) /\ Len(v) = 1 /\ v[1] = verb /\ c \in Symbols
    <3>1. c \in Symbols
      BY DEF Symbols, Blanks
    <3>2. v \in Seq(Symbols) /\ Len(v) = 1 /\ v[1] = verb
      BY <1>2
    <3> QED
      BY <3>1, <3>2
  <2>2. line = w
    BY DEF Arg
  <2> HIDE DEF c, v
  <2>3. /\ w \in Seq(Symbols) /\ Len(w) = Len(v) + 1 + Len(args) /\ Len(args) \in Nat
        /\ \A i \in 1..Len(v) : w[i] = v[i]
        /\ \A i \in 1..Len(args) : w[Len(v) + 1 + i] = args[i]
    <3>1. v \in Seq(Symbols) /\ c \in Symbols /\ args \in Seq(Symbols)
      BY <1>8, <2>1
    <3>2. w \in Seq(Symbols) /\ Len(args) \in Nat
      BY <3>1, ThreeParts
    <3>3. Len(w) = Len(v) + 1 + Len(args)
      BY <3>1, ThreeParts
    <3>4. \A i \in 1..Len(v) : w[i] = v[i]
      BY <3>1, ThreeParts
    <3>5. \A i \in 1..Len(args) : w[Len(v) + 1 + i] = args[i]
      BY <3>1, ThreeParts
    <3> HIDE DEF w
    <3> QED
      BY <3>2, <3>3, <3>4, <3>5
  <2> HIDE DEF w
  <2>4. w[1] = verb
    <3>1. 1 \in 1..Len(v)
      BY <2>1
    <3>2. w[1] = v[1]
      BY <2>3, <3>1
    <3> QED
      BY <2>1, <3>2
  <2>5. SubSeq(w, 3, Len(w)) = args
    <3>1. 3 \in 1..Len(w) + 1 /\ Len(w) \in 3 - 1..Len(w) /\ Len(args) = Len(w) - 3 + 1
      BY <2>1, <2>3
    <3>2. \A i \in 1..Len(args) : Len(v) + 1 + i = 3 + i - 1
      BY <2>1
    <3>3. \A i \in 1..Len(args) : args[i] = w[3 + i - 1]
      BY <2>3, <3>2
    <3> QED
      BY <1>8, <2>3, <3>1, <3>3, PartIs
  <2> QED
    BY <2>1, <2>2, <2>3, <2>4, <2>5
<1>10. s[1] = verb
  <2> DEFINE e == <<Crlf>>
             l == line \o e
  <2>1. e \in Seq(Symbols) /\ Len(e) = 1 /\ body \in Seq(Symbols)
    BY <1>4 DEF Symbols, Strings
  <2> HIDE DEF line, e
  <2>2. l \in Seq(Symbols) /\ Len(l) > 0 /\ l[1] = line[1] /\ Len(line) \in Nat
    <3>1. Len(line) \in Nat
      BY <1>9, LenProperties
    <3>2. l \in Seq(Symbols) /\ Len(l) = Len(line) + Len(e)
          /\ \A i \in 1..Len(line) + Len(e) : l[i] = IF i <= Len(line) THEN line[i] ELSE e[i - Len(line)]
      BY <1>9, <2>1, ConcatProperties
    <3> HIDE DEF l
    <3> QED
      BY <1>9, <2>1, <3>1, <3>2
  <2>3. s = l \o body
    BY <1>1 DEF Terminated, e
  <2> HIDE DEF l
  <2>4. Len(l) \in Nat /\ Len(body) \in Nat
    BY <2>1, <2>2, LenProperties
  <2>5. \A i \in 1..Len(l) + Len(body) : (l \o body)[i] = IF i <= Len(l) THEN l[i] ELSE body[i - Len(l)]
    BY <2>1, <2>2, ConcatProperties
  <2>6. (l \o body)[1] = l[1]
    BY <2>2, <2>4, <2>5
  <2> QED
    BY <1>9, <2>2, <2>3, <2>6
<1> HIDE DEF line
<1> QED
  BY <1>7, <1>9, <1>10 DEF verb, args, d, body

(***************************************************************************)
(* What the client reads                                                   *)
(***************************************************************************)
\* The id of the subscription is read back.
LEMMA SidParsed == ParseUint(Decimal[Sid], MaxInt) = Ok(Sid) /\ IsWord(Decimal[Sid])
<1>1. MaxInt \in Nat /\ Sid \in 0..MaxInt
  BY WireAssumption
<1>2. Sid \in Nat /\ Sid <= MaxInt
  BY <1>1
<1> QED
  BY <1>1, <1>2, ParseDecimal, NumeralWord

Args(subject, sid, header, reply, payload) ==
    [subject |-> subject, sid |-> sid, header |-> header, reply |-> reply, payload |-> payload]

\* decode_msg reads the arguments of MSG, or finds the payload too long.
LEMMA MsgArgs ==
    ASSUME NEW subject, NEW reply, NEW payload \in Strings, NEW line,
           Bytes(payload) <= MaxInt,
           SplitSpaces[line] = SizedWords(subject, Decimal[Sid], reply, <<>>, payload)
    PROVE  DecodeMsg(line) = IF Bytes(payload) > MaxMsgLen THEN Err("InvalidPayloadLength")
                             ELSE Ok(Args(subject, Sid, 0, reply, Bytes(payload)))
<1> DEFINE c == SizedWords(subject, Decimal[Sid], reply, <<>>, payload)
           total == Bytes(payload)
           size == ParseUint(c[Len(c)], MaxInt)
           sid == SubscriptionIdFrom(c[2], MaxInt)
<1>1. <<>> \in Strings /\ Bytes(<<>>) = 0 /\ Bytes(payload) \in Nat
  BY BytesEmpty, BytesType
<1>2. 0 + total = total
  BY <1>1
<1>3. Bytes(<<>>) + Bytes(payload) <= MaxInt
  BY <1>1, <1>2
<1>4. SizedShape(c, subject, Decimal[Sid], reply, <<>>, payload)
  <2> DEFINE d == Decimal[Sid]
  <2> HIDE DEF d
  <2>1. SizedShape(SizedWords(subject, d, reply, <<>>, payload), subject, d, reply, <<>>, payload)
    BY <1>1, <1>3, SizedWordsAre
  <2> QED
    BY <2>1 DEF d
<1> HIDE DEF c
<1>5. /\ c[1] = subject /\ (reply # <<>> => c[3] = reply)
      /\ Len(c) = IF reply = <<>> THEN 3 ELSE 4
      /\ c[2] = Decimal[Sid] /\ ParseUint(c[Len(c)], MaxInt) = Ok(total)
  BY <1>1, <1>2, <1>4 DEF SizedShape
<1>6. Accepts(size) /\ size.val = total
  BY <1>5, Outcomes
<1>7. Accepts(sid) /\ sid.val = Sid
  BY <1>5, SidParsed, Outcomes DEF SubscriptionIdFrom
<1>8. Len(c) \in {3, 4} /\ (IF Len(c) = 4 THEN c[3] ELSE <<>>) = reply
  BY <1>5
<1>9. SplitSpaces[line] = c
  BY DEF c
<1>10. DecodeMsg(line) =
         IF Len(c) \notin {3, 4} THEN Err("InvalidMsgArgsCount")
         ELSE IF ~Accepts(sid) THEN Err("SubscriptionId")
         ELSE IF ~Accepts(size) \/ size.val > MaxMsgLen THEN Err("InvalidPayloadLength")
         ELSE Ok([subject |-> c[1], sid |-> sid.val, header |-> 0,
                  reply |-> IF Len(c) = 4 THEN c[3] ELSE <<>>, payload |-> size.val])
  BY <1>9 DEF DecodeMsg
<1> HIDE DEF total, size, sid
<1>11. DecodeMsg(line) = IF total > MaxMsgLen THEN Err("InvalidPayloadLength")
         ELSE Ok([subject |-> c[1], sid |-> sid.val, header |-> 0,
                  reply |-> IF Len(c) = 4 THEN c[3] ELSE <<>>, payload |-> size.val])
  BY <1>6, <1>7, <1>8, <1>10
<1> QED
  BY <1>5, <1>6, <1>7, <1>8, <1>11 DEF Args, total

\* decode_hmsg reads those of HMSG.
LEMMA HmsgArgs ==
    ASSUME NEW subject, NEW reply, NEW block \in Strings, block # <<>>, NEW payload \in Strings, NEW line,
           Bytes(block) + Bytes(payload) <= MaxInt,
           SplitSpaces[line] = SizedWords(subject, Decimal[Sid], reply, block, payload)
    PROVE  DecodeHmsg(line) =
             IF Bytes(block) + Bytes(payload) > MaxMsgLen THEN Err("InvalidPayloadLength")
             ELSE Ok(Args(subject, Sid, Bytes(block), reply, Bytes(payload)))
<1> DEFINE c == SizedWords(subject, Decimal[Sid], reply, block, payload)
           head == Bytes(block)
           sum == Bytes(block) + Bytes(payload)
           header == ParseUint(c[Len(c) - 1], MaxInt)
           total == ParseUint(c[Len(c)], MaxInt)
           sid == SubscriptionIdFrom(c[2], MaxInt)
<1>1. Bytes(block) \in Nat /\ Bytes(payload) \in Nat
  BY BytesType
<1>4. SizedShape(c, subject, Decimal[Sid], reply, block, payload)
  <2> DEFINE d == Decimal[Sid]
  <2> HIDE DEF d
  <2>1. SizedShape(SizedWords(subject, d, reply, block, payload), subject, d, reply, block, payload)
    BY SizedWordsAre
  <2> QED
    BY <2>1 DEF d
<1> HIDE DEF c
<1>5. /\ c[1] = subject /\ (reply # <<>> => c[3] = reply)
      /\ Len(c) = IF reply = <<>> THEN 4 ELSE 5
      /\ c[2] = Decimal[Sid] /\ ParseUint(c[Len(c)], MaxInt) = Ok(sum)
      /\ ParseUint(c[Len(c) - 1], MaxInt) = Ok(head)
  BY <1>4 DEF SizedShape
<1>6. Accepts(total) /\ total.val = sum /\ Accepts(header) /\ header.val = head
  <2> HIDE DEF sum, head
  <2> QED
    BY <1>5, Outcomes
<1>7. Accepts(sid) /\ sid.val = Sid
  BY <1>5, SidParsed, Outcomes DEF SubscriptionIdFrom
<1>8. Len(c) \in {4, 5} /\ (IF Len(c) = 5 THEN c[3] ELSE <<>>) = reply
  BY <1>5
<1>9. SplitSpaces[line] = c
  BY DEF c
<1>10. DecodeHmsg(line) =
         IF Len(c) \notin {4, 5} THEN Err("InvalidHmsgArgsCount")
         ELSE IF ~Accepts(sid) THEN Err("SubscriptionId")
         ELSE IF ~Accepts(header) THEN Err("InvalidHeaderLength")
         ELSE IF ~Accepts(total) \/ total.val > MaxMsgLen THEN Err("InvalidPayloadLength")
         ELSE IF total.val < header.val THEN Err("InvalidTotalLength")
         ELSE Ok([subject |-> c[1], sid |-> sid.val, header |-> header.val,
                  reply |-> IF Len(c) = 5 THEN c[3] ELSE <<>>,
                  payload |-> total.val - header.val])
  BY <1>9 DEF DecodeHmsg
<1>11. ~(sum < head) /\ sum - head = Bytes(payload)
  BY <1>1
<1> HIDE DEF total, header, sid, sum, head
<1>12. DecodeHmsg(line) = IF sum > MaxMsgLen THEN Err("InvalidPayloadLength")
         ELSE Ok([subject |-> c[1], sid |-> sid.val, header |-> header.val,
                  reply |-> IF Len(c) = 5 THEN c[3] ELSE <<>>, payload |-> total.val - header.val])
  BY <1>6, <1>7, <1>8, <1>10, <1>11
<1>13. Args(subject, Sid, head, reply, Bytes(payload)) =
         [subject |-> c[1], sid |-> sid.val, header |-> header.val,
          reply |-> IF Len(c) = 5 THEN c[3] ELSE <<>>, payload |-> total.val - header.val]
  BY <1>5, <1>6, <1>7, <1>8, <1>11 DEF Args
<1> QED
  BY <1>12, <1>13 DEF sum, head

\* The headers of a message with this block.
Headers(block) ==
    IF block = <<>> THEN Ok([status |-> [code |-> 0, text |-> <<>>], headers |-> EmptyHeaders])
    ELSE DecodeHeaderBlock(block)

Message(subject, reply, h, payload) ==
    [subject |-> subject, reply |-> reply, sid |-> Sid, status |-> h.status, headers |-> h.headers,
     payload |-> payload, rest |-> <<Crlf>>]

\* decode returns what the server framed, or its only two errors.
LEMMA FrameRead ==
    ASSUME NEW subject, NEW reply, NEW block \in Strings, NEW payload \in Strings,
           IsWord(subject), IsOptional(reply), Bytes(block) + Bytes(payload) <= MaxInt
    PROVE  DecodeFrame(ServerFrame(subject, reply, block, payload)) =
             IF Bytes(block) + Bytes(payload) > MaxMsgLen THEN Err("InvalidPayloadLength")
             ELSE IF ~Accepts(Headers(block)) THEN Headers(block)
             ELSE Ok(Message(subject, reply, Headers(block).val, payload))
<1> DEFINE s == ServerFrame(subject, reply, block, payload)
           plain == s[1] = "MSG"
           args == SubSeq(Line(s), 3, Len(Line(s)))
           d == IF plain THEN DecodeMsg(args) ELSE DecodeHmsg(args)
           body == AfterLine(s)
           h == IF plain THEN Ok([status |-> [code |-> 0, text |-> <<>>], headers |-> EmptyHeaders])
                ELSE DecodeHeaderBlock(SubSeq(body, 1, Take(body, d.val.header)))
           sum == Bytes(block) + Bytes(payload)
<1>1. /\ s[1] = (IF block = <<>> THEN "MSG" ELSE "HMSG")
      /\ args = SizedLine(subject, Decimal[Sid], reply, block, payload)
      /\ body = block \o Terminated(payload)
  BY FrameParts
<1> HIDE DEF s, args, body
<1>2. SplitSpaces[args] = SizedWords(subject, Decimal[Sid], reply, block, payload)
  <2> DEFINE n == Decimal[Sid]
  <2>1. IsWord(n)
    BY SidParsed
  <2> HIDE DEF n
  <2>2. Splits(SizedLine(subject, n, reply, block, payload), SizedWords(subject, n, reply, block, payload))
    BY <2>1, SizedSplits
  <2> QED
    BY <1>1, <2>2 DEF n, Splits
<1>3. BodyShape(body, block, payload)
  BY <1>1, BodyParts
<1>4. plain <=> block = <<>>
  BY <1>1
<1>5. Bytes(block) \in Nat /\ Bytes(payload) \in Nat /\ (block = <<>> => Bytes(block) = 0 /\ Len(block) = 0)
  BY BytesType, BytesEmpty, EmptySeq
<1>6. d = IF sum > MaxMsgLen THEN Err("InvalidPayloadLength")
          ELSE Ok(Args(subject, Sid, Bytes(block), reply, Bytes(payload)))
  <2>1. CASE block = <<>>
    <3>1. sum = Bytes(payload)
      BY <1>5, <2>1
    <3>2. DecodeMsg(args) = IF Bytes(payload) > MaxMsgLen THEN Err("InvalidPayloadLength")
                            ELSE Ok(Args(subject, Sid, 0, reply, Bytes(payload)))
      <4>1. Bytes(payload) <= MaxInt
        BY <3>1
      <4>2. SplitSpaces[args] = SizedWords(subject, Decimal[Sid], reply, <<>>, payload)
        BY <1>2, <2>1
      <4> QED
        BY <4>1, <4>2, MsgArgs
    <3> HIDE DEF sum
    <3> QED
      BY <1>4, <1>5, <2>1, <3>1, <3>2
  <2>2. CASE block # <<>>
    <3>1. DecodeHmsg(args) =
             IF sum > MaxMsgLen THEN Err("InvalidPayloadLength")
             ELSE Ok(Args(subject, Sid, Bytes(block), reply, Bytes(payload)))
      BY <1>2, <2>2, HmsgArgs
    <3> QED
      BY <1>4, <2>2, <3>1
  <2> QED
    BY <2>1, <2>2
<1> DEFINE block2 == SubSeq(body, 1, Take(body, d.val.header))
           payload2 == SubSeq(body, Len(block2) + 1, Take(body, d.val.header + d.val.payload))
<1>7. DecodeFrame(s) =
        IF ~Accepts(d) THEN d
        ELSE IF ~Accepts(h) THEN h
        ELSE Ok([subject |-> d.val.subject, reply |-> d.val.reply, sid |-> d.val.sid,
                 status |-> h.val.status, headers |-> h.val.headers, payload |-> payload2,
                 rest |-> SubSeq(body, Len(block2) + Len(payload2) + 1, Len(body))])
  BY DEF DecodeFrame, args, body
<1>8. CASE sum > MaxMsgLen
  <2>1. ~Accepts(Err("InvalidPayloadLength"))
    BY Outcomes DEF NoErr
  <2> HIDE DEF d, h, block2, payload2
  <2>2. d = Err("InvalidPayloadLength")
    BY <1>6, <1>8
  <2>3. DecodeFrame(s) = Err("InvalidPayloadLength")
    BY <1>7, <2>1, <2>2
  <2> QED
    BY <1>8, <2>3 DEF s
<1>9. CASE ~(sum > MaxMsgLen)
  <2>1. d = Ok(Args(subject, Sid, Bytes(block), reply, Bytes(payload)))
    <3> HIDE DEF d
    <3> QED
      BY <1>6, <1>9
  <2>2. /\ Accepts(d) /\ d.val.subject = subject /\ d.val.sid = Sid /\ d.val.header = Bytes(block)
        /\ d.val.reply = reply /\ d.val.payload = Bytes(payload)
    <3> HIDE DEF d
    <3>1. Accepts(d) /\ d.val = Args(subject, Sid, Bytes(block), reply, Bytes(payload))
      BY <2>1, Outcomes
    <3> QED
      BY <3>1 DEF Args
  <2>3. block2 = block
    <3> HIDE DEF d
    <3> QED
      BY <1>3, <2>2 DEF BodyShape
  <2> HIDE DEF block2
  <2>4. payload2 = payload
    <3> HIDE DEF d
    <3> QED
      BY <1>3, <2>2, <2>3 DEF BodyShape
  <2>5. h = Headers(block)
    <3> HIDE DEF d
    <3>1. h = IF block = <<>> THEN Ok([status |-> [code |-> 0, text |-> <<>>], headers |-> EmptyHeaders])
              ELSE DecodeHeaderBlock(block2)
      BY <1>4 DEF block2
    <3> HIDE DEF h
    <3> QED
      BY <2>3, <3>1 DEF Headers
  <2> HIDE DEF d, h, payload2
  <2>6. DecodeFrame(s) =
          IF ~Accepts(h) THEN h
          ELSE Ok([subject |-> subject, reply |-> reply, sid |-> Sid,
                   status |-> h.val.status, headers |-> h.val.headers, payload |-> payload,
                   rest |-> SubSeq(body, Len(block) + Len(payload) + 1, Len(body))])
    BY <1>7, <2>2, <2>3, <2>4
  <2>7. SubSeq(body, Len(block) + Len(payload) + 1, Len(body)) = <<Crlf>>
    BY <1>3 DEF BodyShape
  <2>8. DecodeFrame(s) = IF ~Accepts(Headers(block)) THEN Headers(block)
                         ELSE Ok(Message(subject, reply, Headers(block).val, payload))
    BY <2>5, <2>6, <2>7 DEF Message
  <2> QED
    BY <1>9, <2>8 DEF s
<1> QED
  BY <1>8, <1>9

(***************************************************************************)
(* Lines                                                                   *)
(***************************************************************************)
Terminating == [l \in Strings |-> Terminated(l)]
Keeping == [l \in Strings |-> IF l = <<>> THEN <<>> ELSE <<l>>]

\* A terminated line is a string.
LEMMA TerminatedType ==
    ASSUME NEW l \in Strings
    PROVE  Terminated(l) \in Strings
<1>1. l \in Seq(Symbols) /\ <<Crlf>> \in Seq(Symbols)
  BY DEF Strings, Symbols
<1> QED
  BY <1>1, ConcatProperties DEF Terminated, Strings

\* Unlines and Filled, as what each line gives.
LEMMA LinePicks ==
    /\ Gives(Terminating, Strings, Symbols) /\ Gives(Keeping, Strings, Strings)
    /\ \A ls \in Seq(Strings) : Unlines(ls) = Pick(ls, Terminating) /\ Filled(ls) = Pick(ls, Keeping)
<1>1. Gives(Terminating, Strings, Symbols)
  BY TerminatedType DEF Gives, Terminating, Strings
<1>2. Gives(Keeping, Strings, Strings)
  <2>1. \A l \in Strings : (IF l = <<>> THEN <<>> ELSE <<l>>) \in Seq(Strings)
    BY EmptySeq
  <2> QED
    BY <2>1 DEF Gives, Keeping
<1>3. ASSUME NEW ls \in Seq(Strings)
      PROVE  Unlines(ls) = Pick(ls, Terminating) /\ Filled(ls) = Pick(ls, Keeping)
  <2>1. DOMAIN ls = 1..Len(ls) /\ \A i \in 1..Len(ls) : ls[i] \in Strings
    BY LenProperties, ElementOfSeq
  <2>2. Each(ls, Terminating) = [i \in DOMAIN ls |-> Terminated(ls[i])]
    BY <2>1 DEF Each, Terminating
  <2>3. Each(ls, Keeping) = [i \in DOMAIN ls |-> IF ls[i] = <<>> THEN <<>> ELSE <<ls[i]>>]
    BY <2>1 DEF Each, Keeping
  <2>4. Unlines(ls) = Pick(ls, Terminating)
    BY <2>2 DEF Unlines, Pick
  <2>5. Filled(ls) = Pick(ls, Keeping)
    BY <2>3 DEF Filled, Pick
  <2> QED
    BY <2>4, <2>5
<1> QED
  BY <1>1, <1>2, <1>3

Whole == {l \in Strings : Lacks(l, {Crlf})}     \* one line

\* No line in the empty string.
LEMMA LinesEmpty == Lines[<<>>] = <<>>
BY BytesEmpty, LinesIs

\* Lines undoes Unlines.
LEMMA LinesUnlines ==
    \A ls \in Seq(Whole) :
      /\ ls \in Seq(Strings) /\ Unlines(ls) \in Strings
      /\ Lines[Unlines(ls)] = ls
<1> DEFINE Fits(ls) == /\ ls \in Seq(Strings) /\ Unlines(ls) \in Strings
                       /\ \A t \in Strings : Lines[t] \in Seq(Strings) =>
                            Lines[Unlines(ls) \o t] = ls \o Lines[t]
           T == {ls \in Seq(Whole) : Fits(ls)}
<1>1. <<>> \in T
  <2>1. <<>> \in Seq(Whole) /\ <<>> \in Seq(Strings)
    BY EmptySeq
  <2>2. Unlines(<<>>) = <<>>
    BY <2>1, LinePicks, PickEmpty
  <2>3. <<>> \in Strings
    BY BytesEmpty
  <2>4. \A t \in Strings : <<>> \o t = t
    BY ConcatEmptySeq DEF Strings
  <2>5. \A x \in Seq(Strings) : <<>> \o x = x
    BY ConcatEmptySeq
  <2> QED
    BY <2>1, <2>2, <2>3, <2>4, <2>5
<1>2. ASSUME NEW ls \in Seq(Whole), NEW l \in Whole, ls \in T PROVE Append(ls, l) \in T
  <2> DEFINE u == Unlines(ls)
             w == Append(ls, l)
  <2>1. ls \in Seq(Strings) /\ u \in Strings /\ Fits(ls)
    BY <1>2
  <2>2. l \in Strings /\ Lacks(l, {Crlf}) /\ Terminated(l) \in Strings
    BY TerminatedType DEF Whole
  <2>3. w \in Seq(Whole)
    BY AppendProperties
  <2>4. w \in Seq(Strings) /\ w = ls \o <<l>> /\ <<l>> \in Seq(Strings)
    BY <2>1, <2>2, AppendProperties, AppendIsConcat
  <2> HIDE DEF w
  <2>5. Unlines(w) = u \o Terminated(l)
    <3>1. Pick(Append(ls, l), Terminating) = Pick(ls, Terminating) \o Terminating[l]
      BY <2>1, <2>2, LinePicks, PickAppend
    <3>2. Terminating[l] = Terminated(l)
      BY <2>2 DEF Terminating
    <3> QED
      BY <2>1, <2>4, <3>1, <3>2, LinePicks DEF w
  <2> HIDE DEF u
  <2>6. Unlines(w) \in Strings
    BY <2>1, <2>2, <2>5, BytesConcat
  <2>7. ASSUME NEW t \in Strings, Lines[t] \in Seq(Strings)
        PROVE  Lines[Unlines(w) \o t] = w \o Lines[t]
    <3> DEFINE e == Terminated(l)
               rest == e \o t
    <3>1. rest \in Strings /\ Lines[rest] = <<l>> \o Lines[t]
      BY <2>2, LineOf, LinesOf
    <3>2. <<l>> \o Lines[t] \in Seq(Strings)
      BY <2>4, <2>7, ConcatProperties
    <3>3. Lines[u \o rest] = ls \o Lines[rest]
      <4> HIDE DEF rest
      <4> QED
        BY <2>1, <3>1, <3>2 DEF u
    <3>4. (u \o e) \o t = u \o (e \o t)
      <4>1. u \in Seq(Symbols) /\ e \in Seq(Symbols) /\ t \in Seq(Symbols)
        BY <2>1, <2>2 DEF Strings
      <4> HIDE DEF e
      <4> QED
        BY <4>1, ConcatAssociative
    <3>5. (ls \o <<l>>) \o Lines[t] = ls \o (<<l>> \o Lines[t])
      <4> DEFINE o == <<l>>
                 x == Lines[t]
      <4>1. ls \in Seq(Strings) /\ o \in Seq(Strings) /\ x \in Seq(Strings)
        BY <2>1, <2>4, <2>7
      <4> HIDE DEF o, x
      <4>2. (ls \o o) \o x = ls \o (o \o x)
        BY <4>1, ConcatAssociative
      <4> QED
        BY <4>2 DEF o, x
    <3> QED
      BY <2>4, <2>5, <3>1, <3>3, <3>4, <3>5
  <2> QED
    BY <2>3, <2>4, <2>6, <2>7 DEF w
<1> HIDE DEF T
<1>3. Seq(Whole) \subseteq T
  BY <1>1, <1>2, SeqInduction
<1>4. ASSUME NEW ls \in Seq(Whole)
      PROVE  ls \in Seq(Strings) /\ Unlines(ls) \in Strings /\ Lines[Unlines(ls)] = ls
  <2>1. ls \in T
    BY <1>3
  <2>2. Fits(ls)
    BY <2>1 DEF T
  <2>3. <<>> \in Strings /\ Lines[<<>>] \in Seq(Strings) /\ Lines[<<>>] = <<>>
    BY BytesEmpty, LinesEmpty, EmptySeq
  <2>4. Lines[Unlines(ls) \o <<>>] = ls \o <<>>
    BY <2>2, <2>3
  <2>5. Unlines(ls) \o <<>> = Unlines(ls) /\ ls \o <<>> = ls
    BY <2>2, ConcatEmptySeq DEF Strings
  <2> QED
    BY <2>2, <2>4, <2>5
<1> QED
  BY <1>4

\* A block: its head, its lines, and an empty line.
BlockText(head, lines) == Unlines(<<head>> \o lines \o << <<>> >>)

\* The head and the lines of a block are found again.
LEMMA BlockLines ==
    ASSUME NEW head \in Whole, NEW lines \in Seq(Whole), \A i \in 1..Len(lines) : lines[i] # <<>>
    PROVE  /\ BlockText(head, lines) \in Strings /\ BlockText(head, lines) # <<>>
           /\ Lines[BlockText(head, lines)] # <<>>
           /\ Head(Lines[BlockText(head, lines)]) = head
           /\ Filled(Tail(Lines[BlockText(head, lines)])) = lines
<1> DEFINE o == <<head>>
           e == << <<>> >>
           all == o \o lines \o e
           rest == lines \o e
<1>1. o \in Seq(Whole) /\ e \in Seq(Whole)
  <2>1. <<>> \in Whole
    BY BytesEmpty, EmptySeq DEF Whole, Lacks
  <2> QED
    BY <2>1
<1> HIDE DEF e
<1>2. rest \in Seq(Whole) /\ Len(rest) = Len(lines) + Len(e)
  <2> HIDE DEF o
  <2> QED
    BY <1>1, ConcatProperties
<1>3. all = <<head>> \o rest
  <2> HIDE DEF o
  <2>1. (o \o lines) \o e = o \o (lines \o e)
    BY <1>1, ConcatAssociative
  <2> QED
    BY <2>1 DEF o
<1> HIDE DEF all, rest
<1>4. all \in Seq(Whole) /\ Len(all) = 1 + Len(rest) /\ all[1] = head
      /\ \A i \in 1..Len(rest) : all[1 + i] = rest[i]
  <2> DEFINE w == <<head>> \o rest
  <2>1. head \in Whole /\ rest \in Seq(Whole)
    BY <1>2
  <2>2. w \in Seq(Whole) /\ Len(w) = 1 + Len(rest) /\ w[1] = head
        /\ \A i \in 1..Len(rest) : w[1 + i] = rest[i]
    BY <2>1, Prepend
  <2>3. all = w
    BY <1>3
  <2> HIDE DEF w
  <2> QED
    BY <2>2, <2>3
<1>5. Len(rest) \in Nat
  BY <1>2, LenProperties
<1>6. all # <<>>
  BY <1>4, <1>5
<1>7. Head(all) = head
  BY <1>4
<1>8. Tail(all) = rest
  <2>1. Tail(all) \in Seq(Whole) /\ Len(Tail(all)) = Len(all) - 1
        /\ \A i \in 1..Len(Tail(all)) : Tail(all)[i] = all[i + 1]
    BY <1>4, <1>6, HeadTailProperties
  <2>2. Len(Tail(all)) = Len(rest)
    BY <1>4, <1>5, <2>1
  <2>3. \A i \in 1..Len(rest) : i + 1 = 1 + i
    BY <1>5
  <2>4. \A i \in 1..Len(rest) : Tail(all)[i] = rest[i]
    BY <1>4, <2>1, <2>2, <2>3
  <2> QED
    BY <1>2, <2>1, <2>2, <2>4, SeqEqual
<1>9. Unlines(all) \in Strings /\ Lines[Unlines(all)] = all
  BY <1>4, LinesUnlines
<1>10. Unlines(all) # <<>>
  BY <1>6, <1>9, LinesEmpty
<1>11. Filled(rest) = lines
  <2>1. lines \in Seq(Strings) /\ e \in Seq(Strings) /\ rest \in Seq(Strings)
    BY <1>1, <1>2, LinesUnlines
  <2>2. Filled(rest) = Pick(lines, Keeping) \o Pick(e, Keeping)
    <3>1. Filled(rest) = Pick(rest, Keeping) /\ Gives(Keeping, Strings, Strings)
      BY <2>1, LinePicks
    <3>2. Pick(lines \o e, Keeping) = Pick(lines, Keeping) \o Pick(e, Keeping)
      BY <2>1, <3>1, PickConcat
    <3> QED
      BY <3>1, <3>2 DEF rest
  <2>3. Pick(e, Keeping) = <<>>
    <3>1. <<>> \in Strings /\ Gives(Keeping, Strings, Strings)
      BY BytesEmpty, LinePicks
    <3>2. Keeping[<<>>] = <<>>
      BY <3>1 DEF Keeping
    <3>3. Pick(<< <<>> >>, Keeping) = Keeping[<<>>]
      BY <3>1, PickOne
    <3> QED
      BY <3>2, <3>3 DEF e
  <2>4. Pick(lines, Keeping) = lines
    <3> DEFINE Texts == Strings \ {<<>>}
               same == [l \in Texts |-> l]
    <3>1. DOMAIN lines = 1..Len(lines) /\ Len(lines) \in Nat /\ \A i \in 1..Len(lines) : lines[i] \in Strings
      BY <2>1, LenProperties, ElementOfSeq
    <3>2. \A i \in 1..Len(lines) : lines[i] \in Texts
      BY <3>1
    <3>3. lines \in Seq(Texts)
      BY <3>1, <3>2, LenProperties
    <3>4. Each(lines, Keeping) = Each(lines, [l \in Texts |-> <<same[l]>>])
      BY <3>1, <3>2 DEF Each, Keeping
    <3>5. Each(lines, same) = lines
      BY <3>1, <3>2, <2>1 DEF Each
    <3>6. same \in [Texts -> Texts]
      OBVIOUS
    <3> HIDE DEF Texts, same
    <3>7. Pick(lines, [l \in Texts |-> <<same[l]>>]) = Each(lines, same)
      BY <3>3, <3>6, PickEach
    <3> QED
      BY <3>4, <3>5, <3>7 DEF Pick
  <2>5. lines \o <<>> = lines
    BY <2>1, ConcatEmptySeq
  <2> QED
    BY <2>2, <2>3, <2>4, <2>5
<1> QED
  BY <1>6, <1>7, <1>8, <1>9, <1>10, <1>11 DEF BlockText, all, o, e

(***************************************************************************)
(* Header blocks                                                           *)
(***************************************************************************)
GoodPairs == {p \in Strings \X Strings : Accepts(NewHeaderName(p[1])) /\ Accepts(NewHeaderValue(p[2]))}

\* What validate_header_name and validate_header_value_bytes accept.
LEMMA GoodNameValue ==
    ASSUME NEW s \in Strings
    PROVE  /\ Accepts(NewHeaderName(s)) => s # <<>> /\ Lacks(s, HighBytes \cup {Crlf, ":"})
           /\ Accepts(NewHeaderValue(s)) => Lacks(s, {Crlf})
<1>1. DOMAIN s = 1..Len(s)
  BY LenProperties DEF Strings
<1>2. NoErr # "Empty" /\ NoErr # "IllegalCharacter"
  BY DEF NoErr
<1>3. Accepts(NewHeaderName(s)) => s # <<>> /\ ~ \E i \in DOMAIN s : s[i] \in HighBytes \cup {Crlf, ":"}
  BY <1>2 DEF Accepts, NewHeaderName, Checked, ValidateHeaderName, Err, Ok
<1>4. Accepts(NewHeaderValue(s)) => ~ \E i \in DOMAIN s : s[i] = Crlf
  BY <1>2 DEF Accepts, NewHeaderValue, Checked, ValidateHeaderValue, Err, Ok
<1> QED
  BY <1>1, <1>3, <1>4 DEF Lacks

\* The two symbols between a name and its value.
LEMMA ColonBlank == <<":">> \o <<" ">> = <<":", " ">> /\ <<" ">> \in Strings /\ ":" \in Symbols
<1> DEFINE a == ":"
           b == " "
           s == <<b>>
           t == <<a, b>>
<1>1. a \in Symbols /\ b \in Symbols
  BY DEF Symbols, Blanks
<1> HIDE DEF a, b
<1>2. s \in Seq(Symbols) /\ Len(s) = 1 /\ s[1] = b /\ t \in Seq(Symbols) /\ Len(t) = 2 /\ t[1] = a /\ t[2] = b
  BY <1>1
<1> HIDE DEF s, t
<1>3. Len(t) = 1 + Len(s) /\ \A i \in 1..Len(s) : t[1 + i] = s[i]
  <2>1. \A i \in 1..Len(s) : i = 1 /\ 1 + i = 2
    BY <1>2
  <2> QED
    BY <1>2, <2>1
<1>4. <<a>> \o s = t
  BY <1>1, <1>2, <1>3, PrependIs
<1> QED
  BY <1>1, <1>2, <1>4 DEF s, t, a, b, Strings

\* A header line, cut at its colon.
LEMMA HeaderLineIs ==
    ASSUME NEW name \in Strings, NEW text \in Strings
    PROVE  name \o <<":", " ">> \o text = name \o <<":">> \o (<<" ">> \o text)
<1> DEFINE c == <<":">>
           b == <<" ">>
<1>1. c \in Strings /\ b \in Strings
  <2> DEFINE x == ":"
  <2>1. x \in Symbols
    BY ColonBlank
  <2> HIDE DEF x
  <2>2. <<x>> \in Strings
    BY <2>1 DEF Strings
  <2> QED
    BY <2>2, ColonBlank DEF x
<1>2. <<":", " ">> = c \o b
  BY ColonBlank
<1> HIDE DEF c, b
<1>3. (name \o (c \o b)) \o text = (name \o c) \o (b \o text)
  <2> DEFINE m == name \o c
  <2>1. name \in Seq(Symbols) /\ c \in Seq(Symbols) /\ b \in Seq(Symbols) /\ text \in Seq(Symbols)
    BY <1>1 DEF Strings
  <2>2. (name \o c) \o b = name \o (c \o b)
    BY <2>1, ConcatAssociative
  <2>3. m \in Seq(Symbols)
    BY <2>1, ConcatProperties
  <2> HIDE DEF m
  <2>4. (m \o b) \o text = m \o (b \o text)
    <3>1. m \in Seq(Symbols) /\ b \in Seq(Symbols) /\ text \in Seq(Symbols)
      BY <2>1, <2>3
    <3> QED
      BY <3>1, ConcatAssociative
  <2> QED
    BY <2>2, <2>4 DEF m
<1> QED
  BY <1>2, <1>3 DEF c, b

\* The name and the value of a header line are read back.
LEMMA HeaderLineRead ==
    ASSUME NEW name \in Strings, NEW value \in Strings,
           Accepts(NewHeaderName(name)), Accepts(NewHeaderValue(value)), NEW p, p = <<name, value>>
    PROVE  /\ HeaderLine(p) \in Whole /\ HeaderLine(p) # <<>>
           /\ DecodeHeaderLine(HeaderLine(p)) = Ok(p)
<1> DEFINE c == ":"
           b == " "
           bs == <<b>>
           rest == bs \o value
           line == name \o <<c>> \o rest
           HL == HeaderLine(p)
<1>1. c \in Symbols /\ bs \in Seq(Symbols) /\ Len(bs) = 1 /\ bs[1] = b /\ b \in Blanks /\ b # Crlf
      /\ name \in Seq(Symbols) /\ value \in Seq(Symbols) /\ c # Crlf
  BY ColonBlank DEF Strings, Blanks, Crlf
<1>2. name # <<>> /\ Lacks(name, {c}) /\ Lacks(name, {Crlf}) /\ Lacks(value, {Crlf})
  BY GoodNameValue DEF Lacks
<1>3. HL = line
  BY HeaderLineIs DEF HeaderLine
<1>4. /\ rest \in Seq(Symbols) /\ Len(rest) = 1 + Len(value) /\ rest[1] = b
      /\ \A i \in 1..Len(value) : rest[1 + i] = value[i]
  <2>1. b \in Symbols /\ rest = <<b>> \o value
    BY <1>1, ColonBlank DEF Symbols, Blanks
  <2> HIDE DEF rest, b
  <2> QED
    BY <1>1, <2>1, Prepend
<1>5. Len(value) \in Nat /\ Len(name) \in Nat
  BY BytesType
<1> HIDE DEF c, b, bs, rest, HL
<1>6. /\ FirstOf(line, {c}) = Len(name) + 1
      /\ SubSeq(line, 1, Len(name)) = name
      /\ SubSeq(line, Len(name) + 2, Len(line)) = rest
  <2> DEFINE set == {c}
  <2>1. c \in set /\ Lacks(name, set) /\ name \in Seq(Symbols) /\ c \in Symbols /\ rest \in Seq(Symbols)
    BY <1>1, <1>2, <1>4
  <2> HIDE DEF set
  <2>2. FirstOf(line, set) = Len(name) + 1 /\ SubSeq(line, 1, Len(name)) = name
        /\ SubSeq(line, Len(name) + 2, Len(line)) = rest
    BY <2>1, ThreePartsCut
  <2> QED
    BY <2>2 DEF set
<1>7. /\ line \in Seq(Symbols) /\ Len(line) = Len(name) + 1 + Len(rest)
      /\ \A i \in 1..Len(name) : line[i] = name[i]
      /\ line[Len(name) + 1] = c
      /\ \A i \in 1..Len(rest) : line[Len(name) + 1 + i] = rest[i]
  <2>1. name \in Seq(Symbols) /\ c \in Symbols /\ rest \in Seq(Symbols)
    BY <1>1, <1>4
  <2> QED
    BY <2>1, ThreeParts
<1> HIDE DEF line
<1>8. rest # <<>> /\ Tail(rest) = value
  <2>1. rest # <<>>
    BY <1>4, <1>5, EmptySeq
  <2>2. Tail(rest) \in Seq(Symbols) /\ Len(Tail(rest)) = Len(rest) - 1
        /\ \A i \in 1..Len(Tail(rest)) : Tail(rest)[i] = rest[i + 1]
    BY <1>4, <2>1, HeadTailProperties
  <2>3. Len(Tail(rest)) = Len(value)
    BY <1>4, <1>5, <2>2
  <2>4. \A i \in 1..Len(value) : i + 1 = 1 + i
    BY <1>5
  <2>5. \A i \in 1..Len(value) : Tail(rest)[i] = value[i]
    BY <1>4, <2>2, <2>3, <2>4
  <2>6. Tail(rest) = value
    BY <1>1, <2>2, <2>3, <2>5, SeqEqual
  <2> QED
    BY <2>1, <2>6
<1>9. line # <<>>
  BY <1>4, <1>5, <1>7, EmptySeq
<1>10. Lacks(line, {Crlf})
  <2>1. Lacks(rest, {Crlf})
    <3>1. \A i \in 1..Len(rest) : i = 1 \/ (i - 1 \in 1..Len(value) /\ 1 + (i - 1) = i)
      BY <1>4, <1>5
    <3>2. \A i \in 1..Len(rest) : i - 1 \in 1..Len(value) => rest[1 + (i - 1)] = value[i - 1]
      BY <1>4
    <3> QED
      BY <1>1, <1>2, <1>4, <3>1, <3>2 DEF Lacks
  <2>2. Len(rest) \in Nat
    BY <1>4, <1>5
  <2>3. \A i \in 1..Len(line) : i \in 1..Len(name) \/ i = Len(name) + 1
          \/ (i - (Len(name) + 1) \in 1..Len(rest) /\ Len(name) + 1 + (i - (Len(name) + 1)) = i)
    BY <1>5, <1>7, <2>2
  <2>4. \A i \in 1..Len(line) : i - (Len(name) + 1) \in 1..Len(rest) =>
          line[Len(name) + 1 + (i - (Len(name) + 1))] = rest[i - (Len(name) + 1)]
    BY <1>7
  <2>5. ASSUME NEW i \in 1..Len(line) PROVE line[i] # Crlf
    <3>1. CASE i \in 1..Len(name)
      BY <1>2, <1>7, <3>1 DEF Lacks
    <3>2. CASE i = Len(name) + 1
      BY <1>1, <1>7, <3>2
    <3>3. CASE i - (Len(name) + 1) \in 1..Len(rest) /\ Len(name) + 1 + (i - (Len(name) + 1)) = i
      <4>1. line[i] = rest[i - (Len(name) + 1)]
        BY <2>4, <3>3
      <4> QED
        BY <2>1, <3>3, <4>1 DEF Lacks
    <3> QED
      BY <2>3, <3>1, <3>2, <3>3
  <2> QED
    BY <2>5 DEF Lacks
<1>11. HL \in Whole /\ HL # <<>>
  BY <1>3, <1>7, <1>9, <1>10 DEF Whole, Strings
<1>12. DecodeHeaderLine(line) = Ok(p)
  <2>1. Len(name) + 1 # 0 /\ Len(name) + 1 - 1 = Len(name) /\ Len(name) + 1 + 1 = Len(name) + 2
    BY <1>5
  <2>2. FirstOf(line, {":"}) = Len(name) + 1
    BY <1>6 DEF c
  <2>3. SubSeq(line, 1, Len(name) + 1 - 1) = name /\ SubSeq(line, Len(name) + 1 + 1, Len(line)) = rest
    BY <1>6, <2>1
  <2>4. (IF rest # <<>> /\ rest[1] \in Blanks THEN Tail(rest) ELSE rest) = value
    BY <1>1, <1>4, <1>8
  <2>5. NewHeaderName(name).val = name
    <3>1. ValidateHeaderName(name) = NoErr
      BY DEF Accepts, NewHeaderName, Checked, Err, Ok
    <3> QED
      BY <3>1 DEF NewHeaderName, Checked, Ok
  <2> DEFINE k == Len(name) + 1
  <2> HIDE DEF k
  <2>6. DecodeHeaderLine(line) =
          IF k = 0 THEN Err("InvalidHeaderLine")
          ELSE IF ~Accepts(NewHeaderName(name)) THEN Err("HeaderName")
          ELSE Ok(<<NewHeaderName(name).val, value>>)
    <3> DEFINE colon == FirstOf(line, {":"})
               rest2 == SubSeq(line, colon + 1, Len(line))
               value2 == IF rest2 # <<>> /\ rest2[1] \in Blanks THEN Tail(rest2) ELSE rest2
               name2 == NewHeaderName(SubSeq(line, 1, colon - 1))
    <3>1. DecodeHeaderLine(line) =
            IF colon = 0 THEN Err("InvalidHeaderLine")
            ELSE IF ~Accepts(name2) THEN Err("HeaderName") ELSE Ok(<<name2.val, value2>>)
      BY DEF DecodeHeaderLine
    <3>2. colon = k
      BY <2>2 DEF k
    <3> HIDE DEF colon
    <3>3. rest2 = rest
      BY <2>3, <3>2 DEF k
    <3> HIDE DEF rest2
    <3>4. name2 = NewHeaderName(name)
      <4>1. SubSeq(line, 1, colon - 1) = name
        BY <2>3, <3>2 DEF k
      <4> QED
        BY <4>1
    <3> HIDE DEF rest2, name2
    <3>5. value2 = value
      BY <2>4, <3>3
    <3> HIDE DEF value2
    <3> QED
      BY <3>1, <3>2, <3>4, <3>5
  <2> QED
    BY <2>1, <2>5, <2>6 DEF k
<1> QED
  BY <1>3, <1>11, <1>12 DEF HL

\* The same of a pair.
LEMMA GoodPairRead ==
    ASSUME NEW p \in GoodPairs
    PROVE  /\ HeaderLine(p) \in Whole /\ HeaderLine(p) # <<>>
           /\ DecodeHeaderLine(HeaderLine(p)) = Ok(p)
<1>1. PICK name \in Strings, value \in Strings : p = <<name, value>>
  BY DEF GoodPairs
<1>2. Accepts(NewHeaderName(name)) /\ Accepts(NewHeaderValue(value))
  BY <1>1 DEF GoodPairs
<1> QED
  BY <1>1, <1>2, HeaderLineRead

LineTexts(pairs) == [i \in DOMAIN pairs |-> HeaderLine(pairs[i])]

\* decode_headers undoes encode_headers, up to the map it collects.
LEMMA BlockRead ==
    ASSUME NEW head \in Whole, NEW pairs \in Seq(GoodPairs)
    PROVE  /\ BlockText(head, LineTexts(pairs)) \in Strings
           /\ BlockText(head, LineTexts(pairs)) # <<>>
           /\ DecodeHeaderBlock(BlockText(head, LineTexts(pairs))) =
                IF ~Accepts(DecodeHead(head)) THEN DecodeHead(head)
                ELSE Ok([status |-> DecodeHead(head).val, headers |-> CollectHeaders[pairs]])
<1> DEFINE texts == LineTexts(pairs)
           block == BlockText(head, texts)
           lines == Lines[block]
           body == Filled(Tail(lines))
           parsed == [i \in DOMAIN body |-> DecodeHeaderLine(body[i])]
           wrong == {i \in DOMAIN body : ~Accepts(parsed[i])}
           h == DecodeHead(Head(lines))
<1>1. Len(pairs) \in Nat /\ DOMAIN pairs = 1..Len(pairs) /\ \A i \in 1..Len(pairs) : pairs[i] \in GoodPairs
  BY LenProperties, ElementOfSeq
<1>2. \A i \in 1..Len(pairs) :
        /\ HeaderLine(pairs[i]) \in Whole /\ HeaderLine(pairs[i]) # <<>>
        /\ DecodeHeaderLine(HeaderLine(pairs[i])) = Ok(pairs[i])
  BY <1>1, GoodPairRead
<1>3. /\ texts \in Seq(Whole) /\ Len(texts) = Len(pairs) /\ DOMAIN texts = 1..Len(pairs)
      /\ \A i \in 1..Len(texts) : texts[i] = HeaderLine(pairs[i])
  BY <1>1, <1>2 DEF LineTexts
<1> HIDE DEF texts
<1>4. \A i \in 1..Len(texts) : texts[i] # <<>>
  BY <1>2, <1>3
<1>5. block \in Strings /\ block # <<>> /\ lines # <<>> /\ Head(lines) = head /\ body = texts
  BY <1>3, <1>4, BlockLines
<1> HIDE DEF block, lines, body
<1>6. \A i \in DOMAIN body : parsed[i] = Ok(pairs[i])
  BY <1>2, <1>3, <1>5
<1>7. \A i \in DOMAIN body : Accepts(parsed[i]) /\ parsed[i].val = pairs[i]
  <2> HIDE DEF parsed
  <2> QED
    BY <1>6, Outcomes
<1>8. wrong = {}
  BY <1>7
<1>9. [i \in DOMAIN body |-> parsed[i].val] = pairs
  <2> HIDE DEF parsed
  <2>1. DOMAIN body = DOMAIN pairs
    BY <1>1, <1>3, <1>5
  <2>2. [i \in DOMAIN body |-> parsed[i].val] = [i \in DOMAIN pairs |-> pairs[i]]
    BY <1>7, <2>1
  <2>3. [i \in DOMAIN pairs |-> pairs[i]] = pairs
    BY <1>1
  <2> QED
    BY <2>2, <2>3
<1>10. DecodeHeaderBlock(block) =
         IF lines = <<>> THEN Err("MissingHead")
         ELSE IF ~Accepts(h) THEN h
         ELSE IF wrong # {} THEN parsed[Min(wrong)]
         ELSE Ok([status |-> h.val,
                  headers |-> CollectHeaders[[i \in DOMAIN body |-> parsed[i].val]]])
  BY DEF DecodeHeaderBlock, lines, body
<1>11. h = DecodeHead(head)
  BY <1>5
<1> HIDE DEF h, wrong, parsed
<1>12. DecodeHeaderBlock(block) = IF ~Accepts(h) THEN h
                              ELSE Ok([status |-> h.val, headers |-> CollectHeaders[pairs]])
  BY <1>5, <1>8, <1>9, <1>10
<1> QED
  BY <1>5, <1>11, <1>12 DEF block, texts

\* The head encode_headers writes has no status.
LEMMA BareHead ==
    /\ <<"NATS/1.0">> \in Whole
    /\ DecodeHead(<<"NATS/1.0">>) = Ok([code |-> 0, text |-> <<>>])
<1> DEFINE v == "NATS/1.0"
           head == <<v>>
<1>1. v \in Symbols /\ v # Crlf
  BY DEF Symbols, Verbs, Crlf
<1>2. head \in Whole
  <2> HIDE DEF v
  <2> QED
    BY <1>1 DEF Whole, Lacks, Strings
<1>3. head # <<>> /\ head[1] = v /\ Tail(head) = <<>> /\ Len(<<>>) = 0
  <2>1. Len(head) = 1 /\ head[1] = v /\ head \in Seq({v}) /\ head # <<>>
    OBVIOUS
  <2> HIDE DEF head
  <2>2. Tail(head) \in Seq({v}) /\ Len(Tail(head)) = Len(head) - 1
    BY <2>1, HeadTailProperties
  <2>3. Len(Tail(head)) = 0
    BY <2>1, <2>2
  <2>4. Tail(head) = <<>>
    BY <2>2, <2>3, EmptySeq
  <2>5. Len(<<>>) = 0
    BY EmptySeq
  <2> QED
    BY <2>1, <2>4, <2>5
<1> HIDE DEF head
<1>4. Len(Tail(head)) < 4
  BY <1>3
<1>5. DecodeHead(head) = Ok([code |-> 0, text |-> <<>>])
  BY <1>3, <1>4 DEF DecodeHead
<1> QED
  BY <1>2, <1>5 DEF head

\* A block without lines, as the server's own answers have it.
LEMMA StatusBlockIs ==
    ASSUME NEW line \in Strings, Lacks(line, {Crlf})
    PROVE  /\ <<"NATS/1.0">> \o line \in Whole
           /\ StatusBlock(line) = BlockText(<<"NATS/1.0">> \o line, LineTexts(<<>>))
           /\ <<>> \in Seq(GoodPairs)
<1> DEFINE v == <<"NATS/1.0">>
           head == v \o line
<1>1. v \in Whole /\ Len(v) = 1
  BY BareHead
<1> HIDE DEF v
<1>2. head \in Whole
  <2>1. v \in Seq(Symbols) /\ line \in Seq(Symbols) /\ Len(line) \in Nat /\ Lacks(v, {Crlf})
    BY <1>1, BytesType DEF Whole, Strings
  <2>2. head \in Seq(Symbols) /\ Len(head) = Len(v) + Len(line)
        /\ \A i \in 1..Len(v) + Len(line) : head[i] = IF i <= Len(v) THEN v[i] ELSE line[i - Len(v)]
    BY <2>1, ConcatProperties
  <2> HIDE DEF head
  <2>3. \A i \in 1..Len(head) : i \in 1..Len(v) \/ (~(i <= Len(v)) /\ i - Len(v) \in 1..Len(line))
    BY <1>1, <2>1, <2>2
  <2>4. \A i \in 1..Len(head) : head[i] # Crlf
    BY <1>1, <2>1, <2>2, <2>3 DEF Lacks
  <2> QED
    BY <2>2, <2>4 DEF Whole, Lacks, Strings
<1> HIDE DEF head
<1>3. LineTexts(<<>>) = <<>>
  BY DEF LineTexts
<1>4. <<head>> \o <<>> = <<head>>
  <2>1. <<head>> \in Seq(Whole)
    BY <1>2
  <2> QED
    BY <2>1, ConcatEmptySeq
<1>5. <<head>> \o << <<>> >> = << head, <<>> >>
  <2>1. head \in Strings /\ <<>> \in Strings
    BY <1>2, BytesEmpty DEF Whole
  <2> QED
    BY <2>1, Words2
<1>6. <<>> \in Seq(GoodPairs)
  BY EmptySeq
<1> QED
  BY <1>2, <1>3, <1>4, <1>5, <1>6 DEF StatusBlock, BlockText, head, v

(***************************************************************************)
(* Status codes                                                            *)
(***************************************************************************)
\* One more digit, or what is none.
LEMMA NextDigitIs ==
    ASSUME NEW acc, NEW b, NEW max \in Nat
    PROVE  /\ ~Accepts(acc) => ~Accepts(NextDigit(acc, b, max))
           /\ ~IsAsciiDigit(b) => ~Accepts(NextDigit(acc, b, max))
           /\ \A n \in Nat, d \in 0..9 :
                acc = Ok(n) /\ b = Digits[d + 1] /\ n * 10 + d <= max =>
                  NextDigit(acc, b, max) = Ok(n * 10 + d)
<1>1. ~Accepts(Err("InvalidByte"))
  BY Outcomes DEF NoErr
<1>2. ~Accepts(acc) => ~Accepts(NextDigit(acc, b, max))
  BY DEF NextDigit
<1>3. ~IsAsciiDigit(b) => ~Accepts(NextDigit(acc, b, max))
  BY <1>1 DEF NextDigit
<1>4. ASSUME NEW n \in Nat, NEW d \in 0..9, acc = Ok(n), b = Digits[d + 1], n * 10 + d <= max
      PROVE  NextDigit(acc, b, max) = Ok(n * 10 + d)
  <2>1. IsAsciiDigit(b) /\ DigitOf(b) = d
    BY <1>4, DigitsAre, DigitOfIs
  <2>2. Accepts(acc) /\ acc.val = n
    BY <1>4, Outcomes
  <2>3. ~(n * 10 + d > max)
    BY <1>4
  <2> QED
    BY <2>1, <2>2, <2>3 DEF NextDigit
<1> QED
  BY <1>2, <1>3, <1>4

Value(i, j, k) == (i * 10 + j) * 10 + k

\* Three symbols are read one after the other.
LEMMA ThreeParsed ==
    ASSUME NEW a \in Symbols, NEW b \in Symbols, NEW c \in Symbols, NEW max \in Nat
    PROVE  ParseUint(<<a, b, c>>, max) = NextDigit(NextDigit(NextDigit(Ok(0), a, max), b, max), c, max)
<1>1. <<>> \in Strings /\ <<a>> \in Strings /\ <<a, b>> \in Strings /\ <<a>> # <<>> /\ <<a, b>> # <<>>
  BY DEF Strings
<1>2. <<a>> = Append(<<>>, a) /\ <<a, b>> = Append(<<a>>, b) /\ <<a, b, c>> = Append(<<a, b>>, c)
  OBVIOUS
<1>3. ParseUint(Append(<<>>, a), max) = NextDigit(Ok(0), a, max)
  BY <1>1, ParseAppend
<1>4. ParseUint(Append(<<a>>, b), max) = NextDigit(ParseUint(<<a>>, max), b, max)
  BY <1>1, ParseAppend
<1>5. ParseUint(Append(<<a, b>>, c), max) = NextDigit(ParseUint(<<a, b>>, max), c, max)
  BY <1>1, ParseAppend
<1> QED
  BY <1>2, <1>3, <1>4, <1>5

\* Only digits are read.
LEMMA ThreeDigits ==
    ASSUME NEW a \in Symbols, NEW b \in Symbols, NEW c \in Symbols, NEW max \in Nat,
           Accepts(ParseUint(<<a, b, c>>, max))
    PROVE  IsAsciiDigit(a) /\ IsAsciiDigit(b) /\ IsAsciiDigit(c)
<1> DEFINE P1 == NextDigit(Ok(0), a, max)
           P2 == NextDigit(P1, b, max)
           P3 == NextDigit(P2, c, max)
<1>1. Accepts(P3)
  BY ThreeParsed
<1>2. Accepts(P3) => Accepts(P2) /\ IsAsciiDigit(c)
  <2> HIDE DEF P2
  <2> QED
    BY NextDigitIs
<1>3. Accepts(P2) => Accepts(P1) /\ IsAsciiDigit(b)
  <2> HIDE DEF P1
  <2> QED
    BY NextDigitIs
<1>4. Accepts(P1) => IsAsciiDigit(a)
  BY NextDigitIs
<1> HIDE DEF P1, P2, P3
<1> QED
  BY <1>1, <1>2, <1>3, <1>4

\* And they are read as the number they write.
LEMMA ThreeValue ==
    ASSUME NEW i \in 0..9, NEW j \in 0..9, NEW k \in 0..9, NEW max \in Nat, max >= 999
    PROVE  ParseUint(<<Digits[i + 1], Digits[j + 1], Digits[k + 1]>>, max) = Ok(Value(i, j, k))
<1> DEFINE a == Digits[i + 1]
           b == Digits[j + 1]
           c == Digits[k + 1]
           P1 == NextDigit(Ok(0), a, max)
           P2 == NextDigit(P1, b, max)
           P3 == NextDigit(P2, c, max)
           m == i * 10 + j
           n == m * 10 + k
<1>1. a \in Symbols /\ b \in Symbols /\ c \in Symbols
  BY DigitsAre
<1>2. a = Digits[i + 1] /\ b = Digits[j + 1] /\ c = Digits[k + 1]
  OBVIOUS
<1>3. 0 * 10 + i = i /\ i <= max /\ i \in Nat /\ m <= max /\ m \in Nat /\ n <= max /\ n \in Nat
  OBVIOUS
<1> HIDE DEF a, b, c, P1, P2, P3, n
<1>4. P1 = Ok(i)
  <2>1. NextDigit(Ok(0), a, max) = Ok(0 * 10 + i)
    BY <1>2, <1>3, NextDigitIs
  <2> QED
    BY <1>3, <2>1 DEF P1
<1>5. P2 = Ok(m)
  BY <1>2, <1>3, <1>4, NextDigitIs DEF P2
<1> HIDE DEF m
<1>6. P3 = Ok(n)
  <2>1. m * 10 + k = n
    BY DEF n
  <2>2. NextDigit(Ok(m), c, max) = Ok(m * 10 + k)
    BY <1>2, <1>3, <2>1, NextDigitIs
  <2> QED
    BY <1>5, <2>1, <2>2 DEF P3
<1>7. ParseUint(<<a, b, c>>, max) = P3
  BY <1>1, ThreeParsed DEF P1, P2, P3
<1> QED
  BY <1>6, <1>7 DEF n, m, Value, a, b, c

\* Three symbols, appended.
LEMMA AppendTwo ==
    ASSUME NEW x \in Symbols, NEW y \in Symbols, NEW z \in Symbols
    PROVE  Append(Append(<<x>>, y), z) = <<x, y, z>>
<1>1. <<x, y>> = Append(<<x>>, y) /\ <<x, y, z>> = Append(<<x, y>>, z)
  OBVIOUS
<1> QED
  BY <1>1

\* A number of three digits is written with these.
LEMMA ThreeDecimal ==
    ASSUME NEW i \in 1..9, NEW j \in 0..9, NEW k \in 0..9
    PROVE  Decimal[Value(i, j, k)] = <<Digits[i + 1], Digits[j + 1], Digits[k + 1]>>
<1> DEFINE m == i * 10 + j
           n == m * 10 + k
<1>1. m \in Nat /\ m >= 10 /\ n \in Nat /\ n >= 10 /\ i \in Nat /\ i < 10
  OBVIOUS
<1>2. m \div 10 = i /\ m % 10 = j
  OBVIOUS
<1> HIDE DEF m
<1>3. n \div 10 = m /\ n % 10 = k
  BY <1>1
<1> HIDE DEF n
<1>4. Decimal[i] = <<Digits[i + 1]>>
  BY <1>1, DecimalIs
<1>5. Decimal[m] = Append(Decimal[m \div 10], Digits[(m % 10) + 1])
  <2>1. m \in Nat /\ ~(m < 10)
    BY <1>1
  <2> QED
    BY <2>1, DecimalIs
<1>6. Decimal[n] = Append(Decimal[n \div 10], Digits[(n % 10) + 1])
  <2>1. n \in Nat /\ ~(n < 10)
    BY <1>1
  <2> QED
    BY <2>1, DecimalIs
<1>7. Decimal[n] = Append(Append(<<Digits[i + 1]>>, Digits[j + 1]), Digits[k + 1])
  BY <1>2, <1>3, <1>4, <1>5, <1>6
<1> DEFINE x == Digits[i + 1]
           y == Digits[j + 1]
           z == Digits[k + 1]
<1>8. x \in Symbols /\ y \in Symbols /\ z \in Symbols
  BY <1>1, DigitsAre
<1> HIDE DEF x, y, z
<1>9. Append(Append(<<x>>, y), z) = <<x, y, z>>
  BY <1>8, AppendTwo
<1> QED
  BY <1>7, <1>9 DEF n, m, x, y, z, Value

IsCode(s) == (\A i \in 1..3 : IsAsciiDigit(s[i])) /\ s[1] # "0"

\* StatusCode::from_ascii_bytes accepts three digits from 100 on, and keeps them.
LEMMA CodeOf ==
    ASSUME NEW a \in Symbols, NEW b \in Symbols, NEW c \in Symbols
    PROVE  /\ Accepts(StatusCodeFrom(<<a, b, c>>)) <=>
                IsAsciiDigit(a) /\ IsAsciiDigit(b) /\ IsAsciiDigit(c) /\ a # "0"
           /\ Accepts(StatusCodeFrom(<<a, b, c>>)) =>
                Decimal[StatusCodeFrom(<<a, b, c>>).val] = <<a, b, c>>
<1> DEFINE s == <<a, b, c>>
           max == 65535
           n == ParseUint(s, max)
           code == StatusCodeFrom(s)
<1>1. Len(s) = 3 /\ max \in Nat /\ max >= 999
  OBVIOUS
<1>2. Accepts(n) => IsAsciiDigit(a) /\ IsAsciiDigit(b) /\ IsAsciiDigit(c)
  <2> HIDE DEF max
  <2> QED
    BY <1>1, ThreeDigits
<1>3. code = IF Len(s) # 3 \/ ~Accepts(n) \/ n.val \notin 100..999 THEN Err("StatusCodeError") ELSE n
  BY DEF StatusCodeFrom
<1>4. ~Accepts(Err("StatusCodeError"))
  BY Outcomes DEF NoErr
<1>5. ASSUME NEW i \in 0..9, NEW j \in 0..9, NEW k \in 0..9,
             a = Digits[i + 1], b = Digits[j + 1], c = Digits[k + 1]
      PROVE  /\ Accepts(code) <=> a # "0"
             /\ Accepts(code) => Decimal[code.val] = s
  <2> DEFINE v == Value(i, j, k)
  <2>1. n = Ok(v)
    <3>1. s = <<Digits[i + 1], Digits[j + 1], Digits[k + 1]>>
      BY <1>5
    <3> HIDE DEF max, s
    <3> QED
      BY <1>1, <3>1, ThreeValue
  <2>2. v \in 100..999 <=> i # 0
    BY DEF Value
  <2>3. a = "0" <=> i = 0
    <3>1. Digits[0 + 1] = "0"
      BY DEF Digits
    <3>2. Digits[i + 1] = Digits[0 + 1] => i = 0
      BY DigitsAre
    <3> QED
      BY <1>5, <3>1, <3>2
  <2>4. i # 0 => Decimal[v] = <<Digits[i + 1], Digits[j + 1], Digits[k + 1]>>
    <3>1. i # 0 => i \in 1..9
      OBVIOUS
    <3> QED
      BY <3>1, ThreeDecimal
  <2> HIDE DEF v, n, s, code
  <2>5. Accepts(n) /\ n.val = v
    BY <2>1, Outcomes
  <2>6. Accepts(code) <=> v \in 100..999
    BY <1>1, <1>3, <1>4, <2>5
  <2>7. v \in 100..999 => code = n
    BY <1>1, <1>3, <2>5
  <2>8. i # 0 => Decimal[v] = s
    BY <1>5, <2>4 DEF s
  <2> QED
    BY <2>2, <2>3, <2>5, <2>6, <2>7, <2>8
<1>6. IsAsciiDigit(a) /\ IsAsciiDigit(b) /\ IsAsciiDigit(c) =>
        \E i, j, k \in 0..9 : a = Digits[i + 1] /\ b = Digits[j + 1] /\ c = Digits[k + 1]
  BY DEF IsAsciiDigit
<1>7. Accepts(code) => Accepts(n)
  <2> HIDE DEF n, s, code
  <2> QED
    BY <1>3, <1>4
<1> HIDE DEF n, code
<1>8. Accepts(code) <=> IsAsciiDigit(a) /\ IsAsciiDigit(b) /\ IsAsciiDigit(c) /\ a # "0"
  BY <1>2, <1>5, <1>6, <1>7
<1>9. Accepts(code) => Decimal[code.val] = s
  BY <1>2, <1>5, <1>6, <1>7
<1> QED
  BY <1>8, <1>9 DEF code

\* The same of a part of a line.
LEMMA CodeRead ==
    ASSUME NEW s \in Strings, Len(s) = 3
    PROVE  /\ Accepts(StatusCodeFrom(s)) <=> IsCode(s)
           /\ Accepts(StatusCodeFrom(s)) => Decimal[StatusCodeFrom(s).val] = s
<1> DEFINE a == s[1]
           b == s[2]
           c == s[3]
<1>1. s \in Seq(Symbols) /\ 1 \in 1..Len(s) /\ 2 \in 1..Len(s) /\ 3 \in 1..Len(s)
  BY DEF Strings
<1>2. a \in Symbols /\ b \in Symbols /\ c \in Symbols
  BY <1>1, ElementOfSeq
<1>3. s = <<a, b, c>>
  <2> DEFINE t == <<a, b, c>>
  <2>1. t[1] = s[1] /\ t[2] = s[2] /\ t[3] = s[3] /\ Len(t) = 3
    OBVIOUS
  <2>2. t \in Seq(Symbols)
    <3> HIDE DEF a, b, c
    <3> QED
      BY <1>2
  <2> HIDE DEF t
  <2>3. \A i \in 1..Len(s) : i = 1 \/ i = 2 \/ i = 3
    OBVIOUS
  <2>4. \A i \in 1..Len(s) : s[i] = t[i]
    BY <2>1, <2>3
  <2>5. s = t
    BY <1>1, <2>1, <2>2, <2>4, SeqEqual
  <2> QED
    BY <2>5 DEF t
<1>4. IsCode(s) <=> IsAsciiDigit(a) /\ IsAsciiDigit(b) /\ IsAsciiDigit(c) /\ a # "0"
  <2>1. \A i \in 1..3 : i = 1 \/ i = 2 \/ i = 3
    OBVIOUS
  <2>2. 1 \in 1..3 /\ 2 \in 1..3 /\ 3 \in 1..3
    OBVIOUS
  <2> QED
    BY <2>1, <2>2 DEF IsCode
<1> HIDE DEF a, b, c
<1>5. /\ Accepts(StatusCodeFrom(<<a, b, c>>)) <=>
           IsAsciiDigit(a) /\ IsAsciiDigit(b) /\ IsAsciiDigit(c) /\ a # "0"
      /\ Accepts(StatusCodeFrom(<<a, b, c>>)) => Decimal[StatusCodeFrom(<<a, b, c>>).val] = <<a, b, c>>
  BY <1>2, CodeOf
<1> QED
  BY <1>3, <1>4, <1>5

IsStatusLine(line) ==
    /\ Len(line) >= 4
    /\ IsCode(SubSeq(line, 2, 4))
    /\ Len(line) > 4 => line[5] \in Blanks

\* What the head of a block is read as.
LEMMA HeadRead ==
    ASSUME NEW line \in Strings, NEW h, h = DecodeHead(<<"NATS/1.0">> \o line)
    PROVE  /\ IsStatusLine(line) =>
                /\ Accepts(h)
                /\ Decimal[h.val.code] = SubSeq(line, 2, 4)
                /\ h.val.text = Trim(SubSeq(line, 6, Len(line)))
           /\ Accepts(h) /\ ~IsStatusLine(line) => Len(line) < 4 /\ h.val.code = 0
<1> DEFINE v == "NATS/1.0"
           head == <<v>> \o line
           digits == SubSeq(line, 2, 4)
           code == StatusCodeFrom(digits)
           rest == Trim(SubSeq(line, 6, Len(line)))
<1>1. v \in Symbols /\ line \in Seq(Symbols) /\ Len(line) \in Nat
  BY BytesType DEF Symbols, Verbs, Strings
<1>2. head # <<>> /\ head[1] = "NATS/1.0" /\ Tail(head) = line
  <2> HIDE DEF v
  <2>1. /\ head \in Seq(Symbols) /\ Len(head) = 1 + Len(line) /\ head[1] = v
        /\ \A i \in 1..Len(line) : head[1 + i] = line[i]
    BY <1>1, Prepend
  <2> HIDE DEF head
  <2>2. head # <<>>
    BY <1>1, <2>1
  <2>3. Tail(head) \in Seq(Symbols) /\ Len(Tail(head)) = Len(head) - 1
        /\ \A i \in 1..Len(Tail(head)) : Tail(head)[i] = head[i + 1]
    BY <2>1, <2>2, HeadTailProperties
  <2>4. Len(Tail(head)) = Len(line) /\ \A i \in 1..Len(line) : i + 1 = 1 + i
    BY <1>1, <2>1, <2>3
  <2>5. \A i \in 1..Len(line) : Tail(head)[i] = line[i]
    BY <2>1, <2>3, <2>4
  <2>6. Tail(head) = line
    BY <1>1, <2>3, <2>4, <2>5, SeqEqual
  <2> QED
    BY <2>1, <2>2, <2>6 DEF v
<1> HIDE DEF head
<1>3. h = IF Len(line) < 4 THEN Ok([code |-> 0, text |-> <<>>])
          ELSE IF ~Accepts(code) THEN Err("StatusCode")
          ELSE IF Len(line) > 4 /\ line[5] \notin Blanks THEN Err("InvalidHead")
          ELSE Ok([code |-> code.val, text |-> rest])
  <2>1. h = DecodeHead(head)
    BY DEF head
  <2> HIDE DEF code, rest
  <2> QED
    BY <1>2, <2>1 DEF DecodeHead, code, rest
<1>4. ~Accepts(Err("StatusCode")) /\ ~Accepts(Err("InvalidHead"))
  BY Outcomes DEF NoErr
<1>5. CASE Len(line) < 4
  <2>1. ~IsStatusLine(line)
    BY <1>1, <1>5 DEF IsStatusLine
  <2>2. h = Ok([code |-> 0, text |-> <<>>])
    BY <1>3, <1>5
  <2>3. h.val.code = 0
    BY <2>2 DEF Ok
  <2> QED
    BY <1>5, <2>1, <2>3
<1>6. CASE ~(Len(line) < 4)
  <2>1. digits \in Strings /\ Len(digits) = 3
    <3>1. 2 \in 1..Len(line) + 1 /\ 4 \in 2 - 1..Len(line) /\ 4 - 2 + 1 = 3
      BY <1>1, <1>6
    <3>2. SubSeq(line, 2, 4) \in Seq(Symbols) /\ Len(SubSeq(line, 2, 4)) = 4 - 2 + 1
      BY <1>1, <3>1, PartOf
    <3> QED
      BY <3>1, <3>2 DEF Strings
  <2> HIDE DEF digits
  <2>2. (Accepts(code) <=> IsCode(digits)) /\ (Accepts(code) => Decimal[code.val] = digits)
    BY <2>1, CodeRead
  <2>3. IsStatusLine(line) <=> IsCode(digits) /\ (Len(line) > 4 => line[5] \in Blanks)
    BY <1>1, <1>6 DEF IsStatusLine, digits
  <2> HIDE DEF code, rest
  <2>4. IsStatusLine(line) => h = Ok([code |-> code.val, text |-> rest])
    BY <1>3, <1>6, <2>2, <2>3
  <2>5. ~IsStatusLine(line) => ~Accepts(h)
    BY <1>3, <1>4, <1>6, <2>2, <2>3
  <2>6. IsStatusLine(line) => Accepts(h) /\ h.val.code = code.val /\ h.val.text = rest
    <3> DEFINE r == [code |-> code.val, text |-> rest]
    <3>1. r.code = code.val /\ r.text = rest
      OBVIOUS
    <3> HIDE DEF r
    <3>2. Accepts(Ok(r)) /\ Ok(r).val = r
      BY Outcomes
    <3> QED
      BY <2>4, <3>1, <3>2 DEF r
  <2> QED
    BY <2>2, <2>3, <2>5, <2>6 DEF digits, rest
<1> QED
  BY <1>5, <1>6

(***************************************************************************)
(* HeaderMap                                                               *)
(***************************************************************************)
\* SetToSeq gives every element of a finite set once.
LEMMA SetToSeqIs ==
    ASSUME NEW S, IsFiniteSet(S)
    PROVE  /\ SetToSeq(S) \in Seq(S)
           /\ \A i, j \in 1..Len(SetToSeq(S)) : SetToSeq(S)[i] = SetToSeq(S)[j] => i = j
           /\ \A x \in S : \E i \in 1..Len(SetToSeq(S)) : SetToSeq(S)[i] = x
           /\ S # {} => Len(SetToSeq(S)) > 0
<1> DEFINE n == Cardinality(S)
           f == SetToSeq(S)
<1>1. n \in Nat /\ ExistsBijection(1..n, S)
  BY FS_CardinalityType
<1>2. \E g \in [1..n -> S] : IsInjective(g)
  BY <1>1 DEF ExistsBijection, Bijection, Injection
<1>3. f \in [1..n -> S] /\ IsInjective(f)
  BY <1>2 DEF SetToSeq
<1>4. f \in Injection(1..n, S)
  BY <1>3 DEF Injection
<1>5. IsFiniteSet(1..n) /\ Cardinality(1..n) = n
  BY <1>1, FS_Interval
<1>6. f \in Surjection(1..n, S)
  BY <1>4, <1>5, FS_Injection
<1>7. f \in Seq(S) /\ Len(f) = n
  BY <1>1, <1>3
<1>8. \A x \in S : \E i \in 1..n : f[i] = x
  BY <1>6 DEF Surjection
<1>9. \A i, j \in 1..n : f[i] = f[j] => i = j
  BY <1>3 DEF IsInjective
<1> HIDE DEF f, n
<1>10. S # {} => n > 0
  BY <1>1, <1>8
<1> QED
  BY <1>7, <1>8, <1>9, <1>10 DEF f

Through(S, g, h) == [e \in S |-> Pick(g[e], h)]

\* Picking from what was picked.
LEMMA PickPick ==
    ASSUME NEW S, NEW X, NEW Y, NEW g, Gives(g, S, X), NEW h, Gives(h, X, Y)
    PROVE  /\ Gives(Through(S, g, h), S, Y)
           /\ \A s \in Seq(S) : Pick(Pick(s, g), h) = Pick(s, Through(S, g, h))
<1> DEFINE c == Through(S, g, h)
           T == {s \in Seq(S) : Pick(Pick(s, g), h) = Pick(s, c)}
<1>1. \A e \in S : g[e] \in Seq(X)
  BY DEF Gives
<1>2. \A e \in S : Pick(g[e], h) \in Seq(Y)
  BY <1>1, PickType
<1>3. Gives(c, S, Y) /\ \A e \in S : c[e] = Pick(g[e], h)
  BY <1>2 DEF Gives, Through
<1> HIDE DEF c
<1>4. <<>> \in T
  BY EmptySeq, PickEmpty
<1>5. ASSUME NEW s \in Seq(S), NEW e \in S, s \in T PROVE Append(s, e) \in T
  <2>1. Append(s, e) \in Seq(S)
    BY AppendProperties
  <2>2. Pick(s, g) \in Seq(X) /\ Pick(Append(s, e), g) = Pick(s, g) \o g[e]
    BY PickAppend
  <2>3. Pick(Pick(s, g) \o g[e], h) = Pick(Pick(s, g), h) \o Pick(g[e], h)
    <3> DEFINE a == Pick(s, g)
               b == g[e]
    <3>1. a \in Seq(X) /\ b \in Seq(X)
      BY <1>1, <2>2
    <3> HIDE DEF a, b
    <3>2. Pick(a \o b, h) = Pick(a, h) \o Pick(b, h)
      BY <3>1, PickConcat
    <3> QED
      BY <3>2 DEF a, b
  <2>4. Pick(Append(s, e), c) = Pick(s, c) \o c[e]
    BY <1>3, PickAppend
  <2> QED
    BY <1>3, <1>5, <2>1, <2>2, <2>3, <2>4
<1> HIDE DEF T
<1>6. Seq(S) \subseteq T
  BY <1>4, <1>5, SeqInduction
<1> QED
  BY <1>3, <1>6 DEF T, c

\* What only one element of a sequence without repetition gives.
Distinct(s) == \A i, j \in 1..Len(s) : s[i] = s[j] => i = j
Amid(x, s) == \E i \in 1..Len(s) : s[i] = x

\* What only one element of a sequence without repetition gives.
LEMMA PickSingle ==
    ASSUME NEW S, NEW X, NEW g, Gives(g, S, X), NEW x, \A e \in S : e # x => g[e] = <<>>
    PROVE  \A s \in Seq(S) : Distinct(s) => Pick(s, g) = IF Amid(x, s) THEN g[x] ELSE <<>>
<1> DEFINE T == {s \in Seq(S) : Distinct(s) => Pick(s, g) = IF Amid(x, s) THEN g[x] ELSE <<>>}
<1>1. <<>> \in T
  <2>1. Len(<<>>) = 0 /\ <<>> \in Seq(S)
    BY EmptySeq
  <2>2. ~Amid(x, <<>>)
    BY <2>1 DEF Amid
  <2> QED
    BY <2>1, <2>2, PickEmpty
<1>2. ASSUME NEW s \in Seq(S), NEW e \in S, s \in T PROVE Append(s, e) \in T
  <2> DEFINE t == Append(s, e)
  <2>1. /\ t \in Seq(S) /\ Len(t) = Len(s) + 1 /\ t[Len(s) + 1] = e
        /\ \A i \in 1..Len(s) : t[i] = s[i]
    BY AppendProperties
  <2>2. Len(s) \in Nat
    BY LenProperties
  <2>3. Pick(t, g) = Pick(s, g) \o g[e] /\ Pick(s, g) \in Seq(X) /\ g[e] \in Seq(X)
    BY PickAppend DEF Gives
  <2> HIDE DEF t
  <2>4. ASSUME Distinct(t) PROVE Pick(t, g) = IF Amid(x, t) THEN g[x] ELSE <<>>
    <3>1. Distinct(s)
      <4> SUFFICES ASSUME NEW i \in 1..Len(s), NEW j \in 1..Len(s), s[i] = s[j] PROVE i = j
        BY DEF Distinct
      <4>1. i \in 1..Len(t) /\ j \in 1..Len(t) /\ t[i] = t[j]
        BY <2>1, <2>2
      <4> QED
        BY <2>4, <4>1 DEF Distinct
    <3>2. ~Amid(e, s)
      <4> SUFFICES ASSUME NEW i \in 1..Len(s), s[i] = e PROVE FALSE
        BY DEF Amid
      <4>1. i \in 1..Len(t) /\ Len(s) + 1 \in 1..Len(t) /\ t[i] = t[Len(s) + 1] /\ i # Len(s) + 1
        BY <2>1, <2>2
      <4> QED
        BY <2>4, <4>1 DEF Distinct
    <3>3. Amid(x, t) <=> Amid(x, s) \/ e = x
      <4>1. \A i \in 1..Len(t) : i \in 1..Len(s) \/ i = Len(s) + 1
        BY <2>1, <2>2
      <4>2. Len(s) + 1 \in 1..Len(t) /\ \A i \in 1..Len(s) : i \in 1..Len(t)
        BY <2>1, <2>2
      <4>3. Amid(x, t) => Amid(x, s) \/ e = x
        BY <2>1, <4>1 DEF Amid
      <4>4. Amid(x, s) => Amid(x, t)
        BY <2>1, <4>2 DEF Amid
      <4>5. e = x => Amid(x, t)
        BY <2>1, <4>2 DEF Amid
      <4> QED
        BY <4>3, <4>4, <4>5
    <3>4. Pick(s, g) = IF Amid(x, s) THEN g[x] ELSE <<>>
      BY <1>2, <3>1
    <3>5. CASE e = x
      <4>1. Pick(s, g) = <<>>
        BY <3>2, <3>4, <3>5
      <4>2. <<>> \o g[e] = g[e]
        BY <2>3, ConcatEmptySeq
      <4> QED
        BY <2>3, <3>3, <3>5, <4>1, <4>2
    <3>6. CASE e # x
      <4>1. g[e] = <<>>
        BY <3>6
      <4>2. Pick(s, g) \o <<>> = Pick(s, g)
        BY <2>3, ConcatEmptySeq
      <4>3. Pick(t, g) = Pick(s, g)
        BY <2>3, <4>1, <4>2
      <4> QED
        BY <3>3, <3>4, <3>6, <4>3
    <3> QED
      BY <3>5, <3>6
  <2> QED
    BY <2>1, <2>4 DEF t
<1> HIDE DEF T
<1>3. Seq(S) \subseteq T
  BY <1>1, <1>2, SeqInduction
<1> QED
  BY <1>3 DEF T

GoodNames == {n \in Strings : Accepts(NewHeaderName(n))}
GoodValues == {v \in Strings : Accepts(NewHeaderValue(v))}

IsEntry(k, e) ==
    /\ e.name \in GoodNames /\ Fold(e.name) = k
    /\ e.values \in Seq(GoodValues) /\ e.values # <<>>

IsMap(m) ==
    /\ IsFiniteSet(DOMAIN m.headers)
    /\ \A k \in DOMAIN m.headers : IsEntry(k, m.headers[k])

LinesOfEntry(e) == [i \in DOMAIN e.values |-> <<e.name, e.values[i]>>]
OfKey(m) == [k \in DOMAIN m.headers |-> LinesOfEntry(m.headers[k])]
Hit(n) == [p \in GoodPairs |-> IF Fold(p[1]) = Fold(n) THEN <<p[2]>> ELSE <<>>]

\* Pairs of a name and a value.
LEMMA GoodPairsAre ==
    /\ \A n \in GoodNames, v \in GoodValues : <<n, v>> \in GoodPairs
    /\ \A p \in GoodPairs : p[1] \in GoodNames /\ p[2] \in GoodValues /\ p = <<p[1], p[2]>>
<1>1. \A n \in GoodNames, v \in GoodValues : <<n, v>> \in GoodPairs
  BY DEF GoodPairs, GoodNames, GoodValues
<1>2. \A p \in GoodPairs : p[1] \in GoodNames /\ p[2] \in GoodValues /\ p = <<p[1], p[2]>>
  BY DEF GoodPairs, GoodNames, GoodValues
<1> QED
  BY <1>1, <1>2

\* Hit(n) picks the values that go by the name n.
LEMMA HitGives == \A n : Gives(Hit(n), GoodPairs, GoodValues)
<1> SUFFICES ASSUME NEW n PROVE Gives(Hit(n), GoodPairs, GoodValues)
  OBVIOUS
<1>1. \A p \in GoodPairs : Hit(n)[p] \in Seq(GoodValues)
  <2> SUFFICES ASSUME NEW p \in GoodPairs PROVE Hit(n)[p] \in Seq(GoodValues)
    OBVIOUS
  <2>1. p[2] \in GoodValues
    BY GoodPairsAre
  <2>2. <<p[2]>> \in Seq(GoodValues) /\ <<>> \in Seq(GoodValues)
    BY <2>1, EmptySeq
  <2> QED
    BY <2>2 DEF Hit
<1> QED
  BY <1>1 DEF Gives, Hit

\* ValuesOf picks with Hit.
LEMMA ValuesOfIs ==
    ASSUME NEW pairs \in Seq(GoodPairs), NEW n
    PROVE  ValuesOf(pairs, n) = Pick(pairs, Hit(n)) /\ ValuesOf(pairs, n) \in Seq(GoodValues)
<1>1. \A i \in DOMAIN pairs : pairs[i] \in GoodPairs
  BY ElementOfSeq, LenProperties
<1>2. [i \in DOMAIN pairs |-> IF Fold(pairs[i][1]) = Fold(n) THEN <<pairs[i][2]>> ELSE <<>>]
        = Each(pairs, Hit(n))
  BY <1>1 DEF Each, Hit
<1>3. ValuesOf(pairs, n) = Pick(pairs, Hit(n))
  BY <1>2 DEF ValuesOf, Pick
<1> QED
  BY <1>3, HitGives, PickType

\* An entry of the map has lines for its own name only.
LEMMA EntryLines ==
    ASSUME NEW k, NEW e, IsEntry(k, e)
    PROVE  /\ LinesOfEntry(e) \in Seq(GoodPairs) /\ Len(LinesOfEntry(e)) > 0
           /\ \A n : Pick(LinesOfEntry(e), Hit(n)) = IF k = Fold(n) THEN e.values ELSE <<>>
<1> DEFINE u == LinesOfEntry(e)
           s == e.values
<1>1. s \in Seq(GoodValues) /\ s # <<>> /\ e.name \in GoodNames /\ Fold(e.name) = k
  BY DEF IsEntry
<1>2. Len(s) \in Nat /\ DOMAIN s = 1..Len(s) /\ \A i \in 1..Len(s) : s[i] \in GoodValues
  BY <1>1, LenProperties, ElementOfSeq
<1>3. \A i \in 1..Len(s) : <<e.name, s[i]>> \in GoodPairs
  BY <1>1, <1>2, GoodPairsAre
<1>4. u = [i \in 1..Len(s) |-> <<e.name, s[i]>>]
  BY <1>2 DEF LinesOfEntry
<1>5. u \in Seq(GoodPairs) /\ Len(u) = Len(s) /\ DOMAIN u = 1..Len(s)
      /\ \A i \in 1..Len(s) : u[i] = <<e.name, s[i]>> /\ u[i] \in GoodPairs
  BY <1>2, <1>3, <1>4
<1> HIDE DEF u, s
<1>6. Len(s) > 0
  BY <1>1, <1>2, EmptySeq
<1>7. ASSUME NEW n PROVE Pick(u, Hit(n)) = IF k = Fold(n) THEN s ELSE <<>>
  <2>1. \A i \in 1..Len(s) : Hit(n)[u[i]] = IF k = Fold(n) THEN <<s[i]>> ELSE <<>>
    <3> SUFFICES ASSUME NEW i \in 1..Len(s)
                 PROVE Hit(n)[u[i]] = IF k = Fold(n) THEN <<s[i]>> ELSE <<>>
      OBVIOUS
    <3>1. u[i][1] = e.name /\ u[i][2] = s[i] /\ u[i] \in GoodPairs
      BY <1>5
    <3> QED
      BY <1>1, <3>1 DEF Hit
  <2>2. CASE k # Fold(n)
    <3>1. \A i \in 1..Len(u) : Hit(n)[u[i]] = <<>>
      BY <1>5, <2>1, <2>2
    <3>2. Pick(u, Hit(n)) = <<>>
      BY <1>5, <3>1, HitGives, PickNone
    <3> QED
      BY <2>2, <3>2
  <2>3. CASE k = Fold(n)
    <3> DEFINE id == [v \in GoodValues |-> v]
               h == [v \in GoodValues |-> <<id[v]>>]
    <3>1. \A i \in 1..Len(s) : Hit(n)[u[i]] = <<s[i]>> /\ h[s[i]] = <<s[i]>>
      BY <1>2, <2>1, <2>3
    <3>2. Each(u, Hit(n)) = Each(s, h)
      <4> HIDE DEF h
      <4> QED
        BY <1>2, <1>5, <3>1 DEF Each
    <3>3. id \in [GoodValues -> GoodValues]
      OBVIOUS
    <3>4. Pick(s, h) = Each(s, id)
      <4> HIDE DEF id
      <4> QED
        BY <1>1, <3>3, PickEach
    <3>5. Each(s, id) = s
      BY <1>1, <1>2 DEF Each
    <3> QED
      BY <2>3, <3>2, <3>4, <3>5 DEF Pick
  <2> QED
    BY <2>2, <2>3
<1> QED
  BY <1>5, <1>6, <1>7 DEF u, s

\* iter yields the values get_all finds, name by name.
LEMMA MapPairs ==
    ASSUME NEW m, IsMap(m)
    PROVE  /\ HeaderPairs(m) \in Seq(GoodPairs)
           /\ \A n : ValuesOf(HeaderPairs(m), n) = GetAll(m, n)
           /\ DOMAIN m.headers # {} => HeaderPairs(m) # <<>>
<1> DEFINE D == DOMAIN m.headers
           keys == SetToSeq(D)
           g == OfKey(m)
<1>1. IsFiniteSet(D) /\ \A k \in D : IsEntry(k, m.headers[k])
  BY DEF IsMap
<1>2. keys \in Seq(D) /\ Distinct(keys) /\ \A k \in D : Amid(k, keys)
  <2> HIDE DEF D
  <2> QED
    BY <1>1, SetToSeqIs DEF Distinct, Amid
<1>3. D # {} => Len(keys) > 0
  <2> HIDE DEF D
  <2> QED
    BY <1>1, SetToSeqIs
<1>4. \A k \in D : g[k] = LinesOfEntry(m.headers[k]) /\ g[k] \in Seq(GoodPairs) /\ Len(g[k]) > 0
  BY <1>1, EntryLines DEF OfKey
<1>5. Gives(g, D, GoodPairs)
  <2>1. g = [k \in D |-> g[k]]
    BY DEF OfKey
  <2> HIDE DEF g, D
  <2> QED
    BY <1>4, <2>1 DEF Gives
<1>6. \A i \in DOMAIN keys : keys[i] \in D
  <2> HIDE DEF keys
  <2> QED
    BY <1>2, ElementOfSeq, LenProperties
<1>7. HeaderPairs(m) = Pick(keys, g)
  BY <1>6 DEF HeaderPairs, Pick, Each, OfKey, LinesOfEntry
<1> HIDE DEF keys, g
<1>8. Pick(keys, g) \in Seq(GoodPairs)
  <2> HIDE DEF D
  <2> QED
    BY <1>2, <1>5, PickType
<1>9. ASSUME NEW n PROVE ValuesOf(HeaderPairs(m), n) = GetAll(m, n)
  <2> DEFINE c == Through(D, g, Hit(n))
             key == Fold(n)
  <2>1. ValuesOf(HeaderPairs(m), n) = Pick(Pick(keys, g), Hit(n))
    BY <1>7, <1>8, ValuesOfIs
  <2>2. Gives(c, D, GoodValues) /\ Pick(Pick(keys, g), Hit(n)) = Pick(keys, c)
    <3> HIDE DEF D
    <3> QED
      BY <1>2, <1>5, HitGives, PickPick
  <2>3. \A k \in D : c[k] = IF k = key THEN m.headers[k].values ELSE <<>>
    BY <1>1, <1>4, EntryLines DEF Through
  <2> HIDE DEF c, key
  <2>4. Pick(keys, c) = IF Amid(key, keys) THEN c[key] ELSE <<>>
    <3> HIDE DEF D
    <3> QED
      BY <1>2, <2>2, <2>3, PickSingle
  <2>5. Amid(key, keys) => key \in D
    <3>1. DOMAIN keys = 1..Len(keys)
      BY <1>2, LenProperties
    <3> QED
      BY <1>6, <3>1 DEF Amid
  <2>6. GetAll(m, n) = IF key \in D THEN m.headers[key].values ELSE <<>>
    BY DEF GetAll, Has, key
  <2> HIDE DEF D
  <2> QED
    BY <1>2, <2>1, <2>2, <2>3, <2>4, <2>5, <2>6
<1>10. ASSUME D # {} PROVE Pick(keys, g) # <<>>
  <2>1. PICK k \in D : TRUE
    BY <1>10
  <2>2. GetAll(m, m.headers[k].name) = m.headers[k].values
    BY <1>1, <2>1 DEF GetAll, Has, IsEntry
  <2>3. ValuesOf(HeaderPairs(m), m.headers[k].name) # <<>>
    BY <1>1, <1>9, <2>2 DEF IsEntry
  <2>4. \A n : ValuesOf(<<>>, n) = <<>>
    <3> TAKE n
    <3>1. <<>> \in Seq(GoodPairs)
      BY EmptySeq
    <3> QED
      BY <3>1, ValuesOfIs, PickEmpty
  <2> QED
    BY <1>7, <2>3, <2>4
<1> QED
  BY <1>7, <1>8, <1>9, <1>10

\* The block of a map, and when there is none.
LEMMA BlockIs ==
    ASSUME NEW m, IsMap(m)
    PROVE  /\ Block(m) \in Strings
           /\ DOMAIN m.headers = {} => Block(m) = <<>>
           /\ DOMAIN m.headers # {} =>
                Block(m) # <<>> /\ Block(m) = BlockText(<<"NATS/1.0">>, LineTexts(HeaderPairs(m)))
<1> DEFINE head == <<"NATS/1.0">>
           pairs == HeaderPairs(m)
<1>1. pairs \in Seq(GoodPairs) /\ head \in Whole
  BY MapPairs, BareHead
<1>2. BlockText(head, LineTexts(pairs)) \in Strings /\ BlockText(head, LineTexts(pairs)) # <<>>
  <2> HIDE DEF pairs, head
  <2> QED
    BY <1>1, BlockRead
<1>3. EncodeHeaders(m) = BlockText(head, LineTexts(pairs))
  BY DEF EncodeHeaders, HeaderLines, LineTexts, BlockText
<1>4. <<>> \in Strings
  BY BytesEmpty
<1> HIDE DEF head, pairs
<1> QED
  BY <1>2, <1>3, <1>4 DEF Block, head, pairs

Miss(n) == [p \in GoodPairs |-> IF Fold(p[1]) = Fold(n) THEN <<>> ELSE <<p>>]

\* Miss(n) picks the pairs that go by another name.
LEMMA MissGives == \A n : Gives(Miss(n), GoodPairs, GoodPairs)
<1> SUFFICES ASSUME NEW n PROVE Gives(Miss(n), GoodPairs, GoodPairs)
  OBVIOUS
<1>1. \A p \in GoodPairs : <<p>> \in Seq(GoodPairs) /\ <<>> \in Seq(GoodPairs)
  BY EmptySeq
<1> QED
  BY <1>1 DEF Gives, Miss

\* Others picks with Miss.
LEMMA OthersIs ==
    ASSUME NEW pairs \in Seq(GoodPairs), NEW n
    PROVE  Others(pairs, n) = Pick(pairs, Miss(n)) /\ Others(pairs, n) \in Seq(GoodPairs)
<1>1. \A i \in DOMAIN pairs : pairs[i] \in GoodPairs
  BY ElementOfSeq, LenProperties
<1>2. [i \in DOMAIN pairs |-> IF Fold(pairs[i][1]) = Fold(n) THEN <<>> ELSE <<pairs[i]>>]
        = Each(pairs, Miss(n))
  BY <1>1 DEF Each, Miss
<1>3. Others(pairs, n) = Pick(pairs, Miss(n))
  BY <1>2 DEF Others, Pick
<1> QED
  BY <1>3, MissGives, PickType

\* Without its pairs, a name has no values; the others keep theirs.
LEMMA OthersValues ==
    ASSUME NEW pairs \in Seq(GoodPairs), NEW n, NEW m
    PROVE  ValuesOf(Others(pairs, n), m) = IF Fold(m) = Fold(n) THEN <<>> ELSE ValuesOf(pairs, m)
<1> DEFINE g == Miss(n)
           h == Hit(m)
           c == Through(GoodPairs, g, h)
<1>1. Gives(g, GoodPairs, GoodPairs) /\ Gives(h, GoodPairs, GoodValues)
  BY MissGives, HitGives
<1>2. Others(pairs, n) = Pick(pairs, g) /\ Others(pairs, n) \in Seq(GoodPairs)
  BY OthersIs
<1>3. ValuesOf(Others(pairs, n), m) = Pick(Pick(pairs, g), h) /\ ValuesOf(pairs, m) = Pick(pairs, h)
  BY <1>2, ValuesOfIs
<1>4. \A p \in GoodPairs : g[p] = IF Fold(p[1]) = Fold(n) THEN <<>> ELSE <<p>>
  BY DEF Miss
<1>5. \A p \in GoodPairs : h[p] = IF Fold(p[1]) = Fold(m) THEN <<p[2]>> ELSE <<>>
  BY DEF Hit
<1>6. h = [p \in GoodPairs |-> h[p]]
  BY DEF Hit
<1> HIDE DEF g, h
<1>7. Gives(c, GoodPairs, GoodValues) /\ Pick(Pick(pairs, g), h) = Pick(pairs, c)
  BY <1>1, PickPick
<1>8. \A p \in GoodPairs : c[p] = IF Fold(p[1]) = Fold(n) THEN <<>> ELSE h[p]
  <2> SUFFICES ASSUME NEW p \in GoodPairs
               PROVE  Pick(g[p], h) = IF Fold(p[1]) = Fold(n) THEN <<>> ELSE h[p]
    BY DEF Through
  <2>1. CASE Fold(p[1]) = Fold(n)
    BY <1>4, <2>1, PickEmpty
  <2>2. CASE Fold(p[1]) # Fold(n)
    <3>1. Pick(<<p>>, h) = h[p]
      BY <1>1, PickOne
    <3>2. g[p] = <<p>>
      BY <1>4, <2>2
    <3> QED
      BY <2>2, <3>1, <3>2
  <2> QED
    BY <2>1, <2>2
<1>9. CASE Fold(m) = Fold(n)
  <2>1. \A p \in GoodPairs : c[p] = <<>>
    BY <1>5, <1>8, <1>9
  <2>2. \A i \in 1..Len(pairs) : pairs[i] \in GoodPairs
    BY ElementOfSeq
  <2> HIDE DEF c
  <2>3. \A i \in 1..Len(pairs) : c[pairs[i]] = <<>>
    BY <2>1, <2>2
  <2>4. Pick(pairs, c) = <<>>
    BY <1>7, <2>3, PickNone
  <2> QED
    BY <1>3, <1>7, <1>9, <2>4
<1>10. CASE Fold(m) # Fold(n)
  <2>1. \A p \in GoodPairs : c[p] = h[p]
    BY <1>5, <1>8, <1>10
  <2>2. c = h
    BY <1>6, <2>1 DEF Through
  <2> QED
    BY <1>3, <1>7, <1>10, <2>2
<1> QED
  BY <1>9, <1>10

\* One pair more, in ValuesOf and in Others.
LEMMA PairsAppend ==
    ASSUME NEW pairs \in Seq(GoodPairs), NEW p \in GoodPairs, NEW n
    PROVE  /\ Append(pairs, p) \in Seq(GoodPairs) /\ Len(Append(pairs, p)) = Len(pairs) + 1
           /\ ValuesOf(Append(pairs, p), n) =
                IF Fold(p[1]) = Fold(n) THEN Append(ValuesOf(pairs, n), p[2]) ELSE ValuesOf(pairs, n)
           /\ Others(Append(pairs, p), n) =
                IF Fold(p[1]) = Fold(n) THEN Others(pairs, n) ELSE Append(Others(pairs, n), p)
<1>1. Append(pairs, p) \in Seq(GoodPairs) /\ Len(Append(pairs, p)) = Len(pairs) + 1
  BY AppendProperties
<1> DEFINE t == Append(pairs, p)
           v == ValuesOf(pairs, n)
           o == Others(pairs, n)
<1>2. v = Pick(pairs, Hit(n)) /\ v \in Seq(GoodValues) /\ o = Pick(pairs, Miss(n)) /\ o \in Seq(GoodPairs)
  BY ValuesOfIs, OthersIs
<1>3. ValuesOf(t, n) = Pick(t, Hit(n)) /\ Others(t, n) = Pick(t, Miss(n))
  BY <1>1, ValuesOfIs, OthersIs
<1>4. Pick(t, Hit(n)) = Pick(pairs, Hit(n)) \o Hit(n)[p]
  BY HitGives, PickAppend
<1>5. Pick(t, Miss(n)) = Pick(pairs, Miss(n)) \o Miss(n)[p]
  BY MissGives, PickAppend
<1>6. Hit(n)[p] = IF Fold(p[1]) = Fold(n) THEN <<p[2]>> ELSE <<>>
  BY DEF Hit
<1>7. Miss(n)[p] = IF Fold(p[1]) = Fold(n) THEN <<>> ELSE <<p>>
  BY DEF Miss
<1> HIDE DEF v, o
<1>8. p[2] \in GoodValues
  BY GoodPairsAre
<1>9. v \o <<>> = v /\ o \o <<>> = o
  BY <1>2, ConcatEmptySeq
<1>10. v \o <<p[2]>> = Append(v, p[2])
  BY <1>2, <1>8, AppendIsConcat
<1>11. o \o <<p>> = Append(o, p)
  BY <1>2, AppendIsConcat
<1> HIDE DEF t
<1> QED
  BY <1>1, <1>2, <1>3, <1>4, <1>5, <1>6, <1>7, <1>9, <1>10, <1>11 DEF t, v, o

\* A pair either goes by a name or by another one.
LEMMA OthersLen ==
    ASSUME NEW n
    PROVE  \A pairs \in Seq(GoodPairs) : Len(pairs) = Len(ValuesOf(pairs, n)) + Len(Others(pairs, n))
<1> DEFINE T == {s \in Seq(GoodPairs) : Len(s) = Len(ValuesOf(s, n)) + Len(Others(s, n))}
<1>1. <<>> \in T
  <2>1. <<>> \in Seq(GoodPairs) /\ Len(<<>>) = 0
    BY EmptySeq
  <2>2. ValuesOf(<<>>, n) = <<>> /\ Others(<<>>, n) = <<>>
    BY <2>1, ValuesOfIs, OthersIs, PickEmpty
  <2> QED
    BY <2>1, <2>2
<1>2. ASSUME NEW s \in Seq(GoodPairs), NEW p \in GoodPairs, s \in T PROVE Append(s, p) \in T
  <2> DEFINE v == ValuesOf(s, n)
             o == Others(s, n)
  <2>1. v \in Seq(GoodValues) /\ o \in Seq(GoodPairs) /\ p[2] \in GoodValues
    BY ValuesOfIs, OthersIs, GoodPairsAre
  <2>2. Len(s) = Len(v) + Len(o)
    BY <1>2
  <2>3. /\ Append(s, p) \in Seq(GoodPairs) /\ Len(Append(s, p)) = Len(s) + 1
        /\ ValuesOf(Append(s, p), n) = IF Fold(p[1]) = Fold(n) THEN Append(v, p[2]) ELSE v
        /\ Others(Append(s, p), n) = IF Fold(p[1]) = Fold(n) THEN o ELSE Append(o, p)
    BY PairsAppend
  <2> HIDE DEF v, o
  <2>4. Len(Append(v, p[2])) = Len(v) + 1 /\ Len(Append(o, p)) = Len(o) + 1
        /\ Len(v) \in Nat /\ Len(o) \in Nat
    <3>1. Len(Append(v, p[2])) = Len(v) + 1 /\ Len(v) \in Nat
      BY <2>1, AppendProperties, LenProperties
    <3>2. Len(Append(o, p)) = Len(o) + 1 /\ Len(o) \in Nat
      BY <2>1, AppendProperties, LenProperties
    <3> QED
      BY <3>1, <3>2
  <2>5. Len(Append(s, p)) = Len(ValuesOf(Append(s, p), n)) + Len(Others(Append(s, p), n))
    BY <2>2, <2>3, <2>4
  <2> QED
    BY <2>3, <2>5
<1> HIDE DEF T
<1>3. Seq(GoodPairs) \subseteq T
  BY <1>1, <1>2, SeqInduction
<1> QED
  BY <1>3 DEF T

SameValues(ps, qs) == \A n \in GoodNames : ValuesOf(ps, n) = ValuesOf(qs, n)

\* The last pair has a name, and fewer pairs go by others.
LEMMA LastName ==
    ASSUME NEW s \in Seq(GoodPairs), s # <<>>
    PROVE  \E n \in GoodNames : Len(ValuesOf(s, n)) > 0 /\ Len(Others(s, n)) < Len(s)
<1>1. PICK t \in Seq(GoodPairs), p \in GoodPairs : s = Append(t, p)
  BY SequenceEmptyOrAppend
<1> DEFINE n == p[1]
           v == ValuesOf(t, n)
<1>2. n \in GoodNames /\ p[2] \in GoodValues
  BY GoodPairsAre
<1>3. v \in Seq(GoodValues)
  BY ValuesOfIs
<1>4. ValuesOf(s, n) = Append(v, p[2])
  BY <1>1, PairsAppend
<1> HIDE DEF v, n
<1>5. Len(Append(v, p[2])) = Len(v) + 1 /\ Len(v) \in Nat
  BY <1>2, <1>3, AppendProperties, LenProperties
<1>6. Len(s) = Len(ValuesOf(s, n)) + Len(Others(s, n)) /\ Len(Others(s, n)) \in Nat
  <2>1. Others(s, n) \in Seq(GoodPairs)
    BY OthersIs
  <2> QED
    BY <2>1, OthersLen, LenProperties
<1> QED
  BY <1>2, <1>4, <1>5, <1>6

\* Sequences of pairs that agree on every name have the same length.
LEMMA SameLength ==
    ASSUME NEW ps \in Seq(GoodPairs), NEW qs \in Seq(GoodPairs), SameValues(ps, qs)
    PROVE  Len(ps) = Len(qs)
<1> DEFINE Good(k) == \A s, t \in Seq(GoodPairs) : Len(s) = k /\ SameValues(s, t) => Len(s) = Len(t)
           N == {k \in Nat : Good(k)}
<1>1. ASSUME NEW k \in Nat, \A j \in 0..k - 1 : j \in N PROVE k \in N
  <2> SUFFICES ASSUME NEW s \in Seq(GoodPairs), NEW t \in Seq(GoodPairs), Len(s) = k, SameValues(s, t)
               PROVE  Len(s) = Len(t)
    OBVIOUS
  <2>1. CASE s = <<>> /\ t = <<>>
    BY <2>1
  <2>2. CASE ~(s = <<>> /\ t = <<>>)
    <3>1. PICK n \in GoodNames : /\ Len(ValuesOf(s, n)) > 0 \/ Len(ValuesOf(t, n)) > 0
      BY <2>2, LastName
    <3> DEFINE so == Others(s, n)
               to == Others(t, n)
    <3>2. ValuesOf(s, n) = ValuesOf(t, n)
      BY DEF SameValues
    <3>3. so \in Seq(GoodPairs) /\ to \in Seq(GoodPairs)
      BY OthersIs
    <3>4. Len(s) = Len(ValuesOf(s, n)) + Len(so) /\ Len(t) = Len(ValuesOf(t, n)) + Len(to)
      BY OthersLen
    <3>5. Len(so) \in Nat /\ Len(to) \in Nat /\ Len(ValuesOf(s, n)) \in Nat
      <4>1. ValuesOf(s, n) \in Seq(GoodValues)
        BY ValuesOfIs
      <4> QED
        BY <3>3, <4>1, LenProperties
    <3>6. SameValues(so, to)
      <4> SUFFICES ASSUME NEW m \in GoodNames PROVE ValuesOf(so, m) = ValuesOf(to, m)
        BY DEF SameValues
      <4>1. ValuesOf(s, m) = ValuesOf(t, m)
        BY DEF SameValues
      <4>2. /\ ValuesOf(so, m) = IF Fold(m) = Fold(n) THEN <<>> ELSE ValuesOf(s, m)
            /\ ValuesOf(to, m) = IF Fold(m) = Fold(n) THEN <<>> ELSE ValuesOf(t, m)
        BY OthersValues
      <4> QED
        BY <4>1, <4>2
    <3> HIDE DEF so, to
    <3>7. Len(so) \in 0..k - 1
      BY <3>1, <3>2, <3>4, <3>5
    <3>8. Len(so) \in N
      BY <1>1, <3>7
    <3>9. Len(so) = Len(to)
      BY <3>3, <3>6, <3>8
    <3> QED
      BY <3>2, <3>4, <3>9
  <2> QED
    BY <2>1, <2>2
<1> HIDE DEF N
<1>2. Nat \subseteq N
  BY <1>1, StrongInduction
<1>3. Len(ps) \in N
  BY <1>2, LenProperties
<1> QED
  BY <1>3 DEF N

(***************************************************************************)
(* What the edits of a map leave                                           *)
(***************************************************************************)
\* The empty map.
LEMMA EmptyMap == IsMap(EmptyHeaders) /\ \A n : GetAll(EmptyHeaders, n) = <<>>
<1>1. DOMAIN EmptyHeaders.headers = {}
  BY DEF EmptyHeaders
<1> QED
  BY <1>1, FS_EmptySet DEF IsMap, GetAll, Has

\* get_all returns values.
LEMMA GetAllType ==
    ASSUME NEW m, IsMap(m), NEW n
    PROVE  GetAll(m, n) \in Seq(GoodValues)
<1>1. <<>> \in Seq(GoodValues)
  BY EmptySeq
<1> QED
  BY <1>1 DEF IsMap, IsEntry, GetAll, Has

\* A name has the values it is given, the others keep theirs.
LEMMA PutIs ==
    ASSUME NEW m, IsMap(m), NEW name \in GoodNames, NEW values \in Seq(GoodValues), values # <<>>,
           NEW r, r.headers = Put(m, name, values)
    PROVE  /\ IsMap(r)
           /\ \A n : GetAll(r, n) = IF Fold(n) = Fold(name) THEN values ELSE GetAll(m, n)
<1> DEFINE D == DOMAIN m.headers
           key == Fold(name)
           spelled == IF Has(m, name) THEN m.headers[key].name ELSE name
           e == [name |-> spelled, values |-> values]
<1>1. IsFiniteSet(D) /\ \A k \in D : IsEntry(k, m.headers[k])
  BY DEF IsMap
<1>2. r.headers = [k \in D \cup {key} |-> IF k = key THEN e ELSE m.headers[k]]
  BY DEF Put
<1>3. DOMAIN r.headers = D \cup {key}
  BY <1>2
<1>4. r.headers[key] = e /\ \A k \in D : k # key => r.headers[k] = m.headers[k]
  BY <1>2
<1>5. IsEntry(key, e)
  <2>1. e.name = spelled /\ e.values = values
    OBVIOUS
  <2>2. spelled \in GoodNames /\ Fold(spelled) = key
    BY <1>1 DEF Has, IsEntry
  <2> HIDE DEF e, spelled, key
  <2> QED
    BY <2>1, <2>2 DEF IsEntry
<1>6. e.values = values
  OBVIOUS
<1> HIDE DEF e, spelled, key, D
<1>7. IsFiniteSet(D \cup {key})
  BY <1>1, FS_AddElement
<1>8. \A k \in D \cup {key} : IsEntry(k, r.headers[k])
  BY <1>1, <1>4, <1>5
<1>9. IsMap(r)
  BY <1>3, <1>7, <1>8 DEF IsMap
<1>10. ASSUME NEW n PROVE GetAll(r, n) = IF Fold(n) = key THEN values ELSE GetAll(m, n)
  <2>1. GetAll(r, n) = IF Fold(n) \in D \cup {key} THEN r.headers[Fold(n)].values ELSE <<>>
    BY <1>3 DEF GetAll, Has
  <2>2. GetAll(m, n) = IF Fold(n) \in D THEN m.headers[Fold(n)].values ELSE <<>>
    BY DEF GetAll, Has, D
  <2> QED
    BY <1>4, <1>6, <2>1, <2>2
<1> QED
  BY <1>9, <1>10 DEF key

\* insert replaces the values of the name.
LEMMA InsertIs ==
    ASSUME NEW m, IsMap(m), NEW name \in GoodNames, NEW value \in GoodValues
    PROVE  /\ IsMap(InsertHeader(m, name, value))
           /\ InsertHeader(m, name, value).len = m.len - Len(GetAll(m, name)) + 1
           /\ \A n : GetAll(InsertHeader(m, name, value), n) =
                IF Fold(n) = Fold(name) THEN <<value>> ELSE GetAll(m, n)
<1> DEFINE r == InsertHeader(m, name, value)
           values == <<value>>
<1>1. r.headers = Put(m, name, values) /\ r.len = m.len - Len(GetAll(m, name)) + 1
  BY DEF InsertHeader
<1>2. values \in Seq(GoodValues) /\ values # <<>>
  OBVIOUS
<1> HIDE DEF r, values
<1>3. IsMap(r) /\ \A n : GetAll(r, n) = IF Fold(n) = Fold(name) THEN values ELSE GetAll(m, n)
  BY <1>1, <1>2, PutIs
<1> QED
  BY <1>1, <1>3 DEF r, values

\* append adds to them.
LEMMA AppendIs ==
    ASSUME NEW m, IsMap(m), NEW name \in GoodNames, NEW value \in GoodValues
    PROVE  /\ IsMap(AppendHeader(m, name, value))
           /\ AppendHeader(m, name, value).len = m.len + 1
           /\ \A n : GetAll(AppendHeader(m, name, value), n) =
                IF Fold(n) = Fold(name) THEN Append(GetAll(m, n), value) ELSE GetAll(m, n)
<1> DEFINE r == AppendHeader(m, name, value)
           old == GetAll(m, name)
           values == Append(old, value)
<1>1. r.headers = Put(m, name, values) /\ r.len = m.len + 1
  BY DEF AppendHeader
<1>2. old \in Seq(GoodValues)
  BY GetAllType
<1>3. \A n : Fold(n) = Fold(name) => GetAll(m, n) = old
  BY DEF GetAll, Has
<1> HIDE DEF r, old
<1>4. values \in Seq(GoodValues) /\ Len(values) = Len(old) + 1 /\ Len(old) \in Nat
  BY <1>2, AppendProperties, LenProperties
<1> HIDE DEF values
<1>5. values # <<>>
  BY <1>4, EmptySeq
<1>6. IsMap(r) /\ \A n : GetAll(r, n) = IF Fold(n) = Fold(name) THEN values ELSE GetAll(m, n)
  BY <1>1, <1>4, <1>5, PutIs
<1> QED
  BY <1>1, <1>3, <1>6 DEF r, values

\* remove takes them out.
LEMMA RemoveIs ==
    ASSUME NEW m, IsMap(m), NEW name
    PROVE  /\ IsMap(RemoveHeader(m, name))
           /\ RemoveHeader(m, name).len = m.len - Len(GetAll(m, name))
           /\ \A n : GetAll(RemoveHeader(m, name), n) =
                IF Fold(n) = Fold(name) THEN <<>> ELSE GetAll(m, n)
<1> DEFINE r == RemoveHeader(m, name)
           D == DOMAIN m.headers
           key == Fold(name)
<1>1. r.headers = [k \in D \ {key} |-> m.headers[k]] /\ r.len = m.len - Len(GetAll(m, name))
  BY DEF RemoveHeader
<1>2. IsFiniteSet(D) /\ \A k \in D : IsEntry(k, m.headers[k])
  BY DEF IsMap
<1>3. DOMAIN r.headers = D \ {key} /\ \A k \in D \ {key} : r.headers[k] = m.headers[k]
  <2> HIDE DEF r
  <2> QED
    BY <1>1
<1>4. IsFiniteSet(D \ {key})
  <2> HIDE DEF D, key
  <2> QED
    BY <1>2, FS_RemoveElement
<1> HIDE DEF r, key
<1>5. IsMap(r)
  BY <1>2, <1>3, <1>4 DEF IsMap
<1>6. \A n : GetAll(r, n) = IF Fold(n) = key THEN <<>> ELSE GetAll(m, n)
  BY <1>3 DEF GetAll, Has
<1> QED
  BY <1>1, <1>5, <1>6 DEF r, key

\* The maps that any names and values can make, good or not.
Keys == {Fold(n) : n \in Strings}
AnyEntry == [name : Strings, values : Seq(Strings)]
AnyTree == UNION {[K -> AnyEntry] : K \in SUBSET Keys}
AnyMap == [headers : AnyTree, len : Nat]

\* Appending stays among those maps.
LEMMA AnyMapAppend ==
    ASSUME NEW m \in AnyMap, NEW name \in Strings, NEW value \in Strings
    PROVE  AppendHeader(m, name, value) \in AnyMap
<1> DEFINE D == DOMAIN m.headers
           key == Fold(name)
           old == GetAll(m, name)
           spelled == IF Has(m, name) THEN m.headers[key].name ELSE name
           e == [name |-> spelled, values |-> Append(old, value)]
           tree == Put(m, name, Append(old, value))
<1>1. m.len \in Nat /\ m.headers \in AnyTree
  BY DEF AnyMap
<1>2. PICK K \in SUBSET Keys : m.headers \in [K -> AnyEntry]
  BY <1>1 DEF AnyTree
<1>3. D = K /\ key \in Keys
  BY <1>2 DEF Keys
<1>4. old \in Seq(Strings)
  <2>1. <<>> \in Seq(Strings)
    BY EmptySeq
  <2> QED
    BY <1>2, <2>1 DEF GetAll, Has, AnyEntry
<1>5. spelled \in Strings
  BY <1>2 DEF Has, AnyEntry
<1> HIDE DEF old, spelled
<1>6. Append(old, value) \in Seq(Strings)
  BY <1>4, AppendProperties
<1>7. e \in AnyEntry
  BY <1>5, <1>6 DEF AnyEntry
<1>8. tree = [k \in D \cup {key} |-> IF k = key THEN e ELSE m.headers[k]]
  BY DEF Put, spelled
<1> HIDE DEF e, tree, key
<1>9. tree \in [K \cup {key} -> AnyEntry] /\ K \cup {key} \in SUBSET Keys
  BY <1>2, <1>3, <1>7, <1>8
<1>10. tree \in AnyTree
  BY <1>9 DEF AnyTree
<1>11. AppendHeader(m, name, value) = [headers |-> tree, len |-> m.len + 1]
  BY DEF AppendHeader, tree, old
<1> QED
  BY <1>1, <1>10, <1>11 DEF AnyMap

\* And the empty map is one of them.
LEMMA AnyMapEmpty == EmptyHeaders \in AnyMap
<1> DEFINE tree == [k \in {} |-> <<>>]
<1>1. tree \in [{} -> AnyEntry] /\ {} \in SUBSET Keys
  OBVIOUS
<1> HIDE DEF tree
<1>2. tree \in AnyTree
  BY <1>1 DEF AnyTree
<1> QED
  BY <1>2 DEF AnyMap, EmptyHeaders, tree

\* What the definition of CollectHeaders says.
LEMMA CollectHeadersIs ==
    \A s \in Pairs :
      CollectHeaders[s] = IF s = <<>> THEN EmptyHeaders
                          ELSE AppendHeader(CollectHeaders[Front(s)], Last(s)[1], Last(s)[2])
<1> DEFINE D == Pairs
           V == AnyMap
           B == {<<>>}
           size == [s \in Pairs |-> Len(s)]
           next == [s \in Pairs |-> IF s = <<>> THEN <<>> ELSE Front(s)]
           base == [s \in Pairs |-> EmptyHeaders]
           comb == [p \in Pairs \X AnyMap |->
                      IF p[1] = <<>> THEN EmptyHeaders
                      ELSE AppendHeader(p[2], Last(p[1])[1], Last(p[1])[2])]
           Fits(f) == f = [s \in Pairs |-> IF s = <<>> THEN EmptyHeaders
                                           ELSE AppendHeader(f[Front(s)], Last(s)[1], Last(s)[2])]
<1>1. size \in [D -> Nat]
  BY LenProperties DEF Pairs
<1>2. next \in [D -> D] /\ \A s \in D : s \notin B => size[next[s]] < size[s]
  <2>1. \A s \in Pairs : s # <<>> => Front(s) \in Pairs /\ Len(Front(s)) < Len(s)
    BY FrontLast DEF Pairs
  <2>2. <<>> \in Pairs
    BY EmptySeq DEF Pairs
  <2> QED
    BY <2>1, <2>2
<1>3. base \in [D -> V]
  BY AnyMapEmpty
<1>4. comb \in [D \X V -> V]
  <2> SUFFICES ASSUME NEW s \in Pairs, NEW m \in AnyMap, s # <<>>
               PROVE  AppendHeader(m, Last(s)[1], Last(s)[2]) \in AnyMap
    BY AnyMapEmpty
  <2>1. Last(s) \in Strings \X Strings
    BY FrontLast DEF Pairs
  <2>2. Last(s)[1] \in Strings /\ Last(s)[2] \in Strings
    BY <2>1
  <2> QED
    BY <2>2, AnyMapAppend
<1>5. PICK f \in [D -> V] : \A s \in D : SolvesAt(f, s, B, base, comb, next)
  <2> HIDE DEF D, V, B, size, next, base, comb
  <2> QED
    BY <1>1, <1>2, <1>3, <1>4, Recursion
<1>6. ASSUME NEW s \in Pairs
      PROVE  f[s] = IF s = <<>> THEN EmptyHeaders
                    ELSE AppendHeader(f[Front(s)], Last(s)[1], Last(s)[2])
  <2>1. SolvesAt(f, s, B, base, comb, next)
    <3> HIDE DEF B, size, next, base, comb
    <3> QED
      BY <1>5
  <2>2. s # <<>> => next[s] = Front(s) /\ Front(s) \in Pairs
    BY FrontLast DEF Pairs
  <2>3. s # <<>> => comb[<<s, f[Front(s)]>>] = AppendHeader(f[Front(s)], Last(s)[1], Last(s)[2])
    BY <1>5, <2>2
  <2>4. s # <<>> => f[s] = comb[<<s, f[Front(s)]>>]
    <3> HIDE DEF size, next, base, comb
    <3> QED
      BY <2>1, <2>2 DEF SolvesAt
  <2>5. s = <<>> => f[s] = EmptyHeaders
    <3> HIDE DEF size, next, comb
    <3> QED
      BY <2>1 DEF SolvesAt
  <2> QED
    BY <2>3, <2>4, <2>5
<1>7. Fits(f)
  BY <1>5, <1>6
<1> HIDE DEF Fits
<1>8. Fits(CHOOSE g : Fits(g))
  BY <1>7
<1>9. CollectHeaders = CHOOSE g : Fits(g)
  BY DEF CollectHeaders, Fits
<1>10. Fits(CollectHeaders)
  BY <1>8, <1>9
<1> QED
  BY <1>10 DEF Fits

\* The collected map has the values of the pairs, and counts them.
LEMMA Collected ==
    \A pairs \in Seq(GoodPairs) :
      /\ IsMap(CollectHeaders[pairs])
      /\ CollectHeaders[pairs].len = Len(pairs)
      /\ \A n : GetAll(CollectHeaders[pairs], n) = ValuesOf(pairs, n)
<1> DEFINE Good(s) == /\ IsMap(CollectHeaders[s])
                      /\ CollectHeaders[s].len = Len(s)
                      /\ \A n : GetAll(CollectHeaders[s], n) = ValuesOf(s, n)
           T == {s \in Seq(GoodPairs) : Good(s)}
<1>1. \A s \in Seq(GoodPairs) : s \in Pairs
  <2> SUFFICES ASSUME NEW s \in Seq(GoodPairs) PROVE s \in Pairs
    OBVIOUS
  <2>1. Len(s) \in Nat /\ s = [i \in 1..Len(s) |-> s[i]] /\ \A i \in 1..Len(s) : s[i] \in GoodPairs
    BY LenProperties, ElementOfSeq
  <2>2. \A i \in 1..Len(s) : s[i] \in Strings \X Strings
    BY <2>1 DEF GoodPairs
  <2> QED
    BY <2>1, <2>2 DEF Pairs
<1>2. <<>> \in T
  <2>1. <<>> \in Seq(GoodPairs) /\ Len(<<>>) = 0
    BY EmptySeq
  <2>2. CollectHeaders[<<>>] = EmptyHeaders
    BY <1>1, <2>1, CollectHeadersIs
  <2>3. \A n : ValuesOf(<<>>, n) = <<>>
    BY <2>1, ValuesOfIs, PickEmpty
  <2>4. EmptyHeaders.len = 0
    BY DEF EmptyHeaders
  <2> QED
    BY <2>1, <2>2, <2>3, <2>4, EmptyMap
<1>3. ASSUME NEW s \in Seq(GoodPairs), NEW p \in GoodPairs, s \in T PROVE Append(s, p) \in T
  <2> DEFINE t == Append(s, p)
             m == CollectHeaders[s]
             r == CollectHeaders[t]
  <2>1. t \in Seq(GoodPairs) /\ Len(t) = Len(s) + 1
    BY AppendProperties
  <2>2. Front(t) = s /\ Last(t) = p
    BY FrontLastAppend
  <2>3. t # <<>>
    BY <2>1, EmptySeq, LenProperties
  <2> HIDE DEF t
  <2>4. r = AppendHeader(m, p[1], p[2])
    BY <1>1, <2>1, <2>2, <2>3, CollectHeadersIs
  <2>5. IsMap(m) /\ m.len = Len(s) /\ \A n : GetAll(m, n) = ValuesOf(s, n)
    BY <1>3
  <2>6. p[1] \in GoodNames /\ p[2] \in GoodValues
    BY GoodPairsAre
  <2> HIDE DEF m, r
  <2>7. /\ IsMap(r) /\ r.len = m.len + 1
        /\ \A n : GetAll(r, n) = IF Fold(n) = Fold(p[1]) THEN Append(GetAll(m, n), p[2]) ELSE GetAll(m, n)
    <3> DEFINE x == p[1]
               v == p[2]
    <3>1. x \in GoodNames /\ v \in GoodValues /\ r = AppendHeader(m, x, v)
      BY <2>4, <2>6
    <3> HIDE DEF x, v
    <3>2. /\ IsMap(AppendHeader(m, x, v)) /\ AppendHeader(m, x, v).len = m.len + 1
          /\ \A n : GetAll(AppendHeader(m, x, v), n) =
                IF Fold(n) = Fold(x) THEN Append(GetAll(m, n), v) ELSE GetAll(m, n)
      BY <2>5, <3>1, AppendIs
    <3> QED
      BY <3>1, <3>2 DEF x, v
  <2>8. ASSUME NEW n PROVE GetAll(r, n) = ValuesOf(t, n)
    <3>1. ValuesOf(t, n) = IF Fold(p[1]) = Fold(n) THEN Append(ValuesOf(s, n), p[2]) ELSE ValuesOf(s, n)
      BY PairsAppend DEF t
    <3>2. GetAll(r, n) = IF Fold(n) = Fold(p[1]) THEN Append(GetAll(m, n), p[2]) ELSE GetAll(m, n)
      BY <2>7
    <3>3. GetAll(m, n) = ValuesOf(s, n)
      BY <2>5
    <3> QED
      BY <3>1, <3>2, <3>3
  <2>9. Good(t)
    BY <2>1, <2>5, <2>7, <2>8 DEF r
  <2> QED
    BY <2>1, <2>9 DEF t
<1> HIDE DEF T
<1>4. Seq(GoodPairs) \subseteq T
  BY <1>2, <1>3, SeqInduction
<1> QED
  BY <1>4 DEF T

(***************************************************************************)
(* Subjects                                                                *)
(***************************************************************************)
\* The token that begins at a ends at e.
EndsAt(s, a, e) ==
    /\ e \in a - 1..Len(s)
    /\ \A i \in a..e : s[i] # "."
    /\ e < Len(s) => s[e + 1] = "."

\* TokenEnd is where the token ends.
LEMMA TokenEndIs ==
    ASSUME NEW s \in Strings, NEW a \in 1..Len(s) + 1
    PROVE  EndsAt(s, a, TokenEnd(s, a))
<1> DEFINE dots == {i \in a..Len(s) : s[i] = "."}
<1>1. Len(s) \in Nat
  BY BytesType
<1>2. \E e \in a - 1..Len(s) : /\ \A i \in a..e : s[i] # "."
                               /\ e < Len(s) => s[e + 1] = "."
  <2>1. CASE dots = {}
    <3>1. Len(s) \in a - 1..Len(s) /\ ~(Len(s) < Len(s)) /\ \A i \in a..Len(s) : s[i] # "."
      BY <1>1, <2>1
    <3> QED
      BY <3>1
  <2>2. CASE dots # {}
    <3>1. dots \in SUBSET Nat
      BY <1>1
    <3>2. Min(dots) \in dots /\ \A i \in dots : Min(dots) <= i
      BY <2>2, <3>1, MinIs
    <3> DEFINE d == Min(dots)
    <3> HIDE DEF d
    <3>3. d \in a..Len(s) /\ s[d] = "." /\ \A i \in a..Len(s) : s[i] = "." => d <= i
      BY <3>2 DEF d
    <3>4. d - 1 \in a - 1..Len(s) /\ d - 1 + 1 = d
      BY <1>1, <3>3
    <3>5. \A i \in a..d - 1 : i \in a..Len(s) /\ ~(d <= i)
      BY <1>1, <3>3
    <3>6. \A i \in a..d - 1 : s[i] # "."
      BY <3>3, <3>5
    <3>7. s[d - 1 + 1] = "."
      BY <3>3, <3>4
    <3> QED
      BY <3>4, <3>6, <3>7
  <2> QED
    BY <2>1, <2>2
<1> QED
  BY <1>2 DEF TokenEnd, EndsAt

\* What a token has to be.
Proper(s, a, e) ==
    /\ a <= e
    /\ a < e => \A i \in a..e : s[i] \notin {"*", ">"}
    /\ a = e /\ s[a] = ">" => e = Len(s)

\* A token without an error is a proper one.
LEMMA TokenErrIs ==
    ASSUME NEW s \in Strings, NEW a \in 1..Len(s) + 1
    PROVE  TokenErr(s, a) = NoErr <=> Proper(s, a, TokenEnd(s, a))
<1> DEFINE e == TokenEnd(s, a)
           t == Token(s, a)
<1>1. Len(s) \in Nat /\ e \in a - 1..Len(s)
  BY TokenEndIs, BytesType DEF EndsAt
<1>2. t = SubSeq(s, a, e)
  BY DEF Token
<1> HIDE DEF e, t
<1>3. t \in Strings /\ Len(t) = e - a + 1 /\ \A i \in 1..e - a + 1 : t[i] = s[a + i - 1]
  BY <1>1, <1>2, PartOf DEF Strings
<1>4. t = <<>> <=> ~(a <= e)
  <2>1. t = <<>> <=> Len(t) = 0
    BY <1>3, EmptySeq DEF Strings
  <2> QED
    BY <1>1, <1>3, <2>1
<1>5. BrokenWildcard(t) <=> a < e /\ \E i \in a..e : s[i] \in {"*", ">"}
  <2>1. DOMAIN t = 1..Len(t)
    BY <1>3, LenProperties DEF Strings
  <2>2. Len(t) > 1 <=> a < e
    BY <1>1, <1>3
  <2>3. ASSUME NEW k \in DOMAIN t, t[k] \in {"*", ">"} PROVE \E i \in a..e : s[i] \in {"*", ">"}
    <3>1. a + k - 1 \in a..e /\ k \in 1..e - a + 1
      BY <1>1, <1>3, <2>1
    <3> QED
      BY <1>3, <2>3, <3>1
  <2>4. ASSUME NEW i \in a..e, s[i] \in {"*", ">"} PROVE \E k \in DOMAIN t : t[k] \in {"*", ">"}
    <3>1. i - a + 1 \in 1..e - a + 1 /\ a + (i - a + 1) - 1 = i /\ i - a + 1 \in DOMAIN t
      BY <1>1, <1>3, <2>1
    <3>2. t[i - a + 1] = s[a + (i - a + 1) - 1]
      BY <1>3, <3>1
    <3> QED
      BY <2>4, <3>1, <3>2
  <2> QED
    BY <2>2, <2>3, <2>4 DEF BrokenWildcard
<1>6. t = <<">">> <=> a = e /\ s[a] = ">"
  <2> DEFINE g == ">"
             one == <<g>>
  <2>1. Len(one) = 1 /\ one[1] = g
    OBVIOUS
  <2>2. one \in Seq(Symbols)
    BY DEF Symbols
  <2> HIDE DEF one, g
  <2>3. ASSUME t = one PROVE a = e /\ s[a] = g
    <3>1. e - a + 1 = 1 /\ 1 \in 1..e - a + 1 /\ a + 1 - 1 = a
      <4>1. Len(t) = 1
        BY <2>1, <2>3
      <4>2. Len(t) = e - a + 1
        BY <1>3
      <4>3. e - a + 1 = 1
        BY <4>1, <4>2
      <4> HIDE DEF t
      <4> QED
        BY <1>1, <4>3
    <3>2. t[1] = s[a]
      BY <1>3, <3>1
    <3> QED
      BY <1>1, <2>1, <2>3, <3>1, <3>2
  <2>4. ASSUME a = e, s[a] = g PROVE t = one
    <3>1. e - a + 1 = 1 /\ a + 1 - 1 = a /\ 1 \in 1..e - a + 1
      BY <1>1, <2>4
    <3>2. Len(t) = 1 /\ t[1] = g
      BY <1>3, <2>4, <3>1
    <3>3. \A i \in 1..Len(t) : t[i] = one[i]
      BY <2>1, <3>2
    <3> QED
      BY <1>3, <2>1, <2>2, <3>2, <3>3, SeqEqual DEF Strings
  <2> QED
    BY <2>3, <2>4 DEF one, g
<1>7. TokenErr(s, a) = NoErr <=> /\ t # <<>>
                                 /\ ~BrokenWildcard(t)
                                 /\ ~(t = <<">">> /\ e < Len(s))
  <2>1. "BrokenToken" # NoErr /\ "BrokenWildcard" # NoErr
    BY DEF NoErr
  <2> QED
    BY <2>1 DEF TokenErr, e, t
<1>8. e < Len(s) <=> e # Len(s)
  BY <1>1
<1> QED
  BY <1>4, <1>5, <1>6, <1>7, <1>8 DEF Proper, e

\* validate_subject accepts a subject of proper tokens.
LEMMA SubjectErrIs ==
    ASSUME NEW s \in Strings
    PROVE  Accepts(NewSubject(s)) <=>
             /\ s # <<>> /\ ~IsSeparated(s)
             /\ \A a \in TokenStarts(s) : Proper(s, a, TokenEnd(s, a))
<1> DEFINE bad == {a \in TokenStarts(s) : TokenErr(s, a) # NoErr}
<1>1. Len(s) \in Nat
  BY BytesType
<1>2. \A a \in TokenStarts(s) : a \in 1..Len(s) + 1
  BY DEF TokenStarts
<1>3. bad = {} <=> \A a \in TokenStarts(s) : Proper(s, a, TokenEnd(s, a))
  BY <1>2, TokenErrIs
<1>4. bad # {} => TokenErr(s, Min(bad)) # NoErr
  <2>1. bad \in SUBSET Nat
    BY <1>1, <1>2
  <2>2. bad # {} => Min(bad) \in bad
    BY <2>1, MinIs
  <2> QED
    BY <2>2
<1>5. ValidateSubject(s) = IF s = <<>> THEN "Empty"
                           ELSE IF IsSeparated(s) THEN "IllegalCharacter"
                           ELSE IF bad # {} THEN TokenErr(s, Min(bad)) ELSE NoErr
  BY DEF ValidateSubject
<1> HIDE DEF bad
<1>6. "Empty" # NoErr /\ "IllegalCharacter" # NoErr
  BY DEF NoErr
<1>7. ValidateSubject(s) = NoErr <=> s # <<>> /\ ~IsSeparated(s) /\ bad = {}
  BY <1>4, <1>5, <1>6
<1>8. Accepts(NewSubject(s)) <=> ValidateSubject(s) = NoErr
  BY DEF Accepts, NewSubject, Checked, Ok, Err
<1> QED
  BY <1>3, <1>7, <1>8

\* A symbol that is no dot lies in a token.
LEMMA StartOf ==
    ASSUME NEW s \in Strings, NEW i \in 1..Len(s), s[i] # "."
    PROVE  \E a \in TokenStarts(s) : /\ a <= i /\ i <= TokenEnd(s, a)
<1>1. Len(s) \in Nat
  BY BytesType
<1> DEFINE N == {k \in Nat : k + 1 <= i /\ (\A j \in k + 1..i : s[j] # ".") => 
                               \E a \in TokenStarts(s) : a <= k + 1 /\ \A j \in a..i : s[j] # "."}
<1>2. 0 \in N
  <2>1. 1 \in TokenStarts(s)
    BY <1>1 DEF TokenStarts
  <2> QED
    BY <2>1
<1>3. ASSUME NEW k \in Nat, k \in N PROVE k + 1 \in N
  <2> SUFFICES ASSUME k + 2 <= i, \A j \in k + 2..i : s[j] # "."
               PROVE  \E a \in TokenStarts(s) : a <= k + 2 /\ \A j \in a..i : s[j] # "."
    BY <1>3
  <2>1. CASE s[k + 1] = "."
    <3>1. k + 2 \in 1..Len(s) + 1 /\ k + 2 - 1 = k + 1
      BY <1>1
    <3>2. k + 2 \in TokenStarts(s)
      BY <2>1, <3>1 DEF TokenStarts
    <3> QED
      BY <3>2
  <2>2. CASE s[k + 1] # "."
    <3>1. \A j \in k + 1..i : j = k + 1 \/ j \in k + 2..i
      OBVIOUS
    <3>2. k + 1 <= i /\ \A j \in k + 1..i : s[j] # "."
      BY <2>2, <3>1
    <3>3. PICK a \in TokenStarts(s) : a <= k + 1 /\ \A j \in a..i : s[j] # "."
      BY <1>3, <3>2
    <3>4. a <= k + 2
      BY <3>3, <1>1 DEF TokenStarts
    <3> QED
      BY <3>3, <3>4
  <2> QED
    BY <2>1, <2>2
<1> HIDE DEF N
<1>4. Nat \subseteq N
  BY <1>2, <1>3, SetInduction
<1>5. i - 1 \in Nat /\ i - 1 + 1 = i /\ \A j \in i..i : j = i
  BY <1>1
<1>6. PICK a \in TokenStarts(s) : a <= i /\ \A j \in a..i : s[j] # "."
  <2>1. i - 1 \in N
    BY <1>4, <1>5
  <2> QED
    BY <1>5, <2>1 DEF N
<1>7. a \in 1..Len(s) + 1
  BY DEF TokenStarts
<1>8. EndsAt(s, a, TokenEnd(s, a))
  BY <1>7, TokenEndIs
<1> DEFINE e == TokenEnd(s, a)
<1> HIDE DEF e
<1>9. e \in a - 1..Len(s) /\ (e < Len(s) => s[e + 1] = ".")
  BY <1>8 DEF EndsAt, e
<1>10. i <= e
  <2> SUFFICES ASSUME ~(i <= e) PROVE FALSE
    OBVIOUS
  <2>1. e + 1 \in a..i /\ e < Len(s)
    BY <1>1, <1>6, <1>7, <1>9
  <2> QED
    BY <1>6, <1>9, <2>1
<1> QED
  BY <1>6, <1>10 DEF e

Starts(s, i) == i = 1 \/ s[i - 1] = "."
Ends(s, i) == i = Len(s) \/ s[i + 1] = "."
Fair(s, i) ==
    /\ s[i] \notin Separators
    /\ s[i] = "." => ~Starts(s, i) /\ i < Len(s)
    /\ s[i] = "*" => Starts(s, i) /\ Ends(s, i)
    /\ s[i] = ">" => Starts(s, i) /\ i = Len(s)

\* The grammar, symbol by symbol.
LEMMA WellFormedIs ==
    ASSUME NEW s \in Strings
    PROVE  WellFormed(s) <=> s # <<>> /\ \A i \in 1..Len(s) : Fair(s, i)
<1>1. DOMAIN s = 1..Len(s)
  BY LenProperties DEF Strings
<1> QED
  BY <1>1 DEF WellFormed, Fair, Starts, Ends, Separators

\* In proper tokens every symbol is where the grammar allows it.
LEMMA TokensFair ==
    ASSUME NEW s \in Strings, s # <<>>, ~IsSeparated(s),
           \A a \in TokenStarts(s) : Proper(s, a, TokenEnd(s, a)), NEW i \in 1..Len(s)
    PROVE  Fair(s, i)
<1>1. Len(s) \in Nat /\ DOMAIN s = 1..Len(s)
  BY BytesType, LenProperties DEF Strings
<1>2. s[i] \notin Separators
  BY <1>1 DEF IsSeparated
<1>3. \A a \in TokenStarts(s) : a \in 1..Len(s) + 1 /\ EndsAt(s, a, TokenEnd(s, a))
  BY TokenEndIs DEF TokenStarts
<1>4. ASSUME NEW a \in TokenStarts(s), a \in 1..Len(s) PROVE s[a] # "."
  <2> DEFINE e == TokenEnd(s, a)
  <2>1. EndsAt(s, a, e) /\ Proper(s, a, e)
    BY <1>3
  <2> HIDE DEF e
  <2>2. a <= e /\ e \in a - 1..Len(s)
    BY <2>1 DEF EndsAt, Proper
  <2>3. a \in a..e
    BY <1>1, <1>4, <2>2
  <2> QED
    BY <2>1, <2>3 DEF EndsAt
<1>5. ASSUME s[i] = "." PROVE ~Starts(s, i) /\ i < Len(s)
  <2>1. ~Starts(s, i)
    <3> SUFFICES ASSUME Starts(s, i) PROVE FALSE
      OBVIOUS
    <3>1. i \in TokenStarts(s)
      BY <1>1 DEF Starts, TokenStarts
    <3> QED
      BY <1>4, <1>5, <3>1
  <2>2. i # Len(s)
    <3> SUFFICES ASSUME i = Len(s) PROVE FALSE
      OBVIOUS
    <3>1. i + 1 \in 1..Len(s) + 1 /\ i + 1 - 1 = i
      BY <1>1
    <3>2. i + 1 \in TokenStarts(s)
      BY <1>5, <3>1 DEF TokenStarts
    <3> DEFINE a == i + 1
               e == TokenEnd(s, a)
    <3>3. EndsAt(s, a, e) /\ Proper(s, a, e)
      BY <1>3, <3>2
    <3> HIDE DEF e
    <3>4. a <= e /\ e \in a - 1..Len(s)
      BY <3>3 DEF EndsAt, Proper
    <3> QED
      BY <1>1, <3>4
  <2>3. i < Len(s)
    BY BytesType, <2>2
  <2> QED
    BY <2>1, <2>3
<1>6. ASSUME s[i] \in {"*", ">"}
      PROVE  Starts(s, i) /\ Ends(s, i) /\ (s[i] = ">" => i = Len(s))
  <2>1. s[i] # "."
    BY <1>6
  <2>2. PICK a \in TokenStarts(s) : a <= i /\ i <= TokenEnd(s, a)
    BY <2>1, StartOf
  <2> DEFINE e == TokenEnd(s, a)
  <2>3. EndsAt(s, a, e) /\ Proper(s, a, e) /\ a \in 1..Len(s) + 1 /\ a <= i /\ i <= e
    BY <1>3, <2>2
  <2> HIDE DEF e
  <2>4. e \in a - 1..Len(s) /\ (e < Len(s) => s[e + 1] = ".")
    BY <2>3 DEF EndsAt
  <2>5. i \in a..e
    BY <1>1, <2>3, <2>4
  <2>6. ~(a < e)
    BY <1>6, <2>3, <2>5 DEF Proper
  <2>7. a = i /\ e = i
    BY <1>1, <2>3, <2>4, <2>6
  <2>8. Starts(s, i)
    BY <1>1, <2>2, <2>7 DEF TokenStarts, Starts
  <2>9. Ends(s, i)
    <3>1. e < Len(s) \/ e = Len(s)
      BY BytesType, <2>3, <2>4
    <3> QED
      BY <2>4, <2>7, <3>1 DEF Ends
  <2>10. s[i] = ">" => i = Len(s)
    BY <2>3, <2>7 DEF Proper
  <2> QED
    BY <2>8, <2>9, <2>10
<1> QED
  BY <1>2, <1>5, <1>6 DEF Fair

\* And where the grammar allows every symbol, the tokens are proper.
LEMMA FairTokens ==
    ASSUME NEW s \in Strings, s # <<>>, \A i \in 1..Len(s) : Fair(s, i), NEW a \in TokenStarts(s)
    PROVE  Proper(s, a, TokenEnd(s, a))
<1> DEFINE e == TokenEnd(s, a)
<1>1. Len(s) \in Nat /\ Len(s) > 0
  BY BytesType, EmptySeq DEF Strings
<1>2. a \in 1..Len(s) + 1 /\ (a > 1 => s[a - 1] = ".")
  BY DEF TokenStarts
<1>3. EndsAt(s, a, e)
  BY <1>2, TokenEndIs
<1> HIDE DEF e
<1>4. e \in a - 1..Len(s) /\ (\A i \in a..e : s[i] # ".") /\ (e < Len(s) => s[e + 1] = ".")
  BY <1>3 DEF EndsAt
<1>5. a <= e
  <2> SUFFICES ASSUME ~(a <= e) PROVE FALSE
    OBVIOUS
  <2>1. e = a - 1
    BY <1>1, <1>2, <1>4
  <2>2. CASE a <= Len(s)
    <3>1. e < Len(s) /\ e + 1 = a /\ a \in 1..Len(s)
      BY <1>1, <1>2, <1>4, <2>1, <2>2
    <3>2. s[a] = "."
      BY <1>4, <3>1
    <3>3. ~Starts(s, a)
      BY <3>1, <3>2 DEF Fair
    <3>4. a = 1 \/ a > 1
      BY <1>1, <1>2
    <3> QED
      BY <1>2, <3>3, <3>4 DEF Starts
  <2>3. CASE ~(a <= Len(s))
    <3>1. a - 1 = Len(s) /\ a > 1 /\ Len(s) \in 1..Len(s)
      BY <1>1, <1>2, <2>3
    <3>2. s[Len(s)] = "."
      BY <1>2, <3>1
    <3>3. Len(s) < Len(s)
      BY <3>1, <3>2 DEF Fair
    <3> QED
      BY <1>1, <3>3
  <2> QED
    BY <2>2, <2>3
<1>6. ASSUME NEW i \in a..e, Starts(s, i) PROVE i = a
  <2> SUFFICES ASSUME i # a PROVE FALSE
    OBVIOUS
  <2>1. i - 1 \in a..e /\ i # 1
    BY <1>1, <1>2, <1>4
  <2>2. s[i - 1] = "."
    BY <1>6, <2>1 DEF Starts
  <2> QED
    BY <1>4, <2>1, <2>2
<1>7. ASSUME NEW i \in a..e, Ends(s, i) PROVE i = e
  <2> SUFFICES ASSUME i # e PROVE FALSE
    OBVIOUS
  <2>1. i + 1 \in a..e /\ i # Len(s)
    BY <1>1, <1>2, <1>4
  <2>2. s[i + 1] = "."
    BY <1>7, <2>1 DEF Ends
  <2> QED
    BY <1>4, <2>1, <2>2
<1>8. ASSUME NEW i \in a..e, s[i] \in {"*", ">"} PROVE i = a /\ i = e /\ (s[i] = ">" => i = Len(s))
  <2>1. i \in 1..Len(s)
    BY <1>1, <1>2, <1>4
  <2>2. Fair(s, i)
    BY <2>1
  <2>3. Starts(s, i) /\ (s[i] = ">" => i = Len(s)) /\ (s[i] = "*" => Ends(s, i))
    BY <1>8, <2>2 DEF Fair
  <2>4. Ends(s, i)
    BY <1>8, <2>3 DEF Ends
  <2> QED
    BY <1>6, <1>7, <2>3, <2>4
<1>9. ASSUME a < e, NEW i \in a..e PROVE s[i] \notin {"*", ">"}
  <2>1. ~(i = a /\ i = e)
    BY <1>1, <1>2, <1>4, <1>9
  <2> QED
    BY <1>8, <2>1
<1>10. ASSUME a = e, s[a] = ">" PROVE e = Len(s)
  <2>1. a \in a..e
    BY <1>1, <1>2, <1>4, <1>5
  <2> QED
    BY <1>8, <1>10, <2>1
<1> QED
  BY <1>5, <1>9, <1>10 DEF Proper, e

\* What validate_subject accepts is what the grammar describes.
LEMMA SubjectGrammar ==
    ASSUME NEW s \in Strings
    PROVE  Accepts(NewSubject(s)) <=> WellFormed(s)
<1>1. ASSUME Accepts(NewSubject(s)) PROVE WellFormed(s)
  <2>1. /\ s # <<>> /\ ~IsSeparated(s)
        /\ \A a \in TokenStarts(s) : Proper(s, a, TokenEnd(s, a))
    BY <1>1, SubjectErrIs
  <2> QED
    BY <2>1, TokensFair, WellFormedIs
<1>2. ASSUME WellFormed(s) PROVE Accepts(NewSubject(s))
  <2>1. s # <<>> /\ \A i \in 1..Len(s) : Fair(s, i)
    BY <1>2, WellFormedIs
  <2>2. \A a \in TokenStarts(s) : Proper(s, a, TokenEnd(s, a))
    BY <2>1, FairTokens
  <2>3. ~IsSeparated(s)
    <3>1. DOMAIN s = 1..Len(s)
      BY LenProperties DEF Strings
    <3> QED
      BY <2>1, <3>1 DEF IsSeparated, Fair
  <2> QED
    BY <2>1, <2>2, <2>3, SubjectErrIs
<1> QED
  BY <1>1, <1>2

\* A group that is refused has a separator.
LEMMA GroupGrammar ==
    ASSUME NEW g \in Strings, g # <<>>, ~Accepts(NewQueueGroup(g))
    PROVE  \E i \in DOMAIN g : g[i] \in Separators
<1>1. Accepts(NewQueueGroup(g)) <=> ValidateQueueGroup(g) = NoErr
  BY DEF Accepts, NewQueueGroup, Checked, Ok, Err
<1> QED
  BY <1>1 DEF ValidateQueueGroup, IsSeparated

(***************************************************************************)
(* What arrives                                                            *)
(***************************************************************************)
HasHeaders(h, m) == h.len = Len(HeaderPairs(m)) /\ \A n : GetAll(h, n) = GetAll(m, n)

\* The headers of a map arrive with the values it holds.
LEMMA HeadersArrive ==
    ASSUME NEW m, IsMap(m)
    PROVE  /\ Accepts(Headers(Block(m)))
           /\ Headers(Block(m)).val.status.code = 0
           /\ HasHeaders(Headers(Block(m)).val.headers, m)
<1> DEFINE head == <<"NATS/1.0">>
           pairs == HeaderPairs(m)
           D == DOMAIN m.headers
           none == [code |-> 0, text |-> <<>>]
<1>1. pairs \in Seq(GoodPairs) /\ \A n : ValuesOf(pairs, n) = GetAll(m, n)
  BY MapPairs
<1>2. none.code = 0
  OBVIOUS
<1>3. CASE D = {}
  <2>1. Block(m) = <<>>
    BY <1>3, BlockIs
  <2> HIDE DEF none
  <2> DEFINE v == [status |-> none, headers |-> EmptyHeaders]
  <2>2. Headers(Block(m)) = Ok(v)
    BY <2>1 DEF Headers, none
  <2>3. v.status = none /\ v.headers = EmptyHeaders
    OBVIOUS
  <2> HIDE DEF v
  <2>4. Accepts(Headers(Block(m))) /\ Headers(Block(m)).val = v
    BY <2>2, Outcomes
  <2>5. Len(pairs) = 0
    <3>1. \A n : GetAll(m, n) = <<>>
      BY <1>3 DEF GetAll, Has
    <3>2. <<>> \in Seq(GoodPairs) /\ Len(<<>>) = 0
      BY EmptySeq
    <3>3. \A n : ValuesOf(<<>>, n) = <<>>
      BY <3>2, ValuesOfIs, PickEmpty
    <3>4. SameValues(pairs, <<>>)
      BY <1>1, <3>1, <3>3 DEF SameValues
    <3> HIDE DEF pairs
    <3>5. Len(pairs) = Len(<<>>)
      BY <1>1, <3>2, <3>4, SameLength
    <3> QED
      BY <3>2, <3>5
  <2>6. HasHeaders(EmptyHeaders, m)
    <3>1. EmptyHeaders.len = 0
      BY DEF EmptyHeaders
    <3>2. \A n : GetAll(m, n) = <<>>
      BY <1>3 DEF GetAll, Has
    <3> QED
      BY <2>5, <3>1, <3>2, EmptyMap DEF HasHeaders
  <2> QED
    BY <1>2, <2>3, <2>4, <2>6
<1>4. CASE D # {}
  <2> DEFINE text == BlockText(head, LineTexts(pairs))
             c == CollectHeaders[pairs]
             v == [status |-> none, headers |-> c]
  <2>1. Block(m) # <<>> /\ Block(m) = text
    BY <1>4, BlockIs
  <2>2. head \in Whole /\ DecodeHead(head) = Ok(none)
    BY BareHead
  <2>3. IsMap(c) /\ c.len = Len(pairs) /\ \A n : GetAll(c, n) = ValuesOf(pairs, n)
    <3> HIDE DEF pairs
    <3> QED
      BY <1>1, Collected
  <2>4. v.status = none /\ v.headers = c
    OBVIOUS
  <2> HIDE DEF head, none, c
  <2>5. Accepts(DecodeHead(head)) /\ DecodeHead(head).val = none
    BY <2>2, Outcomes
  <2>6. DecodeHeaderBlock(text) = Ok(v)
    <3>1. DecodeHeaderBlock(text) = IF ~Accepts(DecodeHead(head)) THEN DecodeHead(head)
                                ELSE Ok([status |-> DecodeHead(head).val, headers |-> CollectHeaders[pairs]])
      <4> HIDE DEF pairs
      <4> QED
        BY <1>1, <2>2, BlockRead
    <3> QED
      BY <2>5, <3>1 DEF c
  <2> HIDE DEF text, v
  <2>7. Headers(Block(m)) = Ok(v)
    BY <2>1, <2>6 DEF Headers
  <2>8. Accepts(Headers(Block(m))) /\ Headers(Block(m)).val = v
    BY <2>7, Outcomes
  <2>9. HasHeaders(c, m)
    BY <1>1, <2>3 DEF HasHeaders
  <2> QED
    BY <1>2, <2>4, <2>8, <2>9 DEF none
<1> QED
  BY <1>3, <1>4

Arrived(r, subject, reply, m, payload) ==
    IF Bytes(Block(m)) + Bytes(payload) > MaxMsgLen THEN r.err = "InvalidPayloadLength"
    ELSE /\ Accepts(r)
         /\ r.val.subject = subject /\ r.val.reply = reply /\ r.val.payload = payload
         /\ r.val.status.code = 0 /\ r.val.rest = <<Crlf>>
         /\ HasHeaders(r.val.headers, m)

\* A relayed publication is read as it was published.
LEMMA PublicationArrives ==
    ASSUME NEW subject, IsWord(subject), NEW reply, IsOptional(reply), NEW m, IsMap(m),
           NEW payload \in Strings, Bytes(Block(m)) + Bytes(payload) <= MaxInt
    PROVE  Arrived(DecodeFrame(ServerFrame(subject, reply, Block(m), payload)), subject, reply, m, payload)
<1> DEFINE block == Block(m)
           r == DecodeFrame(ServerFrame(subject, reply, block, payload))
           h == Headers(block)
           msg == Message(subject, reply, h.val, payload)
           long == Bytes(block) + Bytes(payload) > MaxMsgLen
<1>1. block \in Strings
  BY BlockIs
<1>2. Accepts(h) /\ h.val.status.code = 0 /\ HasHeaders(h.val.headers, m)
  BY HeadersArrive
<1>3. r = IF long THEN Err("InvalidPayloadLength") ELSE IF ~Accepts(h) THEN h ELSE Ok(msg)
  <2> HIDE DEF block
  <2> QED
    BY <1>1, FrameRead DEF block
<1>4. /\ msg.subject = subject /\ msg.reply = reply /\ msg.payload = payload /\ msg.rest = <<Crlf>>
      /\ msg.status = h.val.status /\ msg.headers = h.val.headers
  BY DEF Message
<1> HIDE DEF r, h, msg
<1>5. CASE long
  BY <1>3, <1>5 DEF Arrived, Err, r
<1>6. CASE ~long
  <2>1. r = Ok(msg)
    BY <1>2, <1>3, <1>6
  <2>2. Accepts(r) /\ r.val = msg
    BY <2>1, Outcomes
  <2> QED
    BY <1>2, <1>4, <1>6, <2>2 DEF Arrived, r
<1> QED
  BY <1>5, <1>6

StatusArrived(r, line) ==
    /\ IsStatusLine(line) =>
         /\ Accepts(r)
         /\ Decimal[r.val.status.code] = SubSeq(line, 2, 4)
         /\ r.val.status.text = Trim(SubSeq(line, 6, Len(line)))
    /\ Accepts(r) /\ ~IsStatusLine(line) => Len(line) < 4 /\ r.val.status.code = 0

\* An answer of the server is read as it was sent.
LEMMA StatusArrives ==
    ASSUME NEW subject, IsWord(subject), NEW line \in StatusLines
    PROVE  StatusArrived(DecodeFrame(ServerFrame(subject, <<>>, StatusBlock(line), <<>>)), line)
<1> DEFINE block == StatusBlock(line)
           head == <<"NATS/1.0">> \o line
           none == <<>>
           r == DecodeFrame(ServerFrame(subject, none, block, none))
           h == Headers(block)
           d == DecodeHead(head)
           msg == Message(subject, none, h.val, none)
<1>1. /\ line \in Strings /\ Count(line, Crlf) = 0 /\ Bytes(block) <= MaxMsgLen
      /\ MaxInt \in Nat /\ MaxMsgLen \in 0..MaxInt
  BY WireAssumption
<1>2. Lacks(line, {Crlf})
  <2> DEFINE at == {i \in DOMAIN line : line[i] = Crlf}
  <2>1. DOMAIN line = 1..Len(line) /\ Len(line) \in Nat
    BY <1>1, LenProperties DEF Strings
  <2>2. IsFiniteSet(at)
    <3>1. IsFiniteSet(1..Len(line))
      BY <2>1, FS_Interval
    <3> QED
      BY <2>1, <3>1, FS_Subset
  <2>3. Cardinality(at) = 0
    BY <1>1 DEF Count
  <2>4. at = {}
    <3> HIDE DEF at
    <3> QED
      BY <2>2, <2>3, FS_EmptySet
  <2> QED
    BY <2>1, <2>4 DEF Lacks
<1>3. head \in Whole /\ block = BlockText(head, LineTexts(<<>>)) /\ <<>> \in Seq(GoodPairs)
  BY <1>1, <1>2, StatusBlockIs
<1>4. /\ IsStatusLine(line) =>
           /\ Accepts(d)
           /\ Decimal[d.val.code] = SubSeq(line, 2, 4)
           /\ d.val.text = Trim(SubSeq(line, 6, Len(line)))
      /\ Accepts(d) /\ ~IsStatusLine(line) => Len(line) < 4 /\ d.val.code = 0
  BY <1>1, HeadRead
<1> HIDE DEF block, head
<1>5. /\ block \in Strings /\ block # <<>>
      /\ DecodeHeaderBlock(block) = IF ~Accepts(d) THEN d
                                ELSE Ok([status |-> d.val, headers |-> CollectHeaders[<<>>]])
  <2> DEFINE p == <<>>
  <2>1. p \in Seq(GoodPairs) /\ block = BlockText(head, LineTexts(p)) /\ head \in Whole
    BY <1>3
  <2> HIDE DEF p
  <2>2. /\ block \in Strings /\ block # <<>>
        /\ DecodeHeaderBlock(block) = IF ~Accepts(d) THEN d
                                  ELSE Ok([status |-> d.val, headers |-> CollectHeaders[p]])
    BY <2>1, BlockRead
  <2> QED
    BY <2>2 DEF p
<1>6. none \in Strings /\ Bytes(none) = 0 /\ IsOptional(none)
  BY BytesEmpty DEF IsOptional
<1>7. Bytes(block) + Bytes(none) <= MaxMsgLen /\ Bytes(block) + Bytes(none) <= MaxInt
      /\ ~(Bytes(block) + Bytes(none) > MaxMsgLen)
  <2>1. Bytes(block) \in Nat
    BY <1>5, BytesType
  <2> QED
    BY <1>1, <1>6, <2>1
<1>8. h = DecodeHeaderBlock(block)
  BY <1>5 DEF Headers
<1> HIDE DEF none
<1>9. r = IF ~Accepts(h) THEN h ELSE Ok(msg)
  <2>1. r = IF Bytes(block) + Bytes(none) > MaxMsgLen THEN Err("InvalidPayloadLength")
            ELSE IF ~Accepts(h) THEN h ELSE Ok(msg)
    BY <1>5, <1>6, <1>7, FrameRead
  <2> QED
    BY <1>7, <2>1
<1>10. msg.status = h.val.status
  BY DEF Message
<1> DEFINE v == [status |-> d.val, headers |-> CollectHeaders[<<>>]]
<1>11. v.status = d.val
  OBVIOUS
<1>12. h = IF ~Accepts(d) THEN d ELSE Ok(v)
  BY <1>5, <1>8
<1> HIDE DEF r, h, d, msg, v
<1>13. Accepts(r) <=> Accepts(d)
  BY <1>9, <1>12, Outcomes
<1>14. Accepts(d) => r.val.status = d.val
  <2> SUFFICES ASSUME Accepts(d) PROVE r.val.status = d.val
    OBVIOUS
  <2>1. h = Ok(v)
    BY <1>12
  <2>2. Accepts(h) /\ h.val = v
    BY <2>1, Outcomes
  <2>3. r = Ok(msg)
    BY <1>9, <2>2
  <2>4. r.val = msg
    BY <2>3, Outcomes
  <2> QED
    BY <1>10, <1>11, <2>2, <2>4
<1>15. StatusArrived(r, line)
  <2>1. ASSUME IsStatusLine(line)
        PROVE  Accepts(r) /\ Decimal[r.val.status.code] = SubSeq(line, 2, 4)
               /\ r.val.status.text = Trim(SubSeq(line, 6, Len(line)))
    BY <1>4, <1>13, <1>14, <2>1
  <2>2. ASSUME Accepts(r), ~IsStatusLine(line) PROVE Len(line) < 4 /\ r.val.status.code = 0
    BY <1>4, <1>13, <1>14, <2>2
  <2> QED
    BY <2>1, <2>2 DEF StatusArrived
<1> QED
  BY <1>15 DEF r, none, block

(***************************************************************************)
(* The inductive invariant                                                 *)
(***************************************************************************)
IsSubject(s) == s \in Strings /\ Accepts(NewSubject(s))

\* The map holds what was meant, and counts it.
Holds(m, pairs) ==
    /\ IsMap(m) /\ pairs \in Seq(GoodPairs)
    /\ m.len = Len(pairs) /\ \A n : GetAll(m, n) = ValuesOf(pairs, n)

IsPublish(o, m) ==
    /\ o.kind = "Publish"
    /\ IsSubject(o.subject) /\ (o.reply = <<>> \/ IsSubject(o.reply))
    /\ o.headers = m /\ o.payload \in Strings
    /\ Bytes(Block(m)) + Bytes(o.payload) <= MaxInt

IsSubscribe(o) ==
    /\ DOMAIN o = {"kind", "subject", "group", "id"} /\ o.kind = "Subscribe"
    /\ IsSubject(o.subject)
    /\ o.group = <<>> \/ (o.group \in Strings /\ Accepts(NewQueueGroup(o.group)))
    /\ o.id \in 0..MaxInt

IsUnsubscribe(o) ==
    /\ DOMAIN o = {"kind", "id", "max"} /\ o.kind = "Unsubscribe"
    /\ o.id \in 0..MaxInt /\ o.max \in 0..MaxInt

IsStatus(o) == o.kind = "Status" /\ o.line \in StatusLines

IsRefused(o) ==
    /\ o.kind = "Refused"
    /\ \/ o.subject \in Strings /\ ~Accepts(NewSubject(o.subject))
       \/ o.group \in Strings /\ o.group # <<>> /\ ~Accepts(NewQueueGroup(o.group))

PublicationFrame(o) == ServerFrame(o.subject, o.reply, Block(o.headers), o.payload)
StatusFrame(subject, o) == ServerFrame(subject, <<>>, StatusBlock(o.line), <<>>)

\* A message of the server, as it is on the wire.
Framed(w, o, m) ==
    \/ IsPublish(o, m) /\ w = PublicationFrame(o)
    \/ IsStatus(o) /\ \E subject : IsWord(subject) /\ w = StatusFrame(subject, o)

SameArgs(r, o) == r.kind = o.kind /\ r.rest = <<>> /\ \A f \in DOMAIN o : r[f] = o[f]

Relayed(r, o) ==
    r = [kind |-> "Publish", subject |-> o.subject, reply |-> o.reply, block |-> Block(o.headers),
         payload |-> o.payload, rest |-> <<Crlf>>]

AtStage(st, o, m, w, r) ==
    \/ st = "building" /\ o = Nothing
    \/ st = "written" /\ (IsPublish(o, m) \/ IsSubscribe(o) \/ IsUnsubscribe(o)) /\ w = Encode(o)
    \/ st = "refused" /\ IsRefused(o)
    \/ st = "understood" /\ (IsSubscribe(o) \/ IsUnsubscribe(o)) /\ SameArgs(r, o)
    \/ st = "relaying" /\ IsPublish(o, m) /\ Relayed(r, o)
    \/ st = "delivered" /\ Framed(w, o, m)
    \/ st = "read" /\ \E f : Framed(f, o, m) /\ r = DecodeFrame(f)

WireInv == Holds(map, meant) /\ AtStage(stage, op, map, wire, read)

(***************************************************************************)
(* The edits                                                               *)
(***************************************************************************)
\* The empty map holds what nobody asked for.
LEMMA HoldsEmpty == Holds(EmptyHeaders, <<>>)
<1>1. <<>> \in Seq(GoodPairs) /\ Len(<<>>) = 0
  BY EmptySeq
<1>2. \A n : ValuesOf(<<>>, n) = <<>>
  BY <1>1, ValuesOfIs, PickEmpty
<1>3. EmptyHeaders.len = 0
  BY DEF EmptyHeaders
<1> QED
  BY <1>1, <1>2, <1>3, EmptyMap DEF Holds

\* insert keeps the map what was meant.
LEMMA HoldsInsert ==
    ASSUME NEW m, NEW pairs, Holds(m, pairs), NEW name \in GoodNames, NEW value \in GoodValues
    PROVE  Holds(InsertHeader(m, name, value), Append(Others(pairs, name), <<name, value>>))
<1> DEFINE r == InsertHeader(m, name, value)
           o == Others(pairs, name)
           p == <<name, value>>
           q == Append(o, p)
<1>1. /\ IsMap(m) /\ pairs \in Seq(GoodPairs) /\ m.len = Len(pairs)
      /\ \A n : GetAll(m, n) = ValuesOf(pairs, n)
  BY DEF Holds
<1>2. /\ IsMap(r) /\ r.len = m.len - Len(GetAll(m, name)) + 1
      /\ \A n : GetAll(r, n) = IF Fold(n) = Fold(name) THEN <<value>> ELSE GetAll(m, n)
  BY <1>1, InsertIs
<1>3. p \in GoodPairs /\ p[1] = name /\ p[2] = value
  BY GoodPairsAre
<1>4. o \in Seq(GoodPairs)
  BY <1>1, OthersIs
<1>5. Len(pairs) = Len(ValuesOf(pairs, name)) + Len(o)
  BY <1>1, OthersLen
<1>6. Len(ValuesOf(pairs, name)) \in Nat /\ Len(o) \in Nat
  BY <1>1, <1>4, ValuesOfIs, LenProperties
<1>7. \A n : ValuesOf(o, n) = IF Fold(n) = Fold(name) THEN <<>> ELSE ValuesOf(pairs, n)
  BY <1>1, OthersValues
<1> HIDE DEF r, o, p
<1>8. q \in Seq(GoodPairs) /\ Len(q) = Len(o) + 1
      /\ \A n : ValuesOf(q, n) = IF Fold(p[1]) = Fold(n) THEN Append(ValuesOf(o, n), p[2]) ELSE ValuesOf(o, n)
  BY <1>3, <1>4, PairsAppend
<1> HIDE DEF q
<1>9. r.len = Len(q)
  <2> DEFINE a == Len(ValuesOf(pairs, name))
             b == Len(o)
  <2>1. r.len = m.len - Len(GetAll(m, name)) + 1 /\ Len(GetAll(m, name)) = a
    BY <1>1, <1>2
  <2>2. m.len = a + b /\ a \in Nat /\ b \in Nat
    BY <1>1, <1>5, <1>6
  <2>3. Len(q) = b + 1
    BY <1>8
  <2> HIDE DEF a, b
  <2> QED
    BY <2>1, <2>2, <2>3
<1>10. ASSUME NEW n PROVE GetAll(r, n) = ValuesOf(q, n)
  <2>1. Append(<<>>, value) = <<value>>
    OBVIOUS
  <2>2. GetAll(r, n) = IF Fold(n) = Fold(name) THEN <<value>> ELSE GetAll(m, n)
    BY <1>2
  <2>3. ValuesOf(q, n) = IF Fold(p[1]) = Fold(n) THEN Append(ValuesOf(o, n), p[2]) ELSE ValuesOf(o, n)
    BY <1>8
  <2>4. ValuesOf(o, n) = IF Fold(n) = Fold(name) THEN <<>> ELSE ValuesOf(pairs, n)
    BY <1>7
  <2>5. GetAll(m, n) = ValuesOf(pairs, n)
    BY <1>1
  <2> QED
    BY <1>3, <2>1, <2>2, <2>3, <2>4, <2>5
<1>11. Holds(r, q)
  BY <1>2, <1>8, <1>9, <1>10 DEF Holds
<1> QED
  BY <1>11 DEF r, q, o, p

\* So does append.
LEMMA HoldsAppend ==
    ASSUME NEW m, NEW pairs, Holds(m, pairs), NEW name \in GoodNames, NEW value \in GoodValues
    PROVE  Holds(AppendHeader(m, name, value), Append(pairs, <<name, value>>))
<1> DEFINE r == AppendHeader(m, name, value)
           p == <<name, value>>
           q == Append(pairs, p)
<1>1. /\ IsMap(m) /\ pairs \in Seq(GoodPairs) /\ m.len = Len(pairs)
      /\ \A n : GetAll(m, n) = ValuesOf(pairs, n)
  BY DEF Holds
<1>2. /\ IsMap(r) /\ r.len = m.len + 1
      /\ \A n : GetAll(r, n) = IF Fold(n) = Fold(name) THEN Append(GetAll(m, n), value) ELSE GetAll(m, n)
  BY <1>1, AppendIs
<1>3. p \in GoodPairs /\ p[1] = name /\ p[2] = value
  BY GoodPairsAre
<1> HIDE DEF r, p
<1>4. q \in Seq(GoodPairs) /\ Len(q) = Len(pairs) + 1
      /\ \A n : ValuesOf(q, n) =
           IF Fold(p[1]) = Fold(n) THEN Append(ValuesOf(pairs, n), p[2]) ELSE ValuesOf(pairs, n)
  BY <1>1, <1>3, PairsAppend
<1> HIDE DEF q
<1>5. ASSUME NEW n PROVE GetAll(r, n) = ValuesOf(q, n)
  <2>1. GetAll(r, n) = IF Fold(n) = Fold(name) THEN Append(GetAll(m, n), value) ELSE GetAll(m, n)
    BY <1>2
  <2>2. ValuesOf(q, n) =
          IF Fold(p[1]) = Fold(n) THEN Append(ValuesOf(pairs, n), p[2]) ELSE ValuesOf(pairs, n)
    BY <1>4
  <2>3. GetAll(m, n) = ValuesOf(pairs, n)
    BY <1>1
  <2> QED
    BY <1>3, <2>1, <2>2, <2>3
<1>6. r.len = Len(q)
  BY <1>1, <1>2, <1>4
<1>7. Holds(r, q)
  BY <1>2, <1>4, <1>5, <1>6 DEF Holds
<1> QED
  BY <1>7 DEF r, q, p

\* And so does remove.
LEMMA HoldsRemove ==
    ASSUME NEW m, NEW pairs, Holds(m, pairs), NEW name
    PROVE  Holds(RemoveHeader(m, name), Others(pairs, name))
<1> DEFINE r == RemoveHeader(m, name)
           o == Others(pairs, name)
<1>1. /\ IsMap(m) /\ pairs \in Seq(GoodPairs) /\ m.len = Len(pairs)
      /\ \A n : GetAll(m, n) = ValuesOf(pairs, n)
  BY DEF Holds
<1>2. /\ IsMap(r) /\ r.len = m.len - Len(GetAll(m, name))
      /\ \A n : GetAll(r, n) = IF Fold(n) = Fold(name) THEN <<>> ELSE GetAll(m, n)
  BY <1>1, RemoveIs
<1>3. o \in Seq(GoodPairs)
  BY <1>1, OthersIs
<1>4. Len(pairs) = Len(ValuesOf(pairs, name)) + Len(o)
  BY <1>1, OthersLen
<1>5. Len(ValuesOf(pairs, name)) \in Nat /\ Len(o) \in Nat
  BY <1>1, <1>3, ValuesOfIs, LenProperties
<1>6. \A n : ValuesOf(o, n) = IF Fold(n) = Fold(name) THEN <<>> ELSE ValuesOf(pairs, n)
  BY <1>1, OthersValues
<1> HIDE DEF r, o
<1>7. r.len = Len(o)
  <2> DEFINE a == Len(ValuesOf(pairs, name))
             b == Len(o)
  <2>1. r.len = m.len - Len(GetAll(m, name)) /\ Len(GetAll(m, name)) = a
    BY <1>1, <1>2
  <2>2. m.len = a + b /\ a \in Nat /\ b \in Nat
    BY <1>1, <1>4, <1>5
  <2> HIDE DEF a, b
  <2>3. r.len = b
    BY <2>1, <2>2
  <2> QED
    BY <2>3 DEF b
<1>8. \A n : GetAll(r, n) = ValuesOf(o, n)
  BY <1>1, <1>2, <1>6
<1>9. Holds(r, o)
  BY <1>2, <1>3, <1>7, <1>8 DEF Holds
<1> QED
  BY <1>9 DEF r, o

\* A publication's subject and reply are words.
LEMMA PublishWords ==
    ASSUME NEW o, NEW m, IsPublish(o, m)
    PROVE  IsWord(o.subject) /\ IsOptional(o.reply)
<1>1. IsWord(o.subject)
  BY SubjectWord DEF IsPublish, IsSubject
<1>2. o.reply = <<>> \/ IsWord(o.reply)
  BY SubjectWord DEF IsPublish, IsSubject
<1> QED
  BY <1>1, <1>2 DEF IsOptional

\* What the server reads of a publication.
LEMMA ServerReadsPublish ==
    ASSUME NEW o, NEW m, IsMap(m), IsPublish(o, m)
    PROVE  Relayed(ServerReads(Encode(o)), o)
<1> DEFINE block == Block(o.headers)
<1>1. IsWord(o.subject) /\ IsOptional(o.reply)
  BY PublishWords
<1>2. o.kind = "Publish" /\ o.payload \in Strings /\ Bytes(block) + Bytes(o.payload) <= MaxInt
      /\ o.headers = m
  BY DEF IsPublish
<1>3. block \in Strings
  BY <1>2, BlockIs
<1>4. Encode(o) = EncodePublish(o)
  BY <1>2 DEF Encode
<1>5. ServerReads(EncodePublish(o)) =
         [kind |-> "Publish", subject |-> o.subject, reply |-> o.reply, block |-> block,
          payload |-> o.payload, rest |-> <<Crlf>>]
  <2> HIDE DEF block
  <2>1. block = Block(o.headers)
    BY DEF block
  <2> QED
    BY <1>1, <1>2, <1>3, <2>1, ReadsPublish
<1> QED
  BY <1>4, <1>5 DEF Relayed

\* Of a subscription.
LEMMA ServerReadsSubscribe ==
    ASSUME NEW o, IsSubscribe(o)
    PROVE  SameArgs(ServerReads(Encode(o)), o)
<1>1. IsWord(o.subject)
  BY SubjectWord DEF IsSubscribe, IsSubject
<1>2. IsOptional(o.group)
  BY SubjectWord DEF IsSubscribe, IsOptional
<1>3. o.kind = "Subscribe" /\ o.id \in 0..MaxInt /\ DOMAIN o = {"kind", "subject", "group", "id"}
  BY DEF IsSubscribe
<1>4. Encode(o) = EncodeSubscribe(o)
  BY <1>3 DEF Encode
<1> DEFINE r == ServerReads(EncodeSubscribe(o))
<1>5. r.kind = "Subscribe" /\ r.rest = <<>> /\ r.subject = o.subject /\ r.group = o.group /\ r.id = o.id
  BY <1>1, <1>2, <1>3, ReadsSubscribe
<1> HIDE DEF r
<1>6. SameArgs(r, o)
  BY <1>3, <1>5 DEF SameArgs
<1> QED
  BY <1>4, <1>6 DEF r

\* Of an unsubscription.
LEMMA ServerReadsUnsubscribe ==
    ASSUME NEW o, IsUnsubscribe(o)
    PROVE  SameArgs(ServerReads(Encode(o)), o)
<1>1. o.kind = "Unsubscribe" /\ o.id \in 0..MaxInt /\ o.max \in 0..MaxInt /\ DOMAIN o = {"kind", "id", "max"}
  BY DEF IsUnsubscribe
<1>2. Encode(o) = EncodeUnsubscribe(o)
  BY <1>1 DEF Encode
<1> DEFINE r == ServerReads(EncodeUnsubscribe(o))
<1>3. r.kind = "Unsubscribe" /\ r.rest = <<>> /\ r.id = o.id /\ r.max = o.max
  BY <1>1, ReadsUnsubscribe
<1> HIDE DEF r
<1>4. SameArgs(r, o)
  BY <1>1, <1>3 DEF SameArgs
<1> QED
  BY <1>2, <1>4 DEF r

\* At a stage, there is one thing that can be so.
LEMMA Stages ==
    ASSUME NEW st, NEW o, NEW m, NEW w, NEW r, AtStage(st, o, m, w, r)
    PROVE  /\ st \in {"building", "written", "refused", "understood", "relaying", "delivered", "read"}
           /\ st = "building" => o = Nothing
           /\ st = "written" => (IsPublish(o, m) \/ IsSubscribe(o) \/ IsUnsubscribe(o)) /\ w = Encode(o)
           /\ st = "refused" => IsRefused(o)
           /\ st = "understood" => (IsSubscribe(o) \/ IsUnsubscribe(o)) /\ SameArgs(r, o)
           /\ st = "relaying" => IsPublish(o, m) /\ Relayed(r, o)
           /\ st = "delivered" => Framed(w, o, m)
           /\ st = "read" => \E f : Framed(f, o, m) /\ r = DecodeFrame(f)
BY DEF AtStage

\* An op is enqueued, and what is written is its encoding.
LEMMA Enqueued ==
    ASSUME NEW o, NEW m, NEW w, NEW r, w = Encode(o),
           IsPublish(o, m) \/ IsSubscribe(o) \/ IsUnsubscribe(o)
    PROVE  AtStage("written", o, m, w, r)
BY DEF AtStage

\* The invariant at the start.
LEMMA InitHolds == WireInit => WireInv
<1> SUFFICES ASSUME WireInit PROVE WireInv
  OBVIOUS
<1>1. Holds(map, meant)
  BY HoldsEmpty DEF WireInit
<1>2. AtStage(stage, op, map, wire, read)
  BY DEF WireInit, AtStage
<1> QED
  BY <1>1, <1>2 DEF WireInv

\* An edit keeps it, when the new map holds what is meant now.
LEMMA EditHolds ==
    ASSUME NEW m, NEW pairs, WireInv, stage = "building", Edit(m, pairs), Holds(m, pairs)
    PROVE  WireInv'
<1>1. map' = m /\ meant' = pairs /\ UNCHANGED <<op, wire, stage, read>>
  BY DEF Edit
<1>2. op = Nothing
  BY Stages DEF WireInv
<1>3. AtStage(stage', op', map', wire', read')
  BY <1>1, <1>2 DEF AtStage
<1>4. Holds(map', meant')
  BY <1>1
<1> QED
  BY <1>3, <1>4 DEF WireInv

\* Enqueueing a proper op keeps it.
LEMMA EnqueueHolds ==
    ASSUME NEW o, WireInv, Enqueue(o), IsPublish(o, map) \/ IsSubscribe(o) \/ IsUnsubscribe(o)
    PROVE  WireInv'
<1>1. op' = o /\ wire' = Encode(o) /\ stage' = "written" /\ UNCHANGED <<map, meant, edits, read>>
  BY DEF Enqueue
<1>2. AtStage(stage', op', map', wire', read')
  BY <1>1, Enqueued
<1>3. Holds(map', meant')
  BY <1>1 DEF WireInv
<1> QED
  BY <1>2, <1>3 DEF WireInv

\* HeaderMap::insert. From here on, one lemma per action.
LEMMA InsertHolds ==
    ASSUME WireInv, NEW name \in RawNames, NEW value \in RawValues, Insert(name, value)
    PROVE  WireInv'
<1>1. name \in GoodNames /\ value \in GoodValues
  BY WireAssumption DEF Insert, GoodNames, GoodValues
<1>2. Holds(InsertHeader(map, name, value), Append(Others(meant, name), <<name, value>>))
  BY <1>1, HoldsInsert DEF WireInv
<1> QED
  BY <1>2, EditHolds DEF Insert, CanEdit

\* HeaderMap::append.
LEMMA AppendHolds ==
    ASSUME WireInv, NEW name \in RawNames, NEW value \in RawValues, AppendOne(name, value)
    PROVE  WireInv'
<1>1. name \in GoodNames /\ value \in GoodValues
  BY WireAssumption DEF AppendOne, GoodNames, GoodValues
<1>2. Holds(AppendHeader(map, name, value), Append(meant, <<name, value>>))
  BY <1>1, HoldsAppend DEF WireInv
<1> QED
  BY <1>2, EditHolds DEF AppendOne, CanEdit

\* HeaderMap::remove.
LEMMA RemoveHolds ==
    ASSUME WireInv, NEW name, RemoveName(name)
    PROVE  WireInv'
<1>1. Holds(RemoveHeader(map, name), Others(meant, name))
  BY HoldsRemove DEF WireInv
<1> QED
  BY <1>1, EditHolds DEF RemoveName, CanEdit

\* HeaderMap::clear.
LEMMA ClearHolds ==
    ASSUME WireInv, Clear
    PROVE  WireInv'
BY HoldsEmpty, EditHolds DEF Clear, CanEdit

\* A publication is enqueued and encoded.
LEMMA PublishHolds ==
    ASSUME WireInv, NEW s \in Destinations, NEW reply, reply = <<>> \/ reply = s, NEW p \in Payloads,
           Publish(s, reply, p)
    PROVE  WireInv'
<1> DEFINE o == [kind |-> "Publish", subject |-> s, reply |-> reply, headers |-> map, payload |-> p]
<1>1. s \in Strings /\ p \in Strings
  BY WireAssumption
<1>2. IsSubject(s) /\ (reply = <<>> \/ IsSubject(reply))
  BY <1>1 DEF Publish, IsSubject
<1>3. o.kind = "Publish" /\ o.subject = s /\ o.reply = reply /\ o.headers = map /\ o.payload = p
  OBVIOUS
<1>4. Enqueue(o) /\ Bytes(Block(map)) + Bytes(p) <= MaxInt
  BY DEF Publish
<1> HIDE DEF o
<1>5. IsPublish(o, map)
  BY <1>1, <1>2, <1>3, <1>4 DEF IsPublish
<1> QED
  BY <1>4, <1>5, EnqueueHolds

\* A subscription.
LEMMA SubscribeHolds ==
    ASSUME WireInv, NEW s \in RawSubjects, NEW g \in RawGroups \cup {<<>>}, Subscribe(s, g)
    PROVE  WireInv'
<1> DEFINE o == [kind |-> "Subscribe", subject |-> s, group |-> g, id |-> Sid]
<1>1. s \in Strings /\ Sid \in 0..MaxInt
  BY WireAssumption
<1>2. g = <<>> \/ g \in Strings
  BY WireAssumption
<1>3. IsSubject(s) /\ (g = <<>> \/ (g \in Strings /\ Accepts(NewQueueGroup(g))))
  BY <1>1, <1>2 DEF Subscribe, IsSubject
<1>4. /\ o.kind = "Subscribe" /\ o.subject = s /\ o.group = g /\ o.id = Sid
      /\ DOMAIN o = {"kind", "subject", "group", "id"}
  OBVIOUS
<1>5. Enqueue(o)
  BY DEF Subscribe
<1> HIDE DEF o
<1>6. IsSubscribe(o)
  BY <1>1, <1>3, <1>4 DEF IsSubscribe
<1> QED
  BY <1>5, <1>6, EnqueueHolds

\* An unsubscription.
LEMMA UnsubscribeHolds ==
    ASSUME WireInv, NEW limit \in Limits, Unsubscribe(limit)
    PROVE  WireInv'
<1> DEFINE o == [kind |-> "Unsubscribe", id |-> Sid, max |-> limit]
<1>1. limit \in 0..MaxInt /\ Sid \in 0..MaxInt
  BY WireAssumption
<1>2. o.kind = "Unsubscribe" /\ o.id = Sid /\ o.max = limit /\ DOMAIN o = {"kind", "id", "max"}
  OBVIOUS
<1>3. Enqueue(o)
  BY DEF Unsubscribe
<1> HIDE DEF o
<1>4. IsUnsubscribe(o)
  BY <1>1, <1>2 DEF IsUnsubscribe
<1> QED
  BY <1>3, <1>4, EnqueueHolds

\* A subject or a group is refused.
LEMMA RefuseHolds ==
    ASSUME WireInv, NEW s \in RawSubjects, NEW g \in RawGroups \cup {<<>>}, Refuse(s, g)
    PROVE  WireInv'
<1> DEFINE o == [kind |-> "Refused", subject |-> s, group |-> g]
<1>1. s \in Strings /\ (g = <<>> \/ g \in Strings)
  BY WireAssumption
<1>2. o.kind = "Refused" /\ o.subject = s /\ o.group = g
  OBVIOUS
<1>3. op' = o /\ stage' = "refused" /\ UNCHANGED <<map, meant>>
  BY DEF Refuse
<1>4. ~Accepts(NewSubject(s)) \/ (g # <<>> /\ ~Accepts(NewQueueGroup(g)))
  BY DEF Refuse
<1> HIDE DEF o
<1>5. IsRefused(o)
  BY <1>1, <1>2, <1>4 DEF IsRefused
<1>6. AtStage(stage', op', map', wire', read')
  BY <1>3, <1>5 DEF AtStage
<1>7. Holds(map', meant')
  BY <1>3 DEF WireInv
<1> QED
  BY <1>6, <1>7 DEF WireInv

\* The server reads the op.
LEMMA ServerReceivesHolds ==
    ASSUME WireInv, ServerReceives
    PROVE  WireInv'
<1>1. read' = ServerReads(wire) /\ UNCHANGED <<map, meant, edits, op, wire>>
      /\ stage' = IF read'.kind = "Publish" THEN "relaying" ELSE "understood"
  BY DEF ServerReceives
<1>2. stage = "written"
  BY DEF ServerReceives
<1>3. (IsPublish(op, map) \/ IsSubscribe(op) \/ IsUnsubscribe(op)) /\ wire = Encode(op)
  BY <1>2, Stages DEF WireInv
<1>4. Holds(map', meant') /\ IsMap(map)
  BY <1>1 DEF WireInv, Holds
<1>5. CASE IsPublish(op, map)
  <2>1. Relayed(read', op)
    BY <1>1, <1>3, <1>4, <1>5, ServerReadsPublish
  <2>2. read'.kind = "Publish"
    BY <2>1 DEF Relayed
  <2>3. AtStage(stage', op', map', wire', read')
    BY <1>1, <1>5, <2>1, <2>2 DEF AtStage
  <2> QED
    BY <1>4, <2>3 DEF WireInv
<1>6. CASE IsSubscribe(op) \/ IsUnsubscribe(op)
  <2>1. SameArgs(read', op)
    BY <1>1, <1>3, <1>6, ServerReadsSubscribe, ServerReadsUnsubscribe
  <2>2. read'.kind # "Publish"
    BY <1>6, <2>1 DEF SameArgs, IsSubscribe, IsUnsubscribe
  <2>3. AtStage(stage', op', map', wire', read')
    BY <1>1, <1>6, <2>1, <2>2 DEF AtStage
  <2> QED
    BY <1>4, <2>3 DEF WireInv
<1> QED
  BY <1>3, <1>5, <1>6

\* The server relays a publication.
LEMMA RelayHolds ==
    ASSUME WireInv, Relay
    PROVE  WireInv'
<1>1. /\ wire' = ServerFrame(read.subject, read.reply, read.block, read.payload)
      /\ stage' = "delivered" /\ UNCHANGED <<map, meant, edits, op, read>>
  BY DEF Relay
<1>2. IsPublish(op, map) /\ Relayed(read, op)
  BY Stages DEF WireInv, Relay
<1>3. /\ read.subject = op.subject /\ read.reply = op.reply /\ read.block = Block(op.headers)
      /\ read.payload = op.payload
  BY <1>2 DEF Relayed
<1>4. wire' = PublicationFrame(op)
  BY <1>1, <1>3 DEF PublicationFrame
<1>5. Framed(wire', op', map')
  BY <1>1, <1>2, <1>4 DEF Framed
<1>6. AtStage(stage', op', map', wire', read')
  BY <1>1, <1>5 DEF AtStage
<1>7. Holds(map', meant')
  BY <1>1 DEF WireInv
<1> QED
  BY <1>6, <1>7 DEF WireInv

\* The server answers with a status.
LEMMA AnswerHolds ==
    ASSUME WireInv, NEW s \in Destinations, NEW l \in StatusLines, Answer(s, l)
    PROVE  WireInv'
<1> DEFINE o == [kind |-> "Status", line |-> l]
<1>1. o.kind = "Status" /\ o.line = l
  OBVIOUS
<1>2. /\ op' = o /\ wire' = ServerFrame(s, <<>>, StatusBlock(l), <<>>) /\ stage' = "delivered"
      /\ UNCHANGED <<map, meant, edits, read>> /\ Accepts(NewSubject(s))
  BY DEF Answer
<1> HIDE DEF o
<1>3. IsWord(s)
  BY <1>2, WireAssumption, SubjectWord
<1>4. wire' = StatusFrame(s, o)
  BY <1>1, <1>2 DEF StatusFrame
<1>5. IsStatus(o)
  BY <1>1 DEF IsStatus
<1>6. Framed(wire', op', map')
  BY <1>2, <1>3, <1>4, <1>5 DEF Framed
<1>7. AtStage(stage', op', map', wire', read')
  BY <1>2, <1>6 DEF AtStage
<1>8. Holds(map', meant')
  BY <1>2 DEF WireInv
<1> QED
  BY <1>7, <1>8 DEF WireInv

\* decode reads the message.
LEMMA ClientReadsHolds ==
    ASSUME WireInv, ClientReads
    PROVE  WireInv'
<1>1. read' = DecodeFrame(wire) /\ stage' = "read" /\ UNCHANGED <<map, meant, edits, op, wire>>
  BY DEF ClientReads
<1>2. Framed(wire, op, map)
  BY Stages DEF WireInv, ClientReads
<1>3. AtStage(stage', op', map', wire', read')
  BY <1>1, <1>2 DEF AtStage
<1>4. Holds(map', meant')
  BY <1>1 DEF WireInv
<1> QED
  BY <1>3, <1>4 DEF WireInv

\* No step breaks the invariant.
LEMMA StepHolds == WireInv /\ [WireNext]_wireVars => WireInv'
<1> SUFFICES ASSUME WireInv, [WireNext]_wireVars PROVE WireInv'
  OBVIOUS
<1>1. CASE UNCHANGED wireVars
  BY <1>1 DEF wireVars, WireInv
<1>2. ASSUME NEW n \in RawNames, NEW v \in RawValues, Insert(n, v) \/ AppendOne(n, v) PROVE WireInv'
  BY <1>2, InsertHolds, AppendHolds
<1>3. ASSUME NEW n \in RawNames, RemoveName(n) PROVE WireInv'
  BY <1>3, RemoveHolds
<1>4. CASE Clear
  BY <1>4, ClearHolds
<1>5. ASSUME NEW s \in Destinations, NEW p \in Payloads, NEW r \in {<<>>, s}, Publish(s, r, p)
      PROVE  WireInv'
  BY <1>5, PublishHolds
<1>6. ASSUME NEW s \in RawSubjects, NEW g \in RawGroups \cup {<<>>}, Subscribe(s, g) \/ Refuse(s, g)
      PROVE  WireInv'
  BY <1>6, SubscribeHolds, RefuseHolds
<1>7. ASSUME NEW m \in Limits, Unsubscribe(m) PROVE WireInv'
  BY <1>7, UnsubscribeHolds
<1>8. CASE ServerReceives
  BY <1>8, ServerReceivesHolds
<1>9. CASE Relay
  BY <1>9, RelayHolds
<1>10. ASSUME NEW s \in Destinations, NEW l \in StatusLines, Answer(s, l) PROVE WireInv'
  BY <1>10, AnswerHolds
<1>11. CASE ClientReads
  BY <1>11, ClientReadsHolds
<1> QED
  BY <1>1, <1>2, <1>3, <1>4, <1>5, <1>6, <1>7, <1>8, <1>9, <1>10, <1>11 DEF WireNext

\* Every behavior keeps the invariant: the map holds what the application asked for, and op,
\* wire and read agree with each other at every stage.
THEOREM WireInvariant == WireSpec => []WireInv
<1>1. WireInit => WireInv
  BY InitHolds
<1>2. WireInv /\ [WireNext]_wireVars => WireInv'
  BY StepHolds
<1> QED
  BY <1>1, <1>2, PTL DEF WireSpec

\* What an op may be.
LEMMA OpKinds ==
    ASSUME WireInv
    PROVE  \/ op = Nothing \/ IsPublish(op, map) \/ IsSubscribe(op) \/ IsUnsubscribe(op)
           \/ IsStatus(op) \/ IsRefused(op)
BY DEF WireInv, AtStage, Framed

\* HeaderMap (headers/map.rs): len is the number of values in the tree after any edits, and no
\* name is left without a value.
THEOREM WireTypeCorrect == WireSpec => []WireTypeOK
<1>1. WireInv => WireTypeOK
  <2> SUFFICES ASSUME WireInv PROVE WireTypeOK
    OBVIOUS
  <2>1. /\ IsMap(map) /\ meant \in Seq(GoodPairs) /\ map.len = Len(meant)
        /\ \A n : GetAll(map, n) = ValuesOf(meant, n)
    BY DEF WireInv, Holds
  <2>2. HeaderPairs(map) \in Seq(GoodPairs) /\ \A n : ValuesOf(HeaderPairs(map), n) = GetAll(map, n)
    BY <2>1, MapPairs
  <2>3. SameValues(HeaderPairs(map), meant)
    BY <2>1, <2>2 DEF SameValues
  <2>4. Len(HeaderPairs(map)) = Len(meant)
    BY <2>1, <2>2, <2>3, SameLength
  <2>5. \A k \in DOMAIN map.headers : map.headers[k].values # <<>>
    BY <2>1 DEF IsMap, IsEntry
  <2>6. stage \in {"building", "written", "refused", "understood", "relaying", "delivered", "read"}
    BY Stages DEF WireInv
  <2> QED
    BY <2>1, <2>4, <2>5, <2>6 DEF WireTypeOK
<1> QED
  BY <1>1, WireInvariant, PTL

\* encode (proto/encoder/mod.rs): whatever op is enqueued, the server reads its arguments off
\* the wire, and nothing is left over.
THEOREM OpsAreRead == WireSpec => []OpIsRead
<1>1. WireInv => OpIsRead
  <2> SUFFICES ASSUME WireInv PROVE OpIsRead
    OBVIOUS
  <2>1. ASSUME stage = "understood"
        PROVE  read.kind = op.kind /\ read.rest = <<>> /\ \A f \in DOMAIN op : read[f] = op[f]
    BY <2>1, Stages DEF WireInv, SameArgs
  <2>2. ASSUME stage = "relaying"
        PROVE  /\ op.kind = "Publish" /\ read.rest = <<Crlf>>
               /\ \A f \in {"subject", "reply", "payload"} : read[f] = op[f]
    <3>1. IsPublish(op, map) /\ Relayed(read, op)
      BY <2>2, Stages DEF WireInv
    <3>2. read.subject = op.subject /\ read.reply = op.reply /\ read.payload = op.payload
          /\ read.rest = <<Crlf>>
      BY <3>1 DEF Relayed
    <3> QED
      BY <3>1, <3>2 DEF IsPublish
  <2> QED
    BY <2>1, <2>2 DEF OpIsRead
<1> QED
  BY <1>1, WireInvariant, PTL

\* validate_subject and validate_queue_group (subject.rs, queue_group.rs) let through exactly
\* the subjects of the grammar, and refuse a group for a separator only.
THEOREM GrammarKept == WireSpec => []GrammarIsKept
<1>1. WireInv => GrammarIsKept
  <2> SUFFICES ASSUME WireInv PROVE GrammarIsKept
    OBVIOUS
  <2>1. ASSUME op.kind \in {"Publish", "Subscribe"} PROVE WellFormed(op.subject)
    <3>1. IsPublish(op, map) \/ IsSubscribe(op)
      BY <2>1, OpKinds DEF Nothing, IsUnsubscribe, IsStatus, IsRefused
    <3>2. IsSubject(op.subject)
      BY <3>1 DEF IsPublish, IsSubscribe
    <3> QED
      BY <3>2, SubjectGrammar DEF IsSubject
  <2>2. ASSUME op.kind = "Refused"
        PROVE  \/ ~WellFormed(op.subject)
               \/ \E i \in DOMAIN op.group : op.group[i] \in Blanks \cup {Crlf}
    <3>1. IsRefused(op)
      BY <2>2, OpKinds DEF Nothing, IsPublish, IsSubscribe, IsUnsubscribe, IsStatus
    <3>2. CASE op.subject \in Strings /\ ~Accepts(NewSubject(op.subject))
      BY <3>2, SubjectGrammar
    <3>3. CASE op.group \in Strings /\ op.group # <<>> /\ ~Accepts(NewQueueGroup(op.group))
      <4>1. \E i \in DOMAIN op.group : op.group[i] \in Separators
        BY <3>3, GroupGrammar
      <4> QED
        BY <4>1 DEF Separators
    <3> QED
      BY <3>1, <3>2, <3>3 DEF IsRefused
  <2> QED
    BY <2>1, <2>2 DEF GrammarIsKept
<1> QED
  BY <1>1, WireInvariant, PTL

\* What was read last was on the wire.
LEMMA WhatIsRead ==
    ASSUME WireInv, stage = "read"
    PROVE  \E f : Framed(f, op, map) /\ read = DecodeFrame(f)
BY Stages DEF WireInv

\* decode undoes encode, decode_headers undoes encode_headers: whatever is published arrives as
\* it was published, or as InvalidPayloadLength.
THEOREM PublicationsArrive == WireSpec => []ArrivesAsPublished
<1>1. WireInv => ArrivesAsPublished
  <2> SUFFICES ASSUME WireInv, stage = "read", op.kind = "Publish"
               PROVE  IF Bytes(Block(op.headers)) + Bytes(op.payload) > MaxMsgLen
                      THEN read.err = "InvalidPayloadLength"
                      ELSE /\ Accepts(read)
                           /\ \A f \in {"subject", "reply", "payload"} : read.val[f] = op[f]
                           /\ read.val.status.code = 0
                           /\ read.val.rest = <<Crlf>>
                           /\ read.val.headers.len = Len(meant)
                           /\ \A n \in {m \in RawNames : Accepts(NewHeaderName(m))} :
                                GetAll(read.val.headers, n) = ValuesOf(meant, n)
    BY DEF ArrivesAsPublished
  <2>1. IsPublish(op, map) /\ read = DecodeFrame(PublicationFrame(op))
    <3>1. PICK f : Framed(f, op, map) /\ read = DecodeFrame(f)
      BY WhatIsRead
    <3>2. ~IsStatus(op)
      BY DEF IsStatus
    <3> QED
      BY <3>1, <3>2 DEF Framed
  <2>2. IsWord(op.subject) /\ IsOptional(op.reply)
    BY <2>1, PublishWords
  <2>3. op.headers = map /\ op.payload \in Strings /\ Bytes(Block(map)) + Bytes(op.payload) <= MaxInt
    BY <2>1 DEF IsPublish
  <2>4. /\ IsMap(map) /\ meant \in Seq(GoodPairs) /\ map.len = Len(meant)
        /\ \A n : GetAll(map, n) = ValuesOf(meant, n)
    BY DEF WireInv, Holds
  <2> DEFINE x == op.subject
             y == op.reply
             z == op.payload
  <2>5. Arrived(read, x, y, map, z)
    <3>1. IsWord(x) /\ IsOptional(y) /\ z \in Strings /\ Bytes(Block(map)) + Bytes(z) <= MaxInt
      BY <2>2, <2>3
    <3>2. read = DecodeFrame(ServerFrame(x, y, Block(map), z))
      BY <2>1, <2>3 DEF PublicationFrame
    <3> HIDE DEF x, y, z
    <3> QED
      BY <2>4, <3>1, <3>2, PublicationArrives
  <2>6. HeaderPairs(map) \in Seq(GoodPairs) /\ \A n : ValuesOf(HeaderPairs(map), n) = GetAll(map, n)
    BY <2>4, MapPairs
  <2>7. SameValues(HeaderPairs(map), meant)
    BY <2>4, <2>6 DEF SameValues
  <2>8. Len(HeaderPairs(map)) = Len(meant)
    BY <2>4, <2>6, <2>7, SameLength
  <2> HIDE DEF x, y, z
  <2>9. CASE Bytes(Block(map)) + Bytes(z) > MaxMsgLen
    BY <2>3, <2>5, <2>9 DEF Arrived, z
  <2>10. CASE ~(Bytes(Block(map)) + Bytes(z) > MaxMsgLen)
    <3>1. /\ Accepts(read) /\ read.val.subject = x /\ read.val.reply = y /\ read.val.payload = z
          /\ read.val.status.code = 0 /\ read.val.rest = <<Crlf>>
          /\ HasHeaders(read.val.headers, map)
      BY <2>5, <2>10 DEF Arrived
    <3>2. \A f \in {"subject", "reply", "payload"} : read.val[f] = op[f]
      BY <3>1 DEF x, y, z
    <3>3. read.val.headers.len = Len(meant) /\ \A n : GetAll(read.val.headers, n) = ValuesOf(meant, n)
      BY <2>4, <2>8, <3>1 DEF HasHeaders
    <3> QED
      BY <2>3, <2>10, <3>1, <3>2, <3>3 DEF z
  <2> QED
    BY <2>9, <2>10
<1> QED
  BY <1>1, WireInvariant, PTL

\* decode_headers (mod.rs:336-361) reads any status the server writes, and errs on any other
\* digits.
THEOREM StatusesAreRead == WireSpec => []StatusIsRead
<1>1. WireInv => StatusIsRead
  <2> SUFFICES ASSUME WireInv, stage = "read", op.kind = "Status"
               PROVE  LET line == op.line
                          digits == SubSeq(line, 2, 4)
                          proper == /\ Len(line) >= 4
                                    /\ \A i \in 1..3 : IsAsciiDigit(digits[i])
                                    /\ digits[1] # "0"
                                    /\ Len(line) > 4 => line[5] \in Blanks
                      IN /\ proper => /\ Accepts(read)
                                      /\ Decimal[read.val.status.code] = digits
                                      /\ read.val.status.text = Trim(SubSeq(line, 6, Len(line)))
                         /\ Accepts(read) /\ ~proper => Len(line) < 4 /\ read.val.status.code = 0
    BY DEF StatusIsRead
  <2>1. IsStatus(op) /\ \E s : IsWord(s) /\ read = DecodeFrame(StatusFrame(s, op))
    <3>1. PICK f : Framed(f, op, map) /\ read = DecodeFrame(f)
      BY WhatIsRead
    <3>2. ~IsPublish(op, map)
      BY DEF IsPublish
    <3> QED
      BY <3>1, <3>2 DEF Framed
  <2>2. PICK s : IsWord(s) /\ read = DecodeFrame(StatusFrame(s, op))
    BY <2>1
  <2>3. op.line \in StatusLines
    BY <2>1 DEF IsStatus
  <2>4. StatusArrived(read, op.line)
    BY <2>2, <2>3, StatusArrives DEF StatusFrame
  <2> DEFINE line == op.line
             digits == SubSeq(line, 2, 4)
             text == Trim(SubSeq(line, 6, Len(line)))
             proper == /\ Len(line) >= 4
                       /\ \A i \in 1..3 : IsAsciiDigit(digits[i])
                       /\ digits[1] # "0"
                       /\ Len(line) > 4 => line[5] \in Blanks
  <2>5. proper <=> IsStatusLine(line)
    BY DEF IsStatusLine, IsCode
  <2> HIDE DEF proper
  <2>6. proper => Accepts(read) /\ Decimal[read.val.status.code] = digits /\ read.val.status.text = text
    BY <2>4, <2>5 DEF StatusArrived
  <2>7. Accepts(read) /\ ~proper => Len(line) < 4 /\ read.val.status.code = 0
    BY <2>4, <2>5 DEF StatusArrived
  <2> QED
    BY <2>6, <2>7 DEF proper
<1> QED
  BY <1>1, WireInvariant, PTL

\* encode with the constructors of subjects and groups: both of the above.
THEOREM ServersUnderstand == WireSpec => []ServerUnderstands
<1>1. OpIsRead /\ GrammarIsKept => ServerUnderstands
  BY DEF ServerUnderstands
<1> QED
  BY <1>1, OpsAreRead, GrammarKept, PTL

\* decode: publications and the server's own answers arrive as they were sent.
THEOREM MessagesArrive == WireSpec => []ArrivesAsSent
<1>1. ArrivesAsPublished /\ StatusIsRead => ArrivesAsSent
  BY DEF ArrivesAsSent
<1> QED
  BY <1>1, PublicationsArrive, StatusesAreRead, PTL
=============================================================================
