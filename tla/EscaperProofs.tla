----------------------------- MODULE EscaperProofs -----------------------------
(***************************************************************************)
(* What the escaper guarantees for texts of any length over any characters *)
(* and for parameters of any depth. The induction theorems of the library  *)
(* take a predicate; those below take a set.                               *)
(***************************************************************************)
EXTENDS Escaper, SequenceTheorems, WellFoundedInduction, TLAPS

-----------------------------------------------------------------------------
(***************************************************************************)
(* Induction                                                               *)
(***************************************************************************)

\* A set of naturals that holds n whenever it holds all below n holds all.
LEMMA NatSets ==
    ASSUME NEW G,
           \A n \in Nat : (\A m \in Nat : m < n => m \in G) => n \in G
    PROVE  \A n \in Nat : n \in G
<1> DEFINE Less == OpToRel(<, Nat)
           Bad == {n \in Nat : n \notin G}
<1>1. \A p, q \in Nat : p < q => <<p, q>> \in Less
  BY DEF OpToRel
<1>2. IsWellFoundedOn(Less, Nat)
  BY NatLessThanWellFounded
<1> HIDE DEF Less
<1>3. ASSUME Bad # {}
      PROVE  FALSE
  <2>1. Bad \subseteq Nat
    OBVIOUS
  <2>2. \E x \in Bad : \A y \in Bad : ~(<<y, x>> \in Less)
    BY <1>2, <1>3, <2>1, WFMin
  <2>3. PICK n \in Bad : \A y \in Bad : ~(<<y, n>> \in Less)
    BY <2>2
  <2>4. \A m \in Nat : m < n => m \in G
    BY <1>1, <2>3
  <2> QED
    BY <2>4
<1> QED
  BY <1>3

\* A set of texts that holds t whenever it holds all shorter ones holds all.
LEMMA TextSets ==
    ASSUME NEW C, NEW G,
           \A t \in Seq(C) : (\A u \in Seq(C) : Len(u) < Len(t) => u \in G) => t \in G
    PROVE  \A t \in Seq(C) : t \in G
<1> DEFINE H == {n \in Nat : \A t \in Seq(C) : Len(t) = n => t \in G}
<1>1. ASSUME NEW n \in Nat, \A m \in Nat : m < n => m \in H
      PROVE  n \in H
  <2>1. ASSUME NEW t \in Seq(C), Len(t) = n
        PROVE  t \in G
    <3>1. ASSUME NEW u \in Seq(C), Len(u) < Len(t)
          PROVE  u \in G
      <4>1. Len(u) \in Nat
        BY LenProperties
      <4> QED
        BY <1>1, <2>1, <3>1, <4>1
    <3> QED
      BY <3>1
  <2> QED
    BY <2>1
<1>2. \A n \in Nat : n \in H
  <2> HIDE DEF H
  <2> QED
    BY <1>1, NatSets
<1>3. ASSUME NEW t \in Seq(C)
      PROVE  t \in G
  <2>1. Len(t) \in Nat
    BY LenProperties
  <2> QED
    BY <1>2, <2>1
<1> QED
  BY <1>3

\* The conversion f puts new[t] in front of the conversion of rest[t].
Converts(f, C, new, rest) ==
    f = [t \in Seq(C) |-> IF t = <<>> THEN <<>> ELSE new[t] \o f[rest[t]]]

\* There is such a conversion if what is left to convert gets shorter.
LEMMA Recursion ==
    ASSUME NEW C, NEW new, NEW rest,
           \A t \in Seq(C) : t # <<>> => rest[t] \in Seq(C) /\ Len(rest[t]) < Len(t)
    PROVE  \E f : Converts(f, C, new, rest)
<1> DEFINE Body(g, t) == IF t = <<>> THEN <<>> ELSE new[t] \o g[rest[t]]
           UpTo(n) == {t \in Seq(C) : Len(t) <= n}
           Approx(n, g) == g = [t \in UpTo(n) |-> Body(g, t)]
           Exists == {n \in Nat : \E g : Approx(n, g)}
<1>0. \A t \in Seq(C) : Len(t) \in Nat
  BY LenProperties
<1>1. ASSUME NEW n \in Nat, \A m \in Nat : m < n => m \in Exists
      PROVE  n \in Exists
  <2>1. CASE n = 0
    <3> DEFINE g == [t \in UpTo(0) |-> <<>>]
    <3>1. \A t \in UpTo(0) : t = <<>>
      BY <1>0, EmptySeq
    <3>2. Approx(0, g)
      BY <3>1
    <3> QED
      BY <2>1, <3>2
  <2>2. CASE n # 0
    <3>1. n - 1 \in Nat /\ n - 1 < n
      BY <2>2
    <3>2. PICK h : Approx(n - 1, h)
      BY <1>1, <3>1
    <3> DEFINE g == [t \in UpTo(n) |-> Body(h, t)]
    <3>3. \A t \in UpTo(n - 1) : t \in UpTo(n) /\ g[t] = h[t]
      <4>1. \A t \in UpTo(n - 1) : t \in UpTo(n)
        BY <1>0, <3>1
      <4>2. \A t \in UpTo(n - 1) : h[t] = Body(h, t)
        BY <3>2
      <4> QED
        BY <4>1, <4>2
    <3>4. \A t \in UpTo(n) : t # <<>> => rest[t] \in UpTo(n - 1)
      BY <1>0, <3>1
    <3>5. \A t \in UpTo(n) : Body(h, t) = Body(g, t)
      <4>1. ASSUME NEW t \in UpTo(n), t # <<>>
            PROVE  h[rest[t]] = g[rest[t]]
        BY <3>3, <3>4, <4>1
      <4> HIDE DEF g
      <4> QED
        BY <4>1
    <3>6. Approx(n, g)
      BY <3>5
    <3> QED
      BY <3>6
  <2> QED
    BY <2>1, <2>2
<1>2. \A n \in Nat : \E g : Approx(n, g)
  <2>1. \A n \in Nat : n \in Exists
    <3> HIDE DEF Exists
    <3> QED
      BY <1>1, NatSets
  <2> QED
    BY <2>1
<1> DEFINE G(n) == CHOOSE g : Approx(n, g)
<1>3. \A n \in Nat : Approx(n, G(n))
  <2> HIDE DEF Approx
  <2> QED
    BY <1>2
<1> DEFINE Same == {t \in Seq(C) : \A m, n \in Nat : Len(t) <= m /\ Len(t) <= n => G(m)[t] = G(n)[t]}
<1> HIDE DEF G
<1>4. \A n \in Nat : \A t \in UpTo(n) : G(n)[t] = Body(G(n), t)
  BY <1>3
<1> HIDE DEF Approx
<1>5. ASSUME NEW t \in Seq(C), \A u \in Seq(C) : Len(u) < Len(t) => u \in Same
      PROVE  t \in Same
  <2>1. ASSUME NEW m \in Nat, NEW n \in Nat, Len(t) <= m, Len(t) <= n
        PROVE  G(m)[t] = G(n)[t]
    <3>1. G(m)[t] = Body(G(m), t) /\ G(n)[t] = Body(G(n), t)
      BY <1>4, <2>1
    <3>2. ASSUME t # <<>>
          PROVE  G(m)[rest[t]] = G(n)[rest[t]]
      <4>1. rest[t] \in Seq(C) /\ Len(rest[t]) < Len(t) /\ Len(rest[t]) \in Nat /\ Len(t) \in Nat
        BY <1>0, <3>2
      <4>2. rest[t] \in Same
        BY <1>5, <4>1
      <4>3. Len(rest[t]) <= m /\ Len(rest[t]) <= n
        BY <2>1, <4>1
      <4> QED
        BY <4>2, <4>3
    <3> QED
      BY <3>1, <3>2
  <2> QED
    BY <2>1
<1>6. \A t \in Seq(C) : t \in Same
  <2> HIDE DEF Same
  <2> QED
    BY <1>5, TextSets
<1> DEFINE f == [t \in Seq(C) |-> G(Len(t))[t]]
<1>7. ASSUME NEW t \in Seq(C)
      PROVE  f[t] = Body(f, t)
  <2>1. f[t] = Body(G(Len(t)), t)
    BY <1>0, <1>4
  <2>2. t # <<>> => G(Len(t))[rest[t]] = f[rest[t]]
    BY <1>0, <1>6
  <2> HIDE DEF f
  <2> QED
    BY <2>1, <2>2
<1>8. f = [t \in Seq(C) |-> Body(f, t)]
  <2>1. f = [t \in Seq(C) |-> f[t]]
    OBVIOUS
  <2> HIDE DEF f
  <2> QED
    BY <1>7, <2>1
<1> QED
  BY <1>8 DEF Converts

-----------------------------------------------------------------------------
(***************************************************************************)
(* Texts and their beginnings                                              *)
(***************************************************************************)

\* A text begins with another that agrees with it at all of its places.
LEMMA PrefixPoints ==
    ASSUME NEW C, NEW s \in Seq(C), NEW t \in Seq(C)
    PROVE  IsPrefix(s, t) <=> Len(s) <= Len(t) /\ \A i \in 1..Len(s) : s[i] = t[i]
<1>0. Len(s) \in Nat /\ Len(t) \in Nat
  BY LenProperties
<1>1. SubSeq(s, 1, Len(s)) = s
  BY SubSeqFull
<1>2. ASSUME Len(s) <= Len(t)
      PROVE  SubSeq(s, 1, Len(s)) = SubSeq(t, 1, Len(s)) <=> \A i \in 1..Len(s) : s[i] = t[i]
  <2> DEFINE p == SubSeq(t, 1, Len(s))
  <2>1. \A i \in 1..Len(s) : t[i] \in C
    BY <1>0, <1>2, ElementOfSeq
  <2>2. p \in Seq(C) /\ Len(p) = Len(s) /\ \A i \in 1..Len(s) : p[i] = t[i]
    <3>1. /\ p \in Seq(C)
          /\ Len(p) = IF 1 <= Len(s) THEN Len(s) - 1 + 1 ELSE 0
          /\ \A i \in 1..(Len(s) - 1 + 1) : p[i] = t[1 + i - 1]
      BY <1>0, <2>1, SubSeqProperties
    <3> HIDE DEF p
    <3> QED
      BY <1>0, <3>1
  <2> HIDE DEF p
  <2>3. (\A i \in 1..Len(s) : s[i] = t[i]) => s = p
    BY <2>2, SeqEqual
  <2> QED
    BY <1>1, <2>2, <2>3 DEF p
<1> QED
  BY <1>2 DEF IsPrefix

\* What is left of a text after its beginning.
LEMMA PrefixSplits ==
    ASSUME NEW C, NEW s \in Seq(C), NEW t \in Seq(C), IsPrefix(s, t)
    PROVE  LET u == SubSeq(t, Len(s) + 1, Len(t))
           IN u \in Seq(C) /\ Len(u) = Len(t) - Len(s) /\ t = s \o u
<1> DEFINE u == SubSeq(t, Len(s) + 1, Len(t))
<1>0. /\ Len(s) \in Nat /\ Len(t) \in Nat
      /\ Len(s) <= Len(t) /\ \A i \in 1..Len(s) : s[i] = t[i]
  BY LenProperties, PrefixPoints
<1>1. \A i \in (Len(s) + 1)..Len(t) : t[i] \in C
  BY <1>0, ElementOfSeq
<1>2. /\ u \in Seq(C)
      /\ Len(u) = IF Len(s) + 1 <= Len(t) THEN Len(t) - (Len(s) + 1) + 1 ELSE 0
      /\ \A i \in 1..(Len(t) - (Len(s) + 1) + 1) : u[i] = t[Len(s) + 1 + i - 1]
  BY <1>0, <1>1, SubSeqProperties
<1> HIDE DEF u
<1>3. Len(u) = Len(t) - Len(s)
  BY <1>0, <1>2
<1>4. /\ s \o u \in Seq(C)
      /\ Len(s \o u) = Len(s) + Len(u)
      /\ \A i \in 1..(Len(s) + Len(u)) : (s \o u)[i] = IF i <= Len(s) THEN s[i] ELSE u[i - Len(s)]
  BY <1>2, ConcatProperties
<1>5. \A i \in 1..Len(t) : t[i] = (s \o u)[i]
  <2>1. \A i \in 1..Len(t) : i <= Len(s) => s[i] = t[i]
    BY <1>0
  <2>2. ASSUME NEW i \in 1..Len(t), ~(i <= Len(s))
        PROVE  u[i - Len(s)] = t[i]
    <3>1. i - Len(s) \in 1..(Len(t) - (Len(s) + 1) + 1)
      BY <1>0, <2>2
    <3>2. u[i - Len(s)] = t[Len(s) + 1 + (i - Len(s)) - 1]
      BY <1>2, <3>1
    <3>3. Len(s) + 1 + (i - Len(s)) - 1 = i
      BY <1>0
    <3> QED
      BY <3>2, <3>3
  <2> QED
    BY <1>0, <1>3, <1>4, <2>1, <2>2
<1>6. t = s \o u
  <2> DEFINE w == s \o u
  <2>1. w \in Seq(C) /\ Len(t) = Len(w) /\ \A i \in 1..Len(t) : t[i] = w[i]
    BY <1>0, <1>3, <1>4, <1>5
  <2> HIDE DEF w
  <2>2. t = w
    BY <2>1, SeqEqual
  <2> QED
    BY <2>2 DEF w
<1> QED
  BY <1>2, <1>3, <1>6 DEF u

\* The parts of a text put together are found again.
LEMMA ConcatSplits ==
    ASSUME NEW C, NEW s \in Seq(C), NEW u \in Seq(C)
    PROVE  /\ IsPrefix(s, s \o u)
           /\ SubSeq(s \o u, Len(s) + 1, Len(s \o u)) = u
<1>0. /\ s \o u \in Seq(C)
      /\ Len(s) \in Nat /\ Len(u) \in Nat
      /\ Len(s \o u) = Len(s) + Len(u)
      /\ \A i \in 1..(Len(s) + Len(u)) : (s \o u)[i] = IF i <= Len(s) THEN s[i] ELSE u[i - Len(s)]
  BY LenProperties, ConcatProperties
<1>1. IsPrefix(s, s \o u)
  <2> DEFINE t == s \o u
  <2>1. t \in Seq(C) /\ Len(s) <= Len(t)
    BY <1>0
  <2>2. \A i \in 1..Len(s) : s[i] = t[i]
    BY <1>0
  <2> HIDE DEF t
  <2>3. IsPrefix(s, t)
    BY <2>1, <2>2, PrefixPoints
  <2> QED
    BY <2>3 DEF t
<1> DEFINE v == SubSeq(s \o u, Len(s) + 1, Len(s \o u))
<1>2. v \in Seq(C) /\ s \o u = s \o v
  BY <1>0, <1>1, PrefixSplits
<1> HIDE DEF v
<1>3. u = v
  <2>1. \A x, y, z \in Seq(C) : x \o y = x \o z => y = z
    BY ConcatSimplifications
  <2> QED
    BY <1>2, <2>1
<1> QED
  BY <1>1, <1>3 DEF v

\* A text that is not empty is a character and the rest.
LEMMA HeadSplits ==
    ASSUME NEW C, NEW t \in Seq(C), t # <<>>
    PROVE  /\ Head(t) \in C /\ <<Head(t)>> \in Seq(C)
           /\ \E u \in Seq(C) : t = <<Head(t)>> \o u
<1>1. Len(t) \in Nat /\ Len(t) >= 1
  BY EmptySeq, LenProperties
<1>2. Head(t) = t[1] /\ t[1] \in C
  BY <1>1, ElementOfSeq
<1> DEFINE h == <<t[1]>>
<1>3. h \in Seq(C) /\ Len(h) = 1 /\ h[1] = t[1]
  BY <1>2
<1> HIDE DEF h
<1>4. IsPrefix(h, t)
  <2>1. \A i \in 1..Len(h) : h[i] = t[i]
    BY <1>3
  <2> QED
    BY <1>1, <1>3, <2>1, PrefixPoints
<1> DEFINE v == SubSeq(t, Len(h) + 1, Len(t))
<1>5. v \in Seq(C) /\ t = h \o v
  BY <1>3, <1>4, PrefixSplits
<1> HIDE DEF v
<1>6. \E u \in Seq(C) : t = h \o u
  BY <1>5
<1> QED
  BY <1>2, <1>3, <1>6 DEF h

\* Two texts begin alike when their characters and rests do.
LEMMA PrefixOfCons ==
    ASSUME NEW C, NEW k \in C, NEW s \in Seq(C), NEW c \in C, NEW u \in Seq(C)
    PROVE  IsPrefix(<<k>> \o s, <<c>> \o u) <=> k = c /\ IsPrefix(s, u)
<1>0. /\ <<k>> \in Seq(C) /\ <<c>> \in Seq(C) /\ Len(<<k>>) = 1 /\ Len(<<c>>) = 1
      /\ <<k>>[1] = k /\ <<c>>[1] = c /\ Len(s) \in Nat /\ Len(u) \in Nat
  BY LenProperties
<1> DEFINE p == <<k>> \o s
           q == <<c>> \o u
<1>1. /\ p \in Seq(C) /\ Len(p) = 1 + Len(s)
      /\ \A i \in 1..(1 + Len(s)) : p[i] = IF i <= 1 THEN <<k>>[i] ELSE s[i - 1]
  BY <1>0, ConcatProperties
<1>2. /\ q \in Seq(C) /\ Len(q) = 1 + Len(u)
      /\ \A i \in 1..(1 + Len(u)) : q[i] = IF i <= 1 THEN <<c>>[i] ELSE u[i - 1]
  BY <1>0, ConcatProperties
<1> HIDE DEF p, q
<1>3. IsPrefix(p, q) <=> Len(p) <= Len(q) /\ \A i \in 1..Len(p) : p[i] = q[i]
  <2>1. p \in Seq(C) /\ q \in Seq(C)
    BY <1>1, <1>2
  <2> QED
    BY ONLY <2>1, PrefixPoints
<1>4. IsPrefix(s, u) <=> Len(s) <= Len(u) /\ \A i \in 1..Len(s) : s[i] = u[i]
  BY PrefixPoints
<1>5. ASSUME IsPrefix(p, q)
      PROVE  k = c /\ IsPrefix(s, u)
  <2>1. Len(s) <= Len(u)
    BY <1>0, <1>1, <1>2, <1>3, <1>5
  <2>2. p[1] = q[1]
    BY <1>0, <1>1, <1>3, <1>5
  <2>3. ASSUME NEW i \in 1..Len(s)
        PROVE  s[i] = u[i]
    <3>1. i + 1 \in 1..Len(p) /\ i + 1 \in 1..(1 + Len(s)) /\ i + 1 \in 1..(1 + Len(u)) /\ ~(i + 1 <= 1)
      BY <1>0, <1>1, <2>1
    <3>2. p[i + 1] = q[i + 1]
      BY <1>3, <1>5, <3>1
    <3>3. p[i + 1] = s[(i + 1) - 1] /\ q[i + 1] = u[(i + 1) - 1]
      BY <1>1, <1>2, <3>1
    <3>4. (i + 1) - 1 = i
      OBVIOUS
    <3> QED
      BY <3>2, <3>3, <3>4
  <2> QED
    BY <1>0, <1>1, <1>2, <1>4, <2>1, <2>2, <2>3
<1>6. ASSUME k = c, IsPrefix(s, u)
      PROVE  IsPrefix(p, q)
  <2>1. Len(p) <= Len(q)
    BY <1>0, <1>1, <1>2, <1>4, <1>6
  <2>2. ASSUME NEW i \in 1..Len(p)
        PROVE  p[i] = q[i]
    <3>1. i \in 1..(1 + Len(s)) /\ i \in 1..(1 + Len(u))
      BY <1>0, <1>1, <1>2, <2>1
    <3>2. CASE i <= 1
      BY <1>0, <1>1, <1>2, <1>6, <3>1, <3>2
    <3>3. CASE ~(i <= 1)
      <4>1. i - 1 \in 1..Len(s)
        BY <1>0, <3>1, <3>3
      <4> QED
        BY <1>1, <1>2, <1>4, <1>6, <3>1, <3>3, <4>1
    <3> QED
      BY <3>2, <3>3
  <2> QED
    BY <1>3, <2>1, <2>2
<1> QED
  BY <1>5, <1>6 DEF p, q

-----------------------------------------------------------------------------
(***************************************************************************)
(* Rewriting                                                               *)
(***************************************************************************)

\* Rules of which at most one applies at the left end of a text.
Unambiguous(rules) ==
    /\ \A r \in rules : r.old \in Strings /\ r.old # <<>>
    /\ \A q, r \in rules : \A t \in Strings :
          IsPrefix(q.old, t) /\ IsPrefix(r.old, t) => q = r

\* A rule that applies is the one that is used, and one character is rewritten
\* to itself where none applies.
LEMMA Matches ==
    ASSUME NEW rules, Unambiguous(rules), NEW t \in Strings, t # <<>>
    PROVE  /\ \A r \in rules : IsPrefix(r.old, t) => Match(rules, t) = r
           /\ (\A r \in rules : ~IsPrefix(r.old, t)) =>
                 Match(rules, t) = [old |-> <<Head(t)>>, new |-> <<Head(t)>>]
<1>1. ASSUME NEW r \in rules, IsPrefix(r.old, t)
      PROVE  Match(rules, t) = r
  <2> DEFINE q == CHOOSE q \in rules : IsPrefix(q.old, t)
  <2>1. q \in rules /\ IsPrefix(q.old, t)
    BY <1>1
  <2>2. q = r
    BY <1>1, <2>1 DEF Unambiguous
  <2> QED
    BY <1>1, <2>2 DEF Match
<1> QED
  BY <1>1 DEF Match

\* What is rewritten is the beginning of the text.
LEMMA MatchBegins ==
    ASSUME NEW rules, Unambiguous(rules), NEW t \in Strings, t # <<>>
    PROVE  LET old == Match(rules, t).old
               rest == SubSeq(t, Len(old) + 1, Len(t))
           IN /\ old \in Strings /\ old # <<>>
              /\ rest \in Strings /\ Len(rest) < Len(t)
              /\ t = old \o rest
<1> DEFINE old == Match(rules, t).old
           rest == SubSeq(t, Len(old) + 1, Len(t))
<1>1. old \in Strings /\ old # <<>> /\ IsPrefix(old, t)
  <2>1. CASE \E r \in rules : IsPrefix(r.old, t)
    BY <2>1, Matches DEF Unambiguous
  <2>2. CASE ~(\E r \in rules : IsPrefix(r.old, t))
    <3>1. old = <<Head(t)>>
      BY <2>2, Matches
    <3>2. PICK u \in Strings : t = <<Head(t)>> \o u
      BY HeadSplits DEF Strings
    <3>3. <<Head(t)>> \in Strings
      BY HeadSplits DEF Strings
    <3>4. IsPrefix(<<Head(t)>>, t)
      BY <3>2, <3>3, ConcatSplits DEF Strings
    <3>5. <<Head(t)>> # <<>>
      OBVIOUS
    <3> HIDE DEF old
    <3> QED
      BY <3>1, <3>3, <3>4, <3>5
  <2> QED
    BY <2>1, <2>2
<1> HIDE DEF old
<1>2. Len(old) \in Nat /\ Len(old) > 0 /\ Len(t) \in Nat
  BY <1>1, EmptySeq, LenProperties DEF Strings
<1>3. rest \in Strings /\ Len(rest) = Len(t) - Len(old) /\ t = old \o rest
  BY <1>1, PrefixSplits DEF Strings
<1> HIDE DEF rest
<1>4. Len(rest) < Len(t)
  BY <1>2, <1>3
<1> QED
  BY <1>1, <1>3, <1>4 DEF rest, old

\* Rewriting is the function that its recursion describes.
LEMMA RewritingIs ==
    ASSUME NEW rules, Unambiguous(rules)
    PROVE  Rewriting(rules) =
             [t \in Strings |->
                IF t = <<>> THEN <<>>
                ELSE Match(rules, t).new
                       \o Rewriting(rules)[SubSeq(t, Len(Match(rules, t).old) + 1, Len(t))]]
<1> DEFINE Rest(t) == SubSeq(t, Len(Match(rules, t).old) + 1, Len(t))
           Is(f) == f = [t \in Strings |->
                           IF t = <<>> THEN <<>> ELSE Match(rules, t).new \o f[Rest(t)]]
           new == [t \in Strings |-> Match(rules, t).new]
           rest == [t \in Strings |-> Rest(t)]
<1>1. \A t \in Strings : t # <<>> => Rest(t) \in Strings /\ Len(Rest(t)) < Len(t)
  BY MatchBegins
<1>2. \A t \in Strings : new[t] = Match(rules, t).new /\ rest[t] = Rest(t)
  OBVIOUS
<1> HIDE DEF new, rest, Rest
<1>3. \E f : Converts(f, Characters, new, rest)
  <2>1. \A t \in Seq(Characters) : t # <<>> => rest[t] \in Seq(Characters) /\ Len(rest[t]) < Len(t)
    BY <1>1, <1>2 DEF Strings
  <2> QED
    BY ONLY <2>1, Recursion
<1>4. \E f : Is(f)
  <2>1. ASSUME NEW f, Converts(f, Characters, new, rest)
        PROVE  Is(f)
    <3>1. f = [t \in Strings |-> IF t = <<>> THEN <<>> ELSE new[t] \o f[rest[t]]]
      BY <2>1 DEF Converts, Strings
    <3> QED
      BY <1>2, <3>1
  <2> QED
    BY <1>3, <2>1
<1>5. Rewriting(rules) = CHOOSE f : Is(f)
  BY DEF Rewriting, Rest
<1> HIDE DEF Is
<1>6. Is(Rewriting(rules))
  BY <1>4, <1>5
<1> QED
  BY <1>6 DEF Is, Rest

\* Nothing is rewritten to nothing; a rule that applies is used and the rest
\* rewritten; a character stays where none applies.
LEMMA Rewrites ==
    ASSUME NEW rules, Unambiguous(rules)
    PROVE  /\ Rewriting(rules)[<<>>] = <<>>
           /\ \A r \in rules, u \in Strings :
                 Rewriting(rules)[r.old \o u] = r.new \o Rewriting(rules)[u]
           /\ \A c \in Characters, u \in Strings :
                 (\A r \in rules : ~IsPrefix(r.old, <<c>> \o u)) =>
                 Rewriting(rules)[<<c>> \o u] = <<c>> \o Rewriting(rules)[u]
<1> DEFINE R == Rewriting(rules)
           Rest(t) == SubSeq(t, Len(Match(rules, t).old) + 1, Len(t))
<1>1. \A t \in Strings : R[t] = IF t = <<>> THEN <<>> ELSE Match(rules, t).new \o R[Rest(t)]
  <2>1. R = [t \in Strings |-> IF t = <<>> THEN <<>> ELSE Match(rules, t).new \o R[Rest(t)]]
    BY RewritingIs
  <2> HIDE DEF R, Rest
  <2> QED
    BY <2>1
<1> HIDE DEF R
<1>2. R[<<>>] = <<>>
  <2>1. <<>> \in Strings
    BY EmptySeq DEF Strings
  <2> QED
    BY <1>1, <2>1
<1>3. ASSUME NEW r \in rules, NEW u \in Strings
      PROVE  R[r.old \o u] = r.new \o R[u]
  <2> DEFINE t == r.old \o u
  <2>1. r.old \in Strings /\ r.old # <<>>
    BY DEF Unambiguous
  <2>2. t \in Strings /\ t # <<>>
    BY <2>1, ConcatProperties, ConcatEqualIffEmpty DEF Strings
  <2>3. IsPrefix(r.old, t) /\ SubSeq(t, Len(r.old) + 1, Len(t)) = u
    BY <2>1, ConcatSplits DEF Strings
  <2> HIDE DEF t
  <2>4. Match(rules, t) = r
    BY <2>2, <2>3, Matches
  <2>5. R[t] = r.new \o R[u]
    BY <1>1, <2>2, <2>3, <2>4
  <2> QED
    BY <2>5 DEF t
<1>4. ASSUME NEW c \in Characters, NEW u \in Strings,
             \A r \in rules : ~IsPrefix(r.old, <<c>> \o u)
      PROVE  R[<<c>> \o u] = <<c>> \o R[u]
  <2> DEFINE h == <<c>>
             t == h \o u
  <2>1. h \in Strings /\ Len(h) = 1 /\ h # <<>> /\ h[1] = c
    BY DEF Strings
  <2>2. t \in Strings /\ t # <<>> /\ Head(t) = c
    <3> HIDE DEF h
    <3>1. /\ t \in Strings /\ Len(t) = 1 + Len(u)
          /\ \A i \in 1..(1 + Len(u)) : t[i] = IF i <= 1 THEN h[i] ELSE u[i - 1]
      <4>1. h \in Seq(Characters) /\ u \in Seq(Characters) /\ Len(h) = 1
        BY <2>1 DEF Strings
      <4>2. /\ t \in Seq(Characters) /\ Len(t) = Len(h) + Len(u)
            /\ \A i \in 1..(Len(h) + Len(u)) :
                  t[i] = IF i <= Len(h) THEN h[i] ELSE u[i - Len(h)]
        BY ONLY <4>1, ConcatProperties
      <4> QED
        BY <4>1, <4>2 DEF Strings
    <3>2. Len(u) \in Nat
      BY LenProperties DEF Strings
    <3>3. t[1] = c
      BY <2>1, <3>1, <3>2
    <3> HIDE DEF t
    <3>4. t # <<>>
      BY <3>1, <3>2, EmptySeq
    <3> QED
      BY <3>1, <3>3, <3>4
  <2>3. SubSeq(t, Len(h) + 1, Len(t)) = u
    <3> HIDE DEF h
    <3> QED
      BY <2>1, ConcatSplits DEF Strings
  <2> HIDE DEF t
  <2>4. Match(rules, t) = [old |-> h, new |-> h]
    <3>1. \A r \in rules : ~IsPrefix(r.old, t)
      BY <1>4 DEF t
    <3>2. Match(rules, t) = [old |-> <<Head(t)>>, new |-> <<Head(t)>>]
      BY <2>2, <3>1, Matches
    <3> QED
      BY <2>2, <3>2
  <2> HIDE DEF h
  <2>5. Match(rules, t).old = h /\ Match(rules, t).new = h
    BY <2>4
  <2>6. Rest(t) = u
    BY <2>3, <2>5
  <2> HIDE DEF Rest
  <2>7. R[t] = h \o R[u]
    BY <1>1, <2>2, <2>5, <2>6
  <2> QED
    BY <2>7 DEF t, h
<1> QED
  BY <1>2, <1>3, <1>4 DEF R

\* What a text is rewritten to is made of its characters and of those of the rules.
LEMMA RewritingType ==
    ASSUME NEW rules, Unambiguous(rules), NEW V, Characters \subseteq V,
           \A r \in rules : r.new \in Seq(V), NEW s \in Strings
    PROVE  Rewriting(rules)[s] \in Seq(V)
<1> DEFINE R == Rewriting(rules)
           Rest(t) == SubSeq(t, Len(Match(rules, t).old) + 1, Len(t))
           G == {t \in Strings : R[t] \in Seq(V)}
<1>1. \A t \in Strings : R[t] = IF t = <<>> THEN <<>> ELSE Match(rules, t).new \o R[Rest(t)]
  <2>1. R = [t \in Strings |-> IF t = <<>> THEN <<>> ELSE Match(rules, t).new \o R[Rest(t)]]
    BY RewritingIs
  <2> HIDE DEF R, Rest
  <2> QED
    BY <2>1
<1>2. \A t \in Strings : t # <<>> => Rest(t) \in Strings /\ Len(Rest(t)) < Len(t)
  BY MatchBegins
<1> HIDE DEF R, Rest
<1>3. ASSUME NEW t \in Seq(Characters), \A u \in Seq(Characters) : Len(u) < Len(t) => u \in G
      PROVE  t \in G
  <2>0. t \in Strings
    BY DEF Strings
  <2>1. CASE t = <<>>
    <3>1. R[t] = <<>> /\ <<>> \in Seq(V)
      BY <1>1, <2>0, <2>1
    <3> QED
      BY <2>0, <3>1
  <2>2. CASE t # <<>>
    <3>1. Match(rules, t).new \in Seq(V)
      <4>1. CASE \E r \in rules : IsPrefix(r.old, t)
        BY <2>0, <2>2, <4>1, Matches
      <4>2. CASE \A r \in rules : ~IsPrefix(r.old, t)
        <5>1. Match(rules, t).new = <<Head(t)>>
          BY <2>0, <2>2, <4>2, Matches
        <5>2. Head(t) \in V
          BY <2>2, HeadSplits
        <5> QED
          BY <5>1, <5>2
      <4> QED
        BY <4>1, <4>2
    <3>2. R[Rest(t)] \in Seq(V)
      BY <1>2, <1>3, <2>0, <2>2 DEF Strings
    <3>3. R[t] = Match(rules, t).new \o R[Rest(t)]
      BY <1>1, <2>0, <2>2
    <3>4. R[t] \in Seq(V)
      BY <3>1, <3>2, <3>3, ConcatProperties
    <3> QED
      BY <2>0, <3>4
  <2> QED
    BY <2>1, <2>2
<1> HIDE DEF G
<1>4. \A t \in Seq(Characters) : t \in G
  BY <1>3, TextSets
<1> QED
  BY <1>4 DEF G, R, Strings

-----------------------------------------------------------------------------
(***************************************************************************)
(* Interpolations, directives and their escapes                            *)
(***************************************************************************)

\* Texts in which no character stands for an escape.
Plain == Seq(Characters \ {NUL})

\* The marks are texts, of characters that differ.
LEMMA Marks ==
    /\ Dollar \in Characters \ {NUL} /\ Brace \in Characters \ {NUL} /\ NUL \in Characters
    /\ Dollar # Brace /\ NUL # Dollar /\ NUL # Brace
    /\ Percent \in Characters \ {NUL} /\ Percent # Brace /\ Percent # Dollar /\ NUL # Percent
    /\ Evaluated \notin Characters /\ Directed \notin Characters /\ Directed # Evaluated
    /\ Directive \in Plain /\ DirectiveEscape \in Plain
    /\ Directive \in Strings /\ DirectiveEscape \in Strings
    /\ Directive # <<>> /\ DirectiveEscape # <<>>
    /\ Len(Directive) = 2 /\ Len(DirectiveEscape) = 3
    /\ Interpolation \in Plain /\ Escape \in Plain /\ <<>> \in Plain
    /\ Interpolation \in Strings /\ Escape \in Strings /\ <<NUL>> \in Strings
    /\ <<Brace>> \in Strings /\ <<>> \in Strings
    /\ Interpolation # <<>> /\ Escape # <<>> /\ <<NUL>> # <<>>
    /\ Len(Interpolation) = 2 /\ Len(Escape) = 3
    /\ \A t \in Plain : t \in Strings
<1>1. /\ Dollar \in Characters \ {NUL} /\ Brace \in Characters \ {NUL} /\ NUL \in Characters
      /\ NUL # Dollar /\ NUL # Brace /\ Evaluated \notin Characters
      /\ Percent \in Characters \ {NUL} /\ NUL # Percent /\ Directed \notin Characters
  BY EscaperAssumption
<1>2. Dollar # Brace /\ Percent # Brace /\ Percent # Dollar /\ Directed # Evaluated
  BY DEF Dollar, Percent, Brace, Directed, Evaluated
<1>3. \A t \in Plain : t \in Strings
  <2>1. Characters \ {NUL} \subseteq Characters
    OBVIOUS
  <2> QED
    BY <2>1, SeqMonotonic DEF Plain, Strings
<1>4. /\ Interpolation \in Plain /\ Escape \in Plain /\ <<>> \in Plain
      /\ Len(Interpolation) = 2 /\ Len(Escape) = 3
  BY <1>1 DEF Plain, Interpolation, Escape
<1>7. /\ Directive \in Plain /\ DirectiveEscape \in Plain
      /\ Len(Directive) = 2 /\ Len(DirectiveEscape) = 3
  BY <1>1 DEF Plain, Directive, DirectiveEscape
<1>8. Directive # <<>> /\ DirectiveEscape # <<>>
  BY <1>4, <1>7
<1>5. <<NUL>> \in Strings /\ <<Brace>> \in Strings /\ <<NUL>> # <<>>
  BY <1>1 DEF Strings
<1>6. Interpolation # <<>> /\ Escape # <<>>
  BY <1>4
<1> QED
  BY <1>1, <1>2, <1>3, <1>4, <1>5, <1>6, <1>7, <1>8

\* The marks character by character.
LEMMA PairCons ==
    ASSUME NEW a, NEW c
    PROVE  <<a, c>> = <<a>> \o <<c>>
<1> DEFINE C == {a, c}
           d == <<a>>
           b == <<c>>
           p == <<a, c>>
<1>1. /\ d \in Seq(C) /\ Len(d) = 1 /\ d[1] = a
      /\ b \in Seq(C) /\ Len(b) = 1 /\ b[1] = c
  OBVIOUS
<1>2. /\ p \in Seq(C) /\ Len(p) = 2
      /\ p[1] = a /\ p[2] = c
  OBVIOUS
<1> HIDE DEF d, b, p, C
<1>3. /\ d \o b \in Seq(C) /\ Len(d \o b) = 1 + 1
      /\ \A i \in 1..(1 + 1) : (d \o b)[i] = IF i <= 1 THEN d[i] ELSE b[i - 1]
  BY <1>1, ConcatProperties
<1>4. \A i \in 1..Len(p) : p[i] = (d \o b)[i]
  <2>1. (d \o b)[1] = a /\ (d \o b)[2] = c
    BY <1>1, <1>3
  <2>2. \A i \in 1..Len(p) : i = 1 \/ i = 2
    BY <1>2
  <2> QED
    BY <1>2, <2>1, <2>2
<1>5. p = d \o b
  BY <1>2, <1>3, <1>4, SeqEqual
<1> QED
  BY <1>5 DEF d, b, p

LEMMA InterpolationCons ==
    Interpolation = <<Dollar>> \o <<Brace>> /\ Directive = <<Percent>> \o <<Brace>>
BY PairCons DEF Interpolation, Directive

\* Two characters before a sequence.
LEMMA PairFirst ==
    ASSUME NEW S, NEW a \in S, NEW c \in S, NEW u \in Seq(S)
    PROVE  <<a, c>> \o u = <<a>> \o (<<c>> \o u)
<1> DEFINE d == <<a>>
           b == <<c>>
<1>1. d \in Seq(S) /\ b \in Seq(S)
  OBVIOUS
<1>2. <<a, c>> = d \o b
  BY PairCons
<1> HIDE DEF d, b
<1>3. (d \o b) \o u = d \o (b \o u)
  BY <1>1, ConcatAssociative
<1> QED
  BY <1>2, <1>3 DEF d, b

\* An escape is a dollar and an interpolation.
LEMMA EscapeCons ==
    Escape = <<Dollar>> \o Interpolation /\ DirectiveEscape = <<Percent>> \o Directive
<1>1. Escape = <<Dollar>> \o Interpolation
  BY DEF Interpolation, Escape
<1>2. DirectiveEscape = <<Percent>> \o Directive
  BY DEF Directive, DirectiveEscape
<1> QED
  BY <1>1, <1>2

\* A text behind a mark is a text.
LEMMA ConsTypes ==
    ASSUME NEW u \in Strings
    PROVE  /\ <<Brace>> \o u \in Strings /\ Interpolation \o u \in Strings
           /\ Escape \o u \in Strings /\ <<NUL>> \o u \in Strings
           /\ Directive \o u \in Strings
<1>1. /\ <<Brace>> \in Seq(Characters) /\ <<NUL>> \in Seq(Characters)
      /\ Interpolation \in Seq(Characters) /\ Escape \in Seq(Characters)
      /\ Directive \in Seq(Characters) /\ u \in Seq(Characters)
  BY Marks DEF Strings
<1> QED
  BY <1>1, ConcatProperties DEF Strings

\* A mark before a text, from its first character on.
LEMMA InterpolationFirst ==
    ASSUME NEW u \in Strings
    PROVE  /\ Interpolation \o u = <<Dollar>> \o (<<Brace>> \o u)
           /\ Directive \o u = <<Percent>> \o (<<Brace>> \o u)
<1>1. /\ Dollar \in Characters /\ Percent \in Characters /\ Brace \in Characters
      /\ u \in Seq(Characters)
  BY Marks DEF Strings
<1>2. Interpolation \o u = <<Dollar>> \o (<<Brace>> \o u)
  BY <1>1, PairFirst DEF Interpolation
<1>3. Directive \o u = <<Percent>> \o (<<Brace>> \o u)
  BY <1>1, PairFirst DEF Directive
<1> QED
  BY <1>2, <1>3

\* The same of an escape.
LEMMA EscapeFirst ==
    ASSUME NEW u \in Strings
    PROVE  /\ Escape \o u = <<Dollar>> \o (Interpolation \o u)
           /\ DirectiveEscape \o u = <<Percent>> \o (Directive \o u)
<1>1. /\ <<Dollar>> \in Seq(Characters) /\ Interpolation \in Seq(Characters)
      /\ <<Percent>> \in Seq(Characters) /\ Directive \in Seq(Characters)
      /\ u \in Seq(Characters)
  BY Marks DEF Strings
<1>2. (<<Dollar>> \o Interpolation) \o u = <<Dollar>> \o (Interpolation \o u)
  BY <1>1, ConcatAssociative
<1>3. (<<Percent>> \o Directive) \o u = <<Percent>> \o (Directive \o u)
  BY <1>1, ConcatAssociative
<1> QED
  BY <1>2, <1>3, EscapeCons

\* Which texts begin with a mark.
LEMMA Begins ==
    ASSUME NEW c \in Characters, NEW u \in Strings
    PROVE  /\ IsPrefix(<<NUL>>, <<c>> \o u) <=> c = NUL
           /\ IsPrefix(<<Brace>>, <<c>> \o u) <=> c = Brace
           /\ IsPrefix(Interpolation, <<c>> \o u) <=> c = Dollar /\ IsPrefix(<<Brace>>, u)
           /\ IsPrefix(Escape, <<c>> \o u) <=> c = Dollar /\ IsPrefix(Interpolation, u)
           /\ IsPrefix(Directive, <<c>> \o u) <=> c = Percent /\ IsPrefix(<<Brace>>, u)
           /\ IsPrefix(DirectiveEscape, <<c>> \o u) <=> c = Percent /\ IsPrefix(Directive, u)
<1>0. u \in Seq(Characters) /\ <<>> \in Seq(Characters) /\ <<Brace>> \in Seq(Characters)
      /\ Interpolation \in Seq(Characters) /\ Directive \in Seq(Characters)
  BY Marks DEF Strings
<1>1. \A k \in Characters, s \in Seq(Characters) :
          IsPrefix(<<k>> \o s, <<c>> \o u) <=> k = c /\ IsPrefix(s, u)
  BY <1>0, PrefixOfCons
<1>2. IsPrefix(<<>>, u)
  <2> DEFINE e == <<>>
  <2>1. e \in Seq(Characters) /\ Len(e) = 0 /\ Len(u) \in Nat
    BY <1>0, LenProperties, EmptySeq
  <2> HIDE DEF e
  <2>2. Len(e) <= Len(u) /\ \A i \in 1..Len(e) : e[i] = u[i]
    BY <2>1
  <2>3. IsPrefix(e, u)
    BY <1>0, <2>1, <2>2, PrefixPoints
  <2> QED
    BY <2>3 DEF e
<1>3. ASSUME NEW k \in Characters
      PROVE  <<k>> \o <<>> = <<k>>
  <2> DEFINE h == <<k>>
  <2>1. h \in Seq(Characters)
    OBVIOUS
  <2> HIDE DEF h
  <2>2. h \o <<>> = h
    BY <2>1, ConcatEmptySeq
  <2> QED
    BY <2>2 DEF h
<1>6. \A k \in Characters : IsPrefix(<<k>>, <<c>> \o u) <=> k = c
  BY <1>0, <1>1, <1>2, <1>3
<1>7. IsPrefix(Interpolation, <<c>> \o u) <=> c = Dollar /\ IsPrefix(<<Brace>>, u)
  BY <1>0, <1>1, InterpolationCons, Marks
<1>8. IsPrefix(Escape, <<c>> \o u) <=> c = Dollar /\ IsPrefix(Interpolation, u)
  BY <1>0, <1>1, EscapeCons, Marks
<1>9. IsPrefix(Directive, <<c>> \o u) <=> c = Percent /\ IsPrefix(<<Brace>>, u)
  BY <1>0, <1>1, InterpolationCons, Marks
<1>10. IsPrefix(DirectiveEscape, <<c>> \o u) <=> c = Percent /\ IsPrefix(Directive, u)
  BY <1>0, <1>1, EscapeCons, Marks
<1> QED
  BY <1>6, <1>7, <1>8, <1>9, <1>10, Marks

\* None begins the empty text.
LEMMA NothingBegins ==
    /\ ~IsPrefix(<<Brace>>, <<>>)
    /\ ~IsPrefix(Interpolation, <<>>) /\ ~IsPrefix(Escape, <<>>)
    /\ ~IsPrefix(Directive, <<>>) /\ ~IsPrefix(DirectiveEscape, <<>>)
<1> DEFINE e == <<>>
           b == <<Brace>>
<1>1. e \in Seq(Characters) /\ Len(e) = 0
  OBVIOUS
<1>2. b \in Seq(Characters) /\ Len(b) = 1
  BY Marks
<1> HIDE DEF e, b
<1>3. ASSUME NEW s \in Seq(Characters), ~(Len(s) <= 0)
      PROVE  ~IsPrefix(s, e)
  <2>1. ~(Len(s) <= Len(e))
    BY <1>1, <1>3
  <2> QED
    BY ONLY <1>1, <2>1, s \in Seq(Characters), PrefixPoints
<1>4. ~IsPrefix(b, e)
  BY <1>2, <1>3
<1>5. /\ Interpolation \in Seq(Characters) /\ Escape \in Seq(Characters)
      /\ Directive \in Seq(Characters) /\ DirectiveEscape \in Seq(Characters)
  BY Marks DEF Strings
<1>6. /\ ~(Len(Interpolation) <= 0) /\ ~(Len(Escape) <= 0)
      /\ ~(Len(Directive) <= 0) /\ ~(Len(DirectiveEscape) <= 0)
  BY Marks
<1>7. /\ ~IsPrefix(Interpolation, e) /\ ~IsPrefix(Escape, e)
      /\ ~IsPrefix(Directive, e) /\ ~IsPrefix(DirectiveEscape, e)
  BY <1>3, <1>5, <1>6
<1> QED
  BY <1>4, <1>7 DEF e, b

\* No two of them begin the same text.
LEMMA MarksDiffer ==
    ASSUME NEW t \in Strings
    PROVE  /\ ~(IsPrefix(Escape, t) /\ IsPrefix(Interpolation, t))
           /\ ~(IsPrefix(DirectiveEscape, t) /\ IsPrefix(Directive, t))
           /\ IsPrefix(Escape, t) \/ IsPrefix(Interpolation, t)
                 => ~IsPrefix(DirectiveEscape, t) /\ ~IsPrefix(Directive, t)
<1>1. CASE t = <<>>
  BY <1>1, NothingBegins
<1>2. CASE t # <<>>
  <2>1. Head(t) \in Characters /\ \E u \in Strings : t = <<Head(t)>> \o u
    BY <1>2, HeadSplits DEF Strings
  <2>2. PICK c \in Characters, u \in Strings : t = <<c>> \o u
    BY <2>1
  <2>3. ASSUME IsPrefix(Interpolation, u) \/ IsPrefix(Directive, u), IsPrefix(<<Brace>>, u)
        PROVE  FALSE
    <3>1. u # <<>>
      BY <2>3, NothingBegins
    <3>2. Head(u) \in Characters /\ \E v \in Strings : u = <<Head(u)>> \o v
      BY <3>1, HeadSplits DEF Strings
    <3>3. PICK d \in Characters, v \in Strings : u = <<d>> \o v
      BY <3>2
    <3>4. (d = Dollar \/ d = Percent) /\ d = Brace
      BY <2>3, <3>3, Begins
    <3> QED
      BY <3>4, Marks
  <2> QED
    BY <2>2, <2>3, Begins, Marks
<1> QED
  BY <1>1, <1>2

\* A text in which no character stands for an escape begins with a mark or with
\* a character that begins none.
LEMMA TextCases ==
    ASSUME NEW t \in Plain, t # <<>>
    PROVE  \E u \in Plain :
              /\ Len(u) < Len(t)
              /\ \/ t = Escape \o u
                 \/ t = Interpolation \o u
                 \/ \E c \in Characters \ {NUL} :
                       /\ t = <<c>> \o u
                       /\ ~IsPrefix(Escape, t) /\ ~IsPrefix(Interpolation, t)
<1> DEFINE C == Characters \ {NUL}
<1>0. t \in Seq(C) /\ Escape \in Seq(C) /\ Interpolation \in Seq(C) /\ Len(t) \in Nat
  BY Marks, LenProperties DEF Plain
<1>1. ASSUME NEW s \in Seq(C), IsPrefix(s, t), Len(s) \in Nat, Len(s) > 0
      PROVE  \E u \in Plain : Len(u) < Len(t) /\ t = s \o u
  <2> DEFINE v == SubSeq(t, Len(s) + 1, Len(t))
  <2>1. v \in Seq(C) /\ Len(v) = Len(t) - Len(s) /\ t = s \o v
    BY <1>0, <1>1, PrefixSplits
  <2> HIDE DEF v
  <2>2. v \in Plain /\ Len(v) < Len(t)
    BY <1>0, <1>1, <2>1 DEF Plain
  <2> QED
    BY <2>1, <2>2
<1>2. CASE IsPrefix(Escape, t)
  <2>1. Len(Escape) \in Nat /\ Len(Escape) > 0
    BY Marks
  <2>2. \E u \in Plain : Len(u) < Len(t) /\ t = Escape \o u
    BY <1>0, <1>1, <1>2, <2>1
  <2> QED
    BY <2>2
<1>3. CASE IsPrefix(Interpolation, t)
  <2>1. Len(Interpolation) \in Nat /\ Len(Interpolation) > 0
    BY Marks
  <2>2. \E u \in Plain : Len(u) < Len(t) /\ t = Interpolation \o u
    BY <1>0, <1>1, <1>3, <2>1
  <2> QED
    BY <2>2
<1>4. CASE ~IsPrefix(Escape, t) /\ ~IsPrefix(Interpolation, t)
  <2>1. PICK u \in Seq(C) : t = <<Head(t)>> \o u
    BY <1>0, HeadSplits
  <2>2. Head(t) \in C /\ <<Head(t)>> \in Seq(C) /\ Len(<<Head(t)>>) = 1
    BY <1>0, HeadSplits
  <2>3. Len(t) = 1 + Len(u) /\ Len(u) \in Nat
    BY <2>1, <2>2, ConcatProperties, LenProperties
  <2> QED
    BY <1>4, <2>1, <2>2, <2>3 DEF Plain
<1> QED
  BY <1>2, <1>3, <1>4

-----------------------------------------------------------------------------
(***************************************************************************)
(* The conversion of one text                                              *)
(***************************************************************************)

\* The replacement of one text by another, as Rewrites describes it.
LEMMA Replacing ==
    ASSUME NEW old \in Strings, old # <<>>, NEW new
    PROVE  /\ Replaced(<<>>, old, new) = <<>>
           /\ \A u \in Strings : Replaced(old \o u, old, new) = new \o Replaced(u, old, new)
           /\ \A c \in Characters, u \in Strings :
                 ~IsPrefix(old, <<c>> \o u) =>
                 Replaced(<<c>> \o u, old, new) = <<c>> \o Replaced(u, old, new)
<1> DEFINE rule == [old |-> old, new |-> new]
           R == Rewriting({rule})
<1>1. Unambiguous({rule})
  BY DEF Unambiguous
<1>2. rule.old = old /\ rule.new = new
  OBVIOUS
<1>3. \A u \in Strings : R[rule.old \o u] = rule.new \o R[u]
  BY <1>1, Rewrites
<1>4. ASSUME NEW c \in Characters, NEW u \in Strings, ~IsPrefix(old, <<c>> \o u)
      PROVE  R[<<c>> \o u] = <<c>> \o R[u]
  <2>1. \A r \in {rule} : ~IsPrefix(r.old, <<c>> \o u)
    BY <1>2, <1>4
  <2> HIDE DEF rule
  <2> QED
    BY <1>1, <2>1, Rewrites
<1>5. R[<<>>] = <<>>
  BY <1>1, Rewrites
<1>6. \A s : Replaced(s, old, new) = R[s]
  BY DEF Replaced
<1> HIDE DEF R, rule
<1>7. \A u \in Strings : Replaced(old \o u, old, new) = new \o Replaced(u, old, new)
  BY <1>2, <1>3, <1>6
<1>8. \A c \in Characters, u \in Strings :
         ~IsPrefix(old, <<c>> \o u) =>
         Replaced(<<c>> \o u, old, new) = <<c>> \o Replaced(u, old, new)
  BY <1>4, <1>6
<1>9. Replaced(<<>>, old, new) = <<>>
  BY <1>5, <1>6
<1> QED
  BY <1>7, <1>8, <1>9

\* A text after a replacement is one of the same characters.
LEMMA ReplacedType ==
    ASSUME NEW old \in Strings, old # <<>>, NEW new \in Strings, NEW s \in Strings
    PROVE  Replaced(s, old, new) \in Strings
<1> DEFINE rule == [old |-> old, new |-> new]
<1>1. Unambiguous({rule}) /\ \A r \in {rule} : r.new \in Seq(Characters)
  BY DEF Unambiguous, Strings
<1>2. Replaced(s, old, new) = Rewriting({rule})[s]
  BY DEF Replaced
<1> HIDE DEF rule
<1>3. Rewriting({rule})[s] \in Seq(Characters)
  BY <1>1, RewritingType
<1> QED
  BY <1>2, <1>3 DEF Strings

\* The three replacements of escapeHCLString.
Aside(s) == Replaced(s, Escape, <<NUL>>)
Escaped(s) == Replaced(s, Interpolation, Escape)
Back(s) == Replaced(s, <<NUL>>, Escape)

\* The conversion makes them in turn, and each makes a text.
LEMMA ThreeSteps ==
    /\ \A s : EscapeHCLString(s) = Back(Escaped(Aside(s)))
    /\ \A s \in Strings : Aside(s) \in Strings /\ Escaped(s) \in Strings /\ Back(s) \in Strings
<1>1. \A s : EscapeHCLString(s) = Back(Escaped(Aside(s)))
  BY DEF EscapeHCLString, Back, Escaped, Aside
<1>2. \A s \in Strings : Aside(s) \in Strings /\ Escaped(s) \in Strings /\ Back(s) \in Strings
  BY Marks, ReplacedType DEF Back, Escaped, Aside
<1> QED
  BY <1>1, <1>2

\* What each of them does with the beginning of a text.
LEMMA AsideOf ==
    /\ Aside(<<>>) = <<>>
    /\ \A u \in Strings : Aside(Escape \o u) = <<NUL>> \o Aside(u)
    /\ \A c \in Characters, u \in Strings :
          ~IsPrefix(Escape, <<c>> \o u) => Aside(<<c>> \o u) = <<c>> \o Aside(u)
BY Marks, Replacing DEF Aside

\* Interpolations become escapes.
LEMMA EscapedOf ==
    /\ Escaped(<<>>) = <<>>
    /\ \A u \in Strings : Escaped(Interpolation \o u) = Escape \o Escaped(u)
    /\ \A c \in Characters, u \in Strings :
          ~IsPrefix(Interpolation, <<c>> \o u) => Escaped(<<c>> \o u) = <<c>> \o Escaped(u)
BY Marks, Replacing DEF Escaped

\* What was put aside comes back.
LEMMA BackOf ==
    /\ Back(<<>>) = <<>>
    /\ \A u \in Strings : Back(<<NUL>> \o u) = Escape \o Back(u)
    /\ \A c \in Characters, u \in Strings : c # NUL => Back(<<c>> \o u) = <<c>> \o Back(u)
<1>1. /\ Back(<<>>) = <<>>
      /\ \A u \in Strings : Back(<<NUL>> \o u) = Escape \o Back(u)
  BY Marks, Replacing DEF Back
<1>2. \A c \in Characters, u \in Strings :
         ~IsPrefix(<<NUL>>, <<c>> \o u) => Back(<<c>> \o u) = <<c>> \o Back(u)
  BY Marks, Replacing DEF Back
<1>3. ASSUME NEW c \in Characters, NEW u \in Strings, c # NUL
      PROVE  ~IsPrefix(<<NUL>>, <<c>> \o u)
  BY <1>3, Begins
<1> QED
  BY <1>1, <1>2, <1>3

\* Putting escapes aside makes no brace begin a text.
LEMMA AsideBrace ==
    ASSUME NEW u \in Plain, IsPrefix(<<Brace>>, Aside(u))
    PROVE  IsPrefix(<<Brace>>, u)
<1>0. u \in Strings
  BY Marks
<1>1. CASE u = <<>>
  BY <1>1, AsideOf
<1>2. CASE u # <<>>
  <2>1. PICK v \in Plain :
            \/ u = Escape \o v
            \/ u = Interpolation \o v
            \/ \E c \in Characters \ {NUL} :
                  u = <<c>> \o v /\ ~IsPrefix(Escape, u) /\ ~IsPrefix(Interpolation, u)
    BY <1>2, TextCases
  <2>2. v \in Strings /\ Aside(v) \in Strings
    BY Marks, ThreeSteps
  <2>3. CASE u = Escape \o v
    <3>1. Aside(u) = <<NUL>> \o Aside(v)
      BY <2>2, <2>3, AsideOf
    <3>2. ~IsPrefix(<<Brace>>, <<NUL>> \o Aside(v))
      BY <2>2, Begins, Marks
    <3> QED
      BY <3>1, <3>2
  <2>4. ASSUME NEW c \in Characters, NEW w \in Strings,
               u = <<c>> \o w, ~IsPrefix(Escape, <<c>> \o w)
        PROVE  IsPrefix(<<Brace>>, u)
    <3>1. Aside(u) = <<c>> \o Aside(w) /\ Aside(w) \in Strings
      BY <2>4, AsideOf, ThreeSteps
    <3>2. IsPrefix(<<Brace>>, <<c>> \o Aside(w))
      BY <3>1
    <3>3. c = Brace
      BY <3>1, <3>2, Begins
    <3> QED
      BY <2>4, <3>3, Begins
  <2>5. CASE u = Interpolation \o v
    <3>1. u = <<Dollar>> \o (<<Brace>> \o v) /\ <<Brace>> \o v \in Strings
      BY <2>2, <2>5, InterpolationFirst, ConsTypes
    <3>2. ~IsPrefix(Escape, <<Dollar>> \o (<<Brace>> \o v))
      <4>1. ~IsPrefix(Interpolation, <<Brace>> \o v)
        BY <2>2, Begins, Marks
      <4> QED
        BY <3>1, <4>1, Begins, Marks
    <3> QED
      BY <2>4, <3>1, <3>2, Marks
  <2>6. CASE \E c \in Characters \ {NUL} :
                u = <<c>> \o v /\ ~IsPrefix(Escape, u) /\ ~IsPrefix(Interpolation, u)
    BY <2>2, <2>4, <2>6
  <2> QED
    BY <2>1, <2>3, <2>5, <2>6
<1> QED
  BY <1>1, <1>2

\* An escape stays one.
LEMMA EscapeOfEscape ==
    ASSUME NEW u \in Plain
    PROVE  EscapeHCLString(Escape \o u) = Escape \o EscapeHCLString(u)
<1>1. u \in Strings /\ Aside(u) \in Strings /\ Escaped(Aside(u)) \in Strings
  BY Marks, ThreeSteps
<1>2. Aside(Escape \o u) = <<NUL>> \o Aside(u)
  BY <1>1, AsideOf
<1>3. ~IsPrefix(Interpolation, <<NUL>> \o Aside(u))
  BY <1>1, Begins, Marks
<1>4. Escaped(<<NUL>> \o Aside(u)) = <<NUL>> \o Escaped(Aside(u))
  BY <1>1, <1>3, EscapedOf, Marks
<1>5. Back(<<NUL>> \o Escaped(Aside(u))) = Escape \o Back(Escaped(Aside(u)))
  BY <1>1, BackOf
<1> QED
  BY <1>2, <1>4, <1>5, ThreeSteps

\* An interpolation becomes an escape.
LEMMA EscapeOfInterpolation ==
    ASSUME NEW u \in Plain
    PROVE  EscapeHCLString(Interpolation \o u) = Escape \o EscapeHCLString(u)
<1> DEFINE a == Aside(u)
           e == Escaped(a)
<1>1. u \in Strings /\ a \in Strings /\ e \in Strings /\ Back(e) \in Strings
  BY Marks, ThreeSteps
<1>2. \A w \in Strings : <<Brace>> \o w \in Strings /\ Interpolation \o w \in Strings
  BY ConsTypes
<1>3. Aside(Interpolation \o u) = Interpolation \o a
  <2>1. ~IsPrefix(Interpolation, <<Brace>> \o u) /\ ~IsPrefix(Escape, <<Brace>> \o u)
    BY <1>1, Begins, Marks
  <2>2. ~IsPrefix(Escape, <<Dollar>> \o (<<Brace>> \o u))
    BY <1>1, <1>2, <2>1, Begins, Marks
  <2>3. Aside(<<Brace>> \o u) = <<Brace>> \o a
    BY <1>1, <2>1, AsideOf, Marks
  <2>4. Aside(<<Dollar>> \o (<<Brace>> \o u)) = <<Dollar>> \o Aside(<<Brace>> \o u)
    BY <1>1, <1>2, <2>2, AsideOf, Marks
  <2> QED
    BY <1>1, <2>3, <2>4, InterpolationFirst
<1> HIDE DEF a
<1>4. Escaped(Interpolation \o a) = Escape \o e
  BY <1>1, EscapedOf
<1> HIDE DEF e
<1>5. Back(Escape \o e) = Escape \o Back(e)
  <2>1. Back(<<Brace>> \o e) = <<Brace>> \o Back(e)
    BY <1>1, BackOf, Marks
  <2>2. Back(<<Dollar>> \o (<<Brace>> \o e)) = <<Dollar>> \o Back(<<Brace>> \o e)
    BY <1>1, <1>2, BackOf, Marks
  <2>3. Back(Interpolation \o e) = Interpolation \o Back(e)
    BY <1>1, <2>1, <2>2, InterpolationFirst
  <2>4. Back(<<Dollar>> \o (Interpolation \o e)) = <<Dollar>> \o Back(Interpolation \o e)
    BY <1>1, <1>2, BackOf, Marks
  <2> QED
    BY <1>1, <2>3, <2>4, EscapeFirst
<1>6. EscapeHCLString(Interpolation \o u) = Back(Escaped(Aside(Interpolation \o u)))
  BY ThreeSteps
<1>7. EscapeHCLString(u) = Back(e)
  BY ThreeSteps DEF e, a
<1> QED
  BY <1>3, <1>4, <1>5, <1>6, <1>7

\* A character that begins neither stays.
LEMMA EscapeOfOther ==
    ASSUME NEW u \in Plain, NEW c \in Characters \ {NUL},
           ~IsPrefix(Interpolation, <<c>> \o u), ~IsPrefix(Escape, <<c>> \o u)
    PROVE  EscapeHCLString(<<c>> \o u) = <<c>> \o EscapeHCLString(u)
<1>1. u \in Strings /\ Aside(u) \in Strings /\ Escaped(Aside(u)) \in Strings
  BY Marks, ThreeSteps
<1>2. Aside(<<c>> \o u) = <<c>> \o Aside(u)
  BY <1>1, AsideOf
<1>3. ~IsPrefix(Interpolation, <<c>> \o Aside(u))
  <2>1. c = Dollar => ~IsPrefix(<<Brace>>, u)
    BY <1>1, Begins
  <2>2. c = Dollar => ~IsPrefix(<<Brace>>, Aside(u))
    BY <2>1, AsideBrace
  <2> QED
    BY <1>1, <2>2, Begins
<1>4. Escaped(<<c>> \o Aside(u)) = <<c>> \o Escaped(Aside(u))
  BY <1>1, <1>3, EscapedOf
<1>5. Back(<<c>> \o Escaped(Aside(u))) = <<c>> \o Back(Escaped(Aside(u)))
  BY <1>1, BackOf
<1> QED
  BY <1>2, <1>4, <1>5, ThreeSteps

\* A directive stays, and so does the escape of one.
LEMMA EscapeOfDirective ==
    ASSUME NEW u \in Plain
    PROVE  /\ EscapeHCLString(Directive \o u) = Directive \o EscapeHCLString(u)
           /\ EscapeHCLString(DirectiveEscape \o u) = DirectiveEscape \o EscapeHCLString(u)
<1> DEFINE e == EscapeHCLString(u)
<1>1. /\ u \in Strings /\ e \in Strings
      /\ <<Brace>> \o u \in Plain /\ <<Brace>> \o u \in Strings
      /\ Directive \o u \in Plain /\ Directive \o u \in Strings
  <2>1. u \in Strings
    BY Marks
  <2>2. e \in Strings
    BY <2>1, ThreeSteps
  <2>3. <<Brace>> \in Plain /\ Directive \in Plain
    BY Marks DEF Plain
  <2>4. <<Brace>> \o u \in Plain /\ Directive \o u \in Plain
    BY <2>3, ConcatProperties DEF Plain
  <2> QED
    BY <2>1, <2>2, <2>4, Marks
<1>2. EscapeHCLString(<<Brace>> \o u) = <<Brace>> \o e
  <2>1. ~IsPrefix(Interpolation, <<Brace>> \o u) /\ ~IsPrefix(Escape, <<Brace>> \o u)
    BY <1>1, Begins, Marks
  <2> QED
    BY <2>1, EscapeOfOther, Marks
<1>3. \A w \in Plain : EscapeHCLString(<<Percent>> \o w) = <<Percent>> \o EscapeHCLString(w)
  <2>1. \A w \in Plain :
           ~IsPrefix(Interpolation, <<Percent>> \o w) /\ ~IsPrefix(Escape, <<Percent>> \o w)
    BY Begins, Marks
  <2> QED
    BY <2>1, EscapeOfOther, Marks
<1> HIDE DEF e
<1>4. EscapeHCLString(Directive \o u) = Directive \o e
  BY <1>1, <1>2, <1>3, InterpolationFirst
<1>5. EscapeHCLString(DirectiveEscape \o u) = DirectiveEscape \o e
  BY <1>1, <1>3, <1>4, EscapeFirst
<1> QED
  BY <1>4, <1>5 DEF e

\* Nothing is converted to nothing.
LEMMA EscapeOfNothing == EscapeHCLString(<<>>) = <<>>
BY AsideOf, EscapedOf, BackOf, ThreeSteps

-----------------------------------------------------------------------------
(***************************************************************************)
(* What Terraform reads of a converted text                                *)
(***************************************************************************)

\* No mark is at the left end of a text.
Unmarked(t) ==
    /\ ~IsPrefix(Escape, t) /\ ~IsPrefix(Interpolation, t)
    /\ ~IsPrefix(DirectiveEscape, t) /\ ~IsPrefix(Directive, t)

TemplateRules == {EscapeRule, InterpolationRule} \cup DirectiveRules
LiteralRules == {EscapeRule} \cup DirectiveRules

\* The rules of a template, and which of them apply.
LEMMA RulesOf ==
    /\ EscapeRule \in LiteralRules /\ LiteralRules \subseteq TemplateRules
    /\ EscapeRule.old = Escape /\ EscapeRule.new = Interpolation
    /\ \E r \in LiteralRules : r.old = DirectiveEscape /\ r.new = Directive
    /\ \E r \in LiteralRules : r.old = Directive /\ r.new = <<Directed>>
    /\ \A r \in TemplateRules : r.old \in {Escape, Interpolation, DirectiveEscape, Directive}
    /\ \A r \in LiteralRules : /\ r.old \in {Escape, DirectiveEscape, Directive}
                             /\ r.new \in {Interpolation, Directive, <<Directed>>}
    /\ Unambiguous(TemplateRules) /\ Unambiguous(LiteralRules)
<1> DEFINE kept == [old |-> DirectiveEscape, new |-> Directive]
           made == [old |-> Directive, new |-> <<Directed>>]
<1>1. /\ EscapeRule.old = Escape /\ EscapeRule.new = Interpolation
      /\ InterpolationRule.old = Interpolation
      /\ kept.old = DirectiveEscape /\ kept.new = Directive
      /\ made.old = Directive /\ made.new = <<Directed>>
  BY DEF EscapeRule, InterpolationRule
<1>2. /\ TemplateRules = {EscapeRule, InterpolationRule, kept, made}
      /\ LiteralRules = {EscapeRule, kept, made}
  BY DEF TemplateRules, LiteralRules, DirectiveRules
<1> HIDE DEF kept, made
<1>3. ASSUME NEW q \in TemplateRules, NEW o \in TemplateRules, NEW t \in Strings,
             IsPrefix(q.old, t), IsPrefix(o.old, t)
      PROVE  q = o
  BY <1>1, <1>2, <1>3, MarksDiffer
<1>4. \A r \in TemplateRules : r.old \in Strings /\ r.old # <<>>
  BY <1>1, <1>2, Marks
<1>5. Unambiguous(TemplateRules)
  BY <1>3, <1>4 DEF Unambiguous
<1>6. LiteralRules \subseteq TemplateRules
  BY <1>2
<1>7. Unambiguous(LiteralRules)
  BY <1>5, <1>6 DEF Unambiguous
<1>8. \A r \in TemplateRules : r.old \in {Escape, Interpolation, DirectiveEscape, Directive}
  BY <1>1, <1>2
<1>9. \A r \in LiteralRules : /\ r.old \in {Escape, DirectiveEscape, Directive}
                            /\ r.new \in {Interpolation, Directive, <<Directed>>}
  BY <1>1, <1>2
<1>10. /\ EscapeRule \in LiteralRules
       /\ \E r \in LiteralRules : r.old = DirectiveEscape /\ r.new = Directive
       /\ \E r \in LiteralRules : r.old = Directive /\ r.new = <<Directed>>
  BY <1>1, <1>2
<1> QED
  BY <1>1, <1>5, <1>6, <1>7, <1>8, <1>9, <1>10

\* How the texts are read that hold no interpolation.
LEMMA ReadOf ==
    /\ Read(<<>>) = <<>>
    /\ \A u \in Strings :
          /\ Read(Escape \o u) = Interpolation \o Read(u)
          /\ Read(DirectiveEscape \o u) = Directive \o Read(u)
          /\ Read(Directive \o u) = <<Directed>> \o Read(u)
    /\ \A c \in Characters, u \in Strings :
          Unmarked(<<c>> \o u) => Read(<<c>> \o u) = <<c>> \o Read(u)
<1> DEFINE R == Rewriting(TemplateRules)
<1>1. \A s : Read(s) = R[s]
  BY DEF Read, TemplateRules
<1>2. R[<<>>] = <<>>
  BY RulesOf, Rewrites
<1>3. \A r \in LiteralRules, u \in Strings : R[r.old \o u] = r.new \o R[u]
  BY RulesOf, Rewrites
<1>4. ASSUME NEW c \in Characters, NEW u \in Strings, Unmarked(<<c>> \o u)
      PROVE  R[<<c>> \o u] = <<c>> \o R[u]
  <2>1. \A r \in TemplateRules : ~IsPrefix(r.old, <<c>> \o u)
    BY <1>4, RulesOf DEF Unmarked
  <2> QED
    BY <2>1, RulesOf, Rewrites
<1> HIDE DEF R
<1>5. ASSUME NEW u \in Strings
      PROVE  /\ R[Escape \o u] = Interpolation \o R[u]
             /\ R[DirectiveEscape \o u] = Directive \o R[u]
             /\ R[Directive \o u] = <<Directed>> \o R[u]
  <2>1. R[Escape \o u] = Interpolation \o R[u]
    BY <1>3, RulesOf
  <2>2. R[DirectiveEscape \o u] = Directive \o R[u]
    BY <1>3, RulesOf
  <2>3. R[Directive \o u] = <<Directed>> \o R[u]
    BY <1>3, RulesOf
  <2> QED
    BY <2>1, <2>2, <2>3
<1>6. Read(<<>>) = <<>>
  BY <1>1, <1>2
<1>7. \A u \in Strings :
         /\ Read(Escape \o u) = Interpolation \o Read(u)
         /\ Read(DirectiveEscape \o u) = Directive \o Read(u)
         /\ Read(Directive \o u) = <<Directed>> \o Read(u)
  BY <1>1, <1>5
<1>8. \A c \in Characters, u \in Strings :
         Unmarked(<<c>> \o u) => Read(<<c>> \o u) = <<c>> \o Read(u)
  BY <1>1, <1>4
<1> QED
  BY <1>6, <1>7, <1>8

\* How a text is taken literally.
LEMMA LiterallyOf ==
    /\ Literally(<<>>) = <<>>
    /\ \A u \in Strings :
          /\ Literally(Escape \o u) = Interpolation \o Literally(u)
          /\ Literally(DirectiveEscape \o u) = Directive \o Literally(u)
          /\ Literally(Directive \o u) = <<Directed>> \o Literally(u)
    /\ \A c \in Characters, u \in Strings :
          /\ ~IsPrefix(Escape, <<c>> \o u)
          /\ ~IsPrefix(DirectiveEscape, <<c>> \o u) /\ ~IsPrefix(Directive, <<c>> \o u)
          => Literally(<<c>> \o u) = <<c>> \o Literally(u)
    /\ \A s \in Strings : Literally(s) \in Seq(Characters \cup {Directed})
<1> DEFINE R == Rewriting(LiteralRules)
           V == Characters \cup {Directed}
<1>1. \A s : Literally(s) = R[s]
  BY DEF Literally, LiteralRules
<1>2. R[<<>>] = <<>>
  BY RulesOf, Rewrites
<1>3. \A r \in LiteralRules, u \in Strings : R[r.old \o u] = r.new \o R[u]
  BY RulesOf, Rewrites
<1>4. ASSUME NEW c \in Characters, NEW u \in Strings, ~IsPrefix(Escape, <<c>> \o u),
             ~IsPrefix(DirectiveEscape, <<c>> \o u), ~IsPrefix(Directive, <<c>> \o u)
      PROVE  R[<<c>> \o u] = <<c>> \o R[u]
  <2>1. \A r \in LiteralRules : ~IsPrefix(r.old, <<c>> \o u)
    BY <1>4, RulesOf
  <2> QED
    BY <2>1, RulesOf, Rewrites
<1>5. \A s \in Strings : R[s] \in Seq(V)
  <2>1. /\ Interpolation \in Seq(V) /\ Directive \in Seq(V) /\ <<Directed>> \in Seq(V)
        /\ Characters \subseteq V
    BY Marks DEF Interpolation, Directive
  <2> HIDE DEF V
  <2>2. \A r \in LiteralRules : r.new \in Seq(V)
    BY <2>1, RulesOf
  <2> QED
    BY <2>1, <2>2, RulesOf, RewritingType
<1> HIDE DEF R
<1>6. \A u \in Strings : R[Escape \o u] = Interpolation \o R[u]
  BY <1>3, RulesOf
<1>7. \A u \in Strings : R[DirectiveEscape \o u] = Directive \o R[u]
  BY <1>3, RulesOf
<1>8. \A u \in Strings : R[Directive \o u] = <<Directed>> \o R[u]
  BY <1>3, RulesOf
<1>9. \A u \in Strings :
         /\ Literally(Escape \o u) = Interpolation \o Literally(u)
         /\ Literally(DirectiveEscape \o u) = Directive \o Literally(u)
         /\ Literally(Directive \o u) = <<Directed>> \o Literally(u)
  BY <1>1, <1>6, <1>7, <1>8
<1>10. Literally(<<>>) = <<>> /\ \A s \in Strings : Literally(s) \in Seq(V)
  BY <1>1, <1>2, <1>5
<1>11. \A c \in Characters, u \in Strings :
          /\ ~IsPrefix(Escape, <<c>> \o u)
          /\ ~IsPrefix(DirectiveEscape, <<c>> \o u) /\ ~IsPrefix(Directive, <<c>> \o u)
          => Literally(<<c>> \o u) = <<c>> \o Literally(u)
  BY <1>1, <1>4
<1> QED
  BY <1>9, <1>10, <1>11

\* An interpolation taken literally is its two characters.
LEMMA LiterallyInterpolation ==
    ASSUME NEW u \in Strings
    PROVE  Literally(Interpolation \o u) = Interpolation \o Literally(u)
<1> DEFINE V == Characters \cup {Directed}
<1>1. <<Brace>> \o u \in Strings
  BY ConsTypes
<1>2. /\ ~IsPrefix(Escape, <<Brace>> \o u) /\ ~IsPrefix(Interpolation, <<Brace>> \o u)
      /\ ~IsPrefix(DirectiveEscape, <<Brace>> \o u) /\ ~IsPrefix(Directive, <<Brace>> \o u)
  BY Begins, Marks
<1>3. /\ ~IsPrefix(Escape, <<Dollar>> \o (<<Brace>> \o u))
      /\ ~IsPrefix(DirectiveEscape, <<Dollar>> \o (<<Brace>> \o u))
      /\ ~IsPrefix(Directive, <<Dollar>> \o (<<Brace>> \o u))
  BY <1>1, <1>2, Begins, Marks
<1>4. Literally(<<Brace>> \o u) = <<Brace>> \o Literally(u)
  BY <1>2, LiterallyOf, Marks
<1>5. Literally(<<Dollar>> \o (<<Brace>> \o u)) = <<Dollar>> \o Literally(<<Brace>> \o u)
  BY <1>1, <1>3, LiterallyOf, Marks
<1>6. Literally(u) \in Seq(V) /\ Dollar \in V /\ Brace \in V
  BY LiterallyOf, Marks
<1> HIDE DEF V
<1>7. Interpolation \o Literally(u) = <<Dollar>> \o (<<Brace>> \o Literally(u))
  BY <1>6, PairFirst DEF Interpolation
<1> QED
  BY <1>4, <1>5, <1>7, InterpolationFirst

\* A converted text is one without a character that stands for an escape, no
\* interpolation begins it, and a brace or a directive only if one began the text.
Converted(t) ==
    /\ EscapeHCLString(t) \in Plain
    /\ ~IsPrefix(Interpolation, EscapeHCLString(t))
    /\ IsPrefix(<<Brace>>, EscapeHCLString(t)) => IsPrefix(<<Brace>>, t)
    /\ IsPrefix(Directive, EscapeHCLString(t)) => IsPrefix(Directive, t)

\* It says what the text says with the interpolations taken literally, and
\* converting it again changes nothing.
Conversion(t) ==
    /\ Read(EscapeHCLString(t)) = Literally(t)
    /\ EscapeHCLString(EscapeHCLString(t)) = EscapeHCLString(t)

\* Texts grow by an escape or a character at their left end.
LEMMA PlainCons ==
    /\ \A e \in Plain : Escape \o e \in Plain
    /\ \A c \in Characters \ {NUL}, e \in Plain : <<c>> \o e \in Plain
<1>1. Escape \in Seq(Characters \ {NUL})
  BY Marks DEF Plain
<1>2. \A e \in Plain : Escape \o e \in Plain
  BY <1>1, ConcatProperties DEF Plain
<1>3. ASSUME NEW c \in Characters \ {NUL}, NEW e \in Plain
      PROVE  <<c>> \o e \in Plain
  <2>1. <<c>> \in Seq(Characters \ {NUL})
    OBVIOUS
  <2> QED
    BY <2>1, ConcatProperties DEF Plain
<1> QED
  BY <1>2, <1>3

\* No mark begins an escape and what follows it but the escape.
LEMMA EscapeBegins ==
    ASSUME NEW e \in Strings
    PROVE  /\ ~IsPrefix(Interpolation, Escape \o e) /\ ~IsPrefix(<<Brace>>, Escape \o e)
           /\ ~IsPrefix(Directive, Escape \o e)
<1>1. Interpolation \o e \in Strings /\ <<Brace>> \o e \in Strings
  BY ConsTypes
<1>2. ~IsPrefix(<<Brace>>, <<Dollar>> \o (<<Brace>> \o e))
  BY <1>1, Begins, Marks
<1>3. ~IsPrefix(<<Brace>>, Interpolation \o e)
  BY <1>2, InterpolationFirst
<1>4. /\ ~IsPrefix(Interpolation, <<Dollar>> \o (Interpolation \o e))
      /\ ~IsPrefix(<<Brace>>, <<Dollar>> \o (Interpolation \o e))
      /\ ~IsPrefix(Directive, <<Dollar>> \o (Interpolation \o e))
  BY <1>1, <1>3, Begins, Marks
<1> QED
  BY <1>4, EscapeFirst

\* All texts are converted so, by induction on their lengths.
LEMMA ConvertedTexts == \A t \in Plain : Converted(t)
<1> DEFINE G == {t \in Plain : Converted(t)}
<1>1. ASSUME NEW t \in Seq(Characters \ {NUL}),
             \A u \in Seq(Characters \ {NUL}) : Len(u) < Len(t) => u \in G
      PROVE  t \in G
  <2>0. t \in Plain /\ \A u \in Plain : Len(u) < Len(t) => Converted(u)
    BY <1>1 DEF Plain
  <2>1. CASE t = <<>>
    <3>1. EscapeHCLString(t) = <<>>
      BY <2>1, EscapeOfNothing
    <3>2. /\ ~IsPrefix(Interpolation, <<>>) /\ ~IsPrefix(<<Brace>>, <<>>)
          /\ ~IsPrefix(Directive, <<>>) /\ <<>> \in Plain
      BY NothingBegins, Marks
    <3> QED
      BY <2>0, <3>1, <3>2 DEF Converted
  <2>2. ASSUME NEW u \in Plain, Len(u) < Len(t), t = Escape \o u \/ t = Interpolation \o u
        PROVE  Converted(t)
    <3>1. EscapeHCLString(t) = Escape \o EscapeHCLString(u)
      BY <2>2, EscapeOfEscape, EscapeOfInterpolation
    <3>2. EscapeHCLString(u) \in Plain /\ EscapeHCLString(u) \in Strings
      BY <2>0, <2>2, Marks DEF Converted
    <3> QED
      BY <3>1, <3>2, EscapeBegins, PlainCons DEF Converted
  <2>3. ASSUME NEW u \in Plain, Len(u) < Len(t), NEW c \in Characters \ {NUL}, t = <<c>> \o u,
               ~IsPrefix(Escape, t), ~IsPrefix(Interpolation, t)
        PROVE  Converted(t)
    <3> DEFINE e == EscapeHCLString(u)
    <3>1. EscapeHCLString(t) = <<c>> \o e
      BY <2>3, EscapeOfOther
    <3>2. e \in Plain /\ e \in Strings /\ u \in Strings
      BY <2>0, <2>3, Marks DEF Converted
    <3>3. IsPrefix(<<Brace>>, e) => IsPrefix(<<Brace>>, u)
      BY <2>0, <2>3 DEF Converted
    <3> HIDE DEF e
    <3>4. ~IsPrefix(Interpolation, <<c>> \o e)
      <4>1. c = Dollar => ~IsPrefix(<<Brace>>, u)
        BY <2>3, <3>2, Begins
      <4> QED
        BY <3>2, <3>3, <4>1, Begins
    <3>5. IsPrefix(<<Brace>>, <<c>> \o e) => IsPrefix(<<Brace>>, <<c>> \o u)
      BY <3>2, Begins
    <3>6. IsPrefix(Directive, <<c>> \o e) => IsPrefix(Directive, <<c>> \o u)
      BY <3>2, <3>3, Begins
    <3>7. <<c>> \o e \in Plain
      BY <3>2, PlainCons
    <3> QED
      BY <2>3, <3>1, <3>4, <3>5, <3>6, <3>7 DEF Converted
  <2>4. CASE t # <<>>
    <3>1. Converted(t)
      BY <2>0, <2>2, <2>3, <2>4, TextCases
    <3> QED
      BY <2>0, <3>1
  <2> QED
    BY <2>1, <2>4
<1> HIDE DEF G
<1>2. \A t \in Seq(Characters \ {NUL}) : t \in G
  BY <1>1, TextSets
<1> QED
  BY <1>2 DEF G, Plain

\* A character that begins no mark begins none before the converted rest.
LEMMA OtherBegins ==
    ASSUME NEW u \in Plain, NEW c \in Characters \ {NUL}, Unmarked(<<c>> \o u)
    PROVE  Unmarked(<<c>> \o EscapeHCLString(u))
<1>1. Converted(u) /\ u \in Strings
  BY ConvertedTexts, Marks
<1>2. EscapeHCLString(u) \in Strings
  BY <1>1, Marks DEF Converted
<1>3. /\ c = Dollar => ~IsPrefix(<<Brace>>, u)
      /\ c = Percent => ~IsPrefix(<<Brace>>, u) /\ ~IsPrefix(Directive, u)
  BY <1>1, Begins DEF Unmarked
<1>4. /\ c = Dollar => ~IsPrefix(<<Brace>>, EscapeHCLString(u))
      /\ ~IsPrefix(Interpolation, EscapeHCLString(u))
      /\ c = Percent => /\ ~IsPrefix(<<Brace>>, EscapeHCLString(u))
                        /\ ~IsPrefix(Directive, EscapeHCLString(u))
  BY <1>1, <1>3 DEF Converted
<1> QED
  BY <1>2, <1>4, Begins DEF Unmarked

\* A text that begins with neither an escape nor an interpolation begins with
\* a directive or the escape of one, or with a character that begins no mark.
LEMMA OtherCases ==
    ASSUME NEW t \in Plain, t # <<>>, ~IsPrefix(Escape, t), ~IsPrefix(Interpolation, t)
    PROVE  \E u \in Plain :
              /\ Len(u) < Len(t)
              /\ \/ t = DirectiveEscape \o u
                 \/ t = Directive \o u
                 \/ \E c \in Characters \ {NUL} : t = <<c>> \o u /\ Unmarked(t)
<1> DEFINE C == Characters \ {NUL}
<1>0. /\ t \in Seq(C) /\ DirectiveEscape \in Seq(C) /\ Directive \in Seq(C)
      /\ Len(t) \in Nat /\ Len(DirectiveEscape) = 3 /\ Len(Directive) = 2
  BY Marks, LenProperties DEF Plain
<1>1. ASSUME NEW s \in Seq(C), IsPrefix(s, t), Len(s) \in Nat, Len(s) > 0
      PROVE  \E u \in Plain : Len(u) < Len(t) /\ t = s \o u
  <2> DEFINE v == SubSeq(t, Len(s) + 1, Len(t))
  <2>1. v \in Seq(C) /\ Len(v) = Len(t) - Len(s) /\ t = s \o v
    BY <1>0, <1>1, PrefixSplits
  <2> HIDE DEF v
  <2>2. v \in Plain /\ Len(v) < Len(t)
    BY <1>0, <1>1, <2>1 DEF Plain
  <2> QED
    BY <2>1, <2>2
<1>2. CASE IsPrefix(DirectiveEscape, t)
  <2>1. Len(DirectiveEscape) \in Nat /\ Len(DirectiveEscape) > 0
    BY <1>0
  <2>2. \E u \in Plain : Len(u) < Len(t) /\ t = DirectiveEscape \o u
    BY <1>0, <1>1, <1>2, <2>1
  <2> QED
    BY <2>2
<1>3. CASE IsPrefix(Directive, t)
  <2>1. Len(Directive) \in Nat /\ Len(Directive) > 0
    BY <1>0
  <2>2. \E u \in Plain : Len(u) < Len(t) /\ t = Directive \o u
    BY <1>0, <1>1, <1>3, <2>1
  <2> QED
    BY <2>2
<1>4. CASE ~IsPrefix(DirectiveEscape, t) /\ ~IsPrefix(Directive, t)
  <2>1. PICK u \in Plain :
            /\ Len(u) < Len(t)
            /\ \/ t = Escape \o u
               \/ t = Interpolation \o u
               \/ \E c \in Characters \ {NUL} : t = <<c>> \o u
    BY TextCases
  <2>2. u \in Strings
    BY Marks
  <2>3. t # Escape \o u /\ t # Interpolation \o u
    <3>1. IsPrefix(Escape, Escape \o u) /\ IsPrefix(Interpolation, Interpolation \o u)
      BY <2>2, Marks, ConcatSplits DEF Strings
    <3> QED
      BY <3>1
  <2>4. Unmarked(t)
    BY <1>4 DEF Unmarked
  <2> QED
    BY <2>1, <2>3, <2>4
<1> QED
  BY <1>2, <1>3, <1>4

\* All texts keep their meaning, by induction on their lengths.
LEMMA Conversions == \A t \in Plain : Conversion(t)
<1> DEFINE G == {t \in Plain : Conversion(t)}
           E(t) == EscapeHCLString(t)
<1>0. \A u \in Plain : u \in Strings /\ E(u) \in Plain /\ E(u) \in Strings
  BY ConvertedTexts, Marks DEF Converted
<1> HIDE DEF E
<1>1. ASSUME NEW t \in Seq(Characters \ {NUL}),
             \A u \in Seq(Characters \ {NUL}) : Len(u) < Len(t) => u \in G
      PROVE  t \in G
  <2>0. t \in Plain /\ \A u \in Plain : Len(u) < Len(t) => Conversion(u)
    BY <1>1 DEF Plain
  <2>1. CASE t = <<>>
    <3>1. E(t) = t /\ Read(t) = Literally(t)
      BY <2>1, EscapeOfNothing, ReadOf, LiterallyOf DEF E
    <3> QED
      BY <2>0, <3>1 DEF Conversion, E
  <2>2. ASSUME NEW u \in Plain, Len(u) < Len(t), t = Escape \o u \/ t = Interpolation \o u
        PROVE  Conversion(t)
    <3>0. Read(E(u)) = Literally(u) /\ E(E(u)) = E(u)
      BY <2>0, <2>2 DEF Conversion, E
    <3>1. E(t) = Escape \o E(u)
      BY <2>2, EscapeOfEscape, EscapeOfInterpolation DEF E
    <3>2. Literally(t) = Interpolation \o Literally(u)
      BY <1>0, <2>2, LiterallyOf, LiterallyInterpolation
    <3>3. Read(Escape \o E(u)) = Interpolation \o Read(E(u))
      BY <1>0, ReadOf
    <3>4. E(Escape \o E(u)) = Escape \o E(E(u))
      BY <1>0, EscapeOfEscape DEF E
    <3>5. Read(E(t)) = Literally(t)
      BY <3>0, <3>1, <3>2, <3>3
    <3>6. E(E(t)) = E(t)
      BY <3>0, <3>1, <3>4
    <3> QED
      BY <3>5, <3>6 DEF Conversion, E
  <2>3. ASSUME NEW u \in Plain, Len(u) < Len(t), NEW c \in Characters \ {NUL}, t = <<c>> \o u,
               Unmarked(t)
        PROVE  Conversion(t)
    <3>0. Read(E(u)) = Literally(u) /\ E(E(u)) = E(u)
      BY <2>0, <2>3 DEF Conversion, E
    <3>1. E(t) = <<c>> \o E(u)
      BY <2>3, EscapeOfOther DEF E, Unmarked
    <3>2. Literally(t) = <<c>> \o Literally(u)
      BY <1>0, <2>3, LiterallyOf DEF Unmarked
    <3>3. Unmarked(<<c>> \o E(u))
      BY <2>3, OtherBegins DEF E
    <3>4. Read(<<c>> \o E(u)) = <<c>> \o Read(E(u))
      BY <1>0, <3>3, ReadOf
    <3>5. E(<<c>> \o E(u)) = <<c>> \o E(E(u))
      BY <1>0, <3>3, EscapeOfOther DEF E, Unmarked
    <3>6. Read(E(t)) = Literally(t)
      BY <3>0, <3>1, <3>2, <3>4
    <3>7. E(E(t)) = E(t)
      BY <3>0, <3>1, <3>5
    <3> QED
      BY <3>6, <3>7 DEF Conversion, E
  <2>4. ASSUME NEW u \in Plain, Len(u) < Len(t), t = Directive \o u
        PROVE  Conversion(t)
    <3>0. Read(E(u)) = Literally(u) /\ E(E(u)) = E(u)
      BY <2>0, <2>4 DEF Conversion, E
    <3>1. E(t) = Directive \o E(u) /\ E(Directive \o E(u)) = Directive \o E(E(u))
      BY <1>0, <2>4, EscapeOfDirective DEF E
    <3>2. Literally(t) = <<Directed>> \o Literally(u)
      BY <1>0, <2>4, LiterallyOf
    <3>3. Read(Directive \o E(u)) = <<Directed>> \o Read(E(u))
      BY <1>0, ReadOf
    <3>4. Read(E(t)) = Literally(t)
      BY <3>0, <3>1, <3>2, <3>3
    <3>5. E(E(t)) = E(t)
      BY <3>0, <3>1
    <3> QED
      BY <3>4, <3>5 DEF Conversion, E
  <2>5. ASSUME NEW u \in Plain, Len(u) < Len(t), t = DirectiveEscape \o u
        PROVE  Conversion(t)
    <3>0. Read(E(u)) = Literally(u) /\ E(E(u)) = E(u)
      BY <2>0, <2>5 DEF Conversion, E
    <3>1. /\ E(t) = DirectiveEscape \o E(u)
          /\ E(DirectiveEscape \o E(u)) = DirectiveEscape \o E(E(u))
      BY <1>0, <2>5, EscapeOfDirective DEF E
    <3>2. Literally(t) = Directive \o Literally(u)
      BY <1>0, <2>5, LiterallyOf
    <3>3. Read(DirectiveEscape \o E(u)) = Directive \o Read(E(u))
      BY <1>0, ReadOf
    <3>4. Read(E(t)) = Literally(t)
      BY <3>0, <3>1, <3>2, <3>3
    <3>5. E(E(t)) = E(t)
      BY <3>0, <3>1
    <3> QED
      BY <3>4, <3>5 DEF Conversion, E
  <2>6. CASE t # <<>>
    <3>1. CASE IsPrefix(Escape, t) \/ IsPrefix(Interpolation, t)
      <4>1. PICK u \in Plain :
               /\ Len(u) < Len(t)
               /\ \/ t = Escape \o u
                  \/ t = Interpolation \o u
                  \/ \E c \in Characters \ {NUL} :
                        /\ t = <<c>> \o u
                        /\ ~IsPrefix(Escape, t) /\ ~IsPrefix(Interpolation, t)
        BY <2>0, <2>6, TextCases
      <4>2. t = Escape \o u \/ t = Interpolation \o u
        BY <3>1, <4>1
      <4>3. Conversion(t)
        BY <2>2, <4>1, <4>2
      <4> QED
        BY <2>0, <4>3
    <3>2. CASE ~IsPrefix(Escape, t) /\ ~IsPrefix(Interpolation, t)
      <4>1. Conversion(t)
        BY <2>0, <2>3, <2>4, <2>5, <2>6, <3>2, OtherCases
      <4> QED
        BY <2>0, <4>1
    <3> QED
      BY <2>0, <3>1, <3>2
  <2> QED
    BY <2>1, <2>6
<1> HIDE DEF G
<1>2. \A t \in Seq(Characters \ {NUL}) : t \in G
  BY <1>1, TextSets
<1> QED
  BY <1>2 DEF G, Plain

\* Terraform evaluates no interpolation of a converted text.
LEMMA ConvertedNotEvaluated ==
    ASSUME NEW t \in Plain
    PROVE  Evaluated \notin ToSet(Read(EscapeHCLString(t)))
<1>1. Read(EscapeHCLString(t)) \in Seq(Characters \cup {Directed})
  BY Conversions, LiterallyOf, Marks DEF Conversion
<1> DEFINE r == Read(EscapeHCLString(t))
<1> HIDE DEF r
<1>2. \A i \in 1..Len(r) : r[i] \in Characters \cup {Directed}
  BY <1>1, ElementOfSeq DEF r
<1>3. DOMAIN r = 1..Len(r)
  BY <1>1, LenProperties DEF r
<1>4. Evaluated \notin ToSet(r)
  BY <1>2, <1>3, Marks DEF ToSet
<1> QED
  BY <1>4 DEF r

-----------------------------------------------------------------------------
(***************************************************************************)
(* Parameters                                                              *)
(***************************************************************************)

\* What a container holds.
LEMMA NodeItems ==
    ASSUME NEW T, NEW v \in Nodes(T)
    PROVE  /\ v.kind \in Containers /\ v.kind # "text"
           /\ v = [kind |-> v.kind, items |-> v.items]
           /\ v.items = [f \in DOMAIN v.items |-> v.items[f]]
           /\ \A f \in DOMAIN v.items : v.items[f] \in T
<1>1. CASE v \in [kind : {"list"}, items : Seq(T)]
  <2>1. v.kind = "list" /\ v.items \in Seq(T) /\ v = [kind |-> v.kind, items |-> v.items]
    BY <1>1
  <2>2. v.items \in [1..Len(v.items) -> T]
    BY <2>1, LenProperties
  <2> QED
    BY <2>1, <2>2 DEF Containers
<1>2. CASE v \in [kind : {"map"}, items : [Fields -> T]]
  <2>1. v.kind = "map" /\ v.items \in [Fields -> T] /\ v = [kind |-> v.kind, items |-> v.items]
    BY <1>2
  <2> QED
    BY <2>1 DEF Containers
<1> QED
  BY <1>1, <1>2 DEF Nodes

\* A container with other items at the same places.
LEMMA NodeBuilt ==
    ASSUME NEW T, NEW v \in Nodes(T), NEW U, NEW w \in [DOMAIN v.items -> U]
    PROVE  [kind |-> v.kind, items |-> w] \in Nodes(U)
<1>1. CASE v \in [kind : {"list"}, items : Seq(T)]
  <2>1. v.kind = "list" /\ v.items \in Seq(T)
    BY <1>1
  <2>2. DOMAIN v.items = 1..Len(v.items) /\ Len(v.items) \in Nat
    BY <2>1, LenProperties
  <2>3. w \in Seq(U)
    BY <2>2, SeqDef
  <2> QED
    BY <2>1, <2>3 DEF Nodes
<1>2. CASE v \in [kind : {"map"}, items : [Fields -> T]]
  <2>1. v.kind = "map" /\ DOMAIN v.items = Fields
    BY <1>2
  <2> QED
    BY <2>1 DEF Nodes
<1> QED
  BY <1>1, <1>2 DEF Nodes

\* A leaf is a text or Other.
LEMMA LeafCases ==
    ASSUME NEW texts, NEW v \in Leaves(texts)
    PROVE  \/ v.kind = "text" /\ v.text \in texts /\ v = Text(v.text)
           \/ v = Other /\ v.kind = "other"
BY DEF Leaves, Other, Text

\* The values of a depth are what the recursion describes.
LEMMA TreesIs ==
    ASSUME NEW texts
    PROVE  \A d \in 0..Depth :
              Trees(texts)[d] =
                Leaves(texts) \cup (IF d = 0 THEN {} ELSE Nodes(Trees(texts)[d - 1]))
<1> DEFINE Body(h, d) == Leaves(texts) \cup (IF d = 0 THEN {} ELSE Nodes(h[d - 1]))
           Approx(n, h) == h = [d \in 0..n |-> Body(h, d)]
           Exists == {n \in Nat : \E h : Approx(n, h)}
<1>1. ASSUME NEW n \in Nat, \A m \in Nat : m < n => m \in Exists
      PROVE  n \in Exists
  <2>1. CASE n = 0
    <3> DEFINE g == [d \in 0..0 |-> Leaves(texts) \cup {}]
    <3>1. Approx(0, g)
      OBVIOUS
    <3> QED
      BY <2>1, <3>1
  <2>2. CASE n # 0
    <3>1. n - 1 \in Nat /\ n - 1 < n
      BY <2>2
    <3>2. PICK h : Approx(n - 1, h)
      BY <1>1, <3>1
    <3> DEFINE g == [d \in 0..n |-> Body(h, d)]
    <3>3. \A d \in 0..(n - 1) : d \in 0..n /\ g[d] = h[d]
      <4>1. \A d \in 0..(n - 1) : h[d] = Body(h, d)
        BY <3>2
      <4>2. \A d \in 0..(n - 1) : d \in 0..n
        BY <3>1
      <4> QED
        BY <4>1, <4>2
    <3>4. \A d \in 0..n : Body(h, d) = Body(g, d)
      <4>1. \A d \in 0..n : d # 0 => h[d - 1] = g[d - 1]
        <5>1. \A d \in 0..n : d # 0 => d - 1 \in 0..(n - 1)
          BY <3>1
        <5> HIDE DEF g
        <5> QED
          BY <3>3, <5>1
      <4> HIDE DEF g
      <4> QED
        BY <4>1
    <3>5. Approx(n, g)
      BY <3>4
    <3> QED
      BY <3>5
  <2> QED
    BY <2>1, <2>2
<1>2. Depth \in Exists
  <2> HIDE DEF Exists
  <2> QED
    BY <1>1, NatSets, EscaperAssumption
<1>3. \E h : Approx(Depth, h)
  BY <1>2
<1>4. Trees(texts) = CHOOSE h : Approx(Depth, h)
  BY DEF Trees
<1> HIDE DEF Approx
<1>5. Approx(Depth, Trees(texts))
  BY <1>3, <1>4
<1> DEFINE F == Trees(texts)
<1>6. F = [d \in 0..Depth |-> Body(F, d)]
  BY <1>5 DEF Approx
<1> HIDE DEF F
<1>7. \A d \in 0..Depth : F[d] = Body(F, d)
  BY <1>6
<1> QED
  BY <1>7 DEF F

\* A value is a leaf, or a container of values one less deep.
LEMMA TreeCases ==
    ASSUME NEW texts, NEW d \in 0..Depth
    PROVE  /\ Leaves(texts) \subseteq Trees(texts)[d]
           /\ d # 0 => /\ d - 1 \in 0..Depth
                       /\ Nodes(Trees(texts)[d - 1]) \subseteq Trees(texts)[d]
           /\ \A v \in Trees(texts)[d] :
                 \/ v \in Leaves(texts)
                 \/ d # 0 /\ v \in Nodes(Trees(texts)[d - 1])
<1>1. Trees(texts)[d] = Leaves(texts) \cup (IF d = 0 THEN {} ELSE Nodes(Trees(texts)[d - 1]))
  BY TreesIs
<1>2. d # 0 => d - 1 \in 0..Depth
  BY EscaperAssumption
<1> QED
  BY <1>1, <1>2

\* The value v with g applied to its texts, where below does so one less deep.
Mapped(g, below, v) ==
    IF v.kind = "text" THEN Text(g[v.text])
    ELSE IF v.kind \in Containers
    THEN [kind |-> v.kind, items |-> [f \in DOMAIN v.items |-> below[v.items[f]]]]
    ELSE v

\* What is below does not matter to a leaf.
LEMMA MappedLeaf ==
    ASSUME NEW texts, NEW v \in Leaves(texts), NEW g, NEW h, NEW i
    PROVE  Mapped(g, h, v) = Mapped(g, i, v)
BY LeafCases DEF Mapped, Containers

\* Mapping the texts of a value is what the recursion describes.
LEMMA MapTextsIs ==
    ASSUME NEW g
    PROVE  \A d \in 0..Depth : \A v \in Trees(DOMAIN g)[d] :
              MapTexts(g, Containers)[d][v] = Mapped(g, MapTexts(g, Containers)[d - 1], v)
<1> DEFINE T == Trees(DOMAIN g)
           Body(h, d) == [v \in T[d] |-> Mapped(g, h[d - 1], v)]
           Approx(n, h) == h = [d \in 0..n |-> Body(h, d)]
           Exists == {n \in Nat : n <= Depth => \E h : Approx(n, h)}
<1> HIDE DEF T
<1>0. Depth \in Nat
  BY EscaperAssumption
<1>1. ASSUME NEW n \in Nat, \A m \in Nat : m < n => m \in Exists
      PROVE  n \in Exists
  <2>1. CASE n = 0
    <3> DEFINE z == [d \in {0} |-> 0]
               h == [d \in 0..0 |-> Body(z, d)]
    <3>1. \A v \in T[0] : v \in Leaves(DOMAIN g)
      BY <1>0, TreeCases DEF T
    <3>2. \A v \in T[0] : \A i, j : Mapped(g, i, v) = Mapped(g, j, v)
      BY <3>1, MappedLeaf
    <3>3. Body(z, 0) = Body(h, 0)
      <4> HIDE DEF z, h
      <4> QED
        BY <3>2
    <3>4. \A d \in 0..0 : Body(z, d) = Body(h, d)
      <4>1. \A d \in 0..0 : d = 0
        OBVIOUS
      <4> HIDE DEF Body
      <4> QED
        BY <3>3, <4>1
    <3>5. Approx(0, h)
      <4> HIDE DEF Body
      <4> QED
        BY <3>4
    <3> QED
      BY <2>1, <3>5
  <2>2. ASSUME n # 0, n <= Depth
        PROVE  \E h : Approx(n, h)
    <3>1. n - 1 \in Nat /\ n - 1 < n /\ n - 1 <= Depth
      BY <1>0, <2>2
    <3>2. PICK h : Approx(n - 1, h)
      BY <1>1, <3>1
    <3> HIDE DEF Body
    <3> DEFINE k == [d \in 0..n |-> Body(h, d)]
    <3>3. \A d \in 0..(n - 1) : d \in 0..n /\ k[d] = h[d]
      <4>1. \A d \in 0..(n - 1) : h[d] = Body(h, d)
        BY <3>2
      <4>2. \A d \in 0..(n - 1) : d \in 0..n
        BY <3>1
      <4> QED
        BY <4>1, <4>2
    <3>4. ASSUME NEW d \in 0..n
          PROVE  Body(h, d) = Body(k, d)
      <4>1. CASE d = 0
        <5>1. \A v \in T[d] : v \in Leaves(DOMAIN g)
          BY <1>0, <4>1, TreeCases DEF T
        <5>2. \A v \in T[d] : \A i, j : Mapped(g, i, v) = Mapped(g, j, v)
          BY <5>1, MappedLeaf
        <5> HIDE DEF k
        <5> QED
          BY <5>2 DEF Body
      <4>2. CASE d # 0
        <5>1. d - 1 \in 0..(n - 1)
          BY <3>1, <4>2
        <5>2. h[d - 1] = k[d - 1]
          BY <3>3, <5>1
        <5> HIDE DEF k
        <5> QED
          BY <5>2 DEF Body
      <4> QED
        BY <4>1, <4>2
    <3>5. Approx(n, k)
      BY <3>4
    <3> QED
      BY <3>5
  <2> QED
    BY <2>1, <2>2
<1>2. Depth \in Exists
  <2> HIDE DEF Exists
  <2> QED
    BY <1>0, <1>1, NatSets
<1>3. \E h : Approx(Depth, h)
  BY <1>0, <1>2
<1>4. MapTexts(g, Containers) = CHOOSE h : Approx(Depth, h)
  BY DEF MapTexts, Mapped, T
<1> HIDE DEF Approx
<1>5. Approx(Depth, MapTexts(g, Containers))
  BY <1>3, <1>4
<1> DEFINE M == MapTexts(g, Containers)
<1>6. M = [d \in 0..Depth |-> Body(M, d)]
  BY <1>5 DEF Approx
<1> HIDE DEF M
<1>7. \A d \in 0..Depth : M[d] = Body(M, d)
  <2> HIDE DEF Body
  <2> QED
    BY <1>6
<1>8. \A d \in 0..Depth : \A v \in T[d] : M[d][v] = Mapped(g, M[d - 1], v)
  BY <1>7
<1> QED
  BY <1>8 DEF M, T

\* The same values are there over more texts.
LEMMA TreesGrow ==
    ASSUME NEW S, NEW T, S \subseteq T
    PROVE  \A d \in 0..Depth : Trees(S)[d] \subseteq Trees(T)[d]
<1> DEFINE G == {d \in Nat : d <= Depth => Trees(S)[d] \subseteq Trees(T)[d]}
<1>1. ASSUME NEW d \in Nat, \A m \in Nat : m < d => m \in G
      PROVE  d \in G
  <2>1. ASSUME d <= Depth, NEW v \in Trees(S)[d]
        PROVE  v \in Trees(T)[d]
    <3>0. d \in 0..Depth
      BY <2>1, EscaperAssumption
    <3>1. CASE v \in Leaves(S)
      <4>1. v \in Leaves(T)
        BY <3>1 DEF Leaves
      <4> QED
        BY <3>0, <4>1, TreeCases
    <3>2. CASE d # 0 /\ v \in Nodes(Trees(S)[d - 1])
      <4>1. d - 1 \in Nat /\ d - 1 < d /\ d - 1 <= Depth
        BY <2>1, <3>2, EscaperAssumption
      <4>2. Trees(S)[d - 1] \subseteq Trees(T)[d - 1]
        BY <1>1, <4>1
      <4>3. v.items \in [DOMAIN v.items -> Trees(T)[d - 1]] /\ v = [kind |-> v.kind, items |-> v.items]
        BY <3>2, <4>2, NodeItems
      <4>4. [kind |-> v.kind, items |-> v.items] \in Nodes(Trees(T)[d - 1])
        BY <3>2, <4>3, NodeBuilt
      <4> QED
        BY <3>0, <3>2, <4>3, <4>4, TreeCases
    <3> QED
      BY <2>1, <3>0, <3>1, <3>2, TreeCases
  <2> QED
    BY <2>1
<1>2. \A d \in Nat : d \in G
  <2> HIDE DEF G
  <2> QED
    BY <1>1, NatSets
<1> QED
  BY <1>2, EscaperAssumption

\* Mapping texts of S into T makes values over S values over T.
LEMMA MapTypes ==
    ASSUME NEW g, NEW S, S \subseteq DOMAIN g, NEW T, \A s \in S : g[s] \in T
    PROVE  \A d \in 0..Depth : \A v \in Trees(S)[d] : MapTexts(g, Containers)[d][v] \in Trees(T)[d]
<1> DEFINE M == MapTexts(g, Containers)
           G == {d \in Nat : d <= Depth => \A v \in Trees(S)[d] : M[d][v] \in Trees(T)[d]}
<1>1. ASSUME NEW d \in Nat, \A m \in Nat : m < d => m \in G
      PROVE  d \in G
  <2>1. ASSUME d <= Depth, NEW v \in Trees(S)[d]
        PROVE  M[d][v] \in Trees(T)[d]
    <3>0. d \in 0..Depth
      BY <2>1, EscaperAssumption
    <3>1. M[d][v] = Mapped(g, M[d - 1], v)
      BY <2>1, <3>0, TreesGrow, MapTextsIs
    <3> HIDE DEF M
    <3>2. CASE v \in Leaves(S)
      <4>1. Mapped(g, M[d - 1], v) \in Leaves(T)
        <5>1. CASE v.kind = "text" /\ v.text \in S
          BY <5>1 DEF Mapped, Leaves, Text
        <5>2. CASE v = Other /\ v.kind = "other"
          BY <5>2 DEF Mapped, Leaves, Containers
        <5> QED
          BY <3>2, <5>1, <5>2, LeafCases
      <4> QED
        BY <3>0, <3>1, <4>1, TreeCases
    <3>3. CASE d # 0 /\ v \in Nodes(Trees(S)[d - 1])
      <4>1. d - 1 \in Nat /\ d - 1 < d /\ d - 1 <= Depth
        BY <2>1, <3>3, EscaperAssumption
      <4>2. \A w \in Trees(S)[d - 1] : M[d - 1][w] \in Trees(T)[d - 1]
        BY <1>1, <4>1
      <4> DEFINE items == [f \in DOMAIN v.items |-> M[d - 1][v.items[f]]]
      <4>3. items \in [DOMAIN v.items -> Trees(T)[d - 1]]
        BY <3>3, <4>2, NodeItems
      <4>4. Mapped(g, M[d - 1], v) = [kind |-> v.kind, items |-> items]
        BY <3>3, NodeItems DEF Mapped
      <4> HIDE DEF items
      <4>5. [kind |-> v.kind, items |-> items] \in Nodes(Trees(T)[d - 1])
        BY <3>3, <4>3, NodeBuilt
      <4> QED
        BY <3>0, <3>1, <3>3, <4>4, <4>5, TreeCases
    <3> QED
      BY <2>1, <3>0, <3>2, <3>3, TreeCases
  <2> QED
    BY <2>1
<1>2. \A d \in Nat : d \in G
  <2> HIDE DEF G
  <2> QED
    BY <1>1, NatSets
<1> QED
  BY <1>2, EscaperAssumption

\* Mapping texts twice is mapping them once by both.
LEMMA MapTwice ==
    ASSUME NEW g, NEW h, NEW k, NEW S,
           S \subseteq DOMAIN g, S \subseteq DOMAIN k,
           \A s \in S : g[s] \in DOMAIN h /\ h[g[s]] = k[s]
    PROVE  \A d \in 0..Depth : \A v \in Trees(S)[d] :
              MapTexts(h, Containers)[d][MapTexts(g, Containers)[d][v]] = MapTexts(k, Containers)[d][v]
<1> DEFINE M(f) == MapTexts(f, Containers)
           G == {d \in Nat : d <= Depth => \A v \in Trees(S)[d] : M(h)[d][M(g)[d][v]] = M(k)[d][v]}
<1>1. ASSUME NEW d \in Nat, \A m \in Nat : m < d => m \in G
      PROVE  d \in G
  <2>1. ASSUME d <= Depth, NEW v \in Trees(S)[d]
        PROVE  M(h)[d][M(g)[d][v]] = M(k)[d][v]
    <3>0. d \in 0..Depth
      BY <2>1, EscaperAssumption
    <3> DEFINE w == M(g)[d][v]
    <3>1. w = Mapped(g, M(g)[d - 1], v)
      BY <2>1, <3>0, TreesGrow, MapTextsIs
    <3>2. M(k)[d][v] = Mapped(k, M(k)[d - 1], v)
      BY <2>1, <3>0, TreesGrow, MapTextsIs
    <3>3. M(h)[d][w] = Mapped(h, M(h)[d - 1], w)
      <4>1. w \in Trees(DOMAIN h)[d]
        BY <2>1, <3>0, MapTypes
      <4> QED
        BY <3>0, <4>1, MapTextsIs
    <3> HIDE DEF w, M
    <3>4. CASE v \in Leaves(S)
      <4>1. CASE v.kind = "text" /\ v.text \in S
        <5>1. w.kind = "text" /\ w.text = g[v.text]
          BY <3>1, <4>1 DEF Mapped, Text
        <5>2. h[g[v.text]] = k[v.text]
          BY <4>1
        <5>3. M(h)[d][w] = M(k)[d][v]
          BY <3>2, <3>3, <4>1, <5>1, <5>2 DEF Mapped
        <5> QED
          BY <5>3 DEF w
      <4>2. CASE v = Other /\ v.kind = "other"
        <5>1. w = v
          BY <3>1, <4>2 DEF Mapped, Containers
        <5>2. M(h)[d][w] = M(k)[d][v]
          BY <3>2, <3>3, <4>2, <5>1 DEF Mapped, Containers
        <5> QED
          BY <5>2 DEF w
      <4> QED
        BY <3>4, <4>1, <4>2, LeafCases
    <3>5. CASE d # 0 /\ v \in Nodes(Trees(S)[d - 1])
      <4>1. d - 1 \in Nat /\ d - 1 < d /\ d - 1 <= Depth
        BY <2>1, <3>5, EscaperAssumption
      <4>2. \A u \in Trees(S)[d - 1] : M(h)[d - 1][M(g)[d - 1][u]] = M(k)[d - 1][u]
        BY <1>1, <4>1
      <4>3. v.kind \in Containers /\ v.kind # "text"
            /\ \A f \in DOMAIN v.items : v.items[f] \in Trees(S)[d - 1]
        BY <3>5, NodeItems
      <4> DEFINE items == [f \in DOMAIN v.items |-> M(g)[d - 1][v.items[f]]]
      <4>4. w = [kind |-> v.kind, items |-> items]
        BY <3>1, <4>3 DEF Mapped
      <4>5. DOMAIN items = DOMAIN v.items
            /\ \A f \in DOMAIN v.items : M(h)[d - 1][items[f]] = M(k)[d - 1][v.items[f]]
        BY <4>2, <4>3
      <4> HIDE DEF items
      <4>6. w.kind = v.kind /\ w.items = items
        BY <4>4
      <4>7. [f \in DOMAIN w.items |-> M(h)[d - 1][w.items[f]]]
                = [f \in DOMAIN v.items |-> M(k)[d - 1][v.items[f]]]
        BY <4>5, <4>6
      <4>8. M(h)[d][w] = [kind |-> v.kind, items |-> [f \in DOMAIN w.items |-> M(h)[d - 1][w.items[f]]]]
        BY <3>3, <4>3, <4>6 DEF Mapped
      <4>9. M(k)[d][v] = [kind |-> v.kind, items |-> [f \in DOMAIN v.items |-> M(k)[d - 1][v.items[f]]]]
        BY <3>2, <4>3 DEF Mapped
      <4> QED
        BY <4>7, <4>8, <4>9 DEF w
    <3> QED
      BY <2>1, <3>0, <3>4, <3>5, TreeCases DEF w
  <2> QED
    BY <2>1
<1>2. \A d \in Nat : d \in G
  <2> HIDE DEF G
  <2> QED
    BY <1>1, NatSets
<1> QED
  BY <1>2, EscaperAssumption

-----------------------------------------------------------------------------
(***************************************************************************)
(* The conversion of the parameters                                        *)
(***************************************************************************)

\* What the user gave holds no character that stands for an escape, and
\* parameters are what was given until they are sent, and then its conversion.
Inv ==
    /\ given \in Trees(Plain)[Depth]
    /\ sent \in BOOLEAN
    /\ params = IF sent THEN EscapeValue(given) ELSE given

\* Converting parameters that were converted changes nothing.
LEMMA EscapedOnce ==
    ASSUME NEW v \in Trees(Plain)[Depth]
    PROVE  EscapeValue(EscapeValue(v)) = EscapeValue(v)
<1> DEFINE E == [s \in Strings |-> EscapeHCLString(s)]
<1>1. DOMAIN E = Strings /\ Plain \subseteq Strings
  BY Marks
<1>2. \A s \in Plain : E[s] \in DOMAIN E /\ E[E[s]] = E[s]
  BY <1>1, ConvertedTexts, Conversions, Marks DEF Converted, Conversion
<1>3. Depth \in 0..Depth
  BY EscaperAssumption
<1>4. EscapeValue(v) = MapTexts(E, Containers)[Depth][v]
      /\ EscapeValue(EscapeValue(v)) = MapTexts(E, Containers)[Depth][EscapeValue(v)]
  BY DEF EscapeValue
<1> HIDE DEF E
<1>5. MapTexts(E, Containers)[Depth][MapTexts(E, Containers)[Depth][v]] = MapTexts(E, Containers)[Depth][v]
  BY <1>1, <1>2, <1>3, MapTwice
<1> QED
  BY <1>4, <1>5

\* The invariant holds at first,
LEMMA Initially == Init => Inv
BY EscaperAssumption DEF Init, Inv, Plain

\* and every conversion keeps it.
LEMMA Steps == Inv /\ [Next]_vars => Inv'
<1> SUFFICES ASSUME Inv, [Next]_vars
             PROVE  Inv'
  OBVIOUS
<1>1. ASSUME NEW mode \in {"ToTerraform", "FromTerraform"}, Convert(mode)
      PROVE  Inv'
  <2>1. CASE mode = "ToTerraform"
    <3>1. given' = given /\ sent' = TRUE /\ params' = EscapeValue(params)
      BY <1>1, <2>1 DEF Convert, Inv
    <3>2. EscapeValue(params) = EscapeValue(given)
      BY EscapedOnce DEF Inv
    <3> QED
      BY <3>1, <3>2 DEF Inv
  <2>2. CASE mode = "FromTerraform"
    BY <1>1, <2>2 DEF Convert, Inv
  <2> QED
    BY <2>1, <2>2
<1>2. CASE UNCHANGED vars
  BY <1>2 DEF Inv, vars
<1> QED
  BY <1>1, <1>2 DEF Next

\* So it always holds.
LEMMA Invariance == Spec => []Inv
<1> QED
  BY Initially, Steps, PTL DEF Spec

\* Wherever in the parameters a value is a text, Terraform evaluates no
\* interpolation in what HCLInterpolationEscaper.Convert makes of it, for texts
\* of any length. Nothing is said of directives, nor of the keys of maps.
THEOREM NoInterpolationEvaluatedHolds == Spec => []NoInterpolationEvaluated
<1> DEFINE E == [s \in Strings |-> EscapeHCLString(s)]
           Quiet == {s \in Strings : Evaluated \notin ToSet(Read(s))}
<1>1. Inv => NoInterpolationEvaluated
  <2> SUFFICES ASSUME Inv, sent
               PROVE  params \in Trees(Quiet)[Depth]
    BY DEF NoInterpolationEvaluated
  <2>1. DOMAIN E = Strings /\ Plain \subseteq Strings
    BY Marks
  <2>2. \A s \in Plain : E[s] \in Quiet
    BY <2>1, ConvertedTexts, ConvertedNotEvaluated, Marks DEF Converted
  <2>3. params = MapTexts(E, Containers)[Depth][given]
    BY DEF Inv, EscapeValue
  <2>4. given \in Trees(Plain)[Depth] /\ Depth \in 0..Depth
    BY EscaperAssumption DEF Inv
  <2> HIDE DEF E, Quiet
  <2>5. MapTexts(E, Containers)[Depth][given] \in Trees(Quiet)[Depth]
    BY <2>1, <2>2, <2>4, MapTypes
  <2> QED
    BY <2>3, <2>5
<1> QED
  BY <1>1, Invariance, PTL

\* What Terraform reads in the values is what it would read of those the user
\* gave with interpolations taken literally, however often the parameters are
\* converted: escapes and directives mean what they meant.
THEOREM InterpolationsReadLiterallyHolds == Spec => []InterpolationsReadLiterally
<1> DEFINE E == [s \in Strings |-> EscapeHCLString(s)]
           R == [s \in Strings |-> Read(s)]
           L == [s \in Strings |-> Literally(s)]
<1>1. Inv => InterpolationsReadLiterally
  <2> SUFFICES ASSUME Inv, sent
               PROVE  MapTexts(R, Containers)[Depth][params] = MapTexts(L, Containers)[Depth][given]
    BY DEF InterpolationsReadLiterally
  <2>1. DOMAIN E = Strings /\ DOMAIN R = Strings /\ DOMAIN L = Strings /\ Plain \subseteq Strings
    BY Marks
  <2>2. \A s \in Plain : E[s] \in DOMAIN R /\ R[E[s]] = L[s]
    BY <2>1, ConvertedTexts, Conversions, Marks DEF Converted, Conversion
  <2>3. params = MapTexts(E, Containers)[Depth][given]
    BY DEF Inv, EscapeValue
  <2>4. given \in Trees(Plain)[Depth] /\ Depth \in 0..Depth
    BY EscaperAssumption DEF Inv
  <2> HIDE DEF E, R, L
  <2>5. MapTexts(R, Containers)[Depth][MapTexts(E, Containers)[Depth][given]]
            = MapTexts(L, Containers)[Depth][given]
    BY <2>1, <2>2, <2>4, MapTwice
  <2> QED
    BY <2>3, <2>5
<1> QED
  BY <1>1, Invariance, PTL

\* Parameters that have been converted for Terraform are left alone by every
\* further conversion, to or from Terraform.
THEOREM ConvertedOnceHolds == Spec => ConvertedOnce
<1>1. Inv /\ [Next]_vars => [sent => params' = params]_vars
  <2> SUFFICES ASSUME Inv, Next, sent
               PROVE  params' = params
    BY DEF vars
  <2>1. PICK mode \in {"ToTerraform", "FromTerraform"} : Convert(mode)
    BY DEF Next
  <2>2. EscapeValue(params) = params
    BY EscapedOnce DEF Inv
  <2> QED
    BY <2>1, <2>2 DEF Convert
<1> QED
  BY <1>1, Invariance, PTL DEF Spec, ConvertedOnce

\* What the conversion leaves to Terraform: a directive is sent as it is, and
\* Terraform evaluates it.
THEOREM DirectivesAreEvaluated ==
    ASSUME NEW u \in Plain
    PROVE  /\ EscapeHCLString(Directive \o u) = Directive \o EscapeHCLString(u)
           /\ Read(EscapeHCLString(Directive \o u)) = <<Directed>> \o Literally(u)
<1>1. EscapeHCLString(u) \in Strings /\ Read(EscapeHCLString(u)) = Literally(u)
  BY ConvertedTexts, Conversions, Marks DEF Converted, Conversion
<1>2. EscapeHCLString(Directive \o u) = Directive \o EscapeHCLString(u)
  BY EscapeOfDirective
<1>3. Read(Directive \o EscapeHCLString(u)) = <<Directed>> \o Read(EscapeHCLString(u))
  BY <1>1, ReadOf
<1> QED
  BY <1>1, <1>2, <1>3

\* What the parameters must not hold: a NUL is sent as an escape, and Terraform
\* reads the two characters of an interpolation where the user wrote a NUL.
THEOREM NulReadsAsInterpolation ==
    ASSUME NEW u \in Plain
    PROVE  /\ Literally(<<NUL>> \o u) = <<NUL>> \o Literally(u)
           /\ Read(EscapeHCLString(<<NUL>> \o u)) = Interpolation \o Literally(u)
<1> DEFINE e == EscapeHCLString(u)
<1>1. u \in Strings /\ Aside(u) \in Strings /\ Escaped(Aside(u)) \in Strings
  BY Marks, ThreeSteps
<1>2. e \in Strings /\ Read(e) = Literally(u)
  BY ConvertedTexts, Conversions, Marks DEF Converted, Conversion
<1>3. e = Back(Escaped(Aside(u)))
  BY ThreeSteps
<1> HIDE DEF e
<1>4. \A w \in Strings :
         /\ ~IsPrefix(Escape, <<NUL>> \o w) /\ ~IsPrefix(Interpolation, <<NUL>> \o w)
         /\ ~IsPrefix(DirectiveEscape, <<NUL>> \o w) /\ ~IsPrefix(Directive, <<NUL>> \o w)
  BY Begins, Marks
<1>5. Aside(<<NUL>> \o u) = <<NUL>> \o Aside(u)
  BY <1>1, <1>4, AsideOf, Marks
<1>6. Escaped(<<NUL>> \o Aside(u)) = <<NUL>> \o Escaped(Aside(u))
  BY <1>1, <1>4, EscapedOf, Marks
<1>7. Back(<<NUL>> \o Escaped(Aside(u))) = Escape \o e
  BY <1>1, <1>3, BackOf
<1>8. EscapeHCLString(<<NUL>> \o u) = Escape \o e
  BY <1>5, <1>6, <1>7, ThreeSteps
<1>9. Read(EscapeHCLString(<<NUL>> \o u)) = Interpolation \o Literally(u)
  BY <1>2, <1>8, ReadOf
<1>10. Literally(<<NUL>> \o u) = <<NUL>> \o Literally(u)
  BY <1>1, <1>4, LiterallyOf, Marks
<1> QED
  BY <1>9, <1>10
=============================================================================
