---------------------------- MODULE FiltersProofs ----------------------------
(***************************************************************************)
(* What `retain` returns, for every list and every set of elements to      *)
(* keep.  The proof goes by induction on a prefix of the list.  Induction  *)
(* is SetInduction, derived from the least element of a set of natural     *)
(* numbers, which needs no operator as a parameter.                        *)
(***************************************************************************)
EXTENDS Filters, TLAPS, WellFoundedInduction

-----------------------------------------------------------------------------
(* Induction over a set of natural numbers. *)

LEMMA LeastElement ==
  ASSUME NEW S \in SUBSET Nat, S # {}
  PROVE  \E m \in S : \A k \in S : m <= k
<1> DEFINE Below == {ss \in Nat \X Nat : ss[1] < ss[2]}
<1>1. IsWellFoundedOn(Below, Nat)
  BY NatLessThanWellFounded DEF OpToRel
<1>2. PICK m \in S : \A k \in S : ~ (<<k, m>> \in Below)
  <2> HIDE DEF Below
  <2> QED BY <1>1, WFMin
<1>3. \A k \in S : ~ (k < m)
  BY <1>2
<1>4. \A k \in S : m <= k
  BY <1>3
<1> QED BY <1>4

LEMMA SetInduction ==
  ASSUME NEW S, 0 \in S, \A n \in Nat : n \in S => n + 1 \in S
  PROVE  Nat \subseteq S
<1>1. SUFFICES ASSUME Nat \ S # {} PROVE FALSE
  OBVIOUS
<1>2. PICK m \in Nat \ S : \A k \in Nat \ S : m <= k
  BY <1>1, LeastElement
<1>3. m - 1 \in Nat /\ m - 1 \in S
  BY <1>2
<1> QED BY <1>3

-----------------------------------------------------------------------------
(* The recursive function of `retain` exists. *)

Keeping(s, T, kept) ==
  kept = [n \in 0 .. Len(s) |->
            IF n = 0 THEN <<>>
            ELSE IF s[n] \in T THEN Append(kept[n - 1], s[n]) ELSE kept[n - 1]]

LEMMA KeepingExists ==
  ASSUME NEW S, NEW s \in Seq(S), NEW T
  PROVE  \E kept : Keeping(s, T, kept)
<1> DEFINE Upto(m, g) ==
      g = [n \in 0 .. m |->
             IF n = 0 THEN <<>>
             ELSE IF s[n] \in T THEN Append(g[n - 1], s[n]) ELSE g[n - 1]]
    Good == {m \in Nat : \E g : Upto(m, g)}
<1>1. 0 \in Good
  <2> DEFINE g == [n \in 0 .. 0 |-> <<>>]
  <2>1. Upto(0, g)
    OBVIOUS
  <2> QED BY <2>1
<1>2. ASSUME NEW m \in Nat, m \in Good PROVE m + 1 \in Good
  <2>1. PICK g : Upto(m, g)
    BY <1>2
  <2> DEFINE h == [n \in 0 .. m + 1 |->
        IF n = m + 1 THEN (IF s[n] \in T THEN Append(g[n - 1], s[n]) ELSE g[n - 1])
                     ELSE g[n]]
  <2>2. \A n \in 0 .. m : h[n] = g[n]
    OBVIOUS
  <2>3. h[m + 1] = IF s[m + 1] \in T THEN Append(h[m], s[m + 1]) ELSE h[m]
    <3>1. m + 1 \in 0 .. m + 1 /\ m \in 0 .. m /\ (m + 1) - 1 = m
      OBVIOUS
    <3> QED BY <3>1, <2>2
  <2>4. h = [n \in 0 .. m + 1 |-> h[n]]
    OBVIOUS
  <2>5. \A n \in 0 .. m :
          g[n] = IF n = 0 THEN <<>>
                 ELSE IF s[n] \in T THEN Append(g[n - 1], s[n]) ELSE g[n - 1]
    <3> HIDE DEF h
    <3> QED BY <2>1
  <2> HIDE DEF h, Upto
  <2>6. \A n \in 0 .. m + 1 :
          h[n] = IF n = 0 THEN <<>>
                 ELSE IF s[n] \in T THEN Append(h[n - 1], s[n]) ELSE h[n - 1]
    <3>1. ASSUME NEW n \in 0 .. m
          PROVE  h[n] = IF n = 0 THEN <<>>
                        ELSE IF s[n] \in T THEN Append(h[n - 1], s[n]) ELSE h[n - 1]
      <4>1. CASE n = 0
        BY <4>1, <2>2, <2>5
      <4>2. CASE n # 0
        <5>1. n - 1 \in 0 .. m
          BY <4>2
        <5> QED BY <4>2, <5>1, <2>2, <2>5
      <4> QED BY <4>1, <4>2
    <3>2. (m + 1) # 0 /\ (m + 1) - 1 = m
      OBVIOUS
    <3>3. \A n \in 0 .. m + 1 : n \in 0 .. m \/ n = m + 1
      OBVIOUS
    <3> QED BY <3>1, <3>2, <3>3, <2>3
  <2>7. Upto(m + 1, h)
    BY <2>4, <2>6 DEF Upto
  <2> QED BY <2>7
<1>3. Nat \subseteq Good
  <2> HIDE DEF Good
  <2> QED BY <1>1, <1>2, SetInduction
<1>4. Len(s) \in Good
  <2>1. Len(s) \in Nat
    OBVIOUS
  <2> HIDE DEF Good
  <2> QED BY <1>3, <2>1
<1>5. PICK g : Upto(Len(s), g)
  BY <1>4
<1> QED BY <1>5 DEF Keeping

LEMMA RetainKeeping ==
  ASSUME NEW S, NEW s \in Seq(S), NEW T
  PROVE  \E kept : Keeping(s, T, kept) /\ retain(s, T) = kept[Len(s)]
<1> DEFINE chosen == CHOOSE kept : Keeping(s, T, kept)
<1>1. Keeping(s, T, chosen)
  BY KeepingExists
<1>2. retain(s, T) = chosen[Len(s)]
  BY DEF retain, Keeping
<1> HIDE DEF chosen
<1> QED BY <1>1, <1>2

-----------------------------------------------------------------------------
\* retain: what is left are elements of the list that are in T, each element in
\* T exactly once per position it had, and in the order of the list.  f maps
\* the positions of the result to those of the list.
THEOREM RetainIs ==
  ASSUME NEW S, NEW s \in Seq(S), NEW T
  PROVE  \E f \in [1 .. Len(retain(s, T)) -> 1 .. Len(s)] :
           /\ retain(s, T) \in Seq(S)
           /\ \A i \in 1 .. Len(retain(s, T)) :
                retain(s, T)[i] = s[f[i]] /\ s[f[i]] \in T
           /\ \A i, j \in 1 .. Len(retain(s, T)) : i < j => f[i] < f[j]
           /\ \A k \in 1 .. Len(s) :
                s[k] \in T => \E i \in 1 .. Len(retain(s, T)) : f[i] = k
<1>1. PICK kept : Keeping(s, T, kept) /\ retain(s, T) = kept[Len(s)]
  BY RetainKeeping
<1> DEFINE
    Sub(n, f) ==
      /\ kept[n] \in Seq(S)
      /\ f \in [1 .. Len(kept[n]) -> 1 .. n]
      /\ \A i \in 1 .. Len(kept[n]) : kept[n][i] = s[f[i]] /\ s[f[i]] \in T
      /\ \A i, j \in 1 .. Len(kept[n]) : i < j => f[i] < f[j]
      /\ \A k \in 1 .. n : s[k] \in T => \E i \in 1 .. Len(kept[n]) : f[i] = k
    Good == {n \in Nat : n <= Len(s) => \E f : Sub(n, f)}
<1>2. 0 \in Good
  <2>1. kept[0] = <<>>
    BY <1>1 DEF Keeping
  <2>2. Sub(0, [i \in 1 .. 0 |-> 0])
    BY <2>1
  <2> QED BY <2>2
<1>3. ASSUME NEW n \in Nat, n \in Good PROVE n + 1 \in Good
  <2> SUFFICES ASSUME n + 1 <= Len(s) PROVE \E f : Sub(n + 1, f)
    BY SMTT(30)
  <2>1. PICK f : Sub(n, f)
    <3>1. n <= Len(s)
      OBVIOUS
    <3> HIDE DEF Sub
    <3> QED BY <1>3, <3>1
  <2>2. kept[n + 1] = IF s[n + 1] \in T THEN Append(kept[n], s[n + 1]) ELSE kept[n]
    <3>1. n + 1 \in 0 .. Len(s) /\ n + 1 # 0 /\ (n + 1) - 1 = n
      OBVIOUS
    <3> QED BY <3>1, <1>1 DEF Keeping
  <2>3. s[n + 1] \in S
    OBVIOUS
  <2>4. CASE s[n + 1] \notin T
    <3>1. kept[n + 1] = kept[n]
      BY <2>2, <2>4
    <3>2. f \in [1 .. Len(kept[n]) -> 1 .. n + 1]
      BY <2>1
    <3>3. \A k \in 1 .. n + 1 : s[k] \in T => \E i \in 1 .. Len(kept[n]) : f[i] = k
      BY <2>1, <2>4
    <3>4. Sub(n + 1, f)
      BY <3>1, <3>2, <3>3, <2>1
    <3> QED BY <3>4
  <2>5. CASE s[n + 1] \in T
    <3> DEFINE l == Len(kept[n])
          g == [i \in 1 .. l + 1 |-> IF i = l + 1 THEN n + 1 ELSE f[i]]
    <3>1. /\ kept[n] \in Seq(S) /\ l \in Nat
          /\ f \in [1 .. l -> 1 .. n]
          /\ \A i \in 1 .. l : kept[n][i] = s[f[i]] /\ s[f[i]] \in T
          /\ \A i, j \in 1 .. l : i < j => f[i] < f[j]
          /\ \A k \in 1 .. n : s[k] \in T => \E i \in 1 .. l : f[i] = k
      <4>1. Sub(n, f)
        BY <2>1
      <4>2. kept[n] \in Seq(S)
        BY <4>1
      <4>3. l \in Nat
        <5> HIDE DEF Sub
        <5> QED BY <4>2
      <4> HIDE DEF g
      <4> QED BY <4>1, <4>2, <4>3
    <3>2. /\ kept[n + 1] \in Seq(S) /\ Len(kept[n + 1]) = l + 1
          /\ kept[n + 1][l + 1] = s[n + 1]
          /\ \A i \in 1 .. l : kept[n + 1][i] = kept[n][i]
      <4>1. kept[n + 1] = Append(kept[n], s[n + 1])
        BY <2>2, <2>5
      <4> QED BY <4>1, <2>3, <3>1
    <3>3. g[l + 1] = n + 1 /\ \A i \in 1 .. l : g[i] = f[i]
      BY <3>1
    <3>4. g \in [1 .. l + 1 -> 1 .. n + 1]
      BY <3>1
    <3>5. \A i \in 1 .. l + 1 : i \in 1 .. l \/ i = l + 1
      BY <3>1
    <3> HIDE DEF g, l, Sub
    <3>6. \A i \in 1 .. l + 1 : kept[n + 1][i] = s[g[i]] /\ s[g[i]] \in T
      BY <3>1, <3>2, <3>3, <3>5, <2>5
    <3>7. ASSUME NEW i \in 1 .. l + 1, NEW j \in 1 .. l + 1, i < j
          PROVE  g[i] < g[j]
      <4>1. i \in 1 .. l
        BY <3>1, <3>7
      <4>2. CASE j \in 1 .. l
        BY <4>1, <4>2, <3>1, <3>3, <3>7
      <4>3. CASE j = l + 1
        <5>1. f[i] \in 1 .. n
          BY <4>1, <3>1
        <5> QED BY <4>1, <4>3, <5>1, <3>3
      <4> QED BY <4>2, <4>3, <3>5
    <3>8. ASSUME NEW k \in 1 .. n + 1, s[k] \in T
          PROVE  \E i \in 1 .. l + 1 : g[i] = k
      <4>1. CASE k \in 1 .. n
        <5>1. PICK i \in 1 .. l : f[i] = k
          BY <4>1, <3>1, <3>8
        <5>2. i \in 1 .. l + 1
          BY <3>1
        <5> QED BY <5>1, <5>2, <3>3
      <4>2. CASE k = n + 1
        BY <4>2, <3>1, <3>3
      <4> QED BY <4>1, <4>2
    <3>9. Sub(n + 1, g)
      BY <3>2, <3>4, <3>6, <3>7, <3>8 DEF Sub
    <3> QED BY <3>9
  <2> QED BY <2>4, <2>5
<1>4. Nat \subseteq Good
  <2> HIDE DEF Good
  <2> QED BY <1>2, <1>3, SetInduction
<1>5. Len(s) \in Good
  <2>1. Len(s) \in Nat
    OBVIOUS
  <2> HIDE DEF Good
  <2> QED BY <1>4, <2>1
<1>6. PICK f : Sub(Len(s), f)
  BY <1>5
<1> QED BY <1>6, <1>1
=============================================================================
