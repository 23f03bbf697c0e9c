-------------------------- MODULE Selection_proofs --------------------------
(***************************************************************************)
(* Induction over the natural numbers, for sets, and what Select does to a *)
(* sequence.                                                               *)
(***************************************************************************)
EXTENDS Selection, SequencesExt, FiniteSetTheorems, TLAPS, WellFoundedInduction

(* A set that holds 0, and with each number the next, holds them all. *)
LEMMA NatSetInduction ==
  ASSUME NEW S, 0 \in S, \A n \in Nat : n \in S => n + 1 \in S
  PROVE  \A n \in Nat : n \in S
  <1> SUFFICES ASSUME NEW m \in Nat, m \notin S PROVE FALSE
    OBVIOUS
  <1> DEFINE B == {n \in Nat : n \notin S}
             R == OpToRel(<, Nat)
  <1>1. PICK x \in B : \A y \in B : <<y, x>> \notin R
    <2>1. IsWellFoundedOn(R, Nat)
      BY NatLessThanWellFounded
    <2>2. B \subseteq Nat /\ B # {}
      OBVIOUS
    <2>3. \E x \in B : \A y \in B : ~(<<y, x>> \in R)
      <3> HIDE DEF B, R
      <3> QED BY <2>1, <2>2, WFMin
    <2> QED BY <2>3
  <1>2. x \in Nat /\ x \notin S /\ x # 0
    OBVIOUS
  <1>3. x - 1 \in Nat /\ x - 1 \notin S
    BY <1>2
  <1>4. x - 1 \in B /\ <<x - 1, x>> \in R
    BY <1>2, <1>3 DEF OpToRel
  <1> QED BY <1>1, <1>4

(* One step of the recursion. *)
Step(s, S, t, i) == IF s[i] \in S THEN Append(t, s[i]) ELSE t

(* f solves the equation of Selections up to n. *)
Solves(f, s, S, n, X) ==
  /\ f \in [0 .. n -> Seq(X)]
  /\ f[0] = <<>>
  /\ \A i \in 1 .. n : f[i] = Step(s, S, f[i - 1], i)

(* The recursion of Selections has a solution. *)
LEMMA SelectionsExist ==
  ASSUME NEW X, NEW s \in Seq(X), NEW S
  PROVE  \E f : Solves(f, s, S, Len(s), X)
  <1> DEFINE P(n) == n <= Len(s) => \E f : Solves(f, s, S, n, X)
             G == {n \in Nat : P(n)}
  <1>1. P(0)
    <2> DEFINE f == [i \in 0 .. 0 |-> <<>>]
    <2>1. f \in [0 .. 0 -> Seq(X)] /\ f[0] = <<>>
      OBVIOUS
    <2> HIDE DEF f
    <2>2. Solves(f, s, S, 0, X)
      BY <2>1 DEF Solves
    <2> QED BY <2>2
  <1>2. ASSUME NEW n \in Nat, P(n) PROVE P(n + 1)
    <2> SUFFICES ASSUME n + 1 <= Len(s)
                 PROVE  \E f : Solves(f, s, S, n + 1, X)
      OBVIOUS
    <2>1. PICK f : Solves(f, s, S, n, X)
      BY <1>2
    <2> DEFINE t == Step(s, S, f[n], n + 1)
               g == [i \in 0 .. n + 1 |-> IF i = n + 1 THEN t ELSE f[i]]
    <2>2. t \in Seq(X)
      BY <2>1 DEF Step, Solves
    <2> HIDE DEF t
    <2>3. g \in [0 .. n + 1 -> Seq(X)]
      BY <2>1, <2>2 DEF Solves
    <2>4. g[0] = <<>> /\ g[n + 1] = t /\ \A i \in 0 .. n : g[i] = f[i]
      BY <2>1 DEF Solves
    <2> HIDE DEF g
    <2>5. ASSUME NEW i \in 1 .. n + 1 PROVE g[i] = Step(s, S, g[i - 1], i)
      <3>1. CASE i = n + 1
        BY <2>4, <3>1 DEF t
      <3>2. CASE i \in 1 .. n
        <4>1. i \in 0 .. n /\ i - 1 \in 0 .. n
          BY <3>2
        <4>2. g[i] = f[i] /\ g[i - 1] = f[i - 1]
          BY <2>4, <4>1
        <4>3. f[i] = Step(s, S, f[i - 1], i)
          BY <2>1, <3>2 DEF Solves
        <4> QED BY <4>2, <4>3
      <3> QED BY <3>1, <3>2
    <2>6. Solves(g, s, S, n + 1, X)
      BY <2>3, <2>4, <2>5 DEF Solves
    <2> QED BY <2>6
  <1>3. Len(s) \in G
    <2>1. 0 \in G
      BY <1>1
    <2>2. \A n \in Nat : n \in G => n + 1 \in G
      BY <1>2
    <2> HIDE DEF G
    <2> QED BY <2>1, <2>2, NatSetInduction
  <1> QED BY <1>3

(* Selections satisfies its equation. *)
LEMMA SelectionsStep ==
  ASSUME NEW X, NEW s \in Seq(X), NEW S
  PROVE  /\ Selections(s, S)[0] = <<>>
         /\ \A i \in 1 .. Len(s) :
              Selections(s, S)[i] = Step(s, S, Selections(s, S)[i - 1], i)
  <1> DEFINE E(F) == [i \in 0 .. Len(s) |->
                       IF i = 0 THEN <<>>
                       ELSE IF s[i] \in S THEN Append(F[i - 1], s[i]) ELSE F[i - 1]]
  <1>1. PICK f : Solves(f, s, S, Len(s), X)
    BY SelectionsExist
  <1>2. f = E(f)
    <2>1. ASSUME NEW i \in 0 .. Len(s) PROVE f[i] = E(f)[i]
      <3>1. CASE i = 0
        BY <1>1, <3>1 DEF Solves
      <3>2. CASE i \in 1 .. Len(s)
        BY <1>1, <3>2 DEF Step, Solves
      <3> QED BY <3>1, <3>2
    <2> QED BY <1>1, <2>1 DEF Solves
  <1> DEFINE F == Selections(s, S)
  <1>3. F = E(F)
    <2>1. F = CHOOSE g : g = E(g)
      BY DEF Selections
    <2> HIDE DEF E, F
    <2> QED BY <1>2, <2>1
  <1> HIDE DEF F
  <1>4. F[0] = <<>>
    BY <1>3
  <1>5. ASSUME NEW i \in 1 .. Len(s) PROVE F[i] = Step(s, S, F[i - 1], i)
    <2>1. i \in 0 .. Len(s) /\ i # 0
      OBVIOUS
    <2>2. F[i] = E(F)[i]
      BY <1>3
    <2>3. E(F)[i] = Step(s, S, F[i - 1], i)
      BY <2>1 DEF Step
    <2> QED BY <2>2, <2>3
  <1> QED BY <1>4, <1>5 DEF F

(* The places of s whose elements are selected, in order: g leads from the *)
(* places of t to those of s.                                              *)
Picks(g, t, s, n, S) ==
  /\ g \in [1 .. Len(t) -> 1 .. n]
  /\ \A k \in 1 .. Len(t) : t[k] = s[g[k]] /\ s[g[k]] \in S
  /\ \A k, l \in 1 .. Len(t) : k < l => g[k] < g[l]
  /\ \A i \in 1 .. n : s[i] \in S => \E k \in 1 .. Len(t) : g[k] = i

(* Select yields exactly the elements in S, in their order. *)
LEMMA SelectPicks ==
  ASSUME NEW X, NEW s \in Seq(X), NEW S
  PROVE  /\ Select(s, S) \in Seq(X)
         /\ \E g : Picks(g, Select(s, S), s, Len(s), S)
  <1> DEFINE F == Selections(s, S)
             G == {n \in Nat : n <= Len(s) => F[n] \in Seq(X) /\ \E g : Picks(g, F[n], s, n, S)}
  <1>0. F[0] = <<>> /\ \A i \in 1 .. Len(s) : F[i] = Step(s, S, F[i - 1], i)
    BY SelectionsStep
  <1> HIDE DEF F
  <1>1. 0 \in G
    <2> DEFINE g == [k \in 1 .. 0 |-> 0]
    <2>1. Picks(g, <<>>, s, 0, S)
      BY DEF Picks
    <2> HIDE DEF g
    <2>2. F[0] \in Seq(X) /\ Picks(g, F[0], s, 0, S)
      BY <1>0, <2>1
    <2> QED BY <2>2
  <1>2. ASSUME NEW n \in Nat, n \in G PROVE n + 1 \in G
    <2> SUFFICES ASSUME n + 1 <= Len(s)
                 PROVE  F[n + 1] \in Seq(X) /\ \E g : Picks(g, F[n + 1], s, n + 1, S)
      OBVIOUS
    <2> DEFINE t == F[n]
               u == F[n + 1]
    <2>1. t \in Seq(X) /\ \E g : Picks(g, t, s, n, S)
      BY <1>2
    <2>2. u = IF s[n + 1] \in S THEN Append(t, s[n + 1]) ELSE t
      BY <1>0 DEF Step
    <2> HIDE DEF t, u
    <2>3. PICK g : Picks(g, t, s, n, S)
      BY <2>1
    <2>4. CASE s[n + 1] \notin S
      <3>1. Picks(g, t, s, n + 1, S)
        BY <2>1, <2>3, <2>4 DEF Picks
      <3> QED BY <2>1, <2>2, <2>4, <3>1 DEF u
    <2>5. CASE s[n + 1] \in S
      <3> DEFINE h == [k \in 1 .. Len(t) + 1 |-> IF k = Len(t) + 1 THEN n + 1 ELSE g[k]]
      <3>1. /\ u \in Seq(X) /\ Len(u) = Len(t) + 1 /\ u[Len(t) + 1] = s[n + 1]
            /\ \A k \in 1 .. Len(t) : u[k] = t[k]
        BY <2>1, <2>2, <2>5
      <3>0. /\ Len(t) \in Nat
            /\ \A k \in 1 .. Len(t) : g[k] \in 1 .. n
            /\ \A k, l \in 1 .. Len(t) : k < l => g[k] < g[l]
        <4>1. Len(t) \in Nat
          BY <2>1
        <4>2. \A k \in 1 .. Len(t) : g[k] \in 1 .. n
          BY <2>3 DEF Picks
        <4>3. \A k, l \in 1 .. Len(t) : k < l => g[k] < g[l]
          BY <2>3 DEF Picks
        <4> QED BY <4>1, <4>2, <4>3
      <3>2. /\ h[Len(t) + 1] = n + 1
            /\ \A k \in 1 .. Len(t) : h[k] = g[k]
            /\ \A k \in 1 .. Len(t) : h[k] \in 1 .. n
        <4>1. h[Len(t) + 1] = n + 1
          BY <3>0
        <4>2. \A k \in 1 .. Len(t) : h[k] = g[k]
          BY <3>0
        <4> QED BY <3>0, <4>1, <4>2
      <3>3. h \in [1 .. Len(u) -> 1 .. n + 1]
        BY <2>1, <2>3, <3>1 DEF Picks
      <3> HIDE DEF h
      <3>4. \A k \in 1 .. Len(u) : u[k] = s[h[k]] /\ s[h[k]] \in S
        <4> SUFFICES ASSUME NEW k \in 1 .. Len(u) PROVE u[k] = s[h[k]] /\ s[h[k]] \in S
          OBVIOUS
        <4>1. CASE k = Len(t) + 1
          BY <2>5, <3>1, <3>2, <4>1
        <4>2. CASE k \in 1 .. Len(t)
          <5>1. u[k] = t[k] /\ h[k] = g[k]
            BY <3>1, <3>2, <4>2
          <5>2. t[k] = s[g[k]] /\ s[g[k]] \in S
            BY <2>3, <4>2 DEF Picks
          <5> QED BY <5>1, <5>2
        <4> QED BY <3>0, <3>1, <4>1, <4>2
      <3>5. ASSUME NEW k \in 1 .. Len(u), NEW l \in 1 .. Len(u), k < l PROVE h[k] < h[l]
        <4>1. k \in 1 .. Len(t)
          BY <3>0, <3>1, <3>5
        <4>2. CASE l \in 1 .. Len(t)
          BY <3>0, <3>2, <3>5, <4>1, <4>2
        <4>3. CASE l = Len(t) + 1
          BY <3>2, <4>1, <4>3
        <4> QED BY <3>0, <3>1, <4>2, <4>3
      <3>6. ASSUME NEW i \in 1 .. n + 1, s[i] \in S PROVE \E k \in 1 .. Len(u) : h[k] = i
        <4>1. CASE i = n + 1
          BY <2>1, <3>1, <3>2, <4>1
        <4>2. CASE i \in 1 .. n
          <5>1. PICK k \in 1 .. Len(t) : g[k] = i
            BY <2>3, <3>6, <4>2 DEF Picks
          <5>2. h[k] = i
            BY <3>2, <5>1
          <5>3. k \in 1 .. Len(u)
            BY <3>0, <3>1
          <5> QED BY <5>2, <5>3
        <4> QED BY <4>1, <4>2
      <3>7. Picks(h, u, s, n + 1, S)
        BY <3>3, <3>4, <3>5, <3>6 DEF Picks
      <3> QED BY <3>1, <3>7 DEF u
    <2> QED BY <2>4, <2>5
  <1>3. Len(s) \in G
    <2> HIDE DEF G
    <2> QED BY <1>1, <1>2, NatSetInduction
  <1> QED BY <1>3 DEF Select, F

(* f solves the equation of Folds up to n. *)
FoldSolves(h, f, s, ts, n) ==
  /\ h = [i \in 0 .. n |-> h[i]]
  /\ h[0] = s
  /\ \A i \in 1 .. n : h[i] = f[<<h[i - 1], ts[i]>>]

(* The recursion of Folds has a solution. *)
LEMMA FoldsExist ==
  ASSUME NEW f, NEW s, NEW ts, Len(ts) \in Nat
  PROVE  \E h : FoldSolves(h, f, s, ts, Len(ts))
  <1> DEFINE G == {n \in Nat : \E h : FoldSolves(h, f, s, ts, n)}
  <1>1. 0 \in G
    <2> DEFINE h == [i \in 0 .. 0 |-> s]
    <2>1. h = [i \in 0 .. 0 |-> h[i]] /\ h[0] = s
      OBVIOUS
    <2> HIDE DEF h
    <2>2. FoldSolves(h, f, s, ts, 0)
      BY <2>1 DEF FoldSolves
    <2> QED BY <2>2
  <1>2. ASSUME NEW n \in Nat, n \in G PROVE n + 1 \in G
    <2>1. PICK h : FoldSolves(h, f, s, ts, n)
      BY <1>2
    <2> DEFINE g == [i \in 0 .. n + 1 |-> IF i = n + 1 THEN f[<<h[n], ts[n + 1]>>] ELSE h[i]]
    <2>2. g = [i \in 0 .. n + 1 |-> g[i]]
      OBVIOUS
    <2>3. g[0] = s /\ g[n + 1] = f[<<h[n], ts[n + 1]>>] /\ \A i \in 0 .. n : g[i] = h[i]
      BY <2>1 DEF FoldSolves
    <2> HIDE DEF g
    <2>4. ASSUME NEW i \in 1 .. n + 1 PROVE g[i] = f[<<g[i - 1], ts[i]>>]
      <3>1. CASE i = n + 1
        <4>1. i - 1 = n /\ n \in 0 .. n
          BY <3>1
        <4>2. g[i - 1] = h[n]
          BY <2>3, <4>1
        <4> QED BY <2>3, <3>1, <4>2
      <3>2. CASE i \in 1 .. n
        <4>1. i \in 0 .. n /\ i - 1 \in 0 .. n
          BY <3>2
        <4>2. g[i] = h[i] /\ g[i - 1] = h[i - 1]
          BY <2>3, <4>1
        <4>3. h[i] = f[<<h[i - 1], ts[i]>>]
          BY <2>1, <3>2 DEF FoldSolves
        <4> QED BY <4>2, <4>3
      <3> QED BY <3>1, <3>2
    <2>5. FoldSolves(g, f, s, ts, n + 1)
      BY <2>2, <2>3, <2>4 DEF FoldSolves
    <2> QED BY <2>5
  <1> HIDE DEF G
  <1>3. Len(ts) \in G
    BY <1>1, <1>2, NatSetInduction
  <1> QED BY <1>3 DEF G

(* Folds satisfies its equation. *)
LEMMA FoldsStep ==
  ASSUME NEW f, NEW s, NEW ts, Len(ts) \in Nat
  PROVE  /\ Folds(f, s, ts)[0] = s
         /\ \A i \in 1 .. Len(ts) : Folds(f, s, ts)[i] = f[<<Folds(f, s, ts)[i - 1], ts[i]>>]
  <1> DEFINE E(F) == [i \in 0 .. Len(ts) |-> IF i = 0 THEN s ELSE f[<<F[i - 1], ts[i]>>]]
             F == Folds(f, s, ts)
  <1>1. PICK h : FoldSolves(h, f, s, ts, Len(ts))
    BY FoldsExist
  <1>2. h = E(h)
    <2>1. ASSUME NEW i \in 0 .. Len(ts) PROVE h[i] = IF i = 0 THEN s ELSE f[<<h[i - 1], ts[i]>>]
      <3>1. CASE i = 0
        BY <1>1, <3>1 DEF FoldSolves
      <3>2. CASE i \in 1 .. Len(ts)
        BY <1>1, <3>2 DEF FoldSolves
      <3> QED BY <3>1, <3>2
    <2>2. [i \in 0 .. Len(ts) |-> h[i]] = E(h)
      BY <2>1
    <2>3. h = [i \in 0 .. Len(ts) |-> h[i]]
      BY <1>1 DEF FoldSolves
    <2> HIDE DEF E
    <2> QED BY <2>2, <2>3
  <1>3. F = E(F)
    <2>1. F = CHOOSE g : g = E(g)
      BY DEF Folds
    <2> HIDE DEF E, F
    <2> QED BY <1>2, <2>1
  <1> HIDE DEF F
  <1>4. F[0] = s
    BY <1>3
  <1>5. ASSUME NEW i \in 1 .. Len(ts) PROVE F[i] = f[<<F[i - 1], ts[i]>>]
    <2>1. i \in 0 .. Len(ts) /\ i # 0
      OBVIOUS
    <2>2. F[i] = E(F)[i]
      BY <1>3
    <2>3. E(F)[i] = f[<<F[i - 1], ts[i]>>]
      BY <2>1
    <2> QED BY <2>2, <2>3
  <1> QED BY <1>4, <1>5 DEF F

(* What holds before the first step, and after each if before it, holds of *)
(* the result.                                                             *)
LEMMA FoldInduction ==
  ASSUME NEW f, NEW s, NEW ts, Len(ts) \in Nat, NEW G,
         s \in G[0],
         \A i \in 1 .. Len(ts) : \A x \in G[i - 1] : f[<<x, ts[i]>>] \in G[i]
  PROVE  Fold(f, s, ts) \in G[Len(ts)]
  <1> DEFINE F == Folds(f, s, ts)
             H == {n \in Nat : n <= Len(ts) => F[n] \in G[n]}
  <1>1. F[0] = s /\ \A i \in 1 .. Len(ts) : F[i] = f[<<F[i - 1], ts[i]>>]
    BY FoldsStep
  <1> HIDE DEF F
  <1>2. 0 \in H
    BY <1>1
  <1>3. ASSUME NEW n \in Nat, n \in H PROVE n + 1 \in H
    <2> SUFFICES ASSUME n + 1 <= Len(ts) PROVE F[n + 1] \in G[n + 1]
      OBVIOUS
    <2> DEFINE i == n + 1
    <2>1. i \in 1 .. Len(ts) /\ i - 1 = n /\ F[n] \in G[n]
      BY <1>3
    <2> HIDE DEF i
    <2>2. F[i] = f[<<F[i - 1], ts[i]>>] /\ F[i - 1] \in G[i - 1]
      BY <1>1, <2>1
    <2>3. F[i] \in G[i]
      BY <2>1, <2>2
    <2> QED BY <2>3 DEF i
  <1> HIDE DEF H
  <1>4. Len(ts) \in H
    BY <1>2, <1>3, NatSetInduction
  <1> QED BY <1>4 DEF H, F, Fold

-----------------------------------------------------------------------------
(* Sequences and the sets of their elements. *)

(* No element occurs twice. *)
Once(l) == \A a, b \in 1 .. Len(l) : l[a] = l[b] => a = b

(* x is put into the k elements of s, at place i; or place i is taken out. *)
Put1(u, s, k, i, x) ==
  \A j \in 1 .. k + 1 : u[j] = IF j < i THEN s[j] ELSE IF j = i THEN x ELSE s[j - 1]
Take1(u, s, k, i) ==
  \A j \in 1 .. k - 1 : u[j] = IF j < i THEN s[j] ELSE s[j + 1]

LEMMA Inserted ==
  ASSUME NEW X, NEW s \in Seq(X), NEW i \in 1 .. Len(s) + 1, NEW x \in X
  PROVE  /\ InsertAt(s, i, x) \in Seq(X)
         /\ Len(InsertAt(s, i, x)) = Len(s) + 1
         /\ Put1(InsertAt(s, i, x), s, Len(s), i, x)
         /\ InsertAt(s, i, x)[i] = x
         /\ \A j \in 1 .. Len(s) : j < i => InsertAt(s, i, x)[j] = s[j]
         /\ \A j \in 1 .. Len(s) : j >= i => InsertAt(s, i, x)[j + 1] = s[j]
  <1> DEFINE a == SubSeq(s, 1, i - 1)
             b == SubSeq(s, i, Len(s))
             u == (a \o <<x>>) \o b
  <1>1. a \in Seq(X) /\ Len(a) = i - 1 /\ \A j \in 1 .. i - 1 : a[j] = s[j]
    BY SMT
  <1>2. b \in Seq(X) /\ Len(b) = Len(s) - i + 1 /\ \A j \in 1 .. Len(b) : b[j] = s[j + i - 1]
    BY SMT
  <1>3. InsertAt(s, i, x) = u
    BY DEF InsertAt
  <1> HIDE DEF a, b
  <1>4. u \in Seq(X) /\ Len(u) = Len(s) + 1
    BY <1>1, <1>2
  <1>5. u[i] = x
    BY <1>1, <1>2
  <1>6. \A j \in 1 .. Len(s) : j < i => u[j] = s[j]
    BY <1>1, <1>2
  <1>7. ASSUME NEW j \in 1 .. Len(s), j >= i PROVE u[j + 1] = s[j]
    <2> DEFINE y == j + 1 - i
    <2>1. u[j + 1] = b[y]
      BY <1>1, <1>2, <1>7
    <2>2. y \in 1 .. Len(b) /\ y + i - 1 = j
      BY <1>2, <1>7
    <2> HIDE DEF y, u
    <2> QED BY <1>2, <2>1, <2>2
  <1> HIDE DEF u
  <1>8. Put1(u, s, Len(s), i, x)
    <2> SUFFICES ASSUME NEW j \in 1 .. Len(s) + 1
                 PROVE  u[j] = IF j < i THEN s[j] ELSE IF j = i THEN x ELSE s[j - 1]
      BY DEF Put1
    <2>1. CASE j < i
      BY <1>6, <2>1
    <2>2. CASE j = i
      BY <1>5, <2>2
    <2>3. CASE j > i
      <3> DEFINE h == j - 1
      <3>1. h \in 1 .. Len(s) /\ h >= i /\ h + 1 = j
        BY <2>3
      <3>2. u[h + 1] = s[h]
        <4> HIDE DEF h
        <4> QED BY <1>7, <3>1
      <3> QED BY <2>3, <3>1, <3>2
    <2> QED BY <2>1, <2>2, <2>3
  <1> QED BY <1>3, <1>4, <1>5, <1>6, <1>7, <1>8

LEMMA TakenAt ==
  ASSUME NEW X, NEW s \in Seq(X), NEW i \in 1 .. Len(s)
  PROVE  /\ RemoveAt(s, i) \in Seq(X)
         /\ Len(RemoveAt(s, i)) = Len(s) - 1
         /\ Take1(RemoveAt(s, i), s, Len(s), i)
         /\ \A j \in 1 .. Len(s) : j < i => RemoveAt(s, i)[j] = s[j]
         /\ \A j \in 1 .. Len(s) : j > i => RemoveAt(s, i)[j - 1] = s[j]
  <1> DEFINE a == SubSeq(s, 1, i - 1)
             b == SubSeq(s, i + 1, Len(s))
             u == a \o b
  <1>1. a \in Seq(X) /\ Len(a) = i - 1 /\ \A j \in 1 .. i - 1 : a[j] = s[j]
    BY SMT
  <1>2. b \in Seq(X) /\ Len(b) = Len(s) - i /\ \A j \in 1 .. Len(b) : b[j] = s[j + i]
    BY SMT
  <1>3. RemoveAt(s, i) = u
    BY DEF RemoveAt
  <1> HIDE DEF a, b
  <1>4. u \in Seq(X) /\ Len(u) = Len(s) - 1
    <2>1. a \in Seq(X) /\ b \in Seq(X)
      BY <1>1, <1>2
    <2>2. a \o b \in Seq(X) /\ Len(a \o b) = Len(a) + Len(b)
      BY <2>1
    <2>3. u \in Seq(X) /\ Len(u) = Len(a) + Len(b)
      BY <2>2
    <2> HIDE DEF u
    <2> QED BY <1>1, <1>2, <2>3
  <1>5. \A j \in 1 .. Len(s) : j < i => u[j] = s[j]
    BY <1>1, <1>2
  <1>6. ASSUME NEW j \in 1 .. Len(s), j > i PROVE u[j - 1] = s[j]
    <2>1. u[j - 1] = b[j - i]
      BY <1>1, <1>2, <1>6
    <2>2. j - i \in 1 .. Len(b)
      BY <1>2, <1>6
    <2> QED BY <1>2, <2>1, <2>2
  <1> HIDE DEF u
  <1>7. Take1(u, s, Len(s), i)
    <2> SUFFICES ASSUME NEW j \in 1 .. Len(s) - 1
                 PROVE  u[j] = IF j < i THEN s[j] ELSE s[j + 1]
      BY DEF Take1
    <2>1. CASE j < i
      BY <1>5, <2>1
    <2>2. CASE j >= i
      <3> DEFINE h == j + 1
      <3>1. h \in 1 .. Len(s) /\ h > i /\ h - 1 = j
        BY <2>2
      <3>2. u[h - 1] = s[h]
        <4> HIDE DEF h
        <4> QED BY <1>6, <3>1
      <3> QED BY <2>2, <3>1, <3>2
    <2> QED BY <2>1, <2>2
  <1> QED BY <1>3, <1>4, <1>5, <1>6, <1>7

(* The elements of a list into which one is put. *)
LEMMA InsertedSet ==
  ASSUME NEW X, NEW s \in Seq(X), NEW i \in 1 .. Len(s) + 1, NEW x \in X, Once(s), x \notin ToSet(s)
  PROVE  /\ Once(InsertAt(s, i, x))
         /\ ToSet(InsertAt(s, i, x)) = ToSet(s) \cup {x}
  <1> DEFINE u == InsertAt(s, i, x)
  <1>1. /\ u \in Seq(X) /\ Len(u) = Len(s) + 1 /\ u[i] = x
        /\ \A j \in 1 .. Len(s) : j < i => u[j] = s[j]
        /\ \A j \in 1 .. Len(s) : j >= i => u[j + 1] = s[j]
    <2>1. /\ InsertAt(s, i, x) \in Seq(X)
          /\ Len(InsertAt(s, i, x)) = Len(s) + 1
          /\ InsertAt(s, i, x)[i] = x
          /\ \A j \in 1 .. Len(s) : j < i => InsertAt(s, i, x)[j] = s[j]
          /\ \A j \in 1 .. Len(s) : j >= i => InsertAt(s, i, x)[j + 1] = s[j]
      BY Inserted
    <2> QED BY <2>1
  <1> DEFINE from(j) == IF j < i THEN j ELSE j - 1
  <1>2. \A j \in 1 .. Len(u) : j # i => from(j) \in 1 .. Len(s) /\ u[j] = s[from(j)]
    <2> HIDE DEF u
    <2> SUFFICES ASSUME NEW j \in 1 .. Len(u), j # i
                 PROVE  from(j) \in 1 .. Len(s) /\ u[j] = s[from(j)]
      OBVIOUS
    <2>1. CASE j < i
      BY <1>1, <2>1
    <2>2. CASE j > i
      <3>1. j - 1 \in 1 .. Len(s) /\ j - 1 >= i /\ (j - 1) + 1 = j
        BY <1>1, <2>2
      <3>2. u[(j - 1) + 1] = s[j - 1]
        BY <1>1, <3>1
      <3> QED BY <2>2, <3>1, <3>2
    <2> QED BY <1>1, <2>1, <2>2
  <1>3. x \notin ToSet(s) /\ Len(s) \in Nat /\ DOMAIN s = 1 .. Len(s)
    OBVIOUS
  <1>4. \A j \in 1 .. Len(s) : s[j] # x
    BY <1>3 DEF ToSet
  <1> HIDE DEF u
  <1>5. Once(u)
    <2> SUFFICES ASSUME NEW a \in 1 .. Len(u), NEW b \in 1 .. Len(u), u[a] = u[b] PROVE a = b
      BY DEF Once
    <2>1. CASE a = i
      BY <1>1, <1>2, <1>4, <2>1
    <2>2. CASE b = i
      BY <1>1, <1>2, <1>4, <2>2
    <2>3. CASE a # i /\ b # i
      <3>1. from(a) = from(b)
        BY <1>2, <2>3 DEF Once
      <3> QED BY <1>1, <2>3, <3>1
    <2> QED BY <2>1, <2>2, <2>3
  <1>6. ToSet(u) \subseteq ToSet(s) \cup {x}
    <2> SUFFICES ASSUME NEW j \in 1 .. Len(u) PROVE u[j] \in ToSet(s) \cup {x}
      BY <1>1 DEF ToSet
    <2> QED BY <1>1, <1>2, <1>3 DEF ToSet
  <1>7. ToSet(s) \cup {x} \subseteq ToSet(u)
    <2>1. DOMAIN u = 1 .. Len(s) + 1
      BY <1>1
    <2>2. x \in ToSet(u)
      BY <1>1, <1>3, <2>1 DEF ToSet
    <2>3. ASSUME NEW j \in 1 .. Len(s) PROVE s[j] \in ToSet(u)
      <3>1. j \in 1 .. Len(s) + 1 /\ j + 1 \in 1 .. Len(s) + 1
        BY <1>3
      <3>2. u[j] \in ToSet(u) /\ u[j + 1] \in ToSet(u)
        BY <2>1, <3>1 DEF ToSet
      <3>3. u[j] = s[j] \/ u[j + 1] = s[j]
        BY <1>1, <1>3
      <3> QED BY <3>2, <3>3
    <2> QED BY <1>3, <2>2, <2>3 DEF ToSet
  <1> QED BY <1>5, <1>6, <1>7 DEF u

(* And from which one is taken. *)
LEMMA RemovedSet ==
  ASSUME NEW X, NEW s \in Seq(X), NEW i \in 1 .. Len(s), Once(s)
  PROVE  /\ Once(RemoveAt(s, i))
         /\ ToSet(RemoveAt(s, i)) = ToSet(s) \ {s[i]}
  <1> DEFINE u == RemoveAt(s, i)
             from(j) == IF j < i THEN j ELSE j + 1
  <1>1. /\ u \in Seq(X) /\ Len(u) = Len(s) - 1
        /\ \A j \in 1 .. Len(s) : j < i => u[j] = s[j]
        /\ \A j \in 1 .. Len(s) : j > i => u[j - 1] = s[j]
    BY TakenAt
  <1>2. Len(s) \in Nat /\ DOMAIN s = 1 .. Len(s) /\ DOMAIN u = 1 .. Len(u)
    BY <1>1
  <1> HIDE DEF u
  <1>3. \A j \in 1 .. Len(u) : from(j) \in 1 .. Len(s) /\ from(j) # i /\ u[j] = s[from(j)]
    <2> SUFFICES ASSUME NEW j \in 1 .. Len(u)
                 PROVE  from(j) \in 1 .. Len(s) /\ from(j) # i /\ u[j] = s[from(j)]
      OBVIOUS
    <2>1. CASE j < i
      BY <1>1, <1>2, <2>1
    <2>2. CASE j >= i
      <3>1. j + 1 \in 1 .. Len(s) /\ j + 1 > i /\ (j + 1) - 1 = j
        BY <1>1, <1>2, <2>2
      <3>2. u[(j + 1) - 1] = s[j + 1]
        BY <1>1, <3>1
      <3> QED BY <2>2, <3>1, <3>2
    <2> QED BY <1>1, <2>1, <2>2
  <1>4. Once(u)
    <2> SUFFICES ASSUME NEW a \in 1 .. Len(u), NEW b \in 1 .. Len(u), u[a] = u[b] PROVE a = b
      BY DEF Once
    <2>1. from(a) = from(b)
      BY <1>3 DEF Once
    <2> QED BY <1>1, <2>1
  <1>5. ToSet(u) \subseteq ToSet(s) \ {s[i]}
    <2> SUFFICES ASSUME NEW j \in 1 .. Len(u) PROVE u[j] \in ToSet(s) \ {s[i]}
      BY <1>2 DEF ToSet
    <2>1. from(j) \in 1 .. Len(s) /\ from(j) # i /\ u[j] = s[from(j)]
      BY <1>3
    <2> HIDE DEF from
    <2> QED BY <1>2, <2>1 DEF ToSet, Once
  <1>6. ToSet(s) \ {s[i]} \subseteq ToSet(u)
    <2> SUFFICES ASSUME NEW j \in 1 .. Len(s), j # i PROVE s[j] \in ToSet(u)
      BY <1>2 DEF ToSet
    <2>1. CASE j < i
      <3>1. j \in 1 .. Len(u) /\ u[j] = s[j]
        BY <1>1, <1>2, <2>1
      <3> QED BY <1>2, <3>1 DEF ToSet
    <2>2. CASE j > i
      <3>1. j - 1 \in 1 .. Len(u) /\ u[j - 1] = s[j]
        BY <1>1, <1>2, <2>2
      <3> QED BY <1>2, <3>1 DEF ToSet
    <2> QED BY <2>1, <2>2
  <1> QED BY <1>4, <1>5, <1>6 DEF u

LEMMA ElementSet ==
  ASSUME NEW X, NEW s \in Seq(X)
  PROVE  IsFiniteSet(ToSet(s)) /\ ToSet(s) \subseteq X /\ (ToSet(s) = {} <=> Len(s) = 0)
  <1>1. DOMAIN s = 1 .. Len(s) /\ Len(s) \in Nat
    OBVIOUS
  <1>2. s \in Surjection(1 .. Len(s), ToSet(s))
    BY <1>1 DEF Surjection, ToSet
  <1>3. IsFiniteSet(1 .. Len(s))
    BY <1>1, FS_Interval
  <1>4. IsFiniteSet(ToSet(s))
    BY <1>2, <1>3, FS_Surjection
  <1>5. ToSet(s) \subseteq X
    BY <1>1 DEF ToSet
  <1>6. ToSet(s) = {} <=> Len(s) = 0
    <2>1. ASSUME Len(s) # 0 PROVE s[1] \in ToSet(s)
      BY <1>1, <2>1 DEF ToSet
    <2>2. ASSUME Len(s) = 0 PROVE ToSet(s) = {}
      BY <1>1, <2>2 DEF ToSet
    <2> QED BY <2>1, <2>2
  <1> QED BY <1>4, <1>5, <1>6

(* A permutation. *)
LEMMA Permuted ==
  ASSUME NEW X, NEW s \in Seq(X), Once(s),
         NEW f \in [DOMAIN s -> DOMAIN s], IsInjective(f)
  PROVE  LET u == [i \in DOMAIN s |-> s[f[i]]]
         IN  u \in Seq(X) /\ Len(u) = Len(s) /\ Once(u) /\ ToSet(u) = ToSet(s)
  <1> DEFINE D == 1 .. Len(s)
             u == [i \in DOMAIN s |-> s[f[i]]]
  <1>1. DOMAIN s = D /\ Len(s) \in Nat
    OBVIOUS
  <1>2. f \in [D -> D] /\ f \in Injection(D, D)
    BY <1>1 DEF IsInjective, Injection
  <1>3. IsFiniteSet(D)
    BY <1>1, FS_Interval
  <1>4. f \in Surjection(D, D)
    BY <1>2, <1>3, FS_Injection
  <1>5. u \in Seq(X) /\ Len(u) = Len(s) /\ DOMAIN u = D /\ \A i \in D : u[i] = s[f[i]]
    BY <1>1, <1>2
  <1>6. Once(u)
    <2> HIDE DEF u
    <2> SUFFICES ASSUME NEW a \in D, NEW b \in D, u[a] = u[b] PROVE a = b
      BY <1>5 DEF Once
    <2>1. f[a] \in D /\ f[b] \in D /\ s[f[a]] = s[f[b]]
      BY <1>2, <1>5
    <2>2. f[a] = f[b]
      BY <2>1 DEF Once
    <2>3. a \in DOMAIN f /\ b \in DOMAIN f
      BY <1>2
    <2> QED BY <2>2, <2>3 DEF IsInjective
  <1>7. ToSet(u) \subseteq ToSet(s)
    <2> HIDE DEF u
    <2> QED BY <1>1, <1>2, <1>5 DEF ToSet
  <1>8. ToSet(s) \subseteq ToSet(u)
    <2> SUFFICES ASSUME NEW j \in D PROVE s[j] \in ToSet(u)
      BY <1>1 DEF ToSet
    <2>1. PICK i \in D : f[i] = j
      BY <1>4 DEF Surjection
    <2> HIDE DEF u
    <2> QED BY <1>5, <2>1 DEF ToSet
  <1> QED BY <1>5, <1>6, <1>7, <1>8

(* The elements of a set, in the order of the list, and once if they are   *)
(* in it once.                                                             *)
LEMMA SelectedPart ==
  ASSUME NEW X, NEW l \in Seq(X), NEW S
  PROVE  Select(l, S) \in Seq(X) /\ ToSet(Select(l, S)) = ToSet(l) \cap S
  <1> DEFINE u == Select(l, S)
  <1>1. u \in Seq(X) /\ \E g : Picks(g, u, l, Len(l), S)
    BY SelectPicks
  <1> HIDE DEF u
  <1>2. PICK g : Picks(g, u, l, Len(l), S)
    BY <1>1
  <1>3. /\ g \in [1 .. Len(u) -> 1 .. Len(l)]
        /\ \A x \in 1 .. Len(u) : u[x] = l[g[x]] /\ l[g[x]] \in S
        /\ \A i \in 1 .. Len(l) : l[i] \in S => \E x \in 1 .. Len(u) : g[x] = i
    BY <1>2 DEF Picks
  <1>4. DOMAIN l = 1 .. Len(l) /\ DOMAIN u = 1 .. Len(u)
    BY <1>1
  <1>5. ToSet(u) \subseteq ToSet(l) \cap S
    <2> SUFFICES ASSUME NEW x \in 1 .. Len(u) PROVE u[x] \in ToSet(l) \cap S
      BY <1>4 DEF ToSet
    <2> QED BY <1>3, <1>4 DEF ToSet
  <1>6. ToSet(l) \cap S \subseteq ToSet(u)
    <2> SUFFICES ASSUME NEW i \in 1 .. Len(l), l[i] \in S PROVE l[i] \in ToSet(u)
      BY <1>4 DEF ToSet
    <2>1. PICK x \in 1 .. Len(u) : g[x] = i
      BY <1>3
    <2>2. u[x] = l[i]
      BY <1>3, <2>1
    <2> QED BY <1>4, <2>2 DEF ToSet
  <1> QED BY <1>1, <1>5, <1>6 DEF u

LEMMA SelectedSet ==
  ASSUME NEW X, NEW l \in Seq(X), Once(l), NEW S
  PROVE  /\ Select(l, S) \in Seq(X) /\ Once(Select(l, S))
         /\ ToSet(Select(l, S)) = ToSet(l) \cap S
  <1> DEFINE u == Select(l, S)
  <1>1. u \in Seq(X) /\ \E g : Picks(g, u, l, Len(l), S)
    BY SelectPicks
  <1> HIDE DEF u
  <1>2. PICK g : Picks(g, u, l, Len(l), S)
    BY <1>1
  <1>3. /\ g \in [1 .. Len(u) -> 1 .. Len(l)]
        /\ \A x \in 1 .. Len(u) : u[x] = l[g[x]]
        /\ \A x, y \in 1 .. Len(u) : x < y => g[x] < g[y]
    BY <1>2 DEF Picks
  <1>4. Len(l) \in Nat /\ Len(u) \in Nat
    BY <1>1
  <1>5. Once(u)
    <2> SUFFICES ASSUME NEW a \in 1 .. Len(u), NEW b \in 1 .. Len(u), u[a] = u[b] PROVE a = b
      BY DEF Once
    <2>1. g[a] \in 1 .. Len(l) /\ g[b] \in 1 .. Len(l) /\ l[g[a]] = l[g[b]]
      BY <1>3
    <2>2. g[a] = g[b]
      BY <2>1 DEF Once
    <2>3. ~(a < b) /\ ~(b < a)
      <3>1. ~(g[a] < g[b]) /\ ~(g[b] < g[a])
        BY <1>4, <2>1, <2>2
      <3> QED BY <1>3, <3>1
    <2> QED BY <1>4, <2>3
  <1> QED BY <1>1, <1>5, SelectedPart DEF u

LEMMA OnceSize ==
  ASSUME NEW X, NEW l \in Seq(X), Once(l)
  PROVE  IsFiniteSet(ToSet(l)) /\ Cardinality(ToSet(l)) = Len(l)
  <1>1. DOMAIN l = 1 .. Len(l) /\ Len(l) \in Nat
    OBVIOUS
  <1>2. l \in Bijection(1 .. Len(l), ToSet(l))
    <2>1. l \in Surjection(1 .. Len(l), ToSet(l))
      BY <1>1 DEF Surjection, ToSet
    <2>2. l \in [1 .. Len(l) -> ToSet(l)]
      BY <2>1 DEF Surjection
    <2>3. l \in Injection(1 .. Len(l), ToSet(l))
      BY <1>1, <2>2 DEF Injection, IsInjective, Once
    <2> QED BY <2>1, <2>3 DEF Bijection
  <1>3. IsFiniteSet(1 .. Len(l)) /\ Cardinality(1 .. Len(l)) = Len(l)
    BY <1>1, FS_Interval
  <1> QED BY <1>2, <1>3, FS_Bijection DEF ExistsBijection

LEMMA Concatenated ==
  ASSUME NEW X, NEW a \in Seq(X), NEW b \in Seq(X)
  PROVE  /\ a \o b \in Seq(X) /\ Len(a \o b) = Len(a) + Len(b)
         /\ \A x \in 1 .. Len(a) : (a \o b)[x] = a[x]
         /\ \A y \in 1 .. Len(b) : (a \o b)[Len(a) + y] = b[y]
  <1>1. a \o b \in Seq(X)
    OBVIOUS
  <1>2. Len(a \o b) = Len(a) + Len(b)
    OBVIOUS
  <1>3. ASSUME NEW x \in 1 .. Len(a) PROVE (a \o b)[x] = a[x]
    OBVIOUS
  <1>4. ASSUME NEW y \in 1 .. Len(b) PROVE (a \o b)[Len(a) + y] = b[y]
    <2>1. Len(a) \in Nat /\ Len(b) \in Nat
      OBVIOUS
    <2>2. /\ Len(a) + y \in 1 .. Len(a) + Len(b)
          /\ ~(Len(a) + y <= Len(a)) /\ (Len(a) + y) - Len(a) = y
      BY <2>1
    <2> QED BY <2>1, <2>2
  <1> QED BY <1>1, <1>2, <1>3, <1>4

LEMMA LeastOf ==
  ASSUME NEW S, S \subseteq Nat, S # {}
  PROVE  Min(S) \in S
  <1> DEFINE R == OpToRel(<, Nat)
  <1>1. \E d \in S : \A e \in S : ~(<<e, d>> \in R)
    <2> HIDE DEF R
    <2>1. IsWellFoundedOn(R, Nat)
      BY NatLessThanWellFounded DEF R
    <2> QED BY <2>1, WFMin
  <1>2. PICK d \in S : \A e \in S : ~(<<e, d>> \in R)
    BY <1>1
  <1>3. ASSUME NEW e \in S PROVE d <= e
    <2>1. e \in Nat /\ d \in Nat
      OBVIOUS
    <2>2. e < d => <<e, d>> \in R
      BY <2>1 DEF OpToRel
    <2> HIDE DEF R
    <2>3. ~(e < d)
      BY <1>2, <2>2
    <2> QED BY <2>1, <2>3
  <1> QED BY <1>2, <1>3 DEF Min
=============================================================================
