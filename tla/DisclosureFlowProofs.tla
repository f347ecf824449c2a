------------------------- MODULE DisclosureFlowProofs -------------------------
(***************************************************************************)
(* Proofs about DisclosureFlow: the states of the bloc are stacked the way *)
(* their parentState fields are declared, and the dialog is on top of      *)
(* valid choices.                                                          *)
(***************************************************************************)
EXTENDS DisclosureFlow, WellFoundedInduction, TLAPS

-----------------------------------------------------------------------------
(* Induction, for sets of numbers instead of predicates. *)

\* A set with 0, and with each number up to N the next, has all of them.
LEMMA Induction ==
  ASSUME NEW N \in Nat, NEW T, 0 \in T, \A n \in 0 .. N - 1 : n \in T => n + 1 \in T
  PROVE  \A n \in 0 .. N : n \in T
<1> DEFINE U == {n \in 0 .. N : n \notin T}
<1>1. ASSUME U # {} PROVE FALSE
  <2>0. U \in SUBSET Nat /\ U # {}
    BY <1>1
  <2> HIDE DEF U
  <2>1. IsWellFoundedOn(OpToRel(<, Nat), Nat)
    BY NatLessThanWellFounded
  <2>2. PICK n \in U : \A m \in U : ~(<<m, n>> \in OpToRel(<, Nat))
    BY <2>0, <2>1, WFMin
  <2> USE DEF U
  <2>3. n \in 0 .. N /\ n # 0
    BY <2>2
  <2>4. n - 1 \in 0 .. N - 1 /\ n - 1 \in 0 .. N /\ n - 1 \in Nat /\ n \in Nat /\ n - 1 < n
    BY <2>3
  <2>5. <<n - 1, n>> \in OpToRel(<, Nat)
    BY <2>4 DEF OpToRel
  <2>6. n - 1 \in T
    BY <2>2, <2>4, <2>5
  <2>7. (n - 1) + 1 = n
    BY <2>3
  <2> QED
    BY <2>2, <2>4, <2>6, <2>7
<1> QED
  BY <1>1

-----------------------------------------------------------------------------
(* What Without computes. *)

\* f has what is left of the first elements of s, for up to N of them.
Leaves(f, s, S, N) ==
  f = [n \in 0 .. N |->
         IF n = 0 THEN << >>
         ELSE IF s[n] \in S THEN f[n - 1] ELSE Append(f[n - 1], s[n])]

LEMMA LeavesFirst ==
  ASSUME NEW s, NEW S, NEW N \in Nat, NEW f, Leaves(f, s, S, N)
  PROVE  f[0] = << >>
BY DEF Leaves

LEMMA LeavesNext ==
  ASSUME NEW s, NEW S, NEW N \in Nat, NEW f, Leaves(f, s, S, N), NEW n \in 0 .. N - 1
  PROVE  f[n + 1] = IF s[n + 1] \in S THEN f[n] ELSE Append(f[n], s[n + 1])
<1>1. n + 1 \in 0 .. N /\ n + 1 # 0 /\ (n + 1) - 1 = n
  OBVIOUS
<1>2. PICK m : m = n + 1
  OBVIOUS
<1>3. f[m] = IF s[m] \in S THEN f[m - 1] ELSE Append(f[m - 1], s[m])
  BY <1>1, <1>2 DEF Leaves
<1> QED
  BY <1>1, <1>2, <1>3

LEMMA LeavesExists ==
  ASSUME NEW s, NEW S, NEW N \in Nat
  PROVE  \E f : Leaves(f, s, S, N)
<1> DEFINE T == {n \in Nat : \E f : Leaves(f, s, S, n)}
<1>1. 0 \in T
  <2>1. Leaves([n \in 0 .. 0 |-> << >>], s, S, 0)
    BY DEF Leaves
  <2> QED
    BY <2>1
<1>2. ASSUME NEW n \in 0 .. N - 1, n \in T PROVE n + 1 \in T
  <2>1. PICK f : Leaves(f, s, S, n)
    BY <1>2
  <2> DEFINE last == IF s[n + 1] \in S THEN f[n] ELSE Append(f[n], s[n + 1])
             g == [m \in 0 .. n + 1 |-> IF m = n + 1 THEN last ELSE f[m]]
  <2>2. \A m \in 0 .. n : g[m] = f[m]
    OBVIOUS
  <2>3. g[n + 1] = last
    OBVIOUS
  <2>4. ASSUME NEW m \in 0 .. n + 1
        PROVE  g[m] = IF m = 0 THEN << >>
                      ELSE IF s[m] \in S THEN g[m - 1] ELSE Append(g[m - 1], s[m])
    <3>1. CASE m = n + 1
      <4>1. m # 0 /\ m - 1 = n /\ n \in 0 .. n
        BY <3>1
      <4>2. g[m - 1] = f[n]
        BY <2>2, <4>1
      <4> QED
        BY <2>3, <3>1, <4>1, <4>2
    <3>2. CASE m # n + 1
      <4>1. m \in 0 .. n /\ (m = 0 \/ m - 1 \in 0 .. n)
        BY <3>2
      <4>2. g[m] = f[m] /\ (m = 0 \/ g[m - 1] = f[m - 1])
        BY <2>2, <4>1
      <4>3. f[m] = IF m = 0 THEN << >>
                   ELSE IF s[m] \in S THEN f[m - 1] ELSE Append(f[m - 1], s[m])
        BY <2>1, <4>1 DEF Leaves
      <4> QED
        BY <4>2, <4>3
    <3> QED
      BY <3>1, <3>2
  <2>5. g = [m \in 0 .. n + 1 |-> g[m]]
    OBVIOUS
  <2> HIDE DEF g
  <2>6. Leaves(g, s, S, n + 1)
    BY <2>4, <2>5 DEF Leaves
  <2> QED
    BY <2>6
<1>3. \A n \in 0 .. N : n \in T
  BY <1>1, <1>2, Induction
<1> QED
  BY <1>3

LEMMA WithoutLeaves ==
  ASSUME NEW s, NEW S, Len(s) \in Nat
  PROVE  \E f : Leaves(f, s, S, Len(s)) /\ Without(s, S) = f[Len(s)]
<1> DEFINE kept[n \in 0 .. Len(s)] ==
             IF n = 0 THEN << >>
             ELSE IF s[n] \in S THEN kept[n - 1] ELSE Append(kept[n - 1], s[n])
<1>1. \E f : Leaves(f, s, S, Len(s))
  BY LeavesExists
<1>2. Leaves(kept, s, S, Len(s))
  <2>1. kept = CHOOSE f : Leaves(f, s, S, Len(s))
    BY DEF Leaves
  <2> HIDE DEF kept
  <2> QED
    BY <1>1, <2>1
<1>3. Without(s, S) = kept[Len(s)]
  BY DEF Without
<1> QED
  BY <1>2, <1>3

\* What is left of a sequence without repetitions has none, and is what is not
\* in S.
LEMMA WithoutType ==
  ASSUME NEW D, NEW s \in Seq(D), IsInjective(s), NEW S
  PROVE  /\ Without(s, S) \in Seq(D) /\ IsInjective(Without(s, S))
         /\ ToSet(Without(s, S)) \subseteq ToSet(s) \ S
<1> DEFINE OK(t, n) == /\ t \in Seq(D) /\ IsInjective(t)
                       /\ \A i \in DOMAIN t : \E m \in 1 .. n : t[i] = s[m] /\ s[m] \notin S
<1>0. Len(s) \in Nat /\ DOMAIN s = 1 .. Len(s)
  OBVIOUS
<1>1. PICK f : Leaves(f, s, S, Len(s)) /\ Without(s, S) = f[Len(s)]
  BY <1>0, WithoutLeaves
<1> DEFINE T == {n \in 0 .. Len(s) : OK(f[n], n)}
<1>2. 0 \in T
  <2>1. f[0] = << >>
    BY <1>0, <1>1, LeavesFirst
  <2>2. OK(<< >>, 0)
    BY DEF IsInjective
  <2>3. OK(f[0], 0)
    BY <2>1, <2>2
  <2> QED
    BY <1>0, <2>3
<1>3. ASSUME NEW n \in 0 .. Len(s) - 1, n \in T PROVE n + 1 \in T
  <2>0. n + 1 \in 0 .. Len(s) /\ n + 1 \in 1 .. Len(s) /\ n \in Nat
    BY <1>0
  <2>1. f[n + 1] = IF s[n + 1] \in S THEN f[n] ELSE Append(f[n], s[n + 1])
    BY <1>0, <1>1, LeavesNext
  <2>2. OK(f[n], n)
    BY <1>3
  <2> DEFINE t == f[n]
  <2> HIDE DEF t
  <2>3. CASE s[n + 1] \in S
    <3>1. OK(f[n], n + 1)
      BY <2>0, <2>2
    <3> QED
      BY <2>0, <2>1, <2>3, <3>1
  <2>4. CASE s[n + 1] \notin S
    <3>0. t \in Seq(D) /\ OK(t, n) /\ s[n + 1] \in D
      BY <1>0, <2>0, <2>2 DEF t
    <3>1. /\ Append(t, s[n + 1]) \in Seq(D) /\ Len(t) \in Nat /\ DOMAIN t = 1 .. Len(t)
          /\ DOMAIN Append(t, s[n + 1]) = 1 .. Len(t) + 1
          /\ \A i \in 1 .. Len(t) : Append(t, s[n + 1])[i] = t[i]
          /\ Append(t, s[n + 1])[Len(t) + 1] = s[n + 1]
      BY <3>0
    <3>2. \A i \in 1 .. Len(t) : \E m \in 1 .. n : t[i] = s[m] /\ s[m] \notin S
      BY <3>0, <3>1
    <3>3. \A i \in 1 .. Len(t) : t[i] # s[n + 1]
      BY <1>0, <2>0, <3>2 DEF IsInjective
    <3>4. \A i, j \in 1 .. Len(t) : t[i] = t[j] => i = j
      BY <3>0, <3>1 DEF IsInjective
    <3> DEFINE u == Append(t, s[n + 1])
    <3> HIDE DEF u
    <3>5. IsInjective(u)
      <4>1. SUFFICES ASSUME NEW i \in DOMAIN u, NEW j \in DOMAIN u, u[i] = u[j] PROVE i = j
        BY DEF IsInjective
      <4>2. i \in 1 .. Len(t) \/ i = Len(t) + 1
        BY <3>1 DEF u
      <4>3. j \in 1 .. Len(t) \/ j = Len(t) + 1
        BY <3>1 DEF u
      <4> QED
        BY <3>1, <3>3, <3>4, <4>1, <4>2, <4>3 DEF u
    <3>6. \A i \in DOMAIN u : \E m \in 1 .. n + 1 : u[i] = s[m] /\ s[m] \notin S
      <4>1. SUFFICES ASSUME NEW i \in DOMAIN u
                     PROVE  \E m \in 1 .. n + 1 : u[i] = s[m] /\ s[m] \notin S
        OBVIOUS
      <4>2. i \in 1 .. Len(t) \/ i = Len(t) + 1
        BY <3>1 DEF u
      <4>3. n + 1 \in 1 .. n + 1 /\ 1 .. n \subseteq 1 .. n + 1
        BY <2>0
      <4>4. CASE i \in 1 .. Len(t)
        BY <3>1, <3>2, <4>3, <4>4 DEF u
      <4>5. CASE i = Len(t) + 1
        BY <2>4, <3>1, <4>3, <4>5 DEF u
      <4> QED
        BY <4>2, <4>4, <4>5
    <3>7. OK(u, n + 1) /\ f[n + 1] = u
      BY <2>1, <2>4, <3>1, <3>5, <3>6 DEF t, u
    <3> QED
      BY <2>0, <3>7
  <2> QED
    BY <2>3, <2>4
<1> HIDE DEF T
<1>4. \A n \in 0 .. Len(s) : n \in T
  BY <1>0, <1>2, <1>3, Induction
<1>5. OK(f[Len(s)], Len(s))
  BY <1>0, <1>4 DEF T
<1> QED
  BY <1>0, <1>1, <1>5 DEF ToSet

\* h gives the place in s of each element of t, which is what is left of the first
\* n elements of s.
Places(h, t, s, S, n) ==
  /\ h \in [1 .. Len(t) -> 1 .. n]
  /\ \A i, j \in 1 .. Len(t) : i < j => h[i] < h[j]
  /\ \A i \in 1 .. Len(t) : t[i] = s[h[i]] /\ s[h[i]] \notin S
  /\ \A m \in 1 .. n : s[m] \notin S => \E i \in 1 .. Len(t) : h[i] = m

LEMMA PlacesNext ==
  ASSUME NEW D, NEW s \in Seq(D), NEW S, NEW n \in 0 .. Len(s) - 1, NEW t \in Seq(D), NEW h,
         Places(h, t, s, S, n)
  PROVE  IF s[n + 1] \in S THEN Places(h, t, s, S, n + 1)
         ELSE \E g : Places(g, Append(t, s[n + 1]), s, S, n + 1)
<1>0. Len(s) \in Nat /\ Len(t) \in Nat /\ n \in Nat
  OBVIOUS
<1>1. \A m \in 1 .. n + 1 : m \in 1 .. n \/ m = n + 1
  BY <1>0
<1>2. CASE s[n + 1] \in S
  BY <1>0, <1>1, <1>2 DEF Places
<1>3. CASE s[n + 1] \notin S
  <2> DEFINE u == Append(t, s[n + 1])
             g == [i \in 1 .. Len(t) + 1 |-> IF i = Len(t) + 1 THEN n + 1 ELSE h[i]]
  <2>1. s[n + 1] \in D
    BY <1>0
  <2>2. /\ u \in Seq(D) /\ Len(u) = Len(t) + 1 /\ u[Len(t) + 1] = s[n + 1]
        /\ \A i \in 1 .. Len(t) : u[i] = t[i]
    BY <2>1
  <2> HIDE DEF u
  <2>3. \A i \in 1 .. Len(u) : i \in 1 .. Len(t) \/ i = Len(t) + 1
    BY <1>0, <2>2
  <2>4. /\ g[Len(t) + 1] = n + 1
        /\ \A i \in 1 .. Len(t) : g[i] = h[i] /\ h[i] \in 1 .. n
    BY <1>0 DEF Places
  <2>5. DOMAIN g = 1 .. Len(t) + 1 /\ g = [i \in DOMAIN g |-> g[i]]
    OBVIOUS
  <2> HIDE DEF g
  <2>10. g \in [1 .. Len(u) -> 1 .. n + 1]
    <3>1. 1 .. Len(u) = 1 .. Len(t) + 1
      BY <2>2
    <3>2. ASSUME NEW i \in 1 .. Len(u) PROVE g[i] \in 1 .. n + 1
      BY <1>0, <2>3, <2>4
    <3> QED
      BY <2>5, <3>1, <3>2
  <2>6. ASSUME NEW i \in 1 .. Len(u), NEW j \in 1 .. Len(u), i < j PROVE g[i] < g[j]
    <3>1. i \in 1 .. Len(t)
      BY <1>0, <2>2, <2>6
    <3>2. CASE j \in 1 .. Len(t)
      BY <2>4, <2>6, <3>1, <3>2 DEF Places
    <3>3. CASE j = Len(t) + 1
      BY <1>0, <2>4, <3>1, <3>3
    <3> QED
      BY <2>3, <3>2, <3>3
  <2>7. \A i \in 1 .. Len(u) : u[i] = s[g[i]] /\ s[g[i]] \notin S
    BY <1>3, <2>2, <2>3, <2>4 DEF Places
  <2>8. ASSUME NEW m \in 1 .. n + 1, s[m] \notin S PROVE \E i \in 1 .. Len(u) : g[i] = m
    <3>1. CASE m \in 1 .. n
      <4>1. PICK i \in 1 .. Len(t) : h[i] = m
        BY <2>8, <3>1 DEF Places
      <4> QED
        BY <1>0, <2>2, <2>4, <4>1
    <3>2. CASE m = n + 1
      BY <1>0, <2>2, <2>4, <3>2
    <3> QED
      BY <1>1, <3>1, <3>2
  <2>9. Places(g, u, s, S, n + 1)
    BY <2>6, <2>7, <2>8, <2>10 DEF Places
  <2> QED
    BY <1>3, <2>9 DEF u
<1> QED
  BY <1>2, <1>3

\* What is left of a sequence is what is not in S, in the order it had.
LEMMA WithoutPlaces ==
  ASSUME NEW D, NEW s \in Seq(D), NEW S
  PROVE  /\ Without(s, S) \in Seq(D)
         /\ \E h : Places(h, Without(s, S), s, S, Len(s))
<1>0. Len(s) \in Nat
  OBVIOUS
<1>1. PICK f : Leaves(f, s, S, Len(s)) /\ Without(s, S) = f[Len(s)]
  BY <1>0, WithoutLeaves
<1> DEFINE T == {n \in 0 .. Len(s) : f[n] \in Seq(D) /\ \E h : Places(h, f[n], s, S, n)}
<1>2. 0 \in T
  <2>1. f[0] = << >>
    BY <1>0, <1>1, LeavesFirst
  <2>2. Places(<< >>, << >>, s, S, 0)
    BY DEF Places
  <2>3. \E h : Places(h, f[0], s, S, 0)
    BY <2>1, <2>2
  <2>4. f[0] \in Seq(D) /\ 0 \in 0 .. Len(s)
    <3>1. << >> \in Seq(D)
      OBVIOUS
    <3> QED
      BY <1>0, <2>1, <3>1
  <2> QED
    BY <2>3, <2>4
<1>3. ASSUME NEW n \in 0 .. Len(s) - 1, n \in T PROVE n + 1 \in T
  <2>0. n + 1 \in 0 .. Len(s) /\ n + 1 \in 1 .. Len(s)
    BY <1>0
  <2>1. f[n + 1] = IF s[n + 1] \in S THEN f[n] ELSE Append(f[n], s[n + 1])
    BY <1>0, <1>1, LeavesNext
  <2>2. PICK h : f[n] \in Seq(D) /\ Places(h, f[n], s, S, n)
    BY <1>3
  <2>3. IF s[n + 1] \in S THEN Places(h, f[n], s, S, n + 1)
        ELSE \E g : Places(g, Append(f[n], s[n + 1]), s, S, n + 1)
    BY <2>2, PlacesNext
  <2>4. f[n + 1] \in Seq(D)
    BY <2>0, <2>1, <2>2
  <2>5. \E g : Places(g, f[n + 1], s, S, n + 1)
    BY <2>1, <2>3
  <2> QED
    BY <2>0, <2>4, <2>5
<1> HIDE DEF T
<1>4. \A n \in 0 .. Len(s) : n \in T
  BY <1>0, <1>2, <1>3, Induction
<1>5. Len(s) \in T
  BY <1>0, <1>4
<1> QED
  BY <1>1, <1>5 DEF T

LEMMA WithoutSet ==
  ASSUME NEW D, NEW s \in Seq(D), NEW S
  PROVE  /\ ToSet(Without(s, S)) = ToSet(s) \ S
         /\ Len(Without(s, S)) <= Len(s)
<1> DEFINE u == Without(s, S)
<1>1. u \in Seq(D) /\ \E h : Places(h, u, s, S, Len(s))
  BY WithoutPlaces
<1> HIDE DEF u
<1>2. PICK h : Places(h, u, s, S, Len(s))
  BY <1>1
<1>3. Len(u) \in Nat /\ Len(s) \in Nat /\ DOMAIN u = 1 .. Len(u) /\ DOMAIN s = 1 .. Len(s)
  BY <1>1
<1>4. ToSet(u) = ToSet(s) \ S
  <2>1. ASSUME NEW c \in ToSet(u) PROVE c \in ToSet(s) \ S
    <3>1. PICK i \in 1 .. Len(u) : u[i] = c
      BY <1>3 DEF ToSet
    <3> QED
      BY <1>2, <1>3, <3>1 DEF Places, ToSet
  <2>2. ASSUME NEW c \in ToSet(s) \ S PROVE c \in ToSet(u)
    <3>1. PICK m \in 1 .. Len(s) : s[m] = c
      BY <1>3 DEF ToSet
    <3>2. PICK i \in 1 .. Len(u) : h[i] = m
      BY <1>2, <3>1 DEF Places
    <3> QED
      BY <1>2, <1>3, <3>1, <3>2 DEF Places, ToSet
  <2> QED
    BY <2>1, <2>2
<1>5. Len(u) <= Len(s)
  <2> DEFINE T == {n \in Nat : n <= Len(u) => (n = 0 \/ h[n] >= n)}
  <2>1. 0 \in T
    OBVIOUS
  <2>2. ASSUME NEW n \in 0 .. Len(u) - 1, n \in T PROVE n + 1 \in T
    <3>0. n \in Nat /\ n <= Len(u) /\ n + 1 \in 1 .. Len(u) /\ (n # 0 => n \in 1 .. Len(u))
      BY <1>3
    <3>1. n + 1 \in 1 .. Len(u) /\ h[n + 1] \in 1 .. Len(s)
      BY <1>2, <3>0 DEF Places
    <3>2. CASE n = 0
      BY <1>3, <3>1, <3>2
    <3>3. CASE n # 0
      <4>1. n \in 1 .. Len(u) /\ n < n + 1 /\ h[n] \in 1 .. Len(s)
        BY <1>2, <3>0, <3>3 DEF Places
      <4>2. h[n] < h[n + 1]
        BY <1>2, <3>1, <4>1 DEF Places
      <4>4. h[n] >= n
        BY <2>2, <3>0, <3>3
      <4>3. h[n + 1] >= n + 1
        BY <1>3, <3>0, <3>1, <4>1, <4>2, <4>4
      <4> QED
        BY <3>0, <4>3
    <3> QED
      BY <3>2, <3>3
  <2> HIDE DEF T
  <2>3. Len(u) \in T
    <3>1. \A n \in 0 .. Len(u) : n \in T
      BY <1>3, <2>1, <2>2, Induction
    <3> QED
      BY <1>3, <3>1
  <2>4. CASE Len(u) = 0
    BY <1>3, <2>4
  <2>5. CASE Len(u) # 0
    <3>1. Len(u) \in 1 .. Len(u)
      BY <1>3, <2>5
    <3>2. h[Len(u)] \in 1 .. Len(s) /\ h[Len(u)] >= Len(u)
      BY <1>2, <1>3, <2>3, <2>5, <3>1 DEF Places, T
    <3> QED
      BY <1>3, <3>2
  <2> QED
    BY <2>4, <2>5
<1> QED
  BY <1>4, <1>5 DEF u

LEMMA OnlySet ==
  ASSUME NEW D, NEW s \in Seq(D), NEW S
  PROVE  Only(s, S) \in Seq(D) /\ ToSet(Only(s, S)) = ToSet(s) \cap S
BY WithoutPlaces, WithoutSet DEF Only

-----------------------------------------------------------------------------
(* Stacks of states. *)

WalkKinds == {"issueWizard", "changeChoice", "addOptionalData"}
ChoiceKinds == {"previouslyAdded", "overview"}

ChoicesFields == {"kind", "planned", "popup", "required", "optional", "changeable", "more"}

FrameOK(f) ==
  /\ "kind" \in DOMAIN f
  /\ f.kind \in ChoiceKinds => DOMAIN f = ChoicesFields

IsStack(fl) ==
  /\ \E S : fl \in Seq(S)
  /\ fl # << >> /\ fl[1].kind \in Roots
  /\ \A n \in 2 .. Len(fl) : fl[n - 1].kind \in Parents(fl[n].kind)
  /\ \A n \in 1 .. Len(fl) : FrameOK(fl[n])

LEMMA ParentsOf ==
  /\ \A kind \in Roots : Parents(kind) = {}
  /\ \A kind : Parents(kind) \cap {"credentialInformation", "initial", "introduction",
                                   "finished"} = {}
  /\ \A kind \in {"changeChoice", "addOptionalData"} : Parents(kind) = ChoiceKinds
  /\ Parents("credentialInformation") = WalkKinds
  /\ Parents("obtainCredentials") = WalkKinds \cup {"wrong"}
  /\ Parents("wrong") = WalkKinds \cup {"wrong", "obtainCredentials"}
BY DEF Parents, Roots, ChoiceKinds, WalkKinds

LEMMA StackBounds ==
  ASSUME NEW fl, IsStack(fl)
  PROVE  /\ Len(fl) \in Nat /\ Len(fl) >= 1 /\ DOMAIN fl = 1 .. Len(fl)
         /\ Last(fl) = fl[Len(fl)] /\ FrameOK(Last(fl))
<1>1. PICK S : fl \in Seq(S)
  BY DEF IsStack
<1>2. Len(fl) \in Nat /\ Len(fl) >= 1 /\ DOMAIN fl = 1 .. Len(fl)
  BY <1>1 DEF IsStack
<1> QED
  BY <1>2 DEF IsStack, Last

\* The lowest state is a root, and no other.
LEMMA StackRoots ==
  ASSUME NEW fl, IsStack(fl), NEW n \in 1 .. Len(fl)
  PROVE  fl[n].kind \in Roots <=> n = 1
<1>1. Len(fl) \in Nat
  BY StackBounds
<1>2. CASE n = 1
  BY <1>2 DEF IsStack
<1>3. CASE n # 1
  <2>1. n \in 2 .. Len(fl)
    BY <1>1, <1>3
  <2>2. fl[n - 1].kind \in Parents(fl[n].kind)
    BY <2>1 DEF IsStack
  <2> QED
    BY <1>3, <2>2, ParentsOf
<1> QED
  BY <1>2, <1>3

LEMMA SingleStack ==
  ASSUME NEW f, FrameOK(f), f.kind \in Roots
  PROVE  IsStack(<<f>>) /\ Last(<<f>>) = f
<1>1. <<f>> \in Seq({f}) /\ Len(<<f>>) = 1 /\ <<f>>[1] = f /\ <<f>> # << >>
  OBVIOUS
<1> HIDE DEF Last
<1>2. \A n \in 1 .. Len(<<f>>) : n = 1
  BY <1>1
<1>3. 2 .. Len(<<f>>) = {}
  BY <1>1
<1> QED
  BY <1>1, <1>2, <1>3 DEF IsStack, Last

LEMMA PushStack ==
  ASSUME NEW fl, IsStack(fl), NEW f, FrameOK(f), Last(fl).kind \in Parents(f.kind)
  PROVE  IsStack(Append(fl, f)) /\ Last(Append(fl, f)) = f
<1>1. PICK S : fl \in Seq(S)
  BY DEF IsStack
<1>2. Len(fl) \in Nat /\ Len(fl) >= 1 /\ Last(fl) = fl[Len(fl)]
  BY StackBounds
<1> DEFINE g == Append(fl, f)
<1>3. /\ g \in Seq(S \cup {f}) /\ Len(g) = Len(fl) + 1
      /\ \A n \in 1 .. Len(fl) : g[n] = fl[n]
      /\ g[Len(fl) + 1] = f
  BY <1>1
<1> HIDE DEF g
<1>4. g # << >> /\ g[1].kind \in Roots
  BY <1>2, <1>3 DEF IsStack
<1>5. \A n \in 1 .. Len(g) : FrameOK(g[n])
  <2>1. \A n \in 1 .. Len(g) : n \in 1 .. Len(fl) \/ n = Len(fl) + 1
    BY <1>2, <1>3
  <2> QED
    BY <1>3, <2>1 DEF IsStack
<1>6. ASSUME NEW n \in 2 .. Len(g) PROVE g[n - 1].kind \in Parents(g[n].kind)
  <2>1. CASE n = Len(fl) + 1
    <3>1. n - 1 = Len(fl) /\ Len(fl) \in 1 .. Len(fl)
      BY <1>2, <2>1
    <3> QED
      BY <1>2, <1>3, <2>1, <3>1
  <2>2. CASE n # Len(fl) + 1
    <3>1. n \in 2 .. Len(fl) /\ n \in 1 .. Len(fl) /\ n - 1 \in 1 .. Len(fl)
      BY <1>2, <1>3, <2>2
    <3> QED
      BY <1>3, <3>1 DEF IsStack
  <2> QED
    BY <2>1, <2>2
<1>7. Last(g) = f
  BY <1>3 DEF Last
<1> QED
  BY <1>3, <1>4, <1>5, <1>6, <1>7 DEF IsStack, g

LEMMA CutStack ==
  ASSUME NEW fl, IsStack(fl), NEW k \in 1 .. Len(fl)
  PROVE  /\ IsStack(SubSeq(fl, 1, k)) /\ Len(SubSeq(fl, 1, k)) = k
         /\ \A n \in 1 .. k : SubSeq(fl, 1, k)[n] = fl[n]
         /\ Last(SubSeq(fl, 1, k)) = fl[k]
<1>1. PICK S : fl \in Seq(S)
  BY DEF IsStack
<1>2. Len(fl) \in Nat
  BY StackBounds
<1> DEFINE g == SubSeq(fl, 1, k)
<1>3. g \in Seq(S) /\ Len(g) = k /\ \A n \in 1 .. k : g[n] = fl[n]
  BY <1>1, <1>2
<1> HIDE DEF g
<1>4. g # << >> /\ g[1].kind \in Roots /\ Last(g) = fl[k]
  <2>1. 1 \in 1 .. k /\ k \in 1 .. k
    BY <1>2
  <2> QED
    BY <1>3, <2>1 DEF IsStack, Last
<1>5. \A n \in 1 .. Len(g) : FrameOK(g[n])
  BY <1>2, <1>3 DEF IsStack
<1>6. ASSUME NEW n \in 2 .. Len(g) PROVE g[n - 1].kind \in Parents(g[n].kind)
  <2>1. n \in 2 .. Len(fl) /\ n \in 1 .. k /\ n - 1 \in 1 .. k
    BY <1>2, <1>3
  <2> QED
    BY <1>3, <2>1 DEF IsStack
<1> QED
  BY <1>3, <1>4, <1>5, <1>6 DEF IsStack, g

\* A state that is no root has a parent of its kind.
LEMMA FrontStack ==
  ASSUME NEW fl, IsStack(fl), Last(fl).kind \notin Roots
  PROVE  /\ Len(fl) >= 2 /\ IsStack(Front(fl)) /\ Last(Front(fl)) = fl[Len(fl) - 1]
         /\ Last(Front(fl)).kind \in Parents(Last(fl).kind)
<1>1. Len(fl) \in Nat /\ Len(fl) >= 1 /\ Last(fl) = fl[Len(fl)]
  BY StackBounds
<1>2. Len(fl) # 1
  BY <1>1 DEF IsStack
<1>3. Len(fl) >= 2 /\ Len(fl) - 1 \in 1 .. Len(fl) /\ Len(fl) \in 2 .. Len(fl)
  <2>1. PICK N \in Nat : N = Len(fl) /\ N >= 1 /\ N # 1
    BY <1>1, <1>2
  <2>2. N >= 2 /\ N - 1 \in 1 .. N /\ N \in 2 .. N
    BY <2>1
  <2> QED
    BY <2>1, <2>2
<1>4. IsStack(Front(fl)) /\ Last(Front(fl)) = fl[Len(fl) - 1]
  BY <1>3, CutStack DEF Front
<1> QED
  BY <1>1, <1>3, <1>4 DEF IsStack

\* A state is replaced by one of its kind, or a root by a root.
LEMMA ReplaceStack ==
  ASSUME NEW fl, IsStack(fl), NEW f, FrameOK(f),
         f.kind = Last(fl).kind \/ {f.kind, Last(fl).kind} \subseteq Roots
  PROVE  IsStack(Append(Front(fl), f)) /\ Last(Append(Front(fl), f)) = f
<1>1. CASE Last(fl).kind \notin Roots
  <2>1. IsStack(Front(fl)) /\ Last(Front(fl)).kind \in Parents(f.kind)
    BY <1>1, FrontStack
  <2> QED
    BY <2>1, PushStack
<1>2. CASE Last(fl).kind \in Roots
  <2>1. Len(fl) \in Nat /\ Len(fl) >= 1 /\ Last(fl) = fl[Len(fl)] /\ Len(fl) \in 1 .. Len(fl)
    BY StackBounds
  <2>2. Len(fl) = 1
    BY <1>2, <2>1, StackRoots
  <2>3. PICK S : fl \in Seq(S)
    BY DEF IsStack
  <2>4. Front(fl) = << >>
    BY <2>2, <2>3 DEF Front
  <2>5. Append(Front(fl), f) = <<f>>
    BY <2>4
  <2> QED
    BY <1>2, <2>5, SingleStack
<1> QED
  BY <1>1, <1>2

-----------------------------------------------------------------------------
(* What the app knows, and what a change of the session makes of the stack. *)

KnownOK(e) ==
  /\ DOMAIN e = {"wallet", "candidates", "newly"}
  /\ e.wallet \in Seq(Credential) /\ IsInjective(e.wallet)
  /\ e.newly \in Seq(Credential) /\ IsInjective(e.newly)
  /\ \A c, d \in ToSet(e.wallet) : c.type = d.type /\ c.type \in Singleton => c = d
  /\ DOMAIN e.candidates = DOMAIN request

\* What became of a stack whose last state was of this kind.
MappedOK(r, e, kind) ==
  /\ KnownOK(r.env) /\ r.env.wallet = e.wallet
  /\ IsStack(r.flow)
  /\ kind \in WalkKinds \cup {"wrong", "obtainCredentials"} => Last(r.flow).kind \in {kind, "wrong"}

LEMMA ChoicesFrameOK ==
  ASSUME NEW kind, NEW candidates, NEW choices, NEW changeable, NEW more, NEW planned
  PROVE  /\ FrameOK(ChoicesFrame(kind, candidates, choices, changeable, more, planned))
         /\ ChoicesFrame(kind, candidates, choices, changeable, more, planned).kind = kind
BY DEF ChoicesFrame, FrameOK, ChoicesFields

LEMMA OverviewOK ==
  ASSUME NEW candidates, NEW choices, NEW planned
  PROVE  /\ FrameOK(Overview(candidates, choices, planned))
         /\ Overview(candidates, choices, planned).kind = "overview"
BY DEF Overview, ChoicesFrame, FrameOK, ChoicesFields

LEMMA StartOK ==
  ASSUME NEW e
  PROVE  IsStack(<<Start(e)>>)
<1>1. FrameOK(Start(e)) /\ Start(e).kind \in {"overview", "issueWizard"}
  <2> DEFINE f(options, order, selected, obtained, planned) ==
               [kind |-> "issueWizard", options |-> options, order |-> order,
                selected |-> selected, obtained |-> obtained, planned |-> planned]
  <2>1. \/ \E candidates, choices, planned : Start(e) = Overview(candidates, choices, planned)
        \/ \E options, order, selected, obtained, planned :
             Start(e) = f(options, order, selected, obtained, planned)
    BY DEF Start
  <2>2. \A options, order, selected, obtained, planned :
          LET g == f(options, order, selected, obtained, planned)
          IN  FrameOK(g) /\ g.kind = "issueWizard"
    BY DEF FrameOK, ChoiceKinds
  <2> HIDE DEF f
  <2> QED
    BY <2>1, <2>2, OverviewOK
<1> QED
  BY <1>1, SingleStack DEF Roots

\* A report is put on top of the stack, and what it reports is forgotten.
LEMMA ValidateOK ==
  ASSUME NEW e, KnownOK(e), NEW fl, IsStack(fl), NEW templates,
         Last(fl).kind \in WalkKinds \cup {"wrong", "obtainCredentials"}
  PROVE  MappedOK(ValidateCredentialsObtained(templates, e, fl), e, Last(fl).kind)
<1> DEFINE r == ValidateCredentialsObtained(templates, e, fl)
<1>1. \/ r = Outcome(e, fl)
      \/ \E mismatched, wrong, S :
           r = Outcome([e EXCEPT !.newly = Without(@, S)],
                       Append(fl, WrongCredentials(mismatched, wrong)))
  BY DEF ValidateCredentialsObtained
<1>2. CASE r = Outcome(e, fl)
  BY <1>2 DEF MappedOK, Outcome
<1>3. ASSUME NEW mismatched, NEW wrong, NEW S,
             r = Outcome([e EXCEPT !.newly = Without(@, S)],
                         Append(fl, WrongCredentials(mismatched, wrong)))
      PROVE  MappedOK(r, e, Last(fl).kind)
  <2> DEFINE known == [e EXCEPT !.newly = Without(@, S)]
             f == WrongCredentials(mismatched, wrong)
  <2>1. FrameOK(f) /\ f.kind = "wrong"
    BY DEF FrameOK, WrongCredentials, ChoiceKinds
  <2>2. /\ DOMAIN known = {"wallet", "candidates", "newly"}
        /\ known.wallet = e.wallet /\ known.candidates = e.candidates
        /\ known.newly = Without(e.newly, S)
    BY DEF KnownOK
  <2>3. known.newly \in Seq(Credential) /\ IsInjective(known.newly)
    BY <2>2, WithoutType DEF KnownOK
  <2> HIDE DEF known, f
  <2>4. KnownOK(known)
    BY <2>2, <2>3 DEF KnownOK
  <2>5. IsStack(Append(fl, f)) /\ Last(Append(fl, f)).kind = "wrong"
    BY <2>1, PushStack, ParentsOf
  <2>6. r.env = known /\ r.flow = Append(fl, f)
    BY <1>3 DEF Outcome, known, f
  <2> QED
    BY <2>2, <2>4, <2>5, <2>6 DEF MappedOK
<1> QED
  BY <1>1, <1>2, <1>3

\* A state that is rebuilt keeps its kind, and is validated if it obtains something.
LEMMA RefreshBaseShape ==
  ASSUME NEW e, NEW fl, IsStack(fl), Last(fl).kind \in WalkKinds \cup ChoiceKinds
  PROVE  \E g : /\ FrameOK(g) /\ g.kind = Last(fl).kind
                /\ \/ RefreshBase(e, fl) = Outcome(e, Append(Front(fl), g))
                   \/ /\ g.kind \in WalkKinds
                      /\ \E templates : RefreshBase(e, fl) =
                           ValidateCredentialsObtained(templates, e, Append(Front(fl), g))
<1> DEFINE f == Last(fl)
<1>0. FrameOK(f)
  BY StackBounds
<1>6. ASSUME NEW g, "kind" \in DOMAIN g, g.kind \in WalkKinds PROVE FrameOK(g)
  BY <1>6 DEF FrameOK, WalkKinds, ChoiceKinds
<1>1. CASE f.kind = "issueWizard"
  <2>1. RefreshBase(e, fl) = RefreshIssueWizard(e, fl)
    BY <1>1 DEF RefreshBase
  <2>2. PICK obtained, selected, planned, templates :
          LET g == [f EXCEPT !.obtained = obtained, !.selected = selected, !.planned = planned]
          IN  RefreshIssueWizard(e, fl) \in
                {Outcome(e, Append(Front(fl), g)),
                 ValidateCredentialsObtained(templates, e, Append(Front(fl), g))}
    BY DEF RefreshIssueWizard
  <2> DEFINE g == [f EXCEPT !.obtained = obtained, !.selected = selected, !.planned = planned]
  <2>3. "kind" \in DOMAIN g /\ g.kind = f.kind
    BY <1>0 DEF FrameOK
  <2>4. RefreshBase(e, fl) \in
          {Outcome(e, Append(Front(fl), g)),
           ValidateCredentialsObtained(templates, e, Append(Front(fl), g))}
    BY <2>1, <2>2
  <2> HIDE DEF f, g
  <2>5. FrameOK(g) /\ g.kind \in WalkKinds
    BY <1>1, <1>6, <2>3 DEF WalkKinds
  <2> QED
    BY <2>3, <2>4, <2>5 DEF f
<1>2. CASE f.kind = "changeChoice"
  <2>1. RefreshBase(e, fl) = RefreshChangeChoice(e, fl)
    BY <1>2 DEF RefreshBase
  <2>2. PICK discon, selected, templates :
          LET g == [f EXCEPT !.discon = discon, !.selected = selected]
          IN  RefreshChangeChoice(e, fl) =
                ValidateCredentialsObtained(templates, e, Append(Front(fl), g))
    BY DEF RefreshChangeChoice
  <2> DEFINE g == [f EXCEPT !.discon = discon, !.selected = selected]
  <2>3. "kind" \in DOMAIN g /\ g.kind = f.kind
    BY <1>0 DEF FrameOK
  <2>4. RefreshBase(e, fl) = ValidateCredentialsObtained(templates, e, Append(Front(fl), g))
    BY <2>1, <2>2
  <2> HIDE DEF f, g
  <2>5. FrameOK(g) /\ g.kind \in WalkKinds
    BY <1>2, <1>6, <2>3 DEF WalkKinds
  <2> QED
    BY <2>3, <2>4, <2>5 DEF f
<1>3. CASE f.kind = "addOptionalData"
  <2> DEFINE g == AddOptionalData(e, Last(Front(fl)), f.discon, SelectedCon(f))
  <2>1. "kind" \in DOMAIN g /\ g.kind = f.kind
    BY <1>3 DEF AddOptionalData
  <2>2. RefreshBase(e, fl) = Outcome(e, Append(Front(fl), g))
    BY <1>3 DEF RefreshBase
  <2> HIDE DEF f, g
  <2>3. FrameOK(g)
    BY <1>3, <1>6, <2>1 DEF WalkKinds
  <2> QED
    BY <2>1, <2>2, <2>3 DEF f
<1>4. CASE f.kind \in ChoiceKinds
  <2>1. \E required, optional, changeable :
          RefreshOverview(e, f) = [f EXCEPT !.required = required, !.optional = optional,
                                            !.popup = FALSE, !.changeable = changeable]
    BY DEF RefreshOverview
  <2>2. \A required, optional, changeable :
          LET g == [f EXCEPT !.required = required, !.optional = optional,
                             !.popup = FALSE, !.changeable = changeable]
          IN  DOMAIN g = DOMAIN f /\ g.kind = f.kind /\ ~g.popup
    BY <1>0, <1>4 DEF FrameOK, ChoicesFields
  <2>3. RefreshBase(e, fl) = Outcome(e, Append(Front(fl), RefreshOverview(e, f)))
    BY <1>4 DEF RefreshBase, ChoiceKinds
  <2> DEFINE g == RefreshOverview(e, f)
  <2>4. DOMAIN g = DOMAIN f /\ g.kind = f.kind /\ ~g.popup
    BY <2>1, <2>2
  <2> HIDE DEF f, g
  <2>5. FrameOK(g)
    BY <1>0, <2>4 DEF FrameOK
  <2> QED
    BY <2>3, <2>4, <2>5 DEF f, g
<1> QED
  BY <1>1, <1>2, <1>3, <1>4 DEF WalkKinds

LEMMA RefreshBaseOK ==
  ASSUME NEW e, KnownOK(e), NEW fl, IsStack(fl), ~PassesOn(Last(fl))
  PROVE  MappedOK(RefreshBase(e, fl), e, Last(fl).kind)
<1> DEFINE f == Last(fl)
<1>1. CASE f.kind \in WalkKinds \cup ChoiceKinds
  <2>1. PICK g :
          /\ FrameOK(g) /\ g.kind = f.kind
          /\ \/ RefreshBase(e, fl) = Outcome(e, Append(Front(fl), g))
             \/ /\ g.kind \in WalkKinds
                /\ \E templates : RefreshBase(e, fl) =
                     ValidateCredentialsObtained(templates, e, Append(Front(fl), g))
    BY <1>1, RefreshBaseShape
  <2>2. IsStack(Append(Front(fl), g)) /\ Last(Append(Front(fl), g)) = g
    BY <2>1, ReplaceStack
  <2>3. MappedOK(Outcome(e, Append(Front(fl), g)), e, f.kind)
    BY <2>1, <2>2 DEF MappedOK, Outcome
  <2>4. g.kind \in WalkKinds =>
          \A templates : MappedOK(ValidateCredentialsObtained(templates, e, Append(Front(fl), g)),
                                  e, g.kind)
    BY <2>2, ValidateOK
  <2> QED
    BY <2>1, <2>3, <2>4
<1>2. CASE f.kind \notin WalkKinds \cup ChoiceKinds
  <2>1. RefreshBase(e, fl) = Outcome(e, <<Start(e)>>)
    BY <1>2 DEF RefreshBase, WalkKinds, ChoiceKinds
  <2> QED
    BY <1>2, <2>1, StartOK DEF MappedOK, Outcome, WalkKinds, PassesOn
<1> QED
  BY <1>1, <1>2

-----------------------------------------------------------------------------
(* Reports of wrong credentials. *)

\* A new report, one that is not among the old states, is off the list of what was
\* added, and what left the list is in a report.
ReportsOK(r, e, old) ==
  /\ ToSet(r.env.newly) \subseteq ToSet(e.newly)
  /\ \A n \in 1 .. Len(r.flow) :
       r.flow[n].kind = "wrong" /\ r.flow[n] \notin old
         => ToSet(r.flow[n].got) \cap ToSet(r.env.newly) = {}
  /\ \A c \in ToSet(e.newly) \ ToSet(r.env.newly) :
       \E n \in 1 .. Len(r.flow) : r.flow[n].kind = "wrong" /\ c \in ToSet(r.flow[n].got)

LEMMA PushReports ==
  ASSUME NEW e, NEW old, NEW known, NEW fl, IsStack(fl), ReportsOK(Outcome(known, fl), e, old),
         NEW f, f.kind # "wrong" \/ f \in old
  PROVE  ReportsOK(Outcome(known, Append(fl, f)), e, old)
<1>1. PICK S : fl \in Seq(S)
  BY DEF IsStack
<1>2. Len(fl) \in Nat
  BY <1>1
<1> DEFINE g == Append(fl, f)
<1>3. /\ Len(g) = Len(fl) + 1 /\ g[Len(fl) + 1] = f
      /\ \A n \in 1 .. Len(fl) : g[n] = fl[n]
  BY <1>1
<1> HIDE DEF g
<1>4. \A n \in 1 .. Len(g) : n \in 1 .. Len(fl) \/ n = Len(fl) + 1
  BY <1>2, <1>3
<1>5. \A n \in 1 .. Len(fl) : n \in 1 .. Len(g)
  BY <1>2, <1>3
<1>6. /\ ToSet(known.newly) \subseteq ToSet(e.newly)
      /\ \A n \in 1 .. Len(fl) :
           fl[n].kind = "wrong" /\ fl[n] \notin old
             => ToSet(fl[n].got) \cap ToSet(known.newly) = {}
      /\ \A c \in ToSet(e.newly) \ ToSet(known.newly) :
           \E n \in 1 .. Len(fl) : fl[n].kind = "wrong" /\ c \in ToSet(fl[n].got)
  BY DEF ReportsOK, Outcome
<1>7. \A n \in 1 .. Len(g) :
        g[n].kind = "wrong" /\ g[n] \notin old => ToSet(g[n].got) \cap ToSet(known.newly) = {}
  BY <1>3, <1>4, <1>6
<1>8. \A c \in ToSet(e.newly) \ ToSet(known.newly) :
        \E n \in 1 .. Len(g) : g[n].kind = "wrong" /\ c \in ToSet(g[n].got)
  BY <1>3, <1>5, <1>6
<1> QED
  BY <1>6, <1>7, <1>8 DEF ReportsOK, Outcome, g

LEMMA ValidateReports ==
  ASSUME NEW e, NEW old, NEW known, KnownOK(known), NEW fl, IsStack(fl),
         ReportsOK(Outcome(known, fl), e, old), NEW templates
  PROVE  ReportsOK(ValidateCredentialsObtained(templates, known, fl), e, old)
<1> DEFINE r == ValidateCredentialsObtained(templates, known, fl)
<1>1. \/ r = Outcome(known, fl)
      \/ \E mismatched, wrong :
           r = Outcome([known EXCEPT !.newly = Without(@, ToSet(wrong))],
                       Append(fl, WrongCredentials(mismatched, wrong)))
  BY DEF ValidateCredentialsObtained
<1>2. ASSUME NEW mismatched, NEW wrong,
             r = Outcome([known EXCEPT !.newly = Without(@, ToSet(wrong))],
                         Append(fl, WrongCredentials(mismatched, wrong)))
      PROVE  ReportsOK(r, e, old)
  <2> DEFINE rest == [known EXCEPT !.newly = Without(@, ToSet(wrong))]
             f == WrongCredentials(mismatched, wrong)
             g == Append(fl, f)
  <2>1. f.kind = "wrong" /\ f.got = wrong
    BY DEF WrongCredentials
  <2>2. rest.newly = Without(known.newly, ToSet(wrong))
    BY DEF KnownOK
  <2>3. ToSet(rest.newly) = ToSet(known.newly) \ ToSet(wrong)
    BY <2>2, WithoutSet DEF KnownOK
  <2> HIDE DEF rest, f
  <2>4. PICK S : fl \in Seq(S)
    BY DEF IsStack
  <2>5. Len(fl) \in Nat
    BY <2>4
  <2>6. /\ Len(g) = Len(fl) + 1 /\ g[Len(fl) + 1] = f
        /\ \A n \in 1 .. Len(fl) : g[n] = fl[n]
    BY <2>4
  <2> HIDE DEF g
  <2>7. /\ \A n \in 1 .. Len(g) : n \in 1 .. Len(fl) \/ n = Len(fl) + 1
        /\ \A n \in 1 .. Len(fl) : n \in 1 .. Len(g)
        /\ Len(fl) + 1 \in 1 .. Len(g)
    BY <2>5, <2>6
  <2>8. /\ ToSet(known.newly) \subseteq ToSet(e.newly)
        /\ \A n \in 1 .. Len(fl) :
             fl[n].kind = "wrong" /\ fl[n] \notin old
               => ToSet(fl[n].got) \cap ToSet(known.newly) = {}
        /\ \A c \in ToSet(e.newly) \ ToSet(known.newly) :
             \E n \in 1 .. Len(fl) : fl[n].kind = "wrong" /\ c \in ToSet(fl[n].got)
    BY DEF ReportsOK, Outcome
  <2>9. \A n \in 1 .. Len(g) :
          g[n].kind = "wrong" /\ g[n] \notin old => ToSet(g[n].got) \cap ToSet(rest.newly) = {}
    BY <2>1, <2>3, <2>6, <2>7, <2>8
  <2>10. \A c \in ToSet(e.newly) \ ToSet(rest.newly) :
           \E n \in 1 .. Len(g) : g[n].kind = "wrong" /\ c \in ToSet(g[n].got)
    <3>1. SUFFICES ASSUME NEW c \in ToSet(e.newly) \ ToSet(rest.newly)
                   PROVE  \E n \in 1 .. Len(g) : g[n].kind = "wrong" /\ c \in ToSet(g[n].got)
      OBVIOUS
    <3>2. CASE c \in ToSet(wrong)
      BY <2>1, <2>6, <2>7, <3>2
    <3>3. CASE c \notin ToSet(known.newly)
      BY <2>6, <2>7, <2>8, <3>3
    <3> QED
      BY <2>3, <3>2, <3>3
  <2>11. ReportsOK(Outcome(rest, g), e, old)
    BY <2>3, <2>8, <2>9, <2>10 DEF ReportsOK, Outcome
  <2> QED
    BY <1>2, <2>11 DEF rest, f, g
<1> QED
  BY <1>1, <1>2

-----------------------------------------------------------------------------
(* The recursion of the map over the parent states. *)

\* f maps the lowest states of the stack, up to N of them.
Maps(f, e, stack, N) ==
  f = [n \in 1 .. N |->
         IF PassesOn(stack[n]) THEN Lifted(e, f[n - 1], stack[n])
         ELSE RefreshBase(e, SubSeq(stack, 1, n))]

LEMMA MapsNext ==
  ASSUME NEW e, NEW stack, NEW N \in Nat, NEW f, Maps(f, e, stack, N), NEW n \in 1 .. N
  PROVE  f[n] = IF PassesOn(stack[n]) THEN Lifted(e, f[n - 1], stack[n])
                ELSE RefreshBase(e, SubSeq(stack, 1, n))
BY DEF Maps

LEMMA MapsExists ==
  ASSUME NEW e, NEW stack, ~PassesOn(stack[1]), NEW N \in Nat
  PROVE  \E f : Maps(f, e, stack, N)
<1> DEFINE T == {n \in Nat : \E f : Maps(f, e, stack, n)}
<1>1. 0 \in T
  <2>1. Maps([n \in 1 .. 0 |-> 0], e, stack, 0)
    BY DEF Maps
  <2> QED
    BY <2>1
<1>2. ASSUME NEW n \in 0 .. N - 1, n \in T PROVE n + 1 \in T
  <2>0. n \in Nat
    OBVIOUS
  <2>1. PICK f : Maps(f, e, stack, n)
    BY <1>2
  <2> DEFINE new == IF PassesOn(stack[n + 1]) THEN Lifted(e, f[n], stack[n + 1])
                    ELSE RefreshBase(e, SubSeq(stack, 1, n + 1))
             g == [m \in 1 .. n + 1 |-> IF m = n + 1 THEN new ELSE f[m]]
  <2>2. \A m \in 1 .. n : g[m] = f[m]
    OBVIOUS
  <2>3. g[n + 1] = new
    OBVIOUS
  <2>4. ASSUME NEW m \in 1 .. n + 1
        PROVE  g[m] = IF PassesOn(stack[m]) THEN Lifted(e, g[m - 1], stack[m])
                      ELSE RefreshBase(e, SubSeq(stack, 1, m))
    <3>1. CASE m = n + 1 /\ n = 0
      BY <2>3, <3>1
    <3>2. CASE m = n + 1 /\ n # 0
      <4>1. m - 1 = n /\ n \in 1 .. n
        BY <3>2
      <4>2. g[m - 1] = f[n]
        BY <2>2, <4>1
      <4> HIDE DEF g
      <4> QED
        BY <2>3, <3>2, <4>2
    <3>3. CASE m # n + 1
      <4>1. m \in 1 .. n /\ (m = 1 \/ m - 1 \in 1 .. n)
        BY <3>3
      <4>2. g[m] = f[m] /\ (m = 1 \/ g[m - 1] = f[m - 1])
        BY <2>2, <4>1
      <4>3. f[m] = IF PassesOn(stack[m]) THEN Lifted(e, f[m - 1], stack[m])
                   ELSE RefreshBase(e, SubSeq(stack, 1, m))
        BY <2>0, <2>1, <4>1, MapsNext
      <4> HIDE DEF g
      <4> QED
        BY <4>1, <4>2, <4>3
    <3> QED
      BY <3>1, <3>2, <3>3
  <2>5. g = [m \in 1 .. n + 1 |-> g[m]]
    OBVIOUS
  <2> HIDE DEF g
  <2>6. Maps(g, e, stack, n + 1)
    BY <2>4, <2>5 DEF Maps
  <2> QED
    BY <2>6
<1>3. \A n \in 0 .. N : n \in T
  BY <1>1, <1>2, Induction
<1> QED
  BY <1>3

\* A state that is passed on goes back on top of its parent, or of the report
\* that was made in its place.
LEMMA LiftedOK ==
  ASSUME NEW e, NEW r, NEW kind, MappedOK(r, e, kind), NEW f, FrameOK(f), PassesOn(f),
         kind \in Parents(f.kind)
  PROVE  MappedOK(Lifted(e, r, f), e, f.kind)
<1>1. /\ KnownOK(r.env) /\ r.env.wallet = e.wallet /\ IsStack(r.flow)
      /\ Last(r.flow).kind \in {kind, "wrong"}
  BY ParentsOf DEF MappedOK, PassesOn
<1>2. Last(r.flow).kind \in Parents(f.kind)
  BY <1>1, ParentsOf DEF PassesOn
<1>3. CASE f.kind = "wrong"
  <2>1. IsStack(Append(r.flow, f)) /\ Last(Append(r.flow, f)) = f
    BY <1>1, <1>2, PushStack
  <2>2. Lifted(e, r, f) = Outcome(r.env, Append(r.flow, f))
    BY <1>3 DEF Lifted
  <2> QED
    BY <1>1, <2>1, <2>2 DEF MappedOK, Outcome
<1>4. CASE f.kind = "obtainCredentials"
  <2>1. Lifted(e, r, f) = RefreshObtainedCredentials(e, r, f)
    BY <1>4 DEF Lifted
  <2>2. PICK obtained, templates :
          LET g == [f EXCEPT !.obtained = obtained]
          IN  RefreshObtainedCredentials(e, r, f) \in
                {Outcome(r.env, Append(r.flow, g)),
                 ValidateCredentialsObtained(templates, r.env, Append(r.flow, g))}
    BY DEF RefreshObtainedCredentials
  <2> DEFINE g == [f EXCEPT !.obtained = obtained]
  <2>3. "kind" \in DOMAIN g /\ g.kind = f.kind
    BY DEF FrameOK
  <2>4. Lifted(e, r, f) \in
          {Outcome(r.env, Append(r.flow, g)),
           ValidateCredentialsObtained(templates, r.env, Append(r.flow, g))}
    BY <2>1, <2>2
  <2> HIDE DEF g
  <2>5. FrameOK(g)
    BY <1>4, <2>3 DEF FrameOK, ChoiceKinds
  <2>6. IsStack(Append(r.flow, g)) /\ Last(Append(r.flow, g)) = g
    BY <1>1, <1>2, <2>3, <2>5, PushStack
  <2>7. CASE Lifted(e, r, f) = Outcome(r.env, Append(r.flow, g))
    BY <1>1, <2>3, <2>6, <2>7 DEF MappedOK, Outcome
  <2>8. CASE Lifted(e, r, f) = ValidateCredentialsObtained(templates, r.env, Append(r.flow, g))
    <3>1. MappedOK(ValidateCredentialsObtained(templates, r.env, Append(r.flow, g)),
                   r.env, g.kind)
      BY <1>1, <1>4, <2>3, <2>6, ValidateOK
    <3> QED
      BY <1>1, <2>3, <2>8, <3>1 DEF MappedOK
  <2> QED
    BY <2>4, <2>7, <2>8
<1> QED
  BY <1>3, <1>4 DEF PassesOn

\* The map and what it has made at each level of the recursion.
Levels(f, e, fl) ==
  /\ IsStack(Affected(fl)) /\ ~PassesOn(Affected(fl)[1])
  /\ Maps(f, e, Affected(fl), Len(Affected(fl)))
  /\ MapSessionStateToBlocState(e, fl) = f[Len(Affected(fl))]
  /\ \A n \in 1 .. Len(Affected(fl)) : MappedOK(f[n], e, Affected(fl)[n].kind)

LEMMA MapLevels ==
  ASSUME NEW e, KnownOK(e), NEW fl, IsStack(fl)
  PROVE  \E f : Levels(f, e, fl)
<1> DEFINE stack == Affected(fl)
           mapped[n \in DOMAIN stack] ==
             IF PassesOn(stack[n]) THEN Lifted(e, mapped[n - 1], stack[n])
             ELSE RefreshBase(e, SubSeq(stack, 1, n))
<1>1. IsStack(stack)
  BY FrontStack DEF Affected, Roots
<1>2. MapSessionStateToBlocState(e, fl) = mapped[Len(stack)]
  BY DEF MapSessionStateToBlocState
<1>3. mapped = CHOOSE f : f = [n \in DOMAIN stack |->
                 IF PassesOn(stack[n]) THEN Lifted(e, f[n - 1], stack[n])
                 ELSE RefreshBase(e, SubSeq(stack, 1, n))]
  OBVIOUS
<1> HIDE DEF stack, mapped
<1>4. Len(stack) \in Nat /\ Len(stack) >= 1 /\ DOMAIN stack = 1 .. Len(stack)
  BY <1>1, StackBounds
<1>5. ~PassesOn(stack[1])
  BY <1>1 DEF IsStack, Roots, PassesOn
<1>6. Maps(mapped, e, stack, Len(stack))
  <2>1. \E f : Maps(f, e, stack, Len(stack))
    BY <1>4, <1>5, MapsExists
  <2>2. mapped = CHOOSE f : Maps(f, e, stack, Len(stack))
    BY <1>3, <1>4 DEF Maps
  <2> QED
    BY <2>1, <2>2
<1> DEFINE T == {n \in 0 .. Len(stack) : n = 0 \/ MappedOK(mapped[n], e, stack[n].kind)}
<1>7. 0 \in T
  BY <1>4
<1>8. ASSUME NEW n \in 0 .. Len(stack) - 1, n \in T PROVE n + 1 \in T
  <2>1. PICK k : k = n + 1
    OBVIOUS
  <2>2. k \in 1 .. Len(stack) /\ k - 1 = n /\ k \in 0 .. Len(stack)
    BY <1>4, <2>1
  <2>3. mapped[k] = IF PassesOn(stack[k]) THEN Lifted(e, mapped[k - 1], stack[k])
                    ELSE RefreshBase(e, SubSeq(stack, 1, k))
    BY <1>4, <1>6, <2>2, MapsNext
  <2>4. FrameOK(stack[k])
    BY <1>1, <2>2 DEF IsStack
  <2>5. CASE PassesOn(stack[k])
    <3>1. k # 1
      BY <1>5, <2>5
    <3>2. k \in 2 .. Len(stack) /\ n # 0
      BY <1>4, <2>2, <3>1
    <3>3. stack[n].kind \in Parents(stack[k].kind)
      BY <1>1, <2>2, <3>2 DEF IsStack
    <3>4. MappedOK(mapped[n], e, stack[n].kind)
      BY <1>8, <3>2
    <3>5. MappedOK(mapped[k], e, stack[k].kind)
      BY <2>2, <2>3, <2>4, <2>5, <3>3, <3>4, LiftedOK
    <3> QED
      BY <2>1, <2>2, <3>5
  <2>6. CASE ~PassesOn(stack[k])
    <3>1. IsStack(SubSeq(stack, 1, k)) /\ Last(SubSeq(stack, 1, k)) = stack[k]
      BY <1>1, <2>2, CutStack
    <3>2. MappedOK(mapped[k], e, stack[k].kind)
      BY <2>3, <2>6, <3>1, RefreshBaseOK
    <3> QED
      BY <2>1, <2>2, <3>2
  <2> QED
    BY <2>5, <2>6
<1> HIDE DEF T
<1>9. \A n \in 0 .. Len(stack) : n \in T
  BY <1>4, <1>7, <1>8, Induction
<1>10. ASSUME NEW n \in 1 .. Len(stack) PROVE MappedOK(mapped[n], e, stack[n].kind)
  <2>1. n \in 0 .. Len(stack) /\ n # 0
    BY <1>4
  <2> QED
    BY <1>9, <2>1 DEF T
<1> QED
  BY <1>1, <1>2, <1>5, <1>6, <1>10 DEF Levels, stack

LEMMA MapOK ==
  ASSUME NEW e, KnownOK(e), NEW fl, IsStack(fl)
  PROVE  LET r == MapSessionStateToBlocState(e, fl)
         IN  KnownOK(r.env) /\ r.env.wallet = e.wallet /\ IsStack(r.flow)
<1>1. PICK f : Levels(f, e, fl)
  BY MapLevels
<1>2. Len(Affected(fl)) \in 1 .. Len(Affected(fl))
  BY <1>1, StackBounds DEF Levels
<1> QED
  BY <1>1, <1>2 DEF Levels, MappedOK

\* What holds of level 1 if it is passed nothing, and of a level if it holds of the
\* one it is passed, holds of the map.
LEMMA MapInduction ==
  ASSUME NEW e, NEW fl, NEW f, Levels(f, e, fl), NEW T,
         \A n \in 1 .. Len(Affected(fl)) :
           IF PassesOn(Affected(fl)[n])
           THEN n - 1 \in 1 .. Len(Affected(fl)) /\ n - 1 \in T => n \in T
           ELSE n \in T
  PROVE  \A n \in 1 .. Len(Affected(fl)) : n \in T
<1> DEFINE stack == Affected(fl)
           U == {n \in 0 .. Len(stack) : n = 0 \/ n \in T}
<1>1. Len(stack) \in Nat /\ Len(stack) >= 1 /\ ~PassesOn(stack[1])
  BY StackBounds DEF Levels
<1>2. 0 \in U
  BY <1>1
<1>3. ASSUME NEW n \in 0 .. Len(stack) - 1, n \in U PROVE n + 1 \in U
  <2>1. n + 1 \in 1 .. Len(stack) /\ (n + 1) - 1 = n /\ n + 1 \in 0 .. Len(stack)
    BY <1>1
  <2>2. CASE ~PassesOn(stack[n + 1])
    BY <2>1, <2>2
  <2>3. CASE PassesOn(stack[n + 1])
    <3>1. n # 0
      BY <1>1, <2>3
    <3>2. n \in 1 .. Len(stack) /\ n \in T
      BY <1>1, <1>3, <3>1
    <3> QED
      BY <2>1, <2>3, <3>2
  <2> QED
    BY <2>2, <2>3
<1> HIDE DEF U
<1>4. \A n \in 0 .. Len(stack) : n \in U
  BY <1>1, <1>2, <1>3, Induction
<1>5. \A n \in 1 .. Len(stack) : n \in U /\ n # 0
  BY <1>1, <1>4
<1> QED
  BY <1>5 DEF U

LEMMA QuietReports ==
  ASSUME NEW e, NEW old, NEW fl,
         \A n \in 1 .. Len(fl) : fl[n] \in old \/ fl[n].kind # "wrong"
  PROVE  ReportsOK(Outcome(e, fl), e, old)
BY DEF ReportsOK, Outcome

\* A state that is rebuilt leaves those below it.
LEMMA FrontElements ==
  ASSUME NEW fl, IsStack(fl), NEW f
  PROVE  /\ Len(Append(Front(fl), f)) = Len(fl) /\ Append(Front(fl), f)[Len(fl)] = f
         /\ \A n \in 1 .. Len(fl) - 1 : Append(Front(fl), f)[n] = fl[n]
<1>1. PICK S : fl \in Seq(S)
  BY DEF IsStack
<1>2. Len(fl) \in Nat /\ Len(fl) >= 1
  BY StackBounds
<1>3. Front(fl) = SubSeq(fl, 1, Len(fl) - 1)
  BY DEF Front
<1>4. PICK m \in Nat : Len(fl) = m + 1
  <2>1. Len(fl) - 1 \in Nat /\ Len(fl) = (Len(fl) - 1) + 1
    BY <1>2
  <2> QED
    BY <2>1
<1>5. Len(fl) - 1 = m /\ m \in 0 .. Len(fl) /\ \A n \in 1 .. m : n \in 1 .. Len(fl)
  BY <1>4
<1>6. Front(fl) = SubSeq(fl, 1, m)
  BY <1>3, <1>5
<1>7. \A k \in 1 .. m : fl[k] \in S
  BY <1>1, <1>5
<1> HIDE DEF Front
<1>8. Front(fl) \in Seq(S) /\ Len(Front(fl)) = m
  BY <1>1, <1>4, <1>6
<1>9. \A n \in 1 .. m : Front(fl)[n] = fl[n]
  BY <1>1, <1>4, <1>6
<1>10. /\ Len(Append(Front(fl), f)) = m + 1 /\ Append(Front(fl), f)[m + 1] = f
       /\ \A n \in 1 .. m : Append(Front(fl), f)[n] = Front(fl)[n]
  BY <1>4, <1>8
<1> QED
  BY <1>4, <1>5, <1>8, <1>9, <1>10

LEMMA RefreshBaseReports ==
  ASSUME NEW e, KnownOK(e), NEW fl, IsStack(fl), ~PassesOn(Last(fl)),
         NEW old, \A n \in 1 .. Len(fl) : fl[n] \in old
  PROVE  ReportsOK(RefreshBase(e, fl), e, old)
<1> DEFINE f == Last(fl)
<1>0. Len(fl) \in Nat /\ Len(fl) >= 1 /\ FrameOK(f)
  BY StackBounds
<1>1. ASSUME NEW g, FrameOK(g), g.kind = f.kind
      PROVE  /\ ReportsOK(Outcome(e, Append(Front(fl), g)), e, old)
             /\ \A templates :
                  ReportsOK(ValidateCredentialsObtained(templates, e, Append(Front(fl), g)),
                            e, old)
  <2> DEFINE next == Append(Front(fl), g)
  <2>1. IsStack(next)
    BY <1>1, ReplaceStack
  <2>2. /\ Len(next) = Len(fl) /\ next[Len(fl)] = g
        /\ \A n \in 1 .. Len(fl) - 1 : next[n] = fl[n]
    BY FrontElements
  <2> HIDE DEF next
  <2>3. \A n \in 1 .. Len(next) : n \in 1 .. Len(fl) - 1 \/ n = Len(fl)
    BY <1>0, <2>2
  <2>4. \A n \in 1 .. Len(fl) - 1 : n \in 1 .. Len(fl)
    BY <1>0
  <2>5. g.kind # "wrong"
    BY <1>1 DEF PassesOn
  <2>6. \A n \in 1 .. Len(next) : next[n] \in old \/ next[n].kind # "wrong"
    BY <2>2, <2>3, <2>4, <2>5
  <2>7. ReportsOK(Outcome(e, next), e, old)
    BY <2>6, QuietReports
  <2>8. \A templates : ReportsOK(ValidateCredentialsObtained(templates, e, next), e, old)
    BY <2>1, <2>7, ValidateReports
  <2> QED
    BY <2>7, <2>8 DEF next
<1>2. CASE f.kind \in WalkKinds \cup ChoiceKinds
  <2>1. \E g : /\ FrameOK(g) /\ g.kind = f.kind
               /\ \/ RefreshBase(e, fl) = Outcome(e, Append(Front(fl), g))
                  \/ \E templates : RefreshBase(e, fl) =
                       ValidateCredentialsObtained(templates, e, Append(Front(fl), g))
    BY <1>0, <1>2, RefreshBaseShape
  <2> QED
    BY <1>1, <2>1
<1>3. CASE f.kind \notin WalkKinds \cup ChoiceKinds
  <2>1. RefreshBase(e, fl) = Outcome(e, <<Start(e)>>)
    BY <1>3 DEF RefreshBase, WalkKinds, ChoiceKinds
  <2>2. <<Start(e)>>[1].kind # "wrong"
    <3>1. IsStack(<<Start(e)>>)
      BY StartOK
    <3> HIDE DEF Start
    <3> QED
      BY <3>1 DEF IsStack, Roots
  <2>3. \A n \in 1 .. Len(<<Start(e)>>) : n = 1
    OBVIOUS
  <2> QED
    BY <2>1, <2>2, <2>3, QuietReports
<1> QED
  BY <1>2, <1>3

LEMMA LiftedReports ==
  ASSUME NEW e, NEW old, NEW r, KnownOK(r.env), IsStack(r.flow), ReportsOK(r, e, old),
         NEW f, FrameOK(f), PassesOn(f), f \in old, Last(r.flow).kind \in Parents(f.kind)
  PROVE  ReportsOK(Lifted(e, r, f), e, old)
<1>0. ReportsOK(Outcome(r.env, r.flow), e, old)
  BY DEF ReportsOK, Outcome
<1>1. CASE f.kind = "wrong"
  BY <1>0, <1>1, PushReports DEF Lifted
<1>2. CASE f.kind = "obtainCredentials"
  <2>1. Lifted(e, r, f) = RefreshObtainedCredentials(e, r, f)
    BY <1>2 DEF Lifted
  <2>2. PICK obtained, templates :
          LET g == [f EXCEPT !.obtained = obtained]
          IN  RefreshObtainedCredentials(e, r, f) \in
                {Outcome(r.env, Append(r.flow, g)),
                 ValidateCredentialsObtained(templates, r.env, Append(r.flow, g))}
    BY DEF RefreshObtainedCredentials
  <2> DEFINE g == [f EXCEPT !.obtained = obtained]
  <2>3. "kind" \in DOMAIN g /\ g.kind = f.kind
    BY DEF FrameOK
  <2>4. Lifted(e, r, f) \in
          {Outcome(r.env, Append(r.flow, g)),
           ValidateCredentialsObtained(templates, r.env, Append(r.flow, g))}
    BY <2>1, <2>2
  <2> HIDE DEF g
  <2>5. FrameOK(g)
    BY <1>2, <2>3 DEF FrameOK, ChoiceKinds
  <2>6. IsStack(Append(r.flow, g))
    BY <2>3, <2>5, PushStack
  <2>7. ReportsOK(Outcome(r.env, Append(r.flow, g)), e, old)
    BY <1>0, <1>2, <2>3, PushReports
  <2>8. ReportsOK(ValidateCredentialsObtained(templates, r.env, Append(r.flow, g)), e, old)
    BY <2>6, <2>7, ValidateReports
  <2> QED
    BY <2>4, <2>7, <2>8
<1> QED
  BY <1>1, <1>2 DEF PassesOn

LEMMA MapReports ==
  ASSUME NEW e, KnownOK(e), NEW fl, IsStack(fl)
  PROVE  ReportsOK(MapSessionStateToBlocState(e, fl), e, {fl[m] : m \in 1 .. Len(fl)})
<1>1. PICK f : Levels(f, e, fl)
  BY MapLevels
<1> DEFINE stack == Affected(fl)
           old == {fl[m] : m \in 1 .. Len(fl)}
           T == {n \in 1 .. Len(stack) : ReportsOK(f[n], e, old)}
<1>2. \A n \in 1 .. Len(stack) : stack[n] \in old
  <2>1. CASE Last(fl).kind # "credentialInformation"
    BY <2>1 DEF Affected
  <2>2. CASE Last(fl).kind = "credentialInformation"
    <3>1. Len(fl) \in Nat /\ Len(fl) >= 2
      BY <2>2, FrontStack, StackBounds DEF Roots
    <3>2. PICK m : m = Len(fl) - 1 /\ m \in 1 .. Len(fl)
      <4>1. \A N \in Nat : N >= 2 => N - 1 \in 1 .. N
        OBVIOUS
      <4> QED
        BY <3>1, <4>1
    <3>3. stack = SubSeq(fl, 1, m)
      BY <2>2, <3>2 DEF Affected, Front
    <3>4. Len(stack) = m /\ \A n \in 1 .. m : stack[n] = fl[n]
      BY <3>2, <3>3, CutStack
    <3> HIDE DEF stack
    <3>5. \A n \in 1 .. m : n \in 1 .. Len(fl)
      BY <3>1, <3>2
    <3> QED
      BY <3>4, <3>5
  <2> QED
    BY <2>1, <2>2
<1> HIDE DEF old
<1>3. /\ IsStack(stack) /\ Maps(f, e, stack, Len(stack)) /\ ~PassesOn(stack[1])
      /\ MapSessionStateToBlocState(e, fl) = f[Len(stack)]
      /\ \A n \in 1 .. Len(stack) : MappedOK(f[n], e, stack[n].kind)
  BY <1>1 DEF Levels
<1> HIDE DEF stack
<1>4. Len(stack) \in Nat
  BY <1>3, StackBounds
<1>5. ASSUME NEW n \in 1 .. Len(stack), PassesOn(stack[n]), n - 1 \in T PROVE n \in T
  <2>1. n - 1 \in 1 .. Len(stack) /\ ReportsOK(f[n - 1], e, old)
    BY <1>5
  <2>2. n \in 2 .. Len(stack)
    <3>1. \A N \in Nat : \A k \in 1 .. N : k - 1 \in 1 .. N => k \in 2 .. N
      OBVIOUS
    <3> QED
      BY <1>4, <2>1, <3>1
  <2>3. f[n] = Lifted(e, f[n - 1], stack[n])
    <3>1. f[n] = IF PassesOn(stack[n]) THEN Lifted(e, f[n - 1], stack[n])
                 ELSE RefreshBase(e, SubSeq(stack, 1, n))
      BY <1>3, <1>4, MapsNext
    <3> QED
      BY <1>5, <3>1
  <2>4. FrameOK(stack[n]) /\ stack[n - 1].kind \in Parents(stack[n].kind)
    BY <1>3, <2>2 DEF IsStack
  <2>5. /\ KnownOK(f[n - 1].env) /\ IsStack(f[n - 1].flow)
        /\ Last(f[n - 1].flow).kind \in {stack[n - 1].kind, "wrong"}
    BY <1>3, <1>5, <2>1, <2>4, ParentsOf DEF MappedOK, PassesOn
  <2>6. Last(f[n - 1].flow).kind \in Parents(stack[n].kind)
    BY <1>5, <2>4, <2>5, ParentsOf DEF PassesOn
  <2> QED
    BY <1>2, <1>5, <2>1, <2>3, <2>4, <2>5, <2>6, LiftedReports
<1>6. ASSUME NEW n \in 1 .. Len(stack), ~PassesOn(stack[n]) PROVE n \in T
  <2>1. f[n] = RefreshBase(e, SubSeq(stack, 1, n))
    BY <1>3, <1>4, <1>6, MapsNext
  <2>2. /\ IsStack(SubSeq(stack, 1, n)) /\ Len(SubSeq(stack, 1, n)) = n
        /\ \A k \in 1 .. n : SubSeq(stack, 1, n)[k] = stack[k] /\ k \in 1 .. Len(stack)
        /\ Last(SubSeq(stack, 1, n)) = stack[n]
    BY <1>3, <1>4, CutStack
  <2>3. ReportsOK(RefreshBase(e, SubSeq(stack, 1, n)), e, old)
    BY <1>2, <1>6, <2>2, RefreshBaseReports
  <2> QED
    BY <2>1, <2>3
<1>7. ASSUME NEW n \in 1 .. Len(stack)
      PROVE  IF PassesOn(stack[n])
             THEN n - 1 \in 1 .. Len(stack) /\ n - 1 \in T => n \in T
             ELSE n \in T
  BY <1>5, <1>6
<1> HIDE DEF T
<1>8. \A n \in 1 .. Len(stack) : n \in T
  BY <1>1, <1>7, MapInduction DEF stack
<1>9. Len(stack) \in T
  BY <1>3, <1>8, StackBounds
<1> QED
  BY <1>3, <1>9 DEF T, old

-----------------------------------------------------------------------------
(* The invariant, and the steps of the system. *)

WalkInv ==
  /\ request \in Requests /\ status \in {"request", "left"}
  /\ announced \subseteq Credential /\ announced \cap ToSet(env.wallet) = {}
  /\ KnownOK(env)
  /\ IsStack(flow)
  /\ answer # None => DOMAIN answer = DOMAIN request

\* A step that reports nothing: no credential leaves the list of those added, and a
\* report there is was there before.
Quiet ==
  /\ ToSet(env.newly) \subseteq ToSet(env'.newly)
  /\ \A n \in DOMAIN flow' :
       flow'[n].kind # "wrong" \/ \E m \in DOMAIN flow : flow[m] = flow'[n]

\* What a new report says is off the list, and what left the list is in a report.
Reports ==
  /\ \A n \in DOMAIN flow' :
       flow'[n].kind = "wrong" /\ (\A m \in DOMAIN flow : flow[m] # flow'[n])
         => ToSet(flow'[n].got) \cap ToSet(env'.newly) = {}
  /\ \A c \in ToSet(env.newly) \ ToSet(env'.newly) :
       \E n \in DOMAIN flow' : flow'[n].kind = "wrong" /\ c \in ToSet(flow'[n].got)

LEMMA QuietStep ==
  ASSUME Quiet PROVE Reports
BY DEF Quiet, Reports

LEMMA WalkInit == Init => WalkInv
<1> SUFFICES ASSUME Init PROVE WalkInv
  OBVIOUS
<1>1. PICK wallet \in Wallets :
        env = [wallet |-> wallet, candidates |-> Candidates(wallet, request), newly |-> << >>]
  BY DEF Init
<1>2. KnownOK(env)
  <2>1. << >> \in Seq(Credential) /\ IsInjective(<< >>)
    BY DEF IsInjective
  <2> QED
    BY <1>1, <2>1, WalletAssumption DEF KnownOK, Candidates
<1>3. IsStack(flow)
  <2>1. FrameOK([kind |-> "initial"]) /\ [kind |-> "initial"].kind \in Roots
    BY DEF FrameOK, ChoiceKinds, Roots
  <2> QED
    BY <2>1, SingleStack DEF Init
<1> QED
  BY <1>2, <1>3 DEF Init, WalkInv

\* What changes the state of the bloc only has to leave a stack.
LEMMA FlowStep ==
  ASSUME WalkInv, UNCHANGED <<request, env, announced, answer>>, status' \in {"request", "left"},
         IsStack(flow')
  PROVE  WalkInv'
BY DEF WalkInv, KnownOK

\* The app knows e, and the bloc may have mapped it.
Learns(e) == SessionState(e) \/ (env' = e /\ UNCHANGED flow)

LEMMA SessionStateStep ==
  ASSUME WalkInv, NEW e, KnownOK(e), Learns(e), ToSet(env.newly) \subseteq ToSet(e.newly)
  PROVE  KnownOK(env') /\ env'.wallet = e.wallet /\ IsStack(flow') /\ Reports
<1>1. CASE env' = e /\ UNCHANGED flow
  <2>1. Quiet
    BY <1>1 DEF Quiet
  <2> QED
    BY <1>1, <2>1, QuietStep DEF WalkInv
<1>2. CASE /\ env' = MapSessionStateToBlocState(e, flow).env
           /\ flow' = MapSessionStateToBlocState(e, flow).flow
  <2>1. KnownOK(env') /\ env'.wallet = e.wallet /\ IsStack(flow')
    BY <1>2, MapOK DEF WalkInv
  <2>2. DOMAIN flow = 1 .. Len(flow) /\ DOMAIN flow' = 1 .. Len(flow')
    BY <2>1, StackBounds DEF WalkInv
  <2> DEFINE old == {flow[m] : m \in 1 .. Len(flow)}
  <2>3. ReportsOK(MapSessionStateToBlocState(e, flow), e, old)
    BY MapReports DEF WalkInv
  <2>4. /\ \A n \in 1 .. Len(flow') :
             flow'[n].kind = "wrong" /\ flow'[n] \notin old
               => ToSet(flow'[n].got) \cap ToSet(env'.newly) = {}
        /\ \A c \in ToSet(e.newly) \ ToSet(env'.newly) :
             \E n \in 1 .. Len(flow') : flow'[n].kind = "wrong" /\ c \in ToSet(flow'[n].got)
    BY <1>2, <2>3 DEF ReportsOK
  <2>5. Reports
    BY <2>2, <2>4 DEF Reports
  <2> QED
    BY <2>1, <2>5
<1> QED
  BY <1>1, <1>2 DEF Learns, SessionState

LEMMA AnnounceStep == WalkInv /\ Announce => WalkInv' /\ Reports
<1> SUFFICES ASSUME WalkInv, Announce PROVE WalkInv' /\ Reports
  OBVIOUS
<1>1. PICK c \in Credential \ (ToSet(env.wallet) \cup ToSet(env.newly) \cup announced) :
        /\ announced' = announced \cup {c}
        /\ Learns([env EXCEPT !.newly = Append(@, c)])
  BY DEF Announce, Learns
<1> DEFINE e == [env EXCEPT !.newly = Append(@, c)]
<1>2. /\ DOMAIN e = DOMAIN env /\ e.wallet = env.wallet /\ e.candidates = env.candidates
      /\ e.newly = Append(env.newly, c)
  BY DEF WalkInv, KnownOK
<1>3. /\ e.newly \in Seq(Credential) /\ IsInjective(e.newly)
      /\ ToSet(env.newly) \subseteq ToSet(e.newly)
  <2> DEFINE s == env.newly
             t == Append(s, c)
  <2>1. s \in Seq(Credential) /\ IsInjective(s) /\ c \in Credential /\ c \notin ToSet(s)
    BY <1>1 DEF WalkInv, KnownOK
  <2> HIDE DEF s
  <2>2. /\ t \in Seq(Credential) /\ Len(s) \in Nat /\ DOMAIN s = 1 .. Len(s)
        /\ DOMAIN t = 1 .. Len(s) + 1 /\ t[Len(s) + 1] = c
        /\ \A i \in 1 .. Len(s) : t[i] = s[i] /\ s[i] # c
    BY <2>1 DEF ToSet
  <2> HIDE DEF t
  <2>3. ASSUME NEW i \in DOMAIN t, NEW j \in DOMAIN t, t[i] = t[j] PROVE i = j
    <3>1. i \in 1 .. Len(s) \/ i = Len(s) + 1
      BY <2>2
    <3>2. j \in 1 .. Len(s) \/ j = Len(s) + 1
      BY <2>2
    <3> QED
      BY <2>1, <2>2, <2>3, <3>1, <3>2 DEF IsInjective
  <2>4. \A i \in 1 .. Len(s) : i \in 1 .. Len(s) + 1
    BY <2>2
  <2>5. ToSet(s) \subseteq ToSet(t)
    BY <2>2, <2>4 DEF ToSet
  <2> QED
    BY <1>2, <2>2, <2>3, <2>5 DEF IsInjective, s, t
<1>4. Learns(e)
  BY <1>1
<1> HIDE DEF e
<1>5. KnownOK(e)
  BY <1>2, <1>3 DEF WalkInv, KnownOK
<1>6. KnownOK(env') /\ env'.wallet = env.wallet /\ IsStack(flow') /\ Reports
  BY <1>2, <1>3, <1>4, <1>5, SessionStateStep
<1>7. announced' \subseteq Credential /\ announced' \cap ToSet(env'.wallet) = {}
  BY <1>1, <1>6 DEF WalkInv
<1> QED
  BY <1>6, <1>7 DEF Announce, WalkInv, KnownOK

\* A wallet that gains a credential loses its like, if it is a singleton.
LEMMA WalletGains ==
  ASSUME NEW wallet \in Seq(Credential), IsInjective(wallet),
         \A c, d \in ToSet(wallet) : c.type = d.type /\ c.type \in Singleton => c = d,
         NEW new \in Credential, new \notin ToSet(wallet)
  PROVE  LET w == WithCredential(wallet, new)
         IN  /\ w \in Seq(Credential) /\ IsInjective(w)
             /\ ToSet(w) \subseteq ToSet(wallet) \cup {new}
             /\ \A c, d \in ToSet(w) : c.type = d.type /\ c.type \in Singleton => c = d
<1> DEFINE like == {d \in ToSet(wallet) : new.type \in Singleton /\ d.type = new.type}
           s == Without(wallet, like)
           w == Append(s, new)
<1>1. WithCredential(wallet, new) = w
  BY DEF WithCredential
<1>2. s \in Seq(Credential) /\ IsInjective(s) /\ ToSet(s) \subseteq ToSet(wallet) \ like
  BY WithoutType
<1>3. \A d \in ToSet(s) : d \in ToSet(wallet) /\ d # new
                          /\ ~(new.type \in Singleton /\ d.type = new.type)
  BY <1>2
<1> HIDE DEF s, like
<1>4. /\ w \in Seq(Credential) /\ Len(s) \in Nat /\ DOMAIN s = 1 .. Len(s)
      /\ DOMAIN w = 1 .. Len(s) + 1 /\ w[Len(s) + 1] = new
      /\ \A i \in 1 .. Len(s) : w[i] = s[i] /\ s[i] \in ToSet(s)
  BY <1>2 DEF ToSet
<1> HIDE DEF w
<1>5. \A i \in DOMAIN w : i \in 1 .. Len(s) \/ i = Len(s) + 1
  BY <1>4
<1>6. \A c \in ToSet(w) : c \in ToSet(s) \/ c = new
  BY <1>4, <1>5 DEF ToSet
<1>7. IsInjective(w)
  <2>1. SUFFICES ASSUME NEW i \in DOMAIN w, NEW j \in DOMAIN w, w[i] = w[j] PROVE i = j
    BY DEF IsInjective
  <2> QED
    BY <1>2, <1>3, <1>4, <1>5, <2>1 DEF IsInjective
<1>8. \A c, d \in ToSet(w) : c.type = d.type /\ c.type \in Singleton => c = d
  BY <1>3, <1>6
<1> QED
  BY <1>1, <1>3, <1>4, <1>6, <1>7, <1>8

LEMMA ReceiveCredentialsStep == WalkInv /\ ReceiveCredentials => WalkInv' /\ Quiet
<1> SUFFICES ASSUME WalkInv, ReceiveCredentials PROVE WalkInv' /\ Quiet
  OBVIOUS
<1>1. PICK c \in announced : /\ announced' = announced \ {c}
                             /\ env' = [env EXCEPT !.wallet = WithCredential(@, c)]
  BY DEF ReceiveCredentials
<1>2. c \in Credential /\ c \notin ToSet(env.wallet)
  BY <1>1 DEF WalkInv
<1>3. /\ DOMAIN env' = DOMAIN env /\ env'.wallet = WithCredential(env.wallet, c)
      /\ env'.candidates = env.candidates /\ env'.newly = env.newly
  BY <1>1 DEF WalkInv, KnownOK
<1>4. /\ env'.wallet \in Seq(Credential) /\ IsInjective(env'.wallet)
      /\ ToSet(env'.wallet) \subseteq ToSet(env.wallet) \cup {c}
      /\ \A a, b \in ToSet(env'.wallet) : a.type = b.type /\ a.type \in Singleton => a = b
  BY <1>2, <1>3, WalletGains DEF WalkInv, KnownOK
<1>5. announced' \subseteq Credential /\ announced' \cap ToSet(env'.wallet) = {}
  BY <1>1, <1>4 DEF WalkInv
<1>6. Quiet
  BY <1>3 DEF ReceiveCredentials, Quiet
<1> QED
  BY <1>3, <1>4, <1>5, <1>6 DEF ReceiveCredentials, WalkInv, KnownOK

LEMMA RefreshCandidatesStep == WalkInv /\ RefreshCandidates => WalkInv' /\ Reports
<1> SUFFICES ASSUME WalkInv, RefreshCandidates PROVE WalkInv' /\ Reports
  OBVIOUS
<1> DEFINE e == [env EXCEPT !.candidates = Candidates(env.wallet, request)]
<1>1. /\ DOMAIN e = DOMAIN env /\ e.wallet = env.wallet /\ e.newly = env.newly
      /\ DOMAIN e.candidates = DOMAIN request
  BY DEF WalkInv, KnownOK, Candidates
<1>2. Learns(e)
  BY DEF RefreshCandidates, Learns
<1> HIDE DEF e
<1>3. KnownOK(e)
  BY <1>1 DEF WalkInv, KnownOK
<1>4. KnownOK(env') /\ env'.wallet = env.wallet /\ IsStack(flow') /\ Reports
  BY <1>1, <1>2, <1>3, SessionStateStep
<1> QED
  BY <1>4 DEF RefreshCandidates, WalkInv, KnownOK

LEMMA SingleQuiet ==
  ASSUME NEW f, IsStack(<<f>>)
  PROVE  \A n \in DOMAIN <<f>> : <<f>>[n].kind # "wrong"
<1>1. <<f>>[1].kind # "wrong"
  BY DEF IsStack, Roots
<1> QED
  BY <1>1

LEMMA ListenStep ==
  ASSUME WalkInv, Listen \/ flow' = <<[kind |-> "introduction"]>> \/ flow' = Finished
  PROVE  IsStack(flow') /\ \A n \in DOMAIN flow' : flow'[n].kind # "wrong"
<1>1. \A kind \in {"introduction", "finished"} :
        FrameOK([kind |-> kind]) /\ [kind |-> kind].kind \in Roots
  BY DEF FrameOK, ChoiceKinds, Roots
<1>2. \E f : flow' = <<f>> /\ IsStack(<<f>>)
  BY <1>1, SingleStack, StartOK DEF Listen, Finished
<1> QED
  BY <1>2, SingleQuiet

-----------------------------------------------------------------------------
(* The steps of the user. *)

\* The state of the bloc is replaced; a dialog may come or go.
Puts(f) ==
  flow' = Append(Front(flow), f) /\ UNCHANGED <<request, status, env, announced, answer>>

\* What a press on the overview or its dialog does to the bloc: nothing, it marks the
\* overview, or it sends the choices.
Rests == UNCHANGED <<request, status, env, announced, flow, answer>>

Marks == Shows({"overview"}) /\ \E popup \in BOOLEAN : Puts([Top EXCEPT !.popup = popup])

Sends == Shows({"overview"}) /\ ChoicesValid(Top) /\ SendChoices

LEMMA Presses ==
  ASSUME NextInOverview \/ ConfirmInDialog \/ DismissDialog
  PROVE  Marks \/ Sends \/ Rests
<1>1. CASE NextInOverview
  BY <1>1 DEF NextInOverview, ShowsChoices, Shows, AskConfirmation, Marks, Puts
<1>2. CASE ConfirmInDialog
  BY <1>2 DEF ConfirmInDialog, Shows, AskConfirmation, Marks, Puts, Sends, Rests
<1>3. CASE DismissDialog
  BY <1>3 DEF DismissDialog, Shows, Marks, Puts
<1> QED
  BY <1>1, <1>2, <1>3

LEMMA ReplaceStep ==
  ASSUME WalkInv, NEW f, Replace(f) \/ Puts(f), FrameOK(f), Top.kind # "wrong",
         f.kind = Top.kind \/ {f.kind, Top.kind} \subseteq Roots
  PROVE  WalkInv' /\ Quiet
<1>0. /\ flow' = Append(Front(flow), f) /\ IsStack(flow) /\ f.kind # "wrong"
      /\ UNCHANGED <<request, status, env, announced, answer>>
  BY DEF Replace, GoTo, Puts, WalkInv, Roots
<1>1. IsStack(Append(Front(flow), f))
  BY <1>0, ReplaceStack DEF Top
<1>2. WalkInv'
  BY <1>0, <1>1, FlowStep DEF WalkInv
<1>3. /\ Len(flow') = Len(flow) /\ flow'[Len(flow)] = f
      /\ \A n \in 1 .. Len(flow) - 1 : flow'[n] = flow[n]
  BY <1>0, FrontElements
<1>4. /\ Len(flow) \in Nat /\ DOMAIN flow = 1 .. Len(flow) /\ DOMAIN flow' = 1 .. Len(flow')
  BY <1>0, <1>1, StackBounds
<1>5. \A n \in 1 .. Len(flow) : n \in 1 .. Len(flow) - 1 \/ n = Len(flow)
  <2>1. \A N \in Nat : \A n \in 1 .. N : n \in 1 .. N - 1 \/ n = N
    OBVIOUS
  <2> QED
    BY <1>4, <2>1
<1> QED
  BY <1>0, <1>2, <1>3, <1>4, <1>5 DEF Quiet

LEMMA PushStep ==
  ASSUME WalkInv, NEW f, GoTo(Append(flow, f)), FrameOK(f), Top.kind \in Parents(f.kind),
         f.kind # "wrong"
  PROVE  WalkInv' /\ Quiet
<1>0. /\ flow' = Append(flow, f) /\ IsStack(flow)
      /\ UNCHANGED <<request, status, env, announced, answer>>
  BY DEF GoTo, WalkInv
<1>1. IsStack(Append(flow, f))
  BY <1>0, PushStack DEF Top
<1>2. WalkInv'
  BY <1>0, <1>1, FlowStep DEF WalkInv
<1>3. PICK S : flow \in Seq(S)
  BY <1>0 DEF IsStack
<1>4. /\ Len(flow) \in Nat /\ DOMAIN flow = 1 .. Len(flow) /\ DOMAIN flow' = 1 .. Len(flow) + 1
      /\ flow'[Len(flow) + 1] = f /\ \A n \in 1 .. Len(flow) : flow'[n] = flow[n]
  BY <1>0, <1>3
<1>5. \A n \in 1 .. Len(flow) + 1 : n \in 1 .. Len(flow) \/ n = Len(flow) + 1
  BY <1>4
<1> QED
  BY <1>0, <1>2, <1>4, <1>5 DEF Quiet

LEMMA BackStep ==
  ASSUME WalkInv, GoTo(Front(flow)), Top.kind \notin Roots
  PROVE  WalkInv' /\ Quiet
<1>0. /\ flow' = Front(flow) /\ IsStack(flow)
      /\ UNCHANGED <<request, status, env, announced, answer>>
  BY DEF GoTo, WalkInv
<1>1. IsStack(Front(flow)) /\ Len(flow) >= 2
  BY <1>0, FrontStack DEF Top
<1>2. WalkInv'
  BY <1>0, <1>1, FlowStep DEF WalkInv
<1>3. /\ Len(flow) \in Nat /\ DOMAIN flow = 1 .. Len(flow)
      /\ DOMAIN flow' = 1 .. Len(flow')
  BY <1>0, <1>1, StackBounds
<1>4. PICK m : m = Len(flow) - 1 /\ m \in 1 .. Len(flow)
  <2>1. \A N \in Nat : N >= 2 => N - 1 \in 1 .. N
    OBVIOUS
  <2> QED
    BY <1>1, <1>3, <2>1
<1>5. flow' = SubSeq(flow, 1, m)
  BY <1>0, <1>4 DEF Front
<1>6. Len(flow') = m /\ \A n \in 1 .. m : flow'[n] = flow[n]
  BY <1>0, <1>4, <1>5, CutStack
<1>7. \A n \in 1 .. m : n \in 1 .. Len(flow)
  BY <1>3, <1>4
<1> QED
  BY <1>0, <1>2, <1>3, <1>6, <1>7 DEF Quiet

LEMMA TopOK ==
  ASSUME WalkInv
  PROVE  FrameOK(Top) /\ "kind" \in DOMAIN Top
BY StackBounds DEF WalkInv, Top, FrameOK

\* Selecting an option changes no kind.
LEMMA SelectStep ==
  ASSUME WalkInv, Top.kind \in WalkKinds, NEW f, "kind" \in DOMAIN f, f.kind = Top.kind, Replace(f)
  PROVE  WalkInv' /\ Quiet
<1>1. FrameOK(f)
  BY DEF FrameOK, WalkKinds, ChoiceKinds
<1> QED
  BY <1>1, ReplaceStep DEF WalkKinds

LEMMA ObtainCredentialsStep ==
  ASSUME WalkInv, Top.kind \in WalkKinds, NEW con, ObtainCredentials(con)
  PROVE  WalkInv' /\ Quiet
<1>1. CASE \E templates, obtained :
             GoTo(Append(flow, [kind |-> "obtainCredentials", templates |-> templates,
                                obtained |-> obtained]))
  <2>1. PICK templates, obtained :
             GoTo(Append(flow, [kind |-> "obtainCredentials", templates |-> templates,
                                obtained |-> obtained]))
    BY <1>1
  <2> DEFINE f == [kind |-> "obtainCredentials", templates |-> templates,
                   obtained |-> obtained]
  <2>2. FrameOK(f) /\ f.kind = "obtainCredentials"
    BY DEF FrameOK, ChoiceKinds
  <2> HIDE DEF f
  <2> QED
    BY <2>1, <2>2, PushStep, ParentsOf DEF f
<1>2. CASE \E type : GoTo(Append(flow, [kind |-> "credentialInformation", type |-> type]))
  <2>1. PICK type : GoTo(Append(flow, [kind |-> "credentialInformation", type |-> type]))
    BY <1>2
  <2> DEFINE f == [kind |-> "credentialInformation", type |-> type]
  <2>2. FrameOK(f) /\ f.kind = "credentialInformation"
    BY DEF FrameOK, ChoiceKinds
  <2> HIDE DEF f
  <2> QED
    BY <2>1, <2>2, PushStep, ParentsOf DEF f
<1> QED
  BY <1>1, <1>2 DEF ObtainCredentials

LEMMA WizardStep ==
  ASSUME WalkInv, ChooseInWizard \/ NextInWizard \/ CompleteWizard
  PROVE  WalkInv' /\ Quiet
<1>1. CASE ChooseInWizard
  <2>1. PICK selected, planned :
          Top.kind = "issueWizard"
          /\ Replace([Top EXCEPT !.selected = selected, !.planned = planned])
    BY <1>1 DEF ChooseInWizard, Shows
  <2> DEFINE f == [Top EXCEPT !.selected = selected, !.planned = planned]
  <2>2. "kind" \in DOMAIN f /\ f.kind = Top.kind
    BY TopOK
  <2> HIDE DEF f
  <2> QED
    BY <2>1, <2>2, SelectStep DEF f, WalkKinds
<1>2. CASE NextInWizard
  BY <1>2, ObtainCredentialsStep DEF NextInWizard, Shows, WalkKinds
<1>3. CASE CompleteWizard
  <2>1. Top.kind = "issueWizard"
    BY <1>3 DEF CompleteWizard, Shows
  <2>2. \/ \E candidates, choices, planned : Replace(Overview(candidates, choices, planned))
        \/ \E candidates, choices, changeable, more, planned :
             Replace(ChoicesFrame("previouslyAdded", candidates, choices, changeable, more,
                                  planned))
    BY <1>3 DEF CompleteWizard
  <2> QED
    BY <2>1, <2>2, OverviewOK, ChoicesFrameOK, ReplaceStep DEF Roots
<1> QED
  BY <1>1, <1>2, <1>3

\* A step back, and from the introduction to the first state.
LEMMA PageStep ==
  ASSUME WalkInv, NextInIntroduction \/ NextInObtainCredentials \/ Previous
  PROVE  WalkInv' /\ Quiet
<1>1. CASE NextInIntroduction
  BY <1>1, ListenStep, FlowStep DEF NextInIntroduction, WalkInv, Quiet
<1>2. CASE NextInObtainCredentials
  BY <1>2, BackStep DEF NextInObtainCredentials, Shows, Roots
<1>3. CASE Previous
  BY <1>3, BackStep DEF Previous, Shows, Roots
<1> QED
  BY <1>1, <1>2, <1>3

LEMMA RefreshChoicesOK ==
  ASSUME NEW f, FrameOK(f), f.kind \in ChoiceKinds, NEW discon, NEW i, NEW k
  PROVE  FrameOK(RefreshChoices(f, discon, i, k)) /\ RefreshChoices(f, discon, i, k).kind = f.kind
<1> DEFINE g == RefreshChoices(f, discon, i, k)
<1>1. DOMAIN f = ChoicesFields /\ "kind" \in DOMAIN f
  BY DEF FrameOK
<1>2. DOMAIN g = ChoicesFields /\ g.kind = f.kind /\ g.popup = FALSE
  BY <1>1 DEF RefreshChoices, ChoicesFields
<1> HIDE DEF g
<1>3. FrameOK(g)
  BY <1>1, <1>2 DEF FrameOK
<1> QED
  BY <1>2, <1>3 DEF g

LEMMA MarkStep == WalkInv /\ Marks => WalkInv' /\ Quiet
<1> SUFFICES ASSUME WalkInv, Marks PROVE WalkInv' /\ Quiet
  OBVIOUS
<1>1. Top.kind = "overview" /\ DOMAIN Top = ChoicesFields
  BY TopOK DEF Marks, Shows, FrameOK, ChoiceKinds
<1>2. PICK popup \in BOOLEAN : Puts([Top EXCEPT !.popup = popup])
  BY DEF Marks
<1> DEFINE f == [Top EXCEPT !.popup = popup]
<1>3. FrameOK(f) /\ f.kind = Top.kind
  BY <1>1 DEF FrameOK, ChoicesFields
<1> HIDE DEF f
<1> QED
  BY <1>1, <1>2, <1>3, ReplaceStep DEF f

LEMMA ChoicesStep ==
  ASSUME WalkInv, NextInPreviouslyAdded \/ ChangeChoice \/ AddOptional \/ RemoveOptional
  PROVE  WalkInv' /\ Quiet
<1>0. Top.kind \in ChoiceKinds /\ FrameOK(Top)
  BY TopOK DEF NextInPreviouslyAdded, ChangeChoice, AddOptional, RemoveOptional,
               ShowsChoices, Shows, ChoiceKinds
<1>1. CASE NextInPreviouslyAdded
  <2>1. \E candidates, choices, planned : Replace(Overview(candidates, choices, planned))
    BY <1>1 DEF NextInPreviouslyAdded
  <2> QED
    BY <1>0, <2>1, OverviewOK, ReplaceStep DEF Roots, ChoiceKinds
<1>2. CASE ChangeChoice
  <2>1. PICK i, discon, selected :
          GoTo(Append(flow, [kind |-> "changeChoice", index |-> i, discon |-> discon,
                             selected |-> selected]))
    BY <1>2 DEF ChangeChoice
  <2> DEFINE f == [kind |-> "changeChoice", index |-> i, discon |-> discon,
                   selected |-> selected]
  <2>2. FrameOK(f) /\ f.kind = "changeChoice"
    BY DEF FrameOK, ChoiceKinds
  <2> HIDE DEF f
  <2> QED
    BY <1>0, <2>1, <2>2, PushStep, ParentsOf DEF f
<1>3. CASE AddOptional
  <2> DEFINE f == AddOptionalData(env, Top, None, None)
  <2>1. FrameOK(f) /\ f.kind = "addOptionalData"
    BY DEF AddOptionalData, FrameOK, ChoiceKinds
  <2>2. GoTo(Append(flow, f))
    BY <1>3 DEF AddOptional
  <2> HIDE DEF f
  <2> QED
    BY <1>0, <2>1, <2>2, PushStep, ParentsOf
<1>4. CASE RemoveOptional
  <2>1. \E discon, i : Replace(RefreshChoices(Top, discon, i, 0))
    BY <1>4 DEF RemoveOptional
  <2> QED
    BY <1>0, <2>1, RefreshChoicesOK, ReplaceStep DEF ChoiceKinds
<1> QED
  BY <1>1, <1>2, <1>3, <1>4

\* The option chosen goes to the choices, which are below and a root.
LEMMA MakeChoiceStep ==
  ASSUME WalkInv, ChooseOption \/ NextInMakeChoice
  PROVE  WalkInv' /\ Quiet
<1>0. Top.kind \in {"changeChoice", "addOptionalData"} /\ FrameOK(Top)
  BY TopOK DEF ChooseOption, NextInMakeChoice, ShowsMakeChoice, Shows
<1>1. CASE ChooseOption
  <2>1. PICK k : Replace([Top EXCEPT !.selected = k])
    BY <1>1 DEF ChooseOption
  <2> DEFINE f == [Top EXCEPT !.selected = k]
  <2>2. "kind" \in DOMAIN f /\ f.kind = Top.kind
    BY TopOK
  <2> HIDE DEF f
  <2> QED
    BY <1>0, <2>1, <2>2, SelectStep DEF f, WalkKinds
<1>2. CASE NextInMakeChoice
  <2> DEFINE parent == flow[Len(flow) - 1]
  <2>1. IsStack(flow) /\ Top.kind \notin Roots
    BY <1>0 DEF WalkInv, Roots
  <2>2. Len(flow) >= 2 /\ Len(flow) \in Nat /\ parent.kind \in ChoiceKinds
    BY <1>0, <2>1, FrontStack, StackBounds, ParentsOf DEF Top
  <2>3. Len(flow) - 1 \in 1 .. Len(flow) /\ parent.kind \in Roots
    <3>1. PICK N \in Nat : N = Len(flow) /\ N >= 2
      BY <2>2
    <3>2. N - 1 \in 1 .. N
      BY <3>1
    <3> QED
      BY <2>2, <3>1, <3>2 DEF Roots, ChoiceKinds
  <2>4. Len(flow) - 1 = 1 /\ FrameOK(parent)
    BY <2>1, <2>3, StackRoots DEF IsStack
  <2>5. SubSeq(flow, 1, Len(flow) - 2) = << >>
    <3>1. PICK S : flow \in Seq(S)
      BY <2>1 DEF IsStack
    <3>2. Len(flow) - 2 = 0
      BY <2>2, <2>4
    <3>3. SubSeq(flow, 1, 0) = << >>
      BY <3>1
    <3> QED
      BY <3>2, <3>3
  <2>6. \/ \E con : ObtainCredentials(con)
        \/ \E discon, i, k :
             GoTo(Append(SubSeq(flow, 1, Len(flow) - 2), RefreshChoices(parent, discon, i, k)))
    BY <1>2 DEF NextInMakeChoice
  <2> HIDE DEF parent
  <2>7. CASE \E con : ObtainCredentials(con)
    BY <1>0, <2>7, ObtainCredentialsStep DEF WalkKinds
  <2>8. ASSUME NEW f, FrameOK(f), f.kind \in Roots, GoTo(Append(<< >>, f)) PROVE WalkInv' /\ Quiet
    <3>1. Append(<< >>, f) = <<f>>
      OBVIOUS
    <3>2. IsStack(<<f>>) /\ flow' = <<f>>
      BY <2>8, <3>1, SingleStack DEF GoTo
    <3>3. Quiet
      BY <2>8, <3>2, SingleQuiet DEF GoTo, Quiet
    <3> QED
      BY <2>8, <3>2, <3>3, FlowStep DEF GoTo, WalkInv
  <2>9. CASE \E discon, i, k :
               GoTo(Append(SubSeq(flow, 1, Len(flow) - 2), RefreshChoices(parent, discon, i, k)))
    BY <2>2, <2>3, <2>4, <2>5, <2>8, <2>9, RefreshChoicesOK
  <2> QED
    BY <2>6, <2>7, <2>9
<1> QED
  BY <1>1, <1>2

LEMMA SendStep == WalkInv /\ SendChoices => WalkInv' /\ Quiet
<1> SUFFICES ASSUME WalkInv, SendChoices PROVE WalkInv' /\ Quiet
  OBVIOUS
<1>1. DOMAIN answer' = DOMAIN request
  BY DEF SendChoices, WalkInv, KnownOK
<1>2. IsStack(flow') /\ \A n \in DOMAIN flow' : flow'[n].kind # "wrong"
  BY ListenStep DEF SendChoices
<1> QED
  BY <1>1, <1>2 DEF SendChoices, WalkInv, KnownOK, Quiet

LEMMA RestStep == WalkInv /\ Rests => WalkInv' /\ Quiet
<1> SUFFICES ASSUME WalkInv, Rests PROVE WalkInv' /\ Quiet
  OBVIOUS
<1>1. WalkInv'
  BY DEF Rests, WalkInv, KnownOK
<1>2. Quiet
  BY DEF Rests, Quiet
<1> QED
  BY <1>1, <1>2

LEMMA DialogStep ==
  ASSUME WalkInv, NextInOverview \/ ConfirmInDialog \/ DismissDialog
  PROVE  WalkInv' /\ Quiet
BY Presses, MarkStep, SendStep, RestStep DEF Sends

LEMMA LeaveStep ==
  ASSUME WalkInv, LeaveRequest \/ Dismiss
  PROVE  WalkInv' /\ Quiet
<1>1. flow' = flow \/ flow' = Finished
  BY DEF LeaveRequest, Dismiss
<1>2. IsStack(flow')
  BY <1>1, ListenStep DEF WalkInv
<1>3. \A n \in DOMAIN flow' : flow'[n].kind # "wrong" \/ flow' = flow
  BY <1>1, ListenStep
<1> QED
  BY <1>2, <1>3, FlowStep DEF LeaveRequest, Dismiss, Quiet

-----------------------------------------------------------------------------
(* Theorems. *)

LEMMA WalkStep == WalkInv /\ [Next]_vars => WalkInv' /\ Reports
<1> SUFFICES ASSUME WalkInv, [Next]_vars PROVE WalkInv' /\ Reports
  OBVIOUS
<1>1. CASE System
  <2>1. CASE ReadPreference
    <3>1. IsStack(flow') /\ \A n \in DOMAIN flow' : flow'[n].kind # "wrong"
      BY <2>1, ListenStep DEF ReadPreference
    <3> QED
      BY <2>1, <3>1, FlowStep, QuietStep DEF ReadPreference, WalkInv, Quiet
  <2> QED
    BY <1>1, <2>1, AnnounceStep, ReceiveCredentialsStep, RefreshCandidatesStep, LeaveStep,
       QuietStep
    DEF System
<1>2. CASE User
  BY <1>2, WizardStep, PageStep, DialogStep, ChoicesStep, MakeChoiceStep, LeaveStep, QuietStep
  DEF User
<1>3. CASE UNCHANGED vars
  BY <1>3, RestStep, QuietStep DEF vars, Rests
<1> QED
  BY <1>1, <1>2, <1>3 DEF Next

\* A press on the overview brings the dialog, one on the dialog may take it away, and
\* nothing else does either.
OtherTaps ==
  \/ NextInIntroduction \/ ChooseInWizard \/ NextInWizard \/ CompleteWizard
  \/ NextInObtainCredentials \/ NextInPreviouslyAdded \/ ChangeChoice \/ ChooseOption
  \/ NextInMakeChoice \/ AddOptional \/ RemoveOptional \/ Previous \/ Dismiss

LEMMA DialogStays ==
  ASSUME System \/ OtherTaps \/ UNCHANGED vars
  PROVE  dialog' = dialog
<1>1. CASE System \/ UNCHANGED vars
  BY <1>1 DEF System, ReadPreference, Announce, ReceiveCredentials, RefreshCandidates,
              LeaveRequest, vars
<1>2. CASE OtherTaps
  <2>1. ASSUME NEW con, ObtainCredentials(con) PROVE dialog' = dialog
    BY <2>1 DEF ObtainCredentials, GoTo
  <2> QED
    BY <1>2, <2>1
    DEF OtherTaps, NextInIntroduction, ChooseInWizard, NextInWizard, CompleteWizard,
        NextInObtainCredentials, NextInPreviouslyAdded, ChangeChoice, ChooseOption,
        NextInMakeChoice, AddOptional, RemoveOptional, Previous, Dismiss, Replace, GoTo
<1> QED
  BY <1>1, <1>2

IsDialog == dialog \in BOOLEAN

LEMMA DialogShown == IsDialog /\ [Next]_vars => IsDialog'
<1>1. CASE NextInOverview \/ ConfirmInDialog \/ DismissDialog
  BY <1>1 DEF NextInOverview, ConfirmInDialog, DismissDialog, AskConfirmation, SendChoices, IsDialog
<1>2. CASE System \/ OtherTaps \/ UNCHANGED vars
  BY <1>2, DialogStays DEF IsDialog
<1> QED
  BY <1>1, <1>2 DEF Next, User, OtherTaps

\* What the app knows stays what it can know, and whatever the user taps and the
\* session does, a state of the bloc has a parent of a type its parentState is
\* cast to: no cast of a parent state fails.
THEOREM TypeCorrect == Spec => []TypeOK
<1>1. WalkInv /\ IsDialog => TypeOK
  <2> SUFFICES ASSUME WalkInv, IsDialog PROVE TypeOK
    OBVIOUS
  <2>1. /\ ToSet(env.wallet) \subseteq Credential /\ ToSet(env.newly) \subseteq Credential
        /\ IsInjective(env.wallet) /\ IsInjective(env.newly)
    BY DEF WalkInv, KnownOK, ToSet
  <2> QED
    BY <2>1 DEF WalkInv, KnownOK, IsStack, IsDialog, TypeOK
<1>2. Init => IsDialog
  BY DEF Init, IsDialog
<1> QED
  BY <1>1, <1>2, WalkInit, WalkStep, DialogShown, PTL DEF Spec

\* A credential is reported as wrong once, for every request and wallet and however
\* many parents the report is made below: a change of the session that makes a report
\* takes what it says off the list of what was added, nothing else leaves that list,
\* and no tap of the user makes a report or changes the list.
THEOREM ReportsTheorem == Spec => ReportedIsForgotten
<1>1. WalkInv /\ [Next]_vars => [Reports]_vars
  BY WalkStep
<1> QED
  BY <1>1, WalkInit, WalkStep, PTL DEF Spec, ReportedIsForgotten, Reports

=============================================================================
