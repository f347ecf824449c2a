---------------------------- MODULE HistoryProofs ----------------------------
(***************************************************************************)
(* Proofs about History: types, that the list is the newest entries in     *)
(* order, and that what it calls the end is the end.                       *)
(*                                                                         *)
(* What Visible computes is proved by induction on the number of entries,  *)
(* for sets of numbers instead of predicates.                              *)
(***************************************************************************)
EXTENDS History, WellFoundedInduction, TLAPS

-----------------------------------------------------------------------------
(* Induction. *)

LEMMA Least ==
  ASSUME NEW T \in SUBSET Nat, T # {}
  PROVE  \E n \in T : \A m \in T : ~(m < n)
<1>1. IsWellFoundedOn(OpToRel(<, Nat), Nat)
  BY NatLessThanWellFounded
<1>2. PICK n \in T : \A m \in T : ~(<<m, n>> \in OpToRel(<, Nat))
  BY <1>1, WFMin
<1>3. ASSUME NEW m \in T, m < n PROVE FALSE
  <2>1. <<m, n>> \in Nat \X Nat /\ m < n
    BY <1>3
  <2>2. <<m, n>> \in OpToRel(<, Nat)
    BY <2>1 DEF OpToRel
  <2> QED
    BY <1>2, <2>2
<1> QED
  BY <1>3

\* A set with 0, and with each number up to N the next, has all of them.
LEMMA Induction ==
  ASSUME NEW N \in Nat, NEW T, 0 \in T, \A n \in 0 .. N - 1 : n \in T => n + 1 \in T
  PROVE  \A n \in 0 .. N : n \in T
<1> DEFINE U == {n \in 0 .. N : n \notin T}
<1>1. ASSUME U # {} PROVE FALSE
  <2>0. U \in SUBSET Nat /\ U # {}
    BY <1>1
  <2> HIDE DEF U
  <2>1. PICK n \in U : \A m \in U : ~(m < n)
    BY <2>0, Least
  <2> USE DEF U
  <2>2. n \in 0 .. N /\ n # 0
    BY <2>1
  <2>3. n - 1 \in 0 .. N - 1 /\ n - 1 \in 0 .. N /\ n - 1 < n
    BY <2>2
  <2>4. n - 1 \in T
    BY <2>1, <2>3
  <2>5. (n - 1) + 1 = n
    BY <2>2
  <2> QED
    BY <2>1, <2>3, <2>4, <2>5
<1> QED
  BY <1>1

-----------------------------------------------------------------------------
(* What Visible computes. *)

\* f gives what is visible of the first entries of ids, for up to N of them.
Computes(f, entries, ids, N) ==
  f = [n \in 0 .. N |->
         IF n = 0 THEN <<>>
         ELSE IF entries[ids[n]] THEN f[n - 1] ELSE Append(f[n - 1], ids[n])]

LEMMA ComputesFirst ==
  ASSUME NEW entries, NEW ids, NEW N \in Nat, NEW f, Computes(f, entries, ids, N)
  PROVE  f[0] = <<>>
BY DEF Computes

LEMMA ComputesNext ==
  ASSUME NEW entries, NEW ids, NEW N \in Nat, NEW f, Computes(f, entries, ids, N),
         NEW n \in 0 .. N - 1
  PROVE  f[n + 1] = IF entries[ids[n + 1]] THEN f[n] ELSE Append(f[n], ids[n + 1])
<1>1. n + 1 \in 0 .. N /\ n + 1 # 0 /\ (n + 1) - 1 = n
  OBVIOUS
<1>2. PICK m : m = n + 1
  OBVIOUS
<1>3. f[m] = IF entries[ids[m]] THEN f[m - 1] ELSE Append(f[m - 1], ids[m])
  BY <1>1, <1>2 DEF Computes
<1> QED
  BY <1>1, <1>2, <1>3

LEMMA ComputesExists ==
  ASSUME NEW entries, NEW ids, NEW N \in Nat
  PROVE  \E f : Computes(f, entries, ids, N)
<1> DEFINE T == {n \in Nat : \E f : Computes(f, entries, ids, n)}
<1>1. 0 \in T
  <2>1. Computes([n \in 0 .. 0 |-> <<>>], entries, ids, 0)
    BY DEF Computes
  <2> QED
    BY <2>1
<1>2. ASSUME NEW n \in 0 .. N - 1, n \in T PROVE n + 1 \in T
  <2>1. PICK f : Computes(f, entries, ids, n)
    BY <1>2
  <2> DEFINE last == IF entries[ids[n + 1]] THEN f[n] ELSE Append(f[n], ids[n + 1])
             g == [m \in 0 .. n + 1 |-> IF m = n + 1 THEN last ELSE f[m]]
  <2>2. \A m \in 0 .. n : g[m] = f[m]
    OBVIOUS
  <2>3. g[n + 1] = last
    OBVIOUS
  <2>4. ASSUME NEW m \in 0 .. n + 1
        PROVE  g[m] = IF m = 0 THEN <<>>
                      ELSE IF entries[ids[m]] THEN g[m - 1] ELSE Append(g[m - 1], ids[m])
    <3>1. CASE m = n + 1
      <4>1. m # 0 /\ m - 1 = n /\ n \in 0 .. n
        BY <3>1
      <4>2. g[m - 1] = f[n]
        BY <2>2, <4>1
      <4> QED
        BY <2>3, <3>1, <4>1, <4>2
    <3>2. CASE m # n + 1
      <4>1. m \in 0 .. n /\ (m = 0 \/ m - 1 \in 0 .. n)
        BY <3>2
      <4>2. g[m] = f[m] /\ (m = 0 \/ g[m - 1] = f[m - 1])
        BY <2>2, <4>1
      <4>3. f[m] = IF m = 0 THEN <<>>
                   ELSE IF entries[ids[m]] THEN f[m - 1] ELSE Append(f[m - 1], ids[m])
        BY <2>1, <4>1 DEF Computes
      <4> QED
        BY <4>2, <4>3
    <3> QED
      BY <3>1, <3>2
  <2>5. g = [m \in 0 .. n + 1 |-> g[m]]
    OBVIOUS
  <2> HIDE DEF g
  <2>6. Computes(g, entries, ids, n + 1)
    BY <2>4, <2>5 DEF Computes
  <2> QED
    BY <2>6
<1>3. \A n \in 0 .. N : n \in T
  BY <1>1, <1>2, Induction
<1> QED
  BY <1>3

LEMMA VisibleComputes ==
  ASSUME NEW entries, NEW ids \in Seq(Nat)
  PROVE  \E f : Computes(f, entries, ids, Len(ids)) /\ Visible(entries, ids) = f[Len(ids)]
<1> DEFINE shown[n \in 0 .. Len(ids)] ==
             IF n = 0 THEN <<>>
             ELSE IF entries[ids[n]] THEN shown[n - 1] ELSE Append(shown[n - 1], ids[n])
<1>1. Computes(shown, entries, ids, Len(ids))
  <2>1. PICK N \in Nat : N = Len(ids)
    OBVIOUS
  <2>2. \E f : Computes(f, entries, ids, N)
    BY ComputesExists
  <2> QED
    BY <2>1, <2>2 DEF Computes
<1>2. Visible(entries, ids) = shown[Len(ids)]
  BY DEF Visible
<1> QED
  BY <1>1, <1>2

LEMMA VisibleType ==
  ASSUME NEW entries, NEW ids \in Seq(Nat)
  PROVE  Visible(entries, ids) \in Seq(Nat)
<1>1. PICK N \in Nat : N = Len(ids)
  OBVIOUS
<1>2. PICK f : Computes(f, entries, ids, N) /\ Visible(entries, ids) = f[N]
  BY <1>1, VisibleComputes
<1>3. Computes(f, entries, ids, N)
  BY <1>2
<1> DEFINE T == {n \in 0 .. N : f[n] \in Seq(Nat)}
<1>4. 0 \in T
  <2>1. f[0] = <<>>
    BY <1>3, ComputesFirst
  <2>2. f[0] \in Seq(Nat) /\ 0 \in 0 .. N
    BY <2>1
  <2> QED
    BY <2>2
<1>5. ASSUME NEW n \in 0 .. N - 1, n \in T PROVE n + 1 \in T
  <2>1. ids[n + 1] \in Nat /\ n + 1 \in 0 .. N
    BY <1>1
  <2>2. f[n] \in Seq(Nat)
    BY <1>5
  <2>3. f[n + 1] = IF entries[ids[n + 1]] THEN f[n] ELSE Append(f[n], ids[n + 1])
    BY <1>3, ComputesNext
  <2>4. f[n + 1] \in Seq(Nat)
    <3>1. Append(f[n], ids[n + 1]) \in Seq(Nat)
      BY <2>1, <2>2
    <3> QED
      BY <2>2, <2>3, <3>1
  <2> QED
    BY <2>1, <2>4
<1> HIDE DEF T
<1>6. \A n \in 0 .. N : n \in T
  BY <1>4, <1>5, Induction
<1>7. N \in T
  BY <1>6
<1> QED
  BY <1>2, <1>7 DEF T

LEMMA VisibleEmpty ==
  ASSUME NEW entries
  PROVE  Visible(entries, <<>>) = <<>>
<1>1. <<>> \in Seq(Nat) /\ Len(<<>>) = 0 /\ 0 \in Nat
  OBVIOUS
<1>2. PICK f : Computes(f, entries, <<>>, 0) /\ Visible(entries, <<>>) = f[0]
  BY <1>1, VisibleComputes
<1>3. Computes(f, entries, <<>>, 0)
  BY <1>2
<1>4. f[0] = <<>>
  BY <1>1, <1>3, ComputesFirst
<1> QED
  BY <1>2, <1>4

LEMMA VisibleAppend ==
  ASSUME NEW entries, NEW ids \in Seq(Nat), NEW id \in Nat
  PROVE  Visible(entries, Append(ids, id)) =
           IF entries[id] THEN Visible(entries, ids) ELSE Append(Visible(entries, ids), id)
<1> DEFINE more == Append(ids, id)
<1>1. PICK N \in Nat : N = Len(ids)
  OBVIOUS
<1>2. more \in Seq(Nat) /\ Len(more) = N + 1 /\ N + 1 \in Nat /\ more[N + 1] = id
      /\ \A n \in 1 .. N : more[n] = ids[n]
  BY <1>1
<1> HIDE DEF more
<1>3. PICK f : Computes(f, entries, ids, N) /\ Visible(entries, ids) = f[N]
  BY <1>1, VisibleComputes
<1>4. PICK g : Computes(g, entries, more, N + 1) /\ Visible(entries, more) = g[N + 1]
  BY <1>2, VisibleComputes
<1>5. Computes(f, entries, ids, N)
  BY <1>3
<1>6. Computes(g, entries, more, N + 1)
  BY <1>4
<1> DEFINE T == {n \in 0 .. N : f[n] = g[n]}
<1>7. 0 \in T
  <2>1. f[0] = <<>> /\ g[0] = <<>>
    BY <1>2, <1>5, <1>6, ComputesFirst
  <2> QED
    BY <2>1
<1>8. ASSUME NEW n \in 0 .. N - 1, n \in T PROVE n + 1 \in T
  <2>1. n + 1 \in 1 .. N /\ n + 1 \in 0 .. N /\ n \in 0 .. (N + 1) - 1
    OBVIOUS
  <2>2. f[n + 1] = IF entries[ids[n + 1]] THEN f[n] ELSE Append(f[n], ids[n + 1])
    BY <1>5, ComputesNext
  <2>3. g[n + 1] = IF entries[more[n + 1]] THEN g[n] ELSE Append(g[n], more[n + 1])
    <3>1. PICK M \in Nat : M = N + 1
      BY <1>2
    <3>2. Computes(g, entries, more, M) /\ n \in 0 .. M - 1
      BY <1>6, <3>1
    <3> HIDE DEF Computes
    <3> QED
      BY <3>2, ComputesNext
  <2>4. f[n] = g[n] /\ more[n + 1] = ids[n + 1]
    BY <1>2, <1>8, <2>1
  <2>5. f[n + 1] = g[n + 1]
    BY <2>2, <2>3, <2>4
  <2> QED
    BY <2>1, <2>5
<1> HIDE DEF T
<1>9. \A n \in 0 .. N : n \in T
  BY <1>7, <1>8, Induction
<1>10. N \in T /\ N \in 0 .. (N + 1) - 1
  BY <1>9
<1>11. f[N] = g[N]
  BY <1>10 DEF T
<1>12. g[N + 1] = IF entries[more[N + 1]] THEN g[N] ELSE Append(g[N], more[N + 1])
  BY <1>2, <1>6, <1>10, ComputesNext
<1>13. Visible(entries, more) = IF entries[id] THEN f[N] ELSE Append(f[N], id)
  BY <1>2, <1>4, <1>11, <1>12
<1> QED
  BY <1>3, <1>13 DEF more

-----------------------------------------------------------------------------
(* Runs of entries. *)

\* What the list shows of the n entries up to this one.
Part(entries, newest, n) == Visible(entries, Down(newest, n))

LEMMA DownFacts ==
  ASSUME NEW newest \in Nat, NEW n \in 0 .. newest
  PROVE  /\ Down(newest, n) \in Seq(Nat) /\ Len(Down(newest, n)) = n
         /\ n < newest => Down(newest, n + 1) = Append(Down(newest, n), newest - n)
<1>1. \A i \in 1 .. n : newest - i + 1 \in Nat
  OBVIOUS
<1>2. Down(newest, n) \in Seq(Nat) /\ Len(Down(newest, n)) = n
  BY <1>1 DEF Down
<1>3. ASSUME n < newest
      PROVE  Down(newest, n + 1) = Append(Down(newest, n), newest - n)
  <2> DEFINE s == Down(newest, n)
             t == Down(newest, n + 1)
  <2>1. t \in Seq(Nat) /\ Len(t) = n + 1
    <3>1. \A i \in 1 .. n + 1 : newest - i + 1 \in Nat
      BY <1>3
    <3> QED
      BY <3>1 DEF Down
  <2>2. newest - n \in Nat
    OBVIOUS
  <2>3. Append(s, newest - n) \in Seq(Nat) /\ Len(Append(s, newest - n)) = n + 1
    BY <1>2, <2>2
  <2>4. ASSUME NEW i \in 1 .. n + 1 PROVE t[i] = Append(s, newest - n)[i]
    <3>1. t[i] = newest - i + 1
      BY DEF Down
    <3>2. CASE i = n + 1
      <4>1. Append(s, newest - n)[n + 1] = newest - n
        BY <1>2, <2>2
      <4>2. newest - (n + 1) + 1 = newest - n
        OBVIOUS
      <4> QED
        BY <3>1, <3>2, <4>1, <4>2
    <3>3. CASE i \in 1 .. n
      <4>1. s[i] = newest - i + 1
        BY <3>3 DEF Down
      <4>2. Append(s, newest - n)[i] = s[i]
        BY <1>2, <2>2, <3>3
      <4> QED
        BY <3>1, <4>1, <4>2
    <3>4. i = n + 1 \/ i \in 1 .. n
      OBVIOUS
    <3> QED
      BY <3>2, <3>3, <3>4
  <2> HIDE DEF s, t
  <2>5. t = Append(s, newest - n)
    BY <2>1, <2>3, <2>4
  <2> QED
    BY <2>5 DEF s, t
<1> QED
  BY <1>2, <1>3

LEMMA PartStep ==
  ASSUME NEW entries, NEW newest \in Nat
  PROVE  /\ Part(entries, newest, 0) = <<>>
         /\ \A n \in 0 .. newest : Part(entries, newest, n) \in Seq(Nat)
         /\ \A n \in 0 .. newest - 1 :
              Part(entries, newest, n + 1) =
                IF entries[newest - n] THEN Part(entries, newest, n)
                ELSE Append(Part(entries, newest, n), newest - n)
<1>1. Down(newest, 0) = <<>>
  BY DEF Down
<1>2. Part(entries, newest, 0) = <<>>
  BY <1>1, VisibleEmpty DEF Part
<1>3. \A n \in 0 .. newest : Part(entries, newest, n) \in Seq(Nat)
  BY DownFacts, VisibleType DEF Part
<1>4. ASSUME NEW n \in 0 .. newest - 1
      PROVE  Part(entries, newest, n + 1) =
               IF entries[newest - n] THEN Part(entries, newest, n)
               ELSE Append(Part(entries, newest, n), newest - n)
  <2>1. n \in 0 .. newest /\ n < newest /\ newest - n \in Nat
    OBVIOUS
  <2>2. Down(newest, n) \in Seq(Nat) /\ Down(newest, n + 1) = Append(Down(newest, n), newest - n)
    BY <2>1, DownFacts
  <2> QED
    BY <2>1, <2>2, VisibleAppend DEF Part
<1> QED
  BY <1>2, <1>3, <1>4

LEMMA ConcatAppend ==
  ASSUME NEW s \in Seq(Nat), NEW t \in Seq(Nat), NEW x \in Nat
  PROVE  s \o Append(t, x) = Append(s \o t, x) /\ s \o <<>> = s
OBVIOUS

LEMMA PrefixOfConcat ==
  ASSUME NEW s \in Seq(Nat), NEW t \in Seq(Nat)
  PROVE  IsPrefix(s, s \o t)
<1>1. PICK m \in Nat : m = Len(s)
  OBVIOUS
<1>2. PICK n \in Nat : n = Len(t)
  OBVIOUS
<1>3. s \o t \in Seq(Nat) /\ Len(s \o t) = m + n /\ \A i \in 1 .. m : (s \o t)[i] = s[i]
  BY <1>1, <1>2
<1>4. SubSeq(s, 1, m) = [i \in 1 .. m |-> s[i]]
  BY <1>1
<1>5. SubSeq(s \o t, 1, m) = [i \in 1 .. m |-> (s \o t)[i]]
  BY <1>1, <1>2, <1>3
<1>6. SubSeq(s, 1, m) = SubSeq(s \o t, 1, m)
  BY <1>3, <1>4, <1>5
<1>7. Len(s) <= Len(s \o t)
  BY <1>1, <1>2, <1>3
<1> QED
  BY <1>1, <1>6, <1>7 DEF IsPrefix

LEMMA PartConcat ==
  ASSUME NEW entries, NEW a \in Nat, NEW n \in 0 .. a, NEW m \in 0 .. a - n
  PROVE  Part(entries, a, n + m) = Part(entries, a, n) \o Part(entries, a - n, m)
<1>1. PICK b \in Nat : b = a - n
  OBVIOUS
<1> DEFINE T == {k \in 0 .. b : Part(entries, a, n + k) = Part(entries, a, n) \o Part(entries, b, k)}
<1>2. Part(entries, a, n) \in Seq(Nat)
  BY PartStep
<1>3. 0 \in T
  <2>1. Part(entries, b, 0) = <<>>
    BY PartStep
  <2>2. n + 0 = n /\ 0 \in 0 .. b
    OBVIOUS
  <2>3. Part(entries, a, n) = Part(entries, a, n) \o <<>>
    BY <1>2
  <2> QED
    BY <2>1, <2>2, <2>3
<1>4. ASSUME NEW k \in 0 .. b - 1, k \in T PROVE k + 1 \in T
  <2>1. /\ n + k \in 0 .. a - 1 /\ k \in 0 .. b - 1 /\ k \in 0 .. b /\ k + 1 \in 0 .. b
        /\ a - (n + k) = b - k /\ b - k \in Nat /\ n + (k + 1) = (n + k) + 1
    BY <1>1
  <2>2. Part(entries, a, (n + k) + 1) =
          IF entries[a - (n + k)] THEN Part(entries, a, n + k)
          ELSE Append(Part(entries, a, n + k), a - (n + k))
    BY <2>1, PartStep
  <2>3. Part(entries, b, k + 1) =
          IF entries[b - k] THEN Part(entries, b, k) ELSE Append(Part(entries, b, k), b - k)
    BY <2>1, PartStep
  <2>4. Part(entries, b, k) \in Seq(Nat)
    BY <2>1, PartStep
  <2>5. Part(entries, a, n + k) = Part(entries, a, n) \o Part(entries, b, k)
    BY <1>4
  <2>6. Part(entries, a, n) \o Append(Part(entries, b, k), b - k) =
          Append(Part(entries, a, n) \o Part(entries, b, k), b - k)
    BY <1>2, <2>1, <2>4, ConcatAppend
  <2>7. Part(entries, a, n + (k + 1)) = Part(entries, a, n) \o Part(entries, b, k + 1)
    BY <2>1, <2>2, <2>3, <2>5, <2>6
  <2> QED
    BY <2>1, <2>7
<1> HIDE DEF T
<1>5. \A k \in 0 .. b : k \in T
  BY <1>3, <1>4, Induction
<1>6. m \in T
  BY <1>1, <1>5
<1> QED
  BY <1>1, <1>6 DEF T

\* Entries are only added.
LEMMA PartOfSame ==
  ASSUME NEW entries, NEW other, NEW a \in Nat, \A i \in 1 .. a : entries[i] = other[i],
         NEW n \in 0 .. a
  PROVE  Part(entries, a, n) = Part(other, a, n)
<1> DEFINE T == {k \in 0 .. a : Part(entries, a, k) = Part(other, a, k)}
<1>1. 0 \in T
  <2>1. Part(entries, a, 0) = <<>> /\ Part(other, a, 0) = <<>>
    BY PartStep
  <2> QED
    BY <2>1
<1>2. ASSUME NEW k \in 0 .. a - 1, k \in T PROVE k + 1 \in T
  <2>1. k + 1 \in 0 .. a /\ a - k \in 1 .. a
    OBVIOUS
  <2>2. Part(entries, a, k + 1) =
          IF entries[a - k] THEN Part(entries, a, k) ELSE Append(Part(entries, a, k), a - k)
    BY PartStep
  <2>3. Part(other, a, k + 1) =
          IF other[a - k] THEN Part(other, a, k) ELSE Append(Part(other, a, k), a - k)
    BY PartStep
  <2>4. Part(entries, a, k) = Part(other, a, k) /\ entries[a - k] = other[a - k]
    BY <1>2, <2>1
  <2>5. Part(entries, a, k + 1) = Part(other, a, k + 1)
    BY <2>2, <2>3, <2>4
  <2> QED
    BY <2>1, <2>5
<1> HIDE DEF T
<1>3. \A k \in 0 .. a : k \in T
  BY <1>1, <1>2, Induction
<1>4. n \in T
  BY <1>3
<1> QED
  BY <1>4 DEF T

\* The last entry that shows tells where the part ends.
LEMMA PartLast ==
  ASSUME NEW entries, NEW a \in Nat, NEW n \in 0 .. a, Part(entries, a, n) # <<>>
  PROVE  \E k \in 1 .. n : Last(Part(entries, a, n)) = a - k + 1
                           /\ Part(entries, a, n) = Part(entries, a, k)
<1> DEFINE T == {m \in 0 .. a : Part(entries, a, m) = <<>>
                   \/ \E k \in 1 .. m : Last(Part(entries, a, m)) = a - k + 1
                                        /\ Part(entries, a, m) = Part(entries, a, k)}
<1>1. 0 \in T
  <2>1. Part(entries, a, 0) = <<>>
    BY PartStep
  <2> QED
    BY <2>1
<1>2. ASSUME NEW m \in 0 .. a - 1, m \in T PROVE m + 1 \in T
  <2>1. m + 1 \in 0 .. a /\ m \in 0 .. a /\ a - m \in Nat /\ m + 1 \in 1 .. m + 1
        /\ a - (m + 1) + 1 = a - m
    OBVIOUS
  <2>2. Part(entries, a, m + 1) =
          IF entries[a - m] THEN Part(entries, a, m) ELSE Append(Part(entries, a, m), a - m)
    BY PartStep
  <2>3. CASE entries[a - m]
    <3>1. Part(entries, a, m + 1) = Part(entries, a, m)
      BY <2>2, <2>3
    <3>2. CASE Part(entries, a, m) = <<>>
      BY <2>1, <3>1, <3>2
    <3>3. CASE Part(entries, a, m) # <<>>
      <4>1. PICK k \in 1 .. m : Last(Part(entries, a, m)) = a - k + 1
                                /\ Part(entries, a, m) = Part(entries, a, k)
        BY <1>2, <3>3
      <4>2. k \in 1 .. m + 1
        OBVIOUS
      <4> QED
        BY <2>1, <3>1, <4>1, <4>2
    <3> QED
      BY <3>2, <3>3
  <2>4. CASE ~entries[a - m]
    <3>1. Part(entries, a, m) \in Seq(Nat)
      BY <2>1, PartStep
    <3>2. Part(entries, a, m + 1) = Append(Part(entries, a, m), a - m)
      BY <2>2, <2>4
    <3>3. PICK s \in Seq(Nat) : s = Part(entries, a, m)
      BY <3>1
    <3>4. Last(Append(s, a - m)) = a - m
      BY <2>1, <3>3 DEF Last
    <3>5. Last(Part(entries, a, m + 1)) = a - (m + 1) + 1
      BY <2>1, <3>2, <3>3, <3>4
    <3> QED
      BY <2>1, <3>5
  <2> QED
    BY <2>3, <2>4
<1> HIDE DEF T
<1>3. \A m \in 0 .. a : m \in T
  BY <1>1, <1>2, Induction
<1>4. n \in T
  BY <1>3
<1> QED
  BY <1>4 DEF T

LEMMA AppendNotEmpty ==
  ASSUME NEW s \in Seq(Nat), NEW x \in Nat
  PROVE  Append(s, x) # <<>>
<1>1. PICK N \in Nat : N = Len(s)
  OBVIOUS
<1>2. Len(Append(s, x)) = N + 1 /\ Len(<<>>) = 0 /\ N + 1 # 0
  BY <1>1
<1> QED
  BY <1>2

LEMMA ConcatType ==
  ASSUME NEW s \in Seq(Nat), NEW t \in Seq(Nat)
  PROVE  s \o t \in Seq(Nat)
OBVIOUS

LEMMA ConcatNotEmpty ==
  ASSUME NEW s \in Seq(Nat), NEW t \in Seq(Nat), t # <<>>
  PROVE  s \o t # <<>>
<1>1. PICK m \in Nat : m = Len(s)
  OBVIOUS
<1>2. PICK n \in Nat : n = Len(t) /\ n # 0
  OBVIOUS
<1>3. Len(s \o t) = m + n /\ m + n # 0 /\ Len(<<>>) = 0
  BY <1>1, <1>2
<1> QED
  BY <1>3

\* A part that shows nothing is hidden.
LEMMA PartHidden ==
  ASSUME NEW entries, NEW a \in Nat, NEW n \in 0 .. a, Part(entries, a, n) = <<>>
  PROVE  \A i \in a - n + 1 .. a : entries[i]
<1> DEFINE T == {m \in 0 .. a : Part(entries, a, m) = <<>> => \A i \in a - m + 1 .. a : entries[i]}
<1>1. 0 \in T
  OBVIOUS
<1>2. ASSUME NEW m \in 0 .. a - 1, m \in T PROVE m + 1 \in T
  <2>1. m + 1 \in 0 .. a /\ m \in 0 .. a /\ a - m \in Nat
    OBVIOUS
  <2>2. Part(entries, a, m + 1) =
          IF entries[a - m] THEN Part(entries, a, m) ELSE Append(Part(entries, a, m), a - m)
    BY PartStep
  <2>3. ASSUME Part(entries, a, m + 1) = <<>>, NEW i \in a - (m + 1) + 1 .. a
        PROVE  entries[i]
    <3>1. Part(entries, a, m) \in Seq(Nat)
      BY <2>1, PartStep
    <3>2. PICK s \in Seq(Nat) : s = Part(entries, a, m)
      BY <3>1
    <3>3. Append(s, a - m) # <<>>
      BY <2>1, AppendNotEmpty
    <3>4. entries[a - m] /\ Part(entries, a, m) = <<>>
      BY <2>2, <2>3, <3>2, <3>3
    <3>5. i = a - m \/ i \in a - m + 1 .. a
      BY <2>3
    <3> QED
      BY <1>2, <3>4, <3>5
  <2> QED
    BY <2>1, <2>3
<1> HIDE DEF T
<1>3. \A m \in 0 .. a : m \in T
  BY <1>1, <1>2, Induction
<1>4. n \in T
  BY <1>3
<1> QED
  BY <1>4 DEF T

-----------------------------------------------------------------------------
(* Queues of events. *)

Messages == {Success} \cup [type : {"LogsEvent"}, ids : Seq(Nat)]

IsSuccess(e) == e.type = "SuccessSessionEvent"

NoLogs(q) == \A i \in DOMAIN q : ~IsLogs(q[i])

\* The page is in the queue, and no other.
OnlyLogs(q, ids) ==
  \E i \in DOMAIN q : q[i] = Logs(ids) /\ \A j \in DOMAIN q : IsLogs(q[j]) => j = i

HasSuccess(q) == \E i \in DOMAIN q : IsSuccess(q[i])

LEMMA MessageFacts ==
  /\ Success \in Messages /\ IsSuccess(Success) /\ ~IsLogs(Success)
  /\ \A ids \in Seq(Nat) : Logs(ids) \in Messages /\ IsLogs(Logs(ids)) /\ ~IsSuccess(Logs(ids))
                           /\ Logs(ids).ids = ids
  /\ \A e \in Messages : IsLogs(e) => e.ids \in Seq(Nat) /\ e = Logs(e.ids)
BY DEF Messages, Success, Logs, IsLogs, IsSuccess

LEMMA AppendFacts ==
  ASSUME NEW S, NEW s \in Seq(S), NEW e \in S
  PROVE  /\ Append(s, e) \in Seq(S) /\ Append(s, e) # <<>>
         /\ DOMAIN Append(s, e) = DOMAIN s \cup {Len(s) + 1}
         /\ Len(s) + 1 \notin DOMAIN s
         /\ \A i \in DOMAIN s : Append(s, e)[i] = s[i]
         /\ Append(s, e)[Len(s) + 1] = e
<1>1. PICK N \in Nat : N = Len(s)
  OBVIOUS
<1>2. DOMAIN s = 1 .. N
  BY <1>1
<1>3. /\ Append(s, e) \in Seq(S) /\ Len(Append(s, e)) = N + 1
      /\ \A i \in 1 .. N : Append(s, e)[i] = s[i]
      /\ Append(s, e)[N + 1] = e
  BY <1>1
<1>4. DOMAIN Append(s, e) = 1 .. N + 1
  BY <1>1, <1>3
<1>5. 1 .. N + 1 = (1 .. N) \cup {N + 1} /\ N + 1 \notin 1 .. N /\ N + 1 # 0 /\ Len(<<>>) = 0
  OBVIOUS
<1> QED
  BY <1>1, <1>2, <1>3, <1>4, <1>5

LEMMA TailFacts ==
  ASSUME NEW S, NEW s \in Seq(S), s # <<>>
  PROVE  /\ Head(s) = s[1] /\ Head(s) \in S /\ 1 \in DOMAIN s
         /\ Tail(s) \in Seq(S)
         /\ \A i \in DOMAIN Tail(s) : i + 1 \in DOMAIN s /\ i + 1 # 1 /\ Tail(s)[i] = s[i + 1]
         /\ \A i \in DOMAIN s : i # 1 => i - 1 \in DOMAIN Tail(s) /\ Tail(s)[i - 1] = s[i]
<1>1. PICK N \in Nat : N = Len(s)
  OBVIOUS
<1>2. N # 0 /\ DOMAIN s = 1 .. N
  BY <1>1
<1>3. Head(s) = s[1] /\ s[1] \in S /\ Tail(s) \in Seq(S) /\ Len(Tail(s)) = N - 1
  BY <1>1, <1>2
<1>4. DOMAIN Tail(s) = 1 .. N - 1
  BY <1>3
<1>5. \A i \in 1 .. N - 1 : Tail(s)[i] = s[i + 1]
  BY <1>1, <1>2
<1>6. 1 \in 1 .. N /\ \A i \in 1 .. N - 1 : i + 1 \in 1 .. N /\ i + 1 # 1
  BY <1>2
<1>7. ASSUME NEW i \in 1 .. N, i # 1 PROVE i - 1 \in 1 .. N - 1 /\ Tail(s)[i - 1] = s[i]
  <2>1. i - 1 \in 1 .. N - 1 /\ (i - 1) + 1 = i
    BY <1>7
  <2>2. PICK j \in 1 .. N - 1 : j = i - 1 /\ j + 1 = i
    BY <2>1
  <2> QED
    BY <1>5, <2>1, <2>2
<1> QED
  BY <1>2, <1>3, <1>4, <1>5, <1>6, <1>7

LEMMA AppendSuccess ==
  ASSUME NEW q \in Seq(Messages)
  PROVE  /\ Append(q, Success) \in Seq(Messages)
         /\ HasSuccess(Append(q, Success))
         /\ NoLogs(q) => NoLogs(Append(q, Success))
         /\ \A ids : OnlyLogs(q, ids) => OnlyLogs(Append(q, Success), ids)
<1>1. Success \in Messages /\ IsSuccess(Success) /\ ~IsLogs(Success)
  BY MessageFacts
<1>2. PICK r : r = Append(q, Success)
  OBVIOUS
<1>3. PICK l : l = Len(q) + 1
  OBVIOUS
<1>4. /\ r \in Seq(Messages) /\ DOMAIN r = DOMAIN q \cup {l} /\ r[l] = Success
      /\ \A i \in DOMAIN q : r[i] = q[i]
  BY <1>1, <1>2, <1>3, AppendFacts
<1> QED
  BY <1>1, <1>2, <1>4 DEF HasSuccess, NoLogs, OnlyLogs

LEMMA AppendLogs ==
  ASSUME NEW q \in Seq(Messages), NEW ids \in Seq(Nat)
  PROVE  /\ Append(q, Logs(ids)) \in Seq(Messages)
         /\ HasSuccess(q) => HasSuccess(Append(q, Logs(ids)))
         /\ NoLogs(q) => OnlyLogs(Append(q, Logs(ids)), ids)
<1>1. Logs(ids) \in Messages
  BY MessageFacts
<1>2. PICK r : r = Append(q, Logs(ids))
  OBVIOUS
<1>3. PICK l : l = Len(q) + 1
  OBVIOUS
<1>4. /\ r \in Seq(Messages) /\ DOMAIN r = DOMAIN q \cup {l} /\ r[l] = Logs(ids)
      /\ \A i \in DOMAIN q : r[i] = q[i]
  BY <1>1, <1>2, <1>3, AppendFacts
<1> QED
  BY <1>2, <1>4 DEF HasSuccess, NoLogs, OnlyLogs

LEMMA TakeHead ==
  ASSUME NEW q \in Seq(Messages), q # <<>>
  PROVE  /\ Head(q) \in Messages /\ Tail(q) \in Seq(Messages)
         /\ NoLogs(q) => ~IsLogs(Head(q)) /\ NoLogs(Tail(q))
         /\ HasSuccess(q) => IsSuccess(Head(q)) \/ HasSuccess(Tail(q))
         /\ \A ids : OnlyLogs(q, ids) /\ IsLogs(Head(q)) =>
                       Head(q) = Logs(ids) /\ NoLogs(Tail(q))
<1>1. PICK r : r = Tail(q)
  OBVIOUS
<1>2. /\ Head(q) = q[1] /\ Head(q) \in Messages /\ 1 \in DOMAIN q /\ r \in Seq(Messages)
      /\ \A i \in DOMAIN r : i + 1 \in DOMAIN q /\ i + 1 # 1 /\ r[i] = q[i + 1]
      /\ \A i \in DOMAIN q : i # 1 => i - 1 \in DOMAIN r /\ r[i - 1] = q[i]
  BY <1>1, TailFacts
<1>3. NoLogs(q) => ~IsLogs(Head(q)) /\ NoLogs(r)
  BY <1>2 DEF NoLogs
<1>4. HasSuccess(q) => IsSuccess(Head(q)) \/ HasSuccess(r)
  BY <1>2 DEF HasSuccess
<1>5. ASSUME NEW ids, OnlyLogs(q, ids), IsLogs(Head(q))
      PROVE  Head(q) = Logs(ids) /\ NoLogs(r)
  <2>1. PICK i \in DOMAIN q : q[i] = Logs(ids) /\ \A j \in DOMAIN q : IsLogs(q[j]) => j = i
    BY <1>5 DEF OnlyLogs
  <2>2. i = 1
    BY <1>2, <1>5, <2>1
  <2> QED
    BY <1>2, <2>1, <2>2 DEF NoLogs
<1> QED
  BY <1>1, <1>2, <1>3, <1>4, <1>5

-----------------------------------------------------------------------------
(* Types. *)

\* A list that may ask for more shows an entry to ask from.
TypeInv ==
  /\ TypeOK
  /\ state.moreLogsAvailable /\ ~state.loading => state.logEntries # <<>>

SizeOf(n) == IF n < PageSize THEN n ELSE PageSize

LEMMA SizeFacts ==
  ASSUME NEW n \in Nat
  PROVE  SizeOf(n) \in 0 .. n
BY HistoryAssumption DEF SizeOf

LEMMA LoadLogsIs ==
  ASSUME NEW before \in Nat, logs \in Seq(BOOLEAN)
  PROVE  /\ before = Newest => LoadLogs(before) = Down(Len(logs), SizeOf(Len(logs)))
         /\ before # Newest => LoadLogs(before) = Down(before - 1, SizeOf(before - 1))
         /\ LoadLogs(before) \in Seq(Nat)
<1>1. PICK N \in Nat : N = Len(logs)
  OBVIOUS
<1>2. /\ before = Newest => LoadLogs(before) = Down(Len(logs), SizeOf(Len(logs)))
      /\ before # Newest => LoadLogs(before) = Down(before - 1, SizeOf(before - 1))
  BY DEF LoadLogs, SizeOf
<1>3. PICK last \in Nat : LoadLogs(before) = Down(last, SizeOf(last))
  BY <1>1, <1>2 DEF Newest
<1>4. SizeOf(last) \in 0 .. last
  BY SizeFacts
<1>5. Down(last, SizeOf(last)) \in Seq(Nat)
  BY <1>4, DownFacts
<1> QED
  BY <1>2, <1>3, <1>5

LEMMA LoadInitialType ==
  ASSUME TypeOK, NEW st \in HistoryState, LoadInitialLogs(st)
  PROVE  /\ toGo' \in Seq(Nat) /\ state' \in HistoryState
         /\ state' = [logEntries |-> <<>>, loading |-> TRUE,
                      moreLogsAvailable |-> st.moreLogsAvailable]
         /\ crossed' \in BOOLEAN /\ failed' \in BOOLEAN
<1>1. Newest \in Nat /\ toGo' = Append(toGo, Newest)
  BY DEF LoadInitialLogs, Newest
<1>2. toGo' \in Seq(Nat)
  BY <1>1 DEF TypeOK
<1>3. state' = [logEntries |-> <<>>, loading |-> TRUE, moreLogsAvailable |-> st.moreLogsAvailable]
  BY DEF LoadInitialLogs, HistoryState
<1>4. state' \in HistoryState
  BY <1>3 DEF HistoryState
<1>5. crossed' \in BOOLEAN /\ failed' \in BOOLEAN
  BY DEF LoadInitialLogs, LoadUnderWay, TypeOK
<1> QED
  BY <1>2, <1>3, <1>4, <1>5

LEMMA TypeInit == Init => TypeInv
<1> SUFFICES ASSUME Init PROVE TypeInv
  OBVIOUS
<1>1. NewState \in HistoryState /\ ~NewState.moreLogsAvailable
  BY DEF NewState, HistoryState
<1>2. <<>> \in Seq(BOOLEAN) /\ <<>> \in Seq(Nat) /\ Len(<<>>) = 0
      /\ <<>> \in Seq({Success} \cup [type : {"LogsEvent"}, ids : Seq(Nat)])
  OBVIOUS
<1>3. 0 \in 0 .. 0
  OBVIOUS
<1> QED
  BY <1>1, <1>2, <1>3 DEF Init, TypeInv, TypeOK

LEMMA TypeStep == TypeInv /\ [Next]_vars => TypeInv'
<1> SUFFICES ASSUME TypeInv, [Next]_vars PROVE TypeInv'
  OBVIOUS
<1>0. /\ TypeOK /\ logs \in Seq(BOOLEAN) /\ toGo \in Seq(Nat) /\ toApp \in Seq(Messages)
      /\ open \in BOOLEAN /\ state \in HistoryState /\ announced \in 0 .. Len(logs)
      /\ crossed \in BOOLEAN /\ failed \in BOOLEAN
  BY DEF TypeInv, TypeOK, Messages
<1>a. SUFFICES /\ logs' \in Seq(BOOLEAN) /\ toGo' \in Seq(Nat) /\ toApp' \in Seq(Messages)
               /\ open' \in BOOLEAN /\ state' \in HistoryState /\ announced' \in 0 .. Len(logs')
               /\ crossed' \in BOOLEAN /\ failed' \in BOOLEAN
               /\ state'.moreLogsAvailable /\ ~state'.loading => state'.logEntries # <<>>
  BY DEF TypeInv, TypeOK, Messages
<1>b. state.moreLogsAvailable /\ ~state.loading => state.logEntries # <<>>
  BY DEF TypeInv
<1>1. CASE AddLogEntry
  <2>1. PICK hidden \in BOOLEAN : logs' = Append(logs, hidden)
    BY <1>1 DEF AddLogEntry
  <2>2. logs' \in Seq(BOOLEAN) /\ Len(logs') = Len(logs) + 1 /\ Len(logs) \in Nat
    BY <1>0, <2>1
  <2>3. announced' = Len(logs') \/ announced' = announced
    BY <1>1 DEF AddLogEntry
  <2>4. announced' \in 0 .. Len(logs')
    BY <1>0, <2>2, <2>3
  <2>5. toApp' \in Seq(Messages)
    BY <1>0, <1>1, AppendSuccess DEF AddLogEntry
  <2> QED
    BY <1>0, <1>b, <1>1, <2>2, <2>4, <2>5 DEF AddLogEntry
<1>2. CASE loadLogs
  <2>1. Head(toGo) \in Nat /\ toGo' \in Seq(Nat)
    BY <1>0, <1>2, TailFacts DEF loadLogs
  <2>2. LoadLogs(Head(toGo)) \in Seq(Nat)
    BY <1>0, <2>1, LoadLogsIs
  <2>3. Append(toApp, Logs(LoadLogs(Head(toGo)))) \in Seq(Messages)
    BY <1>0, <2>2, AppendLogs
  <2>4. toApp' \in Seq(Messages)
    BY <1>0, <1>2, <2>3 DEF loadLogs
  <2>5. failed' \in BOOLEAN
    BY <1>0, <1>2 DEF loadLogs
  <2> QED
    BY <1>0, <1>b, <1>2, <2>1, <2>4, <2>5 DEF loadLogs
<1>3. CASE OpenTab
  <2>1. NewState \in HistoryState
    BY DEF NewState, HistoryState
  <2>2. LoadInitialLogs(NewState)
    BY <1>3 DEF OpenTab
  <2>3. /\ toGo' \in Seq(Nat) /\ state' \in HistoryState /\ state'.loading
        /\ crossed' \in BOOLEAN /\ failed' \in BOOLEAN
    BY <1>0, <2>1, <2>2, LoadInitialType
  <2>4. open' \in BOOLEAN /\ UNCHANGED <<logs, toApp, announced>>
    BY <1>3 DEF OpenTab
  <2> QED
    BY <1>0, <2>3, <2>4
<1>4. CASE CloseTab
  <2>1. state' \in HistoryState /\ ~state'.moreLogsAvailable
    BY <1>4 DEF CloseTab, NewState, HistoryState
  <2> QED
    BY <1>0, <1>4, <2>1 DEF CloseTab
<1>5. CASE LoadMoreLogs
  <2>1. state.logEntries \in Seq(Nat) /\ state.logEntries # <<>>
    BY <1>0, <1>b, <1>5 DEF LoadMoreLogs, HistoryState
  <2>2. Last(state.logEntries) \in Nat
    BY <2>1 DEF Last
  <2>3. PICK n \in 1 .. MaxAtOnce : /\ toGo' = toGo \o [i \in 1 .. n |-> Last(state.logEntries)]
                                    /\ crossed' = (crossed \/ LoadUnderWay \/ n > 1)
    BY <1>5 DEF LoadMoreLogs
  <2>4. n \in Nat
    BY HistoryAssumption
  <2>5. [i \in 1 .. n |-> Last(state.logEntries)] \in Seq(Nat)
    BY <2>2, <2>4
  <2>6. toGo' \in Seq(Nat)
    BY <1>0, <2>3, <2>5
  <2>7. state' \in HistoryState /\ state'.loading
    BY <1>0, <1>5 DEF LoadMoreLogs, HistoryState
  <2>8. crossed' \in BOOLEAN
    BY <2>3
  <2> QED
    BY <1>0, <1>5, <2>6, <2>7, <2>8 DEF LoadMoreLogs
<1>6. CASE Receive
  <2> DEFINE e == Head(toApp)
  <2>1. e \in Messages /\ toApp' \in Seq(Messages)
    BY <1>0, <1>6, TakeHead DEF Receive
  <2>2. UNCHANGED <<logs, open, announced>>
    BY <1>6 DEF Receive
  <2>3. CASE UNCHANGED <<toGo, state, crossed, failed>>
    BY <1>0, <1>b, <2>1, <2>2, <2>3
  <2>4. CASE e.type = "LogsEvent" /\ Take(e.ids) /\ UNCHANGED <<toGo, crossed, failed>>
    <3>1. e.ids \in Seq(Nat)
      BY <2>1, <2>4, MessageFacts DEF IsLogs
    <3>2. Visible(logs, e.ids) \in Seq(Nat)
      BY <3>1, VisibleType
    <3>3. PICK shown \in Seq(Nat) : shown = Visible(logs, e.ids)
      BY <3>2
    <3>4. state' = [logEntries |-> state.logEntries \o shown, loading |-> FALSE,
                    moreLogsAvailable |-> shown # <<>>]
      BY <2>4, <3>3 DEF Take
    <3>5. state.logEntries \in Seq(Nat)
      BY <1>0 DEF HistoryState
    <3>6. PICK more \in Seq(Nat) : more = state.logEntries \o shown
      BY <3>5, ConcatType
    <3>7. state' \in HistoryState
      BY <3>4, <3>6 DEF HistoryState
    <3>8. shown # <<>> => more # <<>>
      BY <3>5, <3>6, ConcatNotEmpty
    <3> QED
      BY <1>0, <2>1, <2>2, <2>4, <3>4, <3>6, <3>7, <3>8
  <2>5. CASE LoadInitialLogs(state)
    <3>1. /\ toGo' \in Seq(Nat) /\ state' \in HistoryState /\ state'.loading
          /\ crossed' \in BOOLEAN /\ failed' \in BOOLEAN
      BY <1>0, <2>5, LoadInitialType
    <3> QED
      BY <1>0, <2>1, <2>2, <3>1
  <2> QED
    BY <1>6, <2>3, <2>4, <2>5 DEF Receive
<1>7. CASE UNCHANGED vars
  BY <1>0, <1>b, <1>7 DEF vars
<1> QED
  BY <1>1, <1>2, <1>3, <1>4, <1>5, <1>6, <1>7 DEF Next

\* The state of the list, of irmaclient's log and of what is under way between
\* them stays of its type.
THEOREM TypeCorrect == Spec => []TypeOK
<1>1. TypeInv => TypeOK
  BY DEF TypeInv
<1> QED
  BY TypeInit, TypeStep, <1>1, PTL DEF Spec

-----------------------------------------------------------------------------
(* The list.  Either an answer is asked for, it is on its way, or it was       *)
(* taken; and what the list shows is part of the newest entries each time.     *)

\* The list shows k entries up to the n-th, and a success that it does not show
\* is still to come.
Loaded(n, k) ==
  /\ state.logEntries = Part(logs, n, k)
  /\ announced <= n \/ HasSuccess(toApp)

\* The entries to ask for are those before what is loaded.
Asking ==
  /\ NoLogs(toApp) /\ state.loading
  /\ \/ toGo = <<Newest>> /\ state.logEntries = <<>>
     \/ \E n \in 0 .. Len(logs) : \E k \in 1 .. n : Loaded(n, k) /\ toGo = <<n - k + 1>>

Answered ==
  /\ toGo = <<>> /\ state.loading
  /\ \E n \in 0 .. Len(logs) : \E k \in 0 .. n :
       Loaded(n, k) /\ OnlyLogs(toApp, Down(n - k, SizeOf(n - k)))

\* There is more to ask for, or all is shown, or the last page showed nothing.
Done ==
  /\ toGo = <<>> /\ NoLogs(toApp) /\ ~state.loading
  /\ \E n \in 0 .. Len(logs) : \E k \in 0 .. n :
       /\ Loaded(n, k)
       /\ \/ state.moreLogsAvailable \/ k = n
          \/ k >= PageSize /\ Part(logs, n - k + PageSize, PageSize) = <<>>

ListInv == open /\ ~crossed /\ ~failed => Asking \/ Answered \/ Done

Typed ==
  /\ logs \in Seq(BOOLEAN) /\ toGo \in Seq(Nat) /\ toApp \in Seq(Messages)
  /\ open \in BOOLEAN /\ state \in HistoryState /\ announced \in 0 .. Len(logs)
  /\ crossed \in BOOLEAN /\ failed \in BOOLEAN

LEMMA AddKeepsLoaded ==
  ASSUME Typed, AddLogEntry, NEW n \in 0 .. Len(logs), NEW k \in 0 .. n
  PROVE  /\ n \in 0 .. Len(logs')
         /\ Loaded(n, k) => Loaded(n, k)'
         /\ \A a \in 0 .. n : \A m \in 0 .. a : Part(logs', a, m) = Part(logs, a, m)
<1>1. PICK hidden \in BOOLEAN : logs' = Append(logs, hidden)
  BY DEF AddLogEntry
<1>2. PICK N \in Nat : N = Len(logs)
  BY DEF Typed
<1>3. Len(logs') = N + 1 /\ \A i \in 1 .. N : logs[i] = logs'[i]
  BY <1>1, <1>2 DEF Typed
<1>4. n \in 0 .. N
  BY <1>2
<1>5. n \in 0 .. Len(logs')
  BY <1>3, <1>4
<1>6. ASSUME NEW a \in 0 .. n, NEW m \in 0 .. a PROVE Part(logs', a, m) = Part(logs, a, m)
  <2>1. a \in Nat /\ \A i \in 1 .. a : logs[i] = logs'[i]
    BY <1>3, <1>4
  <2> QED
    BY <2>1, PartOfSame
<1>7. ASSUME Loaded(n, k) PROVE Loaded(n, k)'
  <2>1. n \in 0 .. n
    BY <1>4
  <2>2. state' = state /\ Part(logs', n, k) = Part(logs, n, k)
    BY <1>6, <2>1 DEF AddLogEntry
  <2>3. CASE toApp' = Append(toApp, Success)
    <3>1. HasSuccess(toApp')
      BY <2>3, AppendSuccess DEF Typed
    <3> QED
      BY <1>7, <2>2, <3>1 DEF Loaded
  <2>4. CASE UNCHANGED <<toApp, announced>>
    BY <1>7, <2>2, <2>4 DEF Loaded
  <2> QED
    BY <2>3, <2>4 DEF AddLogEntry
<1> QED
  BY <1>5, <1>6, <1>7

LEMMA AddStep ==
  ASSUME Typed, ListInv, AddLogEntry
  PROVE  ListInv'
<1> SUFFICES ASSUME open', ~crossed', ~failed' PROVE (Asking \/ Answered \/ Done)'
  BY DEF ListInv
<1>1. Asking \/ Answered \/ Done
  BY DEF ListInv, AddLogEntry
<1>2. UNCHANGED <<toGo, state>>
  BY DEF AddLogEntry
<1>3. toApp' = Append(toApp, Success) \/ toApp' = toApp
  BY DEF AddLogEntry
<1>4. /\ NoLogs(toApp) => NoLogs(toApp')
      /\ \A ids : OnlyLogs(toApp, ids) => OnlyLogs(toApp', ids)
  BY <1>3, AppendSuccess DEF Typed
<1>5. CASE Asking
  <2>1. CASE toGo = <<Newest>> /\ state.logEntries = <<>>
    BY <1>2, <1>4, <1>5, <2>1 DEF Asking
  <2>2. CASE \E n \in 0 .. Len(logs) : \E k \in 1 .. n : Loaded(n, k) /\ toGo = <<n - k + 1>>
    <3>1. PICK n \in 0 .. Len(logs) : \E k \in 1 .. n : Loaded(n, k) /\ toGo = <<n - k + 1>>
      BY <2>2
    <3>2. PICK k \in 1 .. n : Loaded(n, k) /\ toGo = <<n - k + 1>>
      BY <3>1
    <3>3. n \in 0 .. Len(logs') /\ Loaded(n, k)'
      BY <3>2, AddKeepsLoaded
    <3> QED
      BY <1>2, <1>4, <1>5, <3>2, <3>3 DEF Asking
  <2> QED
    BY <1>5, <2>1, <2>2 DEF Asking
<1>6. CASE Answered
  <2>1. PICK n \in 0 .. Len(logs) : \E k \in 0 .. n :
               Loaded(n, k) /\ OnlyLogs(toApp, Down(n - k, SizeOf(n - k)))
    BY <1>6 DEF Answered
  <2>2. PICK k \in 0 .. n : Loaded(n, k) /\ OnlyLogs(toApp, Down(n - k, SizeOf(n - k)))
    BY <2>1
  <2>3. n \in 0 .. Len(logs') /\ Loaded(n, k)'
    BY <2>2, AddKeepsLoaded
  <2>4. OnlyLogs(toApp', Down(n - k, SizeOf(n - k)))
    BY <1>4, <2>2
  <2> QED
    BY <1>2, <1>6, <2>3, <2>4 DEF Answered
<1>7. CASE Done
  <2>1. PICK n \in 0 .. Len(logs) : \E k \in 0 .. n :
               /\ Loaded(n, k)
               /\ \/ state.moreLogsAvailable \/ k = n
                  \/ k >= PageSize /\ Part(logs, n - k + PageSize, PageSize) = <<>>
    BY <1>7 DEF Done
  <2>2. PICK k \in 0 .. n :
               /\ Loaded(n, k)
               /\ \/ state.moreLogsAvailable \/ k = n
                  \/ k >= PageSize /\ Part(logs, n - k + PageSize, PageSize) = <<>>
    BY <2>1
  <2>3. n \in 0 .. Len(logs') /\ Loaded(n, k)'
    BY <2>2, AddKeepsLoaded
  <2>4. ASSUME k >= PageSize
        PROVE  Part(logs', n - k + PageSize, PageSize) = Part(logs, n - k + PageSize, PageSize)
    <3>1. n \in Nat /\ PageSize \in Nat
      BY HistoryAssumption DEF Typed
    <3>2. n - k + PageSize \in 0 .. n /\ PageSize \in 0 .. n - k + PageSize
      BY <2>4, <3>1
    <3> QED
      BY <3>2, AddKeepsLoaded
  <2> QED
    BY <1>2, <1>4, <1>7, <2>2, <2>3, <2>4 DEF Done
<1> QED
  BY <1>1, <1>5, <1>6, <1>7

LEMMA AnswerStep ==
  ASSUME Typed, ListInv, loadLogs
  PROVE  ListInv'
<1> SUFFICES ASSUME open', ~crossed', ~failed' PROVE Answered'
  BY DEF ListInv
<1>1. /\ toGo # <<>> /\ toGo' = Tail(toGo) /\ UNCHANGED <<logs, state, announced>>
      /\ toApp' = Append(toApp, Logs(LoadLogs(Head(toGo))))
  BY DEF loadLogs
<1>2. Asking
  BY <1>1 DEF ListInv, loadLogs, Answered, Done
<1>3. PICK before \in Nat : toGo = <<before>>
  <2>1. CASE toGo = <<Newest>>
    BY <2>1 DEF Newest
  <2>2. ASSUME NEW n \in 0 .. Len(logs), NEW k \in 1 .. n, toGo = <<n - k + 1>>
        PROVE  n - k + 1 \in Nat
    BY DEF Typed
  <2> QED
    BY <1>2, <2>1, <2>2 DEF Asking
<1>4. toGo' = <<>> /\ Head(toGo) = before
  BY <1>1, <1>3
<1>5. /\ before = Newest => LoadLogs(before) = Down(Len(logs), SizeOf(Len(logs)))
      /\ before # Newest => LoadLogs(before) = Down(before - 1, SizeOf(before - 1))
      /\ LoadLogs(before) \in Seq(Nat)
  BY LoadLogsIs DEF Typed
<1>6. OnlyLogs(toApp', LoadLogs(before)) /\ (HasSuccess(toApp) => HasSuccess(toApp'))
  BY <1>1, <1>2, <1>4, <1>5, AppendLogs DEF Asking, Typed
<1>7. \A n, k : Loaded(n, k) => Loaded(n, k)'
  BY <1>1, <1>6 DEF Loaded
<1>8. PICK N \in Nat : N = Len(logs)
  BY DEF Typed
<1>9. state'.loading
  BY <1>1, <1>2 DEF Asking
<1>10. CASE toGo = <<Newest>> /\ state.logEntries = <<>>
  <2>1. before = Newest
    BY <1>3, <1>10
  <2>2. Part(logs, N, 0) = <<>>
    BY PartStep
  <2>3. announced <= N
    BY <1>8 DEF Typed
  <2>4. Loaded(N, 0)'
    BY <1>7, <1>10, <2>2, <2>3 DEF Loaded
  <2>5. OnlyLogs(toApp', Down(N - 0, SizeOf(N - 0)))
    BY <1>5, <1>6, <1>8, <2>1
  <2>6. N \in 0 .. Len(logs') /\ 0 \in 0 .. N
    BY <1>1, <1>8
  <2> QED
    BY <1>4, <1>9, <2>4, <2>5, <2>6 DEF Answered
<1>11. ASSUME NEW n \in 0 .. Len(logs), NEW k \in 1 .. n, Loaded(n, k), toGo = <<n - k + 1>>
       PROVE  Answered'
  <2>1. n \in Nat /\ k \in 0 .. n
    BY <1>8
  <2>2. before = n - k + 1
    BY <1>3, <1>11
  <2>3. before # Newest /\ before - 1 = n - k
    BY <2>1, <2>2 DEF Newest
  <2>4. OnlyLogs(toApp', Down(n - k, SizeOf(n - k)))
    BY <1>5, <1>6, <2>3
  <2>5. Loaded(n, k)' /\ n \in 0 .. Len(logs')
    BY <1>1, <1>7, <1>11
  <2> QED
    BY <1>4, <1>9, <2>1, <2>4, <2>5 DEF Answered
<1> QED
  BY <1>2, <1>10, <1>11 DEF Asking

\* A list that is emptied while no load is under way asks for the newest page.
LEMMA InitialStep ==
  ASSUME Typed, NEW st \in HistoryState, LoadInitialLogs(st), ~crossed',
         toApp' = toApp \/ (toApp # <<>> /\ toApp' = Tail(toApp))
  PROVE  Asking'
<1>1. ~LoadUnderWay
  BY DEF LoadInitialLogs
<1>2. toGo = <<>> /\ NoLogs(toApp)
  BY <1>1 DEF LoadUnderWay, NoLogs
<1>3. NoLogs(toApp')
  BY <1>2, TakeHead DEF Typed
<1>4. toGo' = <<Newest>> /\ state'.loading /\ state'.logEntries = <<>>
  BY <1>2 DEF LoadInitialLogs, HistoryState
<1> QED
  BY <1>3, <1>4 DEF Asking

LEMMA MoreStep ==
  ASSUME Typed, TypeInv, ListInv, LoadMoreLogs
  PROVE  ListInv'
<1> SUFFICES ASSUME open', ~crossed', ~failed' PROVE Asking'
  BY DEF ListInv
<1>1. PICK m \in 1 .. MaxAtOnce :
           /\ toGo' = toGo \o [i \in 1 .. m |-> Last(state.logEntries)]
           /\ crossed' = (crossed \/ LoadUnderWay \/ m > 1)
  BY DEF LoadMoreLogs
<1>2. m = 1 /\ ~crossed
  <2>1. ~crossed /\ ~(m > 1)
    BY <1>1, Zenon
  <2>2. PICK N \in Nat : N = MaxAtOnce
    BY HistoryAssumption
  <2> QED
    BY <2>1, <2>2
<1>3. /\ ~state.loading /\ state.moreLogsAvailable /\ UNCHANGED <<logs, toApp, announced>>
      /\ state'.loading /\ state'.logEntries = state.logEntries
  BY DEF LoadMoreLogs, Typed, HistoryState
<1>4. Done
  BY <1>2, <1>3 DEF ListInv, LoadMoreLogs, Asking, Answered
<1>5. PICK n \in 0 .. Len(logs) : \E k \in 0 .. n : Loaded(n, k)
  BY <1>4 DEF Done
<1>6. PICK k \in 0 .. n : Loaded(n, k)
  BY <1>5
<1>7. n \in Nat
  BY DEF Typed
<1>8. Part(logs, n, k) # <<>> /\ state.logEntries = Part(logs, n, k)
  BY <1>3, <1>6 DEF Loaded, TypeInv
<1>9. PICK j \in 1 .. k : Last(Part(logs, n, k)) = n - j + 1 /\ Part(logs, n, k) = Part(logs, n, j)
  BY <1>7, <1>8, PartLast
<1>10. Loaded(n, j)' /\ n \in 0 .. Len(logs') /\ j \in 1 .. n
  BY <1>3, <1>6, <1>7, <1>8, <1>9 DEF Loaded
<1>11. toGo' = <<n - j + 1>>
  <2>1. PICK b \in Nat : b = n - j + 1
    BY <1>7, <1>10
  <2>2. toGo = <<>> /\ toGo' = <<>> \o [i \in 1 .. 1 |-> b]
    BY <1>1, <1>2, <1>4, <1>8, <1>9, <2>1 DEF Done
  <2> QED
    BY <2>1, <2>2
<1>12. NoLogs(toApp')
  BY <1>3, <1>4 DEF Done
<1> QED
  BY <1>3, <1>10, <1>11, <1>12 DEF Asking

LEMMA TakeStep ==
  ASSUME Typed, ListInv, open, ~crossed, ~failed, toApp # <<>>, toApp' = Tail(toApp),
         IsLogs(Head(toApp)), Take(Head(toApp).ids), UNCHANGED <<logs, toGo, announced>>
  PROVE  Done'
<1> DEFINE e == Head(toApp)
<1>1. /\ e \in Messages
      /\ ~NoLogs(toApp)
      /\ HasSuccess(toApp) => IsSuccess(e) \/ HasSuccess(toApp')
      /\ \A ids : OnlyLogs(toApp, ids) => e = Logs(ids) /\ NoLogs(toApp')
  BY TakeHead DEF Typed
<1>2. Answered
  BY <1>1 DEF ListInv, Asking, Done
<1>3. PICK n \in 0 .. Len(logs) : \E k \in 0 .. n :
             Loaded(n, k) /\ OnlyLogs(toApp, Down(n - k, SizeOf(n - k)))
  BY <1>2 DEF Answered
<1>4. PICK k \in 0 .. n : Loaded(n, k) /\ OnlyLogs(toApp, Down(n - k, SizeOf(n - k)))
  BY <1>3
<1>5. n \in Nat /\ n - k \in Nat
  BY DEF Typed
<1>6. PICK a \in Nat : a = n - k
  BY <1>5
<1>7. PICK p \in 0 .. a : p = SizeOf(a)
  BY SizeFacts
<1>8. Down(a, p) \in Seq(Nat)
  BY DownFacts
<1>9. e = Logs(Down(a, p)) /\ NoLogs(toApp')
  BY <1>1, <1>4, <1>6, <1>7
<1>10. e.ids = Down(a, p) /\ ~IsSuccess(e)
  BY <1>8, <1>9, MessageFacts
<1>11. PICK shown : shown = Part(logs, a, p)
  OBVIOUS
<1>12. state' = [logEntries |-> state.logEntries \o shown, loading |-> FALSE,
                 moreLogsAvailable |-> shown # <<>>]
  BY <1>10, <1>11 DEF Take, Part
<1>13. k + p \in 0 .. n /\ p \in 0 .. n - k
  BY <1>5, <1>6
<1>14. Part(logs, n, k + p) = Part(logs, n, k) \o shown
  BY <1>5, <1>6, <1>11, <1>13, PartConcat
<1>15. Loaded(n, k + p)'
  <2>1. state'.logEntries = Part(logs, n, k + p)
    BY <1>4, <1>12, <1>14 DEF Loaded
  <2>2. announced <= n \/ HasSuccess(toApp')
    BY <1>1, <1>4, <1>10 DEF Loaded
  <2> QED
    BY <2>1, <2>2 DEF Loaded
<1>16. \/ state'.moreLogsAvailable \/ k + p = n
       \/ /\ k + p >= PageSize
          /\ Part(logs', n - (k + p) + PageSize, PageSize) = <<>>
  <2>1. CASE a < PageSize
    <3>1. p = a
      BY <1>7, <2>1 DEF SizeOf
    <3> QED
      BY <1>5, <1>6, <3>1
  <2>2. CASE ~(a < PageSize)
    <3>1. p = PageSize /\ PageSize \in Nat
      BY <1>7, <2>2, HistoryAssumption DEF SizeOf
    <3>2. k + p >= PageSize /\ n - (k + p) + PageSize = a
      BY <1>5, <1>6, <3>1
    <3>3. state'.moreLogsAvailable = (Part(logs, a, p) # <<>>)
      BY <1>11, <1>12
    <3>4. state'.moreLogsAvailable \/ Part(logs', a, PageSize) = <<>>
      BY <3>1, <3>3
    <3> QED
      BY <3>2, <3>4
  <2> QED
    BY <2>1, <2>2
<1>17. toGo' = <<>> /\ ~state'.loading /\ n \in 0 .. Len(logs')
  BY <1>2, <1>12 DEF Answered
<1> QED
  BY <1>9, <1>13, <1>15, <1>16, <1>17 DEF Done

LEMMA ListStep == Typed /\ TypeInv /\ ListInv /\ [Next]_vars => ListInv'
<1> SUFFICES ASSUME Typed, TypeInv, ListInv, [Next]_vars PROVE ListInv'
  OBVIOUS
<1>1. CASE AddLogEntry
  BY <1>1, AddStep
<1>2. CASE loadLogs
  BY <1>2, AnswerStep
<1>3. CASE OpenTab
  <2>1. NewState \in HistoryState
    BY DEF NewState, HistoryState
  <2>2. LoadInitialLogs(NewState) /\ toApp' = toApp
    BY <1>3 DEF OpenTab
  <2>3. ~crossed' => Asking'
    BY <2>1, <2>2, InitialStep
  <2> QED
    BY <2>3 DEF ListInv
<1>4. CASE CloseTab
  BY <1>4 DEF CloseTab, ListInv
<1>5. CASE LoadMoreLogs
  BY <1>5, MoreStep
<1>6. CASE Receive
  <2> DEFINE e == Head(toApp)
  <2>1. toApp # <<>> /\ toApp' = Tail(toApp) /\ UNCHANGED <<logs, open, announced>>
    BY <1>6 DEF Receive
  <2>2. CASE ~open
    BY <2>1, <2>2 DEF ListInv
  <2>3. CASE open /\ IsLogs(e) /\ Take(e.ids) /\ UNCHANGED <<toGo, crossed, failed>>
    <3>1. ~crossed /\ ~failed => Done'
      BY <2>1, <2>3, TakeStep
    <3> QED
      BY <2>3, <3>1 DEF ListInv
  <2>4. CASE LoadInitialLogs(state)
    <3>1. ~crossed' => Asking'
      BY <2>1, <2>4, InitialStep DEF Typed
    <3> QED
      BY <3>1 DEF ListInv
  <2> QED
    BY <1>6, <2>2, <2>3, <2>4 DEF Receive, IsLogs
<1>7. CASE UNCHANGED vars
  BY <1>7 DEF vars, ListInv, Asking, Answered, Done, Loaded
<1> QED
  BY <1>1, <1>2, <1>3, <1>4, <1>5, <1>6, <1>7 DEF Next

LEMMA ListInvariant == Spec => [](Typed /\ ListInv)
<1>1. Init => ListInv
  BY DEF Init, ListInv
<1>2. TypeInv => Typed
  BY DEF TypeInv, TypeOK, Typed, Messages
<1> QED
  BY TypeInit, TypeStep, ListStep, <1>1, <1>2, PTL DEF Spec

-----------------------------------------------------------------------------
(* What a list that is there shows. *)

LEMMA SettledIsDone ==
  ASSUME Typed, ListInv, Settled
  PROVE  \E n \in announced .. Len(logs) : \E k \in 0 .. n :
           /\ n \in Nat /\ state.logEntries = Part(logs, n, k)
           /\ \/ state.moreLogsAvailable \/ k = n
              \/ k >= PageSize /\ Part(logs, n - k + PageSize, PageSize) = <<>>
<1>1. toGo = <<>> /\ toApp = <<>> /\ DOMAIN toApp = {}
  BY DEF Settled
<1>2. ~HasSuccess(toApp) /\ \A ids : ~OnlyLogs(toApp, ids)
  BY <1>1 DEF HasSuccess, OnlyLogs
<1>3. Done
  <2>1. ~Answered
    BY <1>2 DEF Answered
  <2>2. ~Asking
    BY <1>1 DEF Asking
  <2> QED
    BY <2>1, <2>2 DEF ListInv, Settled
<1>4. PICK n \in 0 .. Len(logs) : \E k \in 0 .. n :
             /\ Loaded(n, k)
             /\ \/ state.moreLogsAvailable \/ k = n
                \/ k >= PageSize /\ Part(logs, n - k + PageSize, PageSize) = <<>>
  BY <1>3 DEF Done
<1>5. announced <= n
  BY <1>2, <1>4 DEF Loaded
<1>6. n \in announced .. Len(logs) /\ n \in Nat
  BY <1>5 DEF Typed
<1> QED
  BY <1>4, <1>6 DEF Loaded

\* Page by page, whatever was written meanwhile, the list is the newest entries
\* in order, none twice and none left out, and those that the app was told of
\* are among them: for pages of any size.
THEOREM ListTheorem == Spec => []ListIsNewest
<1>1. Typed /\ ListInv => ListIsNewest
  <2> SUFFICES ASSUME Typed, ListInv, Settled
               PROVE  \E n \in announced .. Len(logs) : IsPrefix(state.logEntries, Shown(n))
    BY DEF ListIsNewest
  <2>1. PICK n \in announced .. Len(logs) : \E k \in 0 .. n :
               n \in Nat /\ state.logEntries = Part(logs, n, k)
    BY SettledIsDone
  <2>2. PICK k \in 0 .. n : n \in Nat /\ state.logEntries = Part(logs, n, k)
    BY <2>1
  <2>3. n \in Nat /\ n - k \in 0 .. n - k /\ n - k \in Nat /\ k + (n - k) = n
    BY <2>2
  <2>4. Part(logs, n, n) = Part(logs, n, k) \o Part(logs, n - k, n - k)
    <3>1. PICK m : m = n - k
      OBVIOUS
    <3>2. Part(logs, n, k + m) = Part(logs, n, k) \o Part(logs, n - k, m)
      BY <2>3, <3>1, PartConcat
    <3> QED
      BY <2>3, <3>1, <3>2
  <2>5. Part(logs, n, k) \in Seq(Nat) /\ Part(logs, n - k, n - k) \in Seq(Nat)
    BY <2>3, PartStep
  <2>6. IsPrefix(Part(logs, n, k), Part(logs, n, n))
    BY <2>4, <2>5, PrefixOfConcat
  <2> QED
    BY <2>2, <2>6 DEF Shown, Part
<1> QED
  BY ListInvariant, <1>1, PTL

\* A list that says there is no more shows everything, unless a whole page of
\* entries is left out.
THEOREM EndTheorem == Spec => []EndIsTheEnd
<1>1. Typed /\ ListInv => EndIsTheEnd
  <2> SUFFICES ASSUME Typed, ListInv, Settled, ~state.moreLogsAvailable, ~HiddenPage
               PROVE  \E n \in announced .. Len(logs) : state.logEntries = Shown(n)
    BY DEF EndIsTheEnd
  <2>1. PICK n \in announced .. Len(logs) : \E k \in 0 .. n :
               /\ n \in Nat /\ state.logEntries = Part(logs, n, k)
               /\ \/ k = n
                  \/ k >= PageSize /\ Part(logs, n - k + PageSize, PageSize) = <<>>
    BY SettledIsDone
  <2>2. PICK k \in 0 .. n :
               /\ n \in Nat /\ state.logEntries = Part(logs, n, k)
               /\ \/ k = n
                  \/ k >= PageSize /\ Part(logs, n - k + PageSize, PageSize) = <<>>
    BY <2>1
  <2>3. ASSUME k >= PageSize, Part(logs, n - k + PageSize, PageSize) = <<>> PROVE FALSE
    <3>1. PICK N \in Nat : N = Len(logs)
      BY DEF Typed
    <3>2. PICK P \in Nat : P = PageSize
      BY HistoryAssumption
    <3>3. PICK a \in Nat : a = n - k + P
      BY <2>2, <3>2
    <3>4. P \in 0 .. a /\ n <= N
      BY <2>2, <3>1, <3>3
    <3>5. \A i \in a - P + 1 .. a : logs[i]
      BY <2>3, <3>2, <3>3, <3>4, PartHidden
    <3>6. PICK i \in Nat : i = n - k + 1
      BY <2>2
    <3>7. i \in 1 .. N - P + 1 /\ a - P + 1 = i /\ i + P - 1 = a
      BY <2>2, <2>3, <3>2, <3>3, <3>4, <3>6
    <3>8. \A j \in i .. i + P - 1 : logs[j]
      BY <3>5, <3>7
    <3> QED
      BY <3>1, <3>2, <3>7, <3>8 DEF HiddenPage
  <2> QED
    BY <2>2, <2>3 DEF Shown, Part
<1> QED
  BY ListInvariant, <1>1, PTL

=============================================================================
