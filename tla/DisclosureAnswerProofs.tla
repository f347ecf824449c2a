------------------------ MODULE DisclosureAnswerProofs ------------------------
(***************************************************************************)
(* Proofs about what DisclosureFlow lets the user confirm: the candidates  *)
(* irmaclient offers, how the bloc finds its way among them, and that the  *)
(* choices it keeps stay options that are offered, those below the dialog  *)
(* stay valid, a change of the session can be mapped, and what was         *)
(* obtained stays obtained.                                                *)
(***************************************************************************)
EXTENDS DisclosureFlowProofs

-----------------------------------------------------------------------------
(* The smallest number of a set, and what is selected with it. *)

LEMMA Smallest ==
  ASSUME NEW I, I \subseteq Nat, I # {}
  PROVE  Min(I) \in I /\ \A i \in I : Min(I) <= i
<1>1. \E n \in I : \A i \in I : n <= i
  <2>1. IsWellFoundedOn(OpToRel(<, Nat), Nat)
    BY NatLessThanWellFounded
  <2>2. PICK n \in I : \A m \in I : ~(<<m, n>> \in OpToRel(<, Nat))
    BY <2>1, WFMin
  <2>3. ASSUME NEW i \in I PROVE n <= i
    <3>1. ~(i < n)
      BY <2>2, <2>3 DEF OpToRel
    <3> QED
      BY <3>1
  <2> QED
    BY <2>3
<1> QED
  BY <1>1 DEF Min

\* The least of some places in a sequence, or 0 if there are none.
First(I) == IF I # {} THEN Min(I) ELSE 0

LEMMA FirstOK ==
  ASSUME NEW N \in Nat, NEW I, I \subseteq 1 .. N
  PROVE  /\ First(I) \in 0 .. N /\ (First(I) = 0 <=> I = {}) /\ (First(I) > 0 => First(I) \in I)
         /\ \A i \in I : First(I) <= i
<1>1. CASE I = {}
  BY <1>1 DEF First
<1>2. CASE I # {}
  <2>1. I \subseteq Nat
    OBVIOUS
  <2>2. Min(I) \in I /\ \A i \in I : Min(I) <= i
    BY <1>2, <2>1, Smallest
  <2>3. First(I) = Min(I)
    BY <1>2 DEF First
  <2>4. First(I) \in 1 .. N
    BY <2>2, <2>3
  <2>5. First(I) \in 0 .. N /\ First(I) # 0 /\ First(I) > 0
    BY <2>4
  <2> QED
    BY <1>2, <2>2, <2>3, <2>5
<1> QED
  BY <1>1, <1>2

LEMMA FirstIn ==
  ASSUME NEW N \in Nat, NEW I, I \subseteq 1 .. N, I # {}
  PROVE  First(I) \in 1 .. N /\ First(I) \in I /\ \A i \in I : First(I) <= i
<1>1. First(I) = Min(I)
  BY DEF First
<1>2. Min(I) \in I /\ \A i \in I : Min(I) <= i
  <2>1. I \subseteq Nat
    OBVIOUS
  <2> QED
    BY <2>1, Smallest
<1> QED
  BY <1>1, <1>2

-----------------------------------------------------------------------------
(* Sequences that stay as they are, and sequences of sequences. *)

\* A sequence without what it does not have is the sequence.
LEMMA WithoutNone ==
  ASSUME NEW D, NEW s \in Seq(D), NEW S, ToSet(s) \cap S = {}
  PROVE  Without(s, S) = s
<1>0. Len(s) \in Nat /\ DOMAIN s = 1 .. Len(s)
  OBVIOUS
<1>1. PICK f : Leaves(f, s, S, Len(s)) /\ Without(s, S) = f[Len(s)]
  BY <1>0, WithoutLeaves
<1> DEFINE T == {n \in 0 .. Len(s) : f[n] = SubSeq(s, 1, n)}
<1>2. 0 \in T
  <2>1. f[0] = << >>
    BY <1>0, <1>1, LeavesFirst
  <2>2. SubSeq(s, 1, 0) = << >>
    OBVIOUS
  <2>3. 0 \in 0 .. Len(s) /\ f[0] = SubSeq(s, 1, 0)
    BY <1>0, <2>1, <2>2
  <2> QED
    BY <2>3
<1>3. ASSUME NEW n \in 0 .. Len(s) - 1, n \in T PROVE n + 1 \in T
  <2>0. n + 1 \in 1 .. Len(s) /\ n + 1 \in 0 .. Len(s) /\ n \in 0 .. Len(s)
    BY <1>0
  <2>1. s[n + 1] \notin S
    BY <1>0, <2>0 DEF ToSet
  <2>2. f[n + 1] = Append(f[n], s[n + 1])
    <3>1. f[n + 1] = IF s[n + 1] \in S THEN f[n] ELSE Append(f[n], s[n + 1])
      BY <1>0, <1>1, LeavesNext
    <3> QED
      BY <2>1, <3>1
  <2>3. Append(SubSeq(s, 1, n), s[n + 1]) = SubSeq(s, 1, n + 1)
    BY <1>0, <2>0
  <2> QED
    BY <1>3, <2>0, <2>2, <2>3
<1> HIDE DEF T
<1>4. Len(s) \in T
  <2>1. \A n \in 0 .. Len(s) : n \in T
    BY <1>0, <1>2, <1>3, Induction
  <2> QED
    BY <1>0, <2>1
<1>5. SubSeq(s, 1, Len(s)) = s
  BY <1>0
<1> QED
  BY <1>1, <1>4, <1>5 DEF T

LEMMA OnlyAll ==
  ASSUME NEW D, NEW s \in Seq(D), NEW S, ToSet(s) \subseteq S
  PROVE  Only(s, S) = s
BY WithoutNone DEF Only

\* f puts the first of the sequences after each other, for up to N of them.
Flattens(f, s, N) ==
  f = [i \in 1 .. N |-> IF i = 1 THEN s[i] ELSE f[i - 1] \o s[i]]

LEMMA FlattensNext ==
  ASSUME NEW s, NEW N \in Nat, NEW f, Flattens(f, s, N), NEW i \in 1 .. N
  PROVE  f[i] = IF i = 1 THEN s[i] ELSE f[i - 1] \o s[i]
BY DEF Flattens

LEMMA FlattensExists ==
  ASSUME NEW s, NEW N \in Nat
  PROVE  \E f : Flattens(f, s, N)
<1> DEFINE T == {n \in Nat : \E f : Flattens(f, s, n)}
<1>1. 0 \in T
  <2>1. Flattens([i \in 1 .. 0 |-> 0], s, 0)
    BY DEF Flattens
  <2> QED
    BY <2>1
<1>2. ASSUME NEW n \in 0 .. N - 1, n \in T PROVE n + 1 \in T
  <2>0. n \in Nat
    OBVIOUS
  <2>1. PICK f : Flattens(f, s, n)
    BY <1>2
  <2> DEFINE new == IF n = 0 THEN s[n + 1] ELSE f[n] \o s[n + 1]
             g == [m \in 1 .. n + 1 |-> IF m = n + 1 THEN new ELSE f[m]]
  <2>2. \A m \in 1 .. n : g[m] = f[m]
    OBVIOUS
  <2>3. g[n + 1] = new
    OBVIOUS
  <2>4. ASSUME NEW m \in 1 .. n + 1
        PROVE  g[m] = IF m = 1 THEN s[m] ELSE g[m - 1] \o s[m]
    <3>1. CASE m = n + 1 /\ n = 0
      BY <2>3, <3>1
    <3>2. CASE m = n + 1 /\ n # 0
      <4>1. m # 1 /\ m - 1 = n /\ n \in 1 .. n
        BY <3>2
      <4>2. g[m - 1] = f[n]
        BY <2>2, <4>1
      <4> HIDE DEF g
      <4> QED
        BY <2>3, <3>2, <4>1, <4>2
    <3>3. CASE m # n + 1
      <4>1. m \in 1 .. n /\ (m = 1 \/ m - 1 \in 1 .. n)
        BY <3>3
      <4>2. g[m] = f[m] /\ (m = 1 \/ g[m - 1] = f[m - 1])
        BY <2>2, <4>1
      <4>3. f[m] = IF m = 1 THEN s[m] ELSE f[m - 1] \o s[m]
        BY <2>0, <2>1, <4>1, FlattensNext
      <4> HIDE DEF g
      <4> QED
        BY <4>1, <4>2, <4>3
    <3> QED
      BY <3>1, <3>2, <3>3
  <2>5. g = [m \in 1 .. n + 1 |-> g[m]]
    OBVIOUS
  <2> HIDE DEF g
  <2>6. Flattens(g, s, n + 1)
    BY <2>4, <2>5 DEF Flattens
  <2> QED
    BY <2>6
<1>3. \A n \in 0 .. N : n \in T
  BY <1>1, <1>2, Induction
<1> QED
  BY <1>3

\* at gives the place in F before each of the first n sequences of s, which F has
\* one after the other.
Blocks(at, F, s, n) ==
  /\ \A b \in 1 .. n : \A k \in 1 .. Len(s[b]) :
       at[b] + k \in 1 .. Len(F) /\ F[at[b] + k] = s[b][k]
  /\ \A p \in 1 .. Len(F) : \E b \in 1 .. n : \E k \in 1 .. Len(s[b]) : p = at[b] + k

LEMMA BlocksNext ==
  ASSUME NEW S, NEW s \in Seq(Seq(S)), NEW n \in 0 .. Len(s) - 1, NEW F \in Seq(S),
         NEW at \in [1 .. n -> Nat], Blocks(at, F, s, n)
  PROVE  \E new \in [1 .. n + 1 -> Nat] : Blocks(new, F \o s[n + 1], s, n + 1)
<1> DEFINE t == s[n + 1]
           G == F \o t
           new == [b \in 1 .. n + 1 |-> IF b = n + 1 THEN Len(F) ELSE at[b]]
<1>0. /\ Len(s) \in Nat /\ n \in Nat /\ n + 1 \in 1 .. Len(s)
      /\ t \in Seq(S) /\ Len(t) \in Nat /\ Len(F) \in Nat
  OBVIOUS
<1>1. /\ G \in Seq(S) /\ Len(G) = Len(F) + Len(t)
      /\ \A p \in 1 .. Len(F) : G[p] = F[p]
      /\ \A k \in 1 .. Len(t) : G[Len(F) + k] = t[k]
  BY <1>0
<1>2. new[n + 1] = Len(F) /\ \A b \in 1 .. n : new[b] = at[b]
  OBVIOUS
<1>3. new \in [1 .. n + 1 -> Nat]
  BY <1>0
<1> HIDE DEF G, new, t
<1>4. \A b \in 1 .. n + 1 : b \in 1 .. n \/ b = n + 1
  BY <1>0
<1>5. ASSUME NEW b \in 1 .. n + 1, NEW k \in 1 .. Len(s[b])
      PROVE  new[b] + k \in 1 .. Len(G) /\ G[new[b] + k] = s[b][k]
  <2>1. CASE b \in 1 .. n
    <3>1. PICK p : p = at[b] + k
      OBVIOUS
    <3>2. p \in 1 .. Len(F) /\ F[p] = s[b][k]
      BY <2>1, <3>1 DEF Blocks
    <3>3. p \in 1 .. Len(G) /\ G[p] = s[b][k]
      BY <1>0, <1>1, <3>2
    <3>4. new[b] + k = p
      BY <1>2, <2>1, <3>1
    <3> QED
      BY <3>3, <3>4
  <2>2. CASE b = n + 1
    <3>1. k \in 1 .. Len(t) /\ s[b] = t
      BY <2>2 DEF t
    <3>2. new[b] + k = Len(F) + k
      BY <1>2, <2>2
    <3> QED
      BY <1>0, <1>1, <3>1, <3>2
  <2> QED
    BY <1>4, <2>1, <2>2
<1>6. ASSUME NEW p \in 1 .. Len(G)
      PROVE  \E b \in 1 .. n + 1 : \E k \in 1 .. Len(s[b]) : p = new[b] + k
  <2>1. CASE p \in 1 .. Len(F)
    <3>1. PICK b \in 1 .. n : \E k \in 1 .. Len(s[b]) : p = at[b] + k
      BY <2>1 DEF Blocks
    <3>2. b \in 1 .. n + 1 /\ new[b] = at[b]
      BY <1>0, <1>2
    <3> QED
      BY <3>1, <3>2
  <2>2. CASE p \notin 1 .. Len(F)
    <3>1. p - Len(F) \in 1 .. Len(t) /\ p = Len(F) + (p - Len(F))
      BY <1>0, <1>1, <2>2
    <3>2. n + 1 \in 1 .. n + 1 /\ new[n + 1] = Len(F)
      BY <1>0, <1>2
    <3> QED
      BY <3>1, <3>2 DEF t
  <2> QED
    BY <2>1, <2>2
<1>7. Blocks(new, G, s, n + 1)
  BY <1>5, <1>6 DEF Blocks
<1> QED
  BY <1>3, <1>7 DEF G, t

\* What FlattenSeq returns.
LEMMA FlattenBlocks ==
  ASSUME NEW S, NEW s \in Seq(Seq(S))
  PROVE  /\ FlattenSeq(s) \in Seq(S)
         /\ \E at \in [1 .. Len(s) -> Nat] : Blocks(at, FlattenSeq(s), s, Len(s))
<1>0. Len(s) \in Nat
  OBVIOUS
<1>1. CASE Len(s) = 0
  <2>1. s = << >> /\ FlattenSeq(s) = << >>
    BY <1>1 DEF FlattenSeq
  <2>2. << >> \in [1 .. 0 -> Nat] /\ Blocks(<< >>, << >>, s, 0)
    BY DEF Blocks
  <2>3. << >> \in Seq(S)
    OBVIOUS
  <2>4. \E at \in [1 .. 0 -> Nat] : Blocks(at, << >>, s, 0)
    BY <2>2
  <2> QED
    BY <1>1, <2>1, <2>3, <2>4
<1>2. CASE Len(s) # 0
  <2> DEFINE flatten[i \in 1 .. Len(s)] == IF i = 1 THEN s[i] ELSE flatten[i - 1] \o s[i]
  <2>1. FlattenSeq(s) = flatten[Len(s)]
    BY <1>2 DEF FlattenSeq
  <2>2. flatten = CHOOSE f : Flattens(f, s, Len(s))
    BY DEF Flattens
  <2> HIDE DEF flatten
  <2>3. Flattens(flatten, s, Len(s))
    BY <1>0, <2>2, FlattensExists
  <2> DEFINE OK(n, F) == F \in Seq(S) /\ \E at \in [1 .. n -> Nat] : Blocks(at, F, s, n)
             T == {n \in 0 .. Len(s) : n = 0 \/ OK(n, flatten[n])}
  <2>4. 0 \in T
    BY <1>0
  <2>5. ASSUME NEW n \in 0 .. Len(s) - 1, n \in T PROVE n + 1 \in T
    <3>0. n + 1 \in 1 .. Len(s) /\ n + 1 \in 0 .. Len(s) /\ (n + 1) - 1 = n
      BY <1>0
    <3>1. PICK m : m = n + 1
      OBVIOUS
    <3>2. flatten[m] = IF m = 1 THEN s[m] ELSE flatten[m - 1] \o s[m]
      BY <1>0, <2>3, <3>0, <3>1, FlattensNext
    <3>3. PICK F : OK(n, F) /\ F \o s[n + 1] = flatten[n + 1]
      <4>1. CASE n = 0
        <5>1. s[n + 1] \in Seq(S)
          BY <3>0
        <5>2. << >> \o s[n + 1] = s[n + 1] /\ << >> \in Seq(S)
          BY <5>1
        <5>3. << >> \in [1 .. 0 -> Nat] /\ Blocks(<< >>, << >>, s, 0)
          BY DEF Blocks
        <5>4. flatten[n + 1] = s[n + 1]
          BY <3>1, <3>2, <4>1
        <5>5. OK(n, << >>)
          BY <4>1, <5>2, <5>3
        <5> QED
          BY <5>2, <5>4, <5>5
      <4>2. CASE n # 0
        <5>1. m # 1 /\ m - 1 = n
          BY <3>1, <4>2
        <5> QED
          BY <2>5, <3>1, <3>2, <4>2, <5>1
      <4> QED
        BY <4>1, <4>2
    <3>4. OK(n + 1, F \o s[n + 1])
      <4>1. s[n + 1] \in Seq(S) /\ F \in Seq(S)
        BY <3>0, <3>3
      <4>2. F \o s[n + 1] \in Seq(S)
        BY <4>1
      <4>3. PICK at \in [1 .. n -> Nat] : Blocks(at, F, s, n)
        BY <3>3
      <4>4. \E new \in [1 .. n + 1 -> Nat] : Blocks(new, F \o s[n + 1], s, n + 1)
        BY <4>1, <4>3, BlocksNext
      <4> QED
        BY <4>2, <4>4
    <3> QED
      BY <3>0, <3>3, <3>4
  <2> HIDE DEF T
  <2>6. Len(s) \in T
    <3>1. \A n \in 0 .. Len(s) : n \in T
      BY <1>0, <2>4, <2>5, Induction
    <3> QED
      BY <1>0, <3>1
  <2> QED
    BY <1>2, <2>1, <2>6 DEF T
<1> QED
  BY <1>1, <1>2

LEMMA FlattenElements ==
  ASSUME NEW S, NEW s \in Seq(Seq(S)), NEW x
  PROVE  x \in ToSet(FlattenSeq(s)) <=> \E b \in DOMAIN s : x \in ToSet(s[b])
<1> DEFINE F == FlattenSeq(s)
<1> HIDE DEF F
<1>1. F \in Seq(S) /\ \E at \in [1 .. Len(s) -> Nat] : Blocks(at, F, s, Len(s))
  BY FlattenBlocks DEF F
<1>2. PICK at \in [1 .. Len(s) -> Nat] : Blocks(at, F, s, Len(s))
  BY <1>1
<1>3. /\ DOMAIN F = 1 .. Len(F) /\ DOMAIN s = 1 .. Len(s)
      /\ \A b \in 1 .. Len(s) : DOMAIN s[b] = 1 .. Len(s[b])
  BY <1>1
<1>4. ASSUME x \in ToSet(F) PROVE \E b \in DOMAIN s : x \in ToSet(s[b])
  <2>1. PICK p \in 1 .. Len(F) : F[p] = x
    BY <1>3, <1>4 DEF ToSet
  <2>2. PICK b \in 1 .. Len(s) : \E k \in 1 .. Len(s[b]) : p = at[b] + k
    BY <1>2 DEF Blocks
  <2>3. PICK k \in 1 .. Len(s[b]) : p = at[b] + k
    BY <2>2
  <2>4. F[p] = s[b][k]
    BY <1>2, <2>3 DEF Blocks
  <2> QED
    BY <1>3, <2>1, <2>4 DEF ToSet
<1>5. ASSUME NEW b \in DOMAIN s, x \in ToSet(s[b]) PROVE x \in ToSet(F)
  <2>1. PICK k \in 1 .. Len(s[b]) : s[b][k] = x
    BY <1>3, <1>5 DEF ToSet
  <2> QED
    BY <1>2, <1>3, <2>1 DEF Blocks, ToSet
<1>6. x \in ToSet(F) <=> \E b \in DOMAIN s : x \in ToSet(s[b])
  BY <1>4, <1>5
<1> QED
  BY <1>6 DEF F

-----------------------------------------------------------------------------
(* The candidates of one con. *)

\* What a candidate consists of.
Part == Credential \cup Entry

LEMMA PartFacts ==
  /\ \A c \in Credential : IsChoosable(c)
  /\ \A entry \in Entry : ~IsChoosable(entry) /\ entry = Template(entry.type, entry.value)
<1>1. \A c \in Credential : IsChoosable(c)
  BY HashAssumption DEF IsChoosable
<1>2. ASSUME NEW entry \in Entry
      PROVE  ~IsChoosable(entry) /\ entry = Template(entry.type, entry.value)
  <2>1. entry = Template(entry.type, entry.value)
    BY RequestAssumption
  <2>2. Template(entry.type, entry.value).hash = None
    BY DEF Template
  <2> QED
    BY <2>1, <2>2 DEF IsChoosable
<1> QED
  BY <1>1, <1>2

\* What is offered for an entry: what the wallet holds for it, or the entry.
Serves(w, entry, x) ==
  \/ x \in ToSet(w) /\ MatchesCredential(entry, x)
  \/ x = entry /\ \A c \in ToSet(w) : ~MatchesCredential(entry, c)

LEMMA MatchingOK ==
  ASSUME NEW w \in Seq(Credential), NEW entry \in Entry
  PROVE  /\ Matching(w, entry) \in Seq(Part) /\ Matching(w, entry) # << >>
         /\ \A x : x \in ToSet(Matching(w, entry)) <=> Serves(w, entry, x)
<1> DEFINE S == {c \in ToSet(w) : MatchesCredential(entry, c)}
           found == Only(w, S)
<1>1. found \in Seq(Credential) /\ ToSet(found) = S
  <2>1. found \in Seq(Credential) /\ ToSet(found) = ToSet(w) \cap S
    BY OnlySet
  <2> QED
    BY <2>1
<1>2. Matching(w, entry) = IF found = << >> THEN <<entry>> ELSE found
  BY DEF Matching
<1> HIDE DEF found
<1>3. CASE found = << >>
  <2>1. ToSet(<<entry>>) = {entry} /\ <<entry>> \in Seq(Part) /\ <<entry>> # << >>
    BY DEF ToSet, Part
  <2>2. S = {}
    BY <1>1, <1>3 DEF ToSet
  <2> QED
    BY <1>2, <1>3, <2>1, <2>2 DEF Serves
<1>4. CASE found # << >>
  <2>1. S # {}
    BY <1>1, <1>4 DEF ToSet
  <2>2. found \in Seq(Part)
    BY <1>1 DEF Part
  <2> QED
    BY <1>1, <1>2, <1>4, <2>1, <2>2 DEF Serves
<1> QED
  BY <1>3, <1>4

LEMMA ExtendedOK ==
  ASSUME NEW S, NEW cons \in Seq(Seq(S)), NEW found \in Seq(S)
  PROVE  /\ Extended(cons, found) \in Seq(Seq(S))
         /\ \A x : x \in ToSet(Extended(cons, found)) <=>
              \E y \in ToSet(cons), z \in ToSet(found) : x = Append(y, z)
<1> DEFINE row(i) == [j \in DOMAIN found |-> Append(cons[i], found[j])]
           rows == [i \in DOMAIN cons |-> row(i)]
<1>1. DOMAIN cons = 1 .. Len(cons) /\ DOMAIN found = 1 .. Len(found)
  OBVIOUS
<1>2. \A i \in DOMAIN cons : row(i) \in Seq(Seq(S)) /\ DOMAIN row(i) = DOMAIN found
  BY <1>1
<1>3. \A i \in DOMAIN cons : \A j \in DOMAIN found : row(i)[j] = Append(cons[i], found[j])
  OBVIOUS
<1> HIDE DEF row
<1>4. rows \in Seq(Seq(Seq(S))) /\ DOMAIN rows = DOMAIN cons
  BY <1>1, <1>2
<1>5. \A i \in DOMAIN cons : rows[i] = row(i)
  OBVIOUS
<1>6. Extended(cons, found) = FlattenSeq(rows)
  BY DEF Extended, row
<1> HIDE DEF rows
<1>7. Extended(cons, found) \in Seq(Seq(S))
  BY <1>4, <1>6, FlattenBlocks
<1>8. ASSUME NEW x
      PROVE  x \in ToSet(Extended(cons, found)) <=>
               \E y \in ToSet(cons), z \in ToSet(found) : x = Append(y, z)
  <2>1. x \in ToSet(Extended(cons, found)) <=> \E i \in DOMAIN cons : x \in ToSet(row(i))
    BY <1>4, <1>5, <1>6, FlattenElements
  <2>2. \A i \in DOMAIN cons :
          x \in ToSet(row(i)) <=> \E j \in DOMAIN found : x = Append(cons[i], found[j])
    BY <1>2, <1>3 DEF ToSet
  <2> QED
    BY <2>1, <2>2 DEF ToSet
<1> QED
  BY <1>7, <1>8

\* f[n] has all combinations of what is offered for the first n entries.
Combines(f, w, con, N) ==
  f = [n \in 0 .. N |->
         IF n = 0 THEN << << >> >> ELSE Extended(f[n - 1], Matching(w, con[n]))]

LEMMA CombinesFirst ==
  ASSUME NEW w, NEW con, NEW N \in Nat, NEW f, Combines(f, w, con, N)
  PROVE  f[0] = << << >> >>
BY DEF Combines

LEMMA CombinesNext ==
  ASSUME NEW w, NEW con, NEW N \in Nat, NEW f, Combines(f, w, con, N), NEW n \in 0 .. N - 1
  PROVE  f[n + 1] = Extended(f[n], Matching(w, con[n + 1]))
<1>1. PICK m : m = n + 1
  OBVIOUS
<1>2. m \in 0 .. N /\ m # 0 /\ m - 1 = n
  BY <1>1
<1>3. f[m] = Extended(f[m - 1], Matching(w, con[m]))
  BY <1>2 DEF Combines
<1> QED
  BY <1>1, <1>2, <1>3

LEMMA CombinesExists ==
  ASSUME NEW w, NEW con, NEW N \in Nat
  PROVE  \E f : Combines(f, w, con, N)
<1> DEFINE T == {n \in Nat : \E f : Combines(f, w, con, n)}
<1>1. 0 \in T
  <2> DEFINE g == [m \in 0 .. 0 |-> << << >> >>]
  <2>1. \A m \in 0 .. 0 : m = 0
    OBVIOUS
  <2>2. Combines(g, w, con, 0)
    BY <2>1 DEF Combines
  <2> QED
    BY <2>2
<1>2. ASSUME NEW n \in 0 .. N - 1, n \in T PROVE n + 1 \in T
  <2>0. n \in Nat /\ n + 1 \in Nat
    OBVIOUS
  <2>1. PICK f : Combines(f, w, con, n)
    BY <1>2
  <2> DEFINE new == Extended(f[n], Matching(w, con[n + 1]))
             g == [m \in 0 .. n + 1 |-> IF m = n + 1 THEN new ELSE f[m]]
  <2>2. \A m \in 0 .. n : g[m] = f[m]
    BY <2>0
  <2>3. g[n + 1] = new
    BY <2>0
  <2>4. ASSUME NEW m \in 0 .. n + 1
        PROVE  g[m] = IF m = 0 THEN << << >> >> ELSE Extended(g[m - 1], Matching(w, con[m]))
    <3>1. CASE m = n + 1
      <4>1. m # 0 /\ m - 1 = n /\ n \in 0 .. n
        BY <2>0, <3>1
      <4>2. g[m - 1] = f[n]
        BY <2>2, <4>1
      <4> HIDE DEF g
      <4> QED
        BY <2>3, <3>1, <4>1, <4>2
    <3>2. CASE m # n + 1
      <4>1. m \in 0 .. n /\ (m = 0 \/ (m - 1 \in 0 .. n - 1 /\ m - 1 \in 0 .. n))
        BY <2>0, <3>2
      <4>2. g[m] = f[m] /\ (m = 0 \/ g[m - 1] = f[m - 1])
        BY <2>2, <4>1
      <4>3. f[m] = IF m = 0 THEN << << >> >> ELSE Extended(f[m - 1], Matching(w, con[m]))
        BY <2>0, <2>1, <4>1 DEF Combines
      <4> HIDE DEF g
      <4> QED
        BY <4>1, <4>2, <4>3
    <3> QED
      BY <3>1, <3>2
  <2>5. g = [m \in 0 .. n + 1 |-> g[m]]
    OBVIOUS
  <2> HIDE DEF g
  <2>6. Combines(g, w, con, n + 1)
    BY <2>4, <2>5 DEF Combines
  <2> QED
    BY <2>0, <2>6
<1>3. \A n \in 0 .. N : n \in T
  BY <1>1, <1>2, Induction
<1> QED
  BY <1>3

\* x serves the first n entries of a con.
ServesCon(w, con, n, x) ==
  x \in Seq(Part) /\ Len(x) = n /\ \A j \in 1 .. n : Serves(w, con[j], x[j])

LEMMA SomeElement ==
  ASSUME NEW S, NEW s \in Seq(S)
  PROVE  s # << >> <=> \E x : x \in ToSet(s)
<1>1. CASE s = << >>
  BY <1>1 DEF ToSet
<1>2. CASE s # << >>
  <2>1. 1 \in DOMAIN s
    BY <1>2
  <2> QED
    BY <1>2, <2>1 DEF ToSet
<1> QED
  BY <1>1, <1>2

LEMMA CombinesOK ==
  ASSUME NEW w \in Seq(Credential), NEW con \in Seq(Entry), NEW f,
         Combines(f, w, con, Len(con)), NEW n \in 0 .. Len(con)
  PROVE  /\ f[n] \in Seq(Seq(Part)) /\ f[n] # << >>
         /\ \A x : x \in ToSet(f[n]) <=> ServesCon(w, con, n, x)
<1> DEFINE OK(F, m) == /\ F \in Seq(Seq(Part)) /\ F # << >>
                       /\ \A x : x \in ToSet(F) <=> ServesCon(w, con, m, x)
           T == {m \in 0 .. Len(con) : OK(f[m], m)}
<1>0. Len(con) \in Nat
  OBVIOUS
<1>1. 0 \in T
  <2>1. f[0] = << << >> >>
    BY <1>0, CombinesFirst
  <2>2. << << >> >> \in Seq(Seq(Part)) /\ << << >> >> # << >> /\ ToSet(<< << >> >>) = {<< >>}
    BY DEF ToSet
  <2>3. ASSUME NEW x PROVE x = << >> <=> ServesCon(w, con, 0, x)
    <3>1. x = << >> => x \in Seq(Part) /\ Len(x) = 0
      OBVIOUS
    <3>2. x \in Seq(Part) /\ Len(x) = 0 => x = << >>
      <4> HIDE DEF Part
      <4> QED
        OBVIOUS
    <3>3. \A j \in 1 .. 0 : FALSE
      OBVIOUS
    <3> QED
      BY <3>1, <3>2, <3>3 DEF ServesCon
  <2>4. OK(f[0], 0)
    BY <2>1, <2>2, <2>3
  <2> QED
    BY <1>0, <2>4
<1>2. ASSUME NEW m \in 0 .. Len(con) - 1, m \in T PROVE m + 1 \in T
  <2>0. m \in Nat /\ m + 1 \in 1 .. Len(con) /\ m + 1 \in 0 .. Len(con) /\ con[m + 1] \in Entry
    BY <1>0
  <2> DEFINE M == Matching(w, con[m + 1])
             G == Extended(f[m], M)
  <2>1. f[m + 1] = G
    BY <1>0, CombinesNext
  <2>2. OK(f[m], m)
    BY <1>2
  <2>3. M \in Seq(Part) /\ M # << >> /\ \A z : z \in ToSet(M) <=> Serves(w, con[m + 1], z)
    BY <2>0, MatchingOK
  <2> HIDE DEF M
  <2>4. /\ G \in Seq(Seq(Part))
        /\ \A x : x \in ToSet(G) <=> \E y \in ToSet(f[m]), z \in ToSet(M) : x = Append(y, z)
    <3>1. f[m] \in Seq(Seq(Part)) /\ M \in Seq(Part)
      BY <2>2, <2>3
    <3> HIDE DEF OK, T
    <3> QED
      BY <3>1, ExtendedOK
  <2> HIDE DEF G
  <2>5. G # << >>
    <3>1. (\E y : y \in ToSet(f[m])) /\ \E z : z \in ToSet(M)
      BY <2>2, <2>3, SomeElement
    <3>2. \E x : x \in ToSet(G)
      BY <2>4, <3>1
    <3> QED
      BY <2>4, <3>2, SomeElement
  <2>6. ASSUME NEW x, x \in ToSet(G) PROVE ServesCon(w, con, m + 1, x)
    <3>1. PICK y \in ToSet(f[m]), z \in ToSet(M) : x = Append(y, z)
      BY <2>4, <2>6
    <3>2. ServesCon(w, con, m, y) /\ Serves(w, con[m + 1], z) /\ z \in Part
      BY <2>2, <2>3 DEF ToSet
    <3>3. y \in Seq(Part) /\ Len(y) = m
      BY <3>2 DEF ServesCon
    <3>4. /\ x \in Seq(Part) /\ Len(x) = m + 1 /\ x[m + 1] = z
          /\ \A j \in 1 .. m : x[j] = y[j]
      <4> HIDE DEF Part
      <4> QED
        BY <2>0, <3>1, <3>2, <3>3
    <3>5. \A j \in 1 .. m + 1 : j \in 1 .. m \/ j = m + 1
      BY <2>0
    <3> QED
      BY <3>2, <3>4, <3>5 DEF ServesCon
  <2>7. ASSUME NEW x, ServesCon(w, con, m + 1, x) PROVE x \in ToSet(G)
    <3>1. /\ x \in Seq(Part) /\ Len(x) = m + 1
          /\ \A j \in 1 .. m + 1 : Serves(w, con[j], x[j])
      BY <2>7 DEF ServesCon
    <3> DEFINE y == SubSeq(x, 1, m)
    <3>2. y \in Seq(Part) /\ Len(y) = m /\ \A j \in 1 .. m : y[j] = x[j] /\ j \in 1 .. m + 1
      BY <2>0, <3>1
    <3>3. x = Append(y, x[m + 1])
      <4>1. \A j \in 1 .. m + 1 : x[j] \in Part
        BY <2>0, <3>1
      <4>2. m + 1 \in 1 .. m + 1
        BY <2>0
      <4>3. SubSeq(x, 1, m + 1) = x
        BY <3>1
      <4>4. Append(SubSeq(x, 1, m), x[m + 1]) = SubSeq(x, 1, m + 1)
        BY <2>0, <3>1
      <4> QED
        BY <4>3, <4>4
    <3>4. m + 1 \in 1 .. m + 1
      BY <2>0
    <3> HIDE DEF y
    <3>5. ServesCon(w, con, m, y)
      BY <3>1, <3>2 DEF ServesCon
    <3>6. Serves(w, con[m + 1], x[m + 1])
      BY <3>1, <3>4
    <3> QED
      BY <2>2, <2>3, <2>4, <3>3, <3>5, <3>6
  <2>8. OK(f[m + 1], m + 1)
    BY <2>1, <2>4, <2>5, <2>6, <2>7
  <2> QED
    BY <2>0, <2>8
<1> HIDE DEF T
<1>3. \A m \in 0 .. Len(con) : m \in T
  BY <1>0, <1>1, <1>2, Induction
<1> QED
  BY <1>3 DEF T

\* All combinations for a con, and the one more that a con gets.
IsProduct(product, w, con) ==
  /\ product \in Seq(Seq(Part)) /\ product # << >>
  /\ \A x : x \in ToSet(product) <=> ServesCon(w, con, Len(con), x)

IsAnother(another, product, con) ==
  /\ another \in Seq(Part) /\ Len(another) = Len(con)
  /\ \A j \in 1 .. Len(con) : another[j] \in {product[1][j], con[j]}
  /\ \E j \in 1 .. Len(con) : another[j] = con[j] /\ IsChoosable(product[1][j])

LEMMA ConShape ==
  ASSUME NEW w \in Seq(Credential), NEW con \in Seq(Entry)
  PROVE  \E product : /\ IsProduct(product, w, con)
                      /\ \/ ConCandidates(w, con) = product
                         \/ \E another : /\ IsAnother(another, product, con)
                                         /\ ConCandidates(w, con) = Append(product, another)
<1> DEFINE combined[n \in 0 .. Len(con)] ==
             IF n = 0 THEN << << >> >> ELSE Extended(combined[n - 1], Matching(w, con[n]))
           product == combined[Len(con)]
           another == [j \in DOMAIN con |->
                         IF con[j].type \in Singleton THEN product[1][j] ELSE con[j]]
           more == \E j \in DOMAIN con : con[j].type \notin Singleton /\ IsChoosable(product[1][j])
<1>0. Len(con) \in Nat /\ DOMAIN con = 1 .. Len(con) /\ Len(con) \in 0 .. Len(con)
  OBVIOUS
<1>1. ConCandidates(w, con) = IF more THEN Append(product, another) ELSE product
  BY DEF ConCandidates
<1>2. combined = CHOOSE f : Combines(f, w, con, Len(con))
  BY DEF Combines
<1> HIDE DEF combined
<1>3. Combines(combined, w, con, Len(con))
  BY <1>0, <1>2, CombinesExists
<1>4. IsProduct(product, w, con)
  BY <1>0, <1>3, CombinesOK DEF IsProduct
<1>5. ASSUME more PROVE IsAnother(another, product, con)
  <2>1. ServesCon(w, con, Len(con), product[1])
    <3>1. product[1] \in ToSet(product)
      BY <1>4 DEF IsProduct, ToSet
    <3> QED
      BY <1>4, <3>1 DEF IsProduct
  <2>2. product[1] \in Seq(Part) /\ Len(product[1]) = Len(con)
    BY <2>1 DEF ServesCon
  <2>3. \A j \in 1 .. Len(con) : con[j] \in Part /\ product[1][j] \in Part
    BY <1>0, <2>2 DEF Part
  <2> HIDE DEF product
  <2>4. \A j \in 1 .. Len(con) :
          another[j] = IF con[j].type \in Singleton THEN product[1][j] ELSE con[j]
    BY <1>0
  <2>5. another \in Seq(Part) /\ Len(another) = Len(con)
    BY <1>0, <2>3
  <2>6. PICK j \in 1 .. Len(con) : con[j].type \notin Singleton /\ IsChoosable(product[1][j])
    BY <1>0, <1>5
  <2> HIDE DEF another
  <2>7. another[j] = con[j]
    BY <2>4, <2>6
  <2> QED
    BY <2>4, <2>5, <2>6, <2>7 DEF IsAnother
<1> HIDE DEF product, another, more
<1>6. CASE more
  BY <1>1, <1>4, <1>5, <1>6
<1>7. CASE ~more
  BY <1>1, <1>4, <1>7
<1> QED
  BY <1>6, <1>7

LEMMA Appended ==
  ASSUME NEW S, NEW s \in Seq(S), NEW x \in S
  PROVE  /\ Append(s, x) \in Seq(S) /\ Len(Append(s, x)) = Len(s) + 1
         /\ Append(s, x)[Len(s) + 1] = x
         /\ \A p \in 1 .. Len(s) : Append(s, x)[p] = s[p]
OBVIOUS

\* x has a credential of the wallet for each entry of a con.
Fits(w, con, x) ==
  /\ x \in Seq(Part) /\ Len(x) = Len(con)
  /\ \A j \in 1 .. Len(con) : x[j] \in ToSet(w) /\ MatchesCredential(con[j], x[j])

\* x has a credential or the entry itself for each entry of a con.
Follows(w, con, x) ==
  /\ x \in Seq(Part) /\ Len(x) = Len(con)
  /\ \A j \in 1 .. Len(con) :
       x[j] = con[j] \/ (x[j] \in ToSet(w) /\ MatchesCredential(con[j], x[j]))

LEMMA Choosing ==
  ASSUME NEW w \in Seq(Credential), NEW con \in Seq(Entry), NEW x, Follows(w, con, x)
  PROVE  /\ \A j \in 1 .. Len(con) : IsChoosable(x[j]) <=> x[j] \in ToSet(w)
         /\ \A j \in 1 .. Len(con) : x[j] = con[j] <=> ~IsChoosable(x[j])
         /\ AllChoosable(x) <=> Fits(w, con, x)
<1>1. x \in Seq(Part) /\ Len(x) = Len(con) /\ DOMAIN x = 1 .. Len(con)
  BY DEF Follows
<1>2. ASSUME NEW j \in 1 .. Len(con)
      PROVE  /\ IsChoosable(x[j]) <=> x[j] \in ToSet(w)
             /\ x[j] = con[j] <=> ~IsChoosable(x[j])
  <2>1. con[j] \in Entry
    OBVIOUS
  <2>2. ~IsChoosable(con[j])
    BY <2>1, PartFacts
  <2>3. \A c \in ToSet(w) : IsChoosable(c)
    BY PartFacts DEF ToSet
  <2> QED
    BY <2>2, <2>3 DEF Follows
<1>3. AllChoosable(x) <=> \A j \in 1 .. Len(con) : IsChoosable(x[j])
  BY <1>1 DEF AllChoosable, ToSet
<1>4. Fits(w, con, x) <=> \A j \in 1 .. Len(con) : x[j] \in ToSet(w)
  <2>1. ASSUME NEW j \in 1 .. Len(con), x[j] \in ToSet(w)
        PROVE  MatchesCredential(con[j], x[j])
    BY <1>2, <2>1 DEF Follows
  <2> QED
    BY <1>1, <2>1 DEF Fits
<1> QED
  BY <1>2, <1>3, <1>4

LEMMA ServesFollows ==
  ASSUME NEW w, NEW con, NEW x, ServesCon(w, con, Len(con), x)
  PROVE  Follows(w, con, x)
BY DEF ServesCon, Serves, Follows

LEMMA FitsServes ==
  ASSUME NEW w, NEW con, NEW x, Fits(w, con, x)
  PROVE  ServesCon(w, con, Len(con), x)
BY DEF ServesCon, Serves, Fits

LEMMA FullServes ==
  ASSUME NEW w, NEW con, NEW x, Fits(w, con, x), NEW y, ServesCon(w, con, Len(con), y)
  PROVE  Fits(w, con, y)
BY DEF ServesCon, Serves, Fits

LEMMA ConElements ==
  ASSUME NEW w \in Seq(Credential), NEW con \in Seq(Entry)
  PROVE  /\ ConCandidates(w, con) \in Seq(Seq(Part)) /\ ConCandidates(w, con) # << >>
         /\ \A x \in ToSet(ConCandidates(w, con)) : Follows(w, con, x)
         /\ \A x : Fits(w, con, x) => x \in ToSet(ConCandidates(w, con)) /\ AllChoosable(x)
<1> DEFINE C == ConCandidates(w, con)
<1>1. PICK product : /\ IsProduct(product, w, con)
                     /\ \/ C = product
                        \/ \E another : IsAnother(another, product, con) /\ C = Append(product, another)
  BY ConShape
<1> HIDE DEF C
<1>2. product \in Seq(Seq(Part)) /\ product # << >>
  BY <1>1 DEF IsProduct
<1>3. \A x \in ToSet(product) : Follows(w, con, x)
  BY <1>1, ServesFollows DEF IsProduct
<1>4. \A x : Fits(w, con, x) => x \in ToSet(product)
  BY <1>1, FitsServes DEF IsProduct
<1>5. \A x : Fits(w, con, x) => AllChoosable(x)
  <2>1. \A x : Fits(w, con, x) => Follows(w, con, x)
    BY DEF Fits, Follows
  <2> QED
    BY <2>1, Choosing
<1>6. CASE C = product
  BY <1>2, <1>3, <1>4, <1>5, <1>6 DEF C
<1>7. CASE C # product
  <2>1. PICK another : IsAnother(another, product, con) /\ C = Append(product, another)
    BY <1>1, <1>7
  <2>2. another \in Seq(Part)
    BY <2>1 DEF IsAnother
  <2>3. /\ C \in Seq(Seq(Part)) /\ Len(C) = Len(product) + 1 /\ C[Len(product) + 1] = another
        /\ \A p \in 1 .. Len(product) : C[p] = product[p]
    BY <1>2, <2>1, <2>2, Appended
  <2>4. DOMAIN C = 1 .. Len(product) + 1 /\ DOMAIN product = 1 .. Len(product)
        /\ Len(product) \in Nat
    BY <1>2, <2>3
  <2>5. ToSet(C) = ToSet(product) \cup {another}
    <3>1. \A p : p \in 1 .. Len(product) + 1 <=> p \in 1 .. Len(product) \/ p = Len(product) + 1
      BY <2>4
    <3>2. ToSet(C) = {C[p] : p \in 1 .. Len(product) + 1}
      BY <2>4 DEF ToSet
    <3>3. ToSet(product) = {product[p] : p \in 1 .. Len(product)}
      BY <2>4 DEF ToSet
    <3> QED
      BY <2>3, <3>1, <3>2, <3>3
  <2>6. Follows(w, con, another)
    <3>1. product[1] \in ToSet(product)
      BY <1>2 DEF ToSet
    <3>2. Follows(w, con, product[1])
      BY <1>3, <3>1
    <3> QED
      BY <2>1, <3>2 DEF IsAnother, Follows
  <2>7. C # << >>
    BY <2>3, <2>4
  <2> QED
    BY <1>3, <1>4, <1>5, <2>3, <2>5, <2>6, <2>7 DEF C
<1> QED
  BY <1>6, <1>7

\* If a con can be chosen, only its last candidate may have a placeholder, and what it
\* has besides is in the first.
LEMMA ConFirst ==
  ASSUME NEW w \in Seq(Credential), NEW con \in Seq(Entry), NEW x, Fits(w, con, x),
         NEW q \in 1 .. Len(ConCandidates(w, con)), ~AllChoosable(ConCandidates(w, con)[q])
  PROVE  /\ q > 1 /\ Fits(w, con, ConCandidates(w, con)[1])
         /\ \A c \in ToSet(ConCandidates(w, con)[q]) :
              IsChoosable(c) => c \in ToSet(ConCandidates(w, con)[1])
<1> DEFINE C == ConCandidates(w, con)
<1>1. PICK product : /\ IsProduct(product, w, con)
                     /\ \/ C = product
                        \/ \E another : IsAnother(another, product, con) /\ C = Append(product, another)
  BY ConShape
<1>2. ~AllChoosable(C[q]) /\ q \in 1 .. Len(C)
  OBVIOUS
<1> HIDE DEF C
<1>3. /\ product \in Seq(Seq(Part)) /\ Len(product) \in Nat /\ Len(product) >= 1
      /\ DOMAIN product = 1 .. Len(product)
  BY <1>1 DEF IsProduct
<1>4. \A p \in 1 .. Len(product) : Fits(w, con, product[p]) /\ AllChoosable(product[p])
  <2>1. \A p \in 1 .. Len(product) : ServesCon(w, con, Len(con), product[p])
    BY <1>1, <1>3 DEF IsProduct, ToSet
  <2>2. \A p \in 1 .. Len(product) : Fits(w, con, product[p])
    BY <2>1, FullServes
  <2> QED
    BY <2>2, ConElements
<1>5. C # product
  BY <1>2, <1>4
<1>6. PICK another : IsAnother(another, product, con) /\ C = Append(product, another)
  BY <1>1, <1>5
<1>7. another \in Seq(Part) /\ Len(another) = Len(con)
  BY <1>6 DEF IsAnother
<1>8. /\ Len(C) = Len(product) + 1 /\ C[Len(product) + 1] = another
      /\ \A p \in 1 .. Len(product) : C[p] = product[p]
  BY <1>3, <1>6, <1>7, Appended
<1>9. q = Len(product) + 1
  <2>1. q \in 1 .. Len(product) \/ q = Len(product) + 1
    BY <1>2, <1>3, <1>8
  <2>2. \A p \in 1 .. Len(product) : AllChoosable(C[p])
    BY <1>4, <1>8
  <2> QED
    BY <1>2, <2>1, <2>2
<1>10. C[1] = product[1] /\ C[q] = another /\ q > 1
  BY <1>3, <1>8, <1>9
<1>11. ASSUME NEW c \in ToSet(another), IsChoosable(c) PROVE c \in ToSet(product[1])
  <2>1. PICK j \in 1 .. Len(con) : c = another[j]
    BY <1>7 DEF ToSet
  <2>2. con[j] \in Entry
    OBVIOUS
  <2>3. c = product[1][j]
    BY <1>6, <1>11, <2>1, <2>2, PartFacts DEF IsAnother
  <2>4. product[1] \in Seq(Part) /\ Len(product[1]) = Len(con)
    BY <1>3, <1>4 DEF Fits
  <2> QED
    BY <2>1, <2>3, <2>4 DEF ToSet
<1> QED
  BY <1>3, <1>4, <1>10, <1>11 DEF C

-----------------------------------------------------------------------------
(* The candidates of one discon. *)

LEMMA Concatenated ==
  ASSUME NEW S, NEW s \in Seq(S), NEW t \in Seq(S)
  PROVE  /\ s \o t \in Seq(S) /\ Len(s \o t) = Len(s) + Len(t)
         /\ \A p \in 1 .. Len(s) : (s \o t)[p] = s[p]
         /\ \A p \in 1 .. Len(t) : (s \o t)[Len(s) + p] = t[p]
OBVIOUS

LEMMA ConcatenatedSet ==
  ASSUME NEW S, NEW s \in Seq(S), NEW t \in Seq(S)
  PROVE  ToSet(s \o t) = ToSet(s) \cup ToSet(t)
<1> DEFINE u == s \o t
<1>1. /\ u \in Seq(S) /\ Len(u) = Len(s) + Len(t)
      /\ \A p \in 1 .. Len(s) : u[p] = s[p]
      /\ \A p \in 1 .. Len(t) : u[Len(s) + p] = t[p]
  BY Concatenated
<1>2. /\ Len(s) \in Nat /\ Len(t) \in Nat
      /\ DOMAIN s = 1 .. Len(s) /\ DOMAIN t = 1 .. Len(t) /\ DOMAIN u = 1 .. Len(u)
  BY <1>1
<1> HIDE DEF u
<1>3. ASSUME NEW x \in ToSet(u) PROVE x \in ToSet(s) \cup ToSet(t)
  <2>1. PICK p \in 1 .. Len(u) : u[p] = x
    BY <1>2 DEF ToSet
  <2>2. CASE p \in 1 .. Len(s)
    BY <1>1, <1>2, <2>1, <2>2 DEF ToSet
  <2>3. CASE p \notin 1 .. Len(s)
    <3>1. p - Len(s) \in 1 .. Len(t) /\ Len(s) + (p - Len(s)) = p
      BY <1>1, <1>2, <2>3
    <3>2. t[p - Len(s)] = x
      BY <1>1, <2>1, <3>1
    <3> QED
      BY <1>2, <3>1, <3>2 DEF ToSet
  <2> QED
    BY <2>2, <2>3
<1>4. ASSUME NEW x \in ToSet(s) \cup ToSet(t) PROVE x \in ToSet(u)
  <2>1. CASE x \in ToSet(s)
    <3>1. PICK p \in 1 .. Len(s) : s[p] = x
      BY <1>2, <2>1 DEF ToSet
    <3>2. p \in 1 .. Len(u) /\ u[p] = x
      BY <1>1, <1>2, <3>1
    <3> QED
      BY <1>2, <3>2 DEF ToSet
  <2>2. CASE x \in ToSet(t)
    <3>1. PICK p \in 1 .. Len(t) : t[p] = x
      BY <1>2, <2>2 DEF ToSet
    <3>2. Len(s) + p \in 1 .. Len(u) /\ u[Len(s) + p] = x
      BY <1>1, <1>2, <3>1
    <3> QED
      BY <1>2, <3>2 DEF ToSet
  <2> QED
    BY <2>1, <2>2
<1> QED
  BY <1>3, <1>4 DEF u

\* The options of a discon in the order of its cons, and those to offer first.
OptionsOf(w, discon) == FlattenSeq([k \in DOMAIN discon |-> ConCandidates(w, discon[k])])

StartChoosable(options) == {con \in ToSet(options) : con = << >> \/ IsChoosable(con[1])}

LEMMA OptionsOK ==
  ASSUME NEW w \in Seq(Credential), NEW discon \in Seq(Seq(Entry))
  PROVE  /\ OptionsOf(w, discon) \in Seq(Seq(Part))
         /\ \E at \in [1 .. Len(discon) -> Nat] :
              Blocks(at, OptionsOf(w, discon),
                     [k \in DOMAIN discon |-> ConCandidates(w, discon[k])], Len(discon))
         /\ \A x : x \in ToSet(OptionsOf(w, discon)) <=>
              \E k \in DOMAIN discon : x \in ToSet(ConCandidates(w, discon[k]))
<1> DEFINE s == [k \in DOMAIN discon |-> ConCandidates(w, discon[k])]
<1>1. /\ \A k \in DOMAIN discon : ConCandidates(w, discon[k]) \in Seq(Seq(Part))
      /\ DOMAIN discon = 1 .. Len(discon)
  <2>1. \A k \in DOMAIN discon : discon[k] \in Seq(Entry)
    OBVIOUS
  <2> QED
    BY <2>1, ConElements
<1>2. s \in Seq(Seq(Seq(Part))) /\ Len(s) = Len(discon) /\ DOMAIN s = DOMAIN discon
  BY <1>1
<1>3. \A k \in DOMAIN discon : s[k] = ConCandidates(w, discon[k])
  OBVIOUS
<1>4. OptionsOf(w, discon) = FlattenSeq(s)
  BY DEF OptionsOf
<1> HIDE DEF s
<1>5. /\ FlattenSeq(s) \in Seq(Seq(Part))
      /\ \E at \in [1 .. Len(s) -> Nat] : Blocks(at, FlattenSeq(s), s, Len(s))
  BY <1>2, FlattenBlocks
<1>6. \A x : x \in ToSet(FlattenSeq(s)) <=> \E k \in DOMAIN s : x \in ToSet(s[k])
  BY <1>2, FlattenElements
<1> QED
  BY <1>2, <1>3, <1>4, <1>5, <1>6 DEF s

LEMMA DisConShape ==
  ASSUME NEW w \in Seq(Credential), NEW discon \in Seq(Seq(Entry))
  PROVE  LET options == OptionsOf(w, discon)
         IN  DisConCandidates(w, discon) =
               Only(options, StartChoosable(options)) \o Without(options, StartChoosable(options))
BY DEF DisConCandidates, OptionsOf, StartChoosable

LEMMA DisConElements ==
  ASSUME NEW w \in Seq(Credential), NEW discon \in Seq(Seq(Entry))
  PROVE  /\ DisConCandidates(w, discon) \in Seq(Seq(Part))
         /\ \A x : x \in ToSet(DisConCandidates(w, discon)) <=>
              \E k \in DOMAIN discon : x \in ToSet(ConCandidates(w, discon[k]))
<1> DEFINE options == OptionsOf(w, discon)
           S == StartChoosable(options)
           D == DisConCandidates(w, discon)
<1>1. /\ options \in Seq(Seq(Part))
      /\ \A x : x \in ToSet(options) <=>
              \E k \in DOMAIN discon : x \in ToSet(ConCandidates(w, discon[k]))
  BY OptionsOK
<1>2. D = Only(options, S) \o Without(options, S)
  BY DisConShape
<1> HIDE DEF options, S, D
<1>3. Only(options, S) \in Seq(Seq(Part)) /\ ToSet(Only(options, S)) = ToSet(options) \cap S
  BY <1>1, OnlySet
<1>4. Without(options, S) \in Seq(Seq(Part)) /\ ToSet(Without(options, S)) = ToSet(options) \ S
  BY <1>1, WithoutSet, WithoutPlaces
<1>5. D \in Seq(Seq(Part)) /\ ToSet(D) = ToSet(options)
  <2>1. ToSet(D) = ToSet(Only(options, S)) \cup ToSet(Without(options, S))
    BY <1>2, <1>3, <1>4, ConcatenatedSet
  <2>2. D \in Seq(Seq(Part))
    BY <1>2, <1>3, <1>4, Concatenated
  <2> QED
    BY <1>3, <1>4, <2>1, <2>2
<1> QED
  BY <1>1, <1>5 DEF D

LEMMA NoEntries ==
  ASSUME NEW w, NEW con, NEW x, Follows(w, con, x) \/ Fits(w, con, x), con \in Seq(Entry)
  PROVE  x = << >> <=> con = << >>
<1>1. x \in Seq(Part) /\ Len(x) = Len(con)
  BY DEF Follows, Fits
<1>2. x = << >> <=> Len(x) = 0
  <2> HIDE DEF Part
  <2> QED
    BY <1>1
<1>3. con = << >> <=> Len(con) = 0
  OBVIOUS
<1> QED
  BY <1>1, <1>2, <1>3

LEMMA DisConOffers ==
  ASSUME NEW w \in Seq(Credential), NEW discon \in Seq(Seq(Entry))
  PROVE  LET D == DisConCandidates(w, discon)
         IN  /\ D \in Seq(Seq(Part))
             /\ discon # << >> => D # << >>
             /\ \A x \in ToSet(D) : \E k \in DOMAIN discon : Follows(w, discon[k], x)
             /\ \A x : x \in ToSet(D) /\ AllChoosable(x)
                         <=> \E k \in DOMAIN discon : Fits(w, discon[k], x)
             /\ << >> \in ToSet(D) <=> << >> \in ToSet(discon)
<1> DEFINE D == DisConCandidates(w, discon)
<1>1. /\ D \in Seq(Seq(Part))
      /\ \A x : x \in ToSet(D) <=> \E k \in DOMAIN discon : x \in ToSet(ConCandidates(w, discon[k]))
  BY DisConElements
<1> HIDE DEF D
<1>2. ASSUME NEW k \in DOMAIN discon
      PROVE  /\ discon[k] \in Seq(Entry)
             /\ ConCandidates(w, discon[k]) \in Seq(Seq(Part)) /\ ConCandidates(w, discon[k]) # << >>
             /\ \A x \in ToSet(ConCandidates(w, discon[k])) : Follows(w, discon[k], x)
             /\ \A x : Fits(w, discon[k], x) =>
                         x \in ToSet(ConCandidates(w, discon[k])) /\ AllChoosable(x)
  <2>1. discon[k] \in Seq(Entry)
    OBVIOUS
  <2> QED
    BY <2>1, ConElements
<1>3. ASSUME discon # << >> PROVE D # << >>
  <2>1. 1 \in DOMAIN discon
    BY <1>3
  <2>2. \E x : x \in ToSet(ConCandidates(w, discon[1]))
    BY <1>2, <2>1, SomeElement
  <2>3. \E x : x \in ToSet(D)
    BY <1>1, <2>1, <2>2
  <2> QED
    BY <1>1, <2>3, SomeElement
<1>4. \A x \in ToSet(D) : \E k \in DOMAIN discon : Follows(w, discon[k], x)
  BY <1>1, <1>2
<1>5. \A x : x \in ToSet(D) /\ AllChoosable(x) <=> \E k \in DOMAIN discon : Fits(w, discon[k], x)
  <2>1. ASSUME NEW x, x \in ToSet(D), AllChoosable(x)
        PROVE  \E k \in DOMAIN discon : Fits(w, discon[k], x)
    <3>1. PICK k \in DOMAIN discon : Follows(w, discon[k], x)
      BY <1>4, <2>1
    <3>2. Fits(w, discon[k], x)
      BY <1>2, <2>1, <3>1, Choosing
    <3> QED
      BY <3>2
  <2>2. ASSUME NEW x, NEW k \in DOMAIN discon, Fits(w, discon[k], x)
        PROVE  x \in ToSet(D) /\ AllChoosable(x)
    BY <1>1, <1>2, <2>2
  <2> QED
    BY <2>1, <2>2
<1>6. << >> \in ToSet(D) <=> << >> \in ToSet(discon)
  <2>1. ASSUME << >> \in ToSet(D) PROVE << >> \in ToSet(discon)
    <3>1. PICK k \in DOMAIN discon : Follows(w, discon[k], << >>)
      BY <1>4, <2>1
    <3>2. discon[k] = << >>
      BY <1>2, <3>1, NoEntries
    <3> QED
      BY <3>2 DEF ToSet
  <2>2. ASSUME << >> \in ToSet(discon) PROVE << >> \in ToSet(D)
    <3>1. PICK k \in DOMAIN discon : discon[k] = << >>
      BY <2>2 DEF ToSet
    <3>2. Fits(w, discon[k], << >>)
      <4>1. << >> \in Seq(Part) /\ Len(<< >>) = 0 /\ \A j \in 1 .. 0 : FALSE
        OBVIOUS
      <4> QED
        BY <3>1, <4>1 DEF Fits
    <3> QED
      BY <1>5, <3>2
  <2> QED
    BY <2>1, <2>2
<1> QED
  BY <1>1, <1>3, <1>4, <1>5, <1>6 DEF D

\* The types of the candidates are those the discon asks for.
LEMMA DisConTypes ==
  ASSUME NEW w \in Seq(Credential), NEW discon \in Seq(Seq(Entry))
  PROVE  TypesOf(DisConCandidates(w, discon)) = TypesOf(discon)
<1> DEFINE D == DisConCandidates(w, discon)
<1>1. /\ D \in Seq(Seq(Part))
      /\ \A x : x \in ToSet(D) <=> \E k \in DOMAIN discon : x \in ToSet(ConCandidates(w, discon[k]))
  BY DisConElements
<1> HIDE DEF D
<1>2. ASSUME NEW k \in DOMAIN discon, NEW x \in ToSet(ConCandidates(w, discon[k]))
      PROVE  /\ DOMAIN x = 1 .. Len(discon[k]) /\ DOMAIN discon[k] = 1 .. Len(discon[k])
             /\ \A j \in 1 .. Len(discon[k]) : x[j].type = discon[k][j].type
  <2>1. discon[k] \in Seq(Entry)
    OBVIOUS
  <2>2. Follows(w, discon[k], x)
    BY <2>1, ConElements
  <2>3. \A j \in 1 .. Len(discon[k]) : x[j].type = discon[k][j].type
    BY <2>2 DEF Follows, MatchesCredential
  <2>4. x \in Seq(Part) /\ Len(x) = Len(discon[k])
    BY <2>2 DEF Follows
  <2> QED
    BY <2>1, <2>3, <2>4
<1>3. ASSUME NEW t \in TypesOf(D) PROVE t \in TypesOf(discon)
  <2>1. PICK x \in ToSet(D) : \E c \in ToSet(x) : t = c.type
    BY DEF TypesOf, Flattened
  <2>2. PICK k \in DOMAIN discon : x \in ToSet(ConCandidates(w, discon[k]))
    BY <1>1, <2>1
  <2>3. PICK j \in 1 .. Len(discon[k]) : t = x[j].type
    BY <1>2, <2>1, <2>2 DEF ToSet
  <2>4. t = discon[k][j].type /\ discon[k][j] \in ToSet(discon[k]) /\ discon[k] \in ToSet(discon)
    BY <1>2, <2>2, <2>3 DEF ToSet
  <2> QED
    BY <2>4 DEF TypesOf, Flattened
<1>4. ASSUME NEW t \in TypesOf(discon) PROVE t \in TypesOf(D)
  <2>1. PICK k \in DOMAIN discon : \E c \in ToSet(discon[k]) : t = c.type
    BY DEF TypesOf, Flattened, ToSet
  <2>2. discon[k] \in Seq(Entry)
    OBVIOUS
  <2>3. PICK x : x \in ToSet(ConCandidates(w, discon[k]))
    BY <2>2, ConElements, SomeElement
  <2>4. PICK j \in 1 .. Len(discon[k]) : t = discon[k][j].type
    BY <1>2, <2>1, <2>3 DEF ToSet
  <2>5. t = x[j].type /\ x[j] \in ToSet(x) /\ x \in ToSet(D)
    BY <1>1, <1>2, <2>3, <2>4 DEF ToSet
  <2> QED
    BY <2>5 DEF TypesOf, Flattened
<1> QED
  BY <1>3, <1>4 DEF D

\* D is s with the elements of S moved to the front.
IsMoved(D, s, S) == D = Only(s, S) \o Without(s, S)

\* If x is moved to the front, y is before it.
Before(s, S, y, x) ==
  x \in S => \A m \in DOMAIN s : s[m] = x => \E l \in 1 .. m - 1 : s[l] = y

\* What is moved to the front keeps its order, and precedes the rest.
LEMMA MovedToFront ==
  ASSUME NEW X, NEW s \in Seq(X), NEW S, NEW D, IsMoved(D, s, S),
         NEW q \in DOMAIN D, NEW y \in ToSet(s) \cap S,
         Before(s, S, y, D[q])
  PROVE  \E p \in 1 .. q - 1 : D[p] = y
<1> DEFINE a == Only(s, S)
           b == Without(s, S)
           R == ToSet(s) \ S
<1>1. PICK h : Places(h, a, s, R, Len(s)) /\ a \in Seq(X)
  BY WithoutPlaces DEF Only
<1>2. b \in Seq(X) /\ ToSet(b) = ToSet(s) \ S
  BY WithoutSet, WithoutPlaces
<1>3. DOMAIN s = 1 .. Len(s) /\ Len(s) \in Nat
  OBVIOUS
<1> HIDE DEF a, b
<1>4. /\ Len(a) \in Nat /\ Len(b) \in Nat /\ DOMAIN D = 1 .. Len(a) + Len(b)
      /\ \A p \in 1 .. Len(a) : D[p] = a[p]
      /\ \A p \in 1 .. Len(b) : D[Len(a) + p] = b[p]
  <2>1. D = a \o b
    BY DEF IsMoved, a, b
  <2> QED
    BY <1>1, <1>2, <2>1, Concatenated
<1>5. q \in 1 .. Len(a) + Len(b)
  BY <1>4
<1>6. PICK p \in 1 .. Len(a) : a[p] = y
  <2>1. PICK m \in 1 .. Len(s) : s[m] = y
    BY <1>3 DEF ToSet
  <2>2. s[m] \notin R
    BY <2>1
  <2>3. PICK i \in 1 .. Len(a) : h[i] = m
    BY <1>1, <2>2 DEF Places
  <2>4. a[i] = s[h[i]]
    BY <1>1 DEF Places
  <2> QED
    BY <2>1, <2>3, <2>4
<1>7. CASE q \in 1 .. Len(a)
  <2>1. a[q] = s[h[q]] /\ s[h[q]] \notin R /\ h[q] \in 1 .. Len(s)
    BY <1>1, <1>7 DEF Places
  <2>2. a[q] \in S
    BY <1>3, <2>1 DEF ToSet
  <2>3. PICK l \in 1 .. h[q] - 1 : s[l] = y
    BY <1>3, <1>4, <1>7, <2>1, <2>2 DEF Before
  <2>4. l \in 1 .. Len(s) /\ l < h[q]
    BY <1>3, <2>1
  <2>5. s[l] \notin R
    BY <2>3
  <2>6. PICK i \in 1 .. Len(a) : h[i] = l
    BY <1>1, <2>4, <2>5 DEF Places
  <2>7. a[i] = y
    BY <1>1, <2>3, <2>6 DEF Places
  <2>8. ~(q <= i)
    <3>1. q < i => h[q] < h[i]
      BY <1>1, <1>7 DEF Places
    <3>2. h[i] \in 1 .. Len(s)
      BY <1>1 DEF Places
    <3> QED
      BY <1>3, <1>4, <1>7, <2>1, <2>4, <2>6, <3>1, <3>2
  <2>9. i \in 1 .. q - 1
    BY <1>4, <1>7, <2>8
  <2> QED
    BY <1>4, <2>7, <2>9
<1>8. CASE q \notin 1 .. Len(a)
  <2>1. p \in 1 .. q - 1
    BY <1>4, <1>5, <1>8
  <2> QED
    BY <1>4, <1>6, <2>1
<1> QED
  BY <1>7, <1>8

\* Options of one credential each, or one option that asks for something.
OneWay(discon) ==
  \/ \A con \in ToSet(discon) : Len(con) <= 1
  \/ \A k, l \in DOMAIN discon : discon[k] # << >> /\ discon[l] # << >> => k = l

\* If such a discon can be chosen by an option with something in it, then before each
\* candidate that cannot there is one that can, with all its credentials.
LEMMA Ahead ==
  ASSUME NEW w \in Seq(Credential), NEW discon \in Seq(Seq(Entry)), OneWay(discon),
         NEW s, s # << >>, AllChoosable(s), s \in ToSet(OptionsOf(w, discon)),
         NEW x \in ToSet(OptionsOf(w, discon)), ~AllChoosable(x)
  PROVE  \E y \in ToSet(OptionsOf(w, discon)) \cap StartChoosable(OptionsOf(w, discon)) :
           /\ y # << >> /\ AllChoosable(y)
           /\ \A c \in ToSet(x) : IsChoosable(c) => c \in ToSet(y)
           /\ Before(OptionsOf(w, discon), StartChoosable(OptionsOf(w, discon)), y, x)
<1> DEFINE O == OptionsOf(w, discon)
           cons == [k \in DOMAIN discon |-> ConCandidates(w, discon[k])]
<1>1. PICK at \in [1 .. Len(discon) -> Nat] : Blocks(at, O, cons, Len(discon))
  BY OptionsOK
<1>2. O \in Seq(Seq(Part)) /\ DOMAIN O = 1 .. Len(O) /\ DOMAIN discon = 1 .. Len(discon)
  BY OptionsOK
<1>3. \A k \in DOMAIN discon : cons[k] = ConCandidates(w, discon[k])
  OBVIOUS
<1>4. \A k \in DOMAIN discon : /\ discon[k] \in Seq(Entry) /\ discon[k] \in ToSet(discon)
                               /\ Len(discon[k]) \in Nat
  BY DEF ToSet
<1>5. \A u \in ToSet(O) : \E k \in DOMAIN discon : u \in ToSet(ConCandidates(w, discon[k]))
  BY OptionsOK
<1>6. s \in ToSet(O) /\ x \in ToSet(O)
  OBVIOUS
<1>7. \A u \in Seq(Part) : u # << >> /\ AllChoosable(u) => u[1] \in ToSet(u) /\ IsChoosable(u[1])
  <2>1. ASSUME NEW u \in Seq(Part), u # << >>, AllChoosable(u)
        PROVE  u[1] \in ToSet(u) /\ IsChoosable(u[1])
    <3>1. 1 \in DOMAIN u
      <4> HIDE DEF Part
      <4> QED
        BY <2>1
    <3> QED
      BY <2>1, <3>1 DEF AllChoosable, ToSet
  <2> QED
    BY <2>1
<1>8. \A u \in ToSet(O) : u \in Seq(Part)
  BY <1>2 DEF ToSet
<1> HIDE DEF O, cons
<1>9. \A u \in ToSet(O) : u # << >> /\ AllChoosable(u) => u \in StartChoosable(O)
  BY <1>7, <1>8 DEF StartChoosable
<1>10. PICK k0 \in DOMAIN discon : Fits(w, discon[k0], s) /\ Follows(w, discon[k0], s)
  <2>1. PICK k0 \in DOMAIN discon : s \in ToSet(ConCandidates(w, discon[k0]))
    BY <1>5, <1>6
  <2>2. Follows(w, discon[k0], s)
    BY <1>4, <2>1, ConElements
  <2>3. Fits(w, discon[k0], s)
    BY <1>4, <2>2, Choosing
  <2> QED
    BY <2>2, <2>3
<1>11. discon[k0] # << >>
  BY <1>4, <1>10, NoEntries
<1>12. CASE \A con \in ToSet(discon) : Len(con) <= 1
  <2>1. PICK k \in DOMAIN discon : x \in ToSet(ConCandidates(w, discon[k]))
    BY <1>5, <1>6
  <2>2. Follows(w, discon[k], x)
    BY <1>4, <2>1, ConElements
  <2>3. x \in Seq(Part) /\ DOMAIN x = 1 .. Len(x) /\ Len(x) \in {0, 1}
    BY <1>4, <1>12, <2>2 DEF Follows
  <2>4. Len(x) = 1 /\ ~IsChoosable(x[1]) /\ ToSet(x) = {x[1]}
    BY <2>3 DEF AllChoosable, ToSet
  <2>5. x # << >>
    BY DEF AllChoosable, ToSet
  <2>6. x \notin StartChoosable(O)
    BY <2>4, <2>5 DEF StartChoosable
  <2>7. s \in ToSet(O) \cap StartChoosable(O)
    BY <1>6, <1>9
  <2> QED
    BY <2>4, <2>6, <2>7 DEF O, Before
<1>13. CASE \A k, l \in DOMAIN discon : discon[k] # << >> /\ discon[l] # << >> => k = l
  <2> DEFINE C == ConCandidates(w, discon[k0])
  <2>1. ASSUME NEW m \in DOMAIN O, O[m] = x
        PROVE  \E kk \in 1 .. Len(C) : m = at[k0] + kk /\ C[kk] = x
    <3>1. PICK k \in 1 .. Len(discon) : \E kk \in 1 .. Len(cons[k]) : m = at[k] + kk
      BY <1>1, <1>2, <2>1 DEF Blocks
    <3>2. PICK kk \in 1 .. Len(cons[k]) : m = at[k] + kk
      BY <3>1
    <3>3. O[m] = cons[k][kk]
      BY <1>1, <3>2 DEF Blocks
    <3>4. ConCandidates(w, discon[k]) \in Seq(Seq(Part)) /\ cons[k] = ConCandidates(w, discon[k])
      BY <1>2, <1>3, <1>4, ConElements
    <3>5. x \in ToSet(ConCandidates(w, discon[k]))
      BY <2>1, <3>3, <3>4 DEF ToSet
    <3>6. Follows(w, discon[k], x)
      BY <1>2, <1>4, <3>5, ConElements
    <3>7. discon[k] # << >>
      <4>1. x # << >>
        BY DEF AllChoosable, ToSet
      <4> QED
        BY <1>2, <1>4, <3>6, <4>1, NoEntries
    <3>8. k = k0
      BY <1>2, <1>11, <1>13, <3>7
    <3> QED
      BY <2>1, <3>2, <3>3, <3>4, <3>8
  <2>2. ASSUME NEW kk \in 1 .. Len(C), C[kk] = x
        PROVE  /\ kk > 1 /\ Fits(w, discon[k0], C[1])
               /\ \A c \in ToSet(x) : IsChoosable(c) => c \in ToSet(C[1])
    BY <1>4, <1>10, <2>2, ConFirst
  <2>3. PICK m \in DOMAIN O : O[m] = x
    BY <1>6 DEF ToSet
  <2>4. PICK kk \in 1 .. Len(C) : m = at[k0] + kk /\ C[kk] = x
    BY <2>1, <2>3
  <2>5. Fits(w, discon[k0], C[1]) /\ \A c \in ToSet(x) : IsChoosable(c) => c \in ToSet(C[1])
    BY <2>2, <2>4
  <2>6. C \in Seq(Seq(Part)) /\ C # << >> /\ AllChoosable(C[1])
    BY <1>4, <2>5, ConElements
  <2>7. 1 \in 1 .. Len(C)
    <3> HIDE DEF C
    <3> QED
      BY <2>6
  <2>8. at[k0] + 1 \in 1 .. Len(O) /\ O[at[k0] + 1] = C[1]
    <3>1. k0 \in 1 .. Len(discon) /\ cons[k0] = C
      BY <1>2, <1>3
    <3> HIDE DEF C
    <3> QED
      BY <1>1, <2>7, <3>1 DEF Blocks
  <2>9. C[1] \in ToSet(O)
    BY <1>2, <2>8 DEF ToSet
  <2>10. C[1] # << >>
    BY <1>4, <1>11, <2>5, NoEntries
  <2> HIDE DEF C
  <2>11. ASSUME NEW n \in DOMAIN O, O[n] = x PROVE \E l \in 1 .. n - 1 : O[l] = C[1]
    <3>1. PICK j \in 1 .. Len(C) : n = at[k0] + j /\ C[j] = x
      BY <2>1, <2>11
    <3>2. j > 1
      BY <2>2, <3>1
    <3>3. at[k0] \in Nat
      BY <1>2
    <3>4. at[k0] + 1 \in 1 .. n - 1
      BY <1>2, <2>8, <3>1, <3>2, <3>3
    <3> QED
      BY <2>8, <3>4
  <2> QED
    BY <1>9, <2>5, <2>6, <2>9, <2>10, <2>11 DEF O, Before
<1> QED
  BY <1>12, <1>13 DEF OneWay

LEMMA Preceded ==
  ASSUME NEW w \in Seq(Credential), NEW discon \in Seq(Seq(Entry)), OneWay(discon),
         NEW s \in ToSet(DisConCandidates(w, discon)), s # << >>, AllChoosable(s),
         NEW q \in DOMAIN DisConCandidates(w, discon),
         ~AllChoosable(DisConCandidates(w, discon)[q])
  PROVE  \E p \in 1 .. q - 1 :
           /\ DisConCandidates(w, discon)[p] # << >>
           /\ AllChoosable(DisConCandidates(w, discon)[p])
           /\ \A c \in ToSet(DisConCandidates(w, discon)[q]) :
                IsChoosable(c) => c \in ToSet(DisConCandidates(w, discon)[p])
<1> DEFINE O == OptionsOf(w, discon)
           S == StartChoosable(O)
           D == DisConCandidates(w, discon)
           x == D[q]
<1>1. IsMoved(D, O, S)
  BY DisConShape DEF IsMoved
<1>2. O \in Seq(Seq(Part)) /\ \A u : u \in ToSet(O) <=> u \in ToSet(D)
  BY OptionsOK, DisConElements
<1>3. x \in ToSet(O) /\ s \in ToSet(O)
  BY <1>2 DEF ToSet
<1>4. PICK y \in ToSet(O) \cap S :
        /\ y # << >> /\ AllChoosable(y)
        /\ \A c \in ToSet(x) : IsChoosable(c) => c \in ToSet(y)
        /\ Before(O, S, y, x)
  <2>1. ~AllChoosable(x)
    OBVIOUS
  <2> HIDE DEF x, D
  <2> QED
    BY <1>3, <2>1, Ahead
<1>5. q \in DOMAIN D
  OBVIOUS
<1> HIDE DEF O, S, D
<1>6. PICK p \in 1 .. q - 1 : D[p] = y
  BY <1>1, <1>2, <1>4, <1>5, MovedToFront
<1> QED
  BY <1>4, <1>6 DEF D

-----------------------------------------------------------------------------
(* Which option the bloc selects. *)

LEMMA BestFitOK ==
  ASSUME NEW X, NEW discon \in Seq(X), discon # << >>
  PROVE  /\ BestFit(discon) \in 1 .. Len(discon)
         /\ (\E x \in ToSet(discon) : AllChoosable(x)) => AllChoosable(discon[BestFit(discon)])
<1> DEFINE N == Len(discon)
           V == {i \in 1 .. N : AllValid(discon[i])}
           C == {i \in 1 .. N : AllChoosable(discon[i])}
           O == {i \in 1 .. N : CanBeObtained(discon[i])}
           fits == <<First(V), First(C), First(O), 1>>
           I == {i \in 1 .. Len(fits) : fits[i] > 0}
<1>0. N \in Nat /\ 1 \in 1 .. N /\ DOMAIN discon = 1 .. N
  OBVIOUS
<1>1. BestFit(discon) = fits[First(I)]
  BY DEF BestFit, SelectInSeq, First
<1>2. /\ First(V) \in 0 .. N /\ (First(V) > 0 => First(V) \in V)
      /\ First(C) \in 0 .. N /\ (First(C) = 0 <=> C = {}) /\ (First(C) > 0 => First(C) \in C)
      /\ First(O) \in 0 .. N
  BY <1>0, FirstOK
<1>3. V \subseteq C
  BY DEF AllValid, AllChoosable
<1>4. \A i \in 1 .. N : i \in C <=> AllChoosable(discon[i])
  OBVIOUS
<1> HIDE DEF V, C, O
<1>5. /\ Len(fits) = 4 /\ fits[1] = First(V) /\ fits[2] = First(C)
      /\ fits[3] = First(O) /\ fits[4] = 1
  OBVIOUS
<1> HIDE DEF fits
<1>6. 4 \in I /\ I \subseteq 1 .. 4 /\ \A i \in 1 .. 4 : i \in I <=> fits[i] > 0
  BY <1>5
<1> HIDE DEF I
<1>7. First(I) \in I /\ \A i \in I : First(I) <= i
  <2>1. /\ First(I) \in 0 .. 4 /\ (First(I) = 0 <=> I = {}) /\ (First(I) > 0 => First(I) \in I)
        /\ \A i \in I : First(I) <= i
    BY <1>6, FirstOK
  <2>2. I # {}
    BY <1>6
  <2> QED
    BY <2>1, <2>2
<1>8. First(I) \in {1, 2, 3, 4}
  <2>1. First(I) \in 1 .. 4
    BY <1>6, <1>7
  <2> QED
    BY <2>1
<1>9. fits[First(I)] \in 1 .. N
  BY <1>0, <1>2, <1>5, <1>6, <1>7, <1>8
<1>10. ASSUME NEW x \in ToSet(discon), AllChoosable(x) PROVE AllChoosable(discon[fits[First(I)]])
  <2>1. PICK i \in 1 .. N : discon[i] = x
    BY <1>0 DEF ToSet
  <2>2. i \in C
    BY <1>4, <1>10, <2>1
  <2>3. First(C) \in C /\ First(C) > 0
    BY <1>2, <2>2
  <2>4. 2 \in I
    BY <1>5, <1>6, <2>3
  <2>5. First(I) \in {1, 2}
    BY <1>7, <1>8, <2>4
  <2>6. fits[First(I)] \in C
    BY <1>2, <1>3, <1>5, <1>6, <1>7, <2>3, <2>5
  <2> QED
    BY <1>4, <1>9, <2>6
<1> QED
  BY <1>1, <1>9, <1>10

\* The places of the options that have all of a choice.
Keeping(discon, choice) == {i \in 1 .. Len(discon) : ToSet(choice) \subseteq ToSet(discon[i])}

LEMMA FindShape ==
  ASSUME NEW e, NEW X, NEW discon \in Seq(X), discon # << >>,
         NEW prevDiscon, NEW prevChoice, NEW keep
  PROVE  LET k == FindSelectedConIndex(e, discon, prevDiscon, prevChoice, keep)
         IN  /\ k \in 1 .. Len(discon)
             /\ prevDiscon = None =>
                  IF prevChoice # None /\ Keeping(discon, prevChoice) # {}
                  THEN k = First(Keeping(discon, prevChoice)) ELSE k = BestFit(discon)
<1> DEFINE N == Len(discon)
           K == Keeping(discon, prevChoice)
           A == {i \in 1 .. N : \E c \in ToSet(discon[i]) :
                   c \in ToSet(e.newly) /\ c \notin Flattened(prevDiscon)}
           kept == IF prevChoice = None THEN 0 ELSE First(K)
           added == IF prevDiscon = None THEN 0 ELSE First(A)
           k == FindSelectedConIndex(e, discon, prevDiscon, prevChoice, keep)
<1>0. N \in Nat
  OBVIOUS
<1>1. k = IF keep /\ kept > 0 /\ AllValid(prevChoice) THEN kept
          ELSE IF added > 0 THEN added ELSE IF kept > 0 THEN kept ELSE BestFit(discon)
  BY DEF FindSelectedConIndex, SelectInSeq, First, Keeping
<1>2. /\ First(K) \in 0 .. N /\ (First(K) = 0 <=> K = {})
      /\ First(A) \in 0 .. N
  <2>1. K \subseteq 1 .. N /\ A \subseteq 1 .. N
    BY DEF Keeping
  <2> HIDE DEF K, A
  <2> QED
    BY <1>0, <2>1, FirstOK
<1>3. BestFit(discon) \in 1 .. N
  BY BestFitOK
<1> HIDE DEF K, A, k
<1>4. k \in 1 .. N
  BY <1>0, <1>1, <1>2, <1>3
<1>5. ASSUME prevDiscon = None
      PROVE  IF prevChoice # None /\ K # {} THEN k = First(K) ELSE k = BestFit(discon)
  <2>1. added = 0
    BY <1>5
  <2>2. k = IF kept > 0 THEN kept ELSE BestFit(discon)
    BY <1>1, <2>1
  <2> HIDE DEF added
  <2> QED
    BY <1>0, <1>2, <2>2
<1> QED
  BY <1>4, <1>5 DEF k, K

\* What was chosen is part of an option that can be chosen: so is the first option with
\* all of it.
LEMMA FindChosen ==
  ASSUME NEW w \in Seq(Credential), NEW discon \in Seq(Seq(Entry)), OneWay(discon),
         NEW s \in ToSet(DisConCandidates(w, discon)), s # << >>, AllChoosable(s),
         NEW choice, ToSet(choice) \subseteq ToSet(s), NEW e
  PROVE  LET D == DisConCandidates(w, discon)
             k == FindSelectedConIndex(e, D, None, choice, FALSE)
         IN  k \in DOMAIN D /\ AllChoosable(D[k])
<1> DEFINE D == DisConCandidates(w, discon)
           k == FindSelectedConIndex(e, D, None, choice, FALSE)
           K == Keeping(D, choice)
<1>1. D \in Seq(Seq(Part)) /\ DOMAIN D = 1 .. Len(D) /\ Len(D) \in Nat
  BY DisConElements
<1>2. s \in ToSet(D)
  OBVIOUS
<1>3. ASSUME NEW q \in DOMAIN D, ~AllChoosable(D[q])
      PROVE  \E p \in 1 .. q - 1 :
               /\ D[p] # << >> /\ AllChoosable(D[p])
               /\ \A c \in ToSet(D[q]) : IsChoosable(c) => c \in ToSet(D[p])
  BY <1>3, Preceded
<1> HIDE DEF D
<1>4. D # << >>
  BY <1>1, <1>2, SomeElement
<1>5. /\ k \in 1 .. Len(D)
      /\ IF choice # None /\ K # {} THEN k = First(K) ELSE k = BestFit(D)
  BY <1>1, <1>4, FindShape
<1> HIDE DEF k
<1>6. CASE choice # None /\ K # {}
  <2>1. K \subseteq 1 .. Len(D) /\ \A i \in 1 .. Len(D) : i \in K <=> ToSet(choice) \subseteq ToSet(D[i])
    BY DEF Keeping
  <2> HIDE DEF K
  <2>2. k \in K /\ \A i \in K : k <= i
    <3>1. (First(K) = 0 <=> K = {}) /\ (First(K) > 0 => First(K) \in K) /\ \A i \in K : First(K) <= i
      BY <1>1, <2>1, FirstOK
    <3> QED
      BY <1>5, <1>6, <3>1
  <2>3. ASSUME ~AllChoosable(D[k]) PROVE FALSE
    <3>1. k \in DOMAIN D
      BY <1>1, <1>5
    <3>2. PICK p \in 1 .. k - 1 : /\ AllChoosable(D[p])
                                  /\ \A c \in ToSet(D[k]) : IsChoosable(c) => c \in ToSet(D[p])
      BY <1>3, <2>3, <3>1
    <3>3. \A c \in ToSet(choice) : IsChoosable(c) /\ c \in ToSet(D[k])
      BY <2>1, <2>2, <1>5 DEF AllChoosable
    <3>4. p \in 1 .. Len(D) /\ p < k
      BY <1>1, <1>5
    <3>5. p \in K
      BY <2>1, <3>2, <3>3, <3>4
    <3> QED
      BY <1>1, <1>5, <2>2, <3>4, <3>5
  <2> QED
    BY <1>1, <1>5, <2>3 DEF D, k
<1>7. CASE ~(choice # None /\ K # {})
  <2>1. AllChoosable(D[BestFit(D)])
    BY <1>1, <1>2, <1>4, BestFitOK
  <2> QED
    BY <1>1, <1>5, <1>7, <2>1 DEF D, k
<1> QED
  BY <1>6, <1>7

-----------------------------------------------------------------------------
(* The candidates of the session. *)

\* The candidates are those of some earlier wallet.
FromWallet(e) ==
  \E w \in Seq(Credential) :
    ToSet(w) \subseteq ToSet(e.wallet) /\ e.candidates = Candidates(w, request)

LEMMA RequestFacts ==
  ASSUME request \in Requests
  PROVE  /\ request \in Seq(Seq(Seq(Entry)))
         /\ \A i \in DOMAIN request :
              /\ request[i] \in Seq(Seq(Entry)) /\ request[i] # << >>
              /\ request[i] \in ToSet(request)
              /\ \A con \in ToSet(request[i]) :
                   \A k, l \in DOMAIN con : con[k].type = con[l].type => k = l
<1>1. request \in Seq(Seq(Seq(Entry)))
  BY RequestAssumption
<1>2. ASSUME NEW i \in DOMAIN request
      PROVE  /\ request[i] \in Seq(Seq(Entry)) /\ request[i] # << >>
             /\ request[i] \in ToSet(request)
             /\ \A con \in ToSet(request[i]) :
                  \A k, l \in DOMAIN con : con[k].type = con[l].type => k = l
  <2>1. request[i] \in Seq(Seq(Entry))
    BY <1>1
  <2>2. request[i] \in ToSet(request)
    BY DEF ToSet
  <2>3. /\ Len(request[i]) > 0
        /\ \A con \in ToSet(request[i]) :
             \A k, l \in DOMAIN con : con[k].type = con[l].type => k = l
    BY <2>2, RequestAssumption
  <2>4. request[i] # << >>
    BY <2>3
  <2> QED
    BY <2>1, <2>2, <2>3, <2>4
<1> QED
  BY <1>1, <1>2

LEMMA CandidatesOK ==
  ASSUME request \in Requests, NEW e, FromWallet(e)
  PROVE  /\ DOMAIN e.candidates = DOMAIN request
         /\ \A i \in DOMAIN request :
              /\ e.candidates[i] \in Seq(Seq(Part)) /\ e.candidates[i] # << >>
              /\ IsOptional(e.candidates[i]) <=> IsOptional(request[i])
              /\ TypesOf(e.candidates[i]) = TypesOf(request[i])
<1>1. PICK w \in Seq(Credential) : e.candidates = Candidates(w, request)
  BY DEF FromWallet
<1>2. DOMAIN e.candidates = DOMAIN request
  BY <1>1 DEF Candidates
<1>3. ASSUME NEW i \in DOMAIN request
      PROVE  /\ e.candidates[i] \in Seq(Seq(Part)) /\ e.candidates[i] # << >>
             /\ IsOptional(e.candidates[i]) <=> IsOptional(request[i])
             /\ TypesOf(e.candidates[i]) = TypesOf(request[i])
  <2>1. e.candidates[i] = DisConCandidates(w, request[i])
    BY <1>1 DEF Candidates
  <2>2. request[i] \in Seq(Seq(Entry)) /\ request[i] # << >>
    BY RequestFacts
  <2> QED
    BY <2>1, <2>2, DisConOffers, DisConTypes DEF IsOptional
<1> QED
  BY <1>2, <1>3

\* The app has the credentials of all candidates: it reads what is offered.
LEMMA ParsedOK ==
  ASSUME request \in Requests, NEW e, KnownOK(e), FromWallet(e)
  PROVE  Parsed(e) = e.candidates
<1>1. PICK w \in Seq(Credential) :
        ToSet(w) \subseteq ToSet(e.wallet) /\ e.candidates = Candidates(w, request)
  BY DEF FromWallet
<1>2. ASSUME NEW i \in DOMAIN e.candidates
      PROVE  ParseCandidatesDisCon(e, e.candidates[i]) = e.candidates[i]
  <2> DEFINE D == e.candidates[i]
             Read(c) == IF c \in ToSet(e.wallet) THEN c ELSE Template(c.type, c.value)
             con(k) == [j \in DOMAIN D[k] |-> Read(D[k][j])]
  <2>1. i \in DOMAIN request /\ D = DisConCandidates(w, request[i])
    BY <1>1 DEF Candidates
  <2>2. D \in Seq(Seq(Part))
    BY <2>1, CandidatesOK
  <2>3. ASSUME NEW k \in DOMAIN D PROVE con(k) = D[k]
    <3>1. request[i] \in Seq(Seq(Entry))
      BY <2>1, RequestFacts
    <3>2. D[k] \in ToSet(D)
      BY DEF ToSet
    <3>3. PICK m \in DOMAIN request[i] : Follows(w, request[i][m], D[k])
      BY <2>1, <3>1, <3>2, DisConOffers
    <3>4. /\ D[k] \in Seq(Part) /\ Len(D[k]) = Len(request[i][m])
          /\ request[i][m] \in Seq(Entry)
      BY <3>1, <3>3 DEF Follows
    <3>5. ASSUME NEW j \in DOMAIN D[k] PROVE Read(D[k][j]) = D[k][j]
      <4>1. j \in 1 .. Len(request[i][m])
        BY <3>4
      <4>2. request[i][m][j] \in Entry
        BY <3>4, <4>1
      <4>3. D[k][j] = request[i][m][j] \/ D[k][j] \in ToSet(e.wallet)
        BY <1>1, <3>3, <4>1 DEF Follows
      <4>4. request[i][m][j] = Template(request[i][m][j].type, request[i][m][j].value)
        BY <4>2, PartFacts
      <4> QED
        BY <4>3, <4>4
    <3>6. con(k) = [j \in DOMAIN D[k] |-> D[k][j]]
      <4> HIDE DEF Read
      <4> QED
        BY <3>5
    <3>7. D[k] = [j \in DOMAIN D[k] |-> D[k][j]]
      BY <3>4
    <3> QED
      BY <3>6, <3>7
  <2>4. ParseCandidatesDisCon(e, D) = [k \in DOMAIN D |-> con(k)]
    BY DEF ParseCandidatesDisCon
  <2> HIDE DEF con
  <2>5. [k \in DOMAIN D |-> con(k)] = [k \in DOMAIN D |-> D[k]]
    BY <2>3
  <2>6. D = [k \in DOMAIN D |-> D[k]]
    BY <2>2
  <2> QED
    BY <2>4, <2>5, <2>6
<1>3. Parsed(e) = [i \in DOMAIN e.candidates |-> e.candidates[i]]
  BY <1>2 DEF Parsed
<1>4. e.candidates = [i \in DOMAIN e.candidates |-> e.candidates[i]]
  BY <1>1 DEF Candidates
<1> QED
  BY <1>3, <1>4

\* Some candidate of a con serves each entry, and any credential for an entry is in one.
LEMMA ConServes ==
  ASSUME NEW w \in Seq(Credential), NEW con \in Seq(Entry)
  PROVE  /\ \E x \in ToSet(ConCandidates(w, con)) : ServesCon(w, con, Len(con), x)
         /\ \A j \in 1 .. Len(con) : \A c \in ToSet(w) : MatchesCredential(con[j], c)
              => \E x \in ToSet(ConCandidates(w, con)) : c \in ToSet(x)
<1> DEFINE C == ConCandidates(w, con)
<1>1. PICK product : /\ IsProduct(product, w, con)
                     /\ \/ C = product
                        \/ \E another : IsAnother(another, product, con) /\ C = Append(product, another)
  BY ConShape
<1>2. product \in Seq(Seq(Part)) /\ product # << >>
  BY <1>1 DEF IsProduct
<1> HIDE DEF C
<1>3. \A x \in ToSet(product) : x \in ToSet(C)
  <2>1. CASE C = product
    BY <2>1
  <2>2. CASE C # product
    <3>1. PICK another : IsAnother(another, product, con) /\ C = Append(product, another)
      BY <1>1, <2>2
    <3>2. another \in Seq(Part)
      BY <3>1 DEF IsAnother
    <3>3. /\ C \in Seq(Seq(Part)) /\ Len(C) = Len(product) + 1
          /\ \A p \in 1 .. Len(product) : C[p] = product[p]
      BY <1>2, <3>1, <3>2, Appended
    <3>4. DOMAIN C = 1 .. Len(product) + 1 /\ DOMAIN product = 1 .. Len(product)
          /\ \A p \in 1 .. Len(product) : p \in 1 .. Len(product) + 1
      BY <1>2, <3>3
    <3> QED
      BY <3>3, <3>4 DEF ToSet
  <2> QED
    BY <2>1, <2>2
<1>4. PICK x : x \in ToSet(product)
  BY <1>2, SomeElement
<1>5. ServesCon(w, con, Len(con), x) /\ x \in ToSet(C)
  BY <1>1, <1>3, <1>4 DEF IsProduct
<1>6. ASSUME NEW j \in 1 .. Len(con), NEW c \in ToSet(w), MatchesCredential(con[j], c)
      PROVE  \E y \in ToSet(C) : c \in ToSet(y)
  <2> DEFINE y == [x EXCEPT ![j] = c]
  <2>1. /\ x \in Seq(Part) /\ Len(x) = Len(con)
        /\ \A k \in 1 .. Len(con) : Serves(w, con[k], x[k])
    BY <1>5 DEF ServesCon
  <2>2. c \in Part
    BY DEF Part, ToSet
  <2>3. y \in Seq(Part) /\ Len(y) = Len(con) /\ DOMAIN y = 1 .. Len(con)
    <3> HIDE DEF Part
    <3> QED
      BY <2>1, <2>2
  <2>4. y[j] = c /\ \A k \in 1 .. Len(con) : k # j => y[k] = x[k]
    BY <2>1
  <2> HIDE DEF y
  <2>5. \A k \in 1 .. Len(con) : Serves(w, con[k], y[k])
    BY <1>6, <2>1, <2>4 DEF Serves
  <2>6. y \in ToSet(product)
    BY <1>1, <2>3, <2>5 DEF IsProduct, ServesCon
  <2> QED
    BY <1>3, <2>3, <2>4, <2>6 DEF ToSet
<1> QED
  BY <1>5, <1>6 DEF C

\* What can be chosen of candidates stays there.
Keeps(e, new) ==
  \A i \in DOMAIN request :
    /\ \A s \in ToSet(e.candidates[i]) : AllChoosable(s) => s \in ToSet(new.candidates[i])
    /\ \A c \in Flattened(e.candidates[i]) : IsChoosable(c) => c \in Flattened(new.candidates[i])

LEMMA SameKeeps ==
  ASSUME NEW e, NEW new, new.candidates = e.candidates
  PROVE  Keeps(e, new)
BY DEF Keeps

LEMMA RefreshKeeps ==
  ASSUME request \in Requests, NEW e, KnownOK(e), FromWallet(e),
         NEW new, new.wallet = e.wallet, new.candidates = Candidates(e.wallet, request)
  PROVE  FromWallet(new) /\ Keeps(e, new)
<1>1. PICK w \in Seq(Credential) :
        ToSet(w) \subseteq ToSet(e.wallet) /\ e.candidates = Candidates(w, request)
  BY DEF FromWallet
<1>2. e.wallet \in Seq(Credential)
  BY DEF KnownOK
<1>3. FromWallet(new)
  BY <1>2 DEF FromWallet
<1>4. ASSUME NEW i \in DOMAIN request
      PROVE  /\ \A s \in ToSet(e.candidates[i]) : AllChoosable(s) => s \in ToSet(new.candidates[i])
             /\ \A c \in Flattened(e.candidates[i]) :
                  IsChoosable(c) => c \in Flattened(new.candidates[i])
  <2> DEFINE d == request[i]
             D == DisConCandidates(w, d)
             G == DisConCandidates(e.wallet, d)
  <2>1. e.candidates[i] = D /\ new.candidates[i] = G
    BY <1>1 DEF Candidates
  <2>2. d \in Seq(Seq(Entry))
    BY RequestFacts
  <2> HIDE DEF d
  <2>3. ASSUME NEW s \in ToSet(D), AllChoosable(s) PROVE s \in ToSet(G)
    <3>1. PICK k \in DOMAIN d : Fits(w, d[k], s)
      BY <2>2, <2>3, DisConOffers
    <3>2. Fits(e.wallet, d[k], s)
      BY <1>1, <3>1 DEF Fits
    <3> QED
      BY <1>2, <2>2, <3>2, DisConOffers
  <2>4. ASSUME NEW c \in Flattened(D), IsChoosable(c) PROVE c \in Flattened(G)
    <3>1. PICK x \in ToSet(D) : c \in ToSet(x)
      BY DEF Flattened
    <3>2. PICK k \in DOMAIN d : Follows(w, d[k], x)
      BY <2>2, DisConOffers
    <3>3. d[k] \in Seq(Entry)
      BY <2>2
    <3>4. x \in Seq(Part) /\ Len(x) = Len(d[k])
      BY <3>2 DEF Follows
    <3>5. PICK j \in 1 .. Len(d[k]) : c = x[j]
      BY <3>1, <3>4 DEF ToSet
    <3>6. x[j] \in ToSet(w) /\ x[j] # d[k][j]
      BY <2>4, <3>2, <3>3, <3>5, Choosing
    <3>7. c \in ToSet(e.wallet) /\ MatchesCredential(d[k][j], c)
      BY <1>1, <3>2, <3>5, <3>6 DEF Follows
    <3>8. PICK y \in ToSet(ConCandidates(e.wallet, d[k])) : c \in ToSet(y)
      BY <1>2, <3>3, <3>7, ConServes
    <3>9. y \in ToSet(G)
      BY <1>2, <2>2, DisConElements
    <3> QED
      BY <3>8, <3>9 DEF Flattened
  <2> QED
    BY <2>1, <2>3, <2>4
<1> QED
  BY <1>3, <1>4 DEF Keeps

OneWayRequests == \A req \in Requests : \A discon \in ToSet(req) : OneWay(discon)

\* An option with something in it that can be chosen has all that any option offers.
LEMMA Covered ==
  ASSUME OneWayRequests, request \in Requests, NEW e, FromWallet(e), NEW i \in DOMAIN request,
         NEW s \in ToSet(e.candidates[i]), s # << >>, AllChoosable(s),
         NEW x \in ToSet(e.candidates[i])
  PROVE  \E y \in ToSet(e.candidates[i]) :
           /\ y # << >> /\ AllChoosable(y)
           /\ \A c \in ToSet(x) : IsChoosable(c) => c \in ToSet(y)
<1>1. PICK w \in Seq(Credential) : e.candidates = Candidates(w, request)
  BY DEF FromWallet
<1> DEFINE d == request[i]
           D == DisConCandidates(w, d)
<1>2. e.candidates[i] = D
  BY <1>1 DEF Candidates
<1>3. d \in Seq(Seq(Entry)) /\ OneWay(d)
  BY RequestFacts DEF OneWayRequests
<1> HIDE DEF d
<1>4. D \in Seq(Seq(Part)) /\ DOMAIN D = 1 .. Len(D) /\ Len(D) \in Nat
  BY <1>3, DisConElements
<1>5. CASE AllChoosable(x)
  <2>1. CASE x # << >>
    BY <1>5, <2>1
  <2>2. CASE x = << >>
    <3>1. \A c \in ToSet(x) : FALSE
      BY <2>2 DEF ToSet
    <3> QED
      BY <3>1
  <2> QED
    BY <2>1, <2>2
<1>6. CASE ~AllChoosable(x)
  <2>1. PICK q \in DOMAIN D : D[q] = x
    BY <1>2 DEF ToSet
  <2>2. s \in ToSet(D)
    BY <1>2
  <2>3. PICK p \in 1 .. q - 1 :
           /\ D[p] # << >> /\ AllChoosable(D[p])
           /\ \A c \in ToSet(D[q]) : IsChoosable(c) => c \in ToSet(D[p])
    BY <1>3, <1>6, <2>1, <2>2, Preceded
  <2>4. p \in DOMAIN D
    BY <1>4
  <2>5. D[p] \in ToSet(e.candidates[i])
    BY <1>2, <2>4 DEF ToSet
  <2> HIDE DEF D
  <2> QED
    BY <2>1, <2>3, <2>5
<1> QED
  BY <1>5, <1>6

-----------------------------------------------------------------------------
(* Discons cut to credential types. *)

LEMMA OfTypesSet ==
  ASSUME NEW X, NEW con \in Seq(X), NEW types
  PROVE  /\ OfTypes(con, types) \in Seq(X)
         /\ ToSet(OfTypes(con, types)) = {c \in ToSet(con) : c.type \in types}
<1>1. /\ OfTypes(con, types) \in Seq(X)
      /\ ToSet(OfTypes(con, types)) = ToSet(con) \cap {c \in ToSet(con) : c.type \in types}
  BY OnlySet DEF OfTypes
<1> QED
  BY <1>1

LEMMA CutOK ==
  ASSUME NEW X, NEW discon \in Seq(Seq(X)), NEW types
  PROVE  /\ CutDisCon(discon, types) \in Seq(Seq(X))
         /\ \A x : x \in ToSet(CutDisCon(discon, types)) <=>
              \E con \in ToSet(discon) : /\ x = OfTypes(con, types)
                                         /\ con = << >> \/ \E c \in ToSet(con) : c.type \in types
<1> DEFINE S == {con \in ToSet(discon) : con = << >> \/ \E c \in ToSet(con) : c.type \in types}
           kept == Only(discon, S)
           cut == [k \in DOMAIN kept |-> OfTypes(kept[k], types)]
<1>1. kept \in Seq(Seq(X)) /\ ToSet(kept) = S
  <2>1. kept \in Seq(Seq(X)) /\ ToSet(kept) = ToSet(discon) \cap S
    BY OnlySet
  <2> QED
    BY <2>1
<1>2. CutDisCon(discon, types) = cut
  BY DEF CutDisCon
<1> HIDE DEF kept
<1>3. DOMAIN kept = 1 .. Len(kept) /\ \A k \in DOMAIN kept : OfTypes(kept[k], types) \in Seq(X)
  BY <1>1, OfTypesSet
<1>4. cut \in Seq(Seq(X)) /\ DOMAIN cut = DOMAIN kept
  BY <1>3
<1>5. \A k \in DOMAIN kept : cut[k] = OfTypes(kept[k], types)
  OBVIOUS
<1> HIDE DEF cut
<1>6. ASSUME NEW x PROVE x \in ToSet(cut) <=> \E con \in S : x = OfTypes(con, types)
  BY <1>1, <1>4, <1>5 DEF ToSet
<1>7. ASSUME NEW x
      PROVE  x \in ToSet(cut) <=>
               \E con \in ToSet(discon) : /\ x = OfTypes(con, types)
                                          /\ con = << >> \/ \E c \in ToSet(con) : c.type \in types
  BY <1>6
<1> QED
  BY <1>2, <1>4, <1>7

LEMMA CutAll ==
  ASSUME NEW X, NEW discon \in Seq(Seq(X)), NEW types, TypesOf(discon) \subseteq types
  PROVE  CutDisCon(discon, types) = discon
<1> DEFINE S == {con \in ToSet(discon) : con = << >> \/ \E c \in ToSet(con) : c.type \in types}
<1>1. \A con \in ToSet(discon) : con \in Seq(X) /\ \A c \in ToSet(con) : c.type \in types
  <2>1. ASSUME NEW con \in ToSet(discon), NEW c \in ToSet(con) PROVE c.type \in types
    BY DEF TypesOf, Flattened
  <2>2. \A con \in ToSet(discon) : con \in Seq(X)
    BY DEF ToSet
  <2> QED
    BY <2>1, <2>2
<1>2. ToSet(discon) \subseteq S
  <2>1. ASSUME NEW con \in ToSet(discon) PROVE con \in S
    <3>1. con # << >> => \E c : c \in ToSet(con)
      BY <1>1, SomeElement
    <3> QED
      BY <1>1, <3>1
  <2> QED
    BY <2>1
<1>3. Only(discon, S) = discon
  <2> HIDE DEF S
  <2> QED
    BY <1>2, OnlyAll
<1>4. \A k \in DOMAIN discon : OfTypes(discon[k], types) = discon[k]
  <2>1. ASSUME NEW k \in DOMAIN discon PROVE OfTypes(discon[k], types) = discon[k]
    <3>1. discon[k] \in ToSet(discon)
      BY DEF ToSet
    <3> DEFINE s == discon[k]
               U == {c \in ToSet(s) : c.type \in types}
    <3>2. s \in Seq(X) /\ ToSet(s) \subseteq U
      BY <1>1, <3>1
    <3>3. OfTypes(s, types) = Only(s, U)
      BY DEF OfTypes
    <3> HIDE DEF s, U
    <3>4. Only(s, U) = s
      BY <3>2, OnlyAll
    <3> QED
      BY <3>3, <3>4 DEF s
  <2> QED
    BY <2>1
<1>5. CutDisCon(discon, types) = [k \in DOMAIN discon |-> OfTypes(discon[k], types)]
  BY <1>3 DEF CutDisCon
<1>6. discon = [k \in DOMAIN discon |-> discon[k]]
  OBVIOUS
<1> QED
  BY <1>4, <1>5, <1>6

\* What can be chosen is all that is shown of an option.
LEMMA ChoosablesAll ==
  ASSUME NEW X, NEW con \in Seq(X), AllChoosable(con)
  PROVE  Choosables(con) = con
<1> DEFINE S == {c \in ToSet(con) : IsChoosable(c)}
<1>1. ToSet(con) \subseteq S
  BY DEF AllChoosable
<1>2. Choosables(con) = Only(con, S)
  BY DEF Choosables
<1> HIDE DEF S
<1> QED
  BY <1>1, <1>2, OnlyAll

-----------------------------------------------------------------------------
(* What an issue wizard asks for. *)

\* The discon has an option that can be chosen.
Ready(e, i) == \E s \in ToSet(e.candidates[i]) : AllChoosable(s)

\* Each type of the discon is asked for by the wizard or held for one of its options.
Named(e, i, options) ==
  \A t \in TypesOf(request[i]) :
    \/ t \in TypesOf(options)
    \/ \E c \in Flattened(e.candidates[i]) : IsChoosable(c) /\ c.type = t

LEMMA WizardNames ==
  ASSUME OneWayRequests, request \in Requests, NEW e, FromWallet(e), NEW i \in DOMAIN request
  PROVE  Named(e, i, IssueWizardDisCon(e.candidates[i]))
<1>1. PICK w \in Seq(Credential) : e.candidates = Candidates(w, request)
  BY DEF FromWallet
<1> DEFINE d == request[i]
           D == DisConCandidates(w, d)
           held == {c.type : c \in {b \in Flattened(D) : IsChoosable(b)}}
           options == [k \in DOMAIN D |-> Templates(D[k])]
           S == {con \in ToSet(options) : \A c \in ToSet(con) : c.type \notin held}
<1>2. e.candidates[i] = D
  BY <1>1 DEF Candidates
<1>3. /\ d \in Seq(Seq(Entry)) /\ OneWay(d)
      /\ \A con \in ToSet(d) : \A k, l \in DOMAIN con : con[k].type = con[l].type => k = l
  BY RequestFacts DEF OneWayRequests
<1> HIDE DEF d
<1>4. D \in Seq(Seq(Part)) /\ DOMAIN D = 1 .. Len(D)
  BY <1>3, DisConElements
<1>5. IssueWizardDisCon(D) = Only(options, S)
  BY DEF IssueWizardDisCon
<1>6. \A k \in DOMAIN D : /\ Templates(D[k]) \in Seq(Part)
                          /\ ToSet(Templates(D[k])) = {c \in ToSet(D[k]) : ~IsChoosable(c)}
  <2>1. ASSUME NEW k \in DOMAIN D
        PROVE  /\ Templates(D[k]) \in Seq(Part)
               /\ ToSet(Templates(D[k])) = {c \in ToSet(D[k]) : ~IsChoosable(c)}
    <3>1. D[k] \in Seq(Part)
      BY <1>4
    <3> DEFINE x == D[k]
               U == {c \in ToSet(x) : IsChoosable(c)}
    <3>2. Templates(x) = Without(x, U)
      BY DEF Templates
    <3>3. x \in Seq(Part)
      BY <3>1
    <3> HIDE DEF x
    <3>4. Without(x, U) \in Seq(Part) /\ ToSet(Without(x, U)) = ToSet(x) \ U
      BY <3>3, WithoutSet, WithoutPlaces
    <3> QED
      BY <3>2, <3>4 DEF x
  <2> QED
    BY <2>1
<1>7. options \in Seq(Seq(Part)) /\ DOMAIN options = DOMAIN D
  BY <1>4, <1>6
<1>8. \A k \in DOMAIN D : options[k] = Templates(D[k])
  OBVIOUS
<1> HIDE DEF options, S, D, held
<1>9. ToSet(IssueWizardDisCon(D)) = ToSet(options) \cap S
  BY <1>5, <1>7, OnlySet
<1>10. ASSUME NEW t \in TypesOf(d), \A c \in Flattened(D) : IsChoosable(c) => c.type # t
       PROVE  t \in TypesOf(IssueWizardDisCon(D))
  <2>1. PICK k \in DOMAIN d : \E c \in ToSet(d[k]) : t = c.type
    BY DEF TypesOf, Flattened, ToSet
  <2>2. d[k] \in Seq(Entry) /\ d[k] \in ToSet(d) /\ DOMAIN d[k] = 1 .. Len(d[k]) /\ Len(d[k]) \in Nat
    BY <1>3 DEF ToSet
  <2>3. PICK j \in 1 .. Len(d[k]) : t = d[k][j].type
    BY <2>1, <2>2 DEF ToSet
  <2>4. PICK x \in ToSet(ConCandidates(w, d[k])) : ServesCon(w, d[k], Len(d[k]), x)
    BY <2>2, ConServes
  <2>5. Follows(w, d[k], x)
    BY <2>4, ServesFollows
  <2>6. x \in ToSet(D)
    BY <1>3, <2>4, DisConElements DEF D
  <2>7. PICK q \in DOMAIN D : D[q] = x
    BY <2>6 DEF ToSet
  <2>8. x \in Seq(Part) /\ Len(x) = Len(d[k]) /\ DOMAIN x = 1 .. Len(d[k])
    BY <2>5 DEF Follows
  <2>9. \A c \in ToSet(x) : c \in Flattened(D)
    BY <2>6 DEF Flattened
  <2>10. x[j].type = t /\ x[j] \in ToSet(x) /\ ~IsChoosable(x[j])
    <3>1. x[j].type = t
      BY <2>3, <2>5 DEF Follows, MatchesCredential
    <3>2. x[j] \in ToSet(x)
      BY <2>8 DEF ToSet
    <3> QED
      BY <1>10, <2>9, <3>1, <3>2
  <2>11. ASSUME NEW c \in ToSet(x), ~IsChoosable(c), c.type \in held PROVE FALSE
    <3>1. PICK l \in 1 .. Len(d[k]) : c = x[l]
      BY <2>8 DEF ToSet
    <3>2. c = d[k][l] /\ \A b \in ToSet(w) : ~MatchesCredential(d[k][l], b)
      <4>1. c = d[k][l] /\ c \notin ToSet(w)
        BY <2>2, <2>5, <2>11, <3>1, Choosing
      <4> QED
        BY <2>4, <3>1, <4>1 DEF ServesCon, Serves
    <3>3. PICK z \in Flattened(D) : IsChoosable(z) /\ z.type = c.type
      BY <2>11 DEF held
    <3>4. PICK y \in ToSet(D) : z \in ToSet(y)
      BY DEF Flattened
    <3>5. PICK m \in DOMAIN d : Follows(w, d[m], y)
      BY <1>3, DisConOffers DEF D
    <3>6. d[m] \in Seq(Entry) /\ y \in Seq(Part) /\ Len(y) = Len(d[m])
      BY <1>3, <3>5 DEF Follows
    <3>7. PICK p \in 1 .. Len(d[m]) : z = y[p]
      BY <3>4, <3>6 DEF ToSet
    <3>8. z \in ToSet(w) /\ MatchesCredential(d[m][p], z)
      <4>1. z \in ToSet(w) /\ z # d[m][p]
        BY <3>3, <3>5, <3>6, <3>7, Choosing
      <4> QED
        BY <3>5, <3>7, <4>1 DEF Follows
    <3>9. CASE \A con \in ToSet(d) : Len(con) <= 1
      <4>1. l = j
        BY <2>2, <3>9
      <4> QED
        BY <1>10, <2>10, <3>1, <3>3, <4>1
    <3>10. CASE \A a, b \in DOMAIN d : d[a] # << >> /\ d[b] # << >> => a = b
      <4>1. d[m] # << >> /\ d[k] # << >>
        BY <2>2, <3>6
      <4>2. m = k
        BY <3>10, <4>1
      <4>3. d[k][p].type = d[k][l].type
        BY <3>2, <3>3, <3>8, <4>2 DEF MatchesCredential
      <4>4. p = l
        BY <1>3, <2>2, <3>7, <4>2, <4>3
      <4> QED
        BY <3>2, <3>8, <4>2, <4>4
    <3> QED
      BY <1>3, <3>9, <3>10 DEF OneWay
  <2>12. ToSet(options[q]) = {c \in ToSet(x) : ~IsChoosable(c)}
    BY <1>6, <1>8, <2>7
  <2>13. options[q] \in ToSet(options)
    BY <1>7, <2>7 DEF ToSet
  <2>14. options[q] \in S
    BY <2>11, <2>12, <2>13 DEF S
  <2>15. x[j] \in ToSet(options[q])
    BY <2>10, <2>12
  <2>16. options[q] \in ToSet(IssueWizardDisCon(D))
    BY <1>9, <2>13, <2>14
  <2> QED
    BY <2>10, <2>15, <2>16 DEF TypesOf, Flattened
<1> QED
  BY <1>2, <1>10 DEF Named, d

\* When all that a wizard asks for of a discon can be chosen, so can one of its options.
LEMMA NamedLeads ==
  ASSUME OneWayRequests, request \in Requests, NEW e, FromWallet(e), NEW i \in DOMAIN request,
         NEW options, Named(e, i, options),
         NEW con \in ToSet(CutDisCon(e.candidates[i], TypesOf(options))), AllChoosable(con)
  PROVE  Ready(e, i)
<1>1. PICK w \in Seq(Credential) : e.candidates = Candidates(w, request)
  BY DEF FromWallet
<1> DEFINE d == request[i]
           D == DisConCandidates(w, d)
           types == TypesOf(options)
<1>2. e.candidates[i] = D
  BY <1>1 DEF Candidates
<1>3. /\ d \in Seq(Seq(Entry)) /\ OneWay(d)
      /\ \A K \in ToSet(d) : \A k, l \in DOMAIN K : K[k].type = K[l].type => k = l
  BY RequestFacts DEF OneWayRequests
<1>4. \A t \in TypesOf(d) : t \in types \/ \E c \in Flattened(D) : IsChoosable(c) /\ c.type = t
  BY <1>2 DEF Named
<1> HIDE DEF d
<1>5. D \in Seq(Seq(Part))
  BY <1>3, DisConElements
<1>6. con \in ToSet(CutDisCon(D, types))
  BY <1>2
<1> HIDE DEF types, D
<1>7. PICK s \in ToSet(D) : con = OfTypes(s, types) /\ (s = << >> \/ \E c \in ToSet(s) : c.type \in types)
  BY <1>5, <1>6, CutOK
<1>8. s \in Seq(Part)
  BY <1>5 DEF ToSet
<1>9. ASSUME NEW c \in ToSet(s), c.type \in types PROVE IsChoosable(c)
  <2>1. ToSet(con) = {b \in ToSet(s) : b.type \in types}
    BY <1>7, <1>8, OfTypesSet
  <2> QED
    BY <1>9, <2>1 DEF AllChoosable
<1>10. CASE AllChoosable(s)
  BY <1>2, <1>10 DEF Ready
<1>11. CASE ~AllChoosable(s)
  <2>1. s # << >>
    BY <1>11 DEF AllChoosable, ToSet
  <2>2. PICK k \in DOMAIN d : Follows(w, d[k], s)
    BY <1>3, DisConOffers DEF D
  <2>3. /\ d[k] \in Seq(Entry) /\ d[k] \in ToSet(d) /\ DOMAIN d[k] = 1 .. Len(d[k])
        /\ Len(d[k]) \in Nat
    BY <1>3 DEF ToSet
  <2>4. Len(s) = Len(d[k]) /\ DOMAIN s = 1 .. Len(d[k])
    BY <2>2 DEF Follows
  <2>5. CASE \A K \in ToSet(d) : Len(K) <= 1
    <3>1. PICK c \in ToSet(s) : c.type \in types
      BY <1>7, <2>1
    <3>2. Len(d[k]) \in {0, 1}
      BY <2>3, <2>5
    <3>3. \A b \in ToSet(s) : b = c
      BY <2>4, <3>1, <3>2 DEF ToSet
    <3>4. IsChoosable(c)
      BY <1>9, <3>1
    <3> QED
      BY <1>11, <3>3, <3>4 DEF AllChoosable
  <2>6. CASE \A a, b \in DOMAIN d : d[a] # << >> /\ d[b] # << >> => a = b
    <3>1. d[k] # << >>
      BY <2>1, <2>2, <2>3, NoEntries
    <3>2. ASSUME NEW j \in 1 .. Len(d[k])
          PROVE  \E c \in ToSet(w) : MatchesCredential(d[k][j], c)
      <4> DEFINE t == d[k][j].type
      <4>1. t \in TypesOf(d)
        BY <2>3 DEF TypesOf, Flattened, ToSet
      <4>2. s[j].type = t
        BY <2>2 DEF Follows, MatchesCredential
      <4>3. CASE t \in types
        <5>1. s[j] \in ToSet(s)
          BY <2>4 DEF ToSet
        <5>2. IsChoosable(s[j])
          BY <1>9, <4>2, <4>3, <5>1
        <5>3. s[j] \in ToSet(w) /\ s[j] # d[k][j]
          BY <2>2, <2>3, <5>2, Choosing
        <5> QED
          BY <2>2, <5>3 DEF Follows
      <4>4. CASE t \notin types
        <5>1. PICK c \in Flattened(D) : IsChoosable(c) /\ c.type = t
          BY <1>4, <4>1, <4>4
        <5>2. PICK x \in ToSet(D) : c \in ToSet(x)
          BY DEF Flattened
        <5>3. PICK m \in DOMAIN d : Follows(w, d[m], x)
          BY <1>3, DisConOffers DEF D
        <5>4. d[m] \in Seq(Entry) /\ x \in Seq(Part) /\ Len(x) = Len(d[m])
          BY <1>3, <5>3 DEF Follows
        <5>5. PICK l \in 1 .. Len(d[m]) : c = x[l]
          BY <5>2, <5>4 DEF ToSet
        <5>6. d[m] # << >>
          BY <5>4, <5>5
        <5>7. m = k
          BY <2>6, <3>1, <5>6
        <5>8. c \in ToSet(w) /\ c # d[m][l]
          BY <5>1, <5>3, <5>4, <5>5, Choosing
        <5>9. MatchesCredential(d[k][l], c)
          BY <5>3, <5>5, <5>7, <5>8 DEF Follows
        <5>10. l = j
          BY <1>3, <2>3, <5>1, <5>5, <5>7, <5>9 DEF MatchesCredential
        <5> QED
          BY <5>8, <5>9, <5>10
      <4> QED
        BY <4>3, <4>4
    <3> DEFINE y == [j \in 1 .. Len(d[k]) |->
                       CHOOSE c \in ToSet(w) : MatchesCredential(d[k][j], c)]
    <3>3. \A j \in 1 .. Len(d[k]) : y[j] \in ToSet(w) /\ MatchesCredential(d[k][j], y[j])
      BY <3>2
    <3>4. ToSet(w) \subseteq Part
      BY DEF ToSet, Part
    <3>5. y \in Seq(Part) /\ Len(y) = Len(d[k])
      <4> HIDE DEF Part
      <4> QED
        BY <2>3, <3>3, <3>4
    <3> HIDE DEF y
    <3>6. Fits(w, d[k], y)
      BY <3>3, <3>5 DEF Fits
    <3>7. y \in ToSet(D) /\ AllChoosable(y)
      BY <1>3, <3>6, DisConOffers DEF D
    <3> QED
      BY <1>2, <3>7 DEF Ready
  <2> QED
    BY <1>3, <2>5, <2>6 DEF OneWay
<1> QED
  BY <1>10, <1>11

-----------------------------------------------------------------------------
(* What the states of the bloc hold of the candidates. *)

\* A part of an option with something in it that can be chosen, and such an option.
PartOf(e, i, c) ==
  \E s \in ToSet(e.candidates[i]) :
    s # << >> /\ AllChoosable(s) /\ ToSet(c) \subseteq ToSet(s)

IsOffered(e, i, c) == c \in ToSet(e.candidates[i]) /\ AllChoosable(c)

\* Choices in the overview are options; among those that were there before, parts.
Choice(e, kind, i, c) == IF kind = "overview" THEN IsOffered(e, i, c) ELSE PartOf(e, i, c)

Opt == {i \in DOMAIN request : IsOptional(request[i])}

ChoicesOK(e, f) ==
  /\ DOMAIN f.optional \subseteq Opt /\ DOMAIN f.required \subseteq DOMAIN request \ Opt
  /\ \A i \in DOMAIN f.required : Choice(e, f.kind, i, f.required[i])
  /\ \A i \in DOMAIN f.optional : Choice(e, f.kind, i, f.optional[i])
  /\ IF f.kind = "overview" THEN DOMAIN request \ Opt \subseteq DOMAIN f.required
     ELSE \A i \in DOMAIN request : Ready(e, i)

\* What a wizard has no discon for, or has obtained, can be chosen.
WizardOK(e, f) ==
  /\ DOMAIN f = {"kind", "options", "order", "selected", "obtained", "planned"}
  /\ DOMAIN f.options \subseteq DOMAIN request /\ DOMAIN f.obtained = DOMAIN f.options
  /\ \A i \in DOMAIN request : (i \in DOMAIN f.options /\ ~f.obtained[i]) \/ Ready(e, i)
  /\ \A i \in DOMAIN f.options : Named(e, i, f.options[i])

\* The options of a discon that has a choice; all of them, below the overview.
MakeOK(e, parent, f) ==
  /\ DOMAIN f = {"kind", "index", "discon", "selected"}
  /\ f.index \in DOMAIN ChoicesOf(parent) /\ f.discon \in Seq(Seq(Part))
  /\ \A s \in ToSet(f.discon) : AllChoosable(s) => Choice(e, parent.kind, f.index, s)
  /\ parent.kind = "overview" => TypesOf(request[f.index]) \subseteq TypesOf(f.discon)

AddOK(e, parent, f) ==
  /\ DOMAIN f.indices = DOMAIN f.discon
  /\ \A k \in DOMAIN f.discon :
       /\ f.indices[k] \in Opt
       /\ AllChoosable(f.discon[k]) => Choice(e, parent.kind, f.indices[k], f.discon[k])

ContentOK(e, parent, f) ==
  /\ f.kind \in ChoiceKinds => ChoicesOK(e, f)
  /\ f.kind = "issueWizard" => WizardOK(e, f)
  /\ f.kind = "changeChoice" => MakeOK(e, parent, f)
  /\ f.kind = "addOptionalData" => AddOK(e, parent, f)

Content(e, fl) ==
  FromWallet(e) /\ \A n \in 1 .. Len(fl) : ContentOK(e, fl[n - 1], fl[n])

\* Candidates that keep what could be chosen keep the choices.
LEMMA ChoiceKeeps ==
  ASSUME NEW e, NEW new, Keeps(e, new), NEW i \in DOMAIN request
  PROVE  /\ Ready(e, i) => Ready(new, i)
         /\ \A c : PartOf(e, i, c) => PartOf(new, i, c)
         /\ \A c : IsOffered(e, i, c) => IsOffered(new, i, c)
         /\ \A kind, c : Choice(e, kind, i, c) => Choice(new, kind, i, c)
         /\ \A options : Named(e, i, options) => Named(new, i, options)
<1>1. /\ \A s \in ToSet(e.candidates[i]) : AllChoosable(s) => s \in ToSet(new.candidates[i])
      /\ \A c \in Flattened(e.candidates[i]) : IsChoosable(c) => c \in Flattened(new.candidates[i])
  BY DEF Keeps
<1>2. /\ Ready(e, i) => Ready(new, i)
      /\ \A c : PartOf(e, i, c) => PartOf(new, i, c)
      /\ \A c : IsOffered(e, i, c) => IsOffered(new, i, c)
  BY <1>1 DEF Ready, PartOf, IsOffered
<1>3. \A options : Named(e, i, options) => Named(new, i, options)
  BY <1>1 DEF Named
<1> QED
  BY <1>2, <1>3 DEF Choice

LEMMA ChoicesDomain ==
  ASSUME NEW f
  PROVE  /\ DOMAIN ChoicesOf(f) = DOMAIN f.required \cup DOMAIN f.optional
         /\ \A i \in DOMAIN ChoicesOf(f) :
              ChoicesOf(f)[i] = IF i \in DOMAIN f.required THEN f.required[i] ELSE f.optional[i]
BY DEF ChoicesOf

LEMMA ContentOKKeeps ==
  ASSUME NEW e, NEW new, Keeps(e, new), NEW parent, NEW f, ContentOK(e, parent, f),
         f.kind = "changeChoice" => ChoicesOK(e, parent)
  PROVE  ContentOK(new, parent, f)
<1>1. \A i \in Opt : i \in DOMAIN request
  BY DEF Opt
<1>2. ASSUME f.kind \in ChoiceKinds PROVE ChoicesOK(new, f)
  <2>1. ChoicesOK(e, f)
    BY <1>2 DEF ContentOK
  <2> QED
    BY <1>1, <2>1, ChoiceKeeps DEF ChoicesOK
<1>3. ASSUME f.kind = "issueWizard" PROVE WizardOK(new, f)
  <2>1. WizardOK(e, f)
    BY <1>3 DEF ContentOK
  <2>2. \A i \in DOMAIN f.options : i \in DOMAIN request
    BY <2>1 DEF WizardOK
  <2> QED
    BY <2>1, <2>2, ChoiceKeeps DEF WizardOK
<1>4. ASSUME f.kind = "changeChoice" PROVE MakeOK(new, parent, f)
  <2>1. MakeOK(e, parent, f) /\ ChoicesOK(e, parent)
    BY <1>4 DEF ContentOK
  <2>2. f.index \in DOMAIN request
    BY <1>1, <2>1, ChoicesDomain DEF MakeOK, ChoicesOK
  <2> QED
    BY <2>1, <2>2, ChoiceKeeps DEF MakeOK
<1>5. ASSUME f.kind = "addOptionalData" PROVE AddOK(new, parent, f)
  <2>1. AddOK(e, parent, f)
    BY <1>5 DEF ContentOK
  <2> QED
    BY <1>1, <2>1, ChoiceKeeps DEF AddOK
<1> QED
  BY <1>2, <1>3, <1>4, <1>5 DEF ContentOK

\* A list of options has the choices below it.
LEMMA ContentBelow ==
  ASSUME NEW e, NEW fl, IsStack(fl), Content(e, fl), NEW n \in 1 .. Len(fl),
         fl[n].kind \in {"changeChoice", "addOptionalData"}
  PROVE  n - 1 \in 1 .. Len(fl) /\ fl[n - 1].kind \in ChoiceKinds /\ ChoicesOK(e, fl[n - 1])
<1>1. Len(fl) \in Nat
  BY StackBounds
<1>2. n # 1
  BY StackRoots DEF Roots
<1>3. n \in 2 .. Len(fl) /\ n - 1 \in 1 .. Len(fl)
  BY <1>1, <1>2
<1>4. fl[n - 1].kind \in ChoiceKinds
  BY <1>3, ParentsOf DEF IsStack
<1> QED
  BY <1>3, <1>4 DEF Content, ContentOK

LEMMA ContentKeeps ==
  ASSUME NEW e, NEW new, FromWallet(new), Keeps(e, new), NEW fl, IsStack(fl), Content(e, fl)
  PROVE  Content(new, fl)
<1>1. ASSUME NEW n \in 1 .. Len(fl) PROVE ContentOK(new, fl[n - 1], fl[n])
  <2>1. ContentOK(e, fl[n - 1], fl[n])
    BY DEF Content
  <2>2. fl[n].kind = "changeChoice" => ChoicesOK(e, fl[n - 1])
    BY ContentBelow
  <2> QED
    BY <2>1, <2>2, ContentOKKeeps
<1> QED
  BY <1>1 DEF Content

\* What was added does not matter to the states.
LEMMA ContentSame ==
  ASSUME NEW e, NEW new, new.wallet = e.wallet, new.candidates = e.candidates,
         NEW fl, IsStack(fl), Content(e, fl)
  PROVE  Content(new, fl)
<1>1. FromWallet(new)
  BY DEF FromWallet, Content
<1> QED
  BY <1>1, SameKeeps, ContentKeeps

LEMMA ContentSingle ==
  ASSUME NEW e, FromWallet(e), NEW f, f.kind \in Roots, \A parent : ContentOK(e, parent, f)
  PROVE  Content(e, <<f>>)
<1>1. Len(<<f>>) = 1 /\ <<f>>[1] = f /\ \A n \in 1 .. Len(<<f>>) : n = 1
  OBVIOUS
<1> QED
  BY <1>1 DEF Content

LEMMA ContentPush ==
  ASSUME NEW e, NEW fl, IsStack(fl), Content(e, fl), NEW f, ContentOK(e, Last(fl), f)
  PROVE  Content(e, Append(fl, f))
<1>1. PICK S : fl \in Seq(S)
  BY DEF IsStack
<1>2. Len(fl) \in Nat /\ Len(fl) >= 1 /\ Last(fl) = fl[Len(fl)]
  BY StackBounds
<1> DEFINE g == Append(fl, f)
<1>3. /\ Len(g) = Len(fl) + 1 /\ g[Len(fl) + 1] = f
      /\ \A n \in 1 .. Len(fl) : g[n] = fl[n]
  BY <1>1
<1> HIDE DEF g
<1>4. ASSUME NEW n \in 1 .. Len(g) PROVE ContentOK(e, g[n - 1], g[n])
  <2>1. CASE n = Len(fl) + 1
    <3>1. n - 1 = Len(fl) /\ Len(fl) \in 1 .. Len(fl)
      BY <1>2, <2>1
    <3> QED
      BY <1>2, <1>3, <2>1, <3>1
  <2>2. CASE n # Len(fl) + 1 /\ n # 1
    <3>1. n \in 1 .. Len(fl) /\ n - 1 \in 1 .. Len(fl)
      BY <1>2, <1>3, <2>2
    <3> QED
      BY <1>3, <3>1 DEF Content
  <2>3. CASE n = 1
    <3>1. 1 \in 1 .. Len(fl)
      BY <1>2
    <3>2. fl[1].kind \in Roots /\ ContentOK(e, fl[0], fl[1]) /\ g[1] = fl[1]
      BY <1>3, <3>1 DEF Content, IsStack
    <3>3. \A parent : ContentOK(e, parent, fl[1])
      BY <3>2 DEF ContentOK, Roots
    <3> QED
      BY <2>3, <3>2, <3>3
  <2> QED
    BY <2>1, <2>2, <2>3
<1> QED
  BY <1>4 DEF Content, g

LEMMA ContentCut ==
  ASSUME NEW e, NEW fl, IsStack(fl), Content(e, fl), NEW k \in 1 .. Len(fl)
  PROVE  Content(e, SubSeq(fl, 1, k))
<1> DEFINE g == SubSeq(fl, 1, k)
<1>1. Len(fl) \in Nat
  BY StackBounds
<1>2. Len(g) = k /\ \A n \in 1 .. k : g[n] = fl[n]
  BY CutStack
<1> HIDE DEF g
<1>3. ASSUME NEW n \in 1 .. Len(g) PROVE ContentOK(e, g[n - 1], g[n])
  <2>1. n \in 1 .. Len(fl) /\ (n = 1 \/ n - 1 \in 1 .. k)
    BY <1>1, <1>2
  <2>2. ContentOK(e, fl[n - 1], fl[n]) /\ g[n] = fl[n]
    BY <1>2, <2>1 DEF Content
  <2>3. CASE n = 1
    <3>1. fl[1].kind \in Roots
      BY DEF IsStack
    <3>2. \A parent : ContentOK(e, parent, fl[1])
      BY <2>2, <2>3, <3>1 DEF ContentOK, Roots
    <3> QED
      BY <2>2, <2>3, <3>2
  <2>4. CASE n # 1
    BY <1>2, <2>1, <2>2, <2>4
  <2> QED
    BY <2>3, <2>4
<1> QED
  BY <1>3 DEF Content, g

LEMMA ContentFront ==
  ASSUME NEW e, NEW fl, IsStack(fl), Content(e, fl), Last(fl).kind \notin Roots
  PROVE  Content(e, Front(fl))
<1>1. Len(fl) >= 2 /\ Len(fl) \in Nat
  BY FrontStack, StackBounds
<1>2. PICK m : m = Len(fl) - 1 /\ m \in 1 .. Len(fl)
  <2>1. \A N \in Nat : N >= 2 => N - 1 \in 1 .. N
    OBVIOUS
  <2> QED
    BY <1>1, <2>1
<1>3. Front(fl) = SubSeq(fl, 1, m)
  BY <1>2 DEF Front
<1> QED
  BY <1>2, <1>3, ContentCut

\* The last state is replaced by one that suits its parent.
LEMMA ContentReplace ==
  ASSUME NEW e, NEW fl, IsStack(fl), Content(e, fl), NEW f, FrameOK(f),
         f.kind = Last(fl).kind \/ {f.kind, Last(fl).kind} \subseteq Roots,
         ContentOK(e, fl[Len(fl) - 1], f)
  PROVE  Content(e, Append(Front(fl), f))
<1>1. CASE Last(fl).kind \notin Roots
  <2>1. /\ Content(e, Front(fl)) /\ IsStack(Front(fl)) /\ Last(Front(fl)) = fl[Len(fl) - 1]
    BY <1>1, ContentFront, FrontStack
  <2> QED
    BY <2>1, ContentPush
<1>2. CASE Last(fl).kind \in Roots
  <2>1. Len(fl) \in Nat /\ Len(fl) >= 1 /\ Last(fl) = fl[Len(fl)] /\ Len(fl) \in 1 .. Len(fl)
    BY StackBounds
  <2>2. Len(fl) = 1
    BY <1>2, <2>1, StackRoots
  <2>3. PICK S : fl \in Seq(S)
    BY DEF IsStack
  <2>4. Front(fl) = << >>
    BY <2>2, <2>3 DEF Front
  <2>5. Append(Front(fl), f) = <<f>> /\ f.kind \in Roots
    BY <1>2, <2>4
  <2>6. \A parent : ContentOK(e, parent, f)
    BY <2>5 DEF ContentOK, Roots
  <2> QED
    BY <2>5, <2>6, ContentSingle DEF Content
<1> QED
  BY <1>1, <1>2

\* A report is put on top, and what was added changes.
LEMMA ContentValidate ==
  ASSUME NEW e, KnownOK(e), NEW fl, IsStack(fl), Content(e, fl), NEW templates,
         Last(fl).kind \in WalkKinds \cup {"wrong", "obtainCredentials"}
  PROVE  LET r == ValidateCredentialsObtained(templates, e, fl)
         IN  /\ Content(r.env, r.flow)
             /\ r.env.candidates = e.candidates /\ r.env.wallet = e.wallet
<1> DEFINE r == ValidateCredentialsObtained(templates, e, fl)
<1>1. \/ r = Outcome(e, fl)
      \/ \E mismatched, wrong, S :
           r = Outcome([e EXCEPT !.newly = Without(@, S)],
                       Append(fl, WrongCredentials(mismatched, wrong)))
  BY DEF ValidateCredentialsObtained
<1>2. ASSUME r = Outcome(e, fl)
      PROVE  /\ Content(r.env, r.flow)
             /\ r.env.candidates = e.candidates /\ r.env.wallet = e.wallet
  BY <1>2 DEF Outcome
<1>3. ASSUME NEW mismatched, NEW wrong, NEW S,
             r = Outcome([e EXCEPT !.newly = Without(@, S)],
                         Append(fl, WrongCredentials(mismatched, wrong)))
      PROVE  /\ Content(r.env, r.flow)
             /\ r.env.candidates = e.candidates /\ r.env.wallet = e.wallet
  <2> DEFINE known == [e EXCEPT !.newly = Without(@, S)]
             f == WrongCredentials(mismatched, wrong)
  <2>1. FrameOK(f) /\ f.kind = "wrong"
    BY DEF FrameOK, WrongCredentials, ChoiceKinds
  <2>2. known.wallet = e.wallet /\ known.candidates = e.candidates
    BY DEF KnownOK
  <2>3. r.env = known /\ r.flow = Append(fl, f)
    BY <1>3 DEF Outcome
  <2> HIDE DEF known, f, r
  <2>4. Content(known, fl)
    BY <2>2, ContentSame
  <2>5. ContentOK(known, Last(fl), f)
    BY <2>1 DEF ContentOK, ChoiceKinds
  <2>6. Content(known, Append(fl, f))
    BY <2>4, <2>5, ContentPush
  <2> QED
    BY <2>2, <2>3, <2>6
<1> HIDE DEF r
<1>4. /\ Content(r.env, r.flow)
      /\ r.env.candidates = e.candidates /\ r.env.wallet = e.wallet
  BY <1>1, <1>2, <1>3
<1> QED
  BY <1>4 DEF r

-----------------------------------------------------------------------------
(* The choices the bloc makes itself. *)

LEMMA FindOption ==
  ASSUME request \in Requests, NEW e, FromWallet(e), NEW i \in DOMAIN request, NEW env1,
         NEW prevDiscon, NEW prevChoice, NEW keep
  PROVE  e.candidates[i][FindSelectedConIndex(env1, e.candidates[i], prevDiscon, prevChoice, keep)]
           \in ToSet(e.candidates[i])
<1> DEFINE D == e.candidates[i]
           k == FindSelectedConIndex(env1, D, prevDiscon, prevChoice, keep)
<1>1. D \in Seq(Seq(Part)) /\ D # << >>
  BY CandidatesOK
<1> HIDE DEF D
<1>2. k \in 1 .. Len(D)
  <2>1. D \in Seq(Seq(Part)) /\ D # << >>
    BY <1>1
  <2> QED
    BY <2>1, FindShape
<1> HIDE DEF k
<1>3. D[k] \in ToSet(D)
  BY <1>1, <1>2 DEF ToSet
<1> QED
  BY <1>3 DEF D, k

LEMMA BestOption ==
  ASSUME request \in Requests, NEW e, FromWallet(e), NEW i \in DOMAIN request, Ready(e, i),
         NEW env1
  PROVE  AllChoosable(
           e.candidates[i][FindSelectedConIndex(env1, e.candidates[i], None, None, FALSE)])
<1> DEFINE D == e.candidates[i]
           k == FindSelectedConIndex(env1, D, None, None, FALSE)
<1>1. D \in Seq(Seq(Part)) /\ D # << >> /\ \E x \in ToSet(D) : AllChoosable(x)
  BY CandidatesOK DEF Ready
<1> HIDE DEF D
<1>2. k = BestFit(D)
  <2>1. D \in Seq(Seq(Part)) /\ D # << >>
    BY <1>1
  <2> QED
    BY <2>1, FindShape
<1> HIDE DEF k
<1>3. AllChoosable(D[k])
  BY <1>1, <1>2, BestFitOK
<1> QED
  BY <1>3 DEF D, k

LEMMA ChosenOption ==
  ASSUME OneWayRequests, request \in Requests, NEW e, FromWallet(e), NEW i \in DOMAIN request,
         NEW choice, PartOf(e, i, choice), NEW env1
  PROVE  AllChoosable(
           e.candidates[i][FindSelectedConIndex(env1, e.candidates[i], None, choice, FALSE)])
<1>1. PICK w \in Seq(Credential) : e.candidates = Candidates(w, request)
  BY DEF FromWallet
<1> DEFINE d == request[i]
           D == DisConCandidates(w, d)
           k == FindSelectedConIndex(env1, D, None, choice, FALSE)
<1>2. e.candidates[i] = D
  BY <1>1 DEF Candidates
<1>3. d \in Seq(Seq(Entry)) /\ OneWay(d)
  BY RequestFacts DEF OneWayRequests
<1>4. PICK s \in ToSet(D) : s # << >> /\ AllChoosable(s) /\ ToSet(choice) \subseteq ToSet(s)
  BY <1>2 DEF PartOf
<1> HIDE DEF d
<1>5. AllChoosable(D[k])
  BY <1>3, <1>4, FindChosen
<1> QED
  BY <1>2, <1>5

LEMMA ChoicesFrameContent ==
  ASSUME request \in Requests, NEW e, FromWallet(e), NEW kind \in ChoiceKinds, NEW choices,
         DOMAIN choices \subseteq DOMAIN request,
         \A i \in DOMAIN choices : Choice(e, kind, i, choices[i]),
         IF kind = "overview" THEN DOMAIN choices = DOMAIN request
         ELSE \A i \in DOMAIN request : Ready(e, i),
         NEW changeable, NEW more, NEW planned
  PROVE  ChoicesOK(e, ChoicesFrame(kind, e.candidates, choices, changeable, more, planned))
<1> DEFINE f == ChoicesFrame(kind, e.candidates, choices, changeable, more, planned)
           R == {i \in DOMAIN choices : ~IsOptional(e.candidates[i])}
           O == {i \in DOMAIN choices : IsOptional(e.candidates[i]) /\ choices[i] # << >>}
<1>1. f.kind = kind /\ f.required = Restrict(choices, R) /\ f.optional = Restrict(choices, O)
  BY DEF ChoicesFrame
<1>2. /\ DOMAIN f.required = R /\ \A i \in R : f.required[i] = choices[i]
      /\ DOMAIN f.optional = O /\ \A i \in O : f.optional[i] = choices[i]
  BY <1>1 DEF Restrict
<1> HIDE DEF f
<1>3. \A i \in DOMAIN request : IsOptional(e.candidates[i]) <=> i \in Opt
  BY CandidatesOK DEF Opt
<1>4. R \subseteq DOMAIN request \ Opt /\ O \subseteq Opt
  BY <1>3
<1>5. kind = "overview" => DOMAIN request \ Opt \subseteq R
  BY <1>3
<1>6. /\ \A i \in R : Choice(e, kind, i, f.required[i])
      /\ \A i \in O : Choice(e, kind, i, f.optional[i])
  BY <1>2
<1> HIDE DEF R, O
<1> QED
  BY <1>1, <1>2, <1>4, <1>5, <1>6 DEF ChoicesOK, f

\* An overview of options that can be chosen.
LEMMA OverviewContent ==
  ASSUME request \in Requests, NEW e, FromWallet(e), NEW choices, DOMAIN choices = DOMAIN request,
         \A i \in DOMAIN request : IsOffered(e, i, choices[i]), NEW planned
  PROVE  /\ ChoicesOK(e, Overview(e.candidates, choices, planned))
         /\ \A parent : ContentOK(e, parent, Overview(e.candidates, choices, planned))
<1>1. "overview" \in ChoiceKinds /\ \A i \in DOMAIN choices : Choice(e, "overview", i, choices[i])
  BY DEF ChoiceKinds, Choice
<1>2. ChoicesOK(e, Overview(e.candidates, choices, planned))
  BY <1>1, ChoicesFrameContent DEF Overview
<1> QED
  BY <1>2, OverviewOK DEF ContentOK

LEMMA StartContent ==
  ASSUME OneWayRequests, request \in Requests, NEW e, KnownOK(e), FromWallet(e)
  PROVE  Content(e, <<Start(e)>>)
<1> DEFINE D == e.candidates
           Preferred(i) == D[i][FindSelectedConIndex(e, D[i], None, None, FALSE)]
           choices == [i \in DOMAIN D |-> Preferred(i)]
           missing == {i \in DOMAIN D : ~AllChoosable(choices[i])}
           options == [i \in missing |-> IssueWizardDisCon(D[i])]
           obtained == [i \in missing |-> FALSE]
<1>1. Parsed(e) = D /\ DOMAIN D = DOMAIN request
  BY ParsedOK, CandidatesOK
<1>2. Start(e).kind \in Roots
  <2>1. IsStack(<<Start(e)>>) /\ <<Start(e)>>[1] = Start(e)
    BY StartOK
  <2> HIDE DEF Start
  <2> QED
    BY <2>1 DEF IsStack
<1>3. DOMAIN choices = DOMAIN request /\ \A i \in DOMAIN request : choices[i] \in ToSet(D[i])
  <2>1. DOMAIN choices = DOMAIN request /\ \A i \in DOMAIN request : choices[i] = Preferred(i)
    BY <1>1
  <2>2. \A i \in DOMAIN request : Preferred(i) \in ToSet(D[i])
    BY FindOption
  <2> HIDE DEF choices, Preferred
  <2> QED
    BY <2>1, <2>2
<1>4. CASE missing = {}
  <2>1. Start(e) = Overview(D, choices, {"choicesOverview"})
    BY <1>1, <1>4 DEF Start
  <2> HIDE DEF choices
  <2>2. \A i \in DOMAIN request : IsOffered(e, i, choices[i])
    BY <1>1, <1>3, <1>4 DEF IsOffered
  <2>3. \A parent : ContentOK(e, parent, Overview(D, choices, {"choicesOverview"}))
    BY <1>3, <2>2, OverviewContent
  <2> QED
    BY <1>2, <2>1, <2>3, ContentSingle
<1>5. CASE missing # {}
  <2>1. \E order, selected, planned :
          Start(e) = [kind |-> "issueWizard", options |-> options, order |-> order,
                      selected |-> selected, obtained |-> obtained, planned |-> planned]
    BY <1>1, <1>5 DEF Start
  <2> HIDE DEF Start, choices, missing, options, obtained, D
  <2>2. PICK f : /\ Start(e) = f
                 /\ f.kind = "issueWizard" /\ f.options = options /\ f.obtained = obtained
                 /\ DOMAIN f = {"kind", "options", "order", "selected", "obtained", "planned"}
    <3>1. PICK order, selected, planned :
            Start(e) = [kind |-> "issueWizard", options |-> options, order |-> order,
                        selected |-> selected, obtained |-> obtained, planned |-> planned]
      BY <2>1
    <3> DEFINE f == [kind |-> "issueWizard", options |-> options, order |-> order,
                     selected |-> selected, obtained |-> obtained, planned |-> planned]
    <3>2. /\ f.kind = "issueWizard" /\ f.options = options /\ f.obtained = obtained
          /\ DOMAIN f = {"kind", "options", "order", "selected", "obtained", "planned"}
      OBVIOUS
    <3> QED
      BY <3>1, <3>2
  <2> USE DEF missing, options, obtained, D
  <2>3. missing \subseteq DOMAIN request /\ DOMAIN options = missing /\ DOMAIN obtained = missing
    BY <1>1
  <2>4. ASSUME NEW i \in DOMAIN request, i \notin missing PROVE Ready(e, i)
    <3>1. AllChoosable(choices[i])
      BY <1>1, <2>4
    <3> QED
      BY <1>3, <3>1 DEF Ready
  <2>5. \A i \in missing : ~obtained[i] /\ options[i] = IssueWizardDisCon(D[i])
    OBVIOUS
  <2>6. \A i \in missing : Named(e, i, IssueWizardDisCon(D[i]))
    BY <2>3, WizardNames
  <2> HIDE DEF missing, options, obtained, D
  <2>7. WizardOK(e, f)
    BY <2>2, <2>3, <2>4, <2>5, <2>6 DEF WizardOK
  <2>8. \A parent : ContentOK(e, parent, f)
    BY <2>2, <2>7 DEF ContentOK, ChoiceKinds
  <2> QED
    BY <1>2, <2>2, <2>8, ContentSingle
<1> QED
  BY <1>4, <1>5

-----------------------------------------------------------------------------
(* The states after a change of the session. *)

\* What a change makes of the states suits the candidates it came with.
MappedContent(r, e) ==
  Content(r.env, r.flow) /\ r.env.candidates = e.candidates /\ r.env.wallet = e.wallet

LEMMA RefreshedContent ==
  ASSUME NEW e, KnownOK(e), NEW fl, IsStack(fl), Content(e, fl), NEW g, FrameOK(g),
         g.kind = Last(fl).kind, ContentOK(e, fl[Len(fl) - 1], g), NEW r,
         \/ r = Outcome(e, Append(Front(fl), g))
         \/ /\ g.kind \in WalkKinds
            /\ \E templates : r = ValidateCredentialsObtained(templates, e, Append(Front(fl), g))
  PROVE  MappedContent(r, e)
<1> DEFINE next == Append(Front(fl), g)
<1>1. IsStack(next) /\ Last(next) = g /\ Content(e, next)
  BY ReplaceStack, ContentReplace
<1> HIDE DEF next
<1>2. CASE r = Outcome(e, next)
  BY <1>1, <1>2 DEF MappedContent, Outcome
<1>3. ASSUME NEW templates, g.kind \in WalkKinds,
             r = ValidateCredentialsObtained(templates, e, next)
      PROVE  MappedContent(r, e)
  BY <1>1, <1>3, ContentValidate DEF MappedContent
<1> QED
  BY <1>2, <1>3 DEF next

LEMMA RefreshDisConIs ==
  ASSUME request \in Requests, NEW e, KnownOK(e), FromWallet(e), NEW i \in DOMAIN request,
         NEW prevDiscon
  PROVE  RefreshDisCon(e, i, prevDiscon) = CutDisCon(e.candidates[i], TypesOf(prevDiscon))
<1>1. Parsed(e)[i] = ParseCandidatesDisCon(e, e.candidates[i])
  BY CandidatesOK DEF Parsed
<1>2. Parsed(e)[i] = e.candidates[i]
  BY ParsedOK
<1> QED
  BY <1>1, <1>2 DEF RefreshDisCon

LEMMA RefreshWizardContent ==
  ASSUME OneWayRequests, request \in Requests, NEW e, KnownOK(e), NEW fl, IsStack(fl),
         Content(e, fl), Last(fl).kind = "issueWizard"
  PROVE  MappedContent(RefreshIssueWizard(e, fl), e)
<1> DEFINE f == Last(fl)
<1>1. PICK selected, planned :
        LET g == [f EXCEPT !.obtained = WizardObtained(e, f), !.selected = selected,
                           !.planned = planned]
        IN  \/ RefreshIssueWizard(e, fl) = Outcome(e, Append(Front(fl), g))
            \/ \E templates : RefreshIssueWizard(e, fl) =
                 ValidateCredentialsObtained(templates, e, Append(Front(fl), g))
  BY DEF RefreshIssueWizard
<1> DEFINE obtained == WizardObtained(e, f)
           g == [f EXCEPT !.obtained = obtained, !.selected = selected, !.planned = planned]
<1>2. WizardOK(e, f) /\ FromWallet(e)
  <2>1. Len(fl) \in 1 .. Len(fl) /\ Last(fl) = fl[Len(fl)]
    BY StackBounds
  <2> QED
    BY <2>1 DEF Content, ContentOK
<1> HIDE DEF f
<1>3. /\ DOMAIN g = DOMAIN f /\ g.kind = f.kind /\ g.options = f.options
      /\ g.obtained = obtained
  BY <1>2 DEF WizardOK
<1>4. /\ DOMAIN obtained = DOMAIN f.options
      /\ \A i \in DOMAIN f.options :
           obtained[i] = (f.obtained[i] \/ \E con \in ToSet(RefreshDisCon(e, i, f.options[i])) :
                                             AllChoosable(con))
  BY DEF WizardObtained
<1> HIDE DEF g, obtained
<1>5. ASSUME NEW i \in DOMAIN request, i \in DOMAIN f.options, obtained[i] PROVE Ready(e, i)
  <2>1. CASE f.obtained[i]
    BY <1>2, <1>5, <2>1 DEF WizardOK
  <2>2. CASE ~f.obtained[i]
    <3>1. PICK con \in ToSet(RefreshDisCon(e, i, f.options[i])) : AllChoosable(con)
      BY <1>4, <1>5, <2>2
    <3>2. con \in ToSet(CutDisCon(e.candidates[i], TypesOf(f.options[i])))
      BY <1>2, <3>1, RefreshDisConIs
    <3>3. Named(e, i, f.options[i])
      BY <1>2, <1>5 DEF WizardOK
    <3> QED
      BY <1>2, <3>1, <3>2, <3>3, NamedLeads
  <2> QED
    BY <2>1, <2>2
<1>6. WizardOK(e, g)
  BY <1>2, <1>3, <1>4, <1>5 DEF WizardOK
<1>7. /\ FrameOK(g) /\ g.kind = Last(fl).kind /\ ContentOK(e, fl[Len(fl) - 1], g)
      /\ g.kind \in WalkKinds
  <2>1. g.kind = "issueWizard"
    BY <1>3 DEF f
  <2>2. "kind" \in DOMAIN g
    BY <1>6 DEF WizardOK
  <2> QED
    BY <1>6, <2>1, <2>2 DEF FrameOK, ContentOK, ChoiceKinds, WalkKinds
<1>8. \/ RefreshIssueWizard(e, fl) = Outcome(e, Append(Front(fl), g))
      \/ \E templates : RefreshIssueWizard(e, fl) =
           ValidateCredentialsObtained(templates, e, Append(Front(fl), g))
  BY <1>1 DEF g, obtained, f
<1> QED
  BY <1>7, <1>8, RefreshedContent

\* Options cut to some of their types are parts of the options that can be chosen.
LEMMA CutPart ==
  ASSUME OneWayRequests, request \in Requests, NEW e, FromWallet(e), NEW i \in DOMAIN request,
         NEW choice, PartOf(e, i, choice), NEW types,
         NEW s \in ToSet(CutDisCon(e.candidates[i], types)), AllChoosable(s)
  PROVE  PartOf(e, i, s)
<1> DEFINE D == e.candidates[i]
<1>1. D \in Seq(Seq(Part))
  BY CandidatesOK
<1>2. PICK t \in ToSet(D) : t # << >> /\ AllChoosable(t)
  BY DEF PartOf
<1>3. s \in ToSet(CutDisCon(D, types))
  OBVIOUS
<1>4. PICK con \in ToSet(D) : s = OfTypes(con, types)
  <2> HIDE DEF D
  <2> QED
    BY <1>1, <1>3, CutOK
<1>5. PICK y \in ToSet(D) : /\ y # << >> /\ AllChoosable(y)
                            /\ \A c \in ToSet(con) : IsChoosable(c) => c \in ToSet(y)
  BY <1>2, <1>4, Covered
<1>6. ToSet(s) \subseteq ToSet(con)
  <2>1. con \in Seq(Part)
    BY <1>1 DEF ToSet
  <2>2. ToSet(OfTypes(con, types)) = {c \in ToSet(con) : c.type \in types}
    BY <2>1, OfTypesSet
  <2> QED
    BY <1>4, <2>2
<1>7. ToSet(s) \subseteq ToSet(y)
  BY <1>5, <1>6 DEF AllChoosable
<1> QED
  BY <1>5, <1>7 DEF PartOf

LEMMA ShownContent ==
  ASSUME OneWayRequests, request \in Requests, NEW e, FromWallet(e), NEW i \in DOMAIN request,
         NEW kind, NEW choice, Choice(e, kind, i, choice),
         NEW types, kind = "overview" => TypesOf(request[i]) \subseteq types
  PROVE  /\ CutDisCon(e.candidates[i], types) \in Seq(Seq(Part))
         /\ \A s \in ToSet(CutDisCon(e.candidates[i], types)) :
              AllChoosable(s) => Choice(e, kind, i, s)
         /\ kind = "overview" =>
              TypesOf(request[i]) \subseteq TypesOf(CutDisCon(e.candidates[i], types))
<1> DEFINE D == e.candidates[i]
<1>1. D \in Seq(Seq(Part)) /\ TypesOf(D) = TypesOf(request[i])
  BY CandidatesOK
<1>0. CutDisCon(D, types) \in Seq(Seq(Part))
  <2> HIDE DEF D
  <2> QED
    BY <1>1, CutOK
<1>2. CASE kind = "overview"
  <2>1. CutDisCon(D, types) = D
    <3> HIDE DEF D
    <3> QED
      BY <1>1, <1>2, CutAll
  <2>2. \A s \in ToSet(D) : AllChoosable(s) => Choice(e, kind, i, s)
    BY <1>2 DEF Choice, IsOffered
  <2> QED
    BY <1>0, <1>1, <1>2, <2>1, <2>2
<1>3. CASE kind # "overview"
  <2>1. PartOf(e, i, choice)
    BY <1>3 DEF Choice
  <2>2. \A s \in ToSet(CutDisCon(D, types)) : AllChoosable(s) => PartOf(e, i, s)
    BY <2>1, CutPart
  <2>3. \A s \in ToSet(CutDisCon(D, types)) : AllChoosable(s) => Choice(e, kind, i, s)
    BY <1>3, <2>2 DEF Choice
  <2> QED
    BY <1>0, <1>3, <2>3
<1> QED
  BY <1>2, <1>3

\* A choice among the choices suits the candidates.
LEMMA ChosenOK ==
  ASSUME NEW e, NEW f, ChoicesOK(e, f), NEW i \in DOMAIN ChoicesOf(f)
  PROVE  i \in DOMAIN request /\ Choice(e, f.kind, i, ChoicesOf(f)[i])
<1>1. i \in DOMAIN request
  BY ChoicesDomain DEF ChoicesOK, Opt
<1>2. Choice(e, f.kind, i, ChoicesOf(f)[i])
  BY ChoicesDomain DEF ChoicesOK
<1> QED
  BY <1>1, <1>2

LEMMA RefreshChangeContent ==
  ASSUME OneWayRequests, request \in Requests, NEW e, KnownOK(e), NEW fl, IsStack(fl),
         Content(e, fl), Last(fl).kind = "changeChoice"
  PROVE  MappedContent(RefreshChangeChoice(e, fl), e)
<1> DEFINE f == Last(fl)
           discon == RefreshDisCon(e, f.index, f.discon)
           parent == fl[Len(fl) - 1]
<1>1. PICK selected, templates :
        LET g == [f EXCEPT !.discon = discon, !.selected = selected]
        IN  RefreshChangeChoice(e, fl) =
              ValidateCredentialsObtained(templates, e, Append(Front(fl), g))
  BY DEF RefreshChangeChoice
<1> DEFINE g == [f EXCEPT !.discon = discon, !.selected = selected]
<1>2. /\ MakeOK(e, parent, f) /\ FromWallet(e) /\ ChoicesOK(e, parent)
  <2>1. Len(fl) \in 1 .. Len(fl) /\ Last(fl) = fl[Len(fl)]
    BY StackBounds
  <2> QED
    BY <2>1, ContentBelow DEF Content, ContentOK
<1> HIDE DEF f, parent, discon
<1>3. DOMAIN g = DOMAIN f /\ g.kind = f.kind /\ g.index = f.index /\ g.discon = discon
  BY <1>2 DEF MakeOK
<1> HIDE DEF g
<1>4. /\ f.index \in DOMAIN request /\ f.index \in DOMAIN ChoicesOf(parent)
      /\ Choice(e, parent.kind, f.index, ChoicesOf(parent)[f.index])
  BY <1>2, ChosenOK DEF MakeOK
<1>5. discon = CutDisCon(e.candidates[f.index], TypesOf(f.discon))
  BY <1>2, <1>4, RefreshDisConIs DEF discon
<1>6. parent.kind = "overview" => TypesOf(request[f.index]) \subseteq TypesOf(f.discon)
  BY <1>2 DEF MakeOK
<1>7. /\ discon \in Seq(Seq(Part))
      /\ \A s \in ToSet(discon) : AllChoosable(s) => Choice(e, parent.kind, f.index, s)
      /\ parent.kind = "overview" => TypesOf(request[f.index]) \subseteq TypesOf(discon)
  BY <1>2, <1>4, <1>5, <1>6, ShownContent
<1>8. MakeOK(e, parent, g)
  BY <1>2, <1>3, <1>4, <1>7 DEF MakeOK
<1>9. /\ FrameOK(g) /\ g.kind = Last(fl).kind /\ ContentOK(e, fl[Len(fl) - 1], g)
      /\ g.kind \in WalkKinds
  <2>1. g.kind = "changeChoice"
    BY <1>3 DEF f
  <2>2. "kind" \in DOMAIN g
    BY <1>8 DEF MakeOK
  <2> QED
    BY <1>8, <2>1, <2>2 DEF FrameOK, ContentOK, ChoiceKinds, WalkKinds, parent
<1>10. RefreshChangeChoice(e, fl) = ValidateCredentialsObtained(templates, e, Append(Front(fl), g))
  BY <1>1 DEF g, discon, f
<1> QED
  BY <1>9, <1>10, RefreshedContent

\* What can be added is each option of each optional discon without a choice.
Addition == [con : Seq(Part), index : DOMAIN request]

IsAddition(e, parent, x) ==
  \E i \in Opt \ DOMAIN parent.optional :
    \E con \in ToSet(e.candidates[i]) \ {<< >>} : x = [con |-> con, index |-> i]

LEMMA AddableElements ==
  ASSUME request \in Requests, NEW e, KnownOK(e), FromWallet(e), NEW parent
  PROVE  /\ Addable(e, parent) \in Seq(Addition)
         /\ \A x : x \in ToSet(Addable(e, parent)) <=> IsAddition(e, parent, x)
<1> DEFINE D == e.candidates
           Free(i) == IsOptional(D[i]) /\ i \notin DOMAIN parent.optional
           Options(i) == IF Free(i) THEN Without(D[i], {<< >>}) ELSE << >>
           Block(i) == [j \in DOMAIN Options(i) |-> [con |-> Options(i)[j], index |-> i]]
           blocks == [i \in DOMAIN D |-> Block(i)]
           S == [con : Seq(Part), index : DOMAIN request]
           F == FlattenSeq(blocks)
<1>1. Parsed(e) = D /\ DOMAIN D = DOMAIN request
  BY ParsedOK, CandidatesOK
<1>2. Addable(e, parent) = F
  BY <1>1 DEF Addable
<1>3. DOMAIN request = 1 .. Len(request) /\ Len(request) \in Nat
  BY RequestFacts
<1>4. ASSUME NEW i \in DOMAIN request
      PROVE  /\ Options(i) \in Seq(Seq(Part))
             /\ ToSet(Options(i)) = IF Free(i) THEN ToSet(D[i]) \ {<< >>} ELSE {}
  <2>1. D[i] \in Seq(Seq(Part))
    BY CandidatesOK
  <2>2. CASE Free(i)
    <3> DEFINE s == D[i]
    <3>1. Options(i) = Without(s, {<< >>})
      BY <2>2
    <3>2. s \in Seq(Seq(Part))
      BY <2>1
    <3> HIDE DEF s
    <3>3. Without(s, {<< >>}) \in Seq(Seq(Part)) /\ ToSet(Without(s, {<< >>})) = ToSet(s) \ {<< >>}
      BY <3>2, WithoutSet, WithoutPlaces
    <3> HIDE DEF Options, Free
    <3> QED
      BY <2>2, <3>1, <3>3 DEF s
  <2>3. CASE ~Free(i)
    <3>1. Options(i) = << >>
      BY <2>3
    <3>2. << >> \in Seq(Seq(Part)) /\ ToSet(<< >>) = {}
      BY DEF ToSet
    <3> HIDE DEF Options, Free
    <3> QED
      BY <2>3, <3>1, <3>2
  <2> QED
    BY <2>2, <2>3
<1> HIDE DEF Options
<1>5. ASSUME NEW i \in DOMAIN request
      PROVE  /\ Block(i) \in Seq(S)
             /\ \A x : x \in ToSet(Block(i)) <=>
                  \E con \in ToSet(Options(i)) : x = [con |-> con, index |-> i]
  <2>1. DOMAIN Options(i) = 1 .. Len(Options(i)) /\ Len(Options(i)) \in Nat
    BY <1>4
  <2>2. \A j \in DOMAIN Options(i) : Options(i)[j] \in Seq(Part)
    BY <1>4
  <2>3. \A j \in DOMAIN Options(i) : Block(i)[j] = [con |-> Options(i)[j], index |-> i]
    OBVIOUS
  <2>4. \A j \in DOMAIN Options(i) : Block(i)[j] \in S
    BY <2>2, <2>3
  <2>5. Block(i) \in Seq(S) /\ DOMAIN Block(i) = DOMAIN Options(i)
    BY <2>1, <2>4
  <2> HIDE DEF Block
  <2> QED
    BY <2>3, <2>5 DEF ToSet
<1> HIDE DEF Block, S
<1>6. blocks \in Seq(Seq(S)) /\ DOMAIN blocks = DOMAIN request
  BY <1>1, <1>3, <1>5
<1>7. \A i \in DOMAIN request : blocks[i] = Block(i)
  BY <1>1
<1> HIDE DEF blocks
<1>8. F \in Seq(S) /\ \A x : x \in ToSet(F) <=> \E i \in DOMAIN request : x \in ToSet(blocks[i])
  BY <1>6, FlattenBlocks, FlattenElements
<1> HIDE DEF F
<1>9. \A i \in DOMAIN request : Free(i) <=> i \in Opt \ DOMAIN parent.optional
  BY CandidatesOK DEF Opt
<1> HIDE DEF Free
<1>10. ASSUME NEW x
       PROVE  x \in ToSet(F) <=> IsAddition(e, parent, x)
  <2>1. ASSUME x \in ToSet(F)
        PROVE  \E i \in Opt \ DOMAIN parent.optional :
                 \E con \in ToSet(D[i]) \ {<< >>} : x = [con |-> con, index |-> i]
    <3>1. PICK i \in DOMAIN request : x \in ToSet(Block(i))
      BY <1>7, <1>8, <2>1
    <3>2. PICK con \in ToSet(Options(i)) : x = [con |-> con, index |-> i]
      BY <1>5, <3>1
    <3>3. Free(i) /\ con \in ToSet(D[i]) \ {<< >>}
      BY <1>4, <3>2
    <3> QED
      BY <1>9, <3>2, <3>3
  <2>2. ASSUME NEW i \in Opt \ DOMAIN parent.optional, NEW con \in ToSet(D[i]) \ {<< >>},
               x = [con |-> con, index |-> i]
        PROVE  x \in ToSet(F)
    <3>1. i \in DOMAIN request
      BY DEF Opt
    <3>2. con \in ToSet(Options(i))
      BY <1>4, <1>9, <3>1
    <3>3. x \in ToSet(Block(i))
      BY <1>5, <2>2, <3>1, <3>2
    <3> QED
      BY <1>7, <1>8, <3>1, <3>3
  <2> QED
    BY <2>1, <2>2 DEF IsAddition
<1> QED
  BY <1>2, <1>8, <1>10 DEF S, Addition

LEMMA AddableContent ==
  ASSUME request \in Requests, NEW e, KnownOK(e), FromWallet(e), NEW parent,
         NEW k \in DOMAIN Addable(e, parent)
  PROVE  LET added == Addable(e, parent)[k]
         IN  /\ added.index \in Opt /\ added.index \notin DOMAIN parent.optional
             /\ added.con \in ToSet(e.candidates[added.index]) /\ added.con # << >>
<1> DEFINE x == Addable(e, parent)[k]
<1>1. x \in ToSet(Addable(e, parent))
  BY DEF ToSet
<1>2. PICK i \in Opt \ DOMAIN parent.optional :
        \E con \in ToSet(e.candidates[i]) \ {<< >>} : x = [con |-> con, index |-> i]
  BY <1>1, AddableElements DEF IsAddition
<1> HIDE DEF x
<1> QED
  BY <1>2 DEF x

LEMMA AddContent ==
  ASSUME request \in Requests, NEW e, KnownOK(e), FromWallet(e), NEW parent,
         NEW prevDiscon, NEW prevChoice
  PROVE  LET f == AddOptionalData(e, parent, prevDiscon, prevChoice)
         IN  f.kind = "addOptionalData" /\ FrameOK(f) /\ ContentOK(e, parent, f)
<1> DEFINE f == AddOptionalData(e, parent, prevDiscon, prevChoice)
           A == Addable(e, parent)
<1>1. /\ f.kind = "addOptionalData" /\ "kind" \in DOMAIN f
      /\ f.discon = [k \in DOMAIN A |-> A[k].con] /\ f.indices = [k \in DOMAIN A |-> A[k].index]
  BY DEF AddOptionalData
<1> HIDE DEF f
<1>2. FrameOK(f)
  BY <1>1 DEF FrameOK, ChoiceKinds
<1>3. ASSUME NEW k \in DOMAIN A
      PROVE  /\ A[k].index \in Opt
             /\ AllChoosable(A[k].con) => Choice(e, parent.kind, A[k].index, A[k].con)
  <2>1. /\ A[k].index \in Opt /\ A[k].con \in ToSet(e.candidates[A[k].index])
        /\ A[k].con # << >>
    BY AddableContent
  <2> HIDE DEF A
  <2> QED
    BY <2>1 DEF Choice, IsOffered, PartOf
<1> HIDE DEF A
<1>4. AddOK(e, parent, f)
  BY <1>1, <1>3 DEF AddOK
<1>5. ContentOK(e, parent, f)
  BY <1>1, <1>4 DEF ContentOK, ChoiceKinds
<1> QED
  BY <1>1, <1>2, <1>5 DEF f

LEMMA RefreshAddContent ==
  ASSUME request \in Requests, NEW e, KnownOK(e), NEW fl, IsStack(fl),
         Content(e, fl), Last(fl).kind = "addOptionalData"
  PROVE  MappedContent(RefreshBase(e, fl), e)
<1> DEFINE g == AddOptionalData(e, Last(Front(fl)), Last(fl).discon, SelectedCon(Last(fl)))
<1>1. RefreshBase(e, fl) = Outcome(e, Append(Front(fl), g))
  BY DEF RefreshBase
<1>2. Last(Front(fl)) = fl[Len(fl) - 1]
  BY FrontStack DEF Roots
<1>3. g.kind = "addOptionalData" /\ FrameOK(g) /\ ContentOK(e, Last(Front(fl)), g)
  BY AddContent DEF Content
<1> HIDE DEF g
<1> QED
  BY <1>1, <1>2, <1>3, RefreshedContent

\* A choice that is replaced, or stays, is one the candidates have.
LEMMA RefreshedChoiceOK ==
  ASSUME request \in Requests, NEW e, KnownOK(e), FromWallet(e), NEW i \in DOMAIN request,
         NEW kind, NEW prevChoice, Choice(e, kind, i, prevChoice)
  PROVE  Choice(e, kind, i, RefreshedChoice(e, i, prevChoice))
<1> DEFINE D == e.candidates[i]
           choice == D[FindSelectedConIndex(e, D, <<prevChoice>>, prevChoice, TRUE)]
<1>1. Parsed(e)[i] = D
  BY ParsedOK
<1>2. RefreshedChoice(e, i, prevChoice) = IF AllChoosable(choice) THEN choice ELSE prevChoice
  BY <1>1 DEF RefreshedChoice
<1>3. choice \in ToSet(D)
  BY FindOption
<1> HIDE DEF choice
<1>4. CASE AllChoosable(choice)
  <2>1. CASE kind = "overview"
    BY <1>2, <1>3, <1>4, <2>1 DEF Choice, IsOffered
  <2>2. CASE kind # "overview" /\ choice # << >>
    BY <1>2, <1>3, <1>4, <2>2 DEF Choice, PartOf
  <2>3. CASE kind # "overview" /\ choice = << >>
    <3>1. ToSet(choice) = {}
      BY <2>3 DEF ToSet
    <3>2. PICK s \in ToSet(D) : s # << >> /\ AllChoosable(s)
      BY <2>3 DEF Choice, PartOf
    <3> QED
      BY <1>2, <1>4, <2>3, <3>1, <3>2 DEF Choice, PartOf
  <2> QED
    BY <2>1, <2>2, <2>3
<1>5. CASE ~AllChoosable(choice)
  BY <1>2, <1>5
<1> QED
  BY <1>4, <1>5

LEMMA RefreshOverviewContent ==
  ASSUME request \in Requests, NEW e, KnownOK(e), NEW fl, IsStack(fl),
         Content(e, fl), Last(fl).kind \in ChoiceKinds
  PROVE  MappedContent(RefreshBase(e, fl), e)
<1> DEFINE f == Last(fl)
           g == RefreshOverview(e, f)
           Refreshed(choices) == [i \in DOMAIN choices |-> RefreshedChoice(e, i, choices[i])]
<1>1. RefreshBase(e, fl) = Outcome(e, Append(Front(fl), g))
  BY DEF RefreshBase, ChoiceKinds
<1>2. FrameOK(f) /\ ChoicesOK(e, f) /\ FromWallet(e)
  <2>1. Len(fl) \in 1 .. Len(fl) /\ Last(fl) = fl[Len(fl)] /\ FrameOK(Last(fl))
    BY StackBounds
  <2> QED
    BY <2>1 DEF Content, ContentOK
<1>3. f.kind \in ChoiceKinds
  OBVIOUS
<1> HIDE DEF f
<1>4. /\ g.kind = f.kind /\ DOMAIN g = ChoicesFields /\ ~g.popup
      /\ g.required = Refreshed(f.required) /\ g.optional = Refreshed(f.optional)
  BY <1>2, <1>3 DEF RefreshOverview, FrameOK, ChoicesFields
<1> HIDE DEF g
<1>5. FrameOK(g)
  BY <1>4 DEF FrameOK, ChoicesFields
<1>6. \A i \in DOMAIN f.required \cup DOMAIN f.optional : i \in DOMAIN request
  BY <1>2 DEF ChoicesOK, Opt
<1>7. /\ DOMAIN g.required = DOMAIN f.required /\ DOMAIN g.optional = DOMAIN f.optional
      /\ \A i \in DOMAIN f.required : Choice(e, f.kind, i, g.required[i])
      /\ \A i \in DOMAIN f.optional : Choice(e, f.kind, i, g.optional[i])
  <2>1. \A i \in DOMAIN f.required : Choice(e, f.kind, i, RefreshedChoice(e, i, f.required[i]))
    BY <1>2, <1>6, RefreshedChoiceOK DEF ChoicesOK
  <2>2. \A i \in DOMAIN f.optional : Choice(e, f.kind, i, RefreshedChoice(e, i, f.optional[i]))
    BY <1>2, <1>6, RefreshedChoiceOK DEF ChoicesOK
  <2> QED
    BY <1>4, <2>1, <2>2
<1>8. ChoicesOK(e, g)
  BY <1>2, <1>4, <1>7 DEF ChoicesOK
<1>9. ContentOK(e, fl[Len(fl) - 1], g) /\ g.kind = Last(fl).kind
  BY <1>3, <1>4, <1>8 DEF ContentOK, ChoiceKinds, f
<1> QED
  BY <1>1, <1>5, <1>9, RefreshedContent

LEMMA RefreshBaseContent ==
  ASSUME OneWayRequests, request \in Requests, NEW e, KnownOK(e), NEW fl, IsStack(fl),
         Content(e, fl)
  PROVE  MappedContent(RefreshBase(e, fl), e)
<1>1. CASE Last(fl).kind = "issueWizard"
  BY <1>1, RefreshWizardContent DEF RefreshBase
<1>2. CASE Last(fl).kind = "changeChoice"
  BY <1>2, RefreshChangeContent DEF RefreshBase
<1>3. CASE Last(fl).kind = "addOptionalData"
  BY <1>3, RefreshAddContent
<1>4. CASE Last(fl).kind \in ChoiceKinds
  BY <1>4, RefreshOverviewContent
<1>5. CASE Last(fl).kind \notin WalkKinds \cup ChoiceKinds
  <2>1. RefreshBase(e, fl) = Outcome(e, <<Start(e)>>)
    BY <1>5 DEF RefreshBase, WalkKinds, ChoiceKinds
  <2>2. Content(e, <<Start(e)>>)
    BY StartContent DEF Content
  <2> HIDE DEF Start
  <2> QED
    BY <2>1, <2>2 DEF MappedContent, Outcome
<1> QED
  BY <1>1, <1>2, <1>3, <1>4, <1>5 DEF WalkKinds

\* A state that is passed on has no content of its own.
LEMMA LiftedContent ==
  ASSUME NEW e, NEW r, KnownOK(r.env), IsStack(r.flow), MappedContent(r, e), NEW f, FrameOK(f),
         PassesOn(f), Last(r.flow).kind \in Parents(f.kind)
  PROVE  MappedContent(Lifted(e, r, f), e)
<1>0. Content(r.env, r.flow) /\ r.env.candidates = e.candidates /\ r.env.wallet = e.wallet
  BY DEF MappedContent
<1>1. CASE f.kind = "wrong"
  <2>1. ContentOK(r.env, Last(r.flow), f)
    BY <1>1 DEF ContentOK, ChoiceKinds
  <2>2. Content(r.env, Append(r.flow, f))
    BY <1>0, <2>1, ContentPush
  <2>3. Lifted(e, r, f) = Outcome(r.env, Append(r.flow, f))
    BY <1>1 DEF Lifted
  <2> QED
    BY <1>0, <2>2, <2>3 DEF MappedContent, Outcome
<1>2. CASE f.kind = "obtainCredentials"
  <2>1. Lifted(e, r, f) = RefreshObtainedCredentials(e, r, f)
    BY <1>2 DEF Lifted
  <2>2. PICK obtained, templates :
          LET g == [f EXCEPT !.obtained = obtained]
          IN  RefreshObtainedCredentials(e, r, f) \in
                {Outcome(r.env, Append(r.flow, g)),
                 ValidateCredentialsObtained(templates, r.env, Append(r.flow, g))}
    BY DEF RefreshObtainedCredentials
  <2> DEFINE g == [f EXCEPT !.obtained = obtained]
  <2>3. "kind" \in DOMAIN g /\ g.kind = f.kind
    BY DEF FrameOK
  <2>4. Lifted(e, r, f) \in
          {Outcome(r.env, Append(r.flow, g)),
           ValidateCredentialsObtained(templates, r.env, Append(r.flow, g))}
    BY <2>1, <2>2
  <2> HIDE DEF g
  <2>5. FrameOK(g) /\ ContentOK(r.env, Last(r.flow), g)
    BY <1>2, <2>3 DEF FrameOK, ContentOK, ChoiceKinds
  <2>6. /\ IsStack(Append(r.flow, g)) /\ Last(Append(r.flow, g)) = g
        /\ Content(r.env, Append(r.flow, g))
    BY <1>0, <2>3, <2>5, PushStack, ContentPush
  <2>7. CASE Lifted(e, r, f) = Outcome(r.env, Append(r.flow, g))
    BY <1>0, <2>6, <2>7 DEF MappedContent, Outcome
  <2>8. CASE Lifted(e, r, f) = ValidateCredentialsObtained(templates, r.env, Append(r.flow, g))
    BY <1>0, <1>2, <2>3, <2>6, <2>8, ContentValidate DEF MappedContent
  <2> QED
    BY <2>4, <2>7, <2>8
<1> QED
  BY <1>1, <1>2 DEF PassesOn

\* Whatever the depth of the parent states.
LEMMA LevelsContent ==
  ASSUME OneWayRequests, request \in Requests, NEW e, KnownOK(e), NEW fl, IsStack(fl),
         Content(e, fl), NEW f, Levels(f, e, fl)
  PROVE  /\ Content(e, Affected(fl))
         /\ \A n \in 1 .. Len(Affected(fl)) : MappedContent(f[n], e)
<1>1. Levels(f, e, fl)
  OBVIOUS
<1> DEFINE stack == Affected(fl)
           T == {n \in 1 .. Len(stack) : MappedContent(f[n], e)}
<1>2. Content(e, stack)
  <2>1. CASE Last(fl).kind # "credentialInformation"
    BY <2>1 DEF Affected
  <2>2. CASE Last(fl).kind = "credentialInformation"
    BY <2>2, ContentFront DEF Affected, Roots
  <2> QED
    BY <2>1, <2>2
<1>3. /\ IsStack(stack) /\ Maps(f, e, stack, Len(stack)) /\ ~PassesOn(stack[1])
      /\ \A n \in 1 .. Len(stack) : MappedOK(f[n], e, stack[n].kind)
  BY <1>1 DEF Levels
<1> HIDE DEF stack
<1>4. Len(stack) \in Nat
  BY <1>3, StackBounds
<1>5. ASSUME NEW n \in 1 .. Len(stack), PassesOn(stack[n]), n - 1 \in T PROVE n \in T
  <2>1. n - 1 \in 1 .. Len(stack) /\ MappedContent(f[n - 1], e)
    BY <1>5
  <2>2. n \in 2 .. Len(stack)
    <3>1. \A N \in Nat : \A k \in 1 .. N : k - 1 \in 1 .. N => k \in 2 .. N
      OBVIOUS
    <3> QED
      BY <1>4, <2>1, <3>1
  <2>3. f[n] = Lifted(e, f[n - 1], stack[n])
    <3>1. f[n] = IF PassesOn(stack[n]) THEN Lifted(e, f[n - 1], stack[n])
                 ELSE RefreshBase(e, SubSeq(stack, 1, n))
      BY <1>3, <1>4, MapsNext
    <3> QED
      BY <1>5, <3>1
  <2>4. FrameOK(stack[n]) /\ stack[n - 1].kind \in Parents(stack[n].kind)
    BY <1>3, <2>2 DEF IsStack
  <2>5. /\ KnownOK(f[n - 1].env) /\ IsStack(f[n - 1].flow)
        /\ Last(f[n - 1].flow).kind \in {stack[n - 1].kind, "wrong"}
    BY <1>3, <1>5, <2>1, <2>4, ParentsOf DEF MappedOK, PassesOn
  <2>6. Last(f[n - 1].flow).kind \in Parents(stack[n].kind)
    BY <1>5, <2>4, <2>5, ParentsOf DEF PassesOn
  <2> QED
    BY <1>5, <2>1, <2>3, <2>4, <2>5, <2>6, LiftedContent
<1>6. ASSUME NEW n \in 1 .. Len(stack), ~PassesOn(stack[n]) PROVE n \in T
  <2>1. f[n] = RefreshBase(e, SubSeq(stack, 1, n))
    BY <1>3, <1>4, <1>6, MapsNext
  <2>2. IsStack(SubSeq(stack, 1, n)) /\ Content(e, SubSeq(stack, 1, n))
    BY <1>2, <1>3, CutStack, ContentCut
  <2> QED
    BY <2>1, <2>2, RefreshBaseContent
<1>7. ASSUME NEW n \in 1 .. Len(stack)
      PROVE  IF PassesOn(stack[n])
             THEN n - 1 \in 1 .. Len(stack) /\ n - 1 \in T => n \in T
             ELSE n \in T
  BY <1>5, <1>6
<1> HIDE DEF T
<1>8. \A n \in 1 .. Len(stack) : n \in T
  BY <1>1, <1>7, MapInduction DEF stack
<1> QED
  BY <1>2, <1>8 DEF T, stack

LEMMA MapContent ==
  ASSUME OneWayRequests, request \in Requests, NEW e, KnownOK(e), NEW fl, IsStack(fl),
         Content(e, fl)
  PROVE  MappedContent(MapSessionStateToBlocState(e, fl), e)
<1>1. PICK f : Levels(f, e, fl)
  BY MapLevels
<1> DEFINE N == Len(Affected(fl))
<1>2. N \in 1 .. N /\ MapSessionStateToBlocState(e, fl) = f[N]
  BY <1>1, StackBounds DEF Levels
<1>3. MappedContent(f[N], e)
  BY <1>1, <1>2, LevelsContent
<1> QED
  BY <1>2, <1>3

-----------------------------------------------------------------------------
(* The invariant of the walk, and the steps of the system. *)

\* The states suit the candidates, and what was sent was on offer.
OfferInv ==
  /\ WalkInv /\ Content(env, flow)
  /\ answer # None => status = "left" /\ AnswerIsOffered

\* The type of a singleton has one credential, so no other comes in its place.
SingletonsStay ==
  \A c, d \in Credential : c.type = d.type /\ c.type \in Singleton => c = d

LEMMA OfferInit == Init => OfferInv
<1> SUFFICES ASSUME Init PROVE OfferInv
  OBVIOUS
<1>1. PICK wallet \in Wallets :
        env = [wallet |-> wallet, candidates |-> Candidates(wallet, request), newly |-> << >>]
  BY DEF Init
<1>2. wallet \in Seq(Credential)
  BY WalletAssumption
<1>3. FromWallet(env)
  BY <1>1, <1>2 DEF FromWallet
<1> DEFINE f == [kind |-> "initial"]
<1>4. f.kind \in Roots /\ \A parent : ContentOK(env, parent, f)
  BY DEF ContentOK, ChoiceKinds, Roots
<1>5. flow = <<f>> /\ answer = None
  BY DEF Init
<1> HIDE DEF f
<1>6. Content(env, flow)
  BY <1>3, <1>4, <1>5, ContentSingle
<1> QED
  BY <1>5, <1>6, WalkInit DEF OfferInv

\* The request of a session stays, and so does what suits it.
LEMMA RequestStays ==
  ASSUME request' = request, Content(env', flow')
  PROVE  Content(env, flow)'
<1>1. FromWallet(env)' <=> FromWallet(env')
  BY DEF FromWallet
<1>2. Opt' = Opt
  BY DEF Opt
<1>3. ASSUME NEW n \in 1 .. Len(flow') PROVE ContentOK(env, flow[n - 1], flow[n])'
  <2>0. ContentOK(env', flow'[n - 1], flow'[n])
    BY DEF Content
  <2>1. ChoicesOK(env', flow'[n]) <=> ChoicesOK(env, flow[n])'
    BY <1>2 DEF ChoicesOK
  <2>2. WizardOK(env', flow'[n]) <=> WizardOK(env, flow[n])'
    BY DEF WizardOK, Named
  <2>3. MakeOK(env', flow'[n - 1], flow'[n]) <=> MakeOK(env, flow[n - 1], flow[n])'
    BY DEF MakeOK
  <2>4. AddOK(env', flow'[n - 1], flow'[n]) <=> AddOK(env, flow[n - 1], flow[n])'
    BY <1>2 DEF AddOK
  <2> QED
    BY <2>0, <2>1, <2>2, <2>3, <2>4 DEF ContentOK
<1> QED
  BY <1>1, <1>3 DEF Content

LEMMA SessionStateContent ==
  ASSUME OneWayRequests, OfferInv, NEW e, KnownOK(e), FromWallet(e), Keeps(env, e),
         Learns(e)
  PROVE  Content(env', flow')
<1>1. WalkInv /\ Content(env, flow) /\ request \in Requests /\ IsStack(flow)
  BY DEF OfferInv, WalkInv
<1>2. Content(e, flow)
  BY <1>1, ContentKeeps
<1>3. CASE env' = e /\ UNCHANGED flow
  BY <1>2, <1>3
<1>4. CASE /\ env' = MapSessionStateToBlocState(e, flow).env
           /\ flow' = MapSessionStateToBlocState(e, flow).flow
  BY <1>1, <1>2, <1>4, MapContent DEF MappedContent
<1> QED
  BY <1>3, <1>4 DEF Learns, SessionState

\* A step that sends nothing, and leaves states that suit the candidates.
Suits ==
  request' = request /\ answer' = answer /\ (status' = status \/ status' = "left")
  /\ Content(env', flow') /\ (answer # None => env'.candidates = env.candidates)

LEMMA SuitsStep ==
  ASSUME OfferInv, WalkInv', Suits
  PROVE  OfferInv'
<1>1. Content(env, flow)'
  BY RequestStays DEF Suits
<1>2. answer' # None => status' = "left" /\ AnswerIsOffered'
  BY DEF OfferInv, Suits, AnswerIsOffered
<1> QED
  BY <1>1, <1>2 DEF OfferInv

LEMMA FinishedContent ==
  ASSUME NEW e, FromWallet(e)
  PROVE  Content(e, Finished)
<1> DEFINE f == [kind |-> "finished"]
<1>1. f.kind \in Roots /\ \A parent : ContentOK(e, parent, f)
  BY DEF ContentOK, ChoiceKinds, Roots
<1> HIDE DEF f
<1> QED
  BY <1>1, ContentSingle DEF Finished, f

LEMMA NewIsInjective ==
  ASSUME NEW S, NEW s \in Seq(S), IsInjective(s), NEW c \in S, c \notin ToSet(s)
  PROVE  Append(s, c) \in Seq(S) /\ IsInjective(Append(s, c))
<1> DEFINE t == Append(s, c)
<1>1. /\ t \in Seq(S) /\ Len(s) \in Nat /\ DOMAIN s = 1 .. Len(s)
      /\ DOMAIN t = 1 .. Len(s) + 1 /\ t[Len(s) + 1] = c
      /\ \A i \in 1 .. Len(s) : t[i] = s[i] /\ s[i] # c
  BY DEF ToSet
<1> HIDE DEF t
<1>2. ASSUME NEW i \in DOMAIN t, NEW j \in DOMAIN t, t[i] = t[j] PROVE i = j
  <2>1. i \in 1 .. Len(s) \/ i = Len(s) + 1
    BY <1>1
  <2>2. j \in 1 .. Len(s) \/ j = Len(s) + 1
    BY <1>1
  <2> QED
    BY <1>1, <1>2, <2>1, <2>2 DEF IsInjective
<1> QED
  BY <1>1, <1>2 DEF IsInjective, t

LEMMA AppendAdds ==
  ASSUME NEW S, NEW s \in Seq(S), NEW x \in S
  PROVE  ToSet(Append(s, x)) = ToSet(s) \cup {x}
<1> DEFINE t == Append(s, x)
<1>1. Len(s) \in Nat /\ DOMAIN s = 1 .. Len(s) /\ DOMAIN t = 1 .. Len(s) + 1
  OBVIOUS
<1>2. t[Len(s) + 1] = x /\ \A i \in 1 .. Len(s) : t[i] = s[i]
  OBVIOUS
<1> HIDE DEF t
<1>3. DOMAIN t = DOMAIN s \cup {Len(s) + 1}
  BY <1>1
<1> QED
  BY <1>1, <1>2, <1>3 DEF ToSet, t

\* The environment a change of the session is mapped with.
IsNews(e) ==
  /\ Learns(e) /\ KnownOK(e) /\ FromWallet(e) /\ Keeps(env, e) /\ e.wallet = env.wallet
  /\ ToSet(e.newly) \cap ToSet(env.wallet) = ToSet(env.newly) \cap ToSet(env.wallet)

LEMMA NewsContent ==
  ASSUME OfferInv, Announce \/ RefreshCandidates
  PROVE  \E e : IsNews(e)
<1>1. request \in Requests /\ KnownOK(env) /\ FromWallet(env)
  BY DEF OfferInv, WalkInv, Content
<1>2. CASE Announce
  <2>1. PICK c \in Credential :
          /\ c \notin ToSet(env.newly) /\ c \notin ToSet(env.wallet)
          /\ Learns([env EXCEPT !.newly = Append(@, c)])
    BY <1>2 DEF Announce, Learns
  <2> DEFINE e == [env EXCEPT !.newly = Append(@, c)]
  <2>2. /\ DOMAIN e = DOMAIN env /\ e.wallet = env.wallet /\ e.candidates = env.candidates
        /\ e.newly = Append(env.newly, c)
    BY <1>1 DEF KnownOK
  <2> HIDE DEF e
  <2>3. KnownOK(e)
    BY <1>1, <2>1, <2>2, NewIsInjective DEF KnownOK
  <2>4. FromWallet(e) /\ Keeps(env, e)
    BY <1>1, <2>2, SameKeeps DEF FromWallet
  <2>5. ToSet(e.newly) = ToSet(env.newly) \cup {c}
    <3>1. env.newly \in Seq(Credential)
      BY <1>1 DEF KnownOK
    <3>2. ToSet(Append(env.newly, c)) = ToSet(env.newly) \cup {c}
      BY <3>1, AppendAdds
    <3> QED
      BY <2>2, <3>2
  <2> QED
    BY <2>1, <2>2, <2>3, <2>4, <2>5 DEF IsNews, e
<1>3. CASE RefreshCandidates
  <2> DEFINE e == [env EXCEPT !.candidates = Candidates(env.wallet, request)]
  <2>1. /\ DOMAIN e = DOMAIN env /\ e.wallet = env.wallet /\ e.newly = env.newly
        /\ e.candidates = Candidates(env.wallet, request)
    BY <1>1 DEF KnownOK
  <2>2. Learns(e)
    BY <1>3 DEF RefreshCandidates, Learns
  <2> HIDE DEF e
  <2>3. KnownOK(e)
    BY <1>1, <2>1 DEF KnownOK, Candidates
  <2>4. FromWallet(e) /\ Keeps(env, e)
    BY <1>1, <2>1, RefreshKeeps
  <2> QED
    BY <2>1, <2>2, <2>3, <2>4 DEF IsNews
<1> QED
  BY <1>2, <1>3

\* No other credential of a wallet makes room for a new one.
LEMMA WalletGrows ==
  ASSUME SingletonsStay, NEW w \in Seq(Credential), NEW c \in Credential, c \notin ToSet(w)
  PROVE  ToSet(w) \subseteq ToSet(WithCredential(w, c))
<1> DEFINE S == {d \in ToSet(w) : c.type \in Singleton /\ d.type = c.type}
<1>1. \A d \in ToSet(w) : d \in Credential
  BY DEF ToSet
<1>2. S = {}
  BY <1>1 DEF SingletonsStay
<1>3. ToSet(w) \cap S = {}
  BY <1>2
<1>4. WithCredential(w, c) = Append(Without(w, S), c)
  BY DEF WithCredential
<1> HIDE DEF S
<1>5. WithCredential(w, c) = Append(w, c)
  BY <1>3, <1>4, WithoutNone
<1>6. Len(w) \in Nat /\ DOMAIN w = 1 .. Len(w) /\ \A i \in 1 .. Len(w) : i \in 1 .. Len(w) + 1
  OBVIOUS
<1>7. DOMAIN Append(w, c) = 1 .. Len(w) + 1 /\ \A i \in 1 .. Len(w) : Append(w, c)[i] = w[i]
  OBVIOUS
<1>8. ToSet(w) \subseteq ToSet(Append(w, c))
  BY <1>6, <1>7 DEF ToSet
<1> QED
  BY <1>5, <1>8

LEMMA SystemContent ==
  ASSUME OneWayRequests, SingletonsStay, OfferInv, System
  PROVE  Suits
<1>1. /\ request \in Requests /\ KnownOK(env) /\ IsStack(flow) /\ Content(env, flow)
      /\ FromWallet(env) /\ announced \subseteq Credential /\ announced \cap ToSet(env.wallet) = {}
      /\ answer # None => status = "left"
  BY DEF OfferInv, WalkInv, Content
<1>2. CASE ReadPreference
  <2>1. Content(env, <<Start(env)>>)
    BY <1>1, StartContent
  <2>2. Content(env, <<[kind |-> "introduction"]>>)
    <3> DEFINE f == [kind |-> "introduction"]
    <3>1. f.kind \in Roots /\ \A parent : ContentOK(env, parent, f)
      BY DEF ContentOK, ChoiceKinds, Roots
    <3> HIDE DEF f
    <3> QED
      BY <1>1, <3>1, ContentSingle DEF f
  <2> HIDE DEF Start
  <2> QED
    BY <1>2, <2>1, <2>2 DEF ReadPreference, Listen, Suits
<1>3. CASE Announce \/ RefreshCandidates
  <2>1. PICK e : IsNews(e)
    BY <1>3, NewsContent
  <2>2. Content(env', flow')
    BY <2>1, SessionStateContent DEF IsNews
  <2> QED
    BY <1>1, <1>3, <2>2 DEF Announce, RefreshCandidates, Suits
<1>4. CASE ReceiveCredentials
  <2>1. PICK c \in announced : env' = [env EXCEPT !.wallet = WithCredential(@, c)]
    BY <1>4 DEF ReceiveCredentials
  <2> DEFINE w == env.wallet
  <2>2. env'.wallet = WithCredential(w, c) /\ env'.candidates = env.candidates
    BY <1>1, <2>1 DEF KnownOK
  <2>3. w \in Seq(Credential) /\ c \in Credential /\ c \notin ToSet(w)
    BY <1>1, <2>1 DEF KnownOK
  <2> HIDE DEF w
  <2>4. ToSet(w) \subseteq ToSet(WithCredential(w, c))
    BY <2>3, WalletGrows
  <2>5. FromWallet(env')
    BY <1>1, <2>2, <2>4 DEF FromWallet, w
  <2>6. Content(env', flow)
    BY <1>1, <2>2, <2>5, SameKeeps, ContentKeeps
  <2> QED
    BY <1>1, <1>4, <2>6 DEF ReceiveCredentials, Suits
<1>5. CASE LeaveRequest
  BY <1>1, <1>5, FinishedContent DEF LeaveRequest, Suits
<1> QED
  BY <1>2, <1>3, <1>4, <1>5 DEF System

-----------------------------------------------------------------------------
(* The steps of the user. *)

LEMMA TopContent ==
  ASSUME OfferInv
  PROVE  /\ request \in Requests /\ KnownOK(env) /\ IsStack(flow) /\ FromWallet(env)
         /\ Content(env, flow) /\ FrameOK(Top) /\ ContentOK(env, flow[Len(flow) - 1], Top)
         /\ Parsed(env) = env.candidates /\ DOMAIN env.candidates = DOMAIN request
<1>1. request \in Requests /\ KnownOK(env) /\ IsStack(flow) /\ FromWallet(env) /\ Content(env, flow)
  BY DEF OfferInv, WalkInv, Content
<1>2. Len(flow) \in 1 .. Len(flow) /\ Last(flow) = flow[Len(flow)] /\ FrameOK(Last(flow))
  BY <1>1, StackBounds
<1>3. ContentOK(env, flow[Len(flow) - 1], flow[Len(flow)])
  BY <1>1, <1>2 DEF Content
<1> QED
  BY <1>1, <1>2, <1>3, ParsedOK, CandidatesOK DEF Top

LEMMA GoToContent ==
  ASSUME NEW fl, GoTo(fl), Content(env, fl)
  PROVE  Suits
BY DEF GoTo, Suits

LEMMA ReplaceContent ==
  ASSUME OfferInv, NEW f, Replace(f) \/ Puts(f), FrameOK(f),
         f.kind = Top.kind \/ {f.kind, Top.kind} \subseteq Roots,
         ContentOK(env, flow[Len(flow) - 1], f)
  PROVE  Suits
<1>1. Content(env, Append(Front(flow), f))
  BY TopContent, ContentReplace DEF Top
<1> QED
  BY <1>1 DEF Replace, GoTo, Puts, Suits

LEMMA PushContent ==
  ASSUME OfferInv, NEW f, GoTo(Append(flow, f)), ContentOK(env, Top, f)
  PROVE  Suits
<1>1. Content(env, Append(flow, f))
  BY TopContent, ContentPush DEF Top
<1> QED
  BY <1>1, GoToContent

LEMMA ObtainContent ==
  ASSUME OfferInv, NEW con, ObtainCredentials(con)
  PROVE  Suits
<1>1. CASE \E templates, obtained :
             GoTo(Append(flow, [kind |-> "obtainCredentials", templates |-> templates,
                                obtained |-> obtained]))
  <2>1. PICK templates, obtained :
             GoTo(Append(flow, [kind |-> "obtainCredentials", templates |-> templates,
                                obtained |-> obtained]))
    BY <1>1
  <2> DEFINE f == [kind |-> "obtainCredentials", templates |-> templates,
                   obtained |-> obtained]
  <2>2. ContentOK(env, Top, f)
    BY DEF ContentOK, ChoiceKinds
  <2> HIDE DEF f
  <2> QED
    BY <2>1, <2>2, PushContent DEF f
<1>2. CASE \E type : GoTo(Append(flow, [kind |-> "credentialInformation", type |-> type]))
  <2>1. PICK type : GoTo(Append(flow, [kind |-> "credentialInformation", type |-> type]))
    BY <1>2
  <2> DEFINE f == [kind |-> "credentialInformation", type |-> type]
  <2>2. ContentOK(env, Top, f)
    BY DEF ContentOK, ChoiceKinds
  <2> HIDE DEF f
  <2> QED
    BY <2>1, <2>2, PushContent DEF f
<1> QED
  BY <1>1, <1>2 DEF ObtainCredentials

\* What the bloc prefers of each discon.
LEMMA BestChoicesOK ==
  ASSUME request \in Requests, NEW D, D = env.candidates, FromWallet(env)
  PROVE  /\ DOMAIN BestChoices(D) = DOMAIN request
         /\ \A i \in DOMAIN request : BestChoices(D)[i] \in ToSet(D[i])
         /\ \A i \in DOMAIN request : Ready(env, i) => AllChoosable(BestChoices(D)[i])
<1>1. DOMAIN D = DOMAIN request
  BY CandidatesOK
<1>2. /\ DOMAIN BestChoices(D) = DOMAIN request
      /\ \A i \in DOMAIN request :
           BestChoices(D)[i] = D[i][FindSelectedConIndex(env, D[i], None, None, FALSE)]
  BY <1>1 DEF BestChoices
<1>3. ASSUME NEW i \in DOMAIN request PROVE BestChoices(D)[i] \in ToSet(D[i])
  <2> DEFINE k == FindSelectedConIndex(env, env.candidates[i], None, None, FALSE)
  <2>1. env.candidates[i][k] \in ToSet(env.candidates[i])
    BY FindOption
  <2> QED
    BY <1>2, <2>1
<1>4. ASSUME NEW i \in DOMAIN request, Ready(env, i) PROVE AllChoosable(BestChoices(D)[i])
  BY <1>2, <1>4, BestOption
<1> QED
  BY <1>2, <1>3, <1>4

LEMMA WizardContent ==
  ASSUME OneWayRequests, OfferInv, ChooseInWizard \/ NextInWizard \/ CompleteWizard
  PROVE  Suits
<1>0. /\ Top.kind = "issueWizard" /\ WizardOK(env, Top) /\ request \in Requests
      /\ KnownOK(env) /\ FromWallet(env)
      /\ Parsed(env) = env.candidates /\ DOMAIN env.candidates = DOMAIN request
  BY TopContent DEF ChooseInWizard, NextInWizard, CompleteWizard, Shows, ContentOK
<1>1. CASE ChooseInWizard
  <2>1. PICK selected, planned : Replace([Top EXCEPT !.selected = selected, !.planned = planned])
    BY <1>1 DEF ChooseInWizard
  <2> DEFINE f == [Top EXCEPT !.selected = selected, !.planned = planned]
  <2>2. /\ DOMAIN f = DOMAIN Top /\ f.kind = Top.kind /\ f.options = Top.options
        /\ f.obtained = Top.obtained
    BY <1>0 DEF WizardOK
  <2> HIDE DEF f
  <2>3. WizardOK(env, f) /\ "kind" \in DOMAIN f
    BY <1>0, <2>2 DEF WizardOK
  <2>4. FrameOK(f) /\ ContentOK(env, flow[Len(flow) - 1], f)
    BY <1>0, <2>2, <2>3 DEF FrameOK, ContentOK, ChoiceKinds
  <2> QED
    BY <2>1, <2>2, <2>4, ReplaceContent DEF f
<1>2. CASE NextInWizard
  BY <1>2, ObtainContent DEF NextInWizard
<1>3. CASE CompleteWizard
  <2> DEFINE D == env.candidates
             choices == BestChoices(D)
             prevAdded == [i \in {j \in DOMAIN choices : PrevAdded(choices[j]) # << >>} |->
                             PrevAdded(choices[i])]
             more == \E i \in DOMAIN choices :
                       choices[i] = << >> /\ \E c \in Flattened(D[i]) : PreviouslyAdded(env, c)
             next == IF DOMAIN prevAdded = {} /\ ~more
                     THEN Overview(D, choices, Top.planned)
                     ELSE ChoicesFrame("previouslyAdded", D, prevAdded, Changeable(D), more,
                                       Top.planned)
  <2>1. (\A i \in DOMAIN choices : AllChoosable(choices[i])) /\ Replace(next)
    BY <1>0, <1>3 DEF CompleteWizard
  <2>2. DOMAIN choices = DOMAIN request /\ \A i \in DOMAIN request : choices[i] \in ToSet(D[i])
    BY <1>0, BestChoicesOK
  <2> HIDE DEF choices
  <2>3. \A i \in DOMAIN request : IsOffered(env, i, choices[i]) /\ Ready(env, i)
    BY <2>1, <2>2 DEF IsOffered, Ready
  <2>4. ASSUME NEW i \in DOMAIN request, PrevAdded(choices[i]) # << >>
        PROVE  PartOf(env, i, PrevAdded(choices[i]))
    <3> DEFINE con == choices[i]
    <3>1. con \in Seq(Part)
      <4>1. D[i] \in Seq(Seq(Part)) /\ con \in ToSet(D[i])
        BY <1>0, <2>2, CandidatesOK
      <4> HIDE DEF D
      <4> QED
        BY <4>1 DEF ToSet
    <3> HIDE DEF con
    <3>2. /\ PrevAdded(con) \in Seq(Part)
          /\ ToSet(PrevAdded(con)) = ToSet(con) \cap {c \in ToSet(con) : PreviouslyAdded(env, c)}
      BY <3>1, OnlySet DEF PrevAdded
    <3>3. con # << >>
      <4>1. PICK x : x \in ToSet(PrevAdded(con))
        BY <2>4, <3>2, SomeElement DEF con
      <4>2. x \in ToSet(con)
        BY <3>2, <4>1
      <4> QED
        BY <3>1, <4>2, SomeElement
    <3>4. con \in ToSet(env.candidates[i]) /\ AllChoosable(con)
      BY <2>3 DEF IsOffered, con
    <3>5. ToSet(PrevAdded(con)) \subseteq ToSet(con)
      BY <3>2
    <3> QED
      BY <3>3, <3>4, <3>5 DEF PartOf, con
  <2>5. /\ DOMAIN prevAdded \subseteq DOMAIN request
        /\ \A i \in DOMAIN prevAdded : Choice(env, "previouslyAdded", i, prevAdded[i])
    BY <2>2, <2>4 DEF Choice
  <2>6. FrameOK(next) /\ next.kind \in Roots /\ \A parent : ContentOK(env, parent, next)
    <3>0. \/ next = Overview(D, choices, Top.planned)
          \/ next = ChoicesFrame("previouslyAdded", D, prevAdded, Changeable(D), more, Top.planned)
      OBVIOUS
    <3> HIDE DEF prevAdded, more, next
    <3>1. CASE next = Overview(D, choices, Top.planned)
      <4>1. \A parent : ContentOK(env, parent, Overview(D, choices, Top.planned))
        BY <1>0, <2>2, <2>3, OverviewContent
      <4> QED
        BY <3>1, <4>1, OverviewOK DEF Roots
    <3>2. CASE next = ChoicesFrame("previouslyAdded", D, prevAdded, Changeable(D), more, Top.planned)
      <4>1. "previouslyAdded" \in ChoiceKinds
        BY DEF ChoiceKinds
      <4> DEFINE g == ChoicesFrame("previouslyAdded", D, prevAdded, Changeable(D), more, Top.planned)
      <4>2. ChoicesOK(env, g)
        BY <1>0, <2>3, <2>5, <4>1, ChoicesFrameContent
      <4>3. FrameOK(g) /\ g.kind = "previouslyAdded"
        BY ChoicesFrameOK
      <4> HIDE DEF g
      <4>4. \A parent : ContentOK(env, parent, g)
        BY <4>2, <4>3 DEF ContentOK
      <4> QED
        BY <3>2, <4>3, <4>4 DEF g, Roots
    <3> QED
      BY <3>0, <3>1, <3>2
  <2>7. Top.kind \in Roots
    BY <1>0 DEF Roots
  <2> HIDE DEF next
  <2> QED
    BY <2>1, <2>6, <2>7, ReplaceContent
<1> QED
  BY <1>1, <1>2, <1>3

LEMMA PageContent ==
  ASSUME OneWayRequests, OfferInv, NextInIntroduction \/ NextInObtainCredentials \/ Previous
  PROVE  Suits
<1>1. CASE NextInIntroduction
  <2>1. Content(env, <<Start(env)>>)
    BY TopContent, StartContent
  <2> HIDE DEF Start
  <2> QED
    BY <1>1, <2>1 DEF NextInIntroduction, Listen, Suits
<1>2. CASE NextInObtainCredentials
  <2>1. GoTo(Front(flow)) /\ Last(flow).kind \notin Roots
    BY <1>2 DEF NextInObtainCredentials, Shows, Roots, Top
  <2> QED
    BY <2>1, TopContent, ContentFront, GoToContent
<1>3. CASE Previous
  <2>1. GoTo(Front(flow)) /\ Last(flow).kind \notin Roots
    BY <1>3 DEF Previous, Shows, Roots, Top
  <2> QED
    BY <2>1, TopContent, ContentFront, GoToContent
<1> QED
  BY <1>1, <1>2, <1>3

\* An overview that is marked is the same overview.
LEMMA MarkContent ==
  ASSUME OfferInv, Marks
  PROVE  Suits
<1>0. /\ Top.kind = "overview" /\ FrameOK(Top) /\ DOMAIN Top = ChoicesFields
      /\ ChoicesOK(env, Top)
  BY TopContent DEF Marks, Shows, FrameOK, ChoiceKinds, ContentOK
<1>1. PICK popup \in BOOLEAN : Puts([Top EXCEPT !.popup = popup])
  BY DEF Marks
<1> DEFINE f == [Top EXCEPT !.popup = popup]
<1>2. /\ DOMAIN f = ChoicesFields /\ f.kind = Top.kind
      /\ f.required = Top.required /\ f.optional = Top.optional
  BY <1>0 DEF ChoicesFields
<1> HIDE DEF f
<1>3. FrameOK(f)
  BY <1>0, <1>2 DEF FrameOK, ChoicesFields
<1>4. ChoicesOK(env, f)
  BY <1>0, <1>2 DEF ChoicesOK
<1>5. ContentOK(env, flow[Len(flow) - 1], f)
  BY <1>0, <1>2, <1>4 DEF ContentOK
<1> QED
  BY <1>1, <1>2, <1>3, <1>5, ReplaceContent DEF f

LEMMA RestContent ==
  ASSUME OfferInv, Rests
  PROVE  Suits
BY DEF Rests, Suits, OfferInv

\* An option takes the place of a choice, or a choice of an optional discon is removed.
LEMMA RefreshChoicesContent ==
  ASSUME NEW e, NEW f, FrameOK(f), f.kind \in ChoiceKinds, ChoicesOK(e, f), NEW discon,
         NEW i, NEW k \in Nat,
         k > 0 => /\ i \in DOMAIN f.required \cup Opt
                  /\ Choice(e, f.kind, i, discon[k])
  PROVE  ChoicesOK(e, RefreshChoices(f, discon, i, k))
<1> DEFINE g == RefreshChoices(f, discon, i, k)
<1>1. DOMAIN f = ChoicesFields
  BY DEF FrameOK
<1>2. /\ g.kind = f.kind
      /\ g.required = IF k > 0 /\ i \in DOMAIN f.required
                      THEN [f.required EXCEPT ![i] = discon[k]] ELSE f.required
      /\ g.optional = IF ~(k > 0) THEN Restrict(f.optional, DOMAIN f.optional \ {i})
                      ELSE IF i \in DOMAIN f.required THEN f.optional
                      ELSE [j \in DOMAIN f.optional \cup {i} |->
                              IF j = i THEN discon[k] ELSE f.optional[j]]
  BY <1>1 DEF RefreshChoices, ChoicesFields
<1> HIDE DEF g
<1>3. /\ DOMAIN f.optional \subseteq Opt /\ DOMAIN f.required \subseteq DOMAIN request \ Opt
      /\ \A j \in DOMAIN f.required : Choice(e, f.kind, j, f.required[j])
      /\ \A j \in DOMAIN f.optional : Choice(e, f.kind, j, f.optional[j])
  BY DEF ChoicesOK
<1>4. /\ DOMAIN g.required = DOMAIN f.required
      /\ \A j \in DOMAIN g.required : Choice(e, f.kind, j, g.required[j])
  <2>1. CASE k > 0 /\ i \in DOMAIN f.required
    <3>1. g.required = [f.required EXCEPT ![i] = discon[k]]
      BY <1>2, <2>1
    <3> QED
      BY <1>3, <2>1, <3>1
  <2>2. CASE ~(k > 0 /\ i \in DOMAIN f.required)
    BY <1>2, <1>3, <2>2
  <2> QED
    BY <2>1, <2>2
<1>5. /\ DOMAIN g.optional \subseteq Opt
      /\ \A j \in DOMAIN g.optional : Choice(e, f.kind, j, g.optional[j])
  <2>1. CASE ~(k > 0)
    <3>1. g.optional = [j \in DOMAIN f.optional \ {i} |-> f.optional[j]]
      BY <1>2, <2>1 DEF Restrict
    <3> QED
      BY <1>3, <3>1
  <2>2. CASE k > 0 /\ i \in DOMAIN f.required
    BY <1>2, <1>3, <2>2
  <2>3. CASE k > 0 /\ i \notin DOMAIN f.required
    <3>1. /\ DOMAIN g.optional = DOMAIN f.optional \cup {i}
          /\ \A j \in DOMAIN g.optional :
               g.optional[j] = IF j = i THEN discon[k] ELSE f.optional[j]
      BY <1>2, <2>3
    <3> QED
      BY <1>3, <2>3, <3>1
  <2> QED
    BY <2>1, <2>2, <2>3
<1>6. ChoicesOK(e, g)
  BY <1>2, <1>3, <1>4, <1>5 DEF ChoicesOK
<1> QED
  BY <1>6 DEF g

LEMMA PreviousContent ==
  ASSUME OneWayRequests, OfferInv, NextInPreviouslyAdded
  PROVE  Suits
<1> DEFINE D == env.candidates
           f == Top
           Prev(i) == IF i \in DOMAIN ChoicesOf(f) THEN ChoicesOf(f)[i] ELSE None
           k(i) == FindSelectedConIndex(env, D[i], None, Prev(i), FALSE)
           choices == [i \in DOMAIN D |-> Choosables(D[i][k(i)])]
<1>0. /\ f.kind = "previouslyAdded" /\ ChoicesOK(env, f) /\ request \in Requests
      /\ KnownOK(env) /\ FromWallet(env)
      /\ Parsed(env) = D /\ DOMAIN D = DOMAIN request
  BY TopContent DEF NextInPreviouslyAdded, ContentOK, ChoiceKinds
<1>1. Replace(Overview(D, choices, f.planned))
  BY <1>0 DEF NextInPreviouslyAdded
<1>2. ASSUME NEW i \in DOMAIN request PROVE IsOffered(env, i, choices[i])
  <2>1. D[i][k(i)] \in ToSet(D[i])
    BY <1>0, FindOption
  <2>2. AllChoosable(D[i][k(i)])
    <3>1. CASE i \in DOMAIN ChoicesOf(f)
      <4>1. Prev(i) = ChoicesOf(f)[i]
        BY <3>1
      <4>2. Choice(env, "previouslyAdded", i, ChoicesOf(f)[i])
        BY <1>0, <3>1, ChosenOK
      <4>3. PartOf(env, i, Prev(i))
        BY <4>1, <4>2 DEF Choice
      <4> HIDE DEF Prev
      <4> QED
        BY <1>0, <4>3, ChosenOption
    <3>2. CASE i \notin DOMAIN ChoicesOf(f)
      <4>1. Prev(i) = None
        BY <3>2
      <4>2. Ready(env, i)
        BY <1>0 DEF ChoicesOK
      <4>3. AllChoosable(D[i][FindSelectedConIndex(env, D[i], None, None, FALSE)])
        BY <1>0, <4>2, BestOption
      <4> QED
        BY <4>1, <4>3
    <3> QED
      BY <3>1, <3>2
  <2> DEFINE con == D[i][k(i)]
  <2>3. con \in Seq(Part)
    <3>1. D[i] \in Seq(Seq(Part))
      BY <1>0, CandidatesOK
    <3> HIDE DEF k
    <3>2. con \in ToSet(D[i])
      BY <2>1
    <3> HIDE DEF con, D
    <3> QED
      BY <3>1, <3>2 DEF ToSet
  <2>4. choices[i] = Choosables(con)
    BY <1>0
  <2>5. con \in ToSet(D[i]) /\ AllChoosable(con)
    BY <2>1, <2>2
  <2> HIDE DEF con, choices
  <2>6. choices[i] = con
    BY <2>3, <2>4, <2>5, ChoosablesAll
  <2> QED
    BY <2>5, <2>6 DEF IsOffered
<1>3. DOMAIN choices = DOMAIN request
  BY <1>0
<1> HIDE DEF choices, f
<1>4. \A parent : ContentOK(env, parent, Overview(D, choices, f.planned))
  BY <1>0, <1>2, <1>3, OverviewContent
<1>5. /\ FrameOK(Overview(D, choices, f.planned)) /\ Overview(D, choices, f.planned).kind \in Roots
  BY OverviewOK DEF Roots
<1>6. Top.kind \in Roots
  BY <1>0 DEF Roots, f
<1> QED
  BY <1>1, <1>4, <1>5, <1>6, ReplaceContent

LEMMA ChangeContent ==
  ASSUME OneWayRequests, OfferInv, ChangeChoice
  PROVE  Suits
<1>0. /\ Top.kind \in ChoiceKinds /\ ChoicesOK(env, Top) /\ request \in Requests
      /\ FromWallet(env) /\ Parsed(env) = env.candidates
  BY TopContent DEF ChangeChoice, ShowsChoices, Shows, ContentOK, ChoiceKinds
<1>1. PICK i \in DOMAIN ChoicesOf(Top) : \E selected :
        GoTo(Append(flow, [kind |-> "changeChoice", index |-> i, discon |-> OptionsFor(Top, i),
                           selected |-> selected]))
  BY DEF ChangeChoice
<1>6. PICK selected :
        GoTo(Append(flow, [kind |-> "changeChoice", index |-> i, discon |-> OptionsFor(Top, i),
                           selected |-> selected]))
  BY <1>1
<1> DEFINE f == [kind |-> "changeChoice", index |-> i, discon |-> OptionsFor(Top, i),
                 selected |-> selected]
           D == env.candidates[i]
<1>2. i \in DOMAIN request /\ Choice(env, Top.kind, i, ChoicesOf(Top)[i])
  BY <1>0, ChosenOK
<1>3. D \in Seq(Seq(Part)) /\ TypesOf(D) = TypesOf(request[i])
  BY <1>0, <1>2, CandidatesOK
<1>4. /\ OptionsFor(Top, i) \in Seq(Seq(Part))
      /\ \A s \in ToSet(OptionsFor(Top, i)) : AllChoosable(s) => Choice(env, Top.kind, i, s)
      /\ Top.kind = "overview" => TypesOf(request[i]) \subseteq TypesOf(OptionsFor(Top, i))
  <2>1. CASE Top.kind = "overview"
    <3>1. OptionsFor(Top, i) = D
      BY <1>0, <2>1 DEF OptionsFor
    <3>2. \A s \in ToSet(D) : AllChoosable(s) => Choice(env, Top.kind, i, s)
      BY <2>1 DEF Choice, IsOffered
    <3> HIDE DEF D
    <3> QED
      BY <1>3, <3>1, <3>2
  <2>2. CASE Top.kind # "overview"
    <3>1. \E types : OptionsFor(Top, i) = CutDisCon(D, types)
      BY <1>0, <2>2 DEF OptionsFor
    <3> QED
      BY <1>0, <1>2, <2>2, <3>1, ShownContent
  <2> QED
    BY <2>1, <2>2
<1>5. /\ DOMAIN f = {"kind", "index", "discon", "selected"} /\ f.kind = "changeChoice"
      /\ f.index = i /\ f.discon = OptionsFor(Top, i)
  OBVIOUS
<1> HIDE DEF f
<1>7. MakeOK(env, Top, f)
  BY <1>4, <1>5 DEF MakeOK
<1>8. ContentOK(env, Top, f)
  BY <1>5, <1>7 DEF ContentOK, ChoiceKinds
<1> QED
  BY <1>6, <1>8, PushContent DEF f

LEMMA OptionalContent ==
  ASSUME OfferInv, AddOptional \/ RemoveOptional
  PROVE  Suits
<1>0. /\ Top.kind \in ChoiceKinds /\ ChoicesOK(env, Top) /\ FrameOK(Top)
  BY TopContent DEF AddOptional, RemoveOptional, ShowsChoices, Shows, ContentOK, ChoiceKinds
<1>1. CASE AddOptional
  <2>1. GoTo(Append(flow, AddOptionalData(env, Top, None, None)))
    BY <1>1 DEF AddOptional
  <2>2. ContentOK(env, Top, AddOptionalData(env, Top, None, None))
    BY TopContent, AddContent
  <2> QED
    BY <2>1, <2>2, PushContent
<1>2. CASE RemoveOptional
  <2>1. PICK discon, i : Replace(RefreshChoices(Top, discon, i, 0))
    BY <1>2 DEF RemoveOptional
  <2> DEFINE f == RefreshChoices(Top, discon, i, 0)
  <2>2. ChoicesOK(env, f)
    BY <1>0, RefreshChoicesContent
  <2>3. FrameOK(f) /\ f.kind = Top.kind
    BY <1>0, RefreshChoicesOK
  <2> HIDE DEF f
  <2>4. ContentOK(env, flow[Len(flow) - 1], f)
    BY <1>0, <2>2, <2>3 DEF ContentOK, ChoiceKinds
  <2> QED
    BY <2>1, <2>3, <2>4, ReplaceContent DEF f
<1> QED
  BY <1>1, <1>2

LEMMA MakeContent ==
  ASSUME OfferInv, ChooseOption \/ NextInMakeChoice
  PROVE  Suits
<1> DEFINE parent == flow[Len(flow) - 1]
<1>0. /\ Top.kind \in {"changeChoice", "addOptionalData"} /\ FrameOK(Top) /\ IsStack(flow)
      /\ Content(env, flow) /\ FromWallet(env) /\ ContentOK(env, parent, Top)
      /\ Top.selected \in DOMAIN Top.discon
  BY TopContent DEF ChooseOption, NextInMakeChoice, ShowsMakeChoice, Shows
<1>1. CASE ChooseOption
  <2>1. PICK k : Replace([Top EXCEPT !.selected = k])
    BY <1>1 DEF ChooseOption
  <2> DEFINE f == [Top EXCEPT !.selected = k]
  <2>2. /\ DOMAIN f = DOMAIN Top /\ f.kind = Top.kind /\ f.discon = Top.discon
        /\ f.index = Top.index /\ f.indices = Top.indices
    BY <1>0 DEF FrameOK
  <2> HIDE DEF f
  <2>3. FrameOK(f)
    BY <1>0, <2>2 DEF FrameOK, ChoiceKinds
  <2>4. ContentOK(env, parent, f)
    BY <1>0, <2>2 DEF ContentOK, ChoiceKinds, MakeOK, AddOK
  <2> QED
    BY <2>1, <2>2, <2>3, <2>4, ReplaceContent DEF f
<1>2. CASE NextInMakeChoice
  <2>1. Top.kind \notin Roots
    BY <1>0 DEF Roots
  <2>2. Len(flow) >= 2 /\ Len(flow) \in Nat /\ parent.kind \in ChoiceKinds
    BY <1>0, <2>1, FrontStack, StackBounds, ParentsOf DEF Top
  <2>3. Len(flow) - 1 \in 1 .. Len(flow) /\ parent.kind \in Roots
    <3>1. PICK N \in Nat : N = Len(flow) /\ N >= 2
      BY <2>2
    <3>2. N - 1 \in 1 .. N
      BY <3>1
    <3> QED
      BY <2>2, <3>1, <3>2 DEF Roots, ChoiceKinds
  <2>4. Len(flow) - 1 = 1 /\ FrameOK(parent) /\ ChoicesOK(env, parent)
    <3>1. FrameOK(parent) /\ ContentOK(env, flow[Len(flow) - 1 - 1], parent)
      BY <1>0, <2>3 DEF IsStack, Content
    <3> QED
      BY <1>0, <2>2, <2>3, <3>1, StackRoots DEF ContentOK
  <2>5. SubSeq(flow, 1, Len(flow) - 2) = << >>
    <3>1. PICK S : flow \in Seq(S)
      BY <1>0 DEF IsStack
    <3>2. Len(flow) - 2 = 0
      BY <2>2, <2>4
    <3>3. SubSeq(flow, 1, 0) = << >>
      BY <3>1
    <3> QED
      BY <3>2, <3>3
  <2> DEFINE con == SelectedCon(Top)
  <2>6. \/ ObtainCredentials(con)
        \/ /\ AllChoosable(con)
           /\ \/ /\ Top.kind = "changeChoice"
                 /\ GoTo(Append(SubSeq(flow, 1, Len(flow) - 2),
                                RefreshChoices(parent, Top.discon, Top.index, Top.selected)))
              \/ /\ Top.kind = "addOptionalData"
                 /\ GoTo(Append(SubSeq(flow, 1, Len(flow) - 2),
                                RefreshChoices(parent, <<con>>, Top.indices[Top.selected], 1)))
    BY <1>0, <1>2 DEF NextInMakeChoice
  <2>7. con = Top.discon[Top.selected]
    BY DEF SelectedCon
  <2> HIDE DEF parent, con
  <2>8. CASE ObtainCredentials(con)
    BY <2>8, ObtainContent
  <2>9. ASSUME NEW discon, NEW i, NEW k \in Nat,
               k > 0 => i \in DOMAIN parent.required \cup Opt /\ Choice(env, parent.kind, i, discon[k]),
               GoTo(Append(<< >>, RefreshChoices(parent, discon, i, k)))
        PROVE  Suits
    <3> DEFINE f == RefreshChoices(parent, discon, i, k)
    <3>1. ChoicesOK(env, f)
      BY <2>2, <2>4, <2>9, RefreshChoicesContent
    <3>2. f.kind = parent.kind
      BY <2>2, <2>4, RefreshChoicesOK
    <3>3. GoTo(<<f>>)
      <4>1. Append(<< >>, f) = <<f>>
        OBVIOUS
      <4> QED
        BY <2>9, <4>1
    <3> HIDE DEF f
    <3>4. \A p : ContentOK(env, p, f)
      BY <2>2, <3>1, <3>2 DEF ContentOK, ChoiceKinds
    <3>5. Content(env, <<f>>)
      BY <1>0, <2>3, <3>2, <3>4, ContentSingle
    <3> QED
      BY <3>3, <3>5, GoToContent
  <2>10. CASE /\ AllChoosable(con) /\ Top.kind = "changeChoice"
              /\ GoTo(Append(<< >>, RefreshChoices(parent, Top.discon, Top.index, Top.selected)))
    <3>1. MakeOK(env, parent, Top)
      BY <1>0, <2>10 DEF ContentOK, parent
    <3>2. Top.selected \in Nat
      BY <1>0, <3>1 DEF MakeOK
    <3>3. con \in ToSet(Top.discon)
      BY <1>0, <2>7 DEF ToSet
    <3>4. Choice(env, parent.kind, Top.index, Top.discon[Top.selected])
      BY <2>7, <2>10, <3>1, <3>3 DEF MakeOK
    <3>5. Top.index \in DOMAIN parent.required \cup Opt
      BY <2>4, <3>1, ChoicesDomain DEF MakeOK, ChoicesOK
    <3> QED
      BY <2>9, <2>10, <3>2, <3>4, <3>5
  <2>11. CASE /\ AllChoosable(con) /\ Top.kind = "addOptionalData"
              /\ GoTo(Append(<< >>, RefreshChoices(parent, <<con>>, Top.indices[Top.selected], 1)))
    <3>1. AddOK(env, parent, Top)
      BY <1>0, <2>11 DEF ContentOK, parent
    <3>2. /\ Top.indices[Top.selected] \in Opt
          /\ Choice(env, parent.kind, Top.indices[Top.selected], con)
      BY <1>0, <2>7, <2>11, <3>1 DEF AddOK
    <3>3. <<con>>[1] = con /\ 1 \in Nat
      OBVIOUS
    <3> QED
      BY <2>9, <2>11, <3>2, <3>3
  <2> QED
    BY <2>5, <2>6, <2>8, <2>10, <2>11
<1> QED
  BY <1>1, <1>2

LEMMA LeaveContent ==
  ASSUME OfferInv, Dismiss
  PROVE  Suits
BY TopContent, FinishedContent DEF Dismiss, Suits

\* What is sent is an option for every discon, held in full and valid: a required
\* discon has a choice in the overview, and an optional one without is not disclosed.
LEMMA SendOffers ==
  ASSUME OfferInv, Sends
  PROVE  AnswerIsOffered'
<1>1. /\ Top.kind = "overview" /\ ChoicesValid(Top) /\ ChoicesOK(env, Top)
      /\ request \in Requests /\ FromWallet(env) /\ DOMAIN env.candidates = DOMAIN request
      /\ request' = request /\ env' = env
  BY TopContent DEF Sends, SendChoices, Shows, ContentOK, ChoiceKinds
<1>2. answer' = [i \in DOMAIN request |->
                   IF i \in DOMAIN ChoicesOf(Top) THEN ChoicesOf(Top)[i] ELSE << >>]
  BY <1>1 DEF Sends, SendChoices
<1>3. ASSUME NEW i \in DOMAIN request
      PROVE  answer'[i] \in ToSet(env.candidates[i]) /\ AllValid(answer'[i])
  <2>1. CASE i \in DOMAIN ChoicesOf(Top)
    <3>1. answer'[i] = ChoicesOf(Top)[i]
      BY <1>2, <2>1
    <3>2. IsOffered(env, i, ChoicesOf(Top)[i])
      BY <1>1, <2>1, ChosenOK DEF Choice
    <3> QED
      BY <1>1, <2>1, <3>1, <3>2 DEF IsOffered, ChoicesValid
  <2>2. CASE i \notin DOMAIN ChoicesOf(Top)
    <3>1. answer'[i] = << >>
      BY <1>2, <2>2
    <3>2. i \in Opt
      BY <1>1, <2>2, ChoicesDomain DEF ChoicesOK
    <3>3. << >> \in ToSet(env.candidates[i])
      BY <1>1, <3>2, CandidatesOK DEF Opt, IsOptional
    <3>4. AllValid(<< >>)
      BY DEF AllValid, ToSet
    <3> QED
      BY <3>1, <3>3, <3>4
  <2> QED
    BY <2>1, <2>2
<1>4. ASSUME NEW i \in DOMAIN request
      PROVE  ToSet(answer'[i]) \in {ToSet(con) : con \in ToSet(env.candidates[i])}
  BY <1>3
<1> QED
  BY <1>1, <1>3, <1>4 DEF AnswerIsOffered

LEMMA SendContent ==
  ASSUME OfferInv, WalkInv', Sends
  PROVE  OfferInv'
<1>1. request' = request /\ env' = env /\ flow' = Finished /\ status' = "left"
  BY DEF Sends, SendChoices
<1>2. Content(env', flow')
  BY <1>1, TopContent, FinishedContent
<1>3. Content(env, flow)'
  BY <1>1, <1>2, RequestStays
<1> QED
  BY <1>1, <1>3, SendOffers DEF OfferInv

LEMMA DialogContent ==
  ASSUME OfferInv, WalkInv', NextInOverview \/ ConfirmInDialog \/ DismissDialog
  PROVE  OfferInv'
<1>1. CASE Sends
  BY <1>1, SendContent
<1>2. CASE Marks \/ Rests
  BY <1>2, MarkContent, RestContent, SuitsStep
<1> QED
  BY <1>1, <1>2, Presses

LEMMA OfferStep ==
  ASSUME OneWayRequests, SingletonsStay, OfferInv, [Next]_vars
  PROVE  OfferInv'
<1>1. WalkInv'
  BY WalkStep DEF OfferInv
<1>2. CASE System
  BY <1>1, <1>2, SystemContent, SuitsStep
<1>3. CASE User
  <2>1. CASE NextInOverview \/ ConfirmInDialog \/ DismissDialog
    BY <1>1, <2>1, DialogContent
  <2>2. CASE \/ ChooseInWizard \/ NextInWizard \/ CompleteWizard
             \/ NextInIntroduction \/ NextInObtainCredentials \/ Previous
    BY <1>1, <2>2, WizardContent, PageContent, SuitsStep
  <2>3. CASE NextInPreviouslyAdded \/ ChangeChoice
    BY <1>1, <2>3, PreviousContent, ChangeContent, SuitsStep
  <2>4. CASE AddOptional \/ RemoveOptional \/ ChooseOption \/ NextInMakeChoice \/ Dismiss
    BY <1>1, <2>4, OptionalContent, MakeContent, LeaveContent, SuitsStep
  <2> QED
    BY <1>3, <2>1, <2>2, <2>3, <2>4 DEF User
<1>4. CASE UNCHANGED vars
  BY <1>1, <1>4, RestContent, SuitsStep DEF vars, Rests
<1> QED
  BY <1>2, <1>3, <1>4 DEF Next

-----------------------------------------------------------------------------
(* The theorems. *)

\* What the user confirms is what irmaclient offers: for every discon one of its last
\* options, held in full and valid, and nothing where it may be left out, however the
\* candidates changed and whatever was obtained meanwhile.  The bloc promises this for
\* requests of which an option that can be chosen has all there is to choose of its
\* discon, and when no credential takes the place of another.
THEOREM AnswerTheorem ==
  ASSUME OneWayRequests, SingletonsStay
  PROVE  Spec => []AnswerIsOffered
<1>1. OfferInv => AnswerIsOffered
  BY DEF OfferInv, AnswerIsOffered
<1>2. OfferInv /\ [Next]_vars => OfferInv'
  BY OfferStep
<1> QED
  BY <1>1, <1>2, OfferInit, PTL DEF Spec

\* A wizard that says it is completed leads on: for every discon the bloc then prefers
\* an option that can be chosen, so that the cast of the choices does not fail.
THEOREM WizardTheorem ==
  ASSUME OneWayRequests, SingletonsStay
  PROVE  Spec => []WizardLeadsOn
<1>1. ASSUME OfferInv PROVE WizardLeadsOn
  <2>1. /\ request \in Requests /\ FromWallet(env) /\ Parsed(env) = env.candidates
        /\ ContentOK(env, flow[Len(flow) - 1], Top)
    BY <1>1, TopContent
  <2> SUFFICES ASSUME Top.kind = "issueWizard", IsCompleted(Top), NEW i \in DOMAIN request
               PROVE  AllChoosable(BestChoices(Parsed(env))[i])
    BY DEF WizardLeadsOn
  <2>2. Ready(env, i)
    BY <2>1 DEF ContentOK, WizardOK, IsCompleted
  <2> QED
    BY <2>1, <2>2, BestChoicesOK
<1>2. OfferInv /\ [Next]_vars => OfferInv'
  BY OfferStep
<1> QED
  BY <1>1, <1>2, OfferInit, PTL DEF Spec

-----------------------------------------------------------------------------
(* What is chosen in the overview stays chosen. *)

\* An optional discon has the option of nothing first.
EmptyFirst ==
  \A req \in Requests : \A discon \in ToSet(req) :
    \A k \in DOMAIN discon : discon[k] = << >> => k = 1

\* The first of a first sequence that has something is the first of them all.
LEMMA FlattenFirst ==
  ASSUME NEW S, NEW s \in Seq(Seq(S)), s # << >>, s[1] # << >>
  PROVE  FlattenSeq(s) \in Seq(S) /\ FlattenSeq(s) # << >> /\ FlattenSeq(s)[1] = s[1][1]
<1>0. Len(s) \in Nat /\ Len(s) # 0 /\ 1 \in 1 .. Len(s) /\ Len(s) \in 1 .. Len(s)
  OBVIOUS
<1> DEFINE flatten[i \in 1 .. Len(s)] == IF i = 1 THEN s[i] ELSE flatten[i - 1] \o s[i]
<1>1. FlattenSeq(s) = flatten[Len(s)]
  BY <1>0 DEF FlattenSeq
<1>2. flatten = CHOOSE f : Flattens(f, s, Len(s))
  BY DEF Flattens
<1> HIDE DEF flatten
<1>3. Flattens(flatten, s, Len(s))
  BY <1>0, <1>2, FlattensExists
<1> DEFINE OK(F) == F \in Seq(S) /\ F # << >> /\ F[1] = s[1][1]
           T == {n \in 0 .. Len(s) : n = 0 \/ OK(flatten[n])}
<1>4. 0 \in T
  BY <1>0
<1>5. ASSUME NEW n \in 0 .. Len(s) - 1, n \in T PROVE n + 1 \in T
  <2>1. PICK m : m = n + 1
    OBVIOUS
  <2>0. m \in 1 .. Len(s)
    BY <1>0, <2>1
  <2>2. m \in 1 .. Len(s) /\ m - 1 = n /\ m \in 0 .. Len(s) /\ s[m] \in Seq(S)
    BY <1>0, <2>1
  <2>3. flatten[m] = IF m = 1 THEN s[m] ELSE flatten[m - 1] \o s[m]
    BY <1>0, <1>3, <2>0, FlattensNext
  <2>4. CASE m = 1
    <3>1. OK(flatten[m])
      BY <2>2, <2>3, <2>4
    <3> HIDE DEF OK
    <3> QED
      BY <2>1, <2>2, <3>1
  <2>5. CASE m # 1
    <3>1. n # 0
      BY <2>1, <2>2, <2>5
    <3>2. OK(flatten[n])
      BY <1>5, <3>1
    <3>3. PICK F : F = flatten[n] /\ OK(F)
      BY <3>2
    <3>4. PICK G : G = F \o s[m]
      OBVIOUS
    <3>5. F \in Seq(S) /\ Len(F) \in Nat /\ 1 \in 1 .. Len(F)
      BY <3>3
    <3>6. G \in Seq(S) /\ Len(G) = Len(F) + Len(s[m]) /\ G[1] = F[1]
      BY <2>2, <3>4, <3>5, Concatenated
    <3>7. flatten[m] = G /\ OK(G)
      <4>1. Len(s[m]) \in Nat
        BY <2>2
      <4>2. G # << >>
        BY <3>5, <3>6, <4>1
      <4>3. flatten[m] = G
        BY <2>2, <2>3, <2>5, <3>3, <3>4
      <4> QED
        BY <3>3, <3>6, <4>2, <4>3
    <3> HIDE DEF OK
    <3> QED
      BY <2>1, <2>2, <3>7
  <2> QED
    BY <2>4, <2>5
<1> HIDE DEF T
<1>6. \A n \in 0 .. Len(s) : n \in T
  BY <1>0, <1>4, <1>5, Induction
<1>7. Len(s) \in T /\ Len(s) # 0
  BY <1>0, <1>6
<1> QED
  BY <1>1, <1>7 DEF T

\* If a discon starts with the option of nothing, so do its candidates.
LEMMA EmptyOption ==
  ASSUME NEW w \in Seq(Credential), NEW discon \in Seq(Seq(Entry)), 1 \in DOMAIN discon,
         discon[1] = << >>
  PROVE  DisConCandidates(w, discon)[1] = << >>
<1> DEFINE C == ConCandidates(w, discon[1])
           s == [k \in DOMAIN discon |-> ConCandidates(w, discon[k])]
           O == OptionsOf(w, discon)
           S == StartChoosable(O)
           D == DisConCandidates(w, discon)
<1>1. C \in Seq(Seq(Part)) /\ C # << >> /\ C[1] = << >>
  <2>1. discon[1] \in Seq(Entry)
    OBVIOUS
  <2>2. C \in Seq(Seq(Part)) /\ C # << >> /\ \A x \in ToSet(C) : Follows(w, discon[1], x)
    BY <2>1, ConElements
  <2> HIDE DEF C
  <2>3. C[1] \in ToSet(C)
    BY <2>2 DEF ToSet
  <2>4. C[1] = << >>
    BY <2>1, <2>2, <2>3, NoEntries
  <2> QED
    BY <2>2, <2>4
<1>2. s \in Seq(Seq(Seq(Part))) /\ s # << >> /\ s[1] = C
  <2>1. \A k \in DOMAIN discon : ConCandidates(w, discon[k]) \in Seq(Seq(Part))
    BY ConElements
  <2>2. DOMAIN discon = 1 .. Len(discon) /\ Len(discon) \in Nat
    OBVIOUS
  <2> QED
    BY <2>1, <2>2
<1>3. O = FlattenSeq(s)
  BY DEF OptionsOf
<1> HIDE DEF s, C, O
<1>4. O \in Seq(Seq(Part)) /\ O # << >> /\ O[1] = << >>
  BY <1>1, <1>2, <1>3, FlattenFirst
<1>5. << >> \in ToSet(O) \cap S
  BY <1>4 DEF ToSet, StartChoosable
<1>6. IsMoved(D, O, S)
  BY DisConShape DEF IsMoved, O
<1>7. D \in Seq(Seq(Part)) /\ << >> \in ToSet(D)
  <2>1. << >> \in ToSet(discon)
    BY DEF ToSet
  <2> QED
    BY <2>1, DisConOffers
<1> HIDE DEF D, S
<1>8. 1 \in DOMAIN D
  BY <1>7, SomeElement
<1>9. ASSUME D[1] # << >> PROVE FALSE
  <2>1. Before(O, S, << >>, D[1])
    <3>1. ASSUME NEW m \in DOMAIN O, O[m] = D[1] PROVE 1 \in 1 .. m - 1
      <4>1. m # 1
        BY <1>4, <1>9, <3>1, SMTT(30)
      <4>2. m \in 1 .. Len(O) /\ Len(O) \in Nat
        BY <1>4
      <4> QED
        BY <4>1, <4>2
    <3> QED
      BY <1>4, <3>1 DEF Before
  <2>2. \E p \in 1 .. 1 - 1 : D[p] = << >>
    BY <1>4, <1>5, <1>6, <1>8, <2>1, MovedToFront
  <2> QED
    BY <2>2
<1> QED
  BY <1>9 DEF D

\* A valid choice that is still an option is looked for first.
LEMMA FindKept ==
  ASSUME NEW e, NEW X, NEW discon \in Seq(X), NEW prevDiscon, NEW choice,
         choice # None, AllValid(choice), choice \in ToSet(discon)
  PROVE  LET k == FindSelectedConIndex(e, discon, prevDiscon, choice, TRUE)
         IN  /\ k \in 1 .. Len(discon) /\ ToSet(choice) \subseteq ToSet(discon[k])
             /\ \A i \in 1 .. Len(discon) : ToSet(choice) \subseteq ToSet(discon[i]) => k <= i
<1> DEFINE K == Keeping(discon, choice)
           k == FindSelectedConIndex(e, discon, prevDiscon, choice, TRUE)
<1>1. First(K) > 0 => k = First(K)
  BY DEF FindSelectedConIndex, SelectInSeq, First, Keeping
<1>2. /\ K \subseteq 1 .. Len(discon) /\ Len(discon) \in Nat
      /\ \A i \in 1 .. Len(discon) : i \in K <=> ToSet(choice) \subseteq ToSet(discon[i])
  BY DEF Keeping
<1>3. K # {}
  <2>1. PICK i \in 1 .. Len(discon) : discon[i] = choice
    BY DEF ToSet
  <2> QED
    BY <1>2, <2>1
<1> HIDE DEF K, k
<1>4. First(K) \in 1 .. Len(discon) /\ First(K) \in K /\ \A i \in K : First(K) <= i
  BY <1>2, <1>3, FirstIn
<1>5. k = First(K)
  BY <1>1, <1>2, <1>4
<1> QED
  BY <1>2, <1>4, <1>5 DEF k

\* An option that has all of another is the other: credentials of one con differ in type.
LEMMA SameOption ==
  ASSUME NEW w \in Seq(Credential), NEW discon \in Seq(Seq(Entry)), OneWay(discon),
         \A con \in ToSet(discon) : \A k, l \in DOMAIN con : con[k].type = con[l].type => k = l,
         NEW x \in ToSet(DisConCandidates(w, discon)), AllChoosable(x), x # << >>,
         NEW y \in ToSet(DisConCandidates(w, discon)), ToSet(x) \subseteq ToSet(y)
  PROVE  y = x
<1> DEFINE D == DisConCandidates(w, discon)
<1>1. /\ \A u \in ToSet(D) : \E k \in DOMAIN discon : Follows(w, discon[k], u)
      /\ x \in ToSet(D) /\ y \in ToSet(D)
  BY DisConOffers
<1> HIDE DEF D
<1>2. PICK k \in DOMAIN discon : Follows(w, discon[k], x)
  BY <1>1
<1>3. PICK l \in DOMAIN discon : Follows(w, discon[l], y)
  BY <1>1
<1>4. /\ discon[k] \in Seq(Entry) /\ discon[l] \in Seq(Entry)
      /\ discon[k] \in ToSet(discon) /\ discon[l] \in ToSet(discon)
  BY DEF ToSet
<1>5. /\ x \in Seq(Part) /\ Len(x) = Len(discon[k]) /\ y \in Seq(Part) /\ Len(y) = Len(discon[l])
      /\ Len(x) \in Nat /\ Len(y) \in Nat
      /\ DOMAIN x = 1 .. Len(x) /\ DOMAIN y = 1 .. Len(y)
  BY <1>2, <1>3 DEF Follows
<1>6. ASSUME NEW j \in 1 .. Len(x) PROVE \E m \in 1 .. Len(y) : y[m] = x[j]
  <2>1. x[j] \in ToSet(y)
    BY <1>5 DEF ToSet
  <2> QED
    BY <1>5, <2>1 DEF ToSet
<1>7. Len(x) >= 1 /\ Len(y) >= 1
  <2>1. Len(x) # 0
    <3> HIDE DEF Part
    <3> QED
      BY <1>5
  <2>2. 1 \in 1 .. Len(x)
    BY <1>5, <2>1
  <2>3. PICK m \in 1 .. Len(y) : y[m] = x[1]
    BY <1>6, <2>2
  <2> QED
    BY <1>5, <2>1, <2>3
<1>8. CASE \A con \in ToSet(discon) : Len(con) <= 1
  <2>1. Len(x) = 1 /\ Len(y) = 1
    <3>1. Len(discon[k]) <= 1 /\ Len(discon[l]) <= 1
      BY <1>4, <1>8
    <3> QED
      BY <1>5, <1>7, <3>1
  <2>2. y[1] = x[1]
    <3>1. \A m \in 1 .. 1 : m = 1
      OBVIOUS
    <3> QED
      BY <1>6, <2>1, <3>1
  <2>3. \A j \in DOMAIN x : y[j] = x[j]
    BY <1>5, <2>1, <2>2
  <2> HIDE DEF Part
  <2> QED
    BY <1>5, <2>1, <2>3
<1>9. CASE \A i, j \in DOMAIN discon : discon[i] # << >> /\ discon[j] # << >> => i = j
  <2>1. k = l
    <3>1. discon[k] # << >> /\ discon[l] # << >>
      BY <1>4, <1>5, <1>7
    <3> QED
      BY <1>9, <3>1
  <2> DEFINE con == discon[k]
  <2>2. con \in Seq(Entry) /\ Len(con) = Len(x) /\ Len(y) = Len(x) /\ DOMAIN con = 1 .. Len(x)
    BY <1>4, <1>5, <2>1
  <2>3. \A i, j \in DOMAIN con : con[i].type = con[j].type => i = j
    BY <1>4
  <2>4. \A j \in 1 .. Len(x) :
          /\ x[j] = con[j] \/ MatchesCredential(con[j], x[j])
          /\ y[j] = con[j] \/ MatchesCredential(con[j], y[j])
    BY <1>2, <1>3, <2>1, <2>2 DEF Follows
  <2> HIDE DEF con
  <2>5. \A j \in 1 .. Len(x) : x[j].type = con[j].type /\ y[j].type = con[j].type
    BY <2>4 DEF MatchesCredential
  <2>6. \A j \in 1 .. Len(x) : y[j] = x[j]
    <3>1. ASSUME NEW j \in 1 .. Len(x) PROVE y[j] = x[j]
      <4>1. PICK m \in 1 .. Len(y) : y[m] = x[j]
        BY <1>6
      <4>2. m \in DOMAIN con /\ j \in DOMAIN con /\ m \in 1 .. Len(x)
        BY <2>2, <4>1
      <4>3. con[m].type = con[j].type
        BY <2>5, <4>1, <4>2
      <4> QED
        BY <2>3, <4>1, <4>2, <4>3
    <3> QED
      BY <3>1
  <2> HIDE DEF Part
  <2> QED
    BY <1>5, <2>2, <2>6
<1> QED
  BY <1>8, <1>9 DEF OneWay

\* A valid choice that is still offered is refreshed to itself.
LEMMA ChoiceRefreshed ==
  ASSUME OneWayRequests, EmptyFirst, request \in Requests, NEW e, KnownOK(e), FromWallet(e),
         NEW i \in DOMAIN request, NEW choice, IsOffered(e, i, choice), AllValid(choice)
  PROVE  RefreshedChoice(e, i, choice) = choice
<1>1. PICK w \in Seq(Credential) : e.candidates = Candidates(w, request)
  BY DEF FromWallet
<1> DEFINE D == e.candidates[i]
           d == request[i]
           k == FindSelectedConIndex(e, D, <<choice>>, choice, TRUE)
<1>2. D = DisConCandidates(w, d)
  BY <1>1 DEF Candidates
<1>3. /\ d \in Seq(Seq(Entry)) /\ d # << >> /\ OneWay(d) /\ d \in ToSet(request)
      /\ \A con \in ToSet(d) : \A m, l \in DOMAIN con : con[m].type = con[l].type => m = l
  BY RequestFacts DEF OneWayRequests
<1>4. D \in Seq(Seq(Part)) /\ choice \in ToSet(D) /\ AllChoosable(choice) /\ Parsed(e)[i] = D
  BY CandidatesOK, ParsedOK DEF IsOffered
<1>5. RefreshedChoice(e, i, choice) = IF AllChoosable(D[k]) THEN D[k] ELSE choice
  BY <1>4 DEF RefreshedChoice
<1> HIDE DEF D, d
<1>6. choice # None
  <2>1. choice \in Seq(Part)
    BY <1>4 DEF ToSet
  <2> QED
    BY <2>1, NoneAssumption DEF Part
<1>7. /\ k \in 1 .. Len(D) /\ ToSet(choice) \subseteq ToSet(D[k])
      /\ \A m \in 1 .. Len(D) : ToSet(choice) \subseteq ToSet(D[m]) => k <= m
  BY <1>4, <1>6, FindKept
<1> HIDE DEF k
<1>8. D[k] \in ToSet(D)
  BY <1>4, <1>7 DEF ToSet
<1>9. CASE choice # << >>
  <2>1. D[k] = choice
    <3>1. PICK y : y = D[k]
      OBVIOUS
    <3>2. /\ choice \in ToSet(DisConCandidates(w, d)) /\ y \in ToSet(DisConCandidates(w, d))
          /\ ToSet(choice) \subseteq ToSet(y)
      BY <1>2, <1>4, <1>7, <1>8, <3>1
    <3>3. /\ d \in Seq(Seq(Entry)) /\ OneWay(d) /\ AllChoosable(choice)
          /\ \A con \in ToSet(d) : \A m, l \in DOMAIN con : con[m].type = con[l].type => m = l
      BY <1>3, <1>4
    <3>4. y = choice
      BY <1>9, <3>2, <3>3, SameOption
    <3> QED
      BY <3>1, <3>4
  <2> QED
    BY <1>5, <2>1
<1>10. CASE choice = << >>
  <2>1. << >> \in ToSet(d)
    BY <1>2, <1>3, <1>4, <1>10, DisConOffers
  <2>2. PICK m \in DOMAIN d : d[m] = << >>
    BY <2>1 DEF ToSet
  <2>3. request \in Requests /\ d \in ToSet(request)
    BY <1>3
  <2>4. m = 1
    BY <2>2, <2>3 DEF EmptyFirst
  <2>5. D[1] = << >>
    BY <1>2, <1>3, <2>2, <2>4, EmptyOption
  <2>6. k = 1
    <3>1. ToSet(choice) = {}
      BY <1>10 DEF ToSet
    <3>2. Len(D) \in Nat /\ 1 \in 1 .. Len(D)
      BY <1>4, <1>7
    <3>3. k <= 1
      BY <1>7, <3>1, <3>2
    <3> QED
      BY <1>7, <3>2, <3>3
  <2> QED
    BY <1>5, <1>10, <2>5, <2>6
<1> QED
  BY <1>9, <1>10

\* The step of a choice that is valid.
Stays(f, g) ==
  \A i \in DOMAIN ChoicesOf(f) \cap DOMAIN ChoicesOf(g) :
    AllValid(ChoicesOf(f)[i]) => ChoicesOf(g)[i] = ChoicesOf(f)[i]

LEMMA OverviewStays ==
  ASSUME OneWayRequests, EmptyFirst, request \in Requests, NEW e, KnownOK(e), FromWallet(e),
         NEW f, DOMAIN f = ChoicesFields, f.kind = "overview", ChoicesOK(e, f)
  PROVE  Stays(f, RefreshOverview(e, f))
<1> DEFINE g == RefreshOverview(e, f)
           Refreshed(choices) == [i \in DOMAIN choices |-> RefreshedChoice(e, i, choices[i])]
<1>1. g.required = Refreshed(f.required) /\ g.optional = Refreshed(f.optional)
  BY DEF RefreshOverview, ChoicesFields
<1> HIDE DEF g
<1>2. /\ DOMAIN g.required = DOMAIN f.required /\ DOMAIN g.optional = DOMAIN f.optional
      /\ \A i \in DOMAIN f.required : g.required[i] = RefreshedChoice(e, i, f.required[i])
      /\ \A i \in DOMAIN f.optional : g.optional[i] = RefreshedChoice(e, i, f.optional[i])
  BY <1>1
<1> SUFFICES ASSUME NEW i \in DOMAIN ChoicesOf(f), AllValid(ChoicesOf(f)[i])
             PROVE  ChoicesOf(g)[i] = ChoicesOf(f)[i]
  BY DEF Stays, g
<1>3. ChoicesOf(g)[i] = RefreshedChoice(e, i, ChoicesOf(f)[i])
  <2>1. /\ i \in DOMAIN f.required \cup DOMAIN f.optional
        /\ ChoicesOf(f)[i] = IF i \in DOMAIN f.required THEN f.required[i] ELSE f.optional[i]
    BY ChoicesDomain
  <2>2. i \in DOMAIN ChoicesOf(g)
    BY <1>2, <2>1, ChoicesDomain
  <2>3. ChoicesOf(g)[i] = IF i \in DOMAIN g.required THEN g.required[i] ELSE g.optional[i]
    BY <2>2, ChoicesDomain
  <2> QED
    BY <1>2, <2>1, <2>3
<1>4. i \in DOMAIN request /\ IsOffered(e, i, ChoicesOf(f)[i])
  BY ChosenOK DEF Choice
<1> QED
  BY <1>3, <1>4, ChoiceRefreshed

\* Such a step, between overviews.
Kept == Top.kind = "overview" /\ Top'.kind = "overview" => Stays(Top, Top')

LEMMA NewsRefreshes ==
  ASSUME OfferInv, NEW e, IsNews(e), Top.kind = "overview"
  PROVE  /\ request \in Requests /\ DOMAIN Top = ChoicesFields /\ ChoicesOK(e, Top)
         /\ Top' \in {Top, RefreshOverview(e, Top)}
<1>1. /\ request \in Requests /\ IsStack(flow) /\ Content(env, flow) /\ KnownOK(e)
      /\ FromWallet(e) /\ Keeps(env, e) /\ Learns(e)
  BY TopContent DEF IsNews
<1>2. Content(e, flow)
  BY <1>1, ContentKeeps
<1> DEFINE N == Len(flow)
<1>3. N \in Nat /\ N \in 1 .. N /\ Top = flow[N] /\ FrameOK(Top)
  BY <1>1, StackBounds DEF Top
<1>4. DOMAIN Top = ChoicesFields
  BY <1>3 DEF FrameOK, ChoiceKinds
<1>5. ChoicesOK(e, Top)
  BY <1>2, <1>3 DEF Content, ContentOK, ChoiceKinds
<1>6. CASE UNCHANGED flow
  BY <1>1, <1>4, <1>5, <1>6 DEF Top
<1>7. CASE flow' = MapSessionStateToBlocState(e, flow).flow
  <2>1. PICK f : Levels(f, e, flow)
    BY <1>1, MapLevels
  <2>2. Affected(flow) = flow /\ ~PassesOn(flow[N])
    BY <1>3 DEF Affected, Top, PassesOn
  <2>3. f[N] = RefreshBase(e, SubSeq(flow, 1, N))
    <3>1. Maps(f, e, flow, N)
      BY <2>1, <2>2 DEF Levels
    <3> QED
      BY <1>3, <2>2, <3>1, MapsNext
  <2>4. IsStack(SubSeq(flow, 1, N)) /\ Last(SubSeq(flow, 1, N)) = Top
    BY <1>1, <1>3, CutStack
  <2> DEFINE stack == SubSeq(flow, 1, N)
             g == RefreshOverview(e, Top)
  <2>5. RefreshBase(e, stack) = Outcome(e, Append(Front(stack), g))
    BY <2>4 DEF RefreshBase
  <2>6. FrameOK(g) /\ g.kind = "overview"
    BY <1>4 DEF RefreshOverview, FrameOK, ChoicesFields, ChoiceKinds
  <2> HIDE DEF stack, g
  <2>7. Last(Append(Front(stack), g)) = g
    BY <2>4, <2>6, ReplaceStack DEF stack
  <2>8. flow' = Append(Front(stack), g)
    BY <1>7, <2>1, <2>2, <2>3, <2>5 DEF Levels, Outcome, stack
  <2>9. Top' = g
    BY <2>7, <2>8 DEF Top
  <2> QED
    BY <1>1, <1>4, <1>5, <2>9 DEF g
<1> QED
  BY <1>1, <1>6, <1>7 DEF Learns, SessionState

LEMMA NewsStays ==
  ASSUME OneWayRequests, EmptyFirst, OfferInv, NEW e, IsNews(e), Top.kind = "overview"
  PROVE  Stays(Top, Top')
<1>1. Stays(Top, Top)
  BY DEF Stays
<1>2. Stays(Top, RefreshOverview(e, Top))
  BY NewsRefreshes, OverviewStays DEF IsNews
<1> QED
  BY <1>1, <1>2, NewsRefreshes

LEMMA FlowStays ==
  ASSUME UNCHANGED flow
  PROVE  Kept
BY DEF Kept, Stays, Top

LEMMA FinishedStays ==
  ASSUME flow' = Finished
  PROVE  Kept
<1>1. Top'.kind = "finished"
  BY DEF Finished, Top, Last
<1> QED
  BY <1>1 DEF Kept

LEMMA PushStays ==
  ASSUME OfferInv, NEW f, GoTo(Append(flow, f)), f.kind # "overview"
  PROVE  Kept
<1>1. PICK S : flow \in Seq(S)
  BY TopContent DEF IsStack
<1>2. Top' = f
  BY <1>1 DEF GoTo, Top, Last
<1> QED
  BY <1>2 DEF Kept

LEMMA ReplaceStays ==
  ASSUME OfferInv, NEW f, Replace(f) \/ Puts(f), Stays(Top, f)
  PROVE  Kept
<1>1. IsStack(flow)
  BY TopContent
<1>2. Top' = f
  <2>1. PICK S : Front(flow) \in Seq(S)
    <3>1. PICK S : flow \in Seq(S)
      BY <1>1 DEF IsStack
    <3>2. Front(flow) \in Seq(S)
      BY <3>1 DEF Front
    <3> QED
      BY <3>2
  <2>2. Last(Append(Front(flow), f)) = f
    <3> HIDE DEF Front
    <3> QED
      BY <2>1 DEF Last
  <2> QED
    BY <2>2 DEF Replace, GoTo, Puts, Top
<1> QED
  BY <1>2 DEF Kept

LEMMA MarkStays ==
  ASSUME OfferInv, Marks
  PROVE  Kept
<1>1. DOMAIN Top = ChoicesFields
  BY TopContent DEF Marks, Shows, FrameOK, ChoiceKinds
<1>2. PICK popup : Puts([Top EXCEPT !.popup = popup])
  BY DEF Marks
<1> DEFINE f == [Top EXCEPT !.popup = popup]
<1>3. f.required = Top.required /\ f.optional = Top.optional
  BY <1>1 DEF ChoicesFields
<1> HIDE DEF f
<1>4. ChoicesOf(f) = ChoicesOf(Top)
  BY <1>3 DEF ChoicesOf
<1>5. Stays(Top, f)
  BY <1>4 DEF Stays
<1> QED
  BY <1>2, <1>5, ReplaceStays DEF f

LEMMA RemoveStays ==
  ASSUME OfferInv, RemoveOptional
  PROVE  Kept
<1>1. DOMAIN Top = ChoicesFields
  BY TopContent DEF RemoveOptional, Shows, ShowsChoices, FrameOK, ChoiceKinds
<1>2. PICK discon, i : Replace(RefreshChoices(Top, discon, i, 0))
  BY DEF RemoveOptional
<1> DEFINE f == RefreshChoices(Top, discon, i, 0)
<1>3. /\ f.required = Top.required
      /\ f.optional = [j \in DOMAIN Top.optional \ {i} |-> Top.optional[j]]
  BY <1>1 DEF RefreshChoices, ChoicesFields, Restrict
<1> HIDE DEF f
<1>4. ASSUME NEW j \in DOMAIN ChoicesOf(Top) \cap DOMAIN ChoicesOf(f)
      PROVE  ChoicesOf(f)[j] = ChoicesOf(Top)[j]
  <2>1. /\ j \in DOMAIN f.required \cup DOMAIN f.optional
        /\ ChoicesOf(f)[j] = IF j \in DOMAIN f.required THEN f.required[j] ELSE f.optional[j]
        /\ ChoicesOf(Top)[j] =
             IF j \in DOMAIN Top.required THEN Top.required[j] ELSE Top.optional[j]
    BY ChoicesDomain
  <2> QED
    BY <1>3, <2>1
<1>5. Stays(Top, f)
  BY <1>4 DEF Stays
<1> QED
  BY <1>2, <1>5, ReplaceStays DEF f

LEMMA KeptStep ==
  ASSUME OneWayRequests, EmptyFirst, OfferInv, [Next]_vars
  PROVE  Kept
<1>1. CASE Top.kind # "overview"
  BY <1>1 DEF Kept
<1>2. CASE Announce \/ RefreshCandidates
  <2>1. PICK e : IsNews(e)
    BY <1>2, NewsContent
  <2> QED
    BY <2>1, NewsStays DEF Kept
<1>3. CASE ReceiveCredentials \/ UNCHANGED vars
  BY <1>3, FlowStays DEF ReceiveCredentials, vars
<1>4. CASE LeaveRequest \/ Dismiss
  BY <1>4, FlowStays, FinishedStays DEF LeaveRequest, Dismiss
<1>5. CASE NextInOverview \/ ConfirmInDialog \/ DismissDialog
  BY <1>5, Presses, MarkStays, FlowStays, FinishedStays DEF Sends, SendChoices, Rests
<1>6. CASE RemoveOptional
  BY <1>6, RemoveStays
<1>7. CASE ChangeChoice
  <2>1. PICK i, discon, selected :
          GoTo(Append(flow, [kind |-> "changeChoice", index |-> i, discon |-> discon,
                             selected |-> selected]))
    BY <1>7 DEF ChangeChoice
  <2> QED
    BY <2>1, PushStays
<1>8. CASE AddOptional
  <2>1. GoTo(Append(flow, AddOptionalData(env, Top, None, None)))
    BY <1>8 DEF AddOptional
  <2>2. AddOptionalData(env, Top, None, None).kind # "overview"
    BY DEF AddOptionalData
  <2> QED
    BY <2>1, <2>2, PushStays
<1>9. CASE \/ ReadPreference \/ NextInIntroduction \/ ChooseInWizard \/ NextInWizard
           \/ CompleteWizard \/ NextInObtainCredentials \/ NextInPreviouslyAdded
           \/ ChooseOption \/ NextInMakeChoice \/ Previous
  <2>1. Top.kind # "overview"
    BY <1>9 DEF ReadPreference, NextInIntroduction, ChooseInWizard, NextInWizard, CompleteWizard,
                NextInObtainCredentials, NextInPreviouslyAdded, ChooseOption, NextInMakeChoice,
                Previous, Shows, ShowsChoices, ShowsMakeChoice
  <2> QED
    BY <1>1, <2>1
<1> QED
  BY <1>2, <1>3, <1>4, <1>5, <1>6, <1>7, <1>8, <1>9 DEF Next, System, User

\* A valid choice stays as it is until the user changes it: whatever is announced,
\* obtained, offered or repeated, a refresh finds the option of the choice first.  It
\* does for options of which one can be chosen without another, and for optional
\* discons written with the option of nothing first.
THEOREM ChoiceTheorem ==
  ASSUME OneWayRequests, SingletonsStay, EmptyFirst
  PROVE  Spec => ChoiceKept
<1>1. OfferInv /\ [Next]_vars => OfferInv'
  BY OfferStep
<1>2. OfferInv /\ [Next]_vars => Kept
  BY KeptStep
<1>3. Kept => [ Top.kind = "overview" /\ Top'.kind = "overview" =>
                  \A i \in DOMAIN ChoicesOf(Top) \cap DOMAIN ChoicesOf(Top') :
                    LET choice == ChoicesOf(Top)[i]
                    IN  AllValid(choice) /\ ToSet(choice) \subseteq ToSet(env'.wallet)
                          => ChoicesOf(Top')[i] = choice ]_vars
  BY DEF Kept, Stays
<1> QED
  BY <1>1, <1>2, <1>3, OfferInit, PTL DEF Spec, ChoiceKept

-----------------------------------------------------------------------------
(* The dialog that asks for confirmation. *)

\* Choices that stay are as valid as they were.
LEMMA StaysValid ==
  ASSUME NEW f, NEW g, Stays(f, g), ChoicesValid(f), DOMAIN ChoicesOf(g) \subseteq DOMAIN ChoicesOf(f)
  PROVE  ChoicesValid(g)
BY DEF Stays, ChoicesValid

LEMMA OverviewValid ==
  ASSUME OneWayRequests, EmptyFirst, request \in Requests, NEW e, KnownOK(e), FromWallet(e),
         NEW f, DOMAIN f = ChoicesFields, f.kind = "overview", ChoicesOK(e, f), ChoicesValid(f)
  PROVE  RefreshOverview(e, f).kind = "overview" /\ ChoicesValid(RefreshOverview(e, f))
<1> DEFINE g == RefreshOverview(e, f)
           Refreshed(choices) == [i \in DOMAIN choices |-> RefreshedChoice(e, i, choices[i])]
<1>1. /\ g.required = Refreshed(f.required) /\ g.optional = Refreshed(f.optional)
      /\ g.kind = f.kind
  BY DEF RefreshOverview, ChoicesFields
<1>2. Stays(f, g)
  BY OverviewStays
<1> HIDE DEF g
<1>3. DOMAIN g.required = DOMAIN f.required /\ DOMAIN g.optional = DOMAIN f.optional
  BY <1>1
<1>4. DOMAIN ChoicesOf(g) = DOMAIN ChoicesOf(f)
  BY <1>3, ChoicesDomain
<1>5. ChoicesValid(g)
  BY <1>2, <1>4, StaysValid
<1> QED
  BY <1>1, <1>5 DEF g

\* The dialog comes up over a valid overview.
LEMMA AskedValid ==
  ASSUME OfferInv, Top.kind = "overview", ChoicesValid(Top), AskConfirmation
  PROVE  Top'.kind = "overview" /\ ChoicesValid(Top')
<1>1. DOMAIN Top = ChoicesFields /\ IsStack(flow)
  BY TopContent DEF FrameOK, ChoiceKinds
<1> DEFINE f == [Top EXCEPT !.popup = TRUE]
<1>2. /\ f.required = Top.required /\ f.optional = Top.optional /\ f.kind = "overview"
      /\ DOMAIN f = ChoicesFields
  BY <1>1 DEF ChoicesFields
<1>3. flow' = Append(Front(flow), f)
  BY DEF AskConfirmation
<1> HIDE DEF f
<1>4. FrameOK(f)
  BY <1>2 DEF FrameOK, ChoicesFields
<1>5. Top' = f
  BY <1>1, <1>2, <1>3, <1>4, ReplaceStack DEF Top
<1>6. ChoicesOf(f) = ChoicesOf(Top)
  BY <1>2 DEF ChoicesOf
<1> QED
  BY <1>2, <1>5, <1>6 DEF ChoicesValid

LEMMA DialogKept ==
  ASSUME OneWayRequests, EmptyFirst, OfferInv, DialogIsValid, [Next]_vars
  PROVE  DialogIsValid'
<1>0. ChoicesValid(Top)' <=> ChoicesValid(Top')
  BY DEF ChoicesValid, ChoicesOf
<1> SUFFICES ASSUME dialog', status' = "request"
             PROVE  Top'.kind = "overview" /\ ChoicesValid(Top')
  BY <1>0 DEF DialogIsValid
<1>1. CASE NextInOverview \/ ConfirmInDialog \/ DismissDialog
  <2>1. AskConfirmation /\ Top.kind = "overview" /\ ChoicesValid(Top)
    BY <1>1 DEF NextInOverview, ConfirmInDialog, DismissDialog, SendChoices, Shows
  <2> QED
    BY <2>1, AskedValid
<1>2. CASE System \/ UNCHANGED vars
  <2>1. dialog' = dialog /\ status = "request"
    <3>1. status' = status \/ status' = "left"
      BY <1>2 DEF System, ReadPreference, Announce, ReceiveCredentials, RefreshCandidates,
                  LeaveRequest, vars
    <3> QED
      BY <1>2, <3>1, DialogStays DEF OfferInv, WalkInv
  <2>2. Top.kind = "overview" /\ ChoicesValid(Top)
    BY <2>1 DEF DialogIsValid
  <2>3. CASE Announce \/ RefreshCandidates
    <3>1. PICK e : IsNews(e)
      BY <2>3, NewsContent
    <3>2. RefreshOverview(e, Top).kind = "overview" /\ ChoicesValid(RefreshOverview(e, Top))
      BY <2>2, <3>1, NewsRefreshes, OverviewValid DEF IsNews
    <3> QED
      BY <2>2, <3>1, <3>2, NewsRefreshes
  <2>4. CASE ReceiveCredentials \/ UNCHANGED vars
    BY <2>2, <2>4 DEF ReceiveCredentials, vars, Top
  <2>5. ~ReadPreference /\ ~LeaveRequest
    BY <2>2 DEF ReadPreference, LeaveRequest
  <2> QED
    BY <1>2, <2>3, <2>4, <2>5 DEF System
<1>3. CASE OtherTaps
  <2>1. status = "request" /\ ~(Top.kind = "overview" /\ dialog)
    BY <1>3
    DEF OtherTaps, NextInIntroduction, ChooseInWizard, NextInWizard, CompleteWizard,
        NextInObtainCredentials, NextInPreviouslyAdded, ChangeChoice, ChooseOption,
        NextInMakeChoice, AddOptional, RemoveOptional, Previous, Dismiss,
        Shows, ShowsChoices, ShowsMakeChoice
  <2>2. dialog
    BY <1>3, DialogStays
  <2> QED
    BY <2>1, <2>2 DEF DialogIsValid
<1> QED
  BY <1>1, <1>2, <1>3 DEF Next, User, OtherTaps

\* The button of the dialog is never pressed on choices for which the bloc throws:
\* however the wallet and the candidates change while the dialog is on the screen, the
\* overview stays below it and its choices stay valid.  They do for requests as in
\* ChoiceTheorem, and when no credential takes the place of another.
THEOREM DialogTheorem ==
  ASSUME OneWayRequests, SingletonsStay, EmptyFirst
  PROVE  Spec => []DialogIsValid
<1>1. Init => DialogIsValid
  BY DEF Init, DialogIsValid
<1>2. OfferInv /\ [Next]_vars => OfferInv'
  BY OfferStep
<1>3. OfferInv /\ DialogIsValid /\ [Next]_vars => DialogIsValid'
  BY DialogKept
<1> QED
  BY <1>1, <1>2, <1>3, OfferInit, PTL DEF Spec

-----------------------------------------------------------------------------
(* The session goes on underneath: its changes can be mapped. *)

\* Options of the user for a discon: some, of types it asks for, and nothing only as
\* one that may be left out.
Shown(i, discon) ==
  /\ discon \in Seq(Seq(Part)) /\ discon # << >> /\ TypesOf(discon) \subseteq TypesOf(request[i])
  /\ << >> \in ToSet(discon) => i \in Opt

\* Each option asks for all types the discon asks for.
OneType(discon) ==
  \A con \in ToSet(discon) : con # << >> /\ {c.type : c \in ToSet(con)} = TypesOf(discon)

LEMMA CandidatesShown ==
  ASSUME request \in Requests, NEW e, FromWallet(e), NEW i \in DOMAIN request
  PROVE  Shown(i, e.candidates[i])
BY CandidatesOK DEF Shown, Opt, IsOptional

\* A cut to types the discon asks for leaves something, and so does a cut to none if
\* it may be left out.
LEMMA CutShown ==
  ASSUME request \in Requests, NEW e, FromWallet(e), NEW i \in DOMAIN request, NEW types,
         i \in Opt \/ types \cap TypesOf(request[i]) # {}
  PROVE  Shown(i, CutDisCon(e.candidates[i], types))
<1> DEFINE D == e.candidates[i]
           C == CutDisCon(D, types)
<1>1. /\ D \in Seq(Seq(Part)) /\ TypesOf(D) = TypesOf(request[i])
      /\ i \in Opt <=> << >> \in ToSet(D)
  BY CandidatesOK DEF Opt, IsOptional
<1> HIDE DEF D
<1>2. /\ C \in Seq(Seq(Part))
      /\ \A x : x \in ToSet(C) <=>
           \E con \in ToSet(D) : /\ x = OfTypes(con, types)
                                 /\ con = << >> \/ \E c \in ToSet(con) : c.type \in types
  BY <1>1, CutOK
<1> HIDE DEF C
<1>3. ASSUME NEW con \in ToSet(D)
      PROVE  /\ con \in Seq(Part) /\ OfTypes(con, types) \in Seq(Part)
             /\ ToSet(OfTypes(con, types)) = {c \in ToSet(con) : c.type \in types}
  <2>1. con \in Seq(Part)
    BY <1>1 DEF ToSet
  <2> QED
    BY <2>1, OfTypesSet
<1>4. \E x : x \in ToSet(C)
  <2>1. CASE i \in Opt
    BY <1>1, <1>2, <2>1
  <2>2. CASE types \cap TypesOf(request[i]) # {}
    <3>1. PICK t \in types : t \in TypesOf(D)
      BY <1>1, <2>2
    <3>2. PICK con \in ToSet(D) : \E c \in ToSet(con) : c.type \in types
      BY <3>1 DEF TypesOf, Flattened
    <3>3. OfTypes(con, types) \in ToSet(C)
      BY <1>2, <3>2
    <3> QED
      BY <3>3
  <2> QED
    BY <2>1, <2>2
<1>5. TypesOf(C) \subseteq TypesOf(D)
  <2>1. ASSUME NEW x \in ToSet(C), NEW c \in ToSet(x) PROVE c.type \in TypesOf(D)
    <3>1. PICK con \in ToSet(D) : x = OfTypes(con, types)
      BY <1>2
    <3>2. c \in ToSet(con)
      BY <1>3, <3>1
    <3> QED
      BY <3>2 DEF TypesOf, Flattened
  <2> QED
    BY <2>1 DEF TypesOf, Flattened
<1>6. ASSUME << >> \in ToSet(C) PROVE i \in Opt
  <2>1. PICK con \in ToSet(D) : /\ << >> = OfTypes(con, types)
                                /\ con = << >> \/ \E c \in ToSet(con) : c.type \in types
    BY <1>2, <1>6
  <2>2. ToSet(OfTypes(con, types)) = {}
    BY <2>1 DEF ToSet
  <2>3. con = << >>
    BY <1>3, <2>1, <2>2
  <2> QED
    BY <1>1, <2>3
<1>7. C # << >>
  BY <1>2, <1>4, SomeElement
<1> QED
  BY <1>1, <1>2, <1>5, <1>6, <1>7 DEF Shown, C, D

\* What is shown of a discon is shown again after a refresh, in some form.
LEMMA ShownAgain ==
  ASSUME request \in Requests, NEW e, FromWallet(e), NEW i \in DOMAIN request,
         NEW discon, Shown(i, discon)
  PROVE  Shown(i, CutDisCon(e.candidates[i], TypesOf(discon)))
<1>1. PICK con : con \in ToSet(discon)
  BY SomeElement DEF Shown
<1>2. CASE con = << >>
  BY <1>1, <1>2, CutShown DEF Shown
<1>3. CASE con # << >>
  <2>1. con \in Seq(Part)
    BY <1>1 DEF Shown, ToSet
  <2>2. PICK c : c \in ToSet(con)
    BY <1>3, <2>1, SomeElement
  <2>3. c.type \in TypesOf(discon)
    BY <1>1, <2>2 DEF TypesOf, Flattened
  <2>4. TypesOf(discon) \cap TypesOf(request[i]) # {}
    BY <2>3 DEF Shown
  <2> QED
    BY <2>4, CutShown
<1> QED
  BY <1>2, <1>3

\* Options of the same types are cut, or dropped, together.
LEMMA CutTogether ==
  ASSUME request \in Requests, NEW e, FromWallet(e), NEW i \in DOMAIN request,
         OneType(request[i]), NEW types, types \cap TypesOf(request[i]) # {}
  PROVE  Len(CutDisCon(e.candidates[i], types)) = Len(e.candidates[i])
<1>1. PICK w \in Seq(Credential) : e.candidates = Candidates(w, request)
  BY DEF FromWallet
<1> DEFINE d == request[i]
           D == DisConCandidates(w, d)
           S == {con \in ToSet(D) : con = << >> \/ \E c \in ToSet(con) : c.type \in types}
<1>2. e.candidates[i] = D
  BY <1>1 DEF Candidates
<1>3. d \in Seq(Seq(Entry)) /\ OneType(d) /\ types \cap TypesOf(d) # {}
  BY RequestFacts
<1> HIDE DEF d
<1>4. D \in Seq(Seq(Part)) /\ \A x \in ToSet(D) : \E k \in DOMAIN d : Follows(w, d[k], x)
  BY <1>3, DisConOffers
<1>5. PICK t \in types : t \in TypesOf(d)
  BY <1>3
<1>6. ASSUME NEW x \in ToSet(D) PROVE \E c \in ToSet(x) : c.type = t
  <2>1. PICK k \in DOMAIN d : Follows(w, d[k], x)
    BY <1>4
  <2>2. d[k] \in Seq(Entry) /\ d[k] \in ToSet(d) /\ x \in Seq(Part) /\ Len(x) = Len(d[k])
    BY <1>3, <2>1 DEF Follows, ToSet
  <2>3. PICK j \in 1 .. Len(d[k]) : d[k][j].type = t
    <3>1. t \in {c.type : c \in ToSet(d[k])}
      BY <1>3, <1>5, <2>2 DEF OneType
    <3> QED
      BY <2>2, <3>1 DEF ToSet
  <2>4. x[j].type = t /\ x[j] \in ToSet(x)
    BY <2>1, <2>2, <2>3 DEF Follows, MatchesCredential, ToSet
  <2> QED
    BY <2>4
<1> HIDE DEF D
<1>7. ToSet(D) \subseteq S
  BY <1>5, <1>6
<1>8. CutDisCon(D, types) =
        [k \in DOMAIN Only(D, S) |-> OfTypes(Only(D, S)[k], types)]
  BY DEF CutDisCon
<1> HIDE DEF S
<1>9. Only(D, S) = D
  BY <1>4, <1>7, OnlyAll
<1>10. CutDisCon(D, types) = [k \in DOMAIN D |-> OfTypes(D[k], types)]
  BY <1>8, <1>9
<1>11. Len(CutDisCon(D, types)) = Len(D)
  <2> DEFINE C == [k \in DOMAIN D |-> OfTypes(D[k], types)]
  <2>1. DOMAIN C = 1 .. Len(D) /\ Len(D) \in Nat
    BY <1>4
  <2> HIDE DEF C
  <2>2. Len(C) = Len(D)
    BY <2>1
  <2> QED
    BY <1>10, <2>2 DEF C
<1> QED
  BY <1>2, <1>11

\* Something of an optional discon without a choice can be added.
Free(parent) == \E i \in Opt \ DOMAIN parent.optional : TypesOf(request[i]) # {}

LEMMA AddableFree ==
  ASSUME request \in Requests, NEW e, KnownOK(e), FromWallet(e), NEW parent
  PROVE  Addable(e, parent) # << >> <=> Free(parent)
<1> DEFINE A == Addable(e, parent)
<1>1. A \in Seq(Addition) /\ \A x : x \in ToSet(A) <=> IsAddition(e, parent, x)
  BY AddableElements
<1> HIDE DEF A
<1>2. A # << >> <=> \E i \in Opt \ DOMAIN parent.optional : \E con \in ToSet(e.candidates[i]) : con # << >>
  <2>1. A # << >> <=> \E x : x \in ToSet(A)
    BY <1>1, SomeElement
  <2>2. ASSUME NEW i \in Opt \ DOMAIN parent.optional, NEW con \in ToSet(e.candidates[i]), con # << >>
        PROVE  \E x : x \in ToSet(A)
    <3> DEFINE x == [con |-> con, index |-> i]
    <3>1. IsAddition(e, parent, x)
      BY <2>2 DEF IsAddition
    <3> QED
      BY <1>1, <3>1
  <2> QED
    BY <1>1, <2>1, <2>2 DEF IsAddition
<1>3. ASSUME NEW i \in Opt
      PROVE  (\E con \in ToSet(e.candidates[i]) : con # << >>) <=> TypesOf(request[i]) # {}
  <2>1. i \in DOMAIN request
    BY DEF Opt
  <2> DEFINE D == e.candidates[i]
  <2>2. D \in Seq(Seq(Part)) /\ TypesOf(D) = TypesOf(request[i])
    BY <2>1, CandidatesOK
  <2> HIDE DEF D
  <2>3. ASSUME NEW con \in ToSet(D) PROVE con # << >> <=> \E c : c \in ToSet(con)
    <3>1. con \in Seq(Part)
      BY <2>2 DEF ToSet
    <3> QED
      BY <3>1, SomeElement
  <2>4. TypesOf(D) # {} <=> \E con \in ToSet(D) : \E c : c \in ToSet(con)
    BY DEF TypesOf, Flattened
  <2> QED
    BY <2>2, <2>3, <2>4 DEF D
<1> QED
  BY <1>2, <1>3 DEF Free, A

\* What is added has a place among the options.
LEMMA AddSelects ==
  ASSUME request \in Requests, NEW e, KnownOK(e), FromWallet(e), NEW parent, Free(parent),
         NEW prevDiscon, NEW prevChoice
  PROVE  LET f == AddOptionalData(e, parent, prevDiscon, prevChoice)
         IN  "selected" \in DOMAIN f /\ f.selected \in DOMAIN f.discon
<1> DEFINE A == Addable(e, parent)
           discon == [k \in DOMAIN A |-> A[k].con]
           k == FindSelectedConIndex(e, discon, prevDiscon, prevChoice, FALSE)
           f == AddOptionalData(e, parent, prevDiscon, prevChoice)
<1>1. f.discon = discon /\ f.selected = k /\ "selected" \in DOMAIN f
  BY DEF AddOptionalData
<1>2. A \in Seq(Addition) /\ A # << >>
  BY AddableElements, AddableFree
<1> HIDE DEF A, f
<1>3. discon \in Seq(Seq(Part)) /\ discon # << >>
  <2>1. DOMAIN A = 1 .. Len(A) /\ Len(A) \in Nat /\ Len(A) # 0
    BY <1>2
  <2>2. \A j \in DOMAIN A : A[j].con \in Seq(Part)
    <3>1. \A x \in Addition : x.con \in Seq(Part)
      BY DEF Addition
    <3>2. \A j \in DOMAIN A : A[j] \in Addition
      BY <1>2
    <3> QED
      BY <3>1, <3>2
  <2>3. DOMAIN discon = 1 .. Len(A) /\ discon \in Seq(Seq(Part))
    BY <2>1, <2>2
  <2> HIDE DEF discon
  <2>4. Len(discon) = Len(A)
    BY <2>1, <2>3
  <2> QED
    BY <2>1, <2>3, <2>4
<1> HIDE DEF discon
<1>4. k \in 1 .. Len(discon)
  BY <1>3, FindShape
<1> HIDE DEF k
<1>5. f.selected \in DOMAIN f.discon
  BY <1>1, <1>3, <1>4
<1> QED
  BY <1>1, <1>5 DEF f

\* A discon without an option that can be chosen has one the wizard asks for.
LEMMA WizardAsks ==
  ASSUME OneWayRequests, request \in Requests, NEW e, FromWallet(e), NEW i \in DOMAIN request,
         ~Ready(e, i)
  PROVE  IssueWizardDisCon(e.candidates[i]) # << >>
<1>1. PICK w \in Seq(Credential) : e.candidates = Candidates(w, request)
  BY DEF FromWallet
<1> DEFINE d == request[i]
           D == DisConCandidates(w, d)
<1>2. e.candidates[i] = D
  BY <1>1 DEF Candidates
<1>3. /\ d \in Seq(Seq(Entry)) /\ d # << >> /\ OneWay(d)
      /\ \A con \in ToSet(d) : \A k, l \in DOMAIN con : con[k].type = con[l].type => k = l
  BY RequestFacts DEF OneWayRequests
<1> SUFFICES ASSUME IssueWizardDisCon(D) = << >> PROVE FALSE
  BY <1>2
<1>4. ASSUME NEW t \in TypesOf(d)
      PROVE  \E c \in Flattened(D) : IsChoosable(c) /\ c.type = t
  <2>1. TypesOf(<< >>) = {}
    BY DEF TypesOf, Flattened, ToSet
  <2>2. Named(e, i, IssueWizardDisCon(e.candidates[i]))
    BY WizardNames
  <2> QED
    BY <1>2, <2>1, <2>2 DEF Named
<1>5. \A x : ~(x \in ToSet(D) /\ AllChoosable(x))
  BY <1>2 DEF Ready
<1> HIDE DEF d, D
<1>6. /\ \A x \in ToSet(D) : \E k \in DOMAIN d : Follows(w, d[k], x)
      /\ \A k \in DOMAIN d : \A x : ~Fits(w, d[k], x)
      /\ << >> \notin ToSet(d)
  <2>1. AllChoosable(<< >>)
    BY DEF AllChoosable, ToSet
  <2> QED
    BY <1>3, <1>5, <2>1, DisConOffers DEF D
<1>7. \A k \in DOMAIN d : d[k] \in Seq(Entry) /\ d[k] # << >> /\ d[k] \in ToSet(d)
  BY <1>3, <1>6 DEF ToSet
<1>8. PICK k : k \in DOMAIN d /\ k = 1
  BY <1>3
<1>9. ASSUME NEW j \in 1 .. Len(d[k]) PROVE \E c \in ToSet(w) : MatchesCredential(d[k][j], c)
  <2>1. d[k][j].type \in TypesOf(d)
    <3>1. d[k][j] \in ToSet(d[k])
      BY <1>7, <1>8 DEF ToSet
    <3> QED
      BY <1>7, <1>8, <3>1 DEF TypesOf, Flattened
  <2>2. PICK c \in Flattened(D) : IsChoosable(c) /\ c.type = d[k][j].type
    BY <1>4, <2>1
  <2>3. PICK y \in ToSet(D) : c \in ToSet(y)
    BY DEF Flattened
  <2>4. PICK m \in DOMAIN d : Follows(w, d[m], y)
    BY <1>6
  <2>5. d[m] \in Seq(Entry) /\ y \in Seq(Part) /\ Len(y) = Len(d[m])
    BY <1>7, <2>4 DEF Follows
  <2>6. PICK p \in 1 .. Len(d[m]) : c = y[p]
    BY <2>3, <2>5 DEF ToSet
  <2>7. c \in ToSet(w) /\ MatchesCredential(d[m][p], c)
    <3>1. c \in ToSet(w) /\ c # d[m][p]
      BY <2>2, <2>4, <2>5, <2>6, Choosing
    <3> QED
      BY <2>4, <2>6, <3>1 DEF Follows
  <2>8. CASE \A con \in ToSet(d) : Len(con) <= 1
    <3>1. Len(d[m]) <= 1 /\ p = 1
      BY <1>7, <2>5, <2>8
    <3>2. \A q \in 1 .. Len(d[m]) : q = p
      BY <2>5, <3>1
    <3>3. Fits(w, d[m], y)
      BY <2>4, <2>6, <2>7, <3>2 DEF Fits, Follows
    <3> QED
      BY <1>6, <3>3
  <2>9. CASE \A a, b \in DOMAIN d : d[a] # << >> /\ d[b] # << >> => a = b
    <3>1. m = k
      BY <1>7, <1>8, <2>9
    <3>2. d[k][p].type = d[k][j].type
      BY <2>2, <2>7, <3>1 DEF MatchesCredential
    <3>3. p = j
      BY <1>3, <1>7, <1>8, <2>6, <3>1, <3>2
    <3> QED
      BY <2>7, <3>1, <3>3
  <2> QED
    BY <1>3, <2>8, <2>9 DEF OneWay
<1>10. PICK x : ServesCon(w, d[k], Len(d[k]), x)
  BY <1>7, <1>8, ConServes
<1>11. Fits(w, d[k], x)
  BY <1>9, <1>10 DEF ServesCon, Serves, Fits
<1> QED
  BY <1>6, <1>8, <1>11

\* A credential for the discon was there before the bloc.
Held(e, i) ==
  i \in DOMAIN request /\ \E c \in Flattened(e.candidates[i]) : PreviouslyAdded(e, c)

\* What was there before stays so.
Since(e, new) == Keeps(e, new) /\ ToSet(new.newly) \cap ToSet(e.wallet) \subseteq ToSet(e.newly)

LEMMA HeldSince ==
  ASSUME request \in Requests, NEW e, FromWallet(e), NEW new, Since(e, new), NEW i, Held(e, i)
  PROVE  Held(new, i)
<1>1. PICK w \in Seq(Credential) :
        ToSet(w) \subseteq ToSet(e.wallet) /\ e.candidates = Candidates(w, request)
  BY DEF FromWallet
<1>2. i \in DOMAIN request
  BY DEF Held
<1> DEFINE d == request[i]
           D == DisConCandidates(w, d)
<1>3. e.candidates[i] = D
  BY <1>1, <1>2 DEF Candidates
<1>4. d \in Seq(Seq(Entry))
  BY <1>2, RequestFacts
<1>5. PICK c \in Flattened(D) : IsChoosable(c) /\ c \notin ToSet(e.newly)
  BY <1>3 DEF Held, PreviouslyAdded
<1> HIDE DEF d, D
<1>6. PICK x \in ToSet(D) : c \in ToSet(x)
  BY <1>5 DEF Flattened
<1>7. PICK k \in DOMAIN d : Follows(w, d[k], x)
  BY <1>4, DisConOffers DEF D
<1>8. d[k] \in Seq(Entry) /\ x \in Seq(Part) /\ Len(x) = Len(d[k])
  BY <1>4, <1>7 DEF Follows
<1>9. PICK j \in 1 .. Len(d[k]) : c = x[j]
  BY <1>6, <1>8 DEF ToSet
<1>10. c \in ToSet(e.wallet)
  BY <1>1, <1>5, <1>7, <1>8, <1>9, Choosing
<1>11. c \in Flattened(new.candidates[i]) /\ c \notin ToSet(new.newly)
  BY <1>2, <1>3, <1>5, <1>10 DEF Since, Keeps
<1> QED
  BY <1>2, <1>5, <1>11 DEF Held, PreviouslyAdded

\* A wizard has options for each of its discons; something can be selected wherever
\* options are shown, except that among choices that were there before the option may
\* have been cut away; and such a choice goes back to a credential that was there.
EnduresOK(e, parent, f) ==
  /\ f.kind = "issueWizard" => \A i \in DOMAIN f.options : f.options[i] # << >>
  /\ f.kind = "addOptionalData" =>
       Free(parent) /\ "selected" \in DOMAIN f /\ f.selected \in DOMAIN f.discon
  /\ f.kind = "changeChoice" =>
       /\ f.index \in DOMAIN request /\ Shown(f.index, f.discon)
       /\ parent.kind = "overview" \/ OneType(request[f.index]) => f.selected \in DOMAIN f.discon
  /\ f.kind = "previouslyAdded" => \A i \in DOMAIN f.required : Held(e, i)

Endures(e, fl) == \A n \in 1 .. Len(fl) : EnduresOK(e, fl[n - 1], fl[n])

LEMMA EnduresRoot ==
  ASSUME NEW e, NEW f, f.kind \in Roots, NEW p, NEW q, EnduresOK(e, p, f)
  PROVE  EnduresOK(e, q, f)
BY DEF EnduresOK, Roots

LEMMA EndureSince ==
  ASSUME request \in Requests, NEW e, FromWallet(e), NEW new, Since(e, new), NEW fl, Endures(e, fl)
  PROVE  Endures(new, fl)
<1>1. ASSUME NEW n \in 1 .. Len(fl) PROVE EnduresOK(new, fl[n - 1], fl[n])
  <2>1. EnduresOK(e, fl[n - 1], fl[n])
    BY DEF Endures
  <2> QED
    BY <2>1, HeldSince DEF EnduresOK
<1> QED
  BY <1>1 DEF Endures

LEMMA EndureSingle ==
  ASSUME NEW e, NEW f, \A parent : EnduresOK(e, parent, f)
  PROVE  Endures(e, <<f>>)
<1>1. Len(<<f>>) = 1 /\ <<f>>[1] = f /\ \A n \in 1 .. Len(<<f>>) : n = 1
  OBVIOUS
<1> QED
  BY <1>1 DEF Endures

LEMMA EndurePush ==
  ASSUME NEW e, NEW fl, IsStack(fl), Endures(e, fl), NEW f, EnduresOK(e, Last(fl), f)
  PROVE  Endures(e, Append(fl, f))
<1>1. PICK S : fl \in Seq(S)
  BY DEF IsStack
<1>2. Len(fl) \in Nat /\ Len(fl) >= 1 /\ Last(fl) = fl[Len(fl)]
  BY StackBounds
<1> DEFINE g == Append(fl, f)
<1>3. /\ Len(g) = Len(fl) + 1 /\ g[Len(fl) + 1] = f
      /\ \A n \in 1 .. Len(fl) : g[n] = fl[n]
  BY <1>1
<1> HIDE DEF g
<1>4. ASSUME NEW n \in 1 .. Len(g) PROVE EnduresOK(e, g[n - 1], g[n])
  <2>1. CASE n = Len(fl) + 1
    <3>1. n - 1 = Len(fl) /\ Len(fl) \in 1 .. Len(fl)
      BY <1>2, <2>1
    <3> QED
      BY <1>2, <1>3, <2>1, <3>1
  <2>2. CASE n # Len(fl) + 1 /\ n # 1
    <3>1. n \in 1 .. Len(fl) /\ n - 1 \in 1 .. Len(fl)
      BY <1>2, <1>3, <2>2
    <3> QED
      BY <1>3, <3>1 DEF Endures
  <2>3. CASE n = 1
    <3>1. 1 \in 1 .. Len(fl)
      BY <1>2
    <3>2. fl[1].kind \in Roots /\ EnduresOK(e, fl[0], fl[1]) /\ g[1] = fl[1]
      BY <1>3, <3>1 DEF Endures, IsStack
    <3> QED
      BY <2>3, <3>2, EnduresRoot
  <2> QED
    BY <2>1, <2>2, <2>3
<1> QED
  BY <1>4 DEF Endures, g

LEMMA EndureCut ==
  ASSUME NEW e, NEW fl, IsStack(fl), Endures(e, fl), NEW k \in 1 .. Len(fl)
  PROVE  Endures(e, SubSeq(fl, 1, k))
<1> DEFINE g == SubSeq(fl, 1, k)
<1>1. Len(fl) \in Nat
  BY StackBounds
<1>2. Len(g) = k /\ \A n \in 1 .. k : g[n] = fl[n]
  BY CutStack
<1> HIDE DEF g
<1>3. ASSUME NEW n \in 1 .. Len(g) PROVE EnduresOK(e, g[n - 1], g[n])
  <2>1. n \in 1 .. Len(fl) /\ (n = 1 \/ n - 1 \in 1 .. k)
    BY <1>1, <1>2
  <2>2. EnduresOK(e, fl[n - 1], fl[n]) /\ g[n] = fl[n]
    BY <1>2, <2>1 DEF Endures
  <2>3. CASE n = 1
    <3>1. fl[1].kind \in Roots
      BY DEF IsStack
    <3> QED
      BY <2>2, <2>3, <3>1, EnduresRoot
  <2>4. CASE n # 1
    BY <1>2, <2>1, <2>2, <2>4
  <2> QED
    BY <2>3, <2>4
<1> QED
  BY <1>3 DEF Endures, g

LEMMA EndureFront ==
  ASSUME NEW e, NEW fl, IsStack(fl), Endures(e, fl), Last(fl).kind \notin Roots
  PROVE  Endures(e, Front(fl))
<1>1. Len(fl) >= 2 /\ Len(fl) \in Nat
  BY FrontStack, StackBounds
<1>2. PICK m : m = Len(fl) - 1 /\ m \in 1 .. Len(fl)
  <2>1. \A N \in Nat : N >= 2 => N - 1 \in 1 .. N
    OBVIOUS
  <2> QED
    BY <1>1, <2>1
<1>3. Front(fl) = SubSeq(fl, 1, m)
  BY <1>2 DEF Front
<1> QED
  BY <1>2, <1>3, EndureCut

LEMMA EndureReplace ==
  ASSUME NEW e, NEW fl, IsStack(fl), Endures(e, fl), NEW f,
         f.kind = Last(fl).kind \/ {f.kind, Last(fl).kind} \subseteq Roots,
         EnduresOK(e, fl[Len(fl) - 1], f)
  PROVE  Endures(e, Append(Front(fl), f))
<1>1. CASE Last(fl).kind \notin Roots
  <2>1. /\ Endures(e, Front(fl)) /\ IsStack(Front(fl)) /\ Last(Front(fl)) = fl[Len(fl) - 1]
    BY <1>1, EndureFront, FrontStack
  <2> QED
    BY <2>1, EndurePush
<1>2. CASE Last(fl).kind \in Roots
  <2>1. Len(fl) \in Nat /\ Len(fl) >= 1 /\ Last(fl) = fl[Len(fl)] /\ Len(fl) \in 1 .. Len(fl)
    BY StackBounds
  <2>2. Len(fl) = 1
    BY <1>2, <2>1, StackRoots
  <2>3. PICK S : fl \in Seq(S)
    BY DEF IsStack
  <2>4. Front(fl) = << >>
    BY <2>2, <2>3 DEF Front
  <2>5. Append(Front(fl), f) = <<f>> /\ f.kind \in Roots
    BY <1>2, <2>4
  <2>6. \A parent : EnduresOK(e, parent, f)
    BY <2>5, EnduresRoot
  <2> QED
    BY <2>5, <2>6, EndureSingle
<1> QED
  BY <1>1, <1>2

\* What became of the states lasts as well.
Lasts(r) == Endures(r.env, r.flow)

\* Nothing is asked of a report.
LEMMA EndureValidate ==
  ASSUME request \in Requests, NEW e, KnownOK(e), FromWallet(e), NEW fl, IsStack(fl),
         Endures(e, fl), NEW templates
  PROVE  Lasts(ValidateCredentialsObtained(templates, e, fl))
<1> DEFINE r == ValidateCredentialsObtained(templates, e, fl)
<1>1. \/ r = Outcome(e, fl)
      \/ \E mismatched, wrong, S :
           r = Outcome([e EXCEPT !.newly = Without(@, S)],
                       Append(fl, WrongCredentials(mismatched, wrong)))
  BY DEF ValidateCredentialsObtained
<1> HIDE DEF r
<1>2. ASSUME r = Outcome(e, fl) PROVE Lasts(r)
  BY <1>2 DEF Outcome, Lasts
<1>3. ASSUME NEW mismatched, NEW wrong, NEW S,
             r = Outcome([e EXCEPT !.newly = Without(@, S)],
                         Append(fl, WrongCredentials(mismatched, wrong)))
      PROVE  Lasts(r)
  <2> DEFINE known == [e EXCEPT !.newly = Without(@, S)]
             f == WrongCredentials(mismatched, wrong)
  <2>1. f.kind = "wrong"
    BY DEF WrongCredentials
  <2>2. /\ known.wallet = e.wallet /\ known.candidates = e.candidates
        /\ known.newly = Without(e.newly, S)
    BY DEF KnownOK
  <2>3. r.env = known /\ r.flow = Append(fl, f)
    BY <1>3 DEF Outcome
  <2> HIDE DEF known, f
  <2>4. ToSet(known.newly) \subseteq ToSet(e.newly)
    <3>1. e.newly \in Seq(Credential)
      BY DEF KnownOK
    <3>2. ToSet(Without(e.newly, S)) = ToSet(e.newly) \ S
      BY <3>1, WithoutSet
    <3> QED
      BY <2>2, <3>2
  <2>5. Since(e, known)
    BY <2>2, <2>4, SameKeeps DEF Since
  <2>6. Endures(known, fl)
    BY <2>5, EndureSince
  <2>7. EnduresOK(known, Last(fl), f)
    BY <2>1 DEF EnduresOK
  <2> QED
    BY <2>3, <2>6, <2>7, EndurePush DEF Lasts
<1> QED
  BY <1>1, <1>2, <1>3 DEF r

LEMMA EndureRefreshed ==
  ASSUME request \in Requests, NEW e, KnownOK(e), FromWallet(e), NEW fl, IsStack(fl),
         Endures(e, fl), NEW g, FrameOK(g), g.kind = Last(fl).kind,
         EnduresOK(e, fl[Len(fl) - 1], g), NEW r,
         \/ r = Outcome(e, Append(Front(fl), g))
         \/ \E templates : r = ValidateCredentialsObtained(templates, e, Append(Front(fl), g))
  PROVE  Lasts(r)
<1> DEFINE next == Append(Front(fl), g)
<1>1. IsStack(next) /\ Endures(e, next)
  BY ReplaceStack, EndureReplace
<1> HIDE DEF next
<1>2. CASE r = Outcome(e, next)
  BY <1>1, <1>2 DEF Lasts, Outcome
<1>3. ASSUME NEW templates, r = ValidateCredentialsObtained(templates, e, next)
      PROVE  Lasts(r)
  BY <1>1, <1>3, EndureValidate
<1> QED
  BY <1>2, <1>3 DEF next

\* The first wizard has options for all discons without one that can be chosen.
LEMMA EndureStart ==
  ASSUME OneWayRequests, request \in Requests, NEW e, KnownOK(e), FromWallet(e)
  PROVE  Endures(e, <<Start(e)>>)
<1> DEFINE D == e.candidates
           Preferred(i) == D[i][FindSelectedConIndex(e, D[i], None, None, FALSE)]
           choices == [i \in DOMAIN D |-> Preferred(i)]
           missing == {i \in DOMAIN D : ~AllChoosable(choices[i])}
           options == [i \in missing |-> IssueWizardDisCon(D[i])]
<1>1. Parsed(e) = D /\ DOMAIN D = DOMAIN request
  BY ParsedOK, CandidatesOK
<1>2. ASSUME NEW i \in missing PROVE i \in DOMAIN request /\ ~Ready(e, i)
  <2>1. i \in DOMAIN request /\ ~AllChoosable(Preferred(i))
    BY <1>1
  <2>2. Ready(e, i) => AllChoosable(Preferred(i))
    BY <2>1, BestOption
  <2> QED
    BY <2>1, <2>2
<1>3. ASSUME NEW i \in missing PROVE options[i] # << >>
  <2>1. IssueWizardDisCon(e.candidates[i]) # << >>
    BY <1>2, WizardAsks
  <2>2. options[i] = IssueWizardDisCon(e.candidates[i])
    OBVIOUS
  <2> QED
    BY <2>1, <2>2
<1>4. CASE missing = {}
  <2>1. Start(e) = Overview(D, choices, {"choicesOverview"})
    BY <1>1, <1>4 DEF Start
  <2>2. Overview(D, choices, {"choicesOverview"}).kind = "overview"
    BY OverviewOK
  <2> HIDE DEF choices, D
  <2>3. \A parent : EnduresOK(e, parent, Overview(D, choices, {"choicesOverview"}))
    BY <2>2 DEF EnduresOK
  <2> QED
    BY <2>1, <2>3, EndureSingle
<1>5. CASE missing # {}
  <2>1. \E order, selected, obtained, planned :
          Start(e) = [kind |-> "issueWizard", options |-> options, order |-> order,
                      selected |-> selected, obtained |-> obtained, planned |-> planned]
    BY <1>1, <1>5 DEF Start
  <2>2. DOMAIN options = missing
    OBVIOUS
  <2> HIDE DEF Start, missing, options
  <2>3. Start(e).kind = "issueWizard" /\ Start(e).options = options
    BY <2>1
  <2>4. \A parent : EnduresOK(e, parent, Start(e))
    BY <1>3, <2>2, <2>3 DEF EnduresOK
  <2> QED
    BY <2>4, EndureSingle
<1> QED
  BY <1>4, <1>5

LEMMA EndureWizard ==
  ASSUME request \in Requests, NEW e, KnownOK(e), NEW fl, IsStack(fl), Content(e, fl),
         Endures(e, fl), Last(fl).kind = "issueWizard"
  PROVE  Lasts(RefreshIssueWizard(e, fl))
<1> DEFINE f == Last(fl)
<1>1. PICK obtained, selected, planned :
        LET g == [f EXCEPT !.obtained = obtained, !.selected = selected, !.planned = planned]
        IN  \/ RefreshIssueWizard(e, fl) = Outcome(e, Append(Front(fl), g))
            \/ \E templates : RefreshIssueWizard(e, fl) =
                 ValidateCredentialsObtained(templates, e, Append(Front(fl), g))
  BY DEF RefreshIssueWizard
<1> DEFINE g == [f EXCEPT !.obtained = obtained, !.selected = selected, !.planned = planned]
<1>2. /\ WizardOK(e, f) /\ FromWallet(e) /\ EnduresOK(e, fl[Len(fl) - 1], f)
      /\ f.kind = "issueWizard"
  <2>1. Len(fl) \in 1 .. Len(fl) /\ Last(fl) = fl[Len(fl)]
    BY StackBounds
  <2> QED
    BY <2>1 DEF Content, ContentOK, Endures
<1>3. g.kind = f.kind /\ g.options = f.options /\ "kind" \in DOMAIN g
  BY <1>2 DEF WizardOK
<1>4. \/ RefreshIssueWizard(e, fl) = Outcome(e, Append(Front(fl), g))
      \/ \E templates : RefreshIssueWizard(e, fl) =
           ValidateCredentialsObtained(templates, e, Append(Front(fl), g))
  BY <1>1
<1>5. g.kind = Last(fl).kind
  BY <1>3
<1> HIDE DEF g, f
<1>6. EnduresOK(e, fl[Len(fl) - 1], g) /\ FrameOK(g)
  BY <1>2, <1>3 DEF EnduresOK, FrameOK, ChoiceKinds
<1> QED
  BY <1>2, <1>4, <1>5, <1>6, EndureRefreshed

LEMMA EndureChange ==
  ASSUME request \in Requests, NEW e, KnownOK(e), NEW fl, IsStack(fl), Content(e, fl),
         Endures(e, fl), Last(fl).kind = "changeChoice"
  PROVE  Lasts(RefreshChangeChoice(e, fl))
<1> DEFINE f == Last(fl)
           discon == RefreshDisCon(e, f.index, f.discon)
           selected == FindSelectedConIndex(e, discon, f.discon, SelectedCon(f), FALSE)
           parent == fl[Len(fl) - 1]
           g == [f EXCEPT !.discon = discon, !.selected = selected]
<1>1. RefreshChangeChoice(e, fl) =
        ValidateCredentialsObtained(Templates(discon[selected]), e, Append(Front(fl), g))
  BY DEF RefreshChangeChoice
<1>2. /\ MakeOK(e, parent, f) /\ FromWallet(e) /\ EnduresOK(e, parent, f)
      /\ f.kind = "changeChoice"
  <2>1. Len(fl) \in 1 .. Len(fl) /\ Last(fl) = fl[Len(fl)]
    BY StackBounds
  <2> QED
    BY <2>1 DEF Content, ContentOK, Endures
<1> HIDE DEF f, parent, discon, selected
<1>3. /\ g.kind = f.kind /\ g.index = f.index /\ g.discon = discon /\ g.selected = selected
      /\ "kind" \in DOMAIN g
  BY <1>2 DEF MakeOK
<1> HIDE DEF g
<1>4. f.index \in DOMAIN request /\ Shown(f.index, f.discon)
  BY <1>2 DEF EnduresOK
<1>5. discon = CutDisCon(e.candidates[f.index], TypesOf(f.discon))
  BY <1>2, <1>4, RefreshDisConIs DEF discon
<1>6. Shown(f.index, discon)
  BY <1>2, <1>4, <1>5, ShownAgain
<1>7. selected \in DOMAIN discon
  <2>1. discon \in Seq(Seq(Part)) /\ discon # << >>
    BY <1>6 DEF Shown
  <2>2. selected \in 1 .. Len(discon)
    BY <2>1, FindShape DEF selected
  <2> QED
    BY <2>1, <2>2
<1>8. EnduresOK(e, parent, g) /\ FrameOK(g)
  BY <1>2, <1>3, <1>4, <1>6, <1>7 DEF EnduresOK, FrameOK, ChoiceKinds
<1>9. g.kind = Last(fl).kind /\ parent = fl[Len(fl) - 1]
  BY <1>3 DEF f, parent
<1> QED
  BY <1>1, <1>2, <1>8, <1>9, EndureRefreshed

LEMMA EndureAdd ==
  ASSUME request \in Requests, NEW e, KnownOK(e), NEW fl, IsStack(fl), Content(e, fl),
         Endures(e, fl), Last(fl).kind = "addOptionalData"
  PROVE  Lasts(RefreshBase(e, fl))
<1> DEFINE parent == Last(Front(fl))
           g == AddOptionalData(e, parent, Last(fl).discon, SelectedCon(Last(fl)))
<1>1. RefreshBase(e, fl) = Outcome(e, Append(Front(fl), g))
  BY DEF RefreshBase
<1>2. parent = fl[Len(fl) - 1]
  BY FrontStack DEF Roots
<1>3. Free(parent) /\ FromWallet(e)
  <2>1. Len(fl) \in 1 .. Len(fl) /\ Last(fl) = fl[Len(fl)]
    BY StackBounds
  <2>2. EnduresOK(e, fl[Len(fl) - 1], Last(fl))
    BY <2>1 DEF Endures
  <2> QED
    BY <1>2, <2>2 DEF EnduresOK, Content
<1> HIDE DEF parent
<1>4. g.kind = "addOptionalData" /\ FrameOK(g)
  BY <1>3, AddContent
<1>5. "selected" \in DOMAIN g /\ g.selected \in DOMAIN g.discon
  BY <1>3, AddSelects
<1> HIDE DEF g
<1>6. EnduresOK(e, parent, g)
  BY <1>3, <1>4, <1>5 DEF EnduresOK
<1> QED
  BY <1>1, <1>2, <1>3, <1>4, <1>6, EndureRefreshed

LEMMA EndureChoices ==
  ASSUME request \in Requests, NEW e, KnownOK(e), NEW fl, IsStack(fl), Content(e, fl),
         Endures(e, fl), Last(fl).kind \in ChoiceKinds
  PROVE  Lasts(RefreshBase(e, fl))
<1> DEFINE f == Last(fl)
           g == RefreshOverview(e, f)
<1>1. RefreshBase(e, fl) = Outcome(e, Append(Front(fl), g))
  BY DEF RefreshBase, ChoiceKinds
<1>2. FrameOK(f) /\ EnduresOK(e, fl[Len(fl) - 1], f) /\ FromWallet(e) /\ f.kind \in ChoiceKinds
  <2>1. Len(fl) \in 1 .. Len(fl) /\ Last(fl) = fl[Len(fl)] /\ FrameOK(Last(fl))
    BY StackBounds
  <2> QED
    BY <2>1 DEF Content, Endures
<1> HIDE DEF f
<1>3. /\ g.kind = f.kind /\ DOMAIN g = ChoicesFields /\ ~g.popup
      /\ DOMAIN g.required = DOMAIN f.required
  BY <1>2 DEF RefreshOverview, FrameOK, ChoicesFields
<1> HIDE DEF g
<1>4. FrameOK(g)
  BY <1>3 DEF FrameOK, ChoicesFields
<1>5. EnduresOK(e, fl[Len(fl) - 1], g)
  BY <1>2, <1>3 DEF EnduresOK, ChoiceKinds
<1>6. g.kind = Last(fl).kind
  BY <1>3 DEF f
<1> QED
  BY <1>1, <1>2, <1>4, <1>5, <1>6, EndureRefreshed

LEMMA EndureBase ==
  ASSUME OneWayRequests, request \in Requests, NEW e, KnownOK(e), NEW fl, IsStack(fl),
         Content(e, fl), Endures(e, fl)
  PROVE  Lasts(RefreshBase(e, fl))
<1>1. CASE Last(fl).kind = "issueWizard"
  BY <1>1, EndureWizard DEF RefreshBase
<1>2. CASE Last(fl).kind = "changeChoice"
  BY <1>2, EndureChange DEF RefreshBase
<1>3. CASE Last(fl).kind = "addOptionalData"
  BY <1>3, EndureAdd
<1>4. CASE Last(fl).kind \in ChoiceKinds
  BY <1>4, EndureChoices
<1>5. CASE Last(fl).kind \notin WalkKinds \cup ChoiceKinds
  <2>1. RefreshBase(e, fl) = Outcome(e, <<Start(e)>>)
    BY <1>5 DEF RefreshBase, WalkKinds, ChoiceKinds
  <2>2. Endures(e, <<Start(e)>>)
    BY EndureStart DEF Content
  <2> HIDE DEF Start
  <2> QED
    BY <2>1, <2>2 DEF Lasts, Outcome
<1> QED
  BY <1>1, <1>2, <1>3, <1>4, <1>5 DEF WalkKinds

LEMMA EndureLifted ==
  ASSUME request \in Requests, NEW e, NEW r, KnownOK(r.env), FromWallet(r.env), IsStack(r.flow),
         Lasts(r), NEW f, FrameOK(f), PassesOn(f), Last(r.flow).kind \in Parents(f.kind)
  PROVE  Lasts(Lifted(e, r, f))
<1>1. CASE f.kind = "wrong"
  <2>1. EnduresOK(r.env, Last(r.flow), f)
    BY <1>1 DEF EnduresOK
  <2>2. Endures(r.env, Append(r.flow, f))
    BY <2>1, EndurePush DEF Lasts
  <2>3. Lifted(e, r, f) = Outcome(r.env, Append(r.flow, f))
    BY <1>1 DEF Lifted
  <2> QED
    BY <2>2, <2>3 DEF Lasts, Outcome
<1>2. CASE f.kind = "obtainCredentials"
  <2>1. Lifted(e, r, f) = RefreshObtainedCredentials(e, r, f)
    BY <1>2 DEF Lifted
  <2>2. PICK obtained, templates :
          LET g == [f EXCEPT !.obtained = obtained]
          IN  RefreshObtainedCredentials(e, r, f) \in
                {Outcome(r.env, Append(r.flow, g)),
                 ValidateCredentialsObtained(templates, r.env, Append(r.flow, g))}
    BY DEF RefreshObtainedCredentials
  <2> DEFINE g == [f EXCEPT !.obtained = obtained]
  <2>3. "kind" \in DOMAIN g /\ g.kind = f.kind
    BY DEF FrameOK
  <2>4. Lifted(e, r, f) \in
          {Outcome(r.env, Append(r.flow, g)),
           ValidateCredentialsObtained(templates, r.env, Append(r.flow, g))}
    BY <2>1, <2>2
  <2> HIDE DEF g
  <2>5. FrameOK(g) /\ EnduresOK(r.env, Last(r.flow), g)
    BY <1>2, <2>3 DEF FrameOK, EnduresOK, ChoiceKinds
  <2>6. IsStack(Append(r.flow, g)) /\ Endures(r.env, Append(r.flow, g))
    BY <2>3, <2>5, PushStack, EndurePush DEF Lasts
  <2>7. CASE Lifted(e, r, f) = Outcome(r.env, Append(r.flow, g))
    BY <2>6, <2>7 DEF Lasts, Outcome
  <2>8. CASE Lifted(e, r, f) = ValidateCredentialsObtained(templates, r.env, Append(r.flow, g))
    BY <2>6, <2>8, EndureValidate
  <2> QED
    BY <2>4, <2>7, <2>8
<1> QED
  BY <1>1, <1>2 DEF PassesOn

LEMMA MapEndures ==
  ASSUME OneWayRequests, request \in Requests, NEW e, KnownOK(e), NEW fl, IsStack(fl),
         Content(e, fl), Endures(e, fl)
  PROVE  Lasts(MapSessionStateToBlocState(e, fl))
<1>1. PICK f : Levels(f, e, fl)
  BY MapLevels
<1> DEFINE stack == Affected(fl)
           T == {n \in 1 .. Len(stack) : Lasts(f[n])}
<1>2. /\ IsStack(stack) /\ Maps(f, e, stack, Len(stack))
      /\ MapSessionStateToBlocState(e, fl) = f[Len(stack)]
      /\ \A n \in 1 .. Len(stack) : MappedOK(f[n], e, stack[n].kind)
  BY <1>1 DEF Levels
<1>3. Content(e, stack) /\ \A n \in 1 .. Len(stack) : MappedContent(f[n], e)
  BY <1>1, LevelsContent
<1>4. Endures(e, stack)
  <2>1. CASE Last(fl).kind # "credentialInformation"
    BY <2>1 DEF Affected
  <2>2. CASE Last(fl).kind = "credentialInformation"
    BY <2>2, EndureFront DEF Affected, Roots
  <2> QED
    BY <2>1, <2>2
<1> HIDE DEF stack
<1>5. Len(stack) \in Nat /\ Len(stack) \in 1 .. Len(stack)
  BY <1>2, StackBounds
<1>6. ASSUME NEW n \in 1 .. Len(stack), PassesOn(stack[n]), n - 1 \in T PROVE n \in T
  <2>1. n - 1 \in 1 .. Len(stack) /\ Lasts(f[n - 1])
    BY <1>6
  <2>2. n \in 2 .. Len(stack)
    <3>1. \A N \in Nat : \A k \in 1 .. N : k - 1 \in 1 .. N => k \in 2 .. N
      OBVIOUS
    <3> QED
      BY <1>5, <2>1, <3>1
  <2>3. f[n] = Lifted(e, f[n - 1], stack[n])
    <3>1. f[n] = IF PassesOn(stack[n]) THEN Lifted(e, f[n - 1], stack[n])
                 ELSE RefreshBase(e, SubSeq(stack, 1, n))
      BY <1>2, <1>5, MapsNext
    <3> QED
      BY <1>6, <3>1
  <2>4. FrameOK(stack[n]) /\ stack[n - 1].kind \in Parents(stack[n].kind)
    BY <1>2, <2>2 DEF IsStack
  <2>5. /\ KnownOK(f[n - 1].env) /\ IsStack(f[n - 1].flow)
        /\ Last(f[n - 1].flow).kind \in {stack[n - 1].kind, "wrong"}
    BY <1>2, <1>6, <2>1, <2>4, ParentsOf DEF MappedOK, PassesOn
  <2>6. Last(f[n - 1].flow).kind \in Parents(stack[n].kind)
    BY <1>6, <2>4, <2>5, ParentsOf DEF PassesOn
  <2>7. FromWallet(f[n - 1].env)
    BY <1>3, <2>1 DEF MappedContent, Content
  <2> QED
    BY <1>6, <2>1, <2>3, <2>4, <2>5, <2>6, <2>7, EndureLifted
<1>7. ASSUME NEW n \in 1 .. Len(stack), ~PassesOn(stack[n]) PROVE n \in T
  <2>1. f[n] = RefreshBase(e, SubSeq(stack, 1, n))
    BY <1>2, <1>5, <1>7, MapsNext
  <2>2. /\ IsStack(SubSeq(stack, 1, n)) /\ Content(e, SubSeq(stack, 1, n))
        /\ Endures(e, SubSeq(stack, 1, n))
    BY <1>2, <1>3, <1>4, CutStack, ContentCut, EndureCut
  <2> QED
    BY <2>1, <2>2, EndureBase
<1>8. ASSUME NEW n \in 1 .. Len(stack)
      PROVE  IF PassesOn(stack[n])
             THEN n - 1 \in 1 .. Len(stack) /\ n - 1 \in T => n \in T
             ELSE n \in T
  BY <1>6, <1>7
<1> HIDE DEF T
<1>9. \A n \in 1 .. Len(stack) : n \in T
  BY <1>1, <1>8, MapInduction DEF stack
<1> QED
  BY <1>2, <1>5, <1>9 DEF T

-----------------------------------------------------------------------------
(* The steps of the system and of the user keep it so. *)

LEMMA EnduresStays ==
  ASSUME request' = request, Endures(env', flow')
  PROVE  Endures(env, flow)'
<1>1. Opt' = Opt
  BY DEF Opt
<1>2. ASSUME NEW n \in 1 .. Len(flow') PROVE EnduresOK(env, flow[n - 1], flow[n])'
  <2>0. EnduresOK(env', flow'[n - 1], flow'[n])
    BY DEF Endures
  <2>1. \A i : Held(env', i) => Held(env, i)'
    BY DEF Held
  <2>2. Free(flow'[n - 1]) => Free(flow[n - 1])'
    BY <1>1 DEF Free
  <2>3. Shown(flow'[n].index, flow'[n].discon) => Shown(flow[n].index, flow[n].discon)'
    BY <1>1 DEF Shown
  <2> QED
    BY <2>0, <2>1, <2>2, <2>3 DEF EnduresOK
<1> QED
  BY <1>2 DEF Endures

LEMMA SessionStateEndures ==
  ASSUME OneWayRequests, OfferInv, Endures(env, flow), NEW e, IsNews(e)
  PROVE  Endures(env', flow')
<1>1. WalkInv /\ Content(env, flow) /\ request \in Requests /\ IsStack(flow) /\ FromWallet(env)
  BY DEF OfferInv, WalkInv, Content
<1>2. Since(env, e)
  BY DEF IsNews, Since
<1>3. Content(e, flow) /\ Endures(e, flow) /\ KnownOK(e) /\ Learns(e)
  BY <1>1, <1>2, ContentKeeps, EndureSince DEF IsNews
<1>4. CASE env' = e /\ UNCHANGED flow
  BY <1>3, <1>4
<1>5. CASE /\ env' = MapSessionStateToBlocState(e, flow).env
           /\ flow' = MapSessionStateToBlocState(e, flow).flow
  BY <1>1, <1>3, <1>5, MapEndures DEF Lasts
<1> QED
  BY <1>3, <1>4, <1>5 DEF Learns, SessionState

\* States of which nothing is asked.
LEMMA EndurePlain ==
  ASSUME NEW e, NEW kind \in {"initial", "introduction", "finished"}
  PROVE  Endures(e, <<[kind |-> kind]>>)
<1> DEFINE f == [kind |-> kind]
<1>1. \A parent : EnduresOK(e, parent, f)
  BY DEF EnduresOK
<1> HIDE DEF f
<1> QED
  BY <1>1, EndureSingle DEF f

LEMMA SystemEndures ==
  ASSUME OneWayRequests, SingletonsStay, OfferInv, Endures(env, flow), System
  PROVE  Endures(env', flow')
<1>1. request \in Requests /\ KnownOK(env) /\ FromWallet(env) /\ announced \cap ToSet(env.wallet) = {}
  BY DEF OfferInv, WalkInv, Content
<1>2. CASE ReadPreference
  <2>1. Endures(env, <<Start(env)>>)
    BY <1>1, EndureStart
  <2>2. Endures(env, <<[kind |-> "introduction"]>>)
    BY EndurePlain
  <2> HIDE DEF Start
  <2> QED
    BY <1>2, <2>1, <2>2 DEF ReadPreference, Listen
<1>3. CASE Announce \/ RefreshCandidates
  BY <1>3, NewsContent, SessionStateEndures
<1>4. CASE ReceiveCredentials
  <2>1. PICK c \in announced : env' = [env EXCEPT !.wallet = WithCredential(@, c)]
    BY <1>4 DEF ReceiveCredentials
  <2>2. env'.candidates = env.candidates /\ env'.newly = env.newly /\ flow' = flow
    BY <1>1, <1>4, <2>1 DEF KnownOK, ReceiveCredentials
  <2>3. \A i : Held(env, i) => Held(env', i)
    BY <2>2 DEF Held, PreviouslyAdded
  <2> QED
    BY <2>2, <2>3 DEF Endures, EnduresOK
<1>5. CASE LeaveRequest
  BY <1>5, EndurePlain DEF LeaveRequest, Finished
<1> QED
  BY <1>2, <1>3, <1>4, <1>5 DEF System

LEMMA TopEndures ==
  ASSUME OfferInv, Endures(env, flow)
  PROVE  EnduresOK(env, flow[Len(flow) - 1], Top)
<1>1. Len(flow) \in 1 .. Len(flow) /\ Last(flow) = flow[Len(flow)]
  BY TopContent, StackBounds
<1> QED
  BY <1>1 DEF Endures, Top

LEMMA ReplaceEndures ==
  ASSUME OfferInv, Endures(env, flow), NEW f, Replace(f) \/ Puts(f),
         f.kind = Top.kind \/ {f.kind, Top.kind} \subseteq Roots,
         EnduresOK(env, flow[Len(flow) - 1], f)
  PROVE  Endures(env', flow')
<1>1. Endures(env, Append(Front(flow), f))
  BY TopContent, EndureReplace DEF Top
<1> QED
  BY <1>1 DEF Replace, GoTo, Puts

LEMMA PushEndures ==
  ASSUME OfferInv, Endures(env, flow), NEW f, GoTo(Append(flow, f)), EnduresOK(env, Top, f)
  PROVE  Endures(env', flow')
<1>1. Endures(env, Append(flow, f))
  BY TopContent, EndurePush DEF Top
<1> QED
  BY <1>1 DEF GoTo

LEMMA ObtainEndures ==
  ASSUME OfferInv, Endures(env, flow), NEW con, ObtainCredentials(con)
  PROVE  Endures(env', flow')
<1>1. PICK f : GoTo(Append(flow, f)) /\ f.kind \in {"obtainCredentials", "credentialInformation"}
  BY DEF ObtainCredentials
<1>2. EnduresOK(env, Top, f)
  BY <1>1 DEF EnduresOK
<1> QED
  BY <1>1, <1>2, PushEndures

LEMMA WizardEndures ==
  ASSUME OfferInv, Endures(env, flow), ChooseInWizard \/ NextInWizard \/ CompleteWizard
  PROVE  Endures(env', flow')
<1>0. /\ Top.kind = "issueWizard" /\ WizardOK(env, Top) /\ request \in Requests
      /\ EnduresOK(env, flow[Len(flow) - 1], Top)
      /\ KnownOK(env) /\ FromWallet(env)
      /\ Parsed(env) = env.candidates /\ DOMAIN env.candidates = DOMAIN request
  BY TopContent, TopEndures DEF ChooseInWizard, NextInWizard, CompleteWizard, Shows, ContentOK
<1>1. CASE ChooseInWizard
  <2>1. PICK selected, planned : Replace([Top EXCEPT !.selected = selected, !.planned = planned])
    BY <1>1 DEF ChooseInWizard
  <2> DEFINE f == [Top EXCEPT !.selected = selected, !.planned = planned]
  <2>2. f.kind = Top.kind /\ f.options = Top.options
    BY <1>0 DEF WizardOK
  <2> HIDE DEF f
  <2>3. EnduresOK(env, flow[Len(flow) - 1], f)
    BY <1>0, <2>2 DEF EnduresOK
  <2> QED
    BY <2>1, <2>2, <2>3, ReplaceEndures DEF f
<1>2. CASE NextInWizard
  BY <1>2, ObtainEndures DEF NextInWizard
<1>3. CASE CompleteWizard
  <2> DEFINE D == env.candidates
             choices == BestChoices(D)
             prevAdded == [i \in {j \in DOMAIN choices : PrevAdded(choices[j]) # << >>} |->
                             PrevAdded(choices[i])]
             more == \E i \in DOMAIN choices :
                       choices[i] = << >> /\ \E c \in Flattened(D[i]) : PreviouslyAdded(env, c)
             walk == ChoicesFrame("previouslyAdded", D, prevAdded, Changeable(D), more, Top.planned)
             next == IF DOMAIN prevAdded = {} /\ ~more THEN Overview(D, choices, Top.planned)
                     ELSE walk
  <2>1. Replace(next)
    BY <1>0, <1>3 DEF CompleteWizard
  <2>2. DOMAIN choices = DOMAIN request /\ \A i \in DOMAIN request : choices[i] \in ToSet(D[i])
    BY <1>0, BestChoicesOK
  <2> HIDE DEF choices
  <2>3. ASSUME NEW i \in DOMAIN prevAdded PROVE Held(env, i)
    <3> DEFINE con == choices[i]
    <3>1. i \in DOMAIN request /\ PrevAdded(con) # << >>
      BY <2>2
    <3>2. D[i] \in Seq(Seq(Part)) /\ con \in ToSet(D[i])
      BY <1>0, <2>2, <3>1, CandidatesOK
    <3>3. con \in Seq(Part)
      <4> HIDE DEF D, con
      <4> QED
        BY <3>2 DEF ToSet
    <3>4. con \in ToSet(env.candidates[i])
      BY <3>2
    <3> HIDE DEF con, D
    <3>5. /\ PrevAdded(con) \in Seq(Part)
          /\ ToSet(PrevAdded(con)) = ToSet(con) \cap {c \in ToSet(con) : PreviouslyAdded(env, c)}
      BY <3>3, OnlySet DEF PrevAdded
    <3>6. PICK c \in ToSet(con) : PreviouslyAdded(env, c)
      BY <3>1, <3>5, SomeElement
    <3> QED
      BY <3>1, <3>4, <3>6 DEF Held, Flattened
  <2>4. walk.kind = "previouslyAdded" /\ DOMAIN walk.required \subseteq DOMAIN prevAdded
    <3> HIDE DEF prevAdded, more, D
    <3>1. walk.kind = "previouslyAdded" /\ \E S : walk.required = Restrict(prevAdded, {i \in DOMAIN prevAdded : i \in S})
      BY DEF ChoicesFrame
    <3> HIDE DEF walk
    <3> QED
      BY <3>1 DEF Restrict
  <2>5. Overview(D, choices, Top.planned).kind = "overview"
    BY OverviewOK
  <2> HIDE DEF prevAdded, more, D, walk
  <2>6. next.kind \in Roots /\ EnduresOK(env, flow[Len(flow) - 1], next)
    BY <2>3, <2>4, <2>5 DEF EnduresOK, Roots
  <2>7. Top.kind \in Roots
    BY <1>0 DEF Roots
  <2> HIDE DEF next
  <2> QED
    BY <2>1, <2>6, <2>7, ReplaceEndures
<1> QED
  BY <1>1, <1>2, <1>3

LEMMA PageEndures ==
  ASSUME OneWayRequests, OfferInv, Endures(env, flow),
         NextInIntroduction \/ NextInObtainCredentials \/ Previous
  PROVE  Endures(env', flow')
<1>1. CASE NextInIntroduction
  <2>1. Endures(env, <<Start(env)>>)
    BY TopContent, EndureStart
  <2> HIDE DEF Start
  <2> QED
    BY <1>1, <2>1 DEF NextInIntroduction, Listen
<1>2. CASE NextInObtainCredentials \/ Previous
  <2>1. GoTo(Front(flow)) /\ Last(flow).kind \notin Roots
    BY <1>2 DEF NextInObtainCredentials, Previous, Shows, Roots, Top
  <2> QED
    BY <2>1, TopContent, EndureFront DEF GoTo
<1> QED
  BY <1>1, <1>2

\* To an overview, within it, and out.
LEMMA OverviewEndures ==
  ASSUME OfferInv, Endures(env, flow),
         \/ NextInPreviouslyAdded \/ Dismiss
         \/ NextInOverview \/ ConfirmInDialog \/ DismissDialog
  PROVE  Endures(env', flow')
<1>1. CASE NextInPreviouslyAdded
  <2>1. PICK candidates, choices : Replace(Overview(candidates, choices, Top.planned))
    BY <1>1 DEF NextInPreviouslyAdded
  <2> DEFINE f == Overview(candidates, choices, Top.planned)
  <2>2. f.kind = "overview"
    BY OverviewOK
  <2>3. Top.kind \in Roots
    BY <1>1 DEF NextInPreviouslyAdded, Roots
  <2> HIDE DEF f
  <2>4. f.kind \in Roots /\ EnduresOK(env, flow[Len(flow) - 1], f)
    BY <2>2 DEF Roots, EnduresOK
  <2> QED
    BY <2>1, <2>3, <2>4, ReplaceEndures DEF f
<1>2. CASE Marks
  <2>1. PICK popup : Puts([Top EXCEPT !.popup = popup])
    BY <1>2 DEF Marks
  <2> DEFINE f == [Top EXCEPT !.popup = popup]
  <2>2. Top.kind = "overview" /\ "kind" \in DOMAIN Top
    BY <1>2, TopContent DEF Marks, Shows, FrameOK
  <2>3. f.kind = Top.kind
    BY <2>2
  <2> HIDE DEF f
  <2>4. EnduresOK(env, flow[Len(flow) - 1], f)
    BY <2>2, <2>3 DEF EnduresOK
  <2> QED
    BY <2>1, <2>3, <2>4, ReplaceEndures DEF f
<1>3. CASE Sends \/ Dismiss
  BY <1>3, EndurePlain DEF Sends, SendChoices, Dismiss, Finished
<1>4. CASE Rests
  BY <1>4 DEF Rests
<1> QED
  BY <1>1, <1>2, <1>3, <1>4, Presses

LEMMA ChangeEndures ==
  ASSUME OfferInv, Endures(env, flow), ChangeChoice
  PROVE  Endures(env', flow')
<1>0. /\ Top.kind \in ChoiceKinds /\ ChoicesOK(env, Top) /\ request \in Requests
      /\ FromWallet(env) /\ Parsed(env) = env.candidates
      /\ EnduresOK(env, flow[Len(flow) - 1], Top)
  BY TopContent, TopEndures DEF ChangeChoice, ShowsChoices, Shows, ContentOK, ChoiceKinds
<1>1. PICK i \in DOMAIN ChoicesOf(Top) :
        GoTo(Append(flow,
          [kind |-> "changeChoice", index |-> i, discon |-> OptionsFor(Top, i),
           selected |-> FindSelectedConIndex(env, Parsed(env)[i], None, ChoicesOf(Top)[i], FALSE)]))
  BY DEF ChangeChoice
<1> DEFINE D == env.candidates[i]
           choice == ChoicesOf(Top)[i]
           k == FindSelectedConIndex(env, D, None, choice, FALSE)
           discon == OptionsFor(Top, i)
           f == [kind |-> "changeChoice", index |-> i, discon |-> discon, selected |-> k]
<1>2. i \in DOMAIN request
  BY <1>0, ChosenOK
<1>3. Shown(i, D) /\ TypesOf(D) = TypesOf(request[i]) /\ D \in Seq(Seq(Part)) /\ D # << >>
  BY <1>0, <1>2, CandidatesShown, CandidatesOK
<1>4. GoTo(Append(flow, f))
  BY <1>0, <1>1
<1> HIDE DEF choice
<1>5. k \in 1 .. Len(D) /\ DOMAIN D = 1 .. Len(D)
  <2> HIDE DEF D
  <2>1. D \in Seq(Seq(Part)) /\ D # << >>
    BY <1>3
  <2>2. k \in 1 .. Len(D)
    BY <2>1, FindShape
  <2> HIDE DEF k
  <2>3. DOMAIN D = 1 .. Len(D)
    BY <2>1
  <2> QED
    BY <2>2, <2>3
<1> HIDE DEF k
<1>6. /\ Shown(i, discon)
      /\ Top.kind = "overview" \/ OneType(request[i]) => k \in DOMAIN discon
  <2>1. CASE Top.kind = "overview"
    <3>1. discon = D
      BY <1>0, <2>1 DEF OptionsFor
    <3> QED
      BY <1>3, <1>5, <3>1
  <2>2. CASE Top.kind # "overview"
    <3> DEFINE types == {c.type : c \in {d \in Flattened(D) : PreviouslyAdded(env, d)}}
    <3>1. discon = CutDisCon(D, types)
      BY <1>0, <2>2 DEF OptionsFor
    <3>2. i \in Opt \/ types \cap TypesOf(request[i]) # {}
      <4>1. CASE i \in DOMAIN Top.required
        <5>1. Held(env, i)
          BY <1>0, <2>2, <4>1 DEF EnduresOK, ChoiceKinds
        <5>2. PICK c \in Flattened(D) : PreviouslyAdded(env, c)
          BY <5>1 DEF Held
        <5>3. c.type \in types /\ c.type \in TypesOf(D)
          BY <5>2 DEF TypesOf
        <5> QED
          BY <1>3, <5>3
      <4>2. CASE i \notin DOMAIN Top.required
        BY <1>0, <4>2, ChoicesDomain DEF ChoicesOK
      <4> QED
        BY <4>1, <4>2
    <3> HIDE DEF types
    <3>3. Shown(i, CutDisCon(env.candidates[i], types))
      BY <1>0, <1>2, <3>2, CutShown
    <3>4. ASSUME OneType(request[i]) PROVE k \in DOMAIN discon
      <4>1. i \notin Opt
        BY <3>4 DEF OneType, Opt, IsOptional
      <4>2. Len(CutDisCon(env.candidates[i], types)) = Len(env.candidates[i])
        BY <1>0, <1>2, <3>2, <3>4, <4>1, CutTogether
      <4>3. discon \in Seq(Seq(Part)) /\ Len(discon) = Len(D)
        BY <3>1, <3>3, <4>2 DEF Shown
      <4> HIDE DEF discon, D
      <4> QED
        BY <1>5, <4>3
    <3> QED
      BY <2>2, <3>1, <3>3, <3>4
  <2> QED
    BY <2>1, <2>2
<1>7. f.kind = "changeChoice" /\ f.index = i /\ f.discon = discon /\ f.selected = k
  OBVIOUS
<1> HIDE DEF f, discon
<1>8. EnduresOK(env, Top, f)
  BY <1>2, <1>6, <1>7 DEF EnduresOK
<1> QED
  BY <1>4, <1>8, PushEndures

\* No choice that has to be made gets lost.
LEMMA ChoicesEndure ==
  ASSUME NEW e, NEW p, NEW f, FrameOK(f), f.kind \in ChoiceKinds, EnduresOK(e, p, f), NEW discon,
         NEW i, NEW k, NEW q
  PROVE  EnduresOK(e, q, RefreshChoices(f, discon, i, k))
<1> DEFINE g == RefreshChoices(f, discon, i, k)
<1>1. DOMAIN f = ChoicesFields
  BY DEF FrameOK
<1>2. /\ g.kind = f.kind
      /\ \/ g.required = f.required
         \/ g.required = [f.required EXCEPT ![i] = discon[k]]
  BY <1>1 DEF RefreshChoices, ChoicesFields
<1>3. DOMAIN g.required = DOMAIN f.required
  BY <1>2
<1> HIDE DEF g
<1>4. EnduresOK(e, q, g)
  BY <1>2, <1>3 DEF EnduresOK, ChoiceKinds
<1> QED
  BY <1>4 DEF g

LEMMA OptionalEndures ==
  ASSUME OfferInv, Endures(env, flow), AddOptional \/ RemoveOptional
  PROVE  Endures(env', flow')
<1>0. /\ Top.kind \in ChoiceKinds /\ FrameOK(Top) /\ EnduresOK(env, flow[Len(flow) - 1], Top)
      /\ request \in Requests /\ KnownOK(env) /\ FromWallet(env)
  BY TopContent, TopEndures DEF AddOptional, RemoveOptional, ShowsChoices, Shows, ChoiceKinds
<1>1. CASE AddOptional
  <2> DEFINE f == AddOptionalData(env, Top, None, None)
  <2>1. GoTo(Append(flow, f)) /\ Addable(env, Top) # << >>
    BY <1>1 DEF AddOptional
  <2>2. Free(Top)
    BY <1>0, <2>1, AddableFree
  <2>3. f.kind = "addOptionalData" /\ "selected" \in DOMAIN f /\ f.selected \in DOMAIN f.discon
    BY <1>0, <2>2, AddContent, AddSelects
  <2> HIDE DEF f
  <2>4. EnduresOK(env, Top, f)
    BY <2>2, <2>3 DEF EnduresOK
  <2> QED
    BY <2>1, <2>4, PushEndures
<1>2. CASE RemoveOptional
  <2>1. PICK discon, i : Replace(RefreshChoices(Top, discon, i, 0))
    BY <1>2 DEF RemoveOptional
  <2> DEFINE f == RefreshChoices(Top, discon, i, 0)
  <2>2. EnduresOK(env, flow[Len(flow) - 1], f) /\ f.kind = Top.kind
    BY <1>0, ChoicesEndure, RefreshChoicesOK
  <2> HIDE DEF f
  <2> QED
    BY <2>1, <2>2, ReplaceEndures DEF f
<1> QED
  BY <1>1, <1>2

LEMMA MakeEndures ==
  ASSUME OfferInv, Endures(env, flow), ChooseOption \/ NextInMakeChoice
  PROVE  Endures(env', flow')
<1> DEFINE parent == flow[Len(flow) - 1]
<1>0. /\ Top.kind \in {"changeChoice", "addOptionalData"} /\ IsStack(flow)
      /\ ContentOK(env, parent, Top) /\ EnduresOK(env, parent, Top)
  BY TopContent, TopEndures DEF ChooseOption, NextInMakeChoice, ShowsMakeChoice, Shows
<1>1. CASE ChooseOption
  <2>1. PICK k \in DOMAIN Top.discon : Replace([Top EXCEPT !.selected = k])
    BY <1>1 DEF ChooseOption
  <2> DEFINE f == [Top EXCEPT !.selected = k]
  <2>2. "selected" \in DOMAIN Top /\ "kind" \in DOMAIN Top
    BY <1>0, TopContent DEF ContentOK, MakeOK, EnduresOK, FrameOK
  <2>3. /\ f.kind = Top.kind /\ f.discon = Top.discon /\ f.index = Top.index
        /\ f.selected = k /\ DOMAIN f = DOMAIN Top
    BY <2>2
  <2> HIDE DEF f
  <2>4. EnduresOK(env, parent, f)
    BY <1>0, <2>1, <2>2, <2>3 DEF EnduresOK
  <2> QED
    BY <2>1, <2>3, <2>4, ReplaceEndures DEF f
<1>2. CASE NextInMakeChoice
  <2>1. Last(flow).kind \notin Roots
    BY <1>0 DEF Roots, Top
  <2>2. Len(flow) >= 2 /\ Len(flow) \in Nat /\ parent.kind \in ChoiceKinds
    BY <1>0, <2>1, FrontStack, StackBounds, ParentsOf DEF Top
  <2>3. PICK n : n = Len(flow) - 1 /\ n \in 1 .. Len(flow)
    <3>1. \A N \in Nat : N >= 2 => N - 1 \in 1 .. N
      OBVIOUS
    <3> QED
      BY <2>2, <3>1
  <2>4. FrameOK(parent) /\ EnduresOK(env, flow[n - 1], parent) /\ n = 1
    <3>1. parent.kind \in Roots
      BY <2>2 DEF Roots, ChoiceKinds
    <3> QED
      BY <1>0, <2>3, <3>1, StackRoots DEF IsStack, Endures
  <2>5. SubSeq(flow, 1, Len(flow) - 2) = << >>
    <3>1. PICK S : flow \in Seq(S)
      BY <1>0 DEF IsStack
    <3>2. Len(flow) - 2 = 0
      BY <2>2, <2>3, <2>4
    <3>3. SubSeq(flow, 1, 0) = << >>
      BY <3>1
    <3> QED
      BY <3>2, <3>3
  <2>6. \/ ObtainCredentials(SelectedCon(Top))
        \/ \E discon, i, k :
             GoTo(Append(SubSeq(flow, 1, Len(flow) - 2), RefreshChoices(parent, discon, i, k)))
    BY <1>2 DEF NextInMakeChoice
  <2>7. CASE ObtainCredentials(SelectedCon(Top))
    BY <2>7, ObtainEndures
  <2> HIDE DEF parent
  <2>8. ASSUME NEW discon, NEW i, NEW k, GoTo(Append(<< >>, RefreshChoices(parent, discon, i, k)))
        PROVE  Endures(env', flow')
    <3> DEFINE f == RefreshChoices(parent, discon, i, k)
    <3>1. \A q : EnduresOK(env, q, f)
      BY <2>2, <2>4, ChoicesEndure
    <3>2. GoTo(<<f>>)
      <4>1. Append(<< >>, f) = <<f>>
        OBVIOUS
      <4> QED
        BY <2>8, <4>1
    <3> HIDE DEF f
    <3> QED
      BY <3>1, <3>2, EndureSingle DEF GoTo
  <2> QED
    BY <2>5, <2>6, <2>7, <2>8
<1> QED
  BY <1>1, <1>2

LEMMA RequestKept ==
  ASSUME OneWayRequests, SingletonsStay, OfferInv, [Next]_vars
  PROVE  request' = request
<1>1. CASE System
  BY <1>1, SystemContent DEF Suits
<1>2. CASE User
  <2>1. CASE NextInOverview \/ ConfirmInDialog \/ DismissDialog
    BY <2>1, Presses DEF Marks, Puts, Sends, SendChoices, Rests
  <2>2. CASE \/ ChooseInWizard \/ NextInWizard \/ CompleteWizard
             \/ NextInIntroduction \/ NextInObtainCredentials \/ Previous
    BY <2>2, WizardContent, PageContent DEF Suits
  <2>3. CASE NextInPreviouslyAdded \/ ChangeChoice
    BY <2>3, PreviousContent, ChangeContent DEF Suits
  <2>4. CASE AddOptional \/ RemoveOptional \/ ChooseOption \/ NextInMakeChoice \/ Dismiss
    BY <2>4, OptionalContent, MakeContent, LeaveContent DEF Suits
  <2> QED
    BY <1>2, <2>1, <2>2, <2>3, <2>4 DEF User
<1>3. CASE UNCHANGED vars
  BY <1>3 DEF vars
<1> QED
  BY <1>1, <1>2, <1>3 DEF Next

LEMMA EnduresStep ==
  ASSUME OneWayRequests, SingletonsStay, OfferInv, Endures(env, flow), [Next]_vars
  PROVE  Endures(env, flow)'
<1>1. Endures(env', flow')
  <2>1. CASE System
    BY <2>1, SystemEndures
  <2>2. CASE User
    <3>1. CASE \/ ChooseInWizard \/ NextInWizard \/ CompleteWizard
               \/ NextInIntroduction \/ NextInObtainCredentials \/ Previous
      BY <3>1, WizardEndures, PageEndures
    <3>2. CASE \/ NextInPreviouslyAdded \/ Dismiss
               \/ NextInOverview \/ ConfirmInDialog \/ DismissDialog
      BY <3>2, OverviewEndures
    <3>3. CASE ChangeChoice \/ AddOptional \/ RemoveOptional \/ ChooseOption \/ NextInMakeChoice
      BY <3>3, ChangeEndures, OptionalEndures, MakeEndures
    <3> QED
      BY <2>2, <3>1, <3>2, <3>3 DEF User
  <2>3. CASE UNCHANGED vars
    BY <2>3 DEF vars
  <2> QED
    BY <2>1, <2>2, <2>3 DEF Next
<1>2. request' = request
  BY RequestKept
<1> QED
  BY <1>1, <1>2, EnduresStays

LEMMA Largest ==
  ASSUME NEW N \in Nat, NEW I, I \subseteq 1 .. N, I # {}
  PROVE  Max(I) \in I /\ \A i \in I : i <= Max(I)
<1> DEFINE J == {N - i : i \in I}
<1>1. J \subseteq Nat /\ J # {}
  <2>1. \A i \in I : N - i \in Nat
    OBVIOUS
  <2>2. PICK i : i \in I
    OBVIOUS
  <2>3. N - i \in J
    BY <2>2
  <2> QED
    BY <2>1, <2>3
<1>2. Min(J) \in J /\ \A j \in J : Min(J) <= j
  BY <1>1, Smallest
<1>3. PICK m \in I : Min(J) = N - m
  BY <1>2
<1>4. ASSUME NEW i \in I PROVE i <= m
  <2>1. N - i \in J
    OBVIOUS
  <2>2. N - m <= N - i
    BY <1>2, <1>3, <2>1
  <2>3. i \in Int /\ m \in Int
    OBVIOUS
  <2> QED
    BY <2>2, <2>3
<1>5. \E n \in I : \A i \in I : n >= i
  BY <1>4
<1>6. Max(I) \in I /\ \A i \in I : Max(I) >= i
  BY <1>5 DEF Max
<1> QED
  BY <1>6

\* Below the states that pass a change on is one that does not.
LEMMA BaseOK ==
  ASSUME NEW stack, IsStack(stack), ~PassesOn(stack[1])
  PROVE  Base(stack) \in 1 .. Len(stack)
<1> DEFINE I == {n \in 1 .. Len(stack) : ~PassesOn(stack[n])}
<1>1. Len(stack) \in Nat /\ 1 \in I
  BY StackBounds
<1>2. Base(stack) = Max(I)
  BY <1>1 DEF Base, SelectLastInSeq
<1>3. I \subseteq 1 .. Len(stack) /\ I # {}
  BY <1>1
<1> HIDE DEF I
<1>4. Max(I) \in I
  BY <1>1, <1>3, Largest
<1> QED
  BY <1>2, <1>3, <1>4

\* A list of options among the choices that were there before, for a discon whose
\* options ask for different types.
Narrowed(parent, f) ==
  f.kind = "changeChoice" /\ parent.kind = "previouslyAdded" /\ ~OneType(request[f.index])

LEMMA MapSurvives ==
  ASSUME OfferInv, Endures(env, flow), MapThrows(env, flow)
  PROVE  \E n \in 2 .. Len(flow) : Narrowed(flow[n - 1], flow[n])
<1>0. request \in Requests /\ KnownOK(env) /\ IsStack(flow) /\ FromWallet(env)
  BY TopContent
<1> DEFINE stack == Affected(flow)
           base == Base(stack)
           f == stack[base]
           parent == stack[base - 1]
<1>1. PICK k : /\ k \in 1 .. Len(flow) /\ IsStack(stack) /\ Len(stack) = k
               /\ \A n \in 1 .. k : stack[n] = flow[n]
  <2>1. Len(flow) \in Nat /\ Len(flow) >= 1 /\ Len(flow) \in 1 .. Len(flow)
    BY <1>0, StackBounds
  <2>2. CASE Last(flow).kind # "credentialInformation"
    BY <1>0, <2>1, <2>2 DEF Affected
  <2>3. CASE Last(flow).kind = "credentialInformation"
    <3>1. Len(flow) >= 2
      BY <1>0, <2>3, FrontStack DEF Roots
    <3>2. PICK m : m = Len(flow) - 1 /\ m \in 1 .. Len(flow)
      <4>1. \A N \in Nat : N >= 2 => N - 1 \in 1 .. N
        OBVIOUS
      <4> QED
        BY <2>1, <3>1, <4>1
    <3>3. stack = SubSeq(flow, 1, m)
      BY <2>3, <3>2 DEF Affected, Front
    <3> QED
      BY <1>0, <3>2, <3>3, CutStack
  <2> QED
    BY <2>2, <2>3
<1>2. MapThrows(env, flow) <=>
        \/ /\ f.kind = "issueWizard"
           /\ \E i \in DOMAIN f.options : ~WizardObtained(env, f)[i] /\ f.options[i] = << >>
        \/ f.kind = "addOptionalData" /\ Addable(env, parent) = << >>
        \/ f.kind \in {"changeChoice", "addOptionalData"} /\ f.selected \notin DOMAIN f.discon
  BY DEF MapThrows
<1>3. base \in 1 .. k
  <2>1. stack[1].kind \in Roots
    BY <1>1 DEF IsStack
  <2>2. ~PassesOn(stack[1])
    BY <2>1 DEF PassesOn, Roots
  <2> HIDE DEF stack
  <2> QED
    BY <1>1, <2>2, BaseOK
<1> HIDE DEF stack, base
<1>4. f.kind \in Roots <=> base = 1
  BY <1>1, <1>3, StackRoots
<1>5. ASSUME base # 1
      PROVE  /\ base \in 2 .. Len(flow) /\ flow[base] = f /\ flow[base - 1] = parent
  <2>1. k \in Nat /\ k <= Len(flow) /\ Len(flow) \in Nat
    BY <1>0, <1>1, StackBounds
  <2>2. base \in 2 .. k /\ base - 1 \in 1 .. k
    BY <1>3, <1>5, <2>1
  <2> QED
    BY <1>1, <2>1, <2>2
<1>6. \E p : EnduresOK(env, p, f) /\ (base # 1 => p = parent)
  <2>1. base \in 1 .. Len(flow) /\ f = flow[base]
    BY <1>0, <1>1, <1>3, StackBounds
  <2>2. EnduresOK(env, flow[base - 1], f)
    BY <2>1 DEF Endures
  <2> QED
    BY <1>5, <2>2
<1>7. PICK p : EnduresOK(env, p, f) /\ (base # 1 => p = parent)
  BY <1>6
<1> HIDE DEF f, parent
<1>8. CASE f.kind = "issueWizard"
  BY <1>2, <1>7, <1>8 DEF EnduresOK
<1>9. CASE f.kind = "addOptionalData"
  <2>1. base # 1
    BY <1>4, <1>9 DEF Roots
  <2>2. Free(parent) /\ f.selected \in DOMAIN f.discon
    BY <1>7, <1>9, <2>1 DEF EnduresOK
  <2>3. Addable(env, parent) # << >>
    BY <1>0, <2>2, AddableFree
  <2> QED
    BY <1>2, <1>9, <2>2, <2>3
<1>10. CASE f.kind = "changeChoice"
  <2>1. base # 1
    BY <1>4, <1>10 DEF Roots
  <2>2. base \in 2 .. Len(flow) /\ flow[base] = f /\ flow[base - 1] = parent
    BY <1>5, <2>1
  <2>3. parent.kind \in {"previouslyAdded", "overview"}
    BY <1>0, <1>10, <2>2, ParentsOf DEF IsStack, ChoiceKinds
  <2>4. f.selected \notin DOMAIN f.discon
    BY <1>2, <1>10
  <2>5. Narrowed(parent, f)
    BY <1>7, <1>10, <2>1, <2>3, <2>4 DEF EnduresOK, Narrowed
  <2> QED
    BY <2>2, <2>5
<1> QED
  BY <1>2, <1>8, <1>9, <1>10

SurvivalInv == OfferInv /\ Endures(env, flow)

LEMMA SurvivalInit == Init => SurvivalInv
<1> SUFFICES ASSUME Init PROVE SurvivalInv
  OBVIOUS
<1>1. flow = <<[kind |-> "initial"]>>
  BY DEF Init
<1> QED
  BY <1>1, OfferInit, EndurePlain DEF SurvivalInv

LEMMA SurvivalStep ==
  ASSUME OneWayRequests, SingletonsStay, SurvivalInv, [Next]_vars
  PROVE  SurvivalInv'
BY OfferStep, EnduresStep DEF SurvivalInv

\* There is one place where a change of the session cannot be mapped: a list of options
\* opened from the choices that were there before, for a discon whose options ask for
\* different types or one that may be left out.  It is cut to the types that were there,
\* while what is selected counts the options before the cut.  A wizard always has
\* options to refresh, what was opened to add always has something to add, and every
\* other selection stays in range, however the candidates changed meanwhile.
THEOREM ThrowsTheorem ==
  ASSUME OneWayRequests, SingletonsStay
  PROVE  Spec => [](StreamSurvives
                      \/ \E n \in 2 .. Len(flow) : Narrowed(flow[n - 1], flow[n]))
<1>1. SurvivalInv => StreamSurvives \/ \E n \in 2 .. Len(flow) : Narrowed(flow[n - 1], flow[n])
  BY MapSurvives DEF SurvivalInv, StreamSurvives
<1>2. SurvivalInv /\ [Next]_vars => SurvivalInv'
  BY SurvivalStep
<1> QED
  BY <1>1, <1>2, SurvivalInit, PTL DEF Spec

\* Every option of a discon asks for the same types.
OneTypeRequests == \A req \in Requests : \A discon \in ToSet(req) : OneType(discon)

\* For requests that leave no such choice, the map of a change never throws.
THEOREM StreamTheorem ==
  ASSUME OneWayRequests, SingletonsStay, OneTypeRequests
  PROVE  Spec => []StreamSurvives
<1>1. ASSUME SurvivalInv PROVE StreamSurvives
  <2> SUFFICES ASSUME MapThrows(env, flow) PROVE FALSE
    BY DEF StreamSurvives
  <2>1. PICK n \in 2 .. Len(flow) : Narrowed(flow[n - 1], flow[n])
    BY <1>1, MapSurvives DEF SurvivalInv
  <2>2. request \in Requests /\ Len(flow) \in Nat
    BY <1>1, TopContent, StackBounds DEF SurvivalInv
  <2>3. n \in 1 .. Len(flow) /\ EnduresOK(env, flow[n - 1], flow[n])
    BY <1>1, <2>2 DEF SurvivalInv, Endures
  <2>4. flow[n].index \in DOMAIN request
    BY <2>1, <2>3 DEF Narrowed, EnduresOK
  <2>5. request[flow[n].index] \in ToSet(request)
    BY <2>4 DEF ToSet
  <2> QED
    BY <2>1, <2>2, <2>5 DEF OneTypeRequests, Narrowed
<1>2. SurvivalInv /\ [Next]_vars => SurvivalInv'
  BY SurvivalStep
<1> QED
  BY <1>1, <1>2, SurvivalInit, PTL DEF Spec

-----------------------------------------------------------------------------
(* What was obtained. *)

\* What this session asks for, and what its options are made of.
Entries == UNION {Flattened(request[i]) : i \in DOMAIN request}

Asked == Credential \cup Entries

LEMMA EntriesOK ==
  ASSUME request \in Requests
  PROVE  /\ \A i \in DOMAIN request : \A con \in ToSet(request[i]) : con \in Seq(Entries)
         /\ \A t \in Entries : ~IsChoosable(t)
<1>1. ASSUME NEW i \in DOMAIN request, NEW con \in ToSet(request[i])
      PROVE  con \in Seq(Entries) /\ con \in Seq(Entry)
  <2>1. con \in Seq(Entry)
    BY <1>1, RequestFacts DEF ToSet
  <2>2. \A k \in 1 .. Len(con) : con[k] \in ToSet(con)
    BY <2>1 DEF ToSet
  <2>3. ToSet(con) \subseteq Entries
    BY <1>1 DEF Entries, Flattened
  <2> QED
    BY <2>1, <2>2, <2>3
<1>2. ASSUME NEW t \in Entries PROVE t \in Entry
  <2>1. PICK i \in DOMAIN request : \E con \in ToSet(request[i]) : t \in ToSet(con)
    BY DEF Entries, Flattened
  <2>2. PICK con \in ToSet(request[i]) : t \in ToSet(con)
    BY <2>1
  <2>3. con \in Seq(Entry)
    BY <1>1
  <2> QED
    BY <2>2, <2>3 DEF ToSet
<1> QED
  BY <1>1, <1>2, PartFacts

LEMMA SetSequence ==
  ASSUME NEW X, NEW s \in Seq(X), NEW Y, ToSet(s) \subseteq Y
  PROVE  s \in Seq(Y)
BY DEF ToSet

LEMMA TemplatesAsked ==
  ASSUME request \in Requests, NEW con \in Seq(Asked)
  PROVE  Templates(con) \in Seq(Entries)
<1> DEFINE U == {c \in ToSet(con) : IsChoosable(c)}
           s == Without(con, U)
<1>1. s \in Seq(Asked) /\ ToSet(s) = ToSet(con) \ U
  BY WithoutPlaces, WithoutSet
<1>2. ToSet(con) \subseteq Asked
  BY DEF ToSet
<1>3. ToSet(s) \subseteq Entries
  BY <1>1, <1>2, PartFacts DEF Asked
<1>4. Templates(con) = s
  BY DEF Templates
<1> HIDE DEF s
<1> QED
  BY <1>1, <1>3, <1>4, SetSequence

LEMMA CandidatesAsked ==
  ASSUME request \in Requests, NEW e, FromWallet(e), NEW i \in DOMAIN request
  PROVE  e.candidates[i] \in Seq(Seq(Asked))
<1>1. PICK w \in Seq(Credential) : e.candidates = Candidates(w, request)
  BY DEF FromWallet
<1> DEFINE D == DisConCandidates(w, request[i])
<1>2. e.candidates[i] = D
  BY <1>1 DEF Candidates
<1>3. request[i] \in Seq(Seq(Entry))
  BY RequestFacts
<1>4. D \in Seq(Seq(Part)) /\ \A x \in ToSet(D) : \E k \in DOMAIN request[i] : Follows(w, request[i][k], x)
  BY <1>3, DisConOffers
<1> HIDE DEF D
<1>5. ASSUME NEW x \in ToSet(D) PROVE x \in Seq(Asked)
  <2>1. PICK k \in DOMAIN request[i] : Follows(w, request[i][k], x)
    BY <1>4
  <2> DEFINE con == request[i][k]
  <2>2. con \in ToSet(request[i])
    BY <2>1 DEF ToSet
  <2> HIDE DEF con
  <2>3. con \in Seq(Entries)
    BY <2>2, EntriesOK
  <2>4. Follows(w, con, x)
    BY <2>1 DEF con
  <2>5. ASSUME NEW j \in 1 .. Len(x) PROVE x[j] \in Asked
    <3>1. x[j] = con[j] \/ x[j] \in ToSet(w)
      BY <2>4 DEF Follows
    <3>2. con[j] \in Entries
      BY <2>3, <2>4 DEF Follows
    <3>3. ToSet(w) \subseteq Credential
      BY DEF ToSet
    <3> QED
      BY <3>1, <3>2, <3>3 DEF Asked
  <2> QED
    BY <2>4, <2>5 DEF Follows
<1>6. ToSet(D) \subseteq Seq(Asked)
  BY <1>5
<1> QED
  BY <1>2, <1>4, <1>6, SetSequence

LEMMA WizardAsked ==
  ASSUME request \in Requests, NEW discon \in Seq(Seq(Asked))
  PROVE  IssueWizardDisCon(discon) \in Seq(Seq(Entries))
<1> DEFINE options == [k \in DOMAIN discon |-> Templates(discon[k])]
<1>1. DOMAIN discon = 1 .. Len(discon) /\ \A k \in DOMAIN discon : discon[k] \in Seq(Asked)
  OBVIOUS
<1>2. \A k \in DOMAIN discon : Templates(discon[k]) \in Seq(Entries)
  BY <1>1, TemplatesAsked
<1>3. options \in Seq(Seq(Entries))
  BY <1>1, <1>2
<1>4. \E S : IssueWizardDisCon(discon) = Only(options, S)
  BY DEF IssueWizardDisCon
<1> HIDE DEF options
<1> QED
  BY <1>3, <1>4, OnlySet

\* What is to be obtained for a template was.
Got(e, t) == \E c \in ToSet(e.newly) \cap ToSet(e.wallet) : MatchesCredential(t, c)

\* Whatever is taken off the list, what was obtained for this session still is.
Gained(e, new) == \A t \in Entries : Got(e, t) => Got(new, t)

\* A request asks for one value of each type.
OneValueRequests ==
  \A req \in Requests :
    \A s, t \in UNION {Flattened(discon) : discon \in ToSet(req)} : s.type = t.type => s = t

LEMMA EntriesOfOneValue ==
  ASSUME OneValueRequests, request \in Requests, NEW s \in Entries, NEW t \in Entries,
         s.type = t.type
  PROVE  s = t
<1>1. Entries \subseteq UNION {Flattened(discon) : discon \in ToSet(request)}
  BY RequestFacts DEF Entries
<1> QED
  BY <1>1 DEF OneValueRequests

\* What is reported for one template was not obtained for another: an entry of its
\* type is that template, which it does not match.
LEMMA ValidateGains ==
  ASSUME OneValueRequests, request \in Requests, NEW e, KnownOK(e), NEW templates \in Seq(Entries),
         NEW fl
  PROVE  LET r == ValidateCredentialsObtained(templates, e, fl)
         IN  /\ Gained(e, r.env)
             /\ \/ r.flow = fl
                \/ \E g : g.kind = "wrong" /\ r.flow = Append(fl, g)
<1> DEFINE mismatched == Mismatched(e, templates)
           wrong == [k \in DOMAIN mismatched |-> Attempts(e, mismatched[k])[1]]
           r == ValidateCredentialsObtained(templates, e, fl)
           known == [e EXCEPT !.newly = Without(@, ToSet(wrong))]
           g == WrongCredentials(mismatched, wrong)
<1>1. \/ r = Outcome(e, fl)
      \/ r = Outcome(known, Append(fl, g))
  BY DEF ValidateCredentialsObtained
<1>2. CASE r = Outcome(e, fl)
  BY <1>2 DEF Outcome, Gained
<1>3. CASE r = Outcome(known, Append(fl, g))
  <2>1. known.wallet = e.wallet /\ known.newly = Without(e.newly, ToSet(wrong))
    BY DEF KnownOK
  <2>2. e.newly \in Seq(Credential)
    BY DEF KnownOK
  <2>3. Added(e) \in Seq(Credential) /\ ToSet(Added(e)) = ToSet(e.newly) \cap ToSet(e.wallet)
    <3>1. Added(e) = Without(e.newly, Credential \ ToSet(e.wallet))
      BY DEF Added
    <3>2. ToSet(e.newly) \subseteq Credential
      BY <2>2 DEF ToSet
    <3> QED
      BY <2>2, <3>1, <3>2, WithoutPlaces, WithoutSet
  <2>4. ASSUME NEW t PROVE /\ Attempts(e, t) \in Seq(Credential)
                           /\ ToSet(Attempts(e, t)) = {c \in ToSet(Added(e)) : c.type = t.type}
    <3> DEFINE S == {c \in ToSet(Added(e)) : c.type = t.type}
               s == Added(e)
    <3>1. Attempts(e, t) = Only(s, S)
      BY DEF Attempts
    <3>2. s \in Seq(Credential) /\ S \subseteq ToSet(s)
      BY <2>3
    <3> HIDE DEF s, S
    <3>3. Only(s, S) \in Seq(Credential) /\ ToSet(Only(s, S)) = ToSet(s) \cap S
      BY <3>2, OnlySet
    <3> QED
      BY <3>1, <3>2, <3>3 DEF S
  <2>5. /\ mismatched \in Seq(Entries)
        /\ \A t \in ToSet(mismatched) :
             Attempts(e, t) # << >> /\ \A c \in ToSet(Added(e)) : ~MatchesCredential(t, c)
    <3> DEFINE S == {t \in ToSet(templates) :
                       Attempts(e, t) # << >> /\ \A c \in ToSet(Added(e)) : ~MatchesCredential(t, c)}
    <3>1. mismatched = Only(templates, S)
      BY DEF Mismatched
    <3>2. Only(templates, S) \in Seq(Entries) /\ ToSet(Only(templates, S)) \subseteq S
      BY OnlySet
    <3> QED
      BY <3>1, <3>2
  <2> HIDE DEF mismatched
  <2>6. ASSUME NEW c \in ToSet(wrong)
        PROVE  \E m \in Entries : /\ c.type = m.type
                                  /\ \A d \in ToSet(Added(e)) : ~MatchesCredential(m, d)
    <3>1. PICK k \in DOMAIN mismatched : c = Attempts(e, mismatched[k])[1]
      BY DEF ToSet
    <3> DEFINE m == mismatched[k]
    <3>2. m \in Entries /\ m \in ToSet(mismatched)
      BY <2>5, <3>1 DEF ToSet
    <3> HIDE DEF m
    <3>3. Attempts(e, m) \in Seq(Credential) /\ Attempts(e, m) # << >>
      BY <2>4, <2>5, <3>2
    <3>4. c \in ToSet(Attempts(e, m))
      <4> DEFINE s == Attempts(e, m)
      <4>1. s \in Seq(Credential) /\ s # << >> /\ c = s[1]
        BY <3>1, <3>3 DEF m
      <4> HIDE DEF s
      <4>2. 1 \in DOMAIN s
        BY <4>1
      <4> QED
        BY <4>1, <4>2 DEF ToSet, s
    <3> QED
      BY <2>4, <2>5, <3>2, <3>4
  <2> HIDE DEF wrong
  <2>7. ASSUME NEW t \in Entries, Got(e, t) PROVE Got(known, t)
    <3>1. PICK c \in ToSet(e.newly) \cap ToSet(e.wallet) : MatchesCredential(t, c)
      BY <2>7 DEF Got
    <3>2. ASSUME c \in ToSet(wrong) PROVE FALSE
      <4>1. PICK m \in Entries : c.type = m.type /\ \A d \in ToSet(Added(e)) : ~MatchesCredential(m, d)
        BY <2>6, <3>2
      <4>2. m = t
        BY <3>1, <4>1, EntriesOfOneValue DEF MatchesCredential
      <4> QED
        BY <2>3, <3>1, <4>1, <4>2
    <3>3. ToSet(known.newly) = ToSet(e.newly) \ ToSet(wrong)
      BY <2>1, <2>2, WithoutSet
    <3> QED
      BY <2>1, <3>1, <3>2, <3>3 DEF Got
  <2>8. g.kind = "wrong"
    BY DEF WrongCredentials
  <2> HIDE DEF known, g
  <2> QED
    BY <1>3, <2>7, <2>8 DEF Gained, Outcome
<1> QED
  BY <1>1, <1>2, <1>3

\* A wizard, a list of options and a list of credentials to obtain ask for entries of
\* the request.
AsksOK(f) ==
  /\ f.kind = "issueWizard" =>
       /\ f.order \in Seq(DOMAIN f.options) /\ ToSet(f.order) = DOMAIN f.options
       /\ DOMAIN f.selected = DOMAIN f.options
       /\ \A i \in DOMAIN f.options :
            f.options[i] \in Seq(Seq(Entries)) /\ f.selected[i] \in DOMAIN f.options[i]
  /\ f.kind \in {"changeChoice", "addOptionalData"} =>
       "discon" \in DOMAIN f /\ f.discon \in Seq(Seq(Asked))
  /\ f.kind = "obtainCredentials" =>
       /\ DOMAIN f = {"kind", "templates", "obtained"}
       /\ f.templates \in Seq(Entries)

Asks(fl) == \A n \in 1 .. Len(fl) : AsksOK(fl[n])

Obtains(fl) == {n \in 1 .. Len(fl) : fl[n].kind = "obtainCredentials"}

Single(fl) == \A m, n \in Obtains(fl) : m = n

\* g is the list f of credentials to obtain, after a change of the session.
Renews(e, f, g) ==
  /\ f.kind = "obtainCredentials" /\ g.templates = f.templates
  /\ \A k \in DOMAIN f.templates : g.obtained[k] <=> Got(e, f.templates[k])

\* A level of the map, of the states old.
RenewedOK(r, e, old) ==
  /\ Gained(e, r.env) /\ Asks(r.flow) /\ Single(r.flow)
  /\ \A n \in Obtains(r.flow) : \E f \in old : Renews(e, f, r.flow[n])

LEMMA WalkLow ==
  ASSUME NEW fl, IsStack(fl), Last(fl).kind \in WalkKinds \cup ChoiceKinds
  PROVE  Obtains(fl) = {} /\ Len(fl) <= 2
<1>1. /\ Len(fl) \in Nat /\ Len(fl) >= 1 /\ Last(fl) = fl[Len(fl)] /\ Len(fl) \in 1 .. Len(fl)
      /\ Last(fl).kind # "obtainCredentials"
  BY StackBounds DEF WalkKinds, ChoiceKinds
<1>2. CASE Last(fl).kind \in Roots
  <2>1. Len(fl) = 1
    BY <1>1, <1>2, StackRoots
  <2> QED
    BY <1>1, <2>1 DEF Obtains
<1>3. CASE Last(fl).kind \notin Roots
  <2>1. Last(fl).kind \in {"changeChoice", "addOptionalData"}
    BY <1>3 DEF WalkKinds, ChoiceKinds, Roots
  <2>2. Len(fl) >= 2 /\ fl[Len(fl) - 1].kind \in ChoiceKinds
    BY <1>3, <2>1, FrontStack, ParentsOf
  <2>3. PICK n : n = Len(fl) - 1 /\ n \in 1 .. Len(fl)
    <3>1. \A N \in Nat : N >= 2 => N - 1 \in 1 .. N
      OBVIOUS
    <3> QED
      BY <1>1, <2>2, <3>1
  <2>4. n = 1
    BY <2>2, <2>3, StackRoots DEF ChoiceKinds, Roots
  <2>5. Len(fl) = 2
    BY <1>1, <2>3, <2>4
  <2>6. \A m \in 1 .. Len(fl) : m = n \/ m = Len(fl)
    BY <1>1, <2>3, <2>4, <2>5
  <2>7. fl[n].kind # "obtainCredentials"
    BY <2>2, <2>3 DEF ChoiceKinds
  <2> QED
    BY <1>1, <2>5, <2>6, <2>7 DEF Obtains
<1> QED
  BY <1>2, <1>3

LEMMA PushElements ==
  ASSUME NEW fl, IsStack(fl), NEW f
  PROVE  /\ Len(Append(fl, f)) = Len(fl) + 1 /\ Append(fl, f)[Len(fl) + 1] = f
         /\ \A n \in 1 .. Len(fl) : Append(fl, f)[n] = fl[n] /\ n \in 1 .. Len(fl) + 1
         /\ \A n \in 1 .. Len(fl) + 1 : n \in 1 .. Len(fl) \/ n = Len(fl) + 1
         /\ Len(fl) + 1 \notin 1 .. Len(fl) /\ Len(fl) + 1 \in 1 .. Len(fl) + 1
<1>1. PICK S : fl \in Seq(S)
  BY DEF IsStack
<1> QED
  BY <1>1

\* A state on top, a list of credentials to obtain only if there is none below.
LEMMA PushRenewed ==
  ASSUME NEW e, NEW old, NEW r, IsStack(r.flow), RenewedOK(r, e, old), NEW f, AsksOK(f),
         f.kind = "obtainCredentials" =>
           Obtains(r.flow) = {} /\ \E g \in old : Renews(e, g, f),
         NEW new, Gained(e, new)
  PROVE  RenewedOK(Outcome(new, Append(r.flow, f)), e, old)
<1> DEFINE fl == r.flow
           next == Append(fl, f)
<1>1. /\ Len(next) = Len(fl) + 1 /\ next[Len(fl) + 1] = f
      /\ \A n \in 1 .. Len(fl) : next[n] = fl[n] /\ n \in 1 .. Len(fl) + 1
      /\ \A n \in 1 .. Len(fl) + 1 : n \in 1 .. Len(fl) \/ n = Len(fl) + 1
      /\ Len(fl) + 1 \notin 1 .. Len(fl) /\ Len(fl) + 1 \in 1 .. Len(fl) + 1
  BY PushElements
<1>2. Outcome(new, next).env = new /\ Outcome(new, next).flow = next
  BY DEF Outcome
<1> HIDE DEF next
<1>3. /\ Asks(fl) /\ Single(fl)
      /\ \A n \in Obtains(fl) : \E g \in old : Renews(e, g, fl[n])
  BY DEF RenewedOK
<1>4. Asks(next)
  BY <1>1, <1>3 DEF Asks
<1>5. ASSUME NEW n \in Obtains(next)
      PROVE  \/ n \in Obtains(fl) /\ next[n] = fl[n]
             \/ n = Len(fl) + 1 /\ f.kind = "obtainCredentials"
  BY <1>1 DEF Obtains
<1>6. Single(next)
  BY <1>3, <1>5 DEF Single
<1>7. \A n \in Obtains(next) : \E g \in old : Renews(e, g, next[n])
  BY <1>1, <1>3, <1>5
<1> QED
  BY <1>2, <1>4, <1>6, <1>7 DEF RenewedOK, next

LEMMA GainedTwice ==
  ASSUME NEW e, NEW mid, NEW new, Gained(e, mid), Gained(mid, new)
  PROVE  Gained(e, new)
BY DEF Gained

LEMMA ValidateRenewed ==
  ASSUME OneValueRequests, request \in Requests, NEW e, NEW old, NEW known, KnownOK(known),
         NEW fl, IsStack(fl), RenewedOK(Outcome(known, fl), e, old), NEW templates \in Seq(Entries)
  PROVE  RenewedOK(ValidateCredentialsObtained(templates, known, fl), e, old)
<1> DEFINE r == ValidateCredentialsObtained(templates, known, fl)
           s == Outcome(known, fl)
<1>1. /\ Gained(known, r.env)
      /\ r.flow = fl \/ \E g : g.kind = "wrong" /\ r.flow = Append(fl, g)
  BY ValidateGains
<1>2. s.env = known /\ s.flow = fl /\ RenewedOK(s, e, old)
  BY DEF Outcome
<1> HIDE DEF r, s
<1>3. Gained(e, r.env)
  BY <1>1, <1>2, GainedTwice DEF RenewedOK
<1>4. ASSUME r.flow = fl PROVE RenewedOK(r, e, old)
  BY <1>2, <1>3, <1>4 DEF RenewedOK
<1>5. ASSUME NEW g, g.kind = "wrong", r.flow = Append(fl, g) PROVE RenewedOK(r, e, old)
  <2>1. AsksOK(g)
    BY <1>5 DEF AsksOK
  <2>2. RenewedOK(Outcome(r.env, Append(s.flow, g)), e, old)
    BY <1>2, <1>3, <1>5, <2>1, PushRenewed
  <2>3. /\ Outcome(r.env, Append(s.flow, g)).env = r.env
        /\ Outcome(r.env, Append(s.flow, g)).flow = r.flow
    BY <1>2, <1>5 DEF Outcome
  <2> QED
    BY <2>2, <2>3 DEF RenewedOK
<1> QED
  BY <1>1, <1>4, <1>5 DEF r

LEMMA RefreshedRenewed ==
  ASSUME OneValueRequests, request \in Requests, NEW e, KnownOK(e), NEW old, NEW fl, IsStack(fl),
         Last(fl).kind \in WalkKinds \cup ChoiceKinds, Asks(fl),
         NEW g, FrameOK(g), g.kind = Last(fl).kind, AsksOK(g), NEW r,
         \/ r = Outcome(e, Append(Front(fl), g))
         \/ \E templates \in Seq(Entries) :
              r = ValidateCredentialsObtained(templates, e, Append(Front(fl), g))
  PROVE  RenewedOK(r, e, old)
<1> DEFINE next == Append(Front(fl), g)
<1>1. /\ IsStack(next) /\ Len(next) = Len(fl) /\ next[Len(fl)] = g
      /\ \A n \in 1 .. Len(fl) - 1 : next[n] = fl[n]
  BY ReplaceStack, FrontElements
<1>2. Len(fl) \in Nat /\ Len(fl) >= 1 /\ Obtains(fl) = {}
  BY StackBounds, WalkLow
<1> HIDE DEF next
<1>3. \A n \in 1 .. Len(next) : (n \in 1 .. Len(fl) /\ next[n] = fl[n]) \/ next[n] = g
  <2>1. \A n \in 1 .. Len(fl) : n \in 1 .. Len(fl) - 1 \/ n = Len(fl)
    BY <1>2
  <2> QED
    BY <1>1, <2>1
<1>4. g.kind # "obtainCredentials"
  BY DEF WalkKinds, ChoiceKinds
<1>5. Asks(next)
  BY <1>3 DEF Asks
<1>6. Obtains(next) = {}
  BY <1>2, <1>3, <1>4 DEF Obtains
<1>7. RenewedOK(Outcome(e, next), e, old)
  BY <1>5, <1>6 DEF RenewedOK, Outcome, Gained, Single
<1> QED
  BY <1>1, <1>7, ValidateRenewed DEF next

\* The first discon of a wizard that is not completed is one of its discons.
LEMMA CurrentAsked ==
  ASSUME NEW f, f.kind = "issueWizard", AsksOK(f), DOMAIN f.obtained = DOMAIN f.options,
         ~IsCompleted(f)
  PROVE  /\ CurrentDisCon(f) \in DOMAIN f.options /\ ~f.obtained[CurrentDisCon(f)]
         /\ CurrentCon(f) \in Seq(Entries)
<1> DEFINE s == f.order
           I == {n \in 1 .. Len(s) : ~f.obtained[s[n]]}
<1>1. s \in Seq(DOMAIN f.options) /\ ToSet(s) = DOMAIN f.options
  BY DEF AsksOK
<1>2. CurrentDisCon(f) = s[First(I)]
  BY DEF CurrentDisCon, SelectInSeq, First
<1> HIDE DEF s
<1>3. Len(s) \in Nat /\ DOMAIN s = 1 .. Len(s)
  BY <1>1
<1>4. I # {}
  <2>1. PICK i \in DOMAIN f.options : ~f.obtained[i]
    BY DEF IsCompleted
  <2>2. PICK n \in DOMAIN s : s[n] = i
    BY <1>1, <2>1 DEF ToSet
  <2> QED
    BY <1>3, <2>1, <2>2
<1>5. First(I) \in I
  <2>1. I \subseteq 1 .. Len(s)
    OBVIOUS
  <2> HIDE DEF I
  <2>2. /\ First(I) \in 0 .. Len(s) /\ (First(I) = 0 <=> I = {})
        /\ (First(I) > 0 => First(I) \in I)
    BY <1>3, <2>1, FirstOK
  <2> QED
    BY <1>3, <1>4, <2>2
<1>6. CurrentDisCon(f) \in DOMAIN f.options /\ ~f.obtained[CurrentDisCon(f)]
  BY <1>1, <1>2, <1>5
<1>7. CurrentCon(f) \in Seq(Entries)
  <2> DEFINE i == CurrentDisCon(f)
             options == f.options[i]
             k == f.selected[i]
  <2>1. options \in Seq(Seq(Entries)) /\ k \in DOMAIN options
    BY <1>6 DEF AsksOK
  <2>2. CurrentCon(f) = options[k]
    BY DEF CurrentCon
  <2> HIDE DEF options, k
  <2> QED
    BY <2>1, <2>2
<1> QED
  BY <1>6, <1>7

LEMMA RefreshWizardRenewed ==
  ASSUME OneValueRequests, request \in Requests, NEW e, KnownOK(e), NEW old, NEW fl, IsStack(fl),
         Last(fl).kind = "issueWizard", WizardOK(e, Last(fl)), Asks(fl)
  PROVE  RenewedOK(RefreshIssueWizard(e, fl), e, old)
<1> DEFINE f == Last(fl)
           obtained == WizardObtained(e, f)
           selected == [i \in DOMAIN f.options |->
             IF obtained[i] THEN f.selected[i]
             ELSE FindSelectedConIndex(e, f.options[i], None, f.options[i][f.selected[i]], FALSE)]
           planned == CalculatePlannedSteps(e, f.options, selected)
           g == [f EXCEPT !.obtained = obtained, !.selected = selected, !.planned = planned]
           next == Append(Front(fl), g)
<1>1. RefreshIssueWizard(e, fl) =
        IF IsCompleted(g) THEN Outcome(e, next)
        ELSE ValidateCredentialsObtained(CurrentCon(g), e, next)
  BY DEF RefreshIssueWizard
<1>2. WizardOK(e, f) /\ f.kind = "issueWizard" /\ AsksOK(f)
  <2>1. Len(fl) \in 1 .. Len(fl) /\ Last(fl) = fl[Len(fl)]
    BY StackBounds
  <2> QED
    BY <2>1 DEF Asks
<1>3. DOMAIN obtained = DOMAIN f.options
  BY DEF WizardObtained
<1>4. ASSUME NEW i \in DOMAIN f.options PROVE selected[i] \in DOMAIN f.options[i]
  <2> DEFINE options == f.options[i]
             k == FindSelectedConIndex(e, options, None, options[f.selected[i]], FALSE)
  <2>1. options \in Seq(Seq(Entries)) /\ f.selected[i] \in DOMAIN options
    BY <1>2 DEF AsksOK
  <2>2. selected[i] \in {f.selected[i], k}
    OBVIOUS
  <2> HIDE DEF options, selected
  <2>3. options # << >> /\ DOMAIN options = 1 .. Len(options)
    BY <2>1
  <2>4. k \in 1 .. Len(options)
    BY <2>1, <2>3, FindShape
  <2> HIDE DEF k
  <2> QED
    BY <2>1, <2>2, <2>3, <2>4 DEF options
<1>5. DOMAIN selected = DOMAIN f.options
  OBVIOUS
<1> HIDE DEF f, obtained, selected, planned
<1>6. /\ DOMAIN g = DOMAIN f /\ g.kind = f.kind /\ g.options = f.options /\ g.order = f.order
      /\ g.obtained = obtained /\ g.selected = selected
  BY <1>2 DEF WizardOK
<1> HIDE DEF g
<1>7. AsksOK(g)
  BY <1>2, <1>4, <1>5, <1>6 DEF AsksOK
<1>8. FrameOK(g)
  BY <1>2, <1>6 DEF WizardOK, FrameOK, ChoiceKinds
<1>9. ~IsCompleted(g) => CurrentCon(g) \in Seq(Entries)
  BY <1>2, <1>3, <1>6, <1>7, CurrentAsked
<1>10. \/ RefreshIssueWizard(e, fl) = Outcome(e, next)
       \/ \E templates \in Seq(Entries) :
            RefreshIssueWizard(e, fl) = ValidateCredentialsObtained(templates, e, next)
  BY <1>1, <1>9
<1>11. g.kind = Last(fl).kind
  BY <1>6 DEF f
<1> QED
  BY <1>7, <1>8, <1>10, <1>11, RefreshedRenewed DEF WalkKinds

LEMMA CutAsked ==
  ASSUME request \in Requests, NEW e, FromWallet(e), NEW i \in DOMAIN request, NEW types
  PROVE  CutDisCon(e.candidates[i], types) \in Seq(Seq(Asked))
BY CandidatesAsked, CutOK

LEMMA RefreshChangeRenewed ==
  ASSUME OneValueRequests, request \in Requests, NEW e, KnownOK(e), FromWallet(e), NEW old,
         NEW fl, IsStack(fl), Last(fl).kind = "changeChoice", Content(e, fl), Endures(e, fl),
         Asks(fl)
  PROVE  RenewedOK(RefreshChangeChoice(e, fl), e, old)
<1> DEFINE f == Last(fl)
           discon == RefreshDisCon(e, f.index, f.discon)
           selected == FindSelectedConIndex(e, discon, f.discon, SelectedCon(f), FALSE)
           parent == fl[Len(fl) - 1]
           g == [f EXCEPT !.discon = discon, !.selected = selected]
           templates == Templates(discon[selected])
           next == Append(Front(fl), g)
<1>1. RefreshChangeChoice(e, fl) = ValidateCredentialsObtained(templates, e, next)
  BY DEF RefreshChangeChoice
<1>2. /\ MakeOK(e, parent, f) /\ EnduresOK(e, parent, f) /\ f.kind = "changeChoice"
  <2>1. Len(fl) \in 1 .. Len(fl) /\ Last(fl) = fl[Len(fl)]
    BY StackBounds
  <2> QED
    BY <2>1 DEF Content, ContentOK, Endures
<1> HIDE DEF f, parent
<1>3. f.index \in DOMAIN request /\ Shown(f.index, f.discon)
  BY <1>2 DEF EnduresOK
<1>4. discon = CutDisCon(e.candidates[f.index], TypesOf(f.discon))
  BY <1>3, RefreshDisConIs
<1> HIDE DEF discon
<1>5. discon \in Seq(Seq(Asked)) /\ discon # << >> /\ DOMAIN discon = 1 .. Len(discon)
  <2>1. discon \in Seq(Seq(Asked))
    BY <1>3, <1>4, CutAsked
  <2>2. Shown(f.index, discon)
    BY <1>3, <1>4, ShownAgain
  <2> QED
    BY <2>1, <2>2 DEF Shown
<1>6. selected \in DOMAIN discon
  BY <1>5, FindShape
<1> HIDE DEF selected
<1>7. templates \in Seq(Entries)
  <2> DEFINE con == discon[selected]
  <2>1. con \in Seq(Asked)
    BY <1>5, <1>6
  <2> HIDE DEF con
  <2>2. Templates(con) \in Seq(Entries)
    BY <2>1, TemplatesAsked
  <2> QED
    BY <2>2 DEF con
<1> HIDE DEF templates
<1>8. g.kind = f.kind /\ g.discon = discon /\ DOMAIN g = DOMAIN f
  BY <1>2 DEF MakeOK
<1> HIDE DEF g
<1>9. AsksOK(g) /\ FrameOK(g)
  BY <1>2, <1>5, <1>8 DEF AsksOK, FrameOK, MakeOK, ChoiceKinds
<1>10. g.kind = Last(fl).kind
  BY <1>8 DEF f
<1> QED
  BY <1>1, <1>7, <1>9, <1>10, RefreshedRenewed DEF WalkKinds

LEMMA AddAsked ==
  ASSUME request \in Requests, NEW e, KnownOK(e), FromWallet(e), NEW parent,
         NEW prevDiscon, NEW prevChoice
  PROVE  AsksOK(AddOptionalData(e, parent, prevDiscon, prevChoice))
<1> DEFINE f == AddOptionalData(e, parent, prevDiscon, prevChoice)
           addable == Addable(e, parent)
           discon == [k \in DOMAIN addable |-> addable[k].con]
<1>1. f.kind = "addOptionalData" /\ "discon" \in DOMAIN f /\ f.discon = discon
  BY DEF AddOptionalData
<1>2. addable \in Seq(Addition)
  BY AddableElements
<1>3. ASSUME NEW k \in DOMAIN addable PROVE addable[k].con \in Seq(Asked)
  <2> DEFINE i == addable[k].index
             con == addable[k].con
  <2>1. i \in Opt /\ con \in ToSet(e.candidates[i])
    BY <1>3, AddableContent
  <2> HIDE DEF con, i
  <2>2. i \in DOMAIN request
    BY <2>1 DEF Opt
  <2>3. e.candidates[i] \in Seq(Seq(Asked))
    BY <2>2, CandidatesAsked
  <2> QED
    BY <2>1, <2>3 DEF ToSet, con
<1> HIDE DEF addable
<1>4. DOMAIN addable = 1 .. Len(addable) /\ Len(addable) \in Nat
  BY <1>2
<1>5. discon \in Seq(Seq(Asked))
  BY <1>3, <1>4
<1> HIDE DEF f, discon
<1>6. AsksOK(f)
  BY <1>1, <1>5 DEF AsksOK
<1> QED
  BY <1>6 DEF f

LEMMA RefreshAddRenewed ==
  ASSUME OneValueRequests, request \in Requests, NEW e, KnownOK(e), FromWallet(e), NEW old,
         NEW fl, IsStack(fl), Last(fl).kind = "addOptionalData", Asks(fl)
  PROVE  RenewedOK(RefreshBase(e, fl), e, old)
<1> DEFINE parent == Last(Front(fl))
           g == AddOptionalData(e, parent, Last(fl).discon, SelectedCon(Last(fl)))
<1>1. RefreshBase(e, fl) = Outcome(e, Append(Front(fl), g))
  BY DEF RefreshBase
<1> HIDE DEF parent
<1>2. g.kind = "addOptionalData" /\ FrameOK(g) /\ AsksOK(g)
  BY AddContent, AddAsked
<1> HIDE DEF g
<1> QED
  BY <1>1, <1>2, RefreshedRenewed DEF WalkKinds

LEMMA RefreshChoicesRenewed ==
  ASSUME OneValueRequests, request \in Requests, NEW e, KnownOK(e), NEW old,
         NEW fl, IsStack(fl), Last(fl).kind \in ChoiceKinds, Asks(fl)
  PROVE  RenewedOK(RefreshBase(e, fl), e, old)
<1> DEFINE f == Last(fl)
           g == RefreshOverview(e, f)
<1>1. RefreshBase(e, fl) = Outcome(e, Append(Front(fl), g))
  BY DEF RefreshBase, ChoiceKinds
<1>2. FrameOK(f) /\ f.kind \in ChoiceKinds
  BY StackBounds
<1> HIDE DEF f
<1>3. g.kind = f.kind /\ DOMAIN g = ChoicesFields /\ ~g.popup
  BY <1>2 DEF RefreshOverview, FrameOK, ChoicesFields
<1> HIDE DEF g
<1>4. FrameOK(g) /\ AsksOK(g)
  BY <1>2, <1>3 DEF FrameOK, ChoicesFields, AsksOK, ChoiceKinds
<1>5. g.kind = Last(fl).kind
  BY <1>3 DEF f
<1> QED
  BY <1>1, <1>4, <1>5, RefreshedRenewed

\* The order of the discons of a wizard.
Ordered(ids, X, missing, ahead) ==
  Without(ids, X \ ahead) \o Without(ids, X \ (missing \ ahead))

LEMMA OrderOK ==
  ASSUME NEW X, NEW ids \in Seq(X), ToSet(ids) = X,
         NEW missing, NEW ahead, missing \subseteq X, ahead \subseteq missing
  PROVE  /\ Ordered(ids, X, missing, ahead) \in Seq(missing)
         /\ ToSet(Ordered(ids, X, missing, ahead)) = missing
<1> DEFINE s == Without(ids, X \ ahead)
           t == Without(ids, X \ (missing \ ahead))
<1>2. /\ s \in Seq(X) /\ ToSet(s) = ToSet(ids) \ (X \ ahead)
      /\ t \in Seq(X) /\ ToSet(t) = ToSet(ids) \ (X \ (missing \ ahead))
  BY WithoutPlaces, WithoutSet
<1> HIDE DEF s, t
<1>3. ToSet(s) = ahead /\ ToSet(t) = missing \ ahead
  BY <1>2
<1>4. s \o t \in Seq(X) /\ ToSet(s \o t) = ToSet(s) \cup ToSet(t)
  BY <1>2, Concatenated, ConcatenatedSet
<1>5. s \o t \in Seq(missing) /\ ToSet(s \o t) = missing
  <2>1. ToSet(s \o t) = missing
    BY <1>3, <1>4
  <2> DEFINE u == s \o t
  <2>2. u \in Seq(X) /\ ToSet(u) = missing
    BY <2>1, <1>4
  <2> HIDE DEF u
  <2>3. u \in Seq(missing)
    BY <2>2, SetSequence
  <2> QED
    BY <2>2, <2>3 DEF u
<1> QED
  BY <1>5 DEF s, t, Ordered

LEMMA StartAsked ==
  ASSUME OneWayRequests, request \in Requests, NEW e, KnownOK(e), FromWallet(e)
  PROVE  AsksOK(Start(e))
<1> DEFINE D == e.candidates
           Preferred(i) == D[i][FindSelectedConIndex(e, D[i], None, None, FALSE)]
           choices == [i \in DOMAIN D |-> Preferred(i)]
           missing == {i \in DOMAIN D : ~AllChoosable(choices[i])}
           options == [i \in missing |-> IssueWizardDisCon(D[i])]
           ahead == {i \in missing : \A con \in ToSet(options[i]) : ~CanBeObtained(con)}
           ids == [i \in DOMAIN D |-> i]
           order == Without(ids, DOMAIN D \ ahead) \o Without(ids, DOMAIN D \ (missing \ ahead))
           selected == [i \in missing |-> FindSelectedConIndex(e, options[i], None, None, FALSE)]
<1>1. Parsed(e) = D /\ DOMAIN D = DOMAIN request
  BY ParsedOK, CandidatesOK
<1>2. ASSUME NEW i \in missing PROVE i \in DOMAIN request /\ ~Ready(e, i)
  <2>1. i \in DOMAIN request /\ ~AllChoosable(Preferred(i))
    BY <1>1
  <2>2. Ready(e, i) => AllChoosable(Preferred(i))
    BY <2>1, BestOption
  <2> QED
    BY <2>1, <2>2
<1>3. ASSUME NEW i \in missing
      PROVE  options[i] \in Seq(Seq(Entries)) /\ selected[i] \in DOMAIN options[i]
  <2> DEFINE con == IssueWizardDisCon(D[i])
             k == FindSelectedConIndex(e, con, None, None, FALSE)
  <2>0. options[i] = con /\ selected[i] = k
    OBVIOUS
  <2>1. D[i] \in Seq(Seq(Asked))
    BY <1>2, CandidatesAsked
  <2>2. con \in Seq(Seq(Entries)) /\ con # << >>
    BY <1>2, <2>1, WizardAsked, WizardAsks
  <2> HIDE DEF con, options, selected
  <2>3. DOMAIN con = 1 .. Len(con)
    BY <2>2
  <2>4. k \in 1 .. Len(con)
    BY <2>2, FindShape
  <2> HIDE DEF k
  <2> QED
    BY <2>0, <2>2, <2>3, <2>4
<1>4. CASE missing = {}
  <2>1. Start(e) = Overview(D, choices, {"choicesOverview"})
    BY <1>1, <1>4 DEF Start
  <2>2. Overview(D, choices, {"choicesOverview"}).kind = "overview"
    BY OverviewOK
  <2> HIDE DEF choices, D
  <2> QED
    BY <2>1, <2>2 DEF AsksOK
<1>5. CASE missing # {}
  <2>1. \E obtained, planned :
          Start(e) = [kind |-> "issueWizard", options |-> options, order |-> order,
                      selected |-> selected, obtained |-> obtained, planned |-> planned]
    BY <1>1, <1>5 DEF Start
  <2>2. DOMAIN options = missing /\ DOMAIN selected = missing
    OBVIOUS
  <2>3. request \in Seq(Seq(Seq(Entry))) /\ missing \subseteq DOMAIN D
    BY RequestFacts
  <2>4. PICK N \in Nat : DOMAIN D = 1 .. N
    BY <1>1, <2>3
  <2>5. order \in Seq(missing) /\ ToSet(order) = missing
    <3> DEFINE X == DOMAIN D
    <3>1. missing \subseteq X /\ ahead \subseteq missing
      BY <2>3
    <3>2. ids \in Seq(X) /\ ToSet(ids) = X
      <4>1. ids = [i \in 1 .. N |-> i] /\ X = 1 .. N
        BY <2>4
      <4> HIDE DEF ids, X
      <4> QED
        BY <4>1 DEF ToSet
    <3>3. order = Ordered(ids, X, missing, ahead)
      BY DEF Ordered
    <3> HIDE DEF X, ids, ahead, missing, order
    <3>4. /\ Ordered(ids, X, missing, ahead) \in Seq(missing)
          /\ ToSet(Ordered(ids, X, missing, ahead)) = missing
      BY <3>1, <3>2, OrderOK
    <3> QED
      BY <3>3, <3>4
  <2> HIDE DEF Start, missing, options, order, selected
  <2>6. /\ Start(e).kind = "issueWizard" /\ Start(e).options = options
        /\ Start(e).order = order /\ Start(e).selected = selected
    BY <2>1
  <2> QED
    BY <1>3, <2>2, <2>5, <2>6 DEF AsksOK
<1> QED
  BY <1>4, <1>5

LEMMA SingleAsks ==
  ASSUME NEW f, AsksOK(f), f.kind # "obtainCredentials"
  PROVE  Asks(<<f>>) /\ Obtains(<<f>>) = {}
<1>1. Len(<<f>>) = 1 /\ <<f>>[1] = f
  OBVIOUS
<1>2. \A n \in 1 .. Len(<<f>>) : n = 1
  BY <1>1
<1> QED
  BY <1>1, <1>2 DEF Asks, Obtains

LEMMA StartPlain ==
  ASSUME OneWayRequests, request \in Requests, NEW e, KnownOK(e), FromWallet(e)
  PROVE  Asks(<<Start(e)>>) /\ Obtains(<<Start(e)>>) = {}
<1>1. IsStack(<<Start(e)>>)
  BY StartOK
<1> DEFINE f == Start(e)
<1>2. AsksOK(f)
  BY StartAsked
<1> HIDE DEF f
<1>3. f.kind \in Roots
  BY <1>1 DEF IsStack, f
<1> QED
  BY <1>2, <1>3, SingleAsks DEF Roots, f

LEMMA BaseRenewed ==
  ASSUME OneWayRequests, OneValueRequests, request \in Requests, NEW e, KnownOK(e), NEW old,
         NEW fl, IsStack(fl), Content(e, fl), Endures(e, fl), Asks(fl)
  PROVE  RenewedOK(RefreshBase(e, fl), e, old)
<1>0. FromWallet(e)
  BY DEF Content
<1>1. CASE Last(fl).kind = "issueWizard"
  <2>1. Len(fl) \in 1 .. Len(fl) /\ Last(fl) = fl[Len(fl)]
    BY StackBounds
  <2>2. WizardOK(e, Last(fl))
    BY <1>1, <2>1 DEF Content, ContentOK
  <2> QED
    BY <1>1, <2>2, RefreshWizardRenewed DEF RefreshBase
<1>2. CASE Last(fl).kind = "changeChoice"
  BY <1>0, <1>2, RefreshChangeRenewed DEF RefreshBase
<1>3. CASE Last(fl).kind = "addOptionalData"
  BY <1>0, <1>3, RefreshAddRenewed
<1>4. CASE Last(fl).kind \in ChoiceKinds
  BY <1>4, RefreshChoicesRenewed
<1>5. CASE Last(fl).kind \notin WalkKinds \cup ChoiceKinds
  <2>1. RefreshBase(e, fl) = Outcome(e, <<Start(e)>>)
    BY <1>5 DEF RefreshBase, WalkKinds, ChoiceKinds
  <2>2. Asks(<<Start(e)>>) /\ Obtains(<<Start(e)>>) = {}
    BY <1>0, StartPlain
  <2> HIDE DEF Start
  <2> QED
    BY <2>1, <2>2 DEF RenewedOK, Outcome, Gained, Single
<1> QED
  BY <1>1, <1>2, <1>3, <1>4, <1>5 DEF WalkKinds

\* What is first on the list of those still to be obtained is on the list.
LEMMA ItemAsked ==
  ASSUME NEW g, g.templates \in Seq(Entries),
         g.obtained = [k \in DOMAIN g.templates |-> g.obtained[k]], ~AllObtained(g)
  PROVE  <<CurrentIssueWizardItem(g)>> \in Seq(Entries)
<1> DEFINE N == Len(g.templates)
           s == g.obtained
           I == {k \in 1 .. Len(s) : ~s[k]}
<1>1. N \in Nat /\ DOMAIN g.templates = 1 .. N
  OBVIOUS
<1>2. DOMAIN s = 1 .. N /\ Len(s) = N
  <2>1. s = [k \in 1 .. N |-> s[k]]
    BY <1>1
  <2> HIDE DEF N, s
  <2> QED
    BY <1>1, <2>1
<1>3. CurrentIssueWizardItem(g) = g.templates[First(I)]
  BY DEF CurrentIssueWizardItem, SelectInSeq, First
<1> HIDE DEF s
<1>4. PICK k \in DOMAIN g.obtained : ~g.obtained[k]
  BY DEF AllObtained
<1>5. k \in I
  BY <1>2, <1>4 DEF s
<1>6. I \subseteq 1 .. N
  BY <1>2
<1> HIDE DEF I
<1>7. First(I) \in I
  <2>1. /\ First(I) \in 0 .. N /\ (First(I) = 0 <=> I = {})
        /\ (First(I) > 0 => First(I) \in I)
    BY <1>1, <1>6, FirstOK
  <2> QED
    BY <1>1, <1>5, <2>1
<1>8. g.templates[First(I)] \in Entries
  <2>1. PICK n : n = First(I) /\ n \in 1 .. N
    BY <1>6, <1>7
  <2>2. g.templates[n] \in Entries
    BY <1>1, <2>1
  <2> QED
    BY <2>1, <2>2
<1>9. \A t \in Entries : <<t>> \in Seq(Entries)
  OBVIOUS
<1>10. CurrentIssueWizardItem(g) \in Entries
  BY <1>3, <1>8
<1> QED
  BY <1>9, <1>10

\* A state that is passed on goes back with what was obtained since.
LEMMA LiftedRenewed ==
  ASSUME OneValueRequests, request \in Requests, NEW e, NEW old, NEW r, KnownOK(r.env),
         IsStack(r.flow), RenewedOK(r, e, old), NEW f, FrameOK(f), AsksOK(f), PassesOn(f),
         Last(r.flow).kind \in Parents(f.kind),
         f.kind = "obtainCredentials" => Obtains(r.flow) = {} /\ f \in old
  PROVE  RenewedOK(Lifted(e, r, f), e, old)
<1>0. Gained(e, r.env)
  BY DEF RenewedOK
<1>1. CASE f.kind = "wrong"
  <2>1. Lifted(e, r, f) = Outcome(r.env, Append(r.flow, f))
    BY <1>1 DEF Lifted
  <2> QED
    BY <1>0, <1>1, <2>1, PushRenewed
<1>2. CASE f.kind = "obtainCredentials"
  <2> DEFINE Done(k) == Got(e, f.templates[k])
             g == [f EXCEPT !.obtained = [k \in DOMAIN f.templates |-> Done(k)]]
             next == Append(r.flow, g)
  <2>1. Lifted(e, r, f) =
          IF AllObtained(g) THEN Outcome(r.env, next)
          ELSE ValidateCredentialsObtained(<<CurrentIssueWizardItem(g)>>, r.env, next)
    BY <1>2 DEF Lifted, RefreshObtainedCredentials, Got
  <2>2. DOMAIN f = {"kind", "templates", "obtained"} /\ f.templates \in Seq(Entries)
    BY <1>2 DEF AsksOK
  <2>3. /\ DOMAIN g = DOMAIN f /\ g.kind = f.kind /\ g.templates = f.templates
        /\ g.obtained = [k \in DOMAIN g.templates |-> Done(k)]
    BY <2>2
  <2> HIDE DEF g
  <2>4. AsksOK(g) /\ FrameOK(g)
    BY <1>2, <2>2, <2>3 DEF AsksOK, FrameOK, ChoiceKinds
  <2>5. Renews(e, f, g)
    <3>1. \A k \in DOMAIN f.templates : g.obtained[k] = Done(k)
      BY <2>3
    <3> QED
      BY <1>2, <2>3, <3>1, Zenon DEF Renews
  <2>6. RenewedOK(Outcome(r.env, next), e, old)
    BY <1>0, <1>2, <2>4, <2>5, PushRenewed
  <2>7. IsStack(next)
    BY <2>3, <2>4, PushStack
  <2> HIDE DEF next
  <2>8. CASE AllObtained(g)
    BY <2>1, <2>6, <2>8
  <2>9. CASE ~AllObtained(g)
    <3> DEFINE templates == <<CurrentIssueWizardItem(g)>>
    <3>1. templates \in Seq(Entries)
      <4> HIDE DEF Done
      <4>1. /\ g.templates \in Seq(Entries)
            /\ g.obtained = [k \in DOMAIN g.templates |-> g.obtained[k]]
        BY <2>2, <2>3
      <4> QED
        BY <2>9, <4>1, ItemAsked
    <3> HIDE DEF templates
    <3>2. RenewedOK(ValidateCredentialsObtained(templates, r.env, next), e, old)
      BY <2>6, <2>7, <3>1, ValidateRenewed
    <3> QED
      BY <2>1, <2>9, <3>2 DEF templates
  <2> QED
    BY <2>8, <2>9
<1> QED
  BY <1>1, <1>2 DEF PassesOn

LEMMA RenewedMore ==
  ASSUME NEW e, NEW old, NEW more, old \subseteq more, NEW r, RenewedOK(r, e, old)
  PROVE  RenewedOK(r, e, more)
BY DEF RenewedOK

\* What a change reaches are states of the stack.
LEMMA AffectedElements ==
  ASSUME NEW fl, IsStack(fl)
  PROVE  \E k \in 1 .. Len(fl) : /\ IsStack(Affected(fl)) /\ Len(Affected(fl)) = k
                                 /\ \A n \in 1 .. k : Affected(fl)[n] = fl[n] /\ n \in 1 .. Len(fl)
<1>1. Len(fl) \in Nat /\ Len(fl) >= 1 /\ Len(fl) \in 1 .. Len(fl)
  BY StackBounds
<1>2. \A k \in 1 .. Len(fl) : \A n \in 1 .. k : n \in 1 .. Len(fl)
  BY <1>1
<1>3. CASE Last(fl).kind # "credentialInformation"
  BY <1>1, <1>3 DEF Affected
<1>4. CASE Last(fl).kind = "credentialInformation"
  <2>1. Len(fl) >= 2
    BY <1>4, FrontStack DEF Roots
  <2>2. PICK m : m = Len(fl) - 1 /\ m \in 1 .. Len(fl)
    <3>1. \A N \in Nat : N >= 2 => N - 1 \in 1 .. N
      OBVIOUS
    <3> QED
      BY <1>1, <2>1, <3>1
  <2>3. Affected(fl) = SubSeq(fl, 1, m)
    BY <1>4, <2>2 DEF Affected, Front
  <2> QED
    BY <1>2, <2>2, <2>3, CutStack
<1> QED
  BY <1>3, <1>4

\* Whatever the depth of the list of credentials to obtain.
LEMMA MapRenewed ==
  ASSUME OneWayRequests, OneValueRequests, request \in Requests, NEW e, KnownOK(e), NEW fl,
         IsStack(fl), Content(e, fl), Endures(e, fl), Asks(fl), Single(fl)
  PROVE  RenewedOK(MapSessionStateToBlocState(e, fl), e, {fl[n] : n \in 1 .. Len(fl)})
<1>1. PICK f : Levels(f, e, fl)
  BY MapLevels
<1> DEFINE stack == Affected(fl)
           Up(n) == {stack[p] : p \in 1 .. n}
           T == {n \in 1 .. Len(stack) : RenewedOK(f[n], e, Up(n))}
<1>2. /\ IsStack(stack) /\ Maps(f, e, stack, Len(stack))
      /\ MapSessionStateToBlocState(e, fl) = f[Len(stack)]
      /\ \A n \in 1 .. Len(stack) : MappedOK(f[n], e, stack[n].kind)
  BY <1>1 DEF Levels
<1>3. Content(e, stack)
  BY <1>1, LevelsContent
<1>4. Endures(e, stack)
  <2>1. CASE Last(fl).kind # "credentialInformation"
    BY <2>1 DEF Affected
  <2>2. CASE Last(fl).kind = "credentialInformation"
    BY <2>2, EndureFront DEF Affected, Roots
  <2> QED
    BY <2>1, <2>2
<1>5. \A n \in 1 .. Len(stack) : stack[n] = fl[n] /\ n \in 1 .. Len(fl)
  BY AffectedElements
<1> HIDE DEF stack
<1>6. Asks(stack) /\ Single(stack)
  BY <1>5 DEF Asks, Single, Obtains
<1>7. Len(stack) \in Nat /\ Len(stack) \in 1 .. Len(stack)
  BY <1>2, StackBounds
<1>8. ASSUME NEW n \in 1 .. Len(stack), PassesOn(stack[n]), n - 1 \in T PROVE n \in T
  <2>1. n - 1 \in 1 .. Len(stack) /\ RenewedOK(f[n - 1], e, Up(n - 1))
    BY <1>8
  <2>2. n \in 2 .. Len(stack)
    <3>1. \A N \in Nat : \A k \in 1 .. N : k - 1 \in 1 .. N => k \in 2 .. N
      OBVIOUS
    <3> QED
      BY <1>7, <2>1, <3>1
  <2>3. f[n] = Lifted(e, f[n - 1], stack[n])
    <3>1. f[n] = IF PassesOn(stack[n]) THEN Lifted(e, f[n - 1], stack[n])
                 ELSE RefreshBase(e, SubSeq(stack, 1, n))
      BY <1>2, <1>7, MapsNext
    <3> QED
      BY <1>8, <3>1
  <2>4. FrameOK(stack[n]) /\ AsksOK(stack[n]) /\ stack[n - 1].kind \in Parents(stack[n].kind)
    BY <1>2, <1>6, <2>2 DEF IsStack, Asks
  <2>5. /\ KnownOK(f[n - 1].env) /\ IsStack(f[n - 1].flow)
        /\ Last(f[n - 1].flow).kind \in {stack[n - 1].kind, "wrong"}
    BY <1>2, <1>8, <2>1, <2>4, ParentsOf DEF MappedOK, PassesOn
  <2>6. Last(f[n - 1].flow).kind \in Parents(stack[n].kind)
    BY <1>8, <2>4, <2>5, ParentsOf DEF PassesOn
  <2>7. \A p \in 1 .. n - 1 : p \in 1 .. n /\ p \in 1 .. Len(stack) /\ p # n
    BY <1>7, <2>2
  <2>8. stack[n] \in Up(n) /\ Up(n - 1) \subseteq Up(n)
    <3>1. n \in 1 .. n
      BY <2>2
    <3> QED
      BY <2>7, <3>1
  <2>9. ASSUME stack[n].kind = "obtainCredentials" PROVE Obtains(f[n - 1].flow) = {}
    <3> SUFFICES ASSUME NEW m \in Obtains(f[n - 1].flow) PROVE FALSE
      OBVIOUS
    <3>1. PICK g \in Up(n - 1) : Renews(e, g, f[n - 1].flow[m])
      BY <2>1 DEF RenewedOK
    <3>2. PICK p \in 1 .. n - 1 : g = stack[p]
      BY <3>1
    <3>3. p \in Obtains(stack) /\ n \in Obtains(stack) /\ p # n
      BY <2>7, <2>9, <3>1, <3>2 DEF Obtains, Renews
    <3> QED
      BY <1>6, <3>3 DEF Single
  <2>10. RenewedOK(f[n - 1], e, Up(n))
    BY <2>1, <2>8, RenewedMore
  <2> HIDE DEF Up
  <2>11. RenewedOK(f[n], e, Up(n))
    BY <1>8, <2>3, <2>4, <2>5, <2>6, <2>8, <2>9, <2>10, LiftedRenewed
  <2> QED
    BY <2>11
<1>9. ASSUME NEW n \in 1 .. Len(stack), ~PassesOn(stack[n]) PROVE n \in T
  <2> DEFINE low == SubSeq(stack, 1, n)
  <2>1. f[n] = RefreshBase(e, low)
    BY <1>2, <1>7, <1>9, MapsNext
  <2>2. IsStack(low) /\ Content(e, low) /\ Endures(e, low)
    BY <1>2, <1>3, <1>4, CutStack, ContentCut, EndureCut
  <2>3. Asks(low)
    <3>1. Len(low) = n /\ \A m \in 1 .. n : low[m] = stack[m] /\ m \in 1 .. Len(stack)
      BY <1>2, <1>7, CutStack
    <3> HIDE DEF low
    <3> QED
      BY <1>6, <3>1 DEF Asks
  <2> HIDE DEF low, Up
  <2>4. RenewedOK(f[n], e, Up(n))
    BY <2>1, <2>2, <2>3, BaseRenewed
  <2> QED
    BY <2>4
<1>10. ASSUME NEW n \in 1 .. Len(stack)
       PROVE  IF PassesOn(stack[n])
              THEN n - 1 \in 1 .. Len(stack) /\ n - 1 \in T => n \in T
              ELSE n \in T
  BY <1>8, <1>9
<1> HIDE DEF T
<1>11. \A n \in 1 .. Len(stack) : n \in T
  BY <1>1, <1>10, MapInduction DEF stack
<1>12. RenewedOK(f[Len(stack)], e, Up(Len(stack)))
  BY <1>7, <1>11 DEF T
<1>13. Up(Len(stack)) \subseteq {fl[n] : n \in 1 .. Len(fl)}
  BY <1>5
<1> HIDE DEF Up
<1> QED
  BY <1>2, <1>12, <1>13, RenewedMore

\* What a list says was obtained, was.
HeldOK(e, f) ==
  f.kind = "obtainCredentials" =>
    \A k \in DOMAIN f.templates : f.obtained[k] => Got(e, f.templates[k])

\* The states ask for entries of the request, and one of them at most lists what is to
\* be obtained.
Lists(e, fl) == Asks(fl) /\ Single(fl) /\ \A n \in Obtains(fl) : HeldOK(e, fl[n])

ObtainInv == SurvivalInv /\ Lists(env, flow)

\* What a step does to a list.
Remain(fl) ==
  \A n \in Obtains(flow) : n \in Obtains(fl) =>
    \A k \in DOMAIN flow[n].templates : flow[n].obtained[k] => fl[n].obtained[k]

\* The states fl the user or the session goes to without a change of what is known.
Goes(fl) ==
  Lists(env, fl) /\ \A n \in Obtains(fl) : n \in 1 .. Len(flow) => fl[n] = flow[n]

LEMMA GoesStays ==
  ASSUME NEW fl, Goes(fl)
  PROVE  Remain(fl)
BY DEF Goes, Remain, Obtains

\* A change of the session.
LEMMA SessionStateLists ==
  ASSUME OneWayRequests, OneValueRequests, ObtainInv, NEW e, IsNews(e)
  PROVE  Lists(env', flow') /\ Remain(flow')
<1>1. /\ WalkInv /\ Content(env, flow) /\ request \in Requests /\ IsStack(flow) /\ FromWallet(env)
      /\ Endures(env, flow) /\ Lists(env, flow)
  BY DEF ObtainInv, SurvivalInv, OfferInv, WalkInv, Content
<1>2. Since(env, e)
  BY DEF IsNews, Since
<1>3. Content(e, flow) /\ Endures(e, flow) /\ KnownOK(e) /\ Learns(e)
  BY <1>1, <1>2, ContentKeeps, EndureSince DEF IsNews
<1>4. \A t : Got(env, t) <=> Got(e, t)
  BY DEF IsNews, Got
<1>5. CASE env' = e /\ UNCHANGED flow
  <2>1. Lists(e, flow) /\ Remain(flow)
    BY <1>1, <1>4 DEF Lists, HeldOK, Remain
  <2> QED
    BY <1>5, <2>1
<1>6. CASE /\ env' = MapSessionStateToBlocState(e, flow).env
           /\ flow' = MapSessionStateToBlocState(e, flow).flow
  <2> DEFINE r == MapSessionStateToBlocState(e, flow)
  <2>1. RenewedOK(r, e, {flow[n] : n \in 1 .. Len(flow)})
    BY <1>1, <1>3, MapRenewed DEF Lists
  <2>2. env' = r.env /\ flow' = r.flow
    BY <1>6
  <2> HIDE DEF r
  <2>3. ASSUME NEW n \in Obtains(r.flow)
        PROVE  /\ HeldOK(r.env, r.flow[n])
               /\ n \in Obtains(flow) =>
                    \A k \in DOMAIN flow[n].templates : flow[n].obtained[k] => r.flow[n].obtained[k]
    <3>1. PICK m \in 1 .. Len(flow) : Renews(e, flow[m], r.flow[n])
      BY <2>1 DEF RenewedOK
    <3>2. m \in Obtains(flow)
      BY <3>1 DEF Renews, Obtains
    <3>3. flow[m].templates \in Seq(Entries)
      BY <1>1, <3>2 DEF Lists, Asks, AsksOK, Obtains
    <3>4. \A k \in DOMAIN flow[m].templates : flow[m].templates[k] \in Entries
      BY <3>3
    <3>5. HeldOK(r.env, r.flow[n])
      BY <2>1, <3>1, <3>4 DEF RenewedOK, Gained, Renews, HeldOK
    <3>6. ASSUME n \in Obtains(flow), NEW k \in DOMAIN flow[n].templates, flow[n].obtained[k]
          PROVE  r.flow[n].obtained[k]
      <4>1. m = n
        BY <1>1, <3>2, <3>6 DEF Lists, Single
      <4>2. Got(e, flow[n].templates[k])
        BY <1>1, <1>4, <3>6 DEF Lists, HeldOK, Obtains
      <4> QED
        BY <3>1, <3>6, <4>1, <4>2 DEF Renews
    <3> QED
      BY <3>5, <3>6
  <2>4. Lists(r.env, r.flow) /\ Remain(r.flow)
    BY <2>1, <2>3 DEF RenewedOK, Lists, Remain
  <2> QED
    BY <2>2, <2>4
<1> QED
  BY <1>3, <1>5, <1>6 DEF Learns, SessionState

\* A root has no list below it, and is none.
LEMMA GoesRoot ==
  ASSUME NEW f, AsksOK(f), f.kind # "obtainCredentials"
  PROVE  Goes(<<f>>)
<1>1. Asks(<<f>>) /\ Obtains(<<f>>) = {}
  BY SingleAsks
<1> HIDE DEF Asks, Obtains
<1> QED
  BY <1>1 DEF Goes, Lists, Single

LEMMA GoesPlain ==
  ASSUME NEW kind \in {"initial", "introduction", "finished"}
  PROVE  Goes(<<[kind |-> kind]>>)
<1> DEFINE f == [kind |-> kind]
<1>1. AsksOK(f) /\ f.kind # "obtainCredentials"
  BY DEF AsksOK
<1> HIDE DEF f
<1> QED
  BY <1>1, GoesRoot DEF f

LEMMA GoesStart ==
  ASSUME OneWayRequests, ObtainInv
  PROVE  Goes(<<Start(env)>>)
<1>1. request \in Requests /\ KnownOK(env) /\ FromWallet(env)
  BY TopContent DEF ObtainInv, SurvivalInv
<1>2. Asks(<<Start(env)>>) /\ Obtains(<<Start(env)>>) = {}
  BY <1>1, StartPlain
<1> HIDE DEF Start, Asks, Obtains
<1> QED
  BY <1>2 DEF Goes, Lists, Single

\* A new list of which nothing was obtained, if there is none below, or another state.
LEMMA GoesPush ==
  ASSUME ObtainInv, NEW f, AsksOK(f),
         f.kind = "obtainCredentials" => HeldOK(env, f) /\ Obtains(flow) = {}
  PROVE  Goes(Append(flow, f))
<1> DEFINE next == Append(flow, f)
<1>0. IsStack(flow) /\ Lists(env, flow)
  BY TopContent DEF ObtainInv, SurvivalInv
<1>1. /\ Len(next) = Len(flow) + 1 /\ next[Len(flow) + 1] = f
      /\ \A n \in 1 .. Len(flow) : next[n] = flow[n] /\ n \in 1 .. Len(flow) + 1
      /\ \A n \in 1 .. Len(flow) + 1 : n \in 1 .. Len(flow) \/ n = Len(flow) + 1
      /\ Len(flow) + 1 \notin 1 .. Len(flow)
  BY <1>0, PushElements
<1> HIDE DEF next
<1>2. Asks(next)
  BY <1>0, <1>1 DEF Asks, Lists
<1>3. ASSUME NEW n \in Obtains(next)
      PROVE  \/ n \in Obtains(flow) /\ next[n] = flow[n]
             \/ n = Len(flow) + 1 /\ f.kind = "obtainCredentials"
  BY <1>1 DEF Obtains
<1>4. Single(next)
  BY <1>0, <1>3 DEF Single, Lists
<1>5. \A n \in Obtains(next) : HeldOK(env, next[n])
  BY <1>0, <1>1, <1>3 DEF Lists
<1>6. \A n \in Obtains(next) : n \in 1 .. Len(flow) => next[n] = flow[n]
  BY <1>1
<1> QED
  BY <1>2, <1>4, <1>5, <1>6 DEF Goes, Lists, next

\* Back to a parent state.
LEMMA GoesFront ==
  ASSUME ObtainInv, Top.kind \notin Roots
  PROVE  Goes(Front(flow))
<1>0. IsStack(flow) /\ Lists(env, flow)
  BY TopContent DEF ObtainInv, SurvivalInv
<1>1. Len(flow) >= 2 /\ Len(flow) \in Nat
  BY <1>0, FrontStack, StackBounds DEF Top
<1>2. PICK m : m = Len(flow) - 1 /\ m \in 1 .. Len(flow)
  <2>1. \A N \in Nat : N >= 2 => N - 1 \in 1 .. N
    OBVIOUS
  <2> QED
    BY <1>1, <2>1
<1> DEFINE next == Front(flow)
<1>3. next = SubSeq(flow, 1, m)
  BY <1>2 DEF Front
<1>4. Len(next) = m /\ \A n \in 1 .. m : next[n] = flow[n] /\ n \in 1 .. Len(flow)
  BY <1>0, <1>1, <1>2, <1>3, CutStack
<1> HIDE DEF next
<1>5. \A n \in Obtains(next) : n \in Obtains(flow) /\ next[n] = flow[n]
  BY <1>4 DEF Obtains
<1> QED
  BY <1>0, <1>4, <1>5 DEF Goes, Lists, Asks, Single, next

\* The last state changes, and is no list.
LEMMA GoesReplace ==
  ASSUME ObtainInv, NEW f, AsksOK(f), f.kind # "obtainCredentials"
  PROVE  Goes(Append(Front(flow), f))
<1> DEFINE next == Append(Front(flow), f)
<1>0. IsStack(flow) /\ Lists(env, flow)
  BY TopContent DEF ObtainInv, SurvivalInv
<1>1. /\ Len(next) = Len(flow) /\ next[Len(flow)] = f /\ Len(flow) \in Nat
      /\ \A n \in 1 .. Len(flow) - 1 : next[n] = flow[n]
  BY <1>0, FrontElements, StackBounds
<1> HIDE DEF next
<1>2. \A n \in 1 .. Len(next) : n \in 1 .. Len(flow) /\ (next[n] = flow[n] \/ next[n] = f)
  <2>1. \A n \in 1 .. Len(flow) : n \in 1 .. Len(flow) - 1 \/ n = Len(flow)
    BY <1>1
  <2> QED
    BY <1>1, <2>1
<1>3. \A n \in Obtains(next) : n \in Obtains(flow) /\ next[n] = flow[n]
  BY <1>2 DEF Obtains
<1> QED
  BY <1>0, <1>2, <1>3 DEF Goes, Lists, Asks, Single, next

\* To the page of a credential, or the list of what is to be obtained.
LEMMA GoesObtain ==
  ASSUME ObtainInv, Top.kind \in WalkKinds, NEW con \in Seq(Asked), ObtainCredentials(con)
  PROVE  Goes(flow')
<1>0. request \in Requests /\ IsStack(flow)
  BY TopContent DEF ObtainInv, SurvivalInv
<1>1. Obtains(flow) = {}
  BY <1>0, WalkLow DEF Top
<1> DEFINE templates == Templates(con)
           list == [kind |-> "obtainCredentials", templates |-> templates,
                    obtained |-> [k \in DOMAIN templates |-> FALSE]]
           page == [kind |-> "credentialInformation", type |-> templates[1].type]
<1>2. flow' = Append(flow, list) \/ flow' = Append(flow, page)
  BY DEF ObtainCredentials, GoTo
<1>3. AsksOK(list) /\ HeldOK(env, list)
  <2>1. templates \in Seq(Entries)
    BY <1>0, TemplatesAsked
  <2> HIDE DEF templates
  <2> QED
    BY <2>1 DEF AsksOK, HeldOK
<1>4. AsksOK(page) /\ page.kind # "obtainCredentials"
  BY DEF AsksOK
<1> HIDE DEF list, page
<1> QED
  BY <1>1, <1>2, <1>3, <1>4, GoesPush

LEMMA TopAsks ==
  ASSUME ObtainInv
  PROVE  AsksOK(Top)
<1>1. Len(flow) \in 1 .. Len(flow) /\ Last(flow) = flow[Len(flow)]
  BY TopContent, StackBounds DEF ObtainInv, SurvivalInv
<1> QED
  BY <1>1 DEF ObtainInv, Lists, Asks, Top

LEMMA WizardGoes ==
  ASSUME ObtainInv, ChooseInWizard \/ NextInWizard \/ CompleteWizard
  PROVE  Goes(flow')
<1>0. Top.kind = "issueWizard" /\ WizardOK(env, Top) /\ AsksOK(Top)
  BY TopContent, TopAsks
  DEF ObtainInv, SurvivalInv, ChooseInWizard, NextInWizard, CompleteWizard, Shows, ContentOK
<1>1. CASE ChooseInWizard
  <2> DEFINE i == CurrentDisCon(Top)
  <2>1. PICK k \in DOMAIN Top.options[i] :
          Replace([Top EXCEPT !.selected = [Top.selected EXCEPT ![i] = k],
                     !.planned = CalculatePlannedSteps(env, Top.options,
                                   [Top.selected EXCEPT ![i] = k])])
    BY <1>1 DEF ChooseInWizard
  <2> HIDE DEF i
  <2> DEFINE selected == [Top.selected EXCEPT ![i] = k]
             planned == CalculatePlannedSteps(env, Top.options, selected)
             f == [Top EXCEPT !.selected = selected, !.planned = planned]
  <2>2. /\ DOMAIN selected = DOMAIN Top.selected
        /\ \A j \in DOMAIN Top.selected : selected[j] = IF j = i THEN k ELSE Top.selected[j]
    OBVIOUS
  <2>3. flow' = Append(Front(flow), f)
    BY <2>1 DEF Replace, GoTo
  <2> HIDE DEF selected, planned
  <2>4. /\ f.kind = Top.kind /\ f.options = Top.options /\ f.order = Top.order
        /\ f.selected = selected
    BY <1>0 DEF WizardOK
  <2> HIDE DEF f
  <2>5. AsksOK(f)
    BY <1>0, <2>1, <2>2, <2>4 DEF AsksOK
  <2> QED
    BY <1>0, <2>3, <2>4, <2>5, GoesReplace
<1>2. CASE NextInWizard
  <2>1. ~IsCompleted(Top) /\ ObtainCredentials(CurrentCon(Top))
    BY <1>2 DEF NextInWizard
  <2>2. CurrentCon(Top) \in Seq(Entries)
    BY <1>0, <2>1, CurrentAsked DEF WizardOK
  <2>3. CurrentCon(Top) \in Seq(Asked)
    BY <2>2 DEF Asked
  <2> QED
    BY <1>0, <2>1, <2>3, GoesObtain DEF WalkKinds
<1>3. CASE CompleteWizard
  <2>1. \E candidates, choices, changeable, more, planned :
          \/ Replace(Overview(candidates, choices, planned))
          \/ Replace(ChoicesFrame("previouslyAdded", candidates, choices, changeable, more, planned))
    BY <1>3 DEF CompleteWizard
  <2>2. PICK f : Replace(f) /\ f.kind \in ChoiceKinds
    BY <2>1, OverviewOK, ChoicesFrameOK DEF ChoiceKinds
  <2>3. AsksOK(f) /\ f.kind # "obtainCredentials"
    BY <2>2 DEF AsksOK, ChoiceKinds
  <2> QED
    BY <2>2, <2>3, GoesReplace DEF Replace, GoTo
<1> QED
  BY <1>1, <1>2, <1>3

LEMMA PageGoes ==
  ASSUME OneWayRequests, ObtainInv, NextInIntroduction \/ NextInObtainCredentials \/ Previous
  PROVE  Goes(flow')
<1>1. CASE NextInIntroduction
  BY <1>1, GoesStart DEF NextInIntroduction, Listen
<1>2. CASE NextInObtainCredentials \/ Previous
  <2>1. GoTo(Front(flow)) /\ Top.kind \notin Roots
    BY <1>2 DEF NextInObtainCredentials, Previous, Shows, Roots
  <2> QED
    BY <2>1, GoesFront DEF GoTo
<1> QED
  BY <1>1, <1>2

LEMMA OverviewGoes ==
  ASSUME ObtainInv,
         \/ NextInPreviouslyAdded \/ Dismiss
         \/ NextInOverview \/ ConfirmInDialog \/ DismissDialog
  PROVE  Goes(flow')
<1>1. CASE NextInPreviouslyAdded
  <2>1. PICK candidates, choices : Replace(Overview(candidates, choices, Top.planned))
    BY <1>1 DEF NextInPreviouslyAdded
  <2> DEFINE f == Overview(candidates, choices, Top.planned)
  <2>2. f.kind = "overview"
    BY OverviewOK
  <2>3. flow' = Append(Front(flow), f)
    BY <2>1 DEF Replace, GoTo
  <2> HIDE DEF f
  <2>4. AsksOK(f)
    BY <2>2 DEF AsksOK
  <2> QED
    BY <2>2, <2>3, <2>4, GoesReplace
<1>2. CASE Marks
  <2>1. PICK popup : Puts([Top EXCEPT !.popup = popup])
    BY <1>2 DEF Marks
  <2> DEFINE f == [Top EXCEPT !.popup = popup]
  <2>2. Top.kind = "overview" /\ "kind" \in DOMAIN Top
    BY <1>2, TopContent DEF Marks, Shows, FrameOK, ObtainInv, SurvivalInv
  <2>3. f.kind = "overview" /\ flow' = Append(Front(flow), f)
    BY <2>1, <2>2 DEF Puts
  <2> HIDE DEF f
  <2>4. AsksOK(f)
    BY <2>3 DEF AsksOK
  <2> QED
    BY <2>3, <2>4, GoesReplace
<1>3. CASE Sends \/ Dismiss
  BY <1>3, GoesPlain DEF Sends, SendChoices, Dismiss, Finished
<1>4. CASE Rests
  BY <1>4 DEF Rests, Goes, ObtainInv
<1> QED
  BY <1>1, <1>2, <1>3, <1>4, Presses

LEMMA ChangeGoes ==
  ASSUME ObtainInv, ChangeChoice
  PROVE  Goes(flow')
<1>0. /\ Top.kind \in ChoiceKinds /\ ChoicesOK(env, Top) /\ request \in Requests
      /\ FromWallet(env) /\ Parsed(env) = env.candidates
  BY TopContent
  DEF ChangeChoice, ShowsChoices, Shows, ContentOK, ChoiceKinds, ObtainInv, SurvivalInv
<1>1. PICK i, k :
        /\ i \in DOMAIN ChoicesOf(Top)
        /\ GoTo(Append(flow, [kind |-> "changeChoice", index |-> i,
                              discon |-> OptionsFor(Top, i), selected |-> k]))
  BY DEF ChangeChoice
<1> DEFINE discon == OptionsFor(Top, i)
           f == [kind |-> "changeChoice", index |-> i, discon |-> discon, selected |-> k]
<1>2. i \in DOMAIN request
  BY <1>0, <1>1, ChosenOK
<1>3. discon \in Seq(Seq(Asked))
  <2>1. CASE Top.kind = "overview"
    BY <1>0, <1>2, <2>1, CandidatesAsked DEF OptionsFor
  <2>2. CASE Top.kind # "overview"
    <3> DEFINE types == {c.type : c \in {d \in Flattened(env.candidates[i]) : PreviouslyAdded(env, d)}}
    <3>1. discon = CutDisCon(env.candidates[i], types)
      BY <1>0, <2>2 DEF OptionsFor
    <3> QED
      BY <1>0, <1>2, <3>1, CutAsked
  <2> QED
    BY <2>1, <2>2
<1>4. flow' = Append(flow, f)
  BY <1>1 DEF GoTo
<1> HIDE DEF discon
<1>5. f.kind = "changeChoice" /\ "discon" \in DOMAIN f /\ f.discon = discon
  OBVIOUS
<1> HIDE DEF f
<1>6. AsksOK(f)
  BY <1>3, <1>5 DEF AsksOK
<1> QED
  BY <1>4, <1>5, <1>6, GoesPush

LEMMA OptionalGoes ==
  ASSUME ObtainInv, AddOptional \/ RemoveOptional
  PROVE  Goes(flow')
<1>0. /\ Top.kind \in ChoiceKinds /\ FrameOK(Top) /\ request \in Requests /\ KnownOK(env)
      /\ FromWallet(env)
  BY TopContent
  DEF AddOptional, RemoveOptional, ShowsChoices, Shows, ChoiceKinds, ObtainInv, SurvivalInv
<1>1. CASE AddOptional
  <2> DEFINE f == AddOptionalData(env, Top, None, None)
  <2>1. flow' = Append(flow, f)
    BY <1>1 DEF AddOptional, GoTo
  <2>2. f.kind = "addOptionalData" /\ AsksOK(f)
    BY <1>0, AddContent, AddAsked
  <2> HIDE DEF f
  <2> QED
    BY <2>1, <2>2, GoesPush
<1>2. CASE RemoveOptional
  <2>1. PICK discon, i : Replace(RefreshChoices(Top, discon, i, 0))
    BY <1>2 DEF RemoveOptional
  <2> DEFINE f == RefreshChoices(Top, discon, i, 0)
  <2>2. f.kind = Top.kind /\ flow' = Append(Front(flow), f)
    BY <1>0, <2>1, RefreshChoicesOK DEF Replace, GoTo
  <2> HIDE DEF f
  <2>3. AsksOK(f) /\ f.kind # "obtainCredentials"
    BY <1>0, <2>2 DEF AsksOK, ChoiceKinds
  <2> QED
    BY <2>2, <2>3, GoesReplace
<1> QED
  BY <1>1, <1>2

LEMMA MakeGoes ==
  ASSUME ObtainInv, ChooseOption \/ NextInMakeChoice
  PROVE  Goes(flow')
<1> DEFINE parent == flow[Len(flow) - 1]
<1>0. /\ Top.kind \in {"changeChoice", "addOptionalData"} /\ IsStack(flow) /\ AsksOK(Top)
      /\ "kind" \in DOMAIN Top /\ Top.selected \in DOMAIN Top.discon
  BY TopContent, TopAsks
  DEF ChooseOption, NextInMakeChoice, ShowsMakeChoice, Shows, FrameOK, ObtainInv, SurvivalInv
<1>1. CASE ChooseOption
  <2>1. PICK k : Replace([Top EXCEPT !.selected = k])
    BY <1>1 DEF ChooseOption
  <2> DEFINE f == [Top EXCEPT !.selected = k]
  <2>2. "discon" \in DOMAIN Top
    BY <1>0 DEF AsksOK
  <2>3. /\ f.kind = Top.kind /\ f.discon = Top.discon /\ DOMAIN f = DOMAIN Top
        /\ flow' = Append(Front(flow), f)
    BY <1>0, <2>1, <2>2 DEF Replace, GoTo
  <2> HIDE DEF f
  <2>4. AsksOK(f) /\ f.kind # "obtainCredentials"
    BY <1>0, <2>3 DEF AsksOK
  <2> QED
    BY <2>3, <2>4, GoesReplace
<1>2. CASE NextInMakeChoice
  <2>1. Last(flow).kind \notin Roots
    BY <1>0 DEF Roots, Top
  <2>2. Len(flow) >= 2 /\ Len(flow) \in Nat /\ parent.kind \in ChoiceKinds
    BY <1>0, <2>1, FrontStack, StackBounds, ParentsOf DEF Top
  <2>3. Len(flow) <= 2 /\ SubSeq(flow, 1, Len(flow) - 2) = << >>
    <3>1. Len(flow) <= 2
      BY <1>0, WalkLow DEF Top, WalkKinds
    <3>2. PICK S : flow \in Seq(S)
      BY <1>0 DEF IsStack
    <3>3. Len(flow) - 2 = 0
      BY <2>2, <3>1, SMTT(30)
    <3>4. SubSeq(flow, 1, 0) = << >>
      BY <3>2
    <3> QED
      BY <3>1, <3>3, <3>4
  <2>4. FrameOK(parent)
    <3>1. PICK n : n = Len(flow) - 1 /\ n \in 1 .. Len(flow)
      <4>1. \A N \in Nat : N >= 2 => N - 1 \in 1 .. N
        OBVIOUS
      <4> QED
        BY <2>2, <4>1
    <3> QED
      BY <1>0, <3>1 DEF IsStack
  <2>5. \/ ObtainCredentials(SelectedCon(Top))
        \/ \E discon, i, k :
             GoTo(Append(SubSeq(flow, 1, Len(flow) - 2), RefreshChoices(parent, discon, i, k)))
    BY <1>2 DEF NextInMakeChoice
  <2>6. CASE ObtainCredentials(SelectedCon(Top))
    <3> DEFINE discon == Top.discon
    <3>1. discon \in Seq(Seq(Asked)) /\ SelectedCon(Top) = discon[Top.selected]
      BY <1>0 DEF AsksOK, SelectedCon
    <3>2. Top.selected \in DOMAIN discon
      BY <1>0
    <3> HIDE DEF discon
    <3>3. SelectedCon(Top) \in Seq(Asked)
      BY <3>1, <3>2
    <3> QED
      BY <1>0, <2>6, <3>3, GoesObtain DEF WalkKinds
  <2> HIDE DEF parent
  <2>7. ASSUME NEW discon, NEW i, NEW k, GoTo(Append(<< >>, RefreshChoices(parent, discon, i, k)))
        PROVE  Goes(flow')
    <3> DEFINE f == RefreshChoices(parent, discon, i, k)
    <3>1. f.kind = parent.kind
      BY <2>2, <2>4, RefreshChoicesOK
    <3>2. flow' = <<f>>
      <4>1. Append(<< >>, f) = <<f>>
        OBVIOUS
      <4> QED
        BY <2>7, <4>1 DEF GoTo
    <3> HIDE DEF f
    <3>3. AsksOK(f) /\ f.kind # "obtainCredentials"
      BY <2>2, <3>1 DEF AsksOK, ChoiceKinds
    <3> QED
      BY <3>2, <3>3, GoesRoot
  <2> QED
    BY <2>3, <2>5, <2>6, <2>7
<1> QED
  BY <1>1, <1>2

LEMMA SystemLists ==
  ASSUME OneWayRequests, SingletonsStay, OneValueRequests, ObtainInv, System
  PROVE  Lists(env', flow') /\ Remain(flow')
<1>1. /\ request \in Requests /\ KnownOK(env) /\ announced \subseteq Credential
      /\ announced \cap ToSet(env.wallet) = {} /\ Lists(env, flow) /\ OfferInv
  BY DEF ObtainInv, SurvivalInv, OfferInv, WalkInv
<1>2. CASE ReadPreference
  <2>1. Goes(flow') /\ env' = env
    BY <1>2, GoesStart, GoesPlain DEF ReadPreference, Listen
  <2> QED
    BY <2>1, GoesStays DEF Goes
<1>3. CASE Announce \/ RefreshCandidates
  BY <1>1, <1>3, NewsContent, SessionStateLists
<1>4. CASE ReceiveCredentials
  <2>1. PICK c \in announced : env' = [env EXCEPT !.wallet = WithCredential(@, c)]
    BY <1>4 DEF ReceiveCredentials
  <2>2. /\ env'.wallet = WithCredential(env.wallet, c) /\ env'.newly = env.newly /\ flow' = flow
    BY <1>1, <1>4, <2>1 DEF KnownOK, ReceiveCredentials
  <2>3. ToSet(env.wallet) \subseteq ToSet(env'.wallet)
    BY <1>1, <2>1, <2>2, WalletGrows DEF KnownOK
  <2>4. \A t : Got(env, t) => Got(env', t)
    BY <2>2, <2>3 DEF Got
  <2>5. Lists(env', flow) /\ Remain(flow)
    BY <1>1, <2>4 DEF Lists, HeldOK, Remain
  <2> QED
    BY <2>2, <2>5
<1>5. CASE LeaveRequest
  <2>1. env' = env /\ (flow' = flow \/ flow' = <<[kind |-> "finished"]>>)
    BY <1>5 DEF LeaveRequest, Finished
  <2>2. Goes(flow)
    BY <1>1 DEF Goes
  <2>3. Goes(flow')
    BY <2>1, <2>2, GoesPlain
  <2> QED
    BY <2>1, <2>3, GoesStays DEF Goes
<1> QED
  BY <1>2, <1>3, <1>4, <1>5 DEF System

LEMMA UserLists ==
  ASSUME OneWayRequests, ObtainInv, User
  PROVE  env' = env /\ Goes(flow')
<1>1. CASE \/ ChooseInWizard \/ NextInWizard \/ CompleteWizard
           \/ NextInIntroduction \/ NextInObtainCredentials \/ Previous
  <2>1. env' = env
    BY <1>1
    DEF ChooseInWizard, NextInWizard, CompleteWizard, NextInIntroduction,
        NextInObtainCredentials, Previous, Replace, GoTo, ObtainCredentials
  <2> QED
    BY <1>1, <2>1, WizardGoes, PageGoes
<1>2. CASE \/ NextInPreviouslyAdded \/ Dismiss
           \/ NextInOverview \/ ConfirmInDialog \/ DismissDialog
  <2>1. env' = env
    BY <1>2, Presses
    DEF NextInPreviouslyAdded, Dismiss, Replace, GoTo, Marks, Puts, Sends, SendChoices, Rests
  <2> QED
    BY <1>2, <2>1, OverviewGoes
<1>3. CASE ChangeChoice \/ AddOptional \/ RemoveOptional \/ ChooseOption \/ NextInMakeChoice
  <2>1. env' = env
    BY <1>3
    DEF ChangeChoice, AddOptional, RemoveOptional, ChooseOption, NextInMakeChoice, Replace, GoTo,
        ObtainCredentials
  <2> QED
    BY <1>3, <2>1, ChangeGoes, OptionalGoes, MakeGoes
<1> QED
  BY <1>1, <1>2, <1>3 DEF User

LEMMA ObtainStep ==
  ASSUME OneWayRequests, SingletonsStay, OneValueRequests, ObtainInv, [Next]_vars
  PROVE  ObtainInv' /\ Remain(flow')
<1>1. Lists(env', flow') /\ Remain(flow')
  <2>1. CASE System
    BY <2>1, SystemLists
  <2>2. CASE User
    BY <2>2, UserLists, GoesStays DEF Goes
  <2>3. CASE UNCHANGED vars
    BY <2>3 DEF vars, ObtainInv, Remain
  <2> QED
    BY <2>1, <2>2, <2>3 DEF Next
<1>2. request' = request
  BY RequestKept DEF ObtainInv, SurvivalInv
<1>3. Lists(env, flow)'
  <2>1. Entries' = Entries
    BY <1>2 DEF Entries
  <2>2. Asked' = Asked
    BY <2>1 DEF Asked
  <2>3. \A n \in 1 .. Len(flow') : AsksOK(flow'[n]) => AsksOK(flow[n])'
    BY <2>1, <2>2 DEF AsksOK
  <2>4. \A n \in 1 .. Len(flow') : HeldOK(env', flow'[n]) => HeldOK(env, flow[n])'
    BY DEF HeldOK, Got
  <2> QED
    BY <1>1, <2>3, <2>4 DEF Lists, Asks, Single, Obtains
<1>4. SurvivalInv'
  BY SurvivalStep DEF ObtainInv
<1> QED
  BY <1>1, <1>3, <1>4 DEF ObtainInv

LEMMA ObtainInit == Init => ObtainInv
<1> SUFFICES ASSUME Init PROVE ObtainInv
  OBVIOUS
<1>1. flow = <<[kind |-> "initial"]>>
  BY DEF Init
<1>2. Goes(<<[kind |-> "initial"]>>)
  BY GoesPlain
<1> QED
  BY <1>1, <1>2, SurvivalInit DEF ObtainInv, Goes

\* What was obtained stays obtained, however often the session changes and whatever is
\* reported in between.
THEOREM ObtainedTheorem ==
  ASSUME OneWayRequests, SingletonsStay, OneValueRequests
  PROVE  Spec => ObtainedStays
<1>1. ObtainInv /\ [Next]_vars => ObtainInv'
  BY ObtainStep
<1> DEFINE Step ==
      \A n \in DOMAIN flow \cap DOMAIN flow' :
        flow[n].kind = "obtainCredentials" /\ flow'[n].kind = "obtainCredentials" =>
          \A k \in DOMAIN flow[n].templates :
            /\ flow[n].obtained[k]
            /\ \E c \in ToSet(env'.wallet) : MatchesCredential(flow[n].templates[k], c)
            => flow'[n].obtained[k]
<1>2. ASSUME ObtainInv, [Next]_vars PROVE Step
  <2>1. Remain(flow') /\ ObtainInv'
    BY <1>2, ObtainStep
  <2>2. IsStack(flow) /\ IsStack(flow')
    <3>1. IsStack(flow)'
      BY <2>1 DEF ObtainInv, SurvivalInv, OfferInv, WalkInv
    <3> QED
      BY <1>2, <3>1 DEF ObtainInv, SurvivalInv, OfferInv, WalkInv
  <2>3. DOMAIN flow = 1 .. Len(flow) /\ DOMAIN flow' = 1 .. Len(flow')
    BY <2>2, StackBounds
  <2> QED
    BY <2>1, <2>3 DEF Remain, Obtains
<1>3. ObtainInv /\ [Next]_vars => [Step]_vars
  BY <1>2
<1>4. Spec => [][Step]_vars
  BY <1>1, <1>3, ObtainInit, PTL DEF Spec
<1> QED
  BY <1>4 DEF ObtainedStays

=============================================================================
