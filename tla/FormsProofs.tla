---------------------------- MODULE FormsProofs ----------------------------
(***************************************************************************)
(* Proofs about Forms.tla, for any days, plans and pages: a schedule keeps *)
(* its days (StoredInv), a PDF's chunks and a playlist's batches cover it, *)
(* and a plan's parts keep its entries. What a folded sequence holds is    *)
(* shown by induction over its length (NatInduct).                         *)
(***************************************************************************)
EXTENDS Forms, FiniteSetTheorems, SequenceTheorems, TLAPS

(* Induction on the natural numbers, for a set in place of a predicate:    *)
(* of a nonempty B one of the finite sets 1..n (n \in B) is minimal.       *)
LEMMA NatInduct ==
  ASSUME NEW T, 0 \in T, \A n \in Nat : n \in T => n + 1 \in T
  PROVE  \A n \in Nat : n \in T
<1>. DEFINE B == {n \in Nat : n \notin T}
            F == {1..n : n \in B}
<1>. SUFFICES ASSUME B # {} PROVE FALSE
  OBVIOUS
<1>1. IsWellFoundedOn(StrictSubsetOrdering(Nat), FiniteSubsetsOf(Nat))
  BY FS_StrictSubsetOrderingWellFounded
<1>2. F \subseteq FiniteSubsetsOf(Nat) /\ F # {}
  <2>1. \A n \in Nat : 1..n \subseteq Nat /\ IsFiniteSet(1..n)
    BY FS_Interval
  <2>. QED BY <2>1 DEF FiniteSubsetsOf
<1>3. \E s \in F : \A t \in F : ~(<<t, s>> \in StrictSubsetOrdering(Nat))
  <2>. HIDE DEF F
  <2>. QED BY <1>1, <1>2, WFMin
<1>4. PICK x \in B : \A t \in F : ~(<<t, 1..x>> \in StrictSubsetOrdering(Nat))
  BY <1>3
<1>5. x - 1 \in B
  OBVIOUS
<1>6. <<1..(x - 1), 1..x>> \in StrictSubsetOrdering(Nat)
  <2>1. 1..(x - 1) \subseteq 1..x /\ 1..(x - 1) \in SUBSET Nat /\ 1..x \in SUBSET Nat
    OBVIOUS
  <2>2. x \in 1..x /\ x \notin 1..(x - 1)
    BY <1>5
  <2>. QED BY <2>1, <2>2 DEF StrictSubsetOrdering
<1>. QED BY <1>4, <1>5, <1>6

-----------------------------------------------------------------------------
(* Flattening *)

(* c is the sequences of ss one after the other, the n-th after off[n].    *)
Joined(ss, off, c) ==
  /\ off \in [1..(Len(ss) + 1) -> Nat] /\ off[1] = 0 /\ off[Len(ss) + 1] = Len(c)
  /\ \A n \in 1..Len(ss) : off[n + 1] = off[n] + Len(ss[n])
  /\ \A n \in 1..Len(ss) : \A i \in 1..Len(ss[n]) :
       off[n] + i \in 1..Len(c) /\ c[off[n] + i] = ss[n][i]
  /\ \A p \in 1..Len(c) : \E n \in 1..Len(ss) : \E i \in 1..Len(ss[n]) : p = off[n] + i

JoinedSoFar(ss, S, n) ==
  \E g \in [1..n -> Seq(S)] : \A i \in 1..n : g[i] = IF i = 1 THEN ss[i] ELSE g[i - 1] \o ss[i]

LEMMA JoinedFurther ==
  ASSUME NEW S, NEW ss \in Seq(Seq(S)), NEW n \in Nat, n < Len(ss), JoinedSoFar(ss, S, n)
  PROVE  JoinedSoFar(ss, S, n + 1)
<1>1. PICK g \in [1..n -> Seq(S)] :
        \A i \in 1..n : g[i] = IF i = 1 THEN ss[i] ELSE g[i - 1] \o ss[i]
  BY DEF JoinedSoFar
<1>. DEFINE h == [i \in 1..(n + 1) |-> IF i <= n THEN g[i]
                                      ELSE IF i = 1 THEN ss[i] ELSE g[i - 1] \o ss[i]]
<1>2. n + 1 \in 1..Len(ss) /\ ss[n + 1] \in Seq(S)
  OBVIOUS
<1>3. h \in [1..(n + 1) -> Seq(S)]
  <2>1. ASSUME NEW i \in 1..(n + 1) PROVE h[i] \in Seq(S)
    <3>1. CASE i <= n
      BY <1>1, <3>1
    <3>2. CASE i = n + 1 /\ n # 0
      <4>1. g[n] \in Seq(S) /\ g[n] \o ss[n + 1] \in Seq(S)
        BY <1>1, <1>2, <3>2
      <4>. QED BY <3>2, <4>1
    <3>3. CASE i = n + 1 /\ n = 0
      BY <1>2, <3>3
    <3>. QED BY <3>1, <3>2, <3>3
  <2>. QED BY <2>1
<1>4. ASSUME NEW i \in 1..(n + 1) PROVE h[i] = IF i = 1 THEN ss[i] ELSE h[i - 1] \o ss[i]
  <2>1. CASE i <= n
    <3>1. i \in 1..n /\ h[i] = g[i] /\ (i # 1 => h[i - 1] = g[i - 1])
      BY <2>1
    <3>. HIDE DEF h
    <3>. QED BY <1>1, <3>1
  <2>2. CASE i = n + 1
    <3>1. h[i] = (IF i = 1 THEN ss[i] ELSE g[i - 1] \o ss[i]) /\ (i # 1 => h[i - 1] = g[i - 1])
      BY <2>2
    <3>. HIDE DEF h
    <3>. QED BY <3>1
  <2>. QED BY <2>1, <2>2
<1>. HIDE DEF h
<1>. QED BY <1>3, <1>4 DEF JoinedSoFar

(* FlattenSeq is defined by recursion on the position of a sequence.       *)
LEMMA FlattenSteps ==
  ASSUME NEW S, NEW ss \in Seq(Seq(S)), Len(ss) # 0
  PROVE  \E f \in [1..Len(ss) -> Seq(S)] :
           /\ \A i \in 1..Len(ss) : f[i] = IF i = 1 THEN ss[i] ELSE f[i - 1] \o ss[i]
           /\ FlattenSeq(ss) = f[Len(ss)]
<1>. DEFINE N == Len(ss)
            T == {n \in Nat : n <= N => JoinedSoFar(ss, S, n)}
<1>0. N \in Nat
  OBVIOUS
<1>1. 0 \in T
  <2>1. [i \in 1..0 |-> <<>>] \in [1..0 -> Seq(S)] /\ \A i \in 1..0 : FALSE
    OBVIOUS
  <2>. QED BY <2>1 DEF JoinedSoFar
<1>2. ASSUME NEW n \in Nat, n \in T PROVE n + 1 \in T
  BY <1>0, <1>2, JoinedFurther
<1>3. \A n \in Nat : n \in T
  <2>. HIDE DEF T
  <2>. QED BY <1>1, <1>2, NatInduct
<1>4. JoinedSoFar(ss, S, N)
  BY <1>0, <1>3
<1>5. PICK g \in [1..N -> Seq(S)] :
        \A i \in 1..N : g[i] = IF i = 1 THEN ss[i] ELSE g[i - 1] \o ss[i]
  BY <1>4 DEF JoinedSoFar
<1>6. g = [i \in 1..N |-> IF i = 1 THEN ss[i] ELSE g[i - 1] \o ss[i]]
  BY <1>5
<1>7. \E f : /\ f = [i \in 1..N |-> IF i = 1 THEN ss[i] ELSE f[i - 1] \o ss[i]]
             /\ FlattenSeq(ss) = f[N]
  BY <1>6 DEF FlattenSeq
<1>8. PICK f : /\ f = [i \in 1..N |-> IF i = 1 THEN ss[i] ELSE f[i - 1] \o ss[i]]
               /\ FlattenSeq(ss) = f[N]
  BY <1>7
<1>9. \A i \in 1..N : f[i] = IF i = 1 THEN ss[i] ELSE f[i - 1] \o ss[i]
  BY <1>8
<1>. DEFINE U == {n \in Nat : n \in 1..N => f[n] \in Seq(S)}
<1>10. 0 \in U
  OBVIOUS
<1>11. ASSUME NEW n \in Nat, n \in U PROVE n + 1 \in U
  <2>. SUFFICES ASSUME n + 1 \in 1..N PROVE f[n + 1] \in Seq(S)
    OBVIOUS
  <2>1. ss[n + 1] \in Seq(S)
    OBVIOUS
  <2>2. CASE n = 0
    BY <1>9, <2>1, <2>2
  <2>3. CASE n # 0
    <3>1. n \in 1..N /\ n + 1 # 1 /\ (n + 1) - 1 = n
      BY <1>0, <2>3
    <3>2. f[n] \in Seq(S)
      BY <1>11, <3>1
    <3>3. f[n + 1] = f[n] \o ss[n + 1]
      BY <1>9, <3>1
    <3>. QED BY <2>1, <3>2, <3>3
  <2>. QED BY <2>2, <2>3
<1>12. \A n \in Nat : n \in U
  <2>. HIDE DEF U
  <2>. QED BY <1>10, <1>11, NatInduct
<1>13. f \in [1..N -> Seq(S)]
  <2>1. \A i \in 1..N : f[i] \in Seq(S)
    BY <1>0, <1>12
  <2>2. DOMAIN f = 1..N /\ f = [i \in 1..N |-> f[i]]
    BY <1>8
  <2>. QED BY <2>1, <2>2
<1>. QED BY <1>8, <1>9, <1>13

(* Where the sequences begin, and that nothing else is there: by induction *)
(* on the number of sequences.                                             *)
FlatTo(ss, f, n) ==
  /\ \A m \in 1..n : \A i \in 1..Len(ss[m]) :
       LET before == IF m = 1 THEN 0 ELSE Len(f[m - 1])
       IN before + i \in 1..Len(f[n]) /\ f[n][before + i] = ss[m][i]
  /\ \A p \in 1..Len(f[n]) : \E m \in 1..n : \E i \in 1..Len(ss[m]) :
       p = (IF m = 1 THEN 0 ELSE Len(f[m - 1])) + i

LEMMA FlatToNext ==
  ASSUME NEW S, NEW ss \in Seq(Seq(S)), NEW f \in [1..Len(ss) -> Seq(S)],
         \A i \in 1..Len(ss) : f[i] = IF i = 1 THEN ss[i] ELSE f[i - 1] \o ss[i],
         NEW n \in 1..Len(ss), n + 1 <= Len(ss), FlatTo(ss, f, n)
  PROVE  FlatTo(ss, f, n + 1)
<1>. DEFINE At(m) == IF m = 1 THEN 0 ELSE Len(f[m - 1])
            c == f[n]
            d == ss[n + 1]
<1>1. /\ c \in Seq(S) /\ d \in Seq(S) /\ n \in Nat /\ Len(c) \in Nat /\ Len(d) \in Nat
      /\ n + 1 \in 1..Len(ss) /\ At(n + 1) = Len(c)
  <2>1. Len(ss) \in Nat /\ n \in Nat /\ n + 1 \in 1..Len(ss) /\ n + 1 # 1 /\ (n + 1) - 1 = n
    OBVIOUS
  <2>2. c \in Seq(S) /\ d \in Seq(S)
    <3>1. f[n] \in Seq(S)
      OBVIOUS
    <3>2. ss[n + 1] \in Seq(S)
      BY <2>1, ElementOfSeq
    <3>. QED BY <3>1, <3>2
  <2>3. Len(c) \in Nat /\ Len(d) \in Nat
    BY <2>2
  <2>4. At(n + 1) = Len(c)
    BY <2>1
  <2>. HIDE DEF At, c, d
  <2>. QED BY <2>1, <2>2, <2>3, <2>4
<1>2. f[n + 1] = c \o d
  <2>1. n + 1 \in 1..Len(ss) /\ n + 1 # 1 /\ (n + 1) - 1 = n
    BY <1>1
  <2>2. f[n + 1] = f[(n + 1) - 1] \o ss[n + 1]
    BY <2>1
  <2>. QED BY <2>1, <2>2
<1>3. Len(f[n + 1]) = Len(c) + Len(d)
  BY <1>1, <1>2
<1>4. \A m \in 1..n : \A i \in 1..Len(ss[m]) : At(m) + i \in 1..Len(c) /\ c[At(m) + i] = ss[m][i]
  BY DEF FlatTo
<1>5. \A p \in 1..Len(c) : \E m \in 1..n : \E i \in 1..Len(ss[m]) : p = At(m) + i
  BY DEF FlatTo
<1>. HIDE DEF At, c, d
<1>6. ASSUME NEW m \in 1..(n + 1), NEW i \in 1..Len(ss[m])
      PROVE  At(m) + i \in 1..Len(f[n + 1]) /\ f[n + 1][At(m) + i] = ss[m][i]
  <2>1. CASE m \in 1..n
    <3>1. At(m) + i \in 1..Len(c) /\ c[At(m) + i] = ss[m][i]
      BY <1>4, <2>1
    <3>2. (c \o d)[At(m) + i] = c[At(m) + i]
      BY <1>1, <3>1
    <3>. QED BY <1>1, <1>2, <1>3, <3>1, <3>2
  <2>2. CASE m = n + 1
    <3>1. i \in 1..Len(d) /\ At(m) = Len(c)
      BY <1>1, <2>2 DEF d
    <3>2. (c \o d)[Len(c) + i] = d[i]
      BY <1>1, <3>1
    <3>3. At(m) + i = Len(c) + i /\ ss[m][i] = d[i]
      BY <2>2, <3>1 DEF d
    <3>4. Len(c) + i \in 1..Len(f[n + 1])
      BY <1>1, <1>3, <3>1
    <3>. QED BY <1>2, <3>2, <3>3, <3>4
  <2>. QED BY <1>1, <2>1, <2>2
<1>7. ASSUME NEW p \in 1..Len(f[n + 1])
      PROVE  \E m \in 1..(n + 1) : \E i \in 1..Len(ss[m]) : p = At(m) + i
  <2>1. CASE p \in 1..Len(c)
    <3>1. PICK m \in 1..n : \E i \in 1..Len(ss[m]) : p = At(m) + i
      BY <1>5, <2>1
    <3>2. m \in 1..(n + 1)
      BY <1>1
    <3>. QED BY <3>1, <3>2
  <2>2. CASE p \notin 1..Len(c)
    <3>1. p - Len(c) \in 1..Len(d) /\ p = Len(c) + (p - Len(c))
      BY <1>1, <1>3, <2>2
    <3>2. \E i \in 1..Len(ss[n + 1]) : p = At(n + 1) + i
      BY <1>1, <3>1 DEF d
    <3>3. n + 1 \in 1..(n + 1)
      BY <1>1
    <3>. QED BY <3>2, <3>3
  <2>. QED BY <2>1, <2>2
<1>. QED BY <1>6, <1>7 DEF FlatTo, At

LEMMA FlatToAll ==
  ASSUME NEW S, NEW ss \in Seq(Seq(S)), NEW f \in [1..Len(ss) -> Seq(S)],
         \A i \in 1..Len(ss) : f[i] = IF i = 1 THEN ss[i] ELSE f[i - 1] \o ss[i]
  PROVE  \A n \in 1..Len(ss) : FlatTo(ss, f, n)
<1>. DEFINE T == {n \in Nat : n \in 1..Len(ss) => FlatTo(ss, f, n)}
<1>1. 0 \in T
  OBVIOUS
<1>2. ASSUME NEW n \in Nat, n \in T PROVE n + 1 \in T
  <2>. SUFFICES ASSUME n + 1 \in 1..Len(ss) PROVE FlatTo(ss, f, n + 1)
    OBVIOUS
  <2>1. CASE n = 0
    <3>0. 1 \in 1..Len(ss) /\ n + 1 = 1
      BY <2>1
    <3>1. 1 \in 1..Len(ss) /\ f[1] = ss[1] /\ n + 1 = 1 /\ ss[1] \in Seq(S)
      BY <3>0
    <3>2. Len(ss[1]) \in Nat
      BY <3>1
    <3>3. FlatTo(ss, f, 1)
      BY <3>1, <3>2 DEF FlatTo
    <3>. QED BY <3>1, <3>3
  <2>2. CASE n # 0
    <3>1. n \in 1..Len(ss) /\ n + 1 <= Len(ss)
      BY <2>2
    <3>2. FlatTo(ss, f, n)
      BY <1>2, <3>1
    <3>. QED BY <3>1, <3>2, FlatToNext
  <2>. QED BY <2>1, <2>2
<1>3. \A n \in Nat : n \in T
  <2>. HIDE DEF T
  <2>. QED BY <1>1, <1>2, NatInduct
<1>. QED BY <1>3

(* FlattenSeq joins the sequences in order and adds nothing.               *)
LEMMA FlattenJoins ==
  ASSUME NEW S, NEW ss \in Seq(Seq(S))
  PROVE  FlattenSeq(ss) \in Seq(S) /\ \E off : Joined(ss, off, FlattenSeq(ss))
<1>1. CASE Len(ss) = 0
  <2>1. FlattenSeq(ss) = <<>> /\ ss = <<>>
    BY <1>1 DEF FlattenSeq
  <2>2. Joined(ss, [n \in 1..1 |-> 0], <<>>)
    BY <1>1 DEF Joined
  <2>. QED BY <2>1, <2>2
<1>2. CASE Len(ss) # 0
  <2>. DEFINE N == Len(ss)
  <2>1. PICK f \in [1..N -> Seq(S)] :
          /\ \A i \in 1..N : f[i] = IF i = 1 THEN ss[i] ELSE f[i - 1] \o ss[i]
          /\ FlattenSeq(ss) = f[N]
    BY <1>2, FlattenSteps
  <2>. DEFINE off == [m \in 1..(N + 1) |-> IF m = 1 THEN 0 ELSE Len(f[m - 1])]
  <2>2. N \in Nat /\ N \in 1..N /\ f[N] \in Seq(S)
    BY <1>2
  <2>3. FlatTo(ss, f, N)
    BY <2>1, <2>2, FlatToAll
  <2>4. off \in [1..(N + 1) -> Nat] /\ off[1] = 0 /\ off[N + 1] = Len(f[N])
    <3>1. ASSUME NEW m \in 1..(N + 1) PROVE (IF m = 1 THEN 0 ELSE Len(f[m - 1])) \in Nat
      <4>1. CASE m # 1
        <5>0. m - 1 \in 1..N
          BY <2>2, <4>1
        <5>1. f[m - 1] \in Seq(S)
          BY <5>0
        <5>. QED BY <4>1, <5>1
      <4>. QED BY <4>1
    <3>. QED BY <2>2, <3>1
  <2>5. ASSUME NEW n \in 1..N PROVE off[n + 1] = off[n] + Len(ss[n])
    <3>1. off[n + 1] = Len(f[n]) /\ off[n] = IF n = 1 THEN 0 ELSE Len(f[n - 1])
      BY <2>2
    <3>2. ss[n] \in Seq(S) /\ Len(ss[n]) \in Nat
      BY <2>2
    <3>3. CASE n = 1
      <4>1. f[n] = ss[n]
        BY <2>1, <3>3
      <4>. HIDE DEF off
      <4>. QED BY <3>1, <3>2, <3>3, <4>1
    <3>4. CASE n # 1
      <4>0. n - 1 \in 1..N
        BY <2>2, <3>4
      <4>1. f[n] = f[n - 1] \o ss[n] /\ f[n - 1] \in Seq(S)
        BY <2>1, <3>4, <4>0
      <4>2. Len(f[n]) = Len(f[n - 1]) + Len(ss[n])
        BY <3>2, <4>1
      <4>. HIDE DEF off
      <4>. QED BY <3>1, <3>4, <4>2
    <3>. QED BY <3>3, <3>4
  <2>6. \A m \in 1..N : off[m] = IF m = 1 THEN 0 ELSE Len(f[m - 1])
    BY <2>2
  <2>. HIDE DEF off
  <2>7. \A n \in 1..N : \A i \in 1..Len(ss[n]) : off[n] + i \in 1..Len(f[N]) /\ f[N][off[n] + i] = ss[n][i]
    <3>1. \A n \in 1..N : \A i \in 1..Len(ss[n]) :
            /\ (IF n = 1 THEN 0 ELSE Len(f[n - 1])) + i \in 1..Len(f[N])
            /\ f[N][(IF n = 1 THEN 0 ELSE Len(f[n - 1])) + i] = ss[n][i]
      BY <2>3 DEF FlatTo
    <3>. HIDE DEF N
    <3>. QED BY <2>6, <3>1
  <2>8. \A p \in 1..Len(f[N]) : \E n \in 1..N : \E i \in 1..Len(ss[n]) : p = off[n] + i
    <3>1. \A p \in 1..Len(f[N]) : \E n \in 1..N : \E i \in 1..Len(ss[n]) :
            p = (IF n = 1 THEN 0 ELSE Len(f[n - 1])) + i
      BY <2>3 DEF FlatTo
    <3>. HIDE DEF N
    <3>. QED BY <2>6, <3>1
  <2>9. Joined(ss, off, f[N])
    BY <2>4, <2>5, <2>7, <2>8 DEF Joined
  <2>. QED BY <2>1, <2>2, <2>9
<1>. QED BY <1>1, <1>2

(* A sequence ends before a later one begins.                              *)
LEMMA JoinedInOrder ==
  ASSUME NEW S, NEW ss \in Seq(Seq(S)), NEW off, NEW c, Joined(ss, off, c)
  PROVE  \A m, n \in 1..Len(ss) : m < n => off[m] + Len(ss[m]) <= off[n]
<1>. DEFINE T == {n \in Nat : n \in 1..Len(ss) => \A m \in 1..Len(ss) : m < n => off[m] + Len(ss[m]) <= off[n]}
<1>1. 0 \in T
  OBVIOUS
<1>2. ASSUME NEW n \in Nat, n \in T PROVE n + 1 \in T
  <2>. SUFFICES ASSUME n + 1 \in 1..Len(ss), NEW m \in 1..Len(ss), m < n + 1
                PROVE  off[m] + Len(ss[m]) <= off[n + 1]
    OBVIOUS
  <2>1. n \in 1..Len(ss) /\ n \in 1..(Len(ss) + 1) /\ n + 1 \in 1..(Len(ss) + 1) /\ m \in 1..(Len(ss) + 1)
    OBVIOUS
  <2>2. /\ off[n] \in Nat /\ off[n + 1] \in Nat /\ off[m] \in Nat
        /\ off[n + 1] = off[n] + Len(ss[n])
    BY <2>1 DEF Joined
  <2>3. ss[n] \in Seq(S) /\ ss[m] \in Seq(S)
    BY <2>1
  <2>4. Len(ss[n]) \in Nat /\ Len(ss[m]) \in Nat
    BY <2>3
  <2>5. CASE m = n
    BY <2>2, <2>5
  <2>6. CASE m < n
    <3>1. off[m] + Len(ss[m]) <= off[n]
      BY <1>2, <2>1, <2>6
    <3>. QED BY <2>2, <2>4, <3>1
  <2>. QED BY <2>5, <2>6
<1>3. \A n \in Nat : n \in T
  <2>. HIDE DEF T
  <2>. QED BY <1>1, <1>2, NatInduct
<1>. QED BY <1>3

-----------------------------------------------------------------------------
(* Schedules *)

(* Counting weekdays from Sunday and from Monday are inverse to each other. *)
LEMMA DaysInverse ==
  /\ \A d \in Weekday : StoredDay(d) \in Weekday /\ FormDay(d) \in Weekday
  /\ \A d \in Weekday : FormDay(StoredDay(d)) = d /\ StoredDay(FormDay(d)) = d
BY DEF Weekday, StoredDay, FormDay

(* A picked schedule is stored as one that fires on the same days.         *)
LEMMA BuiltKeepsDays ==
  ASSUME NEW f \in Picks
  PROVE  CronDays(Built(f)) = FormDays(f)
<1>. DEFINE e == Built(f)
<1>1. /\ e.dom = f.dom
      /\ f.freq = "weekdays" => e.dow = "0-4"
      /\ f.freq = "custom" => e.dow = "list"
      /\ f.freq \in {"daily", "monthly"} => e.dow = "any"
      /\ e.days = {StoredDay(d) : d \in f.days}
  BY DEF Built
<1>. HIDE DEF e
<1>2. /\ f.freq \in {"daily", "weekdays", "custom", "monthly"}
      /\ f.freq # "monthly" => f.dom = 0
      /\ f.freq = "monthly" => f.dom \in MonthDays /\ f.dom # 0
      /\ f.days \subseteq Weekday
  BY FormsAssumption DEF Picks
<1>3. ASSUME NEW x \in Weekday \X MonthDays
      PROVE  x \in CronDays(e) <=> x \in FormDays(f)
  <2>1. CASE f.freq \in {"daily", "monthly"}
    BY <1>1, <1>2, <2>1 DEF CronDays, FormDays
  <2>2. CASE f.freq = "weekdays"
    BY <1>1, <1>2, <2>2 DEF CronDays, FormDays
  <2>3. CASE f.freq = "custom"
    <3>1. x[1] \in e.days <=> FormDay(x[1]) \in f.days
      BY <1>1, <1>2, DaysInverse
    <3>. QED BY <1>1, <1>2, <2>3, <3>1 DEF CronDays, FormDays, FormDay
  <2>. QED BY <1>2, <2>1, <2>2, <2>3
<1>. QED BY <1>3 DEF CronDays, FormDays, e

(* Opening a stored schedule and saving it again does not move its days.   *)
LEMMA ParsedKeepsDays ==
  ASSUME NEW e \in Cron, Parsed(e).freq # "raw"
  PROVE  CronDays(Built(Parsed(e))) = CronDays(e) /\ Built(Parsed(e)) \in Cron
<1>. DEFINE f == Parsed(e)
            b == Built(f)
<1>1. /\ b.dom = f.dom /\ b.month = FALSE
      /\ f.freq = "weekdays" => b.dow = "0-4"
      /\ f.freq = "custom" => b.dow = "list"
      /\ f.freq \in {"daily", "monthly"} => b.dow = "any"
      /\ b.days = {StoredDay(d) : d \in f.days}
  BY DEF Built
<1>2. e.days \subseteq Weekday /\ e.dom \in {0} \cup MonthDays
  BY DEF Cron
<1>3. \/ e.dow = "any" /\ f.freq \in {"daily", "monthly"} /\ f.dom = e.dom /\ f.days = {}
      \/ e.dow = "0-4" /\ e.dom = 0 /\ f.freq = "weekdays" /\ f.dom = 0 /\ f.days = {}
      \/ e.dow = "list" /\ e.dom = 0 /\ f.freq = "custom" /\ f.dom = 0
         /\ f.days = {FormDay(d) : d \in e.days}
  BY DEF Parsed
<1>4. Built(f) = [dom |-> b.dom, month |-> FALSE, dow |-> b.dow, days |-> b.days]
  BY DEF Built
<1>. HIDE DEF f, b
<1>5. f.days \subseteq Weekday /\ b.days \subseteq Weekday
  BY <1>1, <1>2, <1>3, DaysInverse
<1>6. b \in Cron
  <2>1. b.dow \in {"any", "0-4", "range", "list"} /\ b.dom \in {0} \cup MonthDays
    BY <1>1, <1>2, <1>3
  <2>2. b = [dom |-> b.dom, month |-> FALSE, dow |-> b.dow, days |-> b.days]
    BY <1>4 DEF b
  <2>3. ASSUME NEW m \in {0} \cup MonthDays, NEW w \in {"any", "0-4", "range", "list"},
               NEW days \in SUBSET Weekday
        PROVE  [dom |-> m, month |-> FALSE, dow |-> w, days |-> days] \in Cron
    BY DEF Cron
  <2>4. [dom |-> b.dom, month |-> FALSE, dow |-> b.dow, days |-> b.days] \in Cron
    BY <1>5, <2>1, <2>3
  <2>. QED BY <2>2, <2>4, Zenon
<1>7. e.dow = "list" => b.days = e.days
  BY <1>1, <1>2, <1>3, DaysInverse
<1>8. b.dow = e.dow /\ b.dom = e.dom
  BY <1>1, <1>3
<1>9. CronDays(b) = CronDays(e)
  BY <1>3, <1>7, <1>8 DEF CronDays
<1>. QED BY <1>6, <1>9 DEF b, f

(* The days a page names are those the schedule fires on.                  *)
LEMMA WordedDays ==
  ASSUME NEW e \in Cron, Worded(e).says # "expression"
  PROVE  NamedDays(Worded(e)) = CronDays(e)
<1>1. e.days \subseteq Weekday /\ 0..4 \subseteq Weekday
  BY DEF Cron, Weekday
<1>2. \/ e.dow = "any" /\ Worded(e).days = Weekday /\ Worded(e).dom = e.dom
      \/ e.dow = "0-4" /\ e.dom = 0 /\ Worded(e).days = 0..4 /\ Worded(e).dom = 0
      \/ e.dow = "list" /\ e.dom = 0 /\ Worded(e).days = e.days /\ Worded(e).dom = 0
  BY DEF Worded
<1>3. \A x \in Weekday \X MonthDays : x[1] \in 0..4 <=> x[1] <= 4
  BY DEF Weekday
<1>. QED BY <1>1, <1>2, <1>3 DEF NamedDays, CronDays

StoredInv ==
  form.about = "schedule" => form.stored \in Cron /\ CronDays(form.stored) = form.given

LEMMA NextStored ==
  ASSUME StoredInv, [FormNext]_form
  PROVE  StoredInv'
<1>1. ASSUME NEW days, NEW cron \in Cron, CronDays(cron) = days, Scheduled(days, cron)
      PROVE  StoredInv'
  BY <1>1 DEF Scheduled, StoredInv
<1>2. CASE SaveAgain
  BY <1>1, <1>2, ParsedKeepsDays DEF SaveAgain, StoredInv
<1>3. ASSUME NEW f \in Picks, PickSchedule(f) PROVE StoredInv'
  <2>1. Built(f) \in Cron
    <3>1. f.dom \in {0} \cup MonthDays /\ f.days \subseteq Weekday
      BY DEF Picks
    <3>2. {StoredDay(d) : d \in f.days} \subseteq Weekday
      BY <3>1, DaysInverse
    <3>. QED BY <3>1, <3>2 DEF Built, Cron
  <2>. QED BY <1>1, <1>3, <2>1, BuiltKeepsDays DEF PickSchedule
<1>4. ASSUME NEW e \in Cron, RawSchedule(e) PROVE StoredInv'
  BY <1>1, <1>4 DEF RawSchedule
<1>5. CASE \/ \E plan \in Sources, strategy \in {"sequential", "parallel"} : ComposeSeries(plan, strategy)
           \/ \E start, end \in 1..Pages, size \in 1..(Pages + 1) : start <= end /\ ImportPages(start, end, size)
           \/ \E count \in 1..Pages, size \in 1..(Pages + 1) : ImportItems(count, size)
  <2>1. form'.about # "schedule"
    BY <1>5 DEF ComposeSeries, ImportPages, ImportItems
  <2>. QED BY <2>1 DEF StoredInv
<1>6. CASE UNCHANGED form
  BY <1>6 DEF StoredInv
<1>. QED BY <1>2, <1>3, <1>4, <1>5, <1>6 DEF FormNext

(* A recurring schedule fires on the days that were given and on those the *)
(* pages name, however often the edit form is opened and saved again.      *)
THEOREM ScheduleAlwaysKept == FormSpec => []ScheduleKept
<1>1. form = Blank => StoredInv
  BY DEF Blank, StoredInv
<1>2. StoredInv => ScheduleKept
  BY WordedDays DEF StoredInv, ScheduleKept
<1>. QED BY <1>1, <1>2, NextStored, PTL DEF FormSpec

-----------------------------------------------------------------------------
(* Pages and items *)

LEMMA MinOfTwo ==
  ASSUME NEW a \in Int, NEW b \in Int
  PROVE  Min({a, b}) = IF a <= b THEN a ELSE b
<1>1. CASE a <= b
  BY <1>1 DEF Min
<1>2. CASE ~ (a <= b)
  BY <1>2 DEF Min
<1>. QED BY <1>1, <1>2

LEMMA DivBounds ==
  ASSUME NEW a \in Nat, NEW s \in Nat \ {0}
  PROVE  a \div s \in Nat /\ s * (a \div s) <= a /\ a < s * (a \div s) + s
OBVIOUS

LEMMA Monotone ==
  ASSUME NEW m \in Nat, NEW n \in Nat, m <= n, NEW s \in Nat
  PROVE  s * m <= s * n
<1>1. s * (n - m) = s * n - s * m
  OBVIOUS
<1>2. n - m \in Nat
  OBVIOUS
<1>3. s * (n - m) \in Nat
  BY <1>2
<1>4. s * m \in Nat /\ s * n \in Nat
  OBVIOUS
<1>. QED BY <1>1, <1>3, <1>4

(* Chunks that cover first..last: none is empty or reaches beyond, one     *)
(* ends before the next begins, and every page is in one.                  *)
Covers(chunks, first, last) ==
  /\ \A n \in DOMAIN chunks : first <= chunks[n].first /\ chunks[n].first <= chunks[n].last
                              /\ chunks[n].last <= last
  /\ \A m, n \in DOMAIN chunks : m < n => chunks[m].last < chunks[n].first
  /\ \A p \in first..last : \E n \in DOMAIN chunks : p \in chunks[n].first..chunks[n].last

(* split_pdf: every page of an imported range is in exactly one chunk, in  *)
(* order, whatever the range and the size of the chunks.                   *)
THEOREM PagesCovered ==
  ASSUME NEW start \in Nat, NEW end \in Nat, start <= end, NEW size \in Nat \ {0}
  PROVE  Covers(Chunks(start, end, size), start, end)
<1>. DEFINE count == (end - start) \div size
            chunks == Chunks(start, end, size)
            Start(n) == start + (n - 1) * size
<1>1. count \in Nat /\ size * count <= end - start
  BY DivBounds
<1>2. DOMAIN chunks = 1..(count + 1)
  BY DEF Chunks
<1>3. ASSUME NEW n \in 1..(count + 1)
      PROVE  /\ Start(n) = start + size * (n - 1) /\ Start(n) \in Int /\ Start(n) >= start /\ Start(n) <= end
             /\ chunks[n].first = Start(n)
             /\ chunks[n].last = IF Start(n) + size - 1 <= end THEN Start(n) + size - 1 ELSE end
  <2>1. n - 1 \in Nat /\ n - 1 <= count
    BY <1>1
  <2>2. size * (n - 1) <= size * count /\ size * (n - 1) \in Nat
    BY <1>1, <2>1, Monotone
  <2>3. Start(n) = start + size * (n - 1)
    BY <2>1
  <2>4. Start(n) \in Int /\ Start(n) >= start /\ Start(n) <= end
    BY <1>1, <2>2, <2>3
  <2>5. chunks[n] = [first |-> Start(n), last |-> Min({Start(n) + size - 1, end})]
    BY DEF Chunks
  <2>. HIDE DEF Start, chunks
  <2>6. Min({Start(n) + size - 1, end}) = IF Start(n) + size - 1 <= end THEN Start(n) + size - 1 ELSE end
    BY <2>4, MinOfTwo
  <2>. QED BY <2>3, <2>4, <2>5, <2>6
<1>4. ASSUME NEW m \in 1..(count + 1), NEW n \in 1..(count + 1), m < n
      PROVE  Start(m) + size <= Start(n)
  <2>1. m \in Nat /\ n - 1 \in Nat /\ m <= n - 1
    BY <1>1, <1>4
  <2>2. size * m <= size * (n - 1)
    BY <2>1, Monotone
  <2>3. size * m = size * (m - 1) + size /\ size * (m - 1) \in Int
    BY <2>1
  <2>4. Start(m) = start + size * (m - 1) /\ Start(n) = start + size * (n - 1)
    BY <1>3
  <2>. HIDE DEF Start
  <2>. QED BY <2>1, <2>2, <2>3, <2>4
<1>5. ASSUME NEW p \in start..end
      PROVE  \E n \in 1..(count + 1) : Start(n) <= p /\ p <= Start(n) + size - 1
  <2>. DEFINE q == (p - start) \div size
  <2>1. q \in Nat /\ size * q <= p - start /\ p - start < size * q + size
    BY DivBounds
  <2>2. q <= count
    <3>1. CASE q > count
      <4>1. size * (count + 1) <= size * q
        BY <1>1, <2>1, <3>1, Monotone
      <4>2. size * (count + 1) = size * count + size
        BY <1>1
      <4>3. end - start < size * count + size
        BY DivBounds
      <4>4. size * q \in Int /\ size * count \in Int
        BY <1>1, <2>1
      <4>. HIDE DEF q, count
      <4>. QED BY <2>1, <4>1, <4>2, <4>3, <4>4
    <3>. QED BY <1>1, <2>1, <3>1
  <2>3. q + 1 \in 1..(count + 1)
    BY <1>1, <2>1, <2>2
  <2>4. Start(q + 1) = start + size * ((q + 1) - 1)
    BY <1>3, <2>3
  <2>5. (q + 1) - 1 = q
    BY <2>1
  <2>6. size * q \in Int
    BY <2>1
  <2>. HIDE DEF q, Start, count
  <2>. QED BY <2>1, <2>3, <2>4, <2>5, <2>6
<1>. HIDE DEF Start, count, chunks
<1>6. \A n \in 1..(count + 1) : start <= chunks[n].first /\ chunks[n].first <= chunks[n].last
                                /\ chunks[n].last <= end
  BY <1>3
<1>7. \A m, n \in 1..(count + 1) : m < n => chunks[m].last < chunks[n].first
  BY <1>3, <1>4
<1>8. \A p \in start..end : \E n \in 1..(count + 1) : p \in chunks[n].first..chunks[n].last
  <2>. SUFFICES ASSUME NEW p \in start..end
                PROVE  \E n \in 1..(count + 1) : p \in chunks[n].first..chunks[n].last
    OBVIOUS
  <2>1. PICK n \in 1..(count + 1) : Start(n) <= p /\ p <= Start(n) + size - 1
    BY <1>5
  <2>2. chunks[n].first = Start(n) /\ Start(n) \in Int
        /\ chunks[n].last = IF Start(n) + size - 1 <= end THEN Start(n) + size - 1 ELSE end
    BY <1>3
  <2>3. chunks[n].first <= p /\ p <= chunks[n].last /\ chunks[n].last \in Int
    BY <2>1, <2>2
  <2>. QED BY <2>2, <2>3
<1>9. Covers(chunks, start, end)
  BY <1>2, <1>6, <1>7, <1>8 DEF Covers
<1>. QED BY <1>9 DEF chunks

LEMMA DivIs ==
  ASSUME NEW a \in Nat, NEW s \in Nat \ {0}, NEW q \in Nat, s * q <= a, a < s * q + s
  PROVE  a \div s = q
<1>. DEFINE d == a \div s
<1>1. d \in Nat /\ s * d <= a /\ a < s * d + s
  BY DivBounds
<1>. HIDE DEF d
<1>2. s * d \in Nat /\ s * q \in Nat /\ s * (d + 1) = s * d + s /\ s * (q + 1) = s * q + s
  BY <1>1
<1>3. ~ (d < q)
  <2>1. CASE d < q
    <3>1. s * (d + 1) <= s * q
      BY <1>1, <2>1, Monotone
    <3>. QED BY <1>1, <1>2, <3>1
  <2>. QED BY <2>1
<1>4. ~ (q < d)
  <2>1. CASE q < d
    <3>1. s * (q + 1) <= s * d
      BY <1>1, <2>1, Monotone
    <3>. QED BY <1>1, <1>2, <3>1
  <2>. QED BY <2>1
<1>5. d = q
  BY <1>1, <1>3, <1>4
<1>. QED BY <1>5 DEF d

(* import_playlist: the batches of a playlist are the chunks of its items, *)
LEMMA BatchesAreChunks ==
  ASSUME NEW count \in Nat \ {0}, NEW size \in Nat \ {0}
  PROVE  Batches(count, size) = Chunks(1, count, size)
<1>. DEFINE q == (count - 1) \div size
<1>1. q \in Nat /\ size * q <= count - 1 /\ count - 1 < size * q + size
  BY DivBounds
<1>. HIDE DEF q
<1>2. (count + size - 1) \div size = q + 1
  <2>1. size * (q + 1) = size * q + size /\ size * q \in Nat
    BY <1>1
  <2>. QED BY <1>1, <2>1, DivIs
<1>3. ASSUME NEW n \in 1..(q + 1)
      PROVE  (n - 1) * size + 1 = 1 + (n - 1) * size /\ n * size = (1 + (n - 1) * size) + size - 1
  <2>1. n * size = (n - 1) * size + size /\ (n - 1) * size \in Int
    BY <1>1
  <2>. QED BY <2>1
<1>. QED BY <1>2, <1>3 DEF Batches, Chunks, q

(* so that every item is in exactly one, in order.                         *)
THEOREM ItemsCovered ==
  ASSUME NEW count \in Nat \ {0}, NEW size \in Nat \ {0}
  PROVE  Covers(Batches(count, size), 1, count)
<1>1. Covers(Chunks(1, count, size), 1, count)
  BY PagesCovered
<1>. QED BY <1>1, BatchesAreChunks

-----------------------------------------------------------------------------
(* Plans *)

Entry == Nat \X Nat
Part == Seq(Entry)

(* q sends the entries of the sources S, one at a time and in order.       *)
Stream(q, plan, S) ==
  /\ q \in Seq(Part)
  /\ \A p \in 1..Len(q) : /\ Len(q[p]) = 1 /\ q[p][1] \in Entry /\ q[p][1][1] \in S
                          /\ q[p][1][2] \in 1..plan[q[p][1][1]].length
  /\ \A s \in S : \A i \in 1..plan[s].length : \E p \in 1..Len(q) : q[p][1] = <<s, i>>
  /\ \A p, r \in 1..Len(q) : p < r => Precedes(q[p][1], q[r][1])

LEMMA PartsFacts ==
  ASSUME NEW plan \in Seq(Source), NEW s \in DOMAIN plan
  PROVE  /\ plan[s].length \in Nat \ {0} /\ plan[s].lane \in Nat /\ s \in Nat
         /\ Parts(plan, s) \in Seq(Part) /\ Len(Parts(plan, s)) = plan[s].length
         /\ \A i \in 1..plan[s].length : /\ Parts(plan, s)[i] = <<<<s, i>>>> /\ Entries(plan, s)[i] = <<s, i>>
                                         /\ <<s, i>> \in Entry
<1>1. plan[s] \in Source /\ s \in Nat
  OBVIOUS
<1>2. plan[s].length \in Nat \ {0} /\ plan[s].lane \in Nat
  BY <1>1 DEF Source
<1>. DEFINE l == plan[s].length
<1>3. ASSUME NEW i \in 1..l
      PROVE  <<s, i>> \in Entry /\ Entries(plan, s)[i] = <<s, i>> /\ <<<<s, i>>>> \in Part
  BY <1>1, <1>2 DEF Entries, Entry, Part
<1>4. Parts(plan, s) = [i \in 1..l |-> <<<<s, i>>>>]
  BY <1>3 DEF Parts
<1>. HIDE DEF l
<1>5. l \in Nat
  BY <1>2 DEF l
<1>6. Parts(plan, s) \in Seq(Part) /\ Len(Parts(plan, s)) = l
  BY <1>3, <1>4, <1>5
<1>. QED BY <1>1, <1>2, <1>3, <1>4, <1>6 DEF l

LEMMA PartsStream ==
  ASSUME NEW plan \in Seq(Source), NEW s \in DOMAIN plan
  PROVE  Stream(Parts(plan, s), plan, {s})
<1>. DEFINE q == Parts(plan, s)
            l == plan[s].length
<1>1. /\ l \in Nat /\ s \in Nat /\ q \in Seq(Part) /\ Len(q) = l
      /\ \A i \in 1..l : q[i] = <<<<s, i>>>> /\ <<s, i>> \in Entry
  BY PartsFacts
<1>. HIDE DEF q
<1>2. \A p \in 1..Len(q) : /\ Len(q[p]) = 1 /\ q[p][1] = <<s, p>> /\ q[p][1] \in Entry
                           /\ q[p][1][1] = s /\ q[p][1][2] = p
  <2>. SUFFICES ASSUME NEW p \in 1..Len(q)
                PROVE  Len(q[p]) = 1 /\ q[p][1] = <<s, p>> /\ q[p][1] \in Entry
                       /\ q[p][1][1] = s /\ q[p][1][2] = p
    OBVIOUS
  <2>1. q[p] = <<<<s, p>>>> /\ <<s, p>> \in Entry
    BY <1>1
  <2>. QED BY <2>1
<1>3. \A p, r \in 1..Len(q) : p < r => Precedes(q[p][1], q[r][1])
  BY <1>2 DEF Precedes
<1>4. Stream(q, plan, {s})
  BY <1>1, <1>2, <1>3 DEF Stream
<1>. QED BY <1>4 DEF q

(* combine_streams, sequential: the sources of S one after the other.      *)
LEMMA SequentialStream ==
  ASSUME NEW plan \in Seq(Source), NEW S \in SUBSET DOMAIN plan, NEW ss,
         ss = [s \in DOMAIN plan |-> IF s \in S THEN Parts(plan, s) ELSE <<>>]
  PROVE  Stream(Sequential(ss), plan, S)
<1>. DEFINE q == FlattenSeq(ss)
<1>1. /\ Len(plan) \in Nat /\ DOMAIN plan = 1..Len(plan)
  OBVIOUS
<1>2. \A s \in DOMAIN plan : ss[s] \in Seq(Part) /\ Len(ss[s]) = IF s \in S THEN plan[s].length ELSE 0
  BY PartsFacts
<1>3. ss \in Seq(Seq(Part)) /\ Len(ss) = Len(plan)
  BY <1>1, <1>2
<1>4. q \in Seq(Part)
  BY <1>3, FlattenJoins
<1>5. PICK off : Joined(ss, off, q)
  BY <1>3, FlattenJoins
<1>6. \A m, n \in 1..Len(ss) : m < n => off[m] + Len(ss[m]) <= off[n]
  BY <1>3, <1>5, JoinedInOrder
<1>. HIDE DEF q
<1>7. ASSUME NEW s \in S, NEW i \in 1..plan[s].length
      PROVE  /\ off[s] + i \in 1..Len(q) /\ q[off[s] + i] = <<<<s, i>>>>
             /\ q[off[s] + i][1] = <<s, i>> /\ <<s, i>> \in Entry
  <2>1. s \in 1..Len(ss) /\ ss[s] = Parts(plan, s) /\ i \in 1..Len(ss[s]) /\ s \in DOMAIN plan
    BY <1>1, <1>2, <1>3
  <2>2. off[s] + i \in 1..Len(q) /\ q[off[s] + i] = ss[s][i]
    BY <1>5, <2>1 DEF Joined
  <2>3. Parts(plan, s)[i] = <<<<s, i>>>> /\ <<s, i>> \in Entry
    BY <2>1, PartsFacts
  <2>. QED BY <2>1, <2>2, <2>3
<1>8. ASSUME NEW p \in 1..Len(q)
      PROVE  \E s \in S : \E i \in 1..plan[s].length : p = off[s] + i
  <2>1. PICK s \in 1..Len(ss) : \E i \in 1..Len(ss[s]) : p = off[s] + i
    BY <1>5 DEF Joined
  <2>2. s \in DOMAIN plan /\ Len(ss[s]) = IF s \in S THEN plan[s].length ELSE 0
    BY <1>1, <1>2, <1>3
  <2>3. s \in S
    BY <2>1, <2>2
  <2>. QED BY <2>1, <2>2, <2>3
<1>9. ASSUME NEW p \in 1..Len(q), NEW r \in 1..Len(q), p < r
      PROVE  Precedes(q[p][1], q[r][1])
  <2>1. PICK s \in S : \E i \in 1..plan[s].length : p = off[s] + i
    BY <1>8
  <2>2. PICK i \in 1..plan[s].length : p = off[s] + i
    BY <2>1
  <2>3. PICK t \in S : \E j \in 1..plan[t].length : r = off[t] + j
    BY <1>8
  <2>4. PICK j \in 1..plan[t].length : r = off[t] + j
    BY <2>3
  <2>5. q[p][1] = <<s, i>> /\ q[r][1] = <<t, j>>
    BY <1>7, <2>2, <2>4
  <2>6. /\ s \in 1..Len(ss) /\ t \in 1..Len(ss) /\ off[s] \in Nat /\ off[t] \in Nat /\ Len(ss) \in Nat
    <3>1. s \in 1..Len(ss) /\ t \in 1..Len(ss) /\ Len(ss) \in Nat
      BY <1>1, <1>3
    <3>2. off \in [1..(Len(ss) + 1) -> Nat]
      BY <1>5 DEF Joined
    <3>3. s \in 1..(Len(ss) + 1) /\ t \in 1..(Len(ss) + 1)
      BY <3>1
    <3>. QED BY <3>1, <3>2, <3>3
  <2>7. /\ Len(ss[t]) = plan[t].length /\ plan[t].length \in Nat /\ plan[s].length \in Nat
    BY <1>2, PartsFacts
  <2>8. ~ (t < s)
    <3>1. CASE t < s
      <4>1. off[t] + plan[t].length <= off[s]
        BY <1>6, <2>6, <2>7, <3>1
      <4>. QED BY <1>9, <2>2, <2>4, <2>6, <2>7, <4>1
    <3>. QED BY <3>1
  <2>9. s < t \/ (s = t /\ i < j)
    <3>1. s \in Nat /\ t \in Nat /\ i \in Nat /\ j \in Nat
      BY <2>6, <2>7
    <3>2. CASE s = t
      BY <1>9, <2>2, <2>4, <2>6, <3>1, <3>2
    <3>. QED BY <2>8, <3>1, <3>2
  <2>10. Precedes(<<s, i>>, <<t, j>>)
    BY <2>9 DEF Precedes
  <2>. QED BY <2>5, <2>10
<1>10. ASSUME NEW p \in 1..Len(q)
       PROVE  /\ Len(q[p]) = 1 /\ q[p][1] \in Entry /\ q[p][1][1] \in S
              /\ q[p][1][2] \in 1..plan[q[p][1][1]].length
  <2>1. PICK s \in S : \E i \in 1..plan[s].length : p = off[s] + i
    BY <1>8
  <2>2. PICK i \in 1..plan[s].length : p = off[s] + i
    BY <2>1
  <2>3. q[p] = <<<<s, i>>>> /\ q[p][1] = <<s, i>> /\ <<s, i>> \in Entry
    BY <1>7, <2>2
  <2>4. Len(q[p]) = 1 /\ q[p][1][1] = s /\ q[p][1][2] = i
    BY <2>3
  <2>. QED BY <2>3, <2>4
<1>11. \A s \in S : \A i \in 1..plan[s].length : \E p \in 1..Len(q) : q[p][1] = <<s, i>>
  BY <1>7
<1>12. Stream(q, plan, S)
  BY <1>4, <1>9, <1>10, <1>11 DEF Stream
<1>. QED BY <1>12 DEF q, Sequential

-----------------------------------------------------------------------------
(* Merging streams *)

(* Part i joins the i-th entry of every stream that has one, and each once. *)
Merged(parts, streams, k) ==
  /\ \A n \in 1..k : Len(streams[n]) \in Nat /\ 1..Len(streams[n]) \subseteq DOMAIN parts
  /\ DOMAIN parts \subseteq Nat \ {0}
  /\ \A i \in DOMAIN parts :
       /\ \E n \in 1..k : i <= Len(streams[n])
       /\ \A n \in 1..k : i <= Len(streams[n]) => Joins(parts[i], streams[n][i][1])
       /\ \E from \in [DOMAIN parts[i] -> 1..k] :
            /\ IsInjective(from)
            /\ \A j \in DOMAIN parts[i] : /\ i <= Len(streams[from[j]])
                                          /\ parts[i][j] = streams[from[j]][i][1]

(* The streams of a plan, one for each lane.                               *)
Lanes(streams, k, src, plan, strategy) ==
  /\ src \in [1..k -> SUBSET DOMAIN plan]
  /\ \A n \in 1..k : Stream(streams[n], plan, src[n])
  /\ \A s \in DOMAIN plan : \E n \in 1..k : s \in src[n]
  /\ \A m, n \in 1..k : \A s \in src[m], t \in src[n] :
       (LaneOf(plan, strategy, <<s, 1>>) = LaneOf(plan, strategy, <<t, 1>>)) <=> (m = n)

EntryOf(plan, S, e) == \E s \in S : \E i \in 1..plan[s].length : e = <<s, i>>
Sent(streams, k, e) == \E n \in 1..k : \E p \in 1..Len(streams[n]) : streams[n][p][1] = e

LEMMA EntriesAre ==
  ASSUME NEW plan \in Seq(Source), NEW e
  PROVE  e \in EntriesOf(plan) <=> EntryOf(plan, DOMAIN plan, e)
<1>1. \A s \in DOMAIN plan : \A i \in 1..plan[s].length : Entries(plan, s)[i] = <<s, i>>
  BY DEF Entries
<1>2. e \in EntriesOf(plan) <=>
        \E s \in DOMAIN plan : \E i \in 1..plan[s].length : e = Entries(plan, s)[i]
  BY DEF EntriesOf
<1>. QED BY <1>1, <1>2 DEF EntryOf

LEMMA LaneOfSource ==
  ASSUME NEW plan, NEW strategy, NEW s, NEW i
  PROVE  LaneOf(plan, strategy, <<s, i>>) = LaneOf(plan, strategy, <<s, 1>>)
BY DEF LaneOf

LEMMA PrecedesOrder ==
  ASSUME NEW e \in Entry, NEW f \in Entry
  PROVE  ~(Precedes(e, f) /\ Precedes(f, e)) /\ ~Precedes(e, e)
BY DEF Precedes, Entry

LEMMA StreamEntry ==
  ASSUME NEW plan \in Seq(Source), NEW S \in SUBSET DOMAIN plan, NEW q, Stream(q, plan, S),
         NEW p \in 1..Len(q)
  PROVE  /\ q[p][1] \in EntriesOf(plan) /\ q[p][1] \in Entry
         /\ EntryOf(plan, S, q[p][1])
<1>1. /\ q[p][1] \in Entry /\ q[p][1][1] \in S
      /\ q[p][1][2] \in 1..plan[q[p][1][1]].length
  BY DEF Stream
<1>2. q[p][1] = <<q[p][1][1], q[p][1][2]>>
  BY <1>1 DEF Entry
<1>3. EntryOf(plan, S, q[p][1]) /\ EntryOf(plan, DOMAIN plan, q[p][1])
  BY <1>1, <1>2 DEF EntryOf
<1>. QED BY <1>1, <1>3, EntriesAre

(* Every entry of the plan is in one stream, whose lane is its own.        *)
LEMMA EntryStream ==
  ASSUME NEW plan \in Seq(Source), NEW strategy, NEW k \in Nat, NEW streams, NEW src,
         Lanes(streams, k, src, plan, strategy), NEW e \in EntriesOf(plan)
  PROVE  Sent(streams, k, e) /\ e \in Entry
<1>0. EntryOf(plan, DOMAIN plan, e)
  BY EntriesAre
<1>1. PICK s \in DOMAIN plan : \E i \in 1..plan[s].length : e = <<s, i>>
  BY <1>0 DEF EntryOf
<1>2. PICK i \in 1..plan[s].length : e = <<s, i>>
  BY <1>1
<1>3. PICK n \in 1..k : s \in src[n]
  BY DEF Lanes
<1>4. Stream(streams[n], plan, src[n])
  BY DEF Lanes
<1>6. \E p \in 1..Len(streams[n]) : streams[n][p][1] = <<s, i>>
  BY <1>3, <1>4 DEF Stream
<1>5. e \in Entry
  BY <1>2, PartsFacts
<1>. QED BY <1>2, <1>5, <1>6 DEF Sent

LaneAt(plan, strategy, streams, n, p) == LaneOf(plan, strategy, streams[n][p][1])

LEMMA SameLane ==
  ASSUME NEW plan \in Seq(Source), NEW strategy, NEW k \in Nat, NEW streams, NEW src,
         Lanes(streams, k, src, plan, strategy),
         NEW m \in 1..k, NEW n \in 1..k, NEW p \in 1..Len(streams[m]), NEW r \in 1..Len(streams[n])
  PROVE  /\ LaneAt(plan, strategy, streams, m, p) = LaneAt(plan, strategy, streams, n, r) => m = n
         /\ m = n => LaneAt(plan, strategy, streams, m, p) = LaneAt(plan, strategy, streams, n, r)
<1>1. /\ Stream(streams[m], plan, src[m]) /\ Stream(streams[n], plan, src[n])
      /\ src[m] \in SUBSET DOMAIN plan /\ src[n] \in SUBSET DOMAIN plan
  BY DEF Lanes
<1>2. PICK s \in src[m] : \E i \in 1..plan[s].length : streams[m][p][1] = <<s, i>>
  <2>. DEFINE q == streams[m]
  <2>1. Stream(q, plan, src[m]) /\ p \in 1..Len(q)
    BY <1>1
  <2>. HIDE DEF q
  <2>2. EntryOf(plan, src[m], q[p][1])
    BY <1>1, <2>1, StreamEntry
  <2>. QED BY <2>2 DEF q, EntryOf
<1>3. PICK t \in src[n] : \E i \in 1..plan[t].length : streams[n][r][1] = <<t, i>>
  <2>. DEFINE q == streams[n]
  <2>1. Stream(q, plan, src[n]) /\ r \in 1..Len(q)
    BY <1>1
  <2>. HIDE DEF q
  <2>2. EntryOf(plan, src[n], q[r][1])
    BY <1>1, <2>1, StreamEntry
  <2>. QED BY <2>2 DEF q, EntryOf
<1>4. /\ LaneOf(plan, strategy, streams[m][p][1]) = LaneOf(plan, strategy, <<s, 1>>)
      /\ LaneOf(plan, strategy, streams[n][r][1]) = LaneOf(plan, strategy, <<t, 1>>)
  BY <1>2, <1>3, LaneOfSource
<1>5. (LaneOf(plan, strategy, <<s, 1>>) = LaneOf(plan, strategy, <<t, 1>>)) <=> (m = n)
  BY DEF Lanes
<1>. QED BY <1>4, <1>5 DEF LaneAt

(* What a part joins comes from a stream, at the part's position.          *)
LEMMA JoinedFrom ==
  ASSUME NEW k, NEW streams, NEW parts, Merged(parts, streams, k), NEW i \in DOMAIN parts, NEW e,
         Joins(parts[i], e)
  PROVE  \E n \in 1..k : i \in 1..Len(streams[n]) /\ e = streams[n][i][1]
<1>1. PICK j \in DOMAIN parts[i] : parts[i][j] = e
  BY DEF Joins
<1>0. PICK from \in [DOMAIN parts[i] -> 1..k] :
        \A h \in DOMAIN parts[i] : i <= Len(streams[from[h]]) /\ parts[i][h] = streams[from[h]][i][1]
  BY DEF Merged
<1>2. PICK n \in 1..k : i <= Len(streams[n]) /\ parts[i][j] = streams[n][i][1]
  BY <1>0
<1>3. i \in Nat \ {0} /\ Len(streams[n]) \in Nat
  BY DEF Merged
<1>. QED BY <1>1, <1>2, <1>3

LEMMA MergedKept ==
  ASSUME NEW plan \in Seq(Source), NEW strategy, NEW k \in Nat, NEW streams, NEW src, NEW parts,
         Lanes(streams, k, src, plan, strategy), Merged(parts, streams, k),
         \A i \in DOMAIN parts : parts[i] \in Part
  PROVE  PlanKept(plan, strategy, parts)
<1>. DEFINE all == EntriesOf(plan)
            lane(e) == LaneOf(plan, strategy, e)
<1>1. \A n \in 1..k : Stream(streams[n], plan, src[n]) /\ src[n] \in SUBSET DOMAIN plan
  BY DEF Lanes
<1>2. ASSUME NEW i \in DOMAIN parts, NEW n \in 1..k, i <= Len(streams[n])
      PROVE  /\ i \in 1..Len(streams[n]) /\ streams[n][i][1] \in all /\ streams[n][i][1] \in Entry
             /\ Joins(parts[i], streams[n][i][1])
  <2>1. i \in 1..Len(streams[n]) /\ Joins(parts[i], streams[n][i][1])
    BY <1>2 DEF Merged
  <2>. QED BY <1>1, <2>1, StreamEntry
<1>3. ASSUME NEW e \in all PROVE \E i \in DOMAIN parts : Joins(parts[i], e)
  <2>0. Sent(streams, k, e)
    BY EntryStream
  <2>1. PICK n \in 1..k : \E p \in 1..Len(streams[n]) : streams[n][p][1] = e
    BY <2>0 DEF Sent
  <2>2. PICK p \in 1..Len(streams[n]) : streams[n][p][1] = e
    BY <2>1
  <2>3. p \in DOMAIN parts /\ p <= Len(streams[n])
    BY <2>2 DEF Merged
  <2>. QED BY <1>2, <2>2, <2>3
<1>4. ASSUME NEW i \in DOMAIN parts
      PROVE  /\ parts[i] # <<>>
             /\ \A j \in DOMAIN parts[i] : parts[i][j] \in all
             /\ \A j, l \in DOMAIN parts[i] : lane(parts[i][j]) = lane(parts[i][l]) => j = l
  <2>1. \A j \in DOMAIN parts[i] : Joins(parts[i], parts[i][j])
    BY DEF Joins
  <2>2. parts[i] # <<>>
    <3>1. PICK n \in 1..k : i <= Len(streams[n])
      BY DEF Merged
    <3>2. Joins(parts[i], streams[n][i][1])
      BY <1>2, <3>1
    <3>. QED BY <3>2 DEF Joins
  <2>3. ASSUME NEW j \in DOMAIN parts[i] PROVE parts[i][j] \in all
    <3>1. PICK n \in 1..k : i \in 1..Len(streams[n]) /\ parts[i][j] = streams[n][i][1]
      BY <2>1, JoinedFrom
    <3>2. i <= Len(streams[n])
      BY <3>1
    <3>. QED BY <1>2, <3>1, <3>2
  <2>4. ASSUME NEW j \in DOMAIN parts[i], NEW l \in DOMAIN parts[i],
               lane(parts[i][j]) = lane(parts[i][l])
        PROVE  j = l
    <3>1. PICK from \in [DOMAIN parts[i] -> 1..k] :
            /\ IsInjective(from)
            /\ \A h \in DOMAIN parts[i] : /\ i <= Len(streams[from[h]])
                                          /\ parts[i][h] = streams[from[h]][i][1]
      BY DEF Merged
    <3>2. /\ from[j] \in 1..k /\ i \in 1..Len(streams[from[j]]) /\ parts[i][j] = streams[from[j]][i][1]
          /\ from[l] \in 1..k /\ i \in 1..Len(streams[from[l]]) /\ parts[i][l] = streams[from[l]][i][1]
      BY <1>2, <3>1
    <3>3. LaneAt(plan, strategy, streams, from[j], i) = LaneAt(plan, strategy, streams, from[l], i)
            => from[j] = from[l]
      BY <3>2, SameLane
    <3>4. from[j] = from[l]
      BY <2>4, <3>2, <3>3 DEF LaneAt
    <3>. QED BY <3>1, <3>4 DEF IsInjective
  <2>. QED BY <2>2, <2>3, <2>4
<1>5. ASSUME NEW m \in DOMAIN parts, NEW n \in DOMAIN parts, NEW e \in all, NEW f \in all,
             Joins(parts[m], e), Joins(parts[n], f), lane(e) = lane(f)
      PROVE  Precedes(e, f) <=> m < n
  <2>1. PICK a \in 1..k : m \in 1..Len(streams[a]) /\ e = streams[a][m][1]
    BY <1>5, JoinedFrom
  <2>2. PICK b \in 1..k : n \in 1..Len(streams[b]) /\ f = streams[b][n][1]
    BY <1>5, JoinedFrom
  <2>0. LaneAt(plan, strategy, streams, a, m) = LaneAt(plan, strategy, streams, b, n) => a = b
    BY <2>1, <2>2, SameLane
  <2>3. a = b
    BY <1>5, <2>0, <2>1, <2>2 DEF LaneAt
  <2>4. e \in Entry /\ f \in Entry /\ m \in Nat /\ n \in Nat
    BY EntryStream DEF Merged
  <2>5. (m < n => Precedes(e, f)) /\ (n < m => Precedes(f, e))
    BY <1>1, <2>1, <2>2, <2>3 DEF Stream
  <2>6. m = n => e = f
    BY <2>1, <2>2, <2>3
  <2>7. ~(Precedes(e, f) /\ Precedes(f, e)) /\ ~Precedes(e, e)
    BY <2>4, PrecedesOrder
  <2>. QED BY <2>4, <2>5, <2>6, <2>7
<1>6. ASSUME NEW n \in DOMAIN parts, NEW m \in 1..n, NEW e \in all, Joins(parts[n], e)
      PROVE  \E f \in all : Joins(parts[m], f) /\ lane(f) = lane(e)
  <2>1. PICK a \in 1..k : n \in 1..Len(streams[a]) /\ e = streams[a][n][1]
    BY <1>6, JoinedFrom
  <2>2. m \in 1..Len(streams[a]) /\ m <= Len(streams[a])
    BY <2>1 DEF Merged
  <2>3. m \in DOMAIN parts
    BY <2>2 DEF Merged
  <2>0. LaneAt(plan, strategy, streams, a, m) = LaneAt(plan, strategy, streams, a, n)
    BY <2>1, <2>2, SameLane
  <2>4. lane(streams[a][m][1]) = lane(e)
    BY <2>0, <2>1 DEF LaneAt
  <2>. QED BY <1>2, <2>2, <2>3, <2>4
<1>. QED BY <1>3, <1>4, <1>5, <1>6 DEF PlanKept

-----------------------------------------------------------------------------
(* The plan flattened *)

LEMMA MaxOfSome ==
  ASSUME NEW k \in Nat \ {0}, NEW f \in [1..k -> Nat]
  PROVE  LET M == Max({f[n] : n \in 1..k})
         IN M \in Nat /\ (\A n \in 1..k : f[n] <= M) /\ \E n \in 1..k : M = f[n]
<1>. DEFINE T == {n \in Nat : n \in 1..k => \E m \in 1..n : \A i \in 1..n : f[i] <= f[m]}
<1>1. 0 \in T
  OBVIOUS
<1>2. ASSUME NEW n \in Nat, n \in T PROVE n + 1 \in T
  <2>. SUFFICES ASSUME n + 1 \in 1..k
                PROVE  \E m \in 1..(n + 1) : \A i \in 1..(n + 1) : f[i] <= f[m]
    OBVIOUS
  <2>1. CASE n = 0
    BY <2>1
  <2>2. CASE n # 0
    <3>1. n \in 1..k
      BY <2>2
    <3>2. PICK m \in 1..n : \A i \in 1..n : f[i] <= f[m]
      BY <1>2, <3>1
    <3>3. f[m] \in Nat /\ f[n + 1] \in Nat /\ m \in 1..(n + 1) /\ n + 1 \in 1..(n + 1)
      BY <3>1
    <3>4. \A i \in 1..(n + 1) : i \in 1..n \/ i = n + 1
      OBVIOUS
    <3>5. \A i \in 1..n : f[i] \in Nat
      BY <3>1
    <3>6. CASE f[m] <= f[n + 1]
      <4>1. \A i \in 1..(n + 1) : f[i] <= f[n + 1]
        BY <3>2, <3>3, <3>4, <3>5, <3>6
      <4>. QED BY <3>3, <4>1
    <3>7. CASE f[n + 1] <= f[m]
      <4>1. \A i \in 1..(n + 1) : f[i] <= f[m]
        BY <3>2, <3>4, <3>7
      <4>. QED BY <3>3, <4>1
    <3>. QED BY <3>3, <3>6, <3>7
  <2>. QED BY <2>1, <2>2
<1>3. \A n \in Nat : n \in T
  <2>. HIDE DEF T
  <2>. QED BY <1>1, <1>2, NatInduct
<1>4. PICK m \in 1..k : \A i \in 1..k : f[i] <= f[m]
  <2>1. k \in T
    <3>. HIDE DEF T
    <3>. QED BY <1>3
  <2>2. k \in 1..k
    OBVIOUS
  <2>. QED BY <2>1, <2>2
<1>. DEFINE S == {f[n] : n \in 1..k}
<1>5. f[m] \in S /\ \A y \in S : f[m] >= y
  BY <1>4
<1>6. Max(S) \in S /\ \A y \in S : Max(S) >= y
  <2>. HIDE DEF S
  <2>. QED BY <1>5 DEF Max
<1>. QED BY <1>6

LEMMA SingleMerged ==
  ASSUME NEW plan \in Seq(Source), NEW q, NEW S, Stream(q, plan, S)
  PROVE  Merged(q, <<q>>, 1) /\ \A i \in DOMAIN q : q[i] \in Part
<1>1. q \in Seq(Part) /\ \A p \in 1..Len(q) : Len(q[p]) = 1
  BY DEF Stream
<1>2. Len(q) \in Nat /\ DOMAIN q = 1..Len(q) /\ <<q>>[1] = q /\ 1..1 = {1}
  BY <1>1
<1>3. ASSUME NEW i \in DOMAIN q
      PROVE  /\ q[i] \in Part /\ DOMAIN q[i] = {1} /\ i <= Len(q)
             /\ Joins(q[i], q[i][1])
             /\ \E from \in [DOMAIN q[i] -> 1..1] :
                  /\ IsInjective(from)
                  /\ \A j \in DOMAIN q[i] : i <= Len(<<q>>[from[j]]) /\ q[i][j] = <<q>>[from[j]][i][1]
  <2>1. q[i] \in Part /\ i <= Len(q) /\ DOMAIN q[i] = {1}
    BY <1>1, <1>2 DEF Part
  <2>2. Joins(q[i], q[i][1])
    BY <2>1 DEF Joins
  <2>. DEFINE from == [j \in {1} |-> 1]
  <2>3. /\ from \in [DOMAIN q[i] -> 1..1] /\ IsInjective(from)
        /\ \A j \in DOMAIN q[i] : from[j] = 1 /\ j = 1
    BY <2>1 DEF IsInjective
  <2>. HIDE DEF from
  <2>. QED BY <1>2, <2>1, <2>2, <2>3
<1>4. Merged(q, <<q>>, 1)
  BY <1>2, <1>3 DEF Merged
<1>. QED BY <1>3, <1>4

(* combine_streams, parallel.                                              *)
LEMMA ParallelMerged ==
  ASSUME NEW plan \in Seq(Source), NEW k \in Nat \ {0}, NEW streams, NEW src,
         DOMAIN streams = 1..k, \A n \in 1..k : Stream(streams[n], plan, src[n])
  PROVE  /\ Merged(Parallel(streams), streams, k)
         /\ \A i \in DOMAIN Parallel(streams) : Parallel(streams)[i] \in Part
<1>. DEFINE parts == Parallel(streams)
            lens == [n \in 1..k |-> Len(streams[n])]
            M == Longest(streams)
<1>1. \A n \in 1..k : streams[n] \in Seq(Part) /\ \A p \in 1..Len(streams[n]) : Len(streams[n][p]) = 1
  BY DEF Stream
<1>2. lens \in [1..k -> Nat]
  BY <1>1
<1>3. M = Max({lens[n] : n \in 1..k})
  BY DEF Longest
<1>4. M \in Nat /\ (\A n \in 1..k : lens[n] <= M) /\ \E n \in 1..k : M = lens[n]
  <2>. HIDE DEF lens, M
  <2>. QED BY <1>2, <1>3, MaxOfSome
<1>5. /\ M \in Nat /\ \E n \in 1..k : M = Len(streams[n])
      /\ \A n \in 1..k : Len(streams[n]) \in Nat /\ Len(streams[n]) <= M
  BY <1>1, <1>4
<1>. DEFINE Row(i) == [n \in DOMAIN streams |-> IF i <= Len(streams[n]) THEN streams[n][i] ELSE <<>>]
<1>6. parts = [i \in 1..M |-> FlattenSeq(Row(i))]
  BY DEF Parallel
<1>. HIDE DEF parts, M, lens
<1>7. ASSUME NEW i \in 1..M
      PROVE  /\ parts[i] \in Part
             /\ \E n \in 1..k : i <= Len(streams[n])
             /\ \A n \in 1..k : i <= Len(streams[n]) => Joins(parts[i], streams[n][i][1])
             /\ \E from \in [DOMAIN parts[i] -> 1..k] :
                  /\ IsInjective(from)
                  /\ \A j \in DOMAIN parts[i] : /\ i <= Len(streams[from[j]])
                                                /\ parts[i][j] = streams[from[j]][i][1]
  <2>. DEFINE ss == Row(i)
  <2>1. \A n \in 1..k : i <= Len(streams[n]) => streams[n][i] \in Part /\ Len(streams[n][i]) = 1
    BY <1>1, <1>5
  <2>2. \A n \in 1..k : /\ ss[n] \in Part
                        /\ Len(ss[n]) = IF i <= Len(streams[n]) THEN 1 ELSE 0
                        /\ i <= Len(streams[n]) => ss[n] = streams[n][i]
    <3>. SUFFICES ASSUME NEW n \in 1..k
                  PROVE  /\ ss[n] \in Part
                         /\ Len(ss[n]) = IF i <= Len(streams[n]) THEN 1 ELSE 0
                         /\ i <= Len(streams[n]) => ss[n] = streams[n][i]
      OBVIOUS
    <3>1. ss[n] = IF i <= Len(streams[n]) THEN streams[n][i] ELSE <<>>
      OBVIOUS
    <3>2. <<>> \in Part /\ Len(<<>>) = 0
      BY DEF Part
    <3>. HIDE DEF ss
    <3>. QED BY <2>1, <3>1, <3>2
  <2>3. ss \in Seq(Seq(Entry)) /\ Len(ss) = k
    BY <2>2 DEF Part
  <2>. HIDE DEF ss, Row
  <2>4. parts[i] = FlattenSeq(ss)
    BY <1>6 DEF ss
  <2>5. parts[i] \in Part
    BY <2>3, <2>4, FlattenJoins DEF Part
  <2>6. PICK off : Joined(ss, off, parts[i])
    BY <2>3, <2>4, FlattenJoins
  <2>7. ASSUME NEW n \in 1..k, i <= Len(streams[n])
        PROVE  off[n] + 1 \in 1..Len(parts[i]) /\ parts[i][off[n] + 1] = streams[n][i][1]
    <3>1. n \in 1..Len(ss) /\ 1 \in 1..Len(ss[n]) /\ ss[n] = streams[n][i]
      <4>1. ss[n] = streams[n][i] /\ Len(ss[n]) = 1
        BY <2>2, <2>7
      <4>. QED BY <2>3, <4>1
    <3>. QED BY <2>6, <3>1 DEF Joined
  <2>8. DOMAIN parts[i] = 1..Len(parts[i])
    BY <2>5 DEF Part
  <2>9. ASSUME NEW j \in DOMAIN parts[i]
        PROVE  \E n \in 1..k : i <= Len(streams[n]) /\ j = off[n] + 1
    <3>1. PICK n \in 1..Len(ss) : \E h \in 1..Len(ss[n]) : j = off[n] + h
      BY <2>6, <2>8 DEF Joined
    <3>2. n \in 1..k /\ Len(ss[n]) = IF i <= Len(streams[n]) THEN 1 ELSE 0
      BY <2>2, <2>3
    <3>3. i <= Len(streams[n]) /\ j = off[n] + 1
      BY <3>1, <3>2
    <3>. QED BY <3>2, <3>3
  <2>. DEFINE from == [j \in DOMAIN parts[i] |-> CHOOSE n \in 1..k : i <= Len(streams[n]) /\ j = off[n] + 1]
  <2>10. \A j \in DOMAIN parts[i] : from[j] \in 1..k /\ i <= Len(streams[from[j]]) /\ j = off[from[j]] + 1
    BY <2>9
  <2>11. DOMAIN from = DOMAIN parts[i] /\ from \in [DOMAIN parts[i] -> 1..k]
    BY <2>10
  <2>. HIDE DEF from
  <2>12. IsInjective(from)
    BY <2>10, <2>11 DEF IsInjective
  <2>13. \A j \in DOMAIN parts[i] : i <= Len(streams[from[j]]) /\ parts[i][j] = streams[from[j]][i][1]
    BY <2>7, <2>10
  <2>14. \A n \in 1..k : i <= Len(streams[n]) => Joins(parts[i], streams[n][i][1])
    BY <2>7, <2>8 DEF Joins
  <2>15. \E n \in 1..k : i <= Len(streams[n])
    BY <1>5
  <2>. QED BY <2>5, <2>11, <2>12, <2>13, <2>14, <2>15
<1>8. DOMAIN parts = 1..M
  BY <1>6
<1>9. \A n \in 1..k : 1..Len(streams[n]) \subseteq DOMAIN parts
  BY <1>5, <1>8
<1>10. DOMAIN parts \subseteq Nat \ {0}
  BY <1>5, <1>8
<1>11. Merged(parts, streams, k)
  BY <1>5, <1>7, <1>8, <1>9, <1>10 DEF Merged
<1>. QED BY <1>7, <1>8, <1>11 DEF parts

(* The lanes of a plan, in some order.                                     *)
Listed(S) ==
  /\ Cardinality(S) \in Nat
  /\ SetToSeq(S) \in [1..Cardinality(S) -> S]
  /\ IsInjective(SetToSeq(S))
  /\ \A x \in S : \E i \in 1..Cardinality(S) : SetToSeq(S)[i] = x

LEMMA SetInSequence ==
  ASSUME NEW n \in Nat, NEW S, NEW f \in Surjection(1..n, S)
  PROVE  Listed(S)
<1>. DEFINE k == Cardinality(S)
            q == SetToSeq(S)
<1>1. IsFiniteSet(S)
  <2>2. IsFiniteSet(1..n)
    BY FS_Interval
  <2>. QED BY <2>2, FS_Surjection
<1>2. k \in Nat /\ ExistsBijection(1..k, S)
  BY <1>1, FS_CardinalityType
<1>3. \E g \in [1..k -> S] : IsInjective(g)
  BY <1>2 DEF ExistsBijection, Bijection, Injection
<1>4. q \in [1..k -> S] /\ IsInjective(q)
  BY <1>3 DEF SetToSeq
<1>5. q \in Injection(1..k, S)
  BY <1>4 DEF Injection
<1>6. IsFiniteSet(1..k) /\ Cardinality(1..k) = k
  BY <1>2, FS_Interval
<1>7. q \in Surjection(1..k, S)
  BY <1>1, <1>5, <1>6, FS_Injection
<1>8. \A x \in S : \E i \in 1..k : q[i] = x
  BY <1>7 DEF Surjection
<1>. QED BY <1>2, <1>4, <1>8 DEF Listed

(* flatten_plan keeps every valid plan.                                    *)
LEMMA FlattenedKept ==
  ASSUME NEW plan \in Seq(Source), plan # <<>>, LanesValid(plan), NEW strategy
  PROVE  PlanKept(plan, strategy, Flattened(plan, strategy))
<1>. DEFINE all == [s \in DOMAIN plan |-> Parts(plan, s)]
            lanes == {plan[s].lane : s \in DOMAIN plan}
            of(l) == {s \in DOMAIN plan : plan[s].lane = l}
            lane(l) == Sequential([s \in DOMAIN plan |-> IF plan[s].lane = l THEN all[s] ELSE <<>>])
<1>1. Len(plan) \in Nat \ {0} /\ DOMAIN plan = 1..Len(plan)
  OBVIOUS
<1>2. ASSUME NEW l PROVE Stream(lane(l), plan, of(l))
  <2>. DEFINE ss == [s \in DOMAIN plan |-> IF plan[s].lane = l THEN all[s] ELSE <<>>]
  <2>1. ss = [s \in DOMAIN plan |-> IF s \in of(l) THEN Parts(plan, s) ELSE <<>>]
    OBVIOUS
  <2>2. of(l) \in SUBSET DOMAIN plan
    OBVIOUS
  <2>. HIDE DEF ss, of
  <2>3. Stream(Sequential(ss), plan, of(l))
    BY <2>1, <2>2, SequentialStream
  <2>. QED BY <2>3 DEF ss
<1>3. CASE lanes # {0}
  <2>. DEFINE k == Cardinality(lanes)
              q == SetToSeq(lanes)
              streams == [n \in 1..k |-> lane(q[n])]
              src == [n \in 1..k |-> of(q[n])]
  <2>1. \A s \in DOMAIN plan : plan[s].lane # 0
    BY <1>1, <1>3 DEF LanesValid
  <2>. DEFINE laneOf == [s \in 1..Len(plan) |-> plan[s].lane]
  <2>3. /\ k \in Nat /\ q \in [1..k -> lanes] /\ IsInjective(q)
        /\ \A x \in lanes : \E i \in 1..k : q[i] = x
    <3>1. laneOf \in Surjection(1..Len(plan), lanes) /\ Len(plan) \in Nat
      BY <1>1 DEF Surjection
    <3>. HIDE DEF laneOf, lanes
    <3>2. Listed(lanes)
      BY <3>1, SetInSequence
    <3>. QED BY <3>2 DEF Listed
  <2>. HIDE DEF laneOf
  <2>4. ASSUME NEW s \in DOMAIN plan PROVE \E n \in 1..k : q[n] = plan[s].lane
    BY <2>3
  <2>5. k \in Nat \ {0}
    <3>1. 1 \in DOMAIN plan
      BY <1>1
    <3>2. \E n \in 1..k : TRUE
      BY <2>4, <3>1
    <3>. QED BY <2>3, <3>2
  <2>6. DOMAIN streams = 1..k /\ \A n \in 1..k : streams[n] = lane(q[n]) /\ src[n] = of(q[n])
    OBVIOUS
  <2>7. \A n \in 1..k : Stream(streams[n], plan, src[n])
    <3>. HIDE DEF lane, of, streams, src
    <3>. QED BY <1>2, <2>6
  <2>8. \A s \in DOMAIN plan, n \in 1..k : s \in src[n] <=> plan[s].lane = q[n]
    OBVIOUS
  <2>9. src \in [1..k -> SUBSET DOMAIN plan]
    OBVIOUS
  <2>10. \A s \in DOMAIN plan : LaneOf(plan, strategy, <<s, 1>>) = plan[s].lane
    BY <2>1 DEF LaneOf
  <2>11. Flattened(plan, strategy) = Parallel(streams)
    BY <1>3 DEF Flattened
  <2>. HIDE DEF k, q, streams, src, lanes, of, lane
  <2>12. Lanes(streams, k, src, plan, strategy)
    <3>1. ASSUME NEW m \in 1..k, NEW n \in 1..k, NEW s \in src[m], NEW t \in src[n]
          PROVE  (LaneOf(plan, strategy, <<s, 1>>) = LaneOf(plan, strategy, <<t, 1>>)) <=> (m = n)
      <4>1. s \in DOMAIN plan /\ t \in DOMAIN plan
        BY <2>9
      <4>2. /\ LaneOf(plan, strategy, <<s, 1>>) = q[m]
            /\ LaneOf(plan, strategy, <<t, 1>>) = q[n]
        BY <2>8, <2>10, <4>1
      <4>3. q[m] = q[n] => m = n
        BY <2>3 DEF IsInjective
      <4>. QED BY <4>2, <4>3
    <3>2. \A s \in DOMAIN plan : \E n \in 1..k : s \in src[n]
      BY <2>4, <2>8
    <3>. QED BY <2>7, <2>9, <3>1, <3>2 DEF Lanes
  <2>13. /\ Merged(Parallel(streams), streams, k)
         /\ \A i \in DOMAIN Parallel(streams) : Parallel(streams)[i] \in Part
    BY <2>5, <2>6, <2>7, ParallelMerged
  <2>. QED BY <2>5, <2>11, <2>12, <2>13, MergedKept
<1>4. CASE lanes = {0} /\ strategy = "sequential"
  <2>. DEFINE q == Sequential(all)
              src == [n \in 1..1 |-> DOMAIN plan]
  <2>1. Stream(q, plan, DOMAIN plan)
    <3>1. all = [s \in DOMAIN plan |-> IF s \in DOMAIN plan THEN Parts(plan, s) ELSE <<>>]
      OBVIOUS
    <3>2. DOMAIN plan \in SUBSET DOMAIN plan
      OBVIOUS
    <3>. HIDE DEF all
    <3>. QED BY <3>1, <3>2, SequentialStream
  <2>2. \A s \in DOMAIN plan : LaneOf(plan, strategy, <<s, 1>>) = 0
    BY <1>4 DEF LaneOf
  <2>3. Flattened(plan, strategy) = q
    BY <1>4 DEF Flattened
  <2>4. <<q>>[1] = q /\ 1..1 = {1} /\ src[1] = DOMAIN plan /\ src \in [1..1 -> SUBSET DOMAIN plan]
    OBVIOUS
  <2>. HIDE DEF q, src
  <2>5. Lanes(<<q>>, 1, src, plan, strategy)
    BY <2>1, <2>2, <2>4 DEF Lanes
  <2>6. Merged(q, <<q>>, 1) /\ \A i \in DOMAIN q : q[i] \in Part
    BY <2>1, SingleMerged
  <2>. QED BY <2>3, <2>5, <2>6, MergedKept
<1>5. CASE lanes = {0} /\ strategy # "sequential"
  <2>. DEFINE k == Len(plan)
              src == [n \in 1..k |-> {n}]
  <2>1. \A n \in 1..k : Stream(all[n], plan, src[n])
    <3>. SUFFICES ASSUME NEW n \in 1..k PROVE Stream(all[n], plan, src[n])
      OBVIOUS
    <3>1. all[n] = Parts(plan, n) /\ src[n] = {n} /\ n \in DOMAIN plan
      BY <1>1
    <3>. QED BY <3>1, PartsStream
  <2>2. \A s \in DOMAIN plan : LaneOf(plan, strategy, <<s, 1>>) = s
    BY <1>5 DEF LaneOf
  <2>3. Flattened(plan, strategy) = Parallel(all)
    BY <1>5 DEF Flattened
  <2>4. k \in Nat \ {0} /\ DOMAIN all = 1..k
    BY <1>1
  <2>5. src \in [1..k -> SUBSET DOMAIN plan] /\ \A n \in 1..k : src[n] = {n}
    BY <1>1
  <2>. HIDE DEF k, src, all
  <2>6. Lanes(all, k, src, plan, strategy)
    <3>1. DOMAIN plan = 1..k
      BY <1>1 DEF k
    <3>. QED BY <2>1, <2>2, <2>5, <3>1 DEF Lanes
  <2>7. Merged(Parallel(all), all, k) /\ \A i \in DOMAIN Parallel(all) : Parallel(all)[i] \in Part
    BY <2>1, <2>4, ParallelMerged
  <2>. QED BY <2>3, <2>4, <2>6, <2>7, MergedKept
<1>. QED BY <1>3, <1>4, <1>5

-----------------------------------------------------------------------------
(* Ranges *)

(* Chunks that cover a range follow each other without a gap.              *)
Adjoin(chunks, k, start, end) ==
  /\ k # 0 /\ chunks[1].first = start /\ chunks[k].last = end
  /\ \A n \in 1..k : chunks[n].first <= chunks[n].last
  /\ \A n \in 1..k : n + 1 \in 1..k => chunks[n + 1].first = chunks[n].last + 1
Numbered(chunks, k) ==
  /\ DOMAIN chunks = 1..k
  /\ \A n \in 1..k : chunks[n].first \in Nat /\ chunks[n].last \in Nat
LEMMA ChunksAdjoin ==
  ASSUME NEW start \in Nat, NEW end \in Nat, start <= end, NEW k \in Nat, NEW chunks,
         Numbered(chunks, k),
         Covers(chunks, start, end)
  PROVE  Adjoin(chunks, k, start, end)
<1>. USE DEF Numbered
<1>1. \A n \in 1..k : /\ start <= chunks[n].first /\ chunks[n].first <= chunks[n].last
                      /\ chunks[n].last <= end
  BY DEF Covers
<1>2. \A m, n \in 1..k : m < n => chunks[m].last < chunks[n].first
  BY DEF Covers
<1>3. ASSUME NEW p \in start..end
      PROVE  \E n \in 1..k : chunks[n].first <= p /\ p <= chunks[n].last
  <2>1. PICK n \in 1..k : p \in chunks[n].first..chunks[n].last
    BY DEF Covers
  <2>. QED BY <2>1
<1>4. k # 0 /\ chunks[1].first = start
  <2>1. PICK n \in 1..k : chunks[n].first <= start /\ start <= chunks[n].last
    BY <1>3
  <2>2. 1 \in 1..k
    OBVIOUS
  <2>3. chunks[1].first \in Nat /\ chunks[1].last \in Nat /\ chunks[n].first \in Nat
    BY <2>2
  <2>. QED BY <1>1, <1>2, <2>1, <2>2, <2>3
<1>5. chunks[k].last = end
  <2>1. PICK n \in 1..k : chunks[n].first <= end /\ end <= chunks[n].last
    BY <1>3
  <2>2. k \in 1..k
    BY <1>4
  <2>3. chunks[k].first \in Nat /\ chunks[k].last \in Nat /\ chunks[n].last \in Nat
    BY <2>2
  <2>. QED BY <1>1, <1>2, <2>1, <2>2, <2>3
<1>6. ASSUME NEW n \in 1..k, n + 1 \in 1..k PROVE chunks[n + 1].first = chunks[n].last + 1
  <2>. DEFINE p == chunks[n].last + 1
  <2>1. /\ chunks[n].first \in Nat /\ chunks[n].last \in Nat
        /\ chunks[n + 1].first \in Nat /\ chunks[n + 1].last \in Nat
    BY <1>6
  <2>2. chunks[n].last < chunks[n + 1].first
    BY <1>2, <1>6
  <2>3. p \in start..end /\ p <= chunks[n + 1].first
    BY <1>1, <1>6, <2>1, <2>2
  <2>4. PICK m \in 1..k : chunks[m].first <= p /\ p <= chunks[m].last
    BY <1>3, <2>3
  <2>5. chunks[m].first \in Nat /\ chunks[m].last \in Nat
    OBVIOUS
  <2>6. ~(m < n)
    <3>1. CASE m < n
      <4>1. chunks[m].last < chunks[n].first
        BY <1>2, <3>1
      <4>2. chunks[n].first <= chunks[n].last
        BY <1>1
      <4>. QED BY <2>1, <2>4, <2>5, <4>1, <4>2
    <3>. QED BY <3>1
  <2>7. m # n
    BY <2>1, <2>4
  <2>8. ~(n + 1 < m)
    <3>1. CASE n + 1 < m
      <4>1. chunks[n + 1].last < chunks[m].first
        BY <1>2, <1>6, <3>1
      <4>2. chunks[n + 1].first <= chunks[n + 1].last
        BY <1>1, <1>6
      <4>. QED BY <2>1, <2>3, <2>4, <2>5, <4>1, <4>2
    <3>. QED BY <3>1
  <2>9. m = n + 1
    BY <2>6, <2>7, <2>8
  <2>. QED BY <2>1, <2>3, <2>4, <2>9
<1>. QED BY <1>1, <1>4, <1>5, <1>6 DEF Adjoin

(* so that, one after the other, they are the range.                       *)
LEMMA CoversFlat ==
  ASSUME NEW start \in Nat, NEW end \in Nat, start <= end, NEW k \in Nat, NEW chunks,
         Numbered(chunks, k),
         Covers(chunks, start, end)
  PROVE  Covered(chunks) = [i \in 1..(end - start + 1) |-> start + i - 1]
<1>. DEFINE ss == [n \in DOMAIN chunks |->
                     [i \in 1..(chunks[n].last - chunks[n].first + 1) |-> chunks[n].first + i - 1]]
<1>1. /\ k # 0 /\ chunks[1].first = start /\ chunks[k].last = end
      /\ \A n \in 1..k : chunks[n].first <= chunks[n].last
      /\ \A n \in 1..k : n + 1 \in 1..k => chunks[n + 1].first = chunks[n].last + 1
  BY ChunksAdjoin DEF Adjoin
<1>. USE DEF Numbered
<1>2. ASSUME NEW n \in 1..k
      PROVE  /\ ss[n] \in Seq(Nat) /\ Len(ss[n]) = chunks[n].last - chunks[n].first + 1
             /\ \A i \in 1..Len(ss[n]) : ss[n][i] = chunks[n].first + i - 1
  <2>. DEFINE l == chunks[n].last - chunks[n].first + 1
  <2>1. /\ l \in Nat /\ chunks[n].first \in Nat
    BY <1>1
  <2>2. ss[n] = [i \in 1..l |-> chunks[n].first + i - 1]
    OBVIOUS
  <2>3. \A i \in 1..l : chunks[n].first + i - 1 \in Nat
    BY <2>1
  <2>. HIDE DEF l, ss
  <2>4. ss[n] \in Seq(Nat) /\ Len(ss[n]) = l /\ \A i \in 1..l : ss[n][i] = chunks[n].first + i - 1
    BY <2>1, <2>2, <2>3
  <2>. QED BY <2>4 DEF l
<1>3. ss \in Seq(Seq(Nat)) /\ Len(ss) = k
  BY <1>2
<1>. DEFINE c == FlattenSeq(ss)
<1>4. c \in Seq(Nat)
  BY <1>3, FlattenJoins
<1>5. PICK off : Joined(ss, off, c)
  BY <1>3, FlattenJoins
<1>. HIDE DEF ss, c
<1>6. /\ off[1] = 0 /\ off[k + 1] = Len(c) /\ off \in [1..(k + 1) -> Nat]
      /\ \A n \in 1..k : off[n + 1] = off[n] + Len(ss[n])
  BY <1>3, <1>5 DEF Joined
<1>. DEFINE T == {n \in Nat : n \in 1..k => off[n] = chunks[n].first - start}
<1>7. 0 \in T
  OBVIOUS
<1>8. ASSUME NEW n \in Nat, n \in T PROVE n + 1 \in T
  <2>. SUFFICES ASSUME n + 1 \in 1..k PROVE off[n + 1] = chunks[n + 1].first - start
    OBVIOUS
  <2>1. CASE n = 0
    BY <1>1, <1>6, <2>1
  <2>2. CASE n # 0
    <3>1. n \in 1..k
      BY <2>2
    <3>2. /\ off[n] = chunks[n].first - start
          /\ off[n + 1] = off[n] + (chunks[n].last - chunks[n].first + 1)
          /\ chunks[n + 1].first = chunks[n].last + 1
      BY <1>1, <1>2, <1>6, <1>8, <3>1
    <3>3. chunks[n].first \in Nat /\ chunks[n].last \in Nat
      BY <3>1
    <3>. QED BY <3>2, <3>3
  <2>. QED BY <2>1, <2>2
<1>9. \A n \in Nat : n \in T
  <2>. HIDE DEF T
  <2>. QED BY <1>7, <1>8, NatInduct
<1>10. \A n \in 1..k : off[n] = chunks[n].first - start
  BY <1>9
<1>11. Len(c) = end - start + 1
  <2>1. k \in 1..k /\ chunks[k].first \in Nat /\ chunks[k].last \in Nat
    BY <1>1
  <2>2. off[k + 1] = off[k] + (chunks[k].last - chunks[k].first + 1)
    BY <1>2, <1>6, <2>1
  <2>3. off[k] = chunks[k].first - start
    BY <1>10, <2>1
  <2>. QED BY <1>1, <1>6, <2>1, <2>2, <2>3
<1>12. ASSUME NEW p \in 1..Len(c) PROVE c[p] = start + p - 1
  <2>1. PICK n \in 1..k : \E i \in 1..Len(ss[n]) : p = off[n] + i
    BY <1>3, <1>5 DEF Joined
  <2>2. PICK i \in 1..Len(ss[n]) : p = off[n] + i
    BY <2>1
  <2>3. c[off[n] + i] = ss[n][i]
    BY <1>3, <1>5 DEF Joined
  <2>4. ss[n][i] = chunks[n].first + i - 1 /\ off[n] = chunks[n].first - start
    BY <1>2, <1>10
  <2>5. chunks[n].first \in Nat /\ i \in Int
    OBVIOUS
  <2>. QED BY <2>2, <2>3, <2>4, <2>5
<1>13. c = [i \in 1..(end - start + 1) |-> start + i - 1]
  <2>1. DOMAIN c = 1..(end - start + 1) /\ c = [i \in DOMAIN c |-> c[i]]
    BY <1>4, <1>11
  <2>. QED BY <1>11, <1>12, <2>1
<1>. QED BY <1>13 DEF Covered, c, ss

-----------------------------------------------------------------------------
(* What is stored keeps what was given *)

LEMMA ChunksNumbered ==
  ASSUME NEW start \in Nat, NEW end \in Nat, start <= end, NEW size \in Nat \ {0}
  PROVE  \E k \in Nat : Numbered(Chunks(start, end, size), k)
<1>. DEFINE k == (end - start) \div size + 1
            chunks == Chunks(start, end, size)
<1>1. (end - start) \div size \in Nat
  BY DivBounds
<1>2. DOMAIN chunks = 1..k
  BY DEF Chunks
<1>3. ASSUME NEW n \in 1..k
      PROVE  chunks[n].first \in Nat /\ chunks[n].last \in Nat
  <2>. DEFINE first == start + (n - 1) * size
  <2>1. n - 1 \in Nat
    BY <1>1
  <2>2. (n - 1) * size \in Nat
    BY <2>1
  <2>3. chunks[n] = [first |-> first, last |-> Min({first + size - 1, end})]
    BY DEF Chunks
  <2>4. first \in Nat /\ first + size - 1 \in Nat
    BY <2>2
  <2>. HIDE DEF first, chunks
  <2>5. Min({first + size - 1, end}) \in Nat
    BY <2>4, MinOfTwo
  <2>. QED BY <2>3, <2>4, <2>5
<1>. HIDE DEF k, chunks
<1>4. k \in Nat
  BY <1>1 DEF k
<1>. QED BY <1>2, <1>3, <1>4 DEF Numbered, chunks

(* The chunks of a PDF, one after the other, are its range of pages.       *)
LEMMA PagesKept ==
  ASSUME NEW start \in Nat, NEW end \in Nat, start <= end, NEW size \in Nat \ {0}
  PROVE  Covered(Chunks(start, end, size)) = [i \in 1..(end - start + 1) |-> start + i - 1]
<1>1. PICK k \in Nat : Numbered(Chunks(start, end, size), k)
  BY ChunksNumbered
<1>2. Covers(Chunks(start, end, size), start, end)
  BY PagesCovered
<1>. QED BY <1>1, <1>2, CoversFlat

(* The batches of a playlist, one after the other, are its items.          *)
LEMMA ItemsKept ==
  ASSUME NEW count \in Nat \ {0}, NEW size \in Nat \ {0}
  PROVE  Covered(Batches(count, size)) = [i \in 1..count |-> i]
<1>1. Covered(Chunks(1, count, size)) = [i \in 1..(count - 1 + 1) |-> 1 + i - 1]
  BY PagesKept
<1>2. [i \in 1..(count - 1 + 1) |-> 1 + i - 1] = [i \in 1..count |-> i]
  OBVIOUS
<1>. QED BY <1>1, <1>2, BatchesAreChunks

LEMMA NextParts ==
  ASSUME PartsKept, [FormNext]_form
  PROVE  PartsKept'
<1>1. CASE form'.about \notin {"series", "pages", "items"}
  BY <1>1 DEF PartsKept
<1>2. CASE SaveAgain \/ (\E f \in Picks : PickSchedule(f)) \/ (\E e \in Cron : RawSchedule(e))
  <2>1. form'.about = "schedule"
    BY <1>2 DEF SaveAgain, PickSchedule, RawSchedule, Scheduled
  <2>. QED BY <1>1, <2>1
<1>3. ASSUME NEW plan \in Sources, NEW strategy \in {"sequential", "parallel"}, ComposeSeries(plan, strategy)
      PROVE  PartsKept'
  <2>1. PlanKept(plan, strategy, Flattened(plan, strategy))
    BY FormsAssumption, FlattenedKept
  <2>2. /\ form'.about = "series" /\ form'.given.plan = plan /\ form'.given.strategy = strategy
        /\ form'.stored = Flattened(plan, strategy)
    BY <1>3 DEF ComposeSeries
  <2>. QED BY <2>1, <2>2 DEF PartsKept
<1>4. ASSUME NEW start \in 1..Pages, NEW end \in 1..Pages, NEW size \in 1..(Pages + 1), start <= end,
             ImportPages(start, end, size)
      PROVE  PartsKept'
  <2>1. start \in Nat /\ end \in Nat /\ size \in Nat \ {0}
    BY FormsAssumption
  <2>2. Covered(Chunks(start, end, size)) = [i \in 1..(end - start + 1) |-> start + i - 1]
    BY <1>4, <2>1, PagesKept
  <2>3. /\ form'.about = "pages" /\ form'.given = [i \in 1..(end - start + 1) |-> start + i - 1]
        /\ form'.stored = Chunks(start, end, size)
    BY <1>4 DEF ImportPages
  <2>. QED BY <2>2, <2>3 DEF PartsKept
<1>5. ASSUME NEW count \in 1..Pages, NEW size \in 1..(Pages + 1), ImportItems(count, size)
      PROVE  PartsKept'
  <2>1. count \in Nat \ {0} /\ size \in Nat \ {0}
    BY FormsAssumption
  <2>2. Covered(Batches(count, size)) = [i \in 1..count |-> i]
    BY <2>1, ItemsKept
  <2>3. /\ form'.about = "items" /\ form'.given = [i \in 1..count |-> i]
        /\ form'.stored = Batches(count, size)
    BY <1>5 DEF ImportItems
  <2>. QED BY <2>2, <2>3 DEF PartsKept
<1>6. CASE UNCHANGED form
  BY <1>6 DEF PartsKept
<1>. QED BY <1>2, <1>3, <1>4, <1>5, <1>6 DEF FormNext

(* A series sends every entry of its plan once, a lane's in their order    *)
(* and without a gap, whichever sources it joins and in how many lanes;    *)
(* every page of an imported range and item of a playlist is in one chunk, *)
(* in order.                                                               *)
THEOREM PartsAlwaysKept == FormSpec => []PartsKept
<1>1. form = Blank => PartsKept
  BY DEF Blank, PartsKept
<1>. QED BY <1>1, NextParts, PTL DEF FormSpec
=============================================================================
