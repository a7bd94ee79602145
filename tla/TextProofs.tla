----------------------------- MODULE TextProofs -----------------------------
(***************************************************************************)
(* Theorems about the readers of text: the path of a URI (RequestURI), the *)
(* configuration file (ConfigFile), lists of ports and masks               *)
(* (TextParsers), for texts of any length and every value of their         *)
(* constants.                                                              *)
(*                                                                         *)
(* The first two are loops over the characters, written as recursive       *)
(* functions.  That such a function exists, and what its values are, is    *)
(* shown by going from each index to the next (UpTo).  The last two take a *)
(* step per round of their loops, and are proved from invariants of these. *)
(***************************************************************************)
EXTENDS RequestURI, ConfigFile, TextParsers, FiniteSetTheorems, SequenceTheorems,
        WellFoundedInduction, TLAPS

-----------------------------------------------------------------------------
(* From one index to the next.                                              *)

\* A set of natural numbers has a least one: the sets of the numbers below its
\* members are finite, and one of them has none of the others in it.
LEMMA LeastNatural ==
  ASSUME NEW S, S \subseteq Nat, S # {}
  PROVE  \E x \in S : \A y \in S : x <= y
<1> DEFINE Below(x) == 0 .. x - 1
           Segments == {Below(x) : x \in S}
<1>1. Segments \subseteq FiniteSubsetsOf(Nat) /\ Segments # {}
  <2> SUFFICES ASSUME NEW x \in S PROVE Below(x) \in FiniteSubsetsOf(Nat)
    OBVIOUS
  <2>1. x \in Nat /\ IsFiniteSet(Below(x))
    BY FS_Interval
  <2> QED BY <2>1 DEF FiniteSubsetsOf
<1> HIDE DEF Segments
<1>2. \E t \in Segments : \A u \in Segments :
        ~(<<u, t>> \in StrictSubsetOrdering(Nat))
  BY <1>1, FS_StrictSubsetOrderingWellFounded, WFMin
<1> USE DEF Segments
<1>3. PICK x \in S : \A u \in Segments :
        ~(<<u, Below(x)>> \in StrictSubsetOrdering(Nat))
  BY <1>2
<1>4. ASSUME NEW y \in S, ~(x <= y) PROVE FALSE
  <2>1. x \in Nat /\ y \in Nat /\ y < x
    BY <1>4
  <2>2. Below(y) \subseteq Below(x) /\ y \in Below(x) /\ y \notin Below(y)
    BY <2>1
  <2>3. <<Below(y), Below(x)>> \in StrictSubsetOrdering(Nat)
    BY <2>1, <2>2 DEF StrictSubsetOrdering
  <2> QED BY <1>3, <2>3
<1> QED BY <1>4

\* What holds at a, and at each number after one where it holds, holds up to b.
LEMMA UpTo ==
  ASSUME NEW a \in Nat, NEW b \in Nat, NEW S,
         a \in S, \A n \in a .. b - 1 : n \in S => n + 1 \in S
  PROVE  \A n \in a .. b : n \in S
<1> SUFFICES ASSUME NEW k \in a .. b, k \notin S PROVE FALSE
  OBVIOUS
<1> DEFINE Bad == {n \in a .. b : n \notin S}
<1>1. Bad \subseteq Nat /\ Bad # {}
  OBVIOUS
<1> HIDE DEF Bad
<1>2. PICK n \in Bad : \A y \in Bad : n <= y
  BY <1>1, LeastNatural
<1> USE DEF Bad
<1>3. n \in a .. b /\ n \notin S /\ n # a /\ n \in Nat
  BY <1>2
<1>4. n - 1 \in a .. b - 1 /\ n - 1 \in a .. b /\ (n - 1) + 1 = n /\ ~(n <= n - 1)
  BY <1>3
<1>5. n - 1 \notin Bad
  BY <1>2, <1>4
<1>6. n - 1 \in S
  BY <1>4, <1>5
<1> QED BY <1>3, <1>4, <1>6

Steps(F, D, N) == F \in [1 .. N -> [D -> D]]
Given(at, first, F, D, N) ==
  /\ at \in [0 .. N -> D] /\ at[0] = first
  /\ \A i \in 1 .. N : at[i] = F[i][at[i - 1]]

\* A function given by its first value and by what each value is after the one
\* before exists, and its values stay where they belong.
LEMMA Recursion ==
  ASSUME NEW D, NEW N \in Nat, NEW first \in D, NEW F, Steps(F, D, N)
  PROVE  \E at : Given(at, first, F, D, N)
<1> USE DEF Steps
<1> DEFINE Is(at, n) == /\ at \in [0 .. n -> D] /\ at[0] = first
                        /\ \A i \in 1 .. n : at[i] = F[i][at[i - 1]]
           Defined == {n \in 0 .. N : \E at : Is(at, n)}
<1>1. 0 \in Defined
  <2> DEFINE at == [i \in 0 .. 0 |-> first]
  <2>1. Is(at, 0)
    OBVIOUS
  <2> HIDE DEF at, Is
  <2> QED BY <2>1
<1>2. ASSUME NEW n \in 0 .. N - 1, n \in Defined PROVE n + 1 \in Defined
  <2>1. PICK at : Is(at, n)
    BY <1>2
  <2> DEFINE next == [i \in 0 .. n + 1 |->
                        IF i = n + 1 THEN F[n + 1][at[n]] ELSE at[i]]
  <2>2. at[n] \in D /\ n + 1 \in 1 .. N /\ n \in Nat
    BY <2>1
  <2>3. F[n + 1] \in [D -> D]
    BY <2>2
  <2>4. F[n + 1][at[n]] \in D
    BY <2>2, <2>3
  <2>5. next \in [0 .. n + 1 -> D]
    <3>1. ASSUME NEW i \in 0 .. n + 1, i # n + 1 PROVE at[i] \in D
      <4>1. i \in 0 .. n
        BY <2>2, <3>1
      <4> QED BY <2>1, <4>1
    <3> QED BY <2>4, <3>1
  <2>6. next[0] = first
    <3>1. 0 # n + 1 /\ 0 \in 0 .. n + 1
      BY <2>2
    <3> QED BY <2>1, <3>1
  <2>7. ASSUME NEW i \in 1 .. n + 1 PROVE next[i] = F[i][next[i - 1]]
    <3>1. i - 1 \in 0 .. n + 1 /\ i - 1 # n + 1 /\ i \in 0 .. n + 1
      BY <2>2
    <3>2. next[i - 1] = at[i - 1]
      BY <3>1
    <3>3. CASE i = n + 1
      <4>1. i - 1 = n
        BY <2>2, <3>3
      <4> QED BY <3>1, <3>2, <3>3, <4>1
    <3>4. CASE i # n + 1
      <4>1. i \in 1 .. n
        BY <2>2, <3>4
      <4>2. at[i] = F[i][at[i - 1]]
        BY <2>1, <4>1
      <4> QED BY <3>1, <3>2, <3>4, <4>2
    <3> QED BY <3>3, <3>4
  <2> HIDE DEF next
  <2>8. Is(next, n + 1)
    BY <2>5, <2>6, <2>7
  <2> QED BY <2>2, <2>8
<1> HIDE DEF Defined
<1>3. \A n \in 0 .. N : n \in Defined
  BY <1>1, <1>2, UpTo
<1>4. PICK at : Is(at, N)
  <2>1. N \in Defined
    BY <1>3
  <2> QED BY <2>1 DEF Defined
<1> QED BY <1>4 DEF Given

Goes(f, F, N) == \A i \in 1 .. N : f[i] = F[i][f[i - 1]]

\* Two functions that are given alike are alike.
LEMMA SameRecursion ==
  ASSUME NEW N \in Nat, NEW F, NEW f, NEW g, f[0] = g[0],
         Goes(f, F, N), Goes(g, F, N)
  PROVE  \A i \in 0 .. N : f[i] = g[i]
<1> DEFINE Same == {i \in 0 .. N : f[i] = g[i]}
<1>1. 0 \in Same
  OBVIOUS
<1>2. ASSUME NEW n \in 0 .. N - 1, n \in Same PROVE n + 1 \in Same
  <2>1. n + 1 \in 1 .. N /\ (n + 1) - 1 = n /\ n + 1 \in 0 .. N
    OBVIOUS
  <2>2. f[n + 1] = F[n + 1][f[n]] /\ g[n + 1] = F[n + 1][g[n]]
    BY <2>1 DEF Goes
  <2> QED BY <1>2, <2>1, <2>2
<1> HIDE DEF Same
<1>3. \A i \in 0 .. N : i \in Same
  BY <1>1, <1>2, UpTo
<1> QED BY <1>3 DEF Same

-----------------------------------------------------------------------------
(* The recursive functions of RequestURI.                                   *)

\* The loop of HandleURI: what it is before and after each of its rounds
\* (request.cpp:213-299).
LEMMA LoopIs ==
  ASSUME NEW text, Len(text) \in Nat
  PROVE  /\ Loop(text)[1] = StartOfPath
         /\ \A i \in 1 .. Len(text) :
              Loop(text)[i + 1] = Round(Loop(text)[i], text, i + 1)
<1> DEFINE N == Len(text) + 1
           Value(at, i) ==
             IF i = 1 THEN StartOfPath ELSE Round(at[i - 1], text, i)
           Is(at, n) == at = [i \in 1 .. n |-> Value(at, i)]
           Defined == {n \in 1 .. N : \E at : Is(at, n)}
<1>0. N \in Nat /\ 1 \in 1 .. N
  OBVIOUS
<1> HIDE DEF N
<1>1. 1 \in Defined
  <2> DEFINE at == [i \in 1 .. 1 |-> StartOfPath]
  <2>1. Is(at, 1)
    OBVIOUS
  <2> QED BY <2>1, <1>0
<1>2. ASSUME NEW n \in 1 .. N - 1, n \in Defined PROVE n + 1 \in Defined
  <2> n \in Nat /\ n # 0
    BY <1>0
  <2>1. PICK at : Is(at, n)
    BY <1>2
  <2> DEFINE next == [i \in 1 .. n + 1 |->
                        IF i = n + 1 THEN Round(at[n], text, n + 1) ELSE at[i]]
  <2>2. ASSUME NEW i \in 1 .. n + 1 PROVE next[i] = Value(next, i)
    <3> HIDE DEF Is
    <3>1. CASE i = n + 1
      <4>1. n + 1 # 1 /\ (n + 1) - 1 = n /\ n # n + 1 /\ n \in 1 .. n + 1
        OBVIOUS
      <4>2. next[n] = at[n]
        BY <4>1
      <4> QED BY <3>1, <4>1, <4>2
    <3>2. CASE i # n + 1 /\ i # 1
      <4>1. i \in 1 .. n /\ i - 1 # n + 1 /\ i - 1 \in 1 .. n + 1
        BY <3>2
      <4>2. at[i] = Value(at, i)
        BY <2>1, <4>1 DEF Is
      <4>3. next[i] = at[i] /\ next[i - 1] = at[i - 1]
        BY <3>2, <4>1
      <4> QED BY <4>2, <4>3
    <3>3. CASE i # n + 1 /\ i = 1
      <4>1. i \in 1 .. n
        BY <3>3
      <4>2. at[i] = Value(at, i)
        BY <2>1, <4>1 DEF Is
      <4> QED BY <4>2, <3>3
    <3> QED BY <3>1, <3>2, <3>3
  <2>3. next = [i \in 1 .. n + 1 |-> next[i]]
    OBVIOUS
  <2> HIDE DEF next
  <2>4. Is(next, n + 1)
    BY <2>2, <2>3
  <2>5. n + 1 \in 1 .. N
    BY <1>0
  <2> QED BY <2>4, <2>5
<1> HIDE DEF Defined
<1>3. \A n \in 1 .. N : n \in Defined
  BY <1>0, <1>1, <1>2, UpTo
<1>4. \E at : Is(at, N)
  <2>1. N \in Defined
    BY <1>0, <1>3
  <2> QED BY <2>1 DEF Defined
<1> HIDE DEF Is
<1>5. Loop(text) = CHOOSE at : Is(at, N)
  BY DEF Loop, Is, N
<1>6. Is(Loop(text), N)
  BY <1>4, <1>5
<1>7. ASSUME NEW i \in 1 .. N PROVE Loop(text)[i] = Value(Loop(text), i)
  BY <1>6 DEF Is
<1>8. Loop(text)[1] = StartOfPath
  BY <1>7, <1>0
<1>9. ASSUME NEW i \in 1 .. Len(text)
      PROVE  Loop(text)[i + 1] = Round(Loop(text)[i], text, i + 1)
  <2>1. i + 1 \in 1 .. N /\ i + 1 # 1 /\ (i + 1) - 1 = i
    BY DEF N
  <2>2. Loop(text)[i + 1] = Value(Loop(text), i + 1)
    BY <1>7, <2>1
  <2> QED BY <2>1, <2>2
<1> QED BY <1>8, <1>9

\* The walk along a path, from each character to the next.
LEMMA NamesAre ==
  ASSUME NEW path, Len(path) \in Nat
  PROVE  /\ NamesAlong(path)[0] = <<>>
         /\ \A n \in 1 .. Len(path) :
              NamesAlong(path)[n] =
                IF path[n] = Slash
                THEN Follow(NamesAlong(path)[n - 1], NameAfter(path, n))
                ELSE NamesAlong(path)[n - 1]
<1> DEFINE N == Len(path)
           Next(names, i) ==
             IF path[i] = Slash THEN Follow(names, NameAfter(path, i)) ELSE names
           Value(at, i) == IF i = 0 THEN <<>> ELSE Next(at[i - 1], i)
           Is(at, n) == at = [i \in 0 .. n |-> Value(at, i)]
           Defined == {n \in 0 .. N : \E at : Is(at, n)}
<1>0. N \in Nat /\ 0 \in 0 .. N
  OBVIOUS
<1> HIDE DEF N
<1>1. 0 \in Defined
  <2> DEFINE at == [i \in 0 .. 0 |-> <<>>]
  <2>1. Is(at, 0)
    OBVIOUS
  <2> QED BY <2>1, <1>0
<1> HIDE DEF Next
<1>2. ASSUME NEW n \in 0 .. N - 1, n \in Defined PROVE n + 1 \in Defined
  <2> n \in Nat
    BY <1>0
  <2>1. PICK at : Is(at, n)
    BY <1>2
  <2> DEFINE next == [i \in 0 .. n + 1 |->
                        IF i = n + 1 THEN Next(at[n], n + 1) ELSE at[i]]
  <2>2. ASSUME NEW i \in 0 .. n + 1 PROVE next[i] = Value(next, i)
    <3> HIDE DEF Is
    <3>1. CASE i = n + 1
      <4>1. n + 1 # 0 /\ (n + 1) - 1 = n /\ n # n + 1 /\ n \in 0 .. n + 1
        OBVIOUS
      <4>2. next[n] = at[n]
        BY <4>1
      <4> QED BY <3>1, <4>1, <4>2
    <3>2. CASE i # n + 1 /\ i # 0
      <4>1. i \in 0 .. n /\ i - 1 # n + 1 /\ i - 1 \in 0 .. n + 1
        BY <3>2
      <4>2. at[i] = Value(at, i)
        BY <2>1, <4>1 DEF Is
      <4>3. next[i] = at[i] /\ next[i - 1] = at[i - 1]
        BY <3>2, <4>1
      <4> QED BY <4>2, <4>3
    <3>3. CASE i # n + 1 /\ i = 0
      <4>1. i \in 0 .. n
        BY <3>3
      <4>2. at[i] = Value(at, i)
        BY <2>1, <4>1 DEF Is
      <4> QED BY <4>2, <3>3
    <3> QED BY <3>1, <3>2, <3>3
  <2>3. next = [i \in 0 .. n + 1 |-> next[i]]
    OBVIOUS
  <2> HIDE DEF next
  <2>4. Is(next, n + 1)
    BY <2>2, <2>3
  <2>5. n + 1 \in 0 .. N
    BY <1>0
  <2> QED BY <2>4, <2>5
<1> HIDE DEF Defined
<1>3. \A n \in 0 .. N : n \in Defined
  BY <1>0, <1>1, <1>2, UpTo
<1>4. \E at : Is(at, N)
  <2>1. N \in Defined
    BY <1>0, <1>3
  <2> QED BY <2>1 DEF Defined
<1> HIDE DEF Is
<1>5. NamesAlong(path) = CHOOSE at : Is(at, N)
  BY DEF NamesAlong, Is, N, Next
<1>6. Is(NamesAlong(path), N)
  BY <1>4, <1>5
<1>7. ASSUME NEW i \in 0 .. N
      PROVE  NamesAlong(path)[i] = Value(NamesAlong(path), i)
  BY <1>6 DEF Is
<1>8. NamesAlong(path)[0] = <<>>
  BY <1>7, <1>0
<1>9. ASSUME NEW n \in 1 .. Len(path)
      PROVE  NamesAlong(path)[n] = Next(NamesAlong(path)[n - 1], n)
  <2>1. n \in 0 .. N /\ n # 0
    BY DEF N
  <2>2. NamesAlong(path)[n] = Value(NamesAlong(path), n)
    BY <1>7, <2>1
  <2> QED BY <2>1, <2>2
<1> QED BY <1>8, <1>9 DEF Next

-----------------------------------------------------------------------------
(* Where a name ends.                                                       *)

\* A name that is followed by a slash, or by nothing, is the one NameAfter
\* finds (the reference's walk).
LEMMA NameIs ==
  ASSUME NEW path \in Seq(Int), NEW n \in 1 .. Len(path),
         NEW e \in n + 1 .. Len(path) + 1,
         e = Len(path) + 1 \/ path[e] = Slash,
         \A x \in n + 1 .. e - 1 : path[x] # Slash
  PROVE  NameAfter(path, n) = SubSeq(path, n + 1, e - 1)
<1> DEFINE ends == {x \in n + 1 .. Len(path) + 1 :
                      x = Len(path) + 1 \/ x \in Slashes(path)}
           first == CHOOSE x \in ends : \A y \in ends : x <= y
<1>0. Len(path) \in Nat /\ DOMAIN path = 1 .. Len(path)
  BY LenProperties
<1>1. e \in ends
  BY <1>0 DEF Slashes
<1>2. ASSUME NEW y \in ends PROVE e <= y
  <2>1. y \notin n + 1 .. e - 1
    BY <1>0 DEF Slashes
  <2> QED BY <1>0, <2>1
<1>3. first = e
  <2>1. ends \subseteq Int
    BY <1>0
  <2> HIDE DEF ends
  <2>2. first \in ends /\ \A y \in ends : first <= y
    BY <1>1, <1>2
  <2>3. e <= first /\ first <= e /\ first \in Int /\ e \in Int
    BY <1>1, <1>2, <2>1, <2>2
  <2> QED BY <2>3
<1> QED BY <1>3 DEF NameAfter

\* Every character has a name after it, if an empty one.
LEMMA NameEnds ==
  ASSUME NEW path \in Seq(Int), NEW n \in 1 .. Len(path)
  PROVE  \E e \in n + 1 .. Len(path) + 1 :
           /\ e = Len(path) + 1 \/ path[e] = Slash
           /\ \A x \in n + 1 .. e - 1 : path[x] # Slash
<1> DEFINE S == {x \in n + 1 .. Len(path) + 1 :
                   x = Len(path) + 1 \/ path[x] = Slash}
<1>0. Len(path) \in Nat
  BY LenProperties
<1>1. S \subseteq Nat /\ Len(path) + 1 \in S
  BY <1>0
<1>2. PICK e \in S : \A y \in S : e <= y
  <2> HIDE DEF S
  <2> QED BY <1>1, LeastNatural
<1>3. ASSUME NEW x \in n + 1 .. e - 1 PROVE path[x] # Slash
  <2>1. x \in n + 1 .. Len(path) + 1 /\ ~(e <= x)
    BY <1>0, <1>2
  <2> QED BY <1>2, <2>1
<1> QED BY <1>2, <1>3

\* A name is the same in two paths that agree as far as a slash after it.
LEMMA SameName ==
  ASSUME NEW p \in Seq(Int), NEW q \in Seq(Int), NEW e \in 1 .. Len(p),
         e <= Len(q), p[e] = Slash, \A i \in 1 .. e : p[i] = q[i],
         NEW n \in 1 .. e - 1
  PROVE  NameAfter(p, n) = NameAfter(q, n)
<1>0. Len(p) \in Nat /\ Len(q) \in Nat /\ n \in 1 .. Len(p) /\ n \in 1 .. Len(q)
  BY LenProperties
<1>1. PICK x \in n + 1 .. Len(p) + 1 :
        /\ x = Len(p) + 1 \/ p[x] = Slash
        /\ \A y \in n + 1 .. x - 1 : p[y] # Slash
  BY <1>0, NameEnds
<1>2. x <= e
  <2>1. e \in n + 1 .. e
    BY <1>0
  <2>2. ~(e \in n + 1 .. x - 1)
    BY <1>1
  <2> QED BY <1>0, <2>2
<1>3. /\ x \in n + 1 .. Len(p) + 1 /\ x \in n + 1 .. Len(q) + 1
      /\ p[x] = Slash /\ q[x] = Slash
  <2>1. x \in 1 .. e /\ x # Len(p) + 1 /\ x \in n + 1 .. Len(q) + 1
    BY <1>0, <1>2
  <2> QED BY <1>1, <2>1
<1>4. \A y \in n + 1 .. x - 1 : q[y] # Slash
  <2> SUFFICES ASSUME NEW y \in n + 1 .. x - 1 PROVE q[y] # Slash
    OBVIOUS
  <2>1. y \in 1 .. e
    BY <1>0, <1>2
  <2> QED BY <1>1, <2>1
<1>5. NameAfter(p, n) = SubSeq(p, n + 1, x - 1)
  BY <1>0, <1>1, NameIs
<1>6. NameAfter(q, n) = SubSeq(q, n + 1, x - 1)
  BY <1>0, <1>3, <1>4, NameIs
<1>7. \A y \in n + 1 .. x - 1 : p[y] = q[y] /\ p[y] \in Int /\ q[y] \in Int
  <2> SUFFICES ASSUME NEW y \in n + 1 .. x - 1
               PROVE  p[y] = q[y] /\ p[y] \in Int /\ q[y] \in Int
    OBVIOUS
  <2>0. x \in Nat /\ n \in Nat /\ e \in Nat /\ y \in Nat /\ e <= Len(p)
    BY <1>0
  <2>1. n + 1 <= y /\ y <= x - 1
    BY <1>0
  <2>2. y <= e /\ 1 <= y
    BY ONLY <2>0, <2>1, <1>2
  <2>3. y \in 1 .. e /\ y \in 1 .. Len(p) /\ y \in 1 .. Len(q)
    BY <2>0, <2>2, <1>0
  <2> QED BY <2>3, ElementOfSeq
<1>8. SubSeq(p, n + 1, x - 1) = SubSeq(q, n + 1, x - 1)
  <2> DEFINE u == SubSeq(p, n + 1, x - 1)
             v == SubSeq(q, n + 1, x - 1)
             l == IF n + 1 <= x - 1 THEN (x - 1) - (n + 1) + 1 ELSE 0
  <2>0. n + 1 \in Int /\ x - 1 \in Int
    BY <1>0
  <2>1. /\ u \in Seq(Int) /\ Len(u) = l
        /\ \A i \in 1 .. (x - 1) - (n + 1) + 1 : u[i] = p[(n + 1) + i - 1]
    BY <2>0, <1>7, SubSeqProperties
  <2>2. /\ v \in Seq(Int) /\ Len(v) = l
        /\ \A i \in 1 .. (x - 1) - (n + 1) + 1 : v[i] = q[(n + 1) + i - 1]
    BY <2>0, <1>7, SubSeqProperties
  <2>3. ASSUME NEW i \in 1 .. Len(u) PROVE u[i] = v[i]
    <3>1. l \in Nat /\ i \in 1 .. l
      BY <2>1, <2>0
    <3>2. i \in 1 .. (x - 1) - (n + 1) + 1
      BY <3>1, <2>0
    <3>3. (n + 1) + i - 1 \in n + 1 .. x - 1
      BY <3>2, <1>0
    <3> HIDE DEF u, v
    <3> QED BY <2>1, <2>2, <3>2, <3>3, <1>7
  <2> HIDE DEF u, v, l
  <2>4. u = v
    BY <2>1, <2>2, <2>3, SeqEqual
  <2> QED BY <2>4 DEF u, v
<1> QED BY <1>5, <1>6, <1>8

-----------------------------------------------------------------------------
(* The walk, name by name.                                                  *)

EndsInSlash(path) ==
  path \in Seq(Int) /\ Len(path) \in Nat \ {0} /\ path[Len(path)] = Slash
SlashFree(part) ==
  part \in Seq(Int) /\ \A i \in 1 .. Len(part) : part[i] # Slash

\* Nothing follows a slash at the end.
LEMMA NoNameAtEnd ==
  ASSUME NEW p, EndsInSlash(p)
  PROVE  NameAfter(p, Len(p)) = <<>>
<1>1. p \in Seq(Int) /\ Len(p) \in Nat /\ Len(p) # 0
  BY DEF EndsInSlash
<1>2. NameAfter(p, Len(p)) = SubSeq(p, Len(p) + 1, (Len(p) + 1) - 1)
  <2>1. /\ Len(p) \in 1 .. Len(p)
        /\ Len(p) + 1 \in Len(p) + 1 .. Len(p) + 1
        /\ \A x \in Len(p) + 1 .. (Len(p) + 1) - 1 : p[x] # Slash
    BY <1>1
  <2> QED BY <1>1, <2>1, NameIs
<1>3. Len(p) + 1 \in Int /\ (Len(p) + 1) - 1 \in Int
      /\ (Len(p) + 1) - 1 < Len(p) + 1
  BY <1>1
<1> QED BY <1>2, <1>3, SubSeqEmpty

\* The last name of a path is taken after all those before it.
LEMMA LastName ==
  ASSUME NEW m, EndsInSlash(m), NEW p \in Seq(Int), Len(m) <= Len(p),
         \A i \in 1 .. Len(m) : p[i] = m[i],
         NEW e \in Len(m) + 1 .. Len(p) + 1, e = Len(p) + 1 \/ (e = Len(p) /\ p[e] = Slash),
         \A x \in Len(m) + 1 .. e - 1 : p[x] # Slash
  PROVE  Walk(p) = Follow(Walk(m), SubSeq(p, Len(m) + 1, e - 1))
<1> DEFINE k == Len(m)
           A == NamesAlong(p)
           B == NamesAlong(m)
           name == SubSeq(p, k + 1, e - 1)
<1>0. /\ k \in Nat /\ k # 0 /\ m \in Seq(Int) /\ m[k] = Slash
      /\ Len(p) \in Nat /\ e \in Nat
  BY LenProperties DEF EndsInSlash
<1>1. /\ A[0] = <<>>
      /\ \A n \in 1 .. Len(p) :
           A[n] = IF p[n] = Slash THEN Follow(A[n - 1], NameAfter(p, n)) ELSE A[n - 1]
  BY <1>0, NamesAre
<1>2. /\ B[0] = <<>>
      /\ \A n \in 1 .. k :
           B[n] = IF m[n] = Slash THEN Follow(B[n - 1], NameAfter(m, n)) ELSE B[n - 1]
  BY <1>0, NamesAre
<1>3. k \in 1 .. Len(p) /\ k \in 1 .. k /\ p[k] = Slash /\ k <= Len(p) /\ k <= k
  BY <1>0
<1>4. NameAfter(p, k) = name
  <2>1. p[e] = Slash \/ e = Len(p) + 1
    OBVIOUS
  <2> QED BY <1>0, <1>3, <2>1, NameIs
<1>5. Walk(p) = A[Len(p)] /\ Walk(m) = B[k]
  BY DEF Walk
<1>6. NameAfter(m, k) = <<>>
  BY NoNameAtEnd
<1> HIDE DEF k, A, B, name
<1>7. \A j \in 0 .. k - 1 : A[j] = B[j]
  <2> DEFINE S == {j \in 0 .. k - 1 : A[j] = B[j]}
  <2>1. 0 \in Nat /\ k - 1 \in Nat /\ 0 \in S
    BY <1>0, <1>1, <1>2
  <2>2. ASSUME NEW j \in 0 .. (k - 1) - 1, j \in S PROVE j + 1 \in S
    <3>1. /\ j + 1 \in 0 .. k - 1 /\ j + 1 \in 1 .. k - 1 /\ (j + 1) - 1 = j
          /\ j + 1 \in 1 .. k /\ j + 1 \in 1 .. Len(p)
      BY <1>0, <1>3
    <3>2. p[j + 1] = m[j + 1]
      BY <3>1 DEF k
    <3>3. NameAfter(p, j + 1) = NameAfter(m, j + 1)
      BY <1>0, <1>3, <3>1, SameName DEF k
    <3>4. A[j + 1] = IF p[j + 1] = Slash THEN Follow(A[j], NameAfter(p, j + 1)) ELSE A[j]
      BY <1>1, <3>1
    <3>5. B[j + 1] = IF m[j + 1] = Slash THEN Follow(B[j], NameAfter(m, j + 1)) ELSE B[j]
      BY <1>2, <3>1
    <3>6. A[j] = B[j]
      BY <2>2
    <3>7. A[j + 1] = B[j + 1]
      BY <3>2, <3>3, <3>4, <3>5, <3>6
    <3> QED BY <3>1, <3>7
  <2> HIDE DEF S
  <2>3. \A j \in 0 .. k - 1 : j \in S
    BY <2>1, <2>2, UpTo
  <2> QED BY <2>3 DEF S
<1>8. A[k] = Follow(B[k], name)
  <2>1. k - 1 \in 0 .. k - 1
    BY <1>0
  <2>2. A[k - 1] = B[k - 1]
    BY <1>7, <2>1
  <2>3. B[k] = Follow(B[k - 1], <<>>)
    BY <1>0, <1>2, <1>3, <1>6
  <2>4. B[k] = B[k - 1]
    BY <2>3 DEF Follow
  <2>5. A[k] = Follow(A[k - 1], name)
    BY <1>1, <1>3, <1>4
  <2> QED BY <2>2, <2>4, <2>5
<1>9. \A j \in k .. e - 1 : A[j] = A[k]
  <2> DEFINE S == {j \in k .. e - 1 : A[j] = A[k]}
  <2>0. e \in k + 1 .. Len(p) + 1 /\ \A x \in k + 1 .. e - 1 : p[x] # Slash
    BY DEF k
  <2>1. k \in S /\ e - 1 \in Nat
    BY <1>0, <2>0
  <2>2. ASSUME NEW j \in k .. (e - 1) - 1, j \in S PROVE j + 1 \in S
    <3>1. /\ j + 1 \in k .. e - 1 /\ j + 1 \in k + 1 .. e - 1 /\ (j + 1) - 1 = j
          /\ j + 1 \in 1 .. Len(p)
      BY <1>0, <2>0
    <3>2. A[j + 1] = A[j]
      BY <1>1, <2>0, <3>1
    <3> QED BY <2>2, <3>1, <3>2
  <2> HIDE DEF S
  <2>3. \A j \in k .. e - 1 : j \in S
    BY <1>0, <2>1, <2>2, UpTo
  <2> QED BY <2>3 DEF S
<1>10. A[e - 1] = A[k]
  <2>1. e \in k + 1 .. Len(p) + 1
    BY DEF k
  <2>2. e - 1 \in k .. e - 1
    BY <1>0, <2>1
  <2> QED BY <1>9, <2>2
<1>11. CASE e = Len(p) + 1
  <2>1. e - 1 = Len(p)
    BY <1>0, <1>11
  <2> QED BY <1>5, <1>8, <1>10, <2>1 DEF name, k
<1>12. CASE e = Len(p) /\ p[e] = Slash
  <2>1. EndsInSlash(p)
    BY <1>0, <1>3, <1>12 DEF EndsInSlash
  <2>2. NameAfter(p, Len(p)) = <<>>
    BY <2>1, NoNameAtEnd
  <2>3. Len(p) \in 1 .. Len(p)
    BY <1>0, <1>3
  <2>4. A[Len(p)] = Follow(A[Len(p) - 1], <<>>)
    BY <1>1, <1>12, <2>2, <2>3
  <2>5. A[Len(p)] = A[Len(p) - 1]
    BY <2>4 DEF Follow
  <2> QED BY <1>5, <1>8, <1>10, <1>12, <2>5 DEF name, k
<1> QED BY <1>11, <1>12

\* Part of a sequence is one, as long as it says.
LEMMA Cut ==
  ASSUME NEW p \in Seq(Int), NEW a \in Nat \ {0}, NEW b \in Nat, b <= Len(p), a <= b + 1
  PROVE  /\ SubSeq(p, a, b) \in Seq(Int) /\ Len(SubSeq(p, a, b)) = b - a + 1
         /\ \A i \in 1 .. b - a + 1 : SubSeq(p, a, b)[i] = p[a + i - 1]
<1>1. Len(p) \in Nat
  BY LenProperties
<1>2. \A i \in a .. b : p[i] \in Int
  <2> SUFFICES ASSUME NEW i \in a .. b PROVE p[i] \in Int
    OBVIOUS
  <2>1. i \in 1 .. Len(p)
    BY <1>1
  <2> QED BY <2>1, ElementOfSeq
<1>3. a \in Int /\ b \in Int
  OBVIOUS
<1>4. /\ SubSeq(p, a, b) \in Seq(Int)
      /\ Len(SubSeq(p, a, b)) = IF a <= b THEN b - a + 1 ELSE 0
      /\ \A i \in 1 .. b - a + 1 : SubSeq(p, a, b)[i] = p[a + i - 1]
  BY <1>2, <1>3, SubSeqProperties
<1>5. (IF a <= b THEN b - a + 1 ELSE 0) = b - a + 1
  OBVIOUS
<1> QED BY <1>4, <1>5

\* A name is part of its path.
LEMMA NameType ==
  ASSUME NEW path \in Seq(Int), NEW n \in 1 .. Len(path)
  PROVE  NameAfter(path, n) \in Seq(Int)
<1>0. Len(path) \in Nat
  BY LenProperties
<1>1. PICK e \in n + 1 .. Len(path) + 1 :
        /\ e = Len(path) + 1 \/ path[e] = Slash
        /\ \A x \in n + 1 .. e - 1 : path[x] # Slash
  BY NameEnds
<1>2. NameAfter(path, n) = SubSeq(path, n + 1, e - 1)
  BY <1>1, NameIs
<1>3. n + 1 \in Nat \ {0} /\ e - 1 \in Nat /\ e - 1 <= Len(path) /\ n + 1 <= (e - 1) + 1
  BY <1>0
<1> QED BY <1>2, <1>3, Cut

\* A walk goes on with a sequence of names.
LEMMA FollowType ==
  ASSUME NEW names \in Seq(Seq(Int)), NEW name \in Seq(Int)
  PROVE  Follow(names, name) \in Seq(Seq(Int))
<1>1. Append(names, name) \in Seq(Seq(Int))
  BY AppendProperties
<1>2. SubSeq(names, 1, Len(names) - 1) \in Seq(Seq(Int))
  <2>1. Len(names) \in Nat
    BY LenProperties
  <2>2. ASSUME NEW i \in 1 .. Len(names) - 1 PROVE names[i] \in Seq(Int)
    <3>1. i \in 1 .. Len(names)
      BY <2>1
    <3> QED BY <3>1, ElementOfSeq
  <2>3. 1 \in Int /\ Len(names) - 1 \in Int
    BY <2>1
  <2> QED BY <2>2, <2>3, SubSeqProperties
<1> QED BY <1>1, <1>2 DEF Follow

\* The names left are a list of names.
LEMMA WalkType ==
  ASSUME NEW p \in Seq(Int)
  PROVE  Walk(p) \in Seq(Seq(Int))
<1> DEFINE A == NamesAlong(p)
           S == {n \in 0 .. Len(p) : A[n] \in Seq(Seq(Int))}
<1>0. Len(p) \in Nat
  BY LenProperties
<1>1. /\ A[0] = <<>>
      /\ \A n \in 1 .. Len(p) :
           A[n] = IF p[n] = Slash THEN Follow(A[n - 1], NameAfter(p, n)) ELSE A[n - 1]
  BY <1>0, NamesAre
<1> HIDE DEF A
<1>2. 0 \in S
  <2>1. <<>> \in Seq(Seq(Int))
    BY EmptySeq
  <2>2. 0 \in 0 .. Len(p)
    BY <1>0
  <2> QED BY <1>1, <2>1, <2>2
<1>3. ASSUME NEW n \in 0 .. Len(p) - 1, n \in S PROVE n + 1 \in S
  <2>1. n + 1 \in 1 .. Len(p) /\ n + 1 \in 0 .. Len(p) /\ (n + 1) - 1 = n
    BY <1>0
  <2>2. A[n] \in Seq(Seq(Int)) /\ NameAfter(p, n + 1) \in Seq(Int)
    BY <1>3, <2>1, NameType
  <2>3. Follow(A[n], NameAfter(p, n + 1)) \in Seq(Seq(Int))
    BY <2>2, FollowType
  <2>4. A[n + 1] \in Seq(Seq(Int))
    BY <1>1, <2>1, <2>2, <2>3
  <2> QED BY <2>1, <2>4
<1>4. \A n \in 0 .. Len(p) : n \in S
  <2> HIDE DEF S
  <2> QED BY <1>0, <1>2, <1>3, UpTo
<1>5. Len(p) \in 0 .. Len(p)
  BY <1>0
<1> QED BY <1>4, <1>5 DEF Walk, A

\* A path, a name after it, and a slash after that.
LEMMA Joined ==
  ASSUME NEW m, EndsInSlash(m), NEW part, SlashFree(part)
  PROVE  /\ m \o part \in Seq(Int) /\ Len(m \o part) = Len(m) + Len(part)
         /\ \A i \in 1 .. Len(m) : (m \o part)[i] = m[i]
         /\ \A x \in Len(m) + 1 .. Len(m) + Len(part) : (m \o part)[x] # Slash
         /\ SubSeq(m \o part, Len(m) + 1, Len(m) + Len(part)) = part
<1>0. /\ m \in Seq(Int) /\ part \in Seq(Int) /\ Len(m) \in Nat /\ Len(part) \in Nat
      /\ \A i \in 1 .. Len(part) : part[i] # Slash
  BY LenProperties DEF EndsInSlash, SlashFree
<1> DEFINE p == m \o part
<1>1. /\ p \in Seq(Int) /\ Len(p) = Len(m) + Len(part)
      /\ \A i \in 1 .. Len(m) + Len(part) :
           p[i] = IF i <= Len(m) THEN m[i] ELSE part[i - Len(m)]
  BY <1>0, ConcatProperties
<1> HIDE DEF p
<1>2. ASSUME NEW i \in 1 .. Len(m) PROVE p[i] = m[i]
  <2>1. i \in 1 .. Len(m) + Len(part) /\ i <= Len(m)
    BY <1>0
  <2> QED BY <1>1, <2>1
<1>3. ASSUME NEW x \in Len(m) + 1 .. Len(m) + Len(part) PROVE p[x] # Slash
  <2>1. /\ x \in 1 .. Len(m) + Len(part) /\ ~(x <= Len(m))
        /\ x - Len(m) \in 1 .. Len(part)
    BY <1>0
  <2>2. p[x] = part[x - Len(m)]
    BY <1>1, <2>1
  <2> QED BY <1>0, <2>1, <2>2
<1>4. SubSeq(p, Len(m) + 1, Len(m) + Len(part)) = part
  <2> DEFINE t == SubSeq(p, Len(m) + 1, Len(m) + Len(part))
  <2>0. /\ Len(m) + 1 \in Nat \ {0} /\ Len(m) + Len(part) \in Nat
        /\ Len(m) + 1 <= (Len(m) + Len(part)) + 1 /\ Len(m) + Len(part) <= Len(p)
        /\ (Len(m) + Len(part)) - (Len(m) + 1) + 1 = Len(part)
    BY <1>0, <1>1
  <2>1. /\ t \in Seq(Int) /\ Len(t) = Len(part)
        /\ \A i \in 1 .. Len(part) : t[i] = p[(Len(m) + 1) + i - 1]
    BY <1>1, <2>0, Cut
  <2> HIDE DEF t
  <2>2. ASSUME NEW i \in 1 .. Len(t) PROVE t[i] = part[i]
    <3>1. i \in 1 .. Len(part)
      BY <2>1
    <3>2. /\ (Len(m) + 1) + i - 1 \in 1 .. Len(m) + Len(part)
          /\ ~((Len(m) + 1) + i - 1 <= Len(m))
          /\ ((Len(m) + 1) + i - 1) - Len(m) = i
      BY <1>0, <3>1
    <3>3. p[(Len(m) + 1) + i - 1] = part[i]
      BY <1>1, <3>2
    <3> QED BY <2>1, <3>1, <3>3
  <2>3. t = part
    BY <1>0, <2>1, <2>2, SeqEqual
  <2> QED BY <2>3 DEF t
<1> QED BY <1>1, <1>2, <1>3, <1>4 DEF p

\* A part without slashes after a path that ends in one, and a slash after it.
LEMMA Closed ==
  ASSUME NEW m, EndsInSlash(m), NEW part, SlashFree(part)
  PROVE  LET p == (m \o part) \o <<Slash>> IN
         /\ EndsInSlash(p) /\ Len(p) = Len(m) + Len(part) + 1
         /\ \A i \in 1 .. Len(m) : p[i] = m[i]
         /\ \A x \in Len(m) + 1 .. Len(m) + Len(part) : p[x] # Slash
         /\ SubSeq(p, Len(m) + 1, Len(m) + Len(part)) = part
<1> DEFINE q == m \o part
           p == q \o <<Slash>>
           l == Len(m) + Len(part)
<1>0. /\ m \in Seq(Int) /\ part \in Seq(Int) /\ Len(m) \in Nat /\ Len(part) \in Nat
  BY LenProperties DEF EndsInSlash, SlashFree
<1>1. /\ q \in Seq(Int) /\ Len(q) = l
      /\ \A i \in 1 .. Len(m) : q[i] = m[i]
      /\ \A x \in Len(m) + 1 .. l : q[x] # Slash
      /\ SubSeq(q, Len(m) + 1, l) = part
  BY Joined
<1> HIDE DEF q
<1>2. <<Slash>> \in Seq(Int) /\ Len(<<Slash>>) = 1 /\ <<Slash>>[1] = Slash
  BY DEF Slash
<1>3. /\ p \in Seq(Int) /\ Len(p) = l + 1
      /\ \A i \in 1 .. l + 1 :
           p[i] = IF i <= l THEN q[i] ELSE <<Slash>>[i - l]
  BY <1>1, <1>2, ConcatProperties
<1> HIDE DEF p
<1>4. p[l + 1] = Slash
  <2>1. l + 1 \in 1 .. l + 1 /\ ~(l + 1 <= l) /\ (l + 1) - l = 1
    BY <1>0
  <2> QED BY <1>2, <1>3, <2>1
<1>5. ASSUME NEW i \in 1 .. l PROVE p[i] = q[i]
  <2>1. i \in 1 .. l + 1 /\ i <= l
    BY <1>0
  <2> QED BY <1>3, <2>1
<1>6. ASSUME NEW i \in 1 .. Len(m) PROVE p[i] = m[i]
  <2>1. i \in 1 .. l
    BY <1>0
  <2> QED BY <1>1, <1>5, <2>1
<1>7. ASSUME NEW x \in Len(m) + 1 .. l PROVE p[x] # Slash
  <2>1. x \in 1 .. l
    BY <1>0
  <2> QED BY <1>1, <1>5, <2>1
<1>8. SubSeq(p, Len(m) + 1, l) = part
  <2> DEFINE t == SubSeq(p, Len(m) + 1, l)
             u == SubSeq(q, Len(m) + 1, l)
  <2>0. /\ Len(m) + 1 \in Nat \ {0} /\ l \in Nat /\ Len(m) + 1 <= l + 1
        /\ l <= Len(p) /\ l <= Len(q)
    BY <1>0, <1>1, <1>3
  <2>1. /\ t \in Seq(Int) /\ Len(t) = l - (Len(m) + 1) + 1
        /\ \A i \in 1 .. l - (Len(m) + 1) + 1 : t[i] = p[(Len(m) + 1) + i - 1]
    BY <1>3, <2>0, Cut
  <2>2. /\ u \in Seq(Int) /\ Len(u) = l - (Len(m) + 1) + 1
        /\ \A i \in 1 .. l - (Len(m) + 1) + 1 : u[i] = q[(Len(m) + 1) + i - 1]
    BY <1>1, <2>0, Cut
  <2> HIDE DEF t, u
  <2>3. ASSUME NEW i \in 1 .. Len(t) PROVE t[i] = u[i]
    <3>1. i \in 1 .. l - (Len(m) + 1) + 1
      BY <2>1
    <3>2. (Len(m) + 1) + i - 1 \in 1 .. l
      BY <1>0, <3>1
    <3>3. p[(Len(m) + 1) + i - 1] = q[(Len(m) + 1) + i - 1]
      BY <1>5, <3>2
    <3> QED BY <2>1, <2>2, <3>1, <3>3
  <2>4. t = u
    BY <2>1, <2>2, <2>3, SeqEqual
  <2> QED BY <1>1, <2>4 DEF t, u
<1>9. EndsInSlash(p)
  BY <1>0, <1>3, <1>4 DEF EndsInSlash
<1>10. Len(p) = Len(m) + Len(part) + 1
  BY <1>3
<1> QED BY <1>6, <1>7, <1>8, <1>9, <1>10 DEF p, q

\* A name added to a path is followed, whether a slash comes after it or not.
LEMMA WalkOn ==
  ASSUME NEW m, EndsInSlash(m), NEW part, SlashFree(part)
  PROVE  /\ Walk(m \o part) = Follow(Walk(m), part)
         /\ Walk((m \o part) \o <<Slash>>) = Follow(Walk(m), part)
<1> DEFINE q == m \o part
           p == q \o <<Slash>>
           l == Len(m) + Len(part)
<1>0. /\ m \in Seq(Int) /\ part \in Seq(Int) /\ Len(m) \in Nat /\ Len(part) \in Nat
  BY LenProperties DEF EndsInSlash, SlashFree
<1>1. /\ q \in Seq(Int) /\ Len(q) = l
      /\ \A i \in 1 .. Len(m) : q[i] = m[i]
      /\ \A x \in Len(m) + 1 .. l : q[x] # Slash
      /\ SubSeq(q, Len(m) + 1, l) = part
  BY Joined
<1>2. /\ EndsInSlash(p) /\ Len(p) = l + 1
      /\ \A i \in 1 .. Len(m) : p[i] = m[i]
      /\ \A x \in Len(m) + 1 .. l : p[x] # Slash
      /\ SubSeq(p, Len(m) + 1, l) = part
  BY Closed
<1>3. p \in Seq(Int) /\ p[l + 1] = Slash
  BY <1>2 DEF EndsInSlash
<1>4. /\ l + 1 \in Len(m) + 1 .. Len(q) + 1 /\ l + 1 \in Len(m) + 1 .. Len(p) + 1
      /\ l + 1 = Len(q) + 1 /\ l + 1 = Len(p) /\ (l + 1) - 1 = l
      /\ Len(m) <= Len(q) /\ Len(m) <= Len(p)
  BY <1>0, <1>1, <1>2
<1> HIDE DEF p, q, l
<1>5. Walk(q) = Follow(Walk(m), SubSeq(q, Len(m) + 1, (l + 1) - 1))
  BY <1>1, <1>4, LastName
<1>6. Walk(p) = Follow(Walk(m), SubSeq(p, Len(m) + 1, (l + 1) - 1))
  BY <1>2, <1>3, <1>4, LastName
<1> QED BY <1>1, <1>2, <1>4, <1>5, <1>6 DEF p, q

-----------------------------------------------------------------------------
(* Paths below the root.                                                    *)

Proper(name) == name \notin {<<>>, <<Dot>>, <<Dot, Dot>>}

\* The third part of PathIsTheOneMeant.
Sane(path) ==
  \A x \in Slashes(path) :
    /\ NameAfter(path, x) \notin {<<Dot>>, <<Dot, Dot>>}
    /\ NameAfter(path, x) = <<>> => x = Len(path)

\* A name that is no detour leaves a path sane.
LEMMA SaneName ==
  ASSUME NEW m, EndsInSlash(m), Sane(m), NEW p \in Seq(Int), Len(m) <= Len(p),
         \A i \in 1 .. Len(m) : p[i] = m[i],
         NEW e \in Len(m) + 1 .. Len(p) + 1, e = Len(p) + 1 \/ (e = Len(p) /\ p[e] = Slash),
         \A x \in Len(m) + 1 .. e - 1 : p[x] # Slash,
         \/ Proper(SubSeq(p, Len(m) + 1, e - 1))
         \/ SubSeq(p, Len(m) + 1, e - 1) = <<>> /\ Len(m) = Len(p)
  PROVE  Sane(p)
<1> DEFINE k == Len(m)
<1>0. /\ k \in Nat /\ k # 0 /\ m \in Seq(Int) /\ m[k] = Slash
      /\ Len(p) \in Nat /\ e \in Nat /\ DOMAIN p = 1 .. Len(p) /\ DOMAIN m = 1 .. k
  BY LenProperties DEF EndsInSlash
<1>a. k <= Len(p) /\ e \in k + 1 .. Len(p) + 1
  OBVIOUS
<1>b. \A i \in 1 .. k : p[i] = m[i]
  OBVIOUS
<1>c. e = Len(p) + 1 \/ e = Len(p)
  OBVIOUS
<1>d. Len(m) = k
  OBVIOUS
<1>e. \/ Proper(SubSeq(p, k + 1, e - 1))
      \/ SubSeq(p, k + 1, e - 1) = <<>> /\ k = Len(p)
  OBVIOUS
<1> HIDE DEF k
<1>f. p[k] = m[k]
  BY ONLY <1>0, <1>b
<1>1. k \in 1 .. Len(p) /\ k \in 1 .. k /\ p[k] = Slash /\ k <= k
  BY ONLY <1>0, <1>a, <1>f
<1>2. NameAfter(p, k) = SubSeq(p, k + 1, e - 1)
  <2>1. p[e] = Slash \/ e = Len(p) + 1
    OBVIOUS
  <2>2. \A x \in k + 1 .. e - 1 : p[x] # Slash
    BY DEF k
  <2> QED BY <1>a, <1>1, <2>1, <2>2, NameIs
<1> SUFFICES ASSUME NEW x \in Slashes(p)
             PROVE  /\ NameAfter(p, x) \notin {<<Dot>>, <<Dot, Dot>>}
                    /\ NameAfter(p, x) = <<>> => x = Len(p)
  BY DEF Sane
<1>3. x \in 1 .. Len(p) /\ p[x] = Slash
  BY <1>0 DEF Slashes
<1>4. CASE x < k
  <2>1. x \in 1 .. k - 1 /\ x \in 1 .. k /\ x # k
    BY ONLY <1>0, <1>3, <1>4
  <2>2. NameAfter(p, x) = NameAfter(m, x)
    BY ONLY p \in Seq(Int), <1>0, <1>b, <1>d, <1>1, <2>1, SameName
  <2>3. x \in Slashes(m)
    BY ONLY <1>0, <1>3, <1>b, <2>1 DEF Slashes
  <2> QED BY <2>1, <2>2, <2>3 DEF Sane, k
<1>5. CASE x = k
  <2>1. NameAfter(p, x) = SubSeq(p, k + 1, e - 1)
    BY <1>2, <1>5
  <2>2. CASE Proper(SubSeq(p, k + 1, e - 1))
    BY ONLY <2>1, <2>2 DEF Proper
  <2>3. CASE SubSeq(p, k + 1, e - 1) = <<>> /\ k = Len(p)
    <3>1. <<>> # <<Dot>> /\ <<>> # <<Dot, Dot>>
      OBVIOUS
    <3> QED BY ONLY <1>5, <2>1, <2>3, <3>1
  <2> QED BY <1>e, <2>2, <2>3
<1>6. CASE k < x
  <2>1. x \notin k + 1 .. e - 1
    BY <1>3 DEF k
  <2>2. x = Len(p)
    <3>1. x \in Nat
      BY ONLY <1>0, <1>3
    <3>2. ~(k + 1 <= x /\ x <= e - 1)
      BY ONLY <1>0, <2>1, <3>1
    <3>3. x <= Len(p)
      BY ONLY <1>0, <1>3
    <3>4. k \in Nat /\ Len(p) \in Nat /\ e \in Nat
      BY <1>0
    <3> QED BY ONLY <1>c, <1>6, <3>1, <3>2, <3>3, <3>4
  <2>3. EndsInSlash(p)
    BY ONLY p \in Seq(Int), <1>0, <1>3, <2>2 DEF EndsInSlash
  <2>4. NameAfter(p, x) = <<>>
    BY <2>2, <2>3, NoNameAtEnd
  <2> QED BY <2>2, <2>4
<1>7. x < k \/ x = k \/ k < x
  BY ONLY <1>0, <1>3
<1> QED BY <1>4, <1>5, <1>6, <1>7

\* A sane path and one more part of it make a sane path.
LEMMA SaneOn ==
  ASSUME NEW m, EndsInSlash(m), Sane(m), NEW part, SlashFree(part)
  PROVE  /\ part \notin {<<Dot>>, <<Dot, Dot>>} => Sane(m \o part)
         /\ Proper(part) => Sane((m \o part) \o <<Slash>>)
<1> DEFINE q == m \o part
           p == q \o <<Slash>>
           l == Len(m) + Len(part)
<1>0. /\ m \in Seq(Int) /\ part \in Seq(Int) /\ Len(m) \in Nat /\ Len(part) \in Nat
  BY LenProperties DEF EndsInSlash, SlashFree
<1>1. /\ q \in Seq(Int) /\ Len(q) = l
      /\ \A i \in 1 .. Len(m) : q[i] = m[i]
      /\ \A x \in Len(m) + 1 .. l : q[x] # Slash
      /\ SubSeq(q, Len(m) + 1, l) = part
  BY Joined
<1>2. /\ EndsInSlash(p) /\ Len(p) = l + 1
      /\ \A i \in 1 .. Len(m) : p[i] = m[i]
      /\ \A x \in Len(m) + 1 .. l : p[x] # Slash
      /\ SubSeq(p, Len(m) + 1, l) = part
  BY Closed
<1>3. p \in Seq(Int) /\ p[l + 1] = Slash
  BY <1>2 DEF EndsInSlash
<1>4. /\ l + 1 \in Len(m) + 1 .. Len(q) + 1 /\ l + 1 \in Len(m) + 1 .. Len(p) + 1
      /\ l + 1 = Len(q) + 1 /\ l + 1 = Len(p) /\ (l + 1) - 1 = l
      /\ Len(m) <= Len(q) /\ Len(m) <= Len(p)
  BY <1>0, <1>1, <1>2
<1>5. part = <<>> => Len(m) = Len(q)
  <2>1. Len(<<>>) = 0
    BY EmptySeq
  <2> QED BY <1>0, <1>1, <2>1
<1> HIDE DEF p, q, l
<1>6. ASSUME part \notin {<<Dot>>, <<Dot, Dot>>} PROVE Sane(q)
  <2>1. \/ Proper(SubSeq(q, Len(m) + 1, (l + 1) - 1))
        \/ SubSeq(q, Len(m) + 1, (l + 1) - 1) = <<>> /\ Len(m) = Len(q)
    BY <1>1, <1>4, <1>5, <1>6 DEF Proper
  <2> QED BY <1>1, <1>4, <2>1, SaneName
<1>7. ASSUME Proper(part) PROVE Sane(p)
  <2>1. Proper(SubSeq(p, Len(m) + 1, (l + 1) - 1))
    BY <1>2, <1>4, <1>7
  <2> QED BY <1>2, <1>3, <1>4, <2>1, SaneName
<1> QED BY <1>6, <1>7 DEF p, q

\* The root.
LEMMA Root ==
  /\ EndsInSlash(<<Slash>>) /\ Sane(<<Slash>>) /\ Walk(<<Slash>>) = <<>>
<1> DEFINE r == <<Slash>>
<1>1. r \in Seq(Int) /\ Len(r) = 1 /\ r[1] = Slash /\ DOMAIN r = {1}
  BY DEF Slash
<1> HIDE DEF r
<1>2. EndsInSlash(r)
  BY <1>1 DEF EndsInSlash
<1>3. NameAfter(r, 1) = <<>>
  BY <1>1, <1>2, NoNameAtEnd
<1>4. Sane(r)
  <2>1. <<>> # <<Dot>> /\ <<>> # <<Dot, Dot>>
    OBVIOUS
  <2> QED BY <1>1, <1>3, <2>1 DEF Sane, Slashes
<1>5. Walk(r) = <<>>
  <2>1. 1 \in 1 .. Len(r) /\ Len(r) \in Nat /\ 1 - 1 = 0
    BY <1>1
  <2>2. NamesAlong(r)[1] = Follow(NamesAlong(r)[0], <<>>) /\ NamesAlong(r)[0] = <<>>
    BY <1>1, <1>3, <2>1, NamesAre
  <2> QED BY <1>1, <2>2 DEF Walk, Follow
<1> QED BY <1>2, <1>4, <1>5 DEF r

\* A path begins at the root.
LEMMA FromRoot ==
  ASSUME NEW sane \in Seq(Int)
  PROVE  LET s == <<Slash>> \o sane IN
         /\ s \in Seq(Int) /\ Len(s) = Len(sane) + 1 /\ s[1] = Slash
         /\ \A i \in 1 .. Len(sane) : s[i + 1] = sane[i]
<1> DEFINE s == <<Slash>> \o sane
<1>0. Len(sane) \in Nat
  BY LenProperties
<1>1. <<Slash>> \in Seq(Int) /\ Len(<<Slash>>) = 1 /\ <<Slash>>[1] = Slash
  BY DEF Slash
<1>2. /\ s \in Seq(Int) /\ Len(s) = 1 + Len(sane)
      /\ \A i \in 1 .. 1 + Len(sane) :
           s[i] = IF i <= 1 THEN <<Slash>>[i] ELSE sane[i - 1]
  BY <1>1, ConcatProperties
<1> HIDE DEF s
<1>3. s[1] = Slash
  <2>1. 1 \in 1 .. 1 + Len(sane)
    BY <1>0
  <2> QED BY <1>1, <1>2, <2>1
<1>4. ASSUME NEW i \in 1 .. Len(sane) PROVE s[i + 1] = sane[i]
  <2>1. i + 1 \in 1 .. 1 + Len(sane) /\ ~(i + 1 <= 1) /\ (i + 1) - 1 = i
    BY <1>0
  <2> QED BY <1>2, <2>1
<1>5. Len(s) = Len(sane) + 1
  BY <1>0, <1>2
<1> QED BY <1>2, <1>3, <1>4, <1>5 DEF s

\* What Parent leaves: everything up to the last slash before the one at the
\* end, and that is the root's if there is none in sanepath
\* (request.cpp:273-277).
LEMMA ParentIs ==
  ASSUME NEW sane \in Seq(Int), sane # <<>>
  PROVE  LET s == <<Slash>> \o sane
             t == <<Slash>> \o Parent(sane) IN
         /\ Parent(sane) \in Seq(Int) /\ EndsInSlash(t) /\ Len(t) < Len(s)
         /\ \A i \in 1 .. Len(t) : s[i] = t[i]
         /\ \A x \in Len(t) + 1 .. Len(s) - 1 : s[x] # Slash
<1> DEFINE s == <<Slash>> \o sane
           t == <<Slash>> \o Parent(sane)
           L == Len(sane)
           slashes == {x \in 1 .. L - 1 : sane[x] = Slash}
<1>0. L \in Nat /\ L # 0
  BY EmptySeq
<1>1. /\ s \in Seq(Int) /\ Len(s) = L + 1 /\ s[1] = Slash
      /\ \A i \in 1 .. L : s[i + 1] = sane[i]
  BY FromRoot
<1>2. CASE slashes = {}
  <2>1. Parent(sane) = <<>> /\ <<>> \in Seq(Int) /\ Len(<<>>) = 0
    BY <1>2, EmptySeq DEF Parent
  <2>2. t = <<Slash>> /\ Len(<<Slash>>) = 1 /\ <<Slash>>[1] = Slash
    <3>1. <<Slash>> \in Seq(Int)
      BY DEF Slash
    <3> QED BY <2>1, <3>1, ConcatEmptySeq
  <2>3. ASSUME NEW x \in Len(t) + 1 .. Len(s) - 1 PROVE s[x] # Slash
    <3>1. x \in 2 .. L
      BY <1>0, <1>1, <2>2
    <3>2. x - 1 \in 1 .. L - 1 /\ x - 1 \in 1 .. L /\ (x - 1) + 1 = x
      BY <1>0, <3>1
    <3>3. s[x] = sane[x - 1]
      BY <1>1, <3>2
    <3> QED BY <1>2, <3>2, <3>3
  <2>4. EndsInSlash(t)
    BY <2>2, Root
  <2>5. Len(t) < Len(s)
    BY <1>0, <1>1, <2>2
  <2>6. \A i \in 1 .. Len(t) : s[i] = t[i]
    BY <1>1, <2>2
  <2> QED BY <2>1, <2>3, <2>4, <2>5, <2>6
<1>3. CASE slashes # {}
  <2> DEFINE back == {L - x : x \in slashes}
  <2>1. back \subseteq Nat /\ back # {}
    BY <1>0, <1>3
  <2>2. PICK b \in back : \A y \in back : b <= y
    <3> HIDE DEF back
    <3> QED BY <2>1, LeastNatural
  <2>3. L - b \in slashes /\ \A y \in slashes : y <= L - b
    <3>1. PICK x \in slashes : b = L - x
      BY <2>2
    <3>2. L - b = x
      BY <1>0, <3>1
    <3>3. ASSUME NEW y \in slashes PROVE y <= L - b
      <4>1. b <= L - y
        BY <2>2
      <4> QED BY <1>0, <3>1, <4>1
    <3> QED BY <3>1, <3>2, <3>3
  <2> DEFINE x == CHOOSE x \in slashes : \A y \in slashes : y <= x
  <2>4. x \in slashes /\ \A y \in slashes : y <= x
    <3> HIDE DEF slashes
    <3> QED BY <2>3
  <2>5. Parent(sane) = SubSeq(sane, 1, x)
    BY <1>3 DEF Parent
  <2> HIDE DEF x, back
  <2>6. x \in 1 .. L - 1 /\ x \in Nat /\ sane[x] = Slash
    BY <1>0, <2>4
  <2> DEFINE u == SubSeq(sane, 1, x)
  <2>7. u \in Seq(Int) /\ Len(u) = x /\ \A i \in 1 .. x : u[i] = sane[i]
    <3>1. /\ 1 \in Nat \ {0} /\ x \in Nat /\ x <= Len(sane) /\ 1 <= x + 1
          /\ x - 1 + 1 = x /\ \A i \in 1 .. x : 1 + i - 1 = i
      BY <1>0, <2>6
    <3> HIDE DEF L
    <3>2. /\ u \in Seq(Int) /\ Len(u) = x - 1 + 1
          /\ \A i \in 1 .. x - 1 + 1 : u[i] = sane[1 + i - 1]
      BY <3>1, Cut
    <3> QED BY <3>1, <3>2
  <2> HIDE DEF u
  <2>8. t = <<Slash>> \o u
    BY <2>5 DEF u
  <2>9. /\ t \in Seq(Int) /\ Len(t) = x + 1 /\ t[1] = Slash
        /\ \A i \in 1 .. x : t[i + 1] = u[i]
    <3>1. LET v == <<Slash>> \o u IN
          /\ v \in Seq(Int) /\ Len(v) = Len(u) + 1 /\ v[1] = Slash
          /\ \A i \in 1 .. Len(u) : v[i + 1] = u[i]
      BY <2>7, FromRoot
    <3> HIDE DEF t
    <3> QED BY ONLY <2>7, <2>8, <3>1
  <2> HIDE DEF t, s, slashes
  <2>10. EndsInSlash(t)
    <3>1. x \in 1 .. x /\ x + 1 \in Nat \ {0}
      BY <2>6
    <3>2. t[x + 1] = Slash
      BY <2>6, <2>7, <2>9, <3>1
    <3> QED BY <2>9, <3>1, <3>2 DEF EndsInSlash
  <2>11. ASSUME NEW i \in 1 .. Len(t) PROVE s[i] = t[i]
    <3>1. CASE i = 1
      BY <1>1, <2>9, <3>1
    <3>2. CASE i # 1
      <4>1. i - 1 \in 1 .. x /\ i - 1 \in 1 .. L /\ (i - 1) + 1 = i
        BY <1>0, <2>6, <2>9, <3>2
      <4>2. s[i] = sane[i - 1] /\ t[i] = u[i - 1] /\ u[i - 1] = sane[i - 1]
        BY <1>1, <2>7, <2>9, <4>1
      <4> QED BY <4>2
    <3> QED BY <3>1, <3>2
  <2>12. ASSUME NEW y \in Len(t) + 1 .. Len(s) - 1 PROVE s[y] # Slash
    <3>1. y - 1 \in 1 .. L - 1 /\ y - 1 \in 1 .. L /\ (y - 1) + 1 = y /\ ~(y - 1 <= x)
      BY <1>0, <1>1, <2>6, <2>9
    <3>2. s[y] = sane[y - 1]
      BY <1>1, <3>1
    <3>3. y - 1 \notin slashes
      BY <2>4, <3>1
    <3> QED BY <3>1, <3>2, <3>3 DEF slashes
  <2>13. Len(t) < Len(s)
    BY <1>0, <1>1, <2>6, <2>9
  <2>14. Parent(sane) \in Seq(Int)
    BY <2>5, <2>7 DEF u
  <2> QED BY <2>10, <2>11, <2>12, <2>13, <2>14 DEF s, t
<1> QED BY <1>2, <1>3

\* A list without the member that was appended.
LEMMA WithoutLast ==
  ASSUME NEW S, NEW names \in Seq(S), NEW name \in S
  PROVE  LET more == Append(names, name) IN
         SubSeq(more, 1, Len(more) - 1) = names
<1> DEFINE more == Append(names, name)
           less == SubSeq(more, 1, Len(more) - 1)
           L == Len(names)
<1>0. L \in Nat
  BY LenProperties
<1>1. more \in Seq(S) /\ Len(more) = L + 1 /\ \A i \in 1 .. L : more[i] = names[i]
  BY AppendProperties
<1> HIDE DEF more
<1>2. Len(more) - 1 = L /\ (IF 1 <= L THEN L - 1 + 1 ELSE 0) = L /\ L - 1 + 1 = L
  BY <1>0, <1>1
<1>3. ASSUME NEW i \in 1 .. L PROVE more[i] \in S /\ 1 + i - 1 = i
  <2>1. i \in 1 .. Len(more)
    BY <1>0, <1>1
  <2> QED BY <1>1, <2>1, ElementOfSeq
<1>4. 1 \in Int /\ L \in Int
  BY <1>0
<1>5. /\ less \in Seq(S) /\ Len(less) = (IF 1 <= L THEN L - 1 + 1 ELSE 0)
      /\ \A i \in 1 .. L - 1 + 1 : less[i] = more[1 + i - 1]
  <2> HIDE DEF L
  <2> QED BY <1>2, <1>3, <1>4, SubSeqProperties
<1>6. Len(less) = L
  BY <1>2, <1>5
<1>7. ASSUME NEW i \in 1 .. Len(less) PROVE less[i] = names[i]
  <2>1. i \in 1 .. L
    BY <1>6
  <2>2. less[i] = more[1 + i - 1]
    BY <1>2, <1>5, <2>1
  <2> QED BY <1>1, <1>3, <2>1, <2>2
<1> HIDE DEF less
<1>8. less = names
  BY <1>5, <1>6, <1>7, SeqEqual
<1> QED BY <1>8 DEF less, more

\* ".." gives up the last name, as the reference does (request.cpp:271-278).
LEMMA Climb ==
  ASSUME NEW sane \in Seq(Int), EndsInSlash(<<Slash>> \o sane),
         Sane(<<Slash>> \o sane)
  PROVE  LET t == <<Slash>> \o Parent(sane) IN
         /\ Parent(sane) \in Seq(Int) /\ EndsInSlash(t) /\ Sane(t)
         /\ Walk(t) = Follow(Walk(<<Slash>> \o sane), <<Dot, Dot>>)
<1> DEFINE s == <<Slash>> \o sane
           t == <<Slash>> \o Parent(sane)
<1>0. \A names : Follow(names, <<Dot, Dot>>) = SubSeq(names, 1, Len(names) - 1)
  <2>1. <<Dot, Dot>> # <<>> /\ <<Dot, Dot>> # <<Dot>>
    OBVIOUS
  <2> QED BY <2>1 DEF Follow
<1>1. CASE sane = <<>>
  <2>1. Parent(sane) = <<>> /\ <<>> \in Seq(Int)
    <3>1. Len(<<>>) = 0 /\ \A x \in 1 .. 0 - 1 : FALSE
      BY EmptySeq
    <3> QED BY <1>1, <3>1, EmptySeq DEF Parent
  <2>2. t = <<Slash>> /\ s = <<Slash>>
    <3>1. <<Slash>> \in Seq(Int)
      BY DEF Slash
    <3> QED BY <1>1, <2>1, <3>1, ConcatEmptySeq
  <2>3. SubSeq(<<>>, 1, Len(<<>>) - 1) = <<>>
    <3>1. Len(<<>>) = 0
      BY EmptySeq
    <3> QED BY <3>1, SubSeqEmpty
  <2> HIDE DEF s, t
  <2>4. EndsInSlash(t) /\ Sane(t) /\ Walk(t) = <<>> /\ Walk(s) = <<>>
    BY <2>2, Root
  <2> QED BY <1>0, <2>1, <2>3, <2>4 DEF s, t
<1>2. CASE sane # <<>>
  <2>1. /\ Parent(sane) \in Seq(Int) /\ EndsInSlash(t) /\ Len(t) < Len(s)
        /\ \A i \in 1 .. Len(t) : s[i] = t[i]
        /\ \A x \in Len(t) + 1 .. Len(s) - 1 : s[x] # Slash
    BY <1>2, ParentIs
  <2>2. EndsInSlash(s) /\ Sane(s)
    OBVIOUS
  <2> HIDE DEF s, t
  <2>3. /\ s \in Seq(Int) /\ t \in Seq(Int) /\ Len(s) \in Nat /\ Len(t) \in Nat
        /\ Len(t) # 0 /\ s[Len(s)] = Slash /\ t[Len(t)] = Slash
        /\ DOMAIN s = 1 .. Len(s) /\ DOMAIN t = 1 .. Len(t)
    BY <2>1, <2>2, LenProperties DEF EndsInSlash
  <2> DEFINE k == Len(t)
             name == SubSeq(s, k + 1, Len(s) - 1)
  <2>4. /\ k <= Len(s) /\ Len(s) \in k + 1 .. Len(s) + 1
        /\ k \in 1 .. Len(s) /\ k \in 1 .. k /\ k \in Nat /\ k < Len(s)
    BY <2>1, <2>3
  <2>a. k \in Nat /\ Len(s) \in Nat /\ k < Len(s)
    BY ONLY <2>3, <2>4
  <2>5. Walk(s) = Follow(Walk(t), name)
    BY <2>1, <2>3, <2>4, LastName
  <2>6. NameAfter(s, k) = name
    BY <2>1, <2>3, <2>4, NameIs
  <2>7. s[k] = Slash
    BY <2>1, <2>3, <2>4
  <2>8. name \in Seq(Int)
    BY <2>3, <2>4, <2>6, NameType
  <2>9. Walk(t) \in Seq(Seq(Int))
    BY <2>3, WalkType
  <2> HIDE DEF name
  <2>10. Proper(name)
    <3>1. k \in Slashes(s)
      BY <2>3, <2>4, <2>7 DEF Slashes
    <3>2. k # Len(s)
      BY <2>a
    <3> QED BY <2>2, <2>6, <3>1, <3>2 DEF Sane, Proper
  <2>11. Walk(s) = Append(Walk(t), name)
    BY <2>5, <2>10 DEF Proper, Follow
  <2>12. SubSeq(Walk(s), 1, Len(Walk(s)) - 1) = Walk(t)
    BY <2>8, <2>9, <2>11, WithoutLast
  <2>13. Sane(t)
    <3> SUFFICES ASSUME NEW x \in Slashes(t)
                 PROVE  /\ NameAfter(t, x) \notin {<<Dot>>, <<Dot, Dot>>}
                        /\ NameAfter(t, x) = <<>> => x = Len(t)
      BY DEF Sane
    <3>1. x \in 1 .. k /\ t[x] = Slash
      BY <2>3 DEF Slashes
    <3>2. CASE x = k
      <4>1. NameAfter(t, x) = <<>>
        BY <2>1, <3>2, NoNameAtEnd
      <4>2. <<>> # <<Dot>> /\ <<>> # <<Dot, Dot>>
        OBVIOUS
      <4> QED BY <3>2, <4>1, <4>2
    <3>3. CASE x # k
      <4>1. x \in 1 .. k - 1 /\ x # Len(s) /\ x \in 1 .. Len(s)
        <5>1. x \in 1 .. k
          BY <3>1
        <5> HIDE DEF k
        <5> QED BY ONLY <2>a, <3>3, <5>1
      <4>2. NameAfter(s, x) = NameAfter(t, x)
        <5>1. k <= Len(t)
          BY <2>4
        <5> HIDE DEF k
        <5>2. \A i \in 1 .. k : s[i] = t[i]
          BY <2>1 DEF k
        <5> QED BY <2>3, <2>4, <2>7, <4>1, <5>1, <5>2, SameName
      <4>3. x \in Slashes(s)
        BY <2>1, <2>3, <3>1, <4>1 DEF Slashes
      <4> QED BY <2>2, <4>1, <4>2, <4>3 DEF Sane
    <3> QED BY <3>2, <3>3
  <2> QED BY <1>0, <2>1, <2>12, <2>13 DEF s, t
<1> QED BY <1>1, <1>2

-----------------------------------------------------------------------------
(* The loop of HandleURI.                                                   *)

NotEnd == Int \ {End}

PathState ==
  [skip : Int, sanepath : Seq(NotEnd), pathpart : Seq(NotEnd), query : Seq(Int)]

\* The loop has read what m means: the directories it has kept and those of m
\* are the same to the reference, and the part it is in is m's last.
Good(p, m) ==
  /\ p \in PathState /\ p.skip = 0
  /\ SlashFree(p.pathpart)
  /\ EndsInSlash(<<Slash>> \o p.sanepath) /\ Sane(<<Slash>> \o p.sanepath)
  /\ \E dir : /\ EndsInSlash(dir) /\ m = dir \o p.pathpart
              /\ Walk(dir) = Walk(<<Slash>> \o p.sanepath)

\* Sequences of characters that are no terminator are sequences of numbers.
LEMMA NotEndAreNumbers ==
  ASSUME NEW s \in Seq(NotEnd)
  PROVE  s \in Seq(Int)
<1>1. NotEnd \subseteq Int
  BY DEF NotEnd
<1>2. Seq(NotEnd) \subseteq Seq(Int)
  BY <1>1, SeqMonotonic
<1> QED BY <1>2

\* A sequence is known by its elements.
LEMMA KnownByElements ==
  ASSUME NEW S, NEW T, NEW q \in Seq(S), \A i \in 1 .. Len(q) : q[i] \in T
  PROVE  q \in Seq(T)
<1>1. Len(q) \in Nat /\ q \in [1 .. Len(q) -> S]
  BY LenProperties
<1>2. q \in [1 .. Len(q) -> T]
  BY <1>1
<1>3. [1 .. Len(q) -> T] \in {[1 .. n -> T] : n \in Nat}
  BY <1>1
<1> QED BY <1>2, <1>3, SeqDef

\* What is left of a path is of its characters.
LEMMA ParentType ==
  ASSUME NEW sane \in Seq(NotEnd)
  PROVE  Parent(sane) \in Seq(NotEnd)
<1>0. sane \in Seq(Int)
  BY NotEndAreNumbers
<1>1. CASE sane = <<>>
  <2>1. Len(<<>>) = 0 /\ \A x \in 1 .. 0 - 1 : FALSE
    BY EmptySeq
  <2> QED BY <1>1, <2>1, EmptySeq DEF Parent
<1>2. CASE sane # <<>>
  <2> DEFINE s == <<Slash>> \o sane
             u == Parent(sane)
             t == <<Slash>> \o u
  <2>1. u \in Seq(Int) /\ Len(t) < Len(s) /\ \A i \in 1 .. Len(t) : s[i] = t[i]
    BY <1>0, <1>2, ParentIs
  <2>2. Len(s) = Len(sane) + 1 /\ \A i \in 1 .. Len(sane) : s[i + 1] = sane[i]
    BY <1>0, FromRoot
  <2> HIDE DEF u
  <2>3. Len(t) = Len(u) + 1 /\ \A i \in 1 .. Len(u) : t[i + 1] = u[i]
    BY <2>1, FromRoot
  <2> HIDE DEF s, t
  <2>4. Len(u) \in Nat /\ Len(sane) \in Nat
    BY <1>0, <2>1, LenProperties
  <2>5. ASSUME NEW i \in 1 .. Len(u) PROVE u[i] \in NotEnd
    <3>1. i \in 1 .. Len(sane) /\ i + 1 \in 1 .. Len(t)
      BY <2>1, <2>2, <2>3, <2>4
    <3>2. u[i] = sane[i]
      BY <2>1, <2>2, <2>3, <3>1
    <3> QED BY <3>1, <3>2, ElementOfSeq
  <2>6. u \in Seq(NotEnd)
    BY <2>1, <2>5, KnownByElements
  <2> QED BY <2>6 DEF u
<1> QED BY <1>1, <1>2

\* Before the loop nothing but the slash has been read.
LEMMA GoodStart == Good(StartOfPath, <<Slash>>)
<1> DEFINE r == <<Slash>>
<1>1. r \in Seq(Int)
  BY DEF Slash
<1> HIDE DEF r
<1>2. r \o <<>> = r
  BY <1>1, ConcatEmptySeq
<1>3. EndsInSlash(r) /\ Sane(r)
  BY Root DEF r
<1>4. SlashFree(<<>>)
  <2>1. <<>> \in Seq(Int) /\ Len(<<>>) = 0 /\ \A i \in 1 .. 0 : FALSE
    BY EmptySeq
  <2> QED BY <2>1 DEF SlashFree
<1>5. /\ StartOfPath \in PathState /\ StartOfPath.skip = 0
      /\ StartOfPath.sanepath = <<>> /\ StartOfPath.pathpart = <<>>
  <2>1. <<>> \in Seq(Int) /\ <<>> \in Seq(NotEnd)
    BY EmptySeq
  <2> QED BY <2>1 DEF StartOfPath, PathState
<1> QED BY <1>2, <1>3, <1>4, <1>5 DEF Good, r

\* A plain character, sent or escaped.
LEMMA GoodCharacter ==
  ASSUME NEW p, NEW m, Good(p, m), NEW c \in NotEnd, c # Slash
  PROVE  Good([p EXCEPT !.pathpart = Append(@, c)], m \o <<c>>)
<1> DEFINE part == p.pathpart
           q == [p EXCEPT !.pathpart = Append(@, c)]
<1>1. PICK dir : /\ EndsInSlash(dir) /\ m = dir \o part
                 /\ Walk(dir) = Walk(<<Slash>> \o p.sanepath)
  BY DEF Good
<1>2. /\ part \in Seq(NotEnd) /\ part \in Seq(Int) /\ SlashFree(part)
      /\ dir \in Seq(Int) /\ c \in Int /\ <<c>> \in Seq(Int) /\ Len(part) \in Nat
  <2>1. part \in Seq(NotEnd) /\ SlashFree(part)
    BY DEF Good, PathState
  <2> QED BY <1>1, <2>1, NotEndAreNumbers, LenProperties DEF EndsInSlash, NotEnd
<1>3. /\ q \in PathState /\ q.skip = 0 /\ q.sanepath = p.sanepath
      /\ q.pathpart = Append(part, c)
  <2>1. Append(part, c) \in Seq(NotEnd)
    BY <1>2, AppendProperties
  <2> QED BY <2>1 DEF Good, PathState
<1>4. SlashFree(Append(part, c))
  <2>1. /\ Append(part, c) \in Seq(Int) /\ Len(Append(part, c)) = Len(part) + 1
        /\ \A i \in 1 .. Len(part) : Append(part, c)[i] = part[i]
        /\ Append(part, c)[Len(part) + 1] = c
    BY <1>2, AppendProperties
  <2>2. ASSUME NEW i \in 1 .. Len(Append(part, c)) PROVE Append(part, c)[i] # Slash
    <3>1. i \in 1 .. Len(part) \/ i = Len(part) + 1
      BY <1>2, <2>1
    <3> QED BY <1>2, <2>1, <3>1 DEF SlashFree
  <2> QED BY <2>1, <2>2 DEF SlashFree
<1> HIDE DEF part
<1>5. m \o <<c>> = dir \o Append(part, c)
  <2>1. (dir \o part) \o <<c>> = dir \o (part \o <<c>>)
    BY <1>2, ConcatAssociative
  <2>2. Append(part, c) = part \o <<c>>
    BY <1>2, AppendIsConcat
  <2> QED BY <1>1, <2>1, <2>2
<1> HIDE DEF q
<1>6. Good(q, m \o <<c>>)
  BY <1>1, <1>3, <1>4, <1>5 DEF Good
<1> QED BY <1>6 DEF q

\* The path's characters when its parts are joined.
LEMMA KeptPart ==
  ASSUME NEW sane \in Seq(NotEnd), NEW part \in Seq(NotEnd)
  PROVE  /\ (sane \o part) \o <<Slash>> \in Seq(NotEnd)
         /\ (sane \o part) \o <<>> \in Seq(NotEnd)
         /\ <<Slash>> \o ((sane \o part) \o <<Slash>>)
              = ((<<Slash>> \o sane) \o part) \o <<Slash>>
         /\ <<Slash>> \o ((sane \o part) \o <<>>) = (<<Slash>> \o sane) \o part
<1> DEFINE r == <<Slash>>
           q == sane \o part
<1>1. r \in Seq(NotEnd) /\ <<>> \in Seq(NotEnd)
  BY EmptySeq DEF NotEnd, Slash, End
<1> HIDE DEF r
<1>2. q \in Seq(NotEnd)
  BY ConcatProperties
<1>3. q \o r \in Seq(NotEnd) /\ q \o <<>> = q /\ q \o <<>> \in Seq(NotEnd)
  <2> HIDE DEF q
  <2> QED BY <1>1, <1>2, ConcatProperties, ConcatEmptySeq
<1>4. r \o (sane \o part) = (r \o sane) \o part
  BY <1>1, ConcatAssociative
<1>5. r \o (q \o r) = (r \o q) \o r
  <2> HIDE DEF q
  <2> QED BY <1>1, <1>2, ConcatAssociative
<1> QED BY <1>3, <1>4, <1>5 DEF r, q

\* A slash ends a part: it is dropped, climbed or kept as the reference does.
LEMMA GoodSlash ==
  ASSUME NEW p, NEW m, Good(p, m)
  PROVE  Good(EndOfPart(p, Slash), m \o <<Slash>>)
<1> DEFINE part == p.pathpart
           sane == p.sanepath
           S == <<Slash>> \o sane
           q == EndOfPart(p, Slash)
           T == <<Slash>> \o q.sanepath
<1>1. PICK dir : EndsInSlash(dir) /\ m = dir \o part /\ Walk(dir) = Walk(S)
  BY DEF Good
<1>2. /\ part \in Seq(NotEnd) /\ SlashFree(part) /\ sane \in Seq(NotEnd)
      /\ EndsInSlash(S) /\ Sane(S) /\ p \in PathState /\ p.skip = 0
  BY DEF Good, PathState
<1>3. sane \in Seq(Int)
  BY <1>2, NotEndAreNumbers
<1> DEFINE kept == CASE part \in {<<>>, <<Dot>>} -> sane
                     [] part = <<Dot, Dot>> -> Parent(sane)
                     [] OTHER -> (sane \o part) \o <<Slash>>
<1>4. q = [p EXCEPT !.pathpart = <<>>, !.sanepath = kept]
  BY <1>2 DEF EndOfPart, Slash, End, PathState
<1>5. /\ kept \in Seq(NotEnd) /\ EndsInSlash(<<Slash>> \o kept)
      /\ Sane(<<Slash>> \o kept)
      /\ Walk(<<Slash>> \o kept) = Follow(Walk(S), part)
  <2> HIDE DEF part, sane, kept
  <2>a. <<>> # <<Dot>> /\ <<>> # <<Dot, Dot>> /\ <<Dot>> # <<Dot, Dot>>
    OBVIOUS
  <2>1. CASE part \in {<<>>, <<Dot>>}
    <3>1. kept = sane
      BY <2>1 DEF kept
    <3>2. Follow(Walk(S), part) = Walk(S)
      BY <2>1 DEF Follow
    <3> QED BY <1>2, <3>1, <3>2
  <2>2. CASE part = <<Dot, Dot>>
    <3>1. kept = Parent(sane)
      BY <2>2, <2>a DEF kept
    <3> QED BY <1>2, <1>3, <2>2, <3>1, Climb, ParentType
  <2>3. CASE Proper(part)
    <3>1. kept = (sane \o part) \o <<Slash>>
      BY <2>3 DEF kept, Proper
    <3>2. kept \in Seq(NotEnd) /\ <<Slash>> \o kept = (S \o part) \o <<Slash>>
      BY <1>2, <3>1, KeptPart
    <3> HIDE DEF S
    <3>3. EndsInSlash((S \o part) \o <<Slash>>) /\ Sane((S \o part) \o <<Slash>>)
      BY <1>2, <2>3, Closed, SaneOn
    <3>4. Walk((S \o part) \o <<Slash>>) = Follow(Walk(S), part)
      BY <1>2, WalkOn
    <3> QED BY <3>2, <3>3, <3>4
  <2> QED BY <2>1, <2>2, <2>3 DEF Proper
<1>6. /\ q \in PathState /\ q.skip = 0 /\ q.pathpart = <<>> /\ q.sanepath = kept
  <2>1. <<>> \in Seq(NotEnd)
    BY EmptySeq
  <2> HIDE DEF kept, q
  <2> QED BY <1>2, <1>4, <1>5, <2>1 DEF PathState
<1> DEFINE dir2 == (dir \o part) \o <<Slash>>
<1>7. EndsInSlash(dir2) /\ Walk(dir2) = Follow(Walk(dir), part)
  <2> HIDE DEF part
  <2> QED BY <1>1, <1>2, Closed, WalkOn
<1>8. m \o <<Slash>> = dir2 \o <<>>
  <2>1. dir2 \in Seq(Int) /\ dir2 = m \o <<Slash>>
    BY <1>1, <1>7 DEF EndsInSlash
  <2> HIDE DEF dir2
  <2> QED BY <2>1, ConcatEmptySeq
<1>9. SlashFree(<<>>)
  <2>1. <<>> \in Seq(Int) /\ Len(<<>>) = 0 /\ \A i \in 1 .. 0 : FALSE
    BY EmptySeq
  <2> QED BY <2>1 DEF SlashFree
<1> HIDE DEF q, kept, dir2, S
<1>10. Good(q, m \o <<Slash>>)
  BY <1>1, <1>5, <1>6, <1>7, <1>8, <1>9 DEF Good
<1> QED BY <1>10 DEF q

\* The end of the URI ends the last part, and what is kept then is what was
\* meant (request.cpp:262-295).
LEMMA GoodEnd ==
  ASSUME NEW p, NEW m, Good(p, m)
  PROVE  LET kept == EndOfPart(p, End).sanepath
             path == <<Slash>> \o kept IN
         /\ kept \in Seq(NotEnd) /\ Sane(path) /\ Walk(path) = Walk(m)
<1> DEFINE part == p.pathpart
           sane == p.sanepath
           S == <<Slash>> \o sane
<1>1. PICK dir : EndsInSlash(dir) /\ m = dir \o part /\ Walk(dir) = Walk(S)
  BY DEF Good
<1>2. /\ part \in Seq(NotEnd) /\ SlashFree(part) /\ sane \in Seq(NotEnd)
      /\ EndsInSlash(S) /\ Sane(S) /\ p \in PathState
  BY DEF Good, PathState
<1>3. sane \in Seq(Int)
  BY <1>2, NotEndAreNumbers
<1> DEFINE kept == CASE part \in {<<>>, <<Dot>>} -> sane
                     [] part = <<Dot, Dot>> -> Parent(sane)
                     [] OTHER -> (sane \o part) \o <<>>
<1>4. EndOfPart(p, End).sanepath = kept
  BY <1>2 DEF EndOfPart, PathState
<1>5. /\ kept \in Seq(NotEnd) /\ Sane(<<Slash>> \o kept)
      /\ Walk(<<Slash>> \o kept) = Follow(Walk(S), part)
  <2> HIDE DEF part, sane, kept
  <2>a. <<>> # <<Dot>> /\ <<>> # <<Dot, Dot>> /\ <<Dot>> # <<Dot, Dot>>
    OBVIOUS
  <2>1. CASE part \in {<<>>, <<Dot>>}
    <3>1. kept = sane
      BY <2>1 DEF kept
    <3>2. Follow(Walk(S), part) = Walk(S)
      BY <2>1 DEF Follow
    <3> QED BY <1>2, <3>1, <3>2
  <2>2. CASE part = <<Dot, Dot>>
    <3>1. kept = Parent(sane)
      BY <2>2, <2>a DEF kept
    <3> QED BY <1>2, <1>3, <2>2, <3>1, Climb, ParentType
  <2>3. CASE Proper(part)
    <3>1. kept = (sane \o part) \o <<>>
      BY <2>3 DEF kept, Proper
    <3>2. kept \in Seq(NotEnd) /\ <<Slash>> \o kept = S \o part
      BY <1>2, <3>1, KeptPart
    <3> HIDE DEF S
    <3>3. Sane(S \o part)
      BY <1>2, <2>3, SaneOn DEF Proper
    <3>4. Walk(S \o part) = Follow(Walk(S), part)
      BY <1>2, WalkOn
    <3> QED BY <3>2, <3>3, <3>4
  <2> QED BY <2>1, <2>2, <2>3 DEF Proper
<1>6. Walk(m) = Follow(Walk(S), part)
  <2> HIDE DEF part
  <2> QED BY <1>1, <1>2, WalkOn
<1> HIDE DEF kept
<1> QED BY <1>4, <1>5, <1>6

-----------------------------------------------------------------------------
(* Reading what was sent.                                                   *)

\* Whatever comes after front, the loop has read m when it is through with it.
Read(front, m) ==
  \E p : Good(p, m) /\ \A rest \in Seq(Int) : Loop(front \o rest)[Len(front)] = p

\* Where the characters of a piece are.
LEMMA TextAt ==
  ASSUME NEW front \in Seq(Int), NEW piece \in Seq(Int), NEW rest \in Seq(Int)
  PROVE  LET text == (front \o piece) \o rest IN
         /\ text = front \o (piece \o rest) /\ piece \o rest \in Seq(Int)
         /\ Len(text) \in Nat /\ Len(front) + Len(piece) <= Len(text)
         /\ Len(front \o piece) = Len(front) + Len(piece)
         /\ \A i \in 1 .. Len(piece) : text[Len(front) + i] = piece[i]
<1> DEFINE q == piece \o rest
           text == front \o q
<1>0. Len(front) \in Nat /\ Len(piece) \in Nat /\ Len(rest) \in Nat
  BY LenProperties
<1>1. (front \o piece) \o rest = text
  BY ConcatAssociative
<1>2. /\ q \in Seq(Int) /\ Len(q) = Len(piece) + Len(rest)
      /\ \A i \in 1 .. Len(piece) + Len(rest) :
           q[i] = IF i <= Len(piece) THEN piece[i] ELSE rest[i - Len(piece)]
  BY ConcatProperties
<1> HIDE DEF q
<1>3. /\ text \in Seq(Int) /\ Len(text) = Len(front) + Len(q)
      /\ \A i \in 1 .. Len(front) + Len(q) :
           text[i] = IF i <= Len(front) THEN front[i] ELSE q[i - Len(front)]
  <2>1. q \in Seq(Int)
    BY <1>2
  <2> QED BY ONLY front \in Seq(Int), <2>1, ConcatProperties
<1> HIDE DEF text
<1>4. ASSUME NEW i \in 1 .. Len(piece) PROVE text[Len(front) + i] = piece[i]
  <2>1. /\ i \in 1 .. Len(piece) + Len(rest) /\ i <= Len(piece)
        /\ Len(front) + i \in 1 .. Len(front) + Len(q)
        /\ ~(Len(front) + i <= Len(front)) /\ (Len(front) + i) - Len(front) = i
    BY <1>0, <1>2
  <2>2. text[Len(front) + i] = q[i]
    BY <1>3, <2>1
  <2> QED BY <1>2, <2>1, <2>2
<1>5. Len(text) \in Nat /\ Len(front) + Len(piece) <= Len(text)
  BY <1>0, <1>2, <1>3
<1>6. Len(front \o piece) = Len(front) + Len(piece)
  BY ConcatProperties
<1> QED BY <1>1, <1>2, <1>4, <1>5, <1>6 DEF text, q

\* Before the first round.
LEMMA ReadNothing == Read(<<Slash>>, <<Slash>>)
<1>1. <<Slash>> \in Seq(Int) /\ Len(<<Slash>>) = 1
  BY DEF Slash
<1>2. ASSUME NEW rest \in Seq(Int) PROVE Loop(<<Slash>> \o rest)[1] = StartOfPath
  <2> DEFINE text == <<Slash>> \o rest
  <2>1. Len(text) \in Nat
    <3>1. text \in Seq(Int)
      BY <1>1, ConcatProperties
    <3> HIDE DEF text
    <3> QED BY <3>1, LenProperties
  <2> HIDE DEF text
  <2>2. Loop(text)[1] = StartOfPath
    BY <2>1, LoopIs
  <2> QED BY <2>2 DEF text
<1> QED BY <1>1, <1>2, GoodStart DEF Read

\* A character that is neither the end nor the query's beginning, nor an escape's.
LEMMA ReadsCharacter ==
  ASSUME NEW front \in Seq(Int), Len(front) \in Nat \ {0}, NEW m, Read(front, m),
         NEW c \in NotEnd, c \notin {Percent, Question, Number_Sign}
  PROVE  Read(front \o <<c>>, m \o <<c>>)
<1> DEFINE piece == <<c>>
           k == Len(front)
<1>1. PICK p : Good(p, m) /\ \A rest \in Seq(Int) : Loop(front \o rest)[k] = p
  BY DEF Read
<1>2. piece \in Seq(Int) /\ Len(piece) = 1 /\ piece[1] = c /\ c # End
  BY DEF NotEnd
<1> HIDE DEF piece
<1> DEFINE q == IF c = Slash THEN EndOfPart(p, Slash)
                ELSE [p EXCEPT !.pathpart = Append(@, c)]
<1>3. Good(q, m \o piece)
  <2>1. CASE c = Slash
    BY <1>1, <2>1, GoodSlash DEF piece
  <2>2. CASE c # Slash
    BY <1>1, <2>2, GoodCharacter DEF piece
  <2> QED BY <2>1, <2>2
<1>4. ASSUME NEW rest \in Seq(Int)
      PROVE  Loop((front \o piece) \o rest)[Len(front \o piece)] = q
  <2> DEFINE text == (front \o piece) \o rest
             more == piece \o rest
  <2>1. /\ text = front \o more /\ more \in Seq(Int)
        /\ Len(text) \in Nat /\ k + Len(piece) <= Len(text)
        /\ Len(front \o piece) = k + Len(piece)
        /\ \A i \in 1 .. Len(piece) : text[k + i] = piece[i]
    BY <1>2, TextAt
  <2> HIDE DEF text, more
  <2>2. /\ k \in 1 .. Len(text) /\ ~(k + 1 > Len(text)) /\ 1 \in 1 .. Len(piece)
        /\ Len(front \o piece) = k + 1
    BY <1>2, <2>1
  <2>3. text[k + 1] = c
    BY <1>2, <2>1, <2>2
  <2>4. Loop(text)[k] = p
    BY <1>1, <2>1
  <2>5. Loop(text)[k + 1] = Round(p, text, k + 1)
    BY <2>1, <2>2, <2>4, LoopIs
  <2>6. Round(p, text, k + 1) = PathCharacter(p, text, k + 1)
    BY <1>1 DEF Round, Good
  <2>7. PathCharacter(p, text, k + 1) = q
    BY <1>2, <2>2, <2>3 DEF PathCharacter, Percent, Slash, End, Question, Number_Sign
  <2>8. Loop(text)[Len(front \o piece)] = q
    BY <2>2, <2>5, <2>6, <2>7
  <2> QED BY <2>8 DEF text
<1> HIDE DEF q, k
<1>5. Read(front \o piece, m \o piece)
  BY <1>3, <1>4 DEF Read
<1> QED BY <1>5 DEF piece

\* char of the sum that an escape stands for is a character.
LEMMA ByteType ==
  ASSUME NEW a \in Int, NEW b \in Int
  PROVE  unhexchar(a, b) \in Int
<1>1. ASSUME NEW c \in Int PROVE hex_lookup(c) \in Int
  BY DEF hex_lookup
<1> DEFINE x == hex_lookup(a)
           y == hex_lookup(b)
<1>2. x \in Int /\ y \in Int
  BY <1>1
<1>3. unhexchar(a, b) = IF x * 16 + y > 127 THEN x * 16 + y - 256 ELSE x * 16 + y
  BY <1>2 DEF unhexchar
<1> HIDE DEF x, y
<1> QED BY <1>2, <1>3

\* Two hexadecimal digits are the byte they spell.
LEMMA Spelled ==
  ASSUME NEW a \in Char, NEW b \in Char, HexDigit(a) /\ IsInTable(b) => HexDigit(b)
  PROVE  LET v == unhexchar(a, b)
             removed == ~IsInTable(a) \/ ~IsInTable(b) \/ v < 32 \/ v = 127 IN
         Meaning(<<Percent, a, b>>) = IF removed THEN <<>> ELSE <<v>>
<1> DEFINE v == unhexchar(a, b)
           dest == hex_lookup(a) * 16 + hex_lookup(b)
           w == <<Percent, a, b>>
<1>0. Len(w) = 3 /\ w[1] = Percent /\ w[2] = a /\ w[3] = b
  OBVIOUS
<1> HIDE DEF w
<1>1. /\ HexDigit(a) => hex_lookup(a) \in 0 .. 15
      /\ HexDigit(b) => hex_lookup(b) \in 0 .. 15
      /\ ~HexDigit(a) => hex_lookup(a) = -1
      /\ hex_lookup(b) \in -1 .. 15
      /\ HexDigit(a) => IsInTable(a)
      /\ HexDigit(b) => IsInTable(b)
  BY DEF HexDigit, hex_lookup, IsInTable, Char
<1>2. v = IF dest > 127 THEN dest - 256 ELSE dest
  BY DEF unhexchar
<1>3. Meaning(w) = IF ~HexDigit(a) \/ ~HexDigit(b) THEN <<>>
                   ELSE IF dest \in 32 .. 126 THEN <<dest>> ELSE <<>>
  BY <1>0 DEF Meaning
<1>4. CASE HexDigit(a) /\ HexDigit(b)
  <2> DEFINE x == hex_lookup(a)
             y == hex_lookup(b)
  <2>1. x \in 0 .. 15 /\ y \in 0 .. 15
    BY <1>1, <1>4
  <2> HIDE DEF x, y
  <2>2. dest = x * 16 + y
    BY DEF x, y
  <2> HIDE DEF dest, v
  <2>3. dest \in 0 .. 255
    BY <2>1, <2>2
  <2>4. IsInTable(a) /\ IsInTable(b)
    BY <1>1, <1>4
  <2>5. dest \in 32 .. 126 <=> ~(v < 32 \/ v = 127)
    BY <1>2, <2>3
  <2>6. dest \in 32 .. 126 => v = dest
    BY <1>2, <2>3
  <2> QED BY <1>3, <1>4, <2>4, <2>5, <2>6 DEF w, v
<1>5. CASE ~HexDigit(a)
  <2> DEFINE y == hex_lookup(b)
  <2>1. y \in -1 .. 15
    BY <1>1
  <2>2. dest = (-1) * 16 + y
    BY <1>1, <1>5
  <2> HIDE DEF dest, v, y
  <2>3. v < 32
    BY <1>2, <2>1, <2>2
  <2> QED BY <1>3, <1>5, <2>3 DEF w, v
<1>6. CASE HexDigit(a) /\ ~HexDigit(b)
  BY <1>3, <1>6 DEF w
<1> QED BY <1>4, <1>5, <1>6

\* An escape: the character is taken as if it had been sent, or left out
\* (request.cpp:217-260).
LEMMA ReadEscape ==
  ASSUME NEW front \in Seq(Int), Len(front) \in Nat \ {0}, NEW m \in Seq(Int),
         Read(front, m),
         NEW a \in Char, NEW b \in Char, HexDigit(a) /\ IsInTable(b) => HexDigit(b)
  PROVE  Read(front \o <<Percent, a, b>>, m \o Meaning(<<Percent, a, b>>))
<1> DEFINE piece == <<Percent, a, b>>
           k == Len(front)
           v == unhexchar(a, b)
           removed == ~IsInTable(a) \/ ~IsInTable(b) \/ v < 32 \/ v = 127
<1>1. PICK p : Good(p, m) /\ \A rest \in Seq(Int) : Loop(front \o rest)[k] = p
  BY DEF Read
<1>2. /\ piece \in Seq(Int) /\ Len(piece) = 3
      /\ piece[1] = Percent /\ piece[2] = a /\ piece[3] = b
  BY DEF Percent, Char
<1>3. Meaning(piece) = IF removed THEN <<>> ELSE <<v>>
  BY Spelled
<1>4. v \in Int
  <2>1. a \in Int /\ b \in Int
    BY DEF Char
  <2> QED BY <2>1, ByteType
<1> HIDE DEF piece, v
<1> DEFINE q == IF removed THEN p
                ELSE IF v = Slash THEN EndOfPart(p, Slash)
                ELSE [p EXCEPT !.pathpart = Append(@, v)]
<1>5. Good(q, m \o Meaning(piece))
  <2>1. CASE removed
    <3>1. m \o <<>> = m
      BY ConcatEmptySeq
    <3> QED BY <1>1, <1>3, <2>1, <3>1
  <2>2. CASE ~removed /\ v = Slash
    BY <1>1, <1>3, <2>2, GoodSlash
  <2>3. CASE ~removed /\ v # Slash
    <3>1. v \in NotEnd
      BY <1>4, <2>3 DEF NotEnd, End
    <3> QED BY <1>1, <1>3, <2>3, <3>1, GoodCharacter
  <2> QED BY <2>1, <2>2, <2>3
<1>6. p \in PathState /\ p.skip = 0 /\ q \in PathState /\ q.skip = 0
  BY <1>1, <1>5 DEF Good
<1>7. ASSUME NEW rest \in Seq(Int)
      PROVE  Loop((front \o piece) \o rest)[Len(front \o piece)] = q
  <2> DEFINE text == (front \o piece) \o rest
             more == piece \o rest
  <2>1. /\ text = front \o more /\ more \in Seq(Int)
        /\ Len(text) \in Nat /\ k + Len(piece) <= Len(text)
        /\ Len(front \o piece) = k + Len(piece)
        /\ \A i \in 1 .. Len(piece) : text[k + i] = piece[i]
    BY <1>2, TextAt
  <2> HIDE DEF text, more
  <2>2. k \in Nat /\ k # 0
    OBVIOUS
  <2> HIDE DEF k
  <2>a. k + 3 <= Len(text) /\ Len(text) \in Nat
    BY <1>2, <2>1
  <2>b. Len(front \o piece) = k + 3 /\ Len(piece) = 3
    BY <1>2, <2>1
  <2>3. /\ k \in 1 .. Len(text) /\ k + 1 \in 1 .. Len(text) /\ k + 2 \in 1 .. Len(text)
        /\ ~(k + 1 > Len(text)) /\ ~((k + 1) + 2 > Len(text))
        /\ 1 \in 1 .. Len(piece) /\ 2 \in 1 .. Len(piece) /\ 3 \in 1 .. Len(piece)
        /\ (k + 1) + 1 = k + 2 /\ (k + 2) + 1 = k + 3 /\ (k + 1) + 2 = k + 3
    BY ONLY <2>2, <2>a, <2>b
  <2>4. text[k + 1] = Percent /\ text[k + 2] = a /\ text[k + 3] = b
    BY <1>2, <2>1, <2>3
  <2>5. Loop(text)[k] = p
    BY <1>1, <2>1 DEF k
  <2>c. \A i \in 1 .. Len(text) :
          Loop(text)[i + 1] = Round(Loop(text)[i], text, i + 1)
    BY <2>1, LoopIs
  <2>6. /\ Loop(text)[k + 1] = Round(p, text, k + 1)
        /\ Loop(text)[k + 2] = Round(Loop(text)[k + 1], text, k + 2)
        /\ Loop(text)[k + 3] = Round(Loop(text)[k + 2], text, k + 3)
    <3>1. Loop(text)[k + 1] = Round(Loop(text)[k], text, k + 1)
      BY <2>3, <2>c
    <3>2. Loop(text)[(k + 1) + 1] = Round(Loop(text)[k + 1], text, (k + 1) + 1)
      BY <2>3, <2>c
    <3>3. Loop(text)[(k + 2) + 1] = Round(Loop(text)[k + 2], text, (k + 2) + 1)
      BY <2>3, <2>c
    <3>4. (k + 1) + 1 = k + 2 /\ (k + 2) + 1 = k + 3
      BY <2>3
    <3>5. Loop(text)[k + 2] = Round(Loop(text)[k + 1], text, k + 2)
      BY ONLY <3>2, <3>4
    <3>6. Loop(text)[k + 3] = Round(Loop(text)[k + 2], text, k + 3)
      BY ONLY <3>3, <3>4
    <3> QED BY <2>5, <3>1, <3>5, <3>6
  <2> DEFINE q1 == [q EXCEPT !.skip = 2]
             q2 == [q EXCEPT !.skip = 1]
  <2>7. Round(p, text, k + 1) = Escape(p, text, k + 1)
    <3>1. Round(p, text, k + 1) = PathCharacter(p, text, k + 1)
      BY <1>6 DEF Round
    <3>2. PathCharacter(p, text, k + 1) = Escape(p, text, k + 1)
      BY <2>3, <2>4 DEF PathCharacter, Percent, Slash, End, Question, Number_Sign
    <3> QED BY <3>1, <3>2
  <2>8. Escape(p, text, k + 1) = q1
    <3> DEFINE past == [p EXCEPT !.skip = 2]
    <3>1. Escape(p, text, k + 1) =
            IF removed THEN past
            ELSE IF v = Slash THEN EndOfPart(past, v)
            ELSE [past EXCEPT !.pathpart = Append(@, v)]
      BY <2>3, <2>4 DEF Escape, v
    <3>2. CASE removed
      BY <3>1, <3>2
    <3>3. CASE ~removed /\ v = Slash
      <4>1. EndOfPart(past, Slash) = [EndOfPart(p, Slash) EXCEPT !.skip = 2]
        <5> DEFINE K == CASE p.pathpart \in {<<>>, <<Dot>>} -> p.sanepath
                          [] p.pathpart = <<Dot, Dot>> -> Parent(p.sanepath)
                          [] OTHER -> (p.sanepath \o p.pathpart) \o <<Slash>>
        <5>1. past.pathpart = p.pathpart /\ past.sanepath = p.sanepath
          BY <1>6 DEF PathState
        <5>2. Slash # End
          BY DEF Slash, End
        <5>3. EndOfPart(p, Slash) = [p EXCEPT !.pathpart = <<>>, !.sanepath = K]
          BY <1>6, <5>2 DEF EndOfPart, PathState
        <5>4. EndOfPart(past, Slash) = [past EXCEPT !.pathpart = <<>>, !.sanepath = K]
          BY <1>6, <5>1, <5>2 DEF EndOfPart, PathState
        <5> HIDE DEF K
        <5> QED BY <1>6, <5>3, <5>4 DEF PathState
      <4> QED BY <3>1, <3>3, <4>1
    <3>4. CASE ~removed /\ v # Slash
      <4>1. [past EXCEPT !.pathpart = Append(@, v)]
              = [[p EXCEPT !.pathpart = Append(@, v)] EXCEPT !.skip = 2]
        BY <1>6 DEF PathState
      <4> QED BY <3>1, <3>4, <4>1
    <3> QED BY <3>2, <3>3, <3>4
  <2> HIDE DEF q
  <2>9. Round(q1, text, k + 2) = q2 /\ Round(q2, text, k + 3) = q
    <3>1. q1.skip = 2 /\ q2.skip = 1
      BY <1>6 DEF PathState
    <3>2. Round(q1, text, k + 2) = [q1 EXCEPT !.skip = 2 - 1]
      <4> HIDE DEF q1
      <4> QED BY <3>1 DEF Round
    <3>3. Round(q2, text, k + 3) = [q2 EXCEPT !.skip = 1 - 1]
      <4> HIDE DEF q2
      <4> QED BY <3>1 DEF Round
    <3>4. [q1 EXCEPT !.skip = 1] = q2 /\ [q2 EXCEPT !.skip = 0] = q
      BY <1>6 DEF PathState
    <3>5. 2 - 1 = 1 /\ 1 - 1 = 0
      OBVIOUS
    <3> HIDE DEF q1, q2
    <3> QED BY ONLY <3>2, <3>3, <3>4, <3>5
  <2>10. Loop(text)[Len(front \o piece)] = q
    BY <2>b, <2>6, <2>7, <2>8, <2>9
  <2> QED BY <2>10 DEF text
<1> HIDE DEF q, k
<1>8. Read(front \o piece, m \o Meaning(piece))
  BY <1>5, <1>7 DEF Read
<1> QED BY <1>8 DEF piece

-----------------------------------------------------------------------------
(* The URI as it is put together.                                           *)

URISpec == URIInit /\ [][Send]_uriVars

\* What is before the query has been read whatever else is sent.
URIInv ==
  /\ meant \in Seq(Int) /\ inQuery \in BOOLEAN
  /\ \E front, rest \in Seq(Int) :
       /\ uri = front \o rest /\ Len(front) \in Nat \ {0} /\ front[1] = Slash
       /\ Read(front, meant)
       /\ IF inQuery THEN rest # <<>> /\ rest[1] \in {Question, Number_Sign}
          ELSE rest = <<>>

\* The pieces there are.
PlainPiece(piece) == \E c \in Char \ {End, Percent} : piece = <<c>>
EscapePiece(piece) ==
  \E a, b \in Char : /\ piece = <<Percent, a, b>>
                     /\ HexDigit(a) /\ IsInTable(b) => HexDigit(b)

\* PiecesAssumption, by kind of piece.
LEMMA PiecesAre ==
  ASSUME NEW piece \in Pieces
  PROVE  PlainPiece(piece) \/ EscapePiece(piece)
<1>1. CASE piece \in {<<c>> : c \in Char \ {End, Percent}}
  BY <1>1 DEF PlainPiece
<1>2. CASE /\ piece \in {<<Percent, a, b>> : a, b \in Char}
           /\ HexDigit(piece[2]) /\ IsInTable(piece[3]) => HexDigit(piece[3])
  <2>1. PICK a \in Char, b \in Char : piece = <<Percent, a, b>>
    BY <1>2
  <2>2. piece[2] = a /\ piece[3] = b
    BY <2>1
  <2> QED BY <1>2, <2>1, <2>2 DEF EscapePiece
<1> QED BY <1>1, <1>2, PiecesAssumption

\* Before the first piece is sent.
LEMMA URIInitially == URIInit => URIInv
<1> SUFFICES ASSUME URIInit PROVE URIInv
  OBVIOUS
<1> DEFINE r == <<Slash>>
<1>1. r \in Seq(Int) /\ Len(r) = 1 /\ r[1] = Slash /\ <<>> \in Seq(Int)
  BY EmptySeq DEF Slash
<1>2. Read(r, r)
  BY ReadNothing
<1>3. uri = r /\ meant = r /\ inQuery = FALSE
  BY DEF URIInit
<1> HIDE DEF r
<1>4. r \o <<>> = r
  BY <1>1, ConcatEmptySeq
<1>5. /\ uri = r \o <<>> /\ Len(r) \in Nat \ {0} /\ r[1] = Slash /\ Read(r, meant)
      /\ IF inQuery THEN <<>> # <<>> /\ <<>>[1] \in {Question, Number_Sign}
         ELSE <<>> = <<>>
  BY <1>1, <1>2, <1>3, <1>4
<1> QED BY <1>1, <1>3, <1>5 DEF URIInv

\* A client that sends another piece.
LEMMA URIStep == URIInv /\ [Send]_uriVars => URIInv'
<1> SUFFICES ASSUME URIInv, [Send]_uriVars PROVE URIInv'
  OBVIOUS
<1>1. PICK front \in Seq(Int), rest \in Seq(Int) :
        /\ uri = front \o rest /\ Len(front) \in Nat \ {0} /\ front[1] = Slash
        /\ Read(front, meant)
        /\ IF inQuery THEN rest # <<>> /\ rest[1] \in {Question, Number_Sign}
           ELSE rest = <<>>
  BY DEF URIInv
<1>2. meant \in Seq(Int) /\ inQuery \in BOOLEAN
  BY DEF URIInv
<1>3. CASE UNCHANGED uriVars
  BY <1>3 DEF URIInv, uriVars
<1>4. CASE Send
  <2>1. PICK piece \in Pieces :
          /\ uri' = uri \o piece
          /\ inQuery' = (inQuery \/ piece \in {<<Question>>, <<Number_Sign>>})
          /\ meant' = IF inQuery' THEN meant ELSE meant \o Meaning(piece)
    BY <1>4 DEF Send
  <2>2. PlainPiece(piece) \/ EscapePiece(piece)
    BY PiecesAre
  <2>3. piece \in Seq(Int) /\ Len(piece) \in Nat /\ piece # <<>>
    <3>1. ASSUME NEW c \in Char, piece = <<c>>
          PROVE  piece \in Seq(Int) /\ Len(piece) = 1
      <4>1. c \in Int
        BY DEF Char
      <4> QED BY <3>1, <4>1
    <3>2. ASSUME NEW a \in Char, NEW b \in Char, piece = <<Percent, a, b>>
          PROVE  piece \in Seq(Int) /\ Len(piece) = 3
      <4>1. a \in Int /\ b \in Int /\ Percent \in Int
        BY DEF Char, Percent
      <4> QED BY <3>2, <4>1
    <3>3. piece \in Seq(Int) /\ (Len(piece) = 1 \/ Len(piece) = 3)
      <4>1. CASE PlainPiece(piece)
        <5>1. PICK c \in Char : piece = <<c>>
          BY <4>1 DEF PlainPiece
        <5> QED BY <3>1, <5>1
      <4>2. CASE EscapePiece(piece)
        <5>1. PICK a \in Char, b \in Char : piece = <<Percent, a, b>>
          BY <4>2 DEF EscapePiece
        <5> QED BY <3>2, <5>1
      <4> QED BY <2>2, <4>1, <4>2
    <3>4. Len(<<>>) = 0
      BY EmptySeq
    <3> QED BY <3>3, <3>4
  <2>4. CASE inQuery
    <3> DEFINE more == rest \o piece
    <3>1. uri' = front \o more /\ more \in Seq(Int)
      <4>1. uri' = (front \o rest) \o piece
        BY <1>1, <2>1
      <4>2. (front \o rest) \o piece = front \o (rest \o piece)
        BY <2>3, ConcatAssociative
      <4>3. rest \o piece \in Seq(Int)
        BY <2>3, ConcatProperties
      <4> QED BY <4>1, <4>2, <4>3
    <3>2. more # <<>> /\ more[1] = rest[1]
      <4>1. Len(rest) \in Nat \ {0}
        BY <1>1, <2>4, EmptySeq
      <4>2. /\ Len(more) = Len(rest) + Len(piece)
            /\ \A i \in 1 .. Len(rest) + Len(piece) :
                 more[i] = IF i <= Len(rest) THEN rest[i] ELSE piece[i - Len(rest)]
        BY <2>3, ConcatProperties
      <4>3. Len(more) # 0 /\ 1 \in 1 .. Len(rest) + Len(piece) /\ 1 <= Len(rest)
        BY <2>3, <4>1, <4>2
      <4>4. more[1] = rest[1]
        <5> HIDE DEF more
        <5> QED BY <4>2, <4>3
      <4>5. more # <<>>
        <5> HIDE DEF more
        <5> QED BY <4>3, EmptySeq
      <4> QED BY <4>4, <4>5
    <3>3. inQuery' = TRUE /\ meant' = meant
      BY <2>1, <2>4
    <3> HIDE DEF more
    <3> QED BY <1>1, <1>2, <2>4, <3>1, <3>2, <3>3 DEF URIInv
  <2>5. CASE ~inQuery /\ piece \in {<<Question>>, <<Number_Sign>>}
    <3>1. rest = <<>> /\ uri = front
      BY <1>1, <2>5, ConcatEmptySeq
    <3>2. piece[1] \in {Question, Number_Sign}
      BY <2>5
    <3>3. inQuery' = TRUE /\ meant' = meant
      BY <2>1, <2>5
    <3> QED BY <1>1, <1>2, <2>1, <2>3, <3>1, <3>2, <3>3 DEF URIInv
  <2>6. CASE ~inQuery /\ piece \notin {<<Question>>, <<Number_Sign>>}
    <3> DEFINE longer == front \o piece
    <3>1. rest = <<>> /\ uri = front
      BY <1>1, <2>6, ConcatEmptySeq
    <3>2. inQuery' = FALSE /\ meant' = meant \o Meaning(piece) /\ uri' = longer
      BY <1>2, <2>1, <2>6, <3>1
    <3>3. Read(longer, meant') /\ Meaning(piece) \in Seq(Int)
      <4>1. ASSUME NEW c \in Char \ {End, Percent}, piece = <<c>>
            PROVE  Read(longer, meant') /\ Meaning(piece) \in Seq(Int)
        <5>1. c \in NotEnd /\ c \notin {Percent, Question, Number_Sign}
          BY <2>6, <4>1 DEF Char, NotEnd
        <5>2. Meaning(piece) = piece
          <6>1. piece[1] = c /\ c # Percent
            BY <4>1
          <6> QED BY <6>1 DEF Meaning
        <5>3. Read(front \o piece, meant \o piece)
          BY <1>1, <4>1, <5>1, ReadsCharacter
        <5>4. Read(longer, meant')
          BY <3>2, <5>2, <5>3
        <5> QED BY <2>3, <5>2, <5>4
      <4>2. ASSUME NEW a \in Char, NEW b \in Char, piece = <<Percent, a, b>>,
                   HexDigit(a) /\ IsInTable(b) => HexDigit(b)
            PROVE  Read(longer, meant') /\ Meaning(piece) \in Seq(Int)
        <5>1. Read(front \o piece, meant \o Meaning(piece))
          BY <1>1, <1>2, <4>2, ReadEscape
        <5>2. unhexchar(a, b) \in Int
          <6>1. a \in Int /\ b \in Int
            BY DEF Char
          <6> QED BY <6>1, ByteType
        <5>3. Meaning(piece) = <<>> \/ Meaning(piece) = <<unhexchar(a, b)>>
          BY <4>2, Spelled
        <5>4. Meaning(piece) \in Seq(Int)
          <6> DEFINE v == unhexchar(a, b)
          <6> HIDE DEF v
          <6>1. v \in Int => <<v>> \in Seq(Int)
            OBVIOUS
          <6> QED BY <5>2, <5>3, <6>1, EmptySeq DEF v
        <5> QED BY <3>2, <5>1, <5>4
      <4>3. CASE PlainPiece(piece)
        <5>1. PICK c \in Char \ {End, Percent} : piece = <<c>>
          BY <4>3 DEF PlainPiece
        <5> QED BY <4>1, <5>1
      <4>4. CASE EscapePiece(piece)
        <5>1. PICK a \in Char, b \in Char :
                /\ piece = <<Percent, a, b>>
                /\ HexDigit(a) /\ IsInTable(b) => HexDigit(b)
          BY <4>4 DEF EscapePiece
        <5> QED BY <4>2, <5>1
      <4> QED BY <2>2, <4>3, <4>4
    <3>4. /\ longer \in Seq(Int) /\ Len(longer) = Len(front) + Len(piece)
          /\ \A i \in 1 .. Len(front) + Len(piece) :
               longer[i] = IF i <= Len(front) THEN front[i] ELSE piece[i - Len(front)]
      BY <2>3, ConcatProperties
    <3> HIDE DEF longer
    <3>5. Len(longer) \in Nat \ {0} /\ longer[1] = Slash
      <4>1. Len(front) \in Nat /\ Len(front) # 0
        BY <1>1
      <4>2. 1 \in 1 .. Len(front) + Len(piece) /\ 1 <= Len(front)
        BY <2>3, <4>1
      <4> QED BY <1>1, <2>3, <3>4, <4>1, <4>2
    <3>6. meant' \in Seq(Int)
      BY <1>2, <3>2, <3>3, ConcatProperties
    <3>7. longer \o <<>> = longer /\ <<>> \in Seq(Int)
      BY <3>4, ConcatEmptySeq, EmptySeq
    <3> QED BY <3>2, <3>3, <3>4, <3>5, <3>6, <3>7 DEF URIInv
  <2> QED BY <1>2, <2>4, <2>5, <2>6
<1> QED BY <1>3, <1>4

-----------------------------------------------------------------------------
(* What is served.                                                          *)

\* The last round.
LEMMA LastRound ==
  ASSUME NEW p, NEW text, Len(text) \in Nat, NEW query,
         p = [skip |-> 0, sanepath |-> p.sanepath, pathpart |-> p.pathpart,
              query |-> query]
  PROVE  Round(p, text, Len(text) + 1).sanepath = EndOfPart(p, End).sanepath
<1> DEFINE i == Len(text) + 1
           e == EndOfPart(p, End)
<1>1. i > Len(text)
  OBVIOUS
<1>2. p.skip = 0
  OBVIOUS
<1> HIDE DEF i
<1>3. Round(p, text, i) = SkipToEnd(e, text, i)
  BY <1>1, <1>2 DEF Round, PathCharacter, Percent, Slash, End, Question, Number_Sign
<1>4. SkipToEnd(e, text, i).sanepath = e.sanepath
  <2> DEFINE K == CASE p.pathpart \in {<<>>, <<Dot>>} -> p.sanepath
                    [] p.pathpart = <<Dot, Dot>> -> Parent(p.sanepath)
                    [] OTHER -> (p.sanepath \o p.pathpart) \o <<>>
  <2>1. e = [p EXCEPT !.pathpart = <<>>, !.sanepath = K]
    BY DEF EndOfPart
  <2> DEFINE a == p.sanepath
             b == p.pathpart
  <2>a. p = [skip |-> 0, sanepath |-> a, pathpart |-> b, query |-> query]
    OBVIOUS
  <2> HIDE DEF K, a, b, e
  <2>2. e = [skip |-> 0, sanepath |-> K, pathpart |-> <<>>, query |-> query]
    BY ONLY <2>1, <2>a
  <2> QED BY <2>2 DEF SkipToEnd
<1> QED BY <1>3, <1>4 DEF i

\* The characters of the query are passed over one by one.
LEMMA Passed ==
  ASSUME NEW text, Len(text) \in Nat, NEW k \in 1 .. Len(text), NEW sane, NEW part,
         NEW query,
         Loop(text)[k] = [skip |-> Len(text) - k, sanepath |-> sane,
                          pathpart |-> part, query |-> query]
  PROVE  Loop(text)[Len(text)] = [skip |-> 0, sanepath |-> sane,
                                  pathpart |-> part, query |-> query]
<1> DEFINE L == Len(text)
           At(j) == [skip |-> L - j, sanepath |-> sane, pathpart |-> part,
                     query |-> query]
           S == {j \in k .. L : Loop(text)[j] = At(j)}
<1>0. L \in Nat /\ k \in 1 .. L /\ k \in Nat
  OBVIOUS
<1>1. \A i \in 1 .. L : Loop(text)[i + 1] = Round(Loop(text)[i], text, i + 1)
  BY LoopIs
<1>2. k \in S
  BY <1>0
<1> HIDE DEF L
<1>3. ASSUME NEW j \in k .. L - 1, j \in S PROVE j + 1 \in S
  <2>1. j \in 1 .. L /\ j + 1 \in k .. L /\ L - j > 0 /\ (L - j) - 1 = L - (j + 1)
    BY <1>0
  <2>2. Loop(text)[j] = At(j)
    BY <1>3
  <2>3. Loop(text)[j + 1] = Round(At(j), text, j + 1)
    BY <1>1, <2>1, <2>2
  <2>4. At(j).skip = L - j
    OBVIOUS
  <2>5. Round(At(j), text, j + 1) = [At(j) EXCEPT !.skip = (L - j) - 1]
    <3> HIDE DEF At
    <3> QED BY <2>1, <2>4 DEF Round
  <2>6. [At(j) EXCEPT !.skip = (L - j) - 1] = At(j + 1)
    <3> DEFINE a == L - j
               b == L - (j + 1)
    <3>1. a - 1 = b
      BY <2>1
    <3> HIDE DEF a, b
    <3>2. [[skip |-> a, sanepath |-> sane, pathpart |-> part, query |-> query]
             EXCEPT !.skip = a - 1]
            = [skip |-> b, sanepath |-> sane, pathpart |-> part, query |-> query]
      BY <3>1
    <3> QED BY <3>2 DEF a, b
  <2> HIDE DEF At
  <2> QED BY <2>1, <2>3, <2>5, <2>6
<1>4. \A j \in k .. L : j \in S
  <2> HIDE DEF S
  <2> QED BY <1>0, <1>2, <1>3, UpTo
<1>5. Loop(text)[L] = At(L)
  <2>1. L \in k .. L
    BY <1>0
  <2> QED BY <1>4, <2>1
<1>6. L - L = 0
  BY <1>0
<1> QED BY <1>5, <1>6 DEF L

\* What was meant is what is served, below the root (request.cpp:204-307).
LEMMA Served ==
  ASSUME NEW front \in Seq(Int), Len(front) \in Nat \ {0}, front[1] = Slash,
         NEW rest \in Seq(Int),
         rest = <<>> \/ (rest # <<>> /\ rest[1] \in {Question, Number_Sign}),
         NEW m, Read(front, m)
  PROVE  \E kept \in Seq(NotEnd) :
           LET path == <<Slash>> \o kept IN
           HandleURI(front \o rest) = path /\ Sane(path) /\ Walk(path) = Walk(m)
<1> DEFINE text == front \o rest
           k == Len(front)
           L == Len(text)
<1>1. PICK p : Good(p, m) /\ Loop(text)[k] = p
  BY DEF Read
<1>2. p \in PathState /\ p.skip = 0
  BY <1>1 DEF Good
<1>3. p = [skip |-> 0, sanepath |-> p.sanepath, pathpart |-> p.pathpart,
           query |-> p.query]
  BY <1>2 DEF PathState
<1>4. k \in Nat /\ k # 0 /\ Len(rest) \in Nat
  BY LenProperties
<1>5. /\ text \in Seq(Int) /\ L = k + Len(rest)
      /\ \A i \in 1 .. k + Len(rest) :
           text[i] = IF i <= k THEN front[i] ELSE rest[i - k]
  BY ConcatProperties
<1> HIDE DEF text, k
<1>6. text # <<>> /\ text[1] = Slash
  <2>1. 1 \in 1 .. k + Len(rest) /\ 1 <= k /\ L # 0
    BY <1>4, <1>5
  <2>2. Len(<<>>) = 0
    BY EmptySeq
  <2> QED BY <1>5, <2>1, <2>2
<1>7. L \in Nat /\ L # 0 /\ k <= L
  BY <1>4, <1>5
<1>8. \A i \in 1 .. L : Loop(text)[i + 1] = Round(Loop(text)[i], text, i + 1)
  BY <1>7, LoopIs
<1>9. Loop(text)[L + 1].sanepath = EndOfPart(p, End).sanepath
  <2>1. CASE rest = <<>>
    <3>1. L = k /\ k \in 1 .. L
      <4>1. Len(<<>>) = 0
        BY EmptySeq
      <4> QED BY <1>4, <1>5, <2>1, <4>1
    <3>2. Loop(text)[L + 1] = Round(p, text, L + 1)
      BY <1>1, <1>8, <3>1
    <3>3. Round(p, text, L + 1).sanepath = EndOfPart(p, End).sanepath
      BY <1>3, <1>7, LastRound
    <3> QED BY <3>2, <3>3
  <2>2. CASE rest # <<>> /\ rest[1] \in {Question, Number_Sign}
    <3>0. Len(rest) # 0
      BY <2>2, EmptySeq
    <3>1. /\ k \in 1 .. L /\ k + 1 \in 1 .. L /\ k + 1 \in 1 .. k + Len(rest)
          /\ ~(k + 1 <= k) /\ (k + 1) - k = 1 /\ ~(k + 1 > L) /\ L \in 1 .. L
      BY <1>4, <1>5, <1>7, <3>0
    <3>2. text[k + 1] = rest[1]
      BY <1>5, <3>1
    <3>3. Loop(text)[k + 1] = PathCharacter(p, text, k + 1)
      <4>1. Loop(text)[k + 1] = Round(p, text, k + 1)
        BY <1>1, <1>8, <3>1
      <4> QED BY <1>2, <4>1 DEF Round
    <3> DEFINE a == p.sanepath
               b == p.pathpart
               d == p.query
    <3>a. p = [skip |-> 0, sanepath |-> a, pathpart |-> b, query |-> d]
      BY <1>3
    <3> HIDE DEF a, b, d
    <3>4. \E query : Loop(text)[k + 1] =
             [skip |-> L - (k + 1), sanepath |-> a,
              pathpart |-> b, query |-> query]
      <4>1. CASE rest[1] = Question
        <5> DEFINE query == SubSeq(text, (k + 1) + 1, L)
        <5>1. PathCharacter(p, text, k + 1) =
                SkipToEnd([p EXCEPT !.query = query], text, k + 1)
          BY <3>1, <3>2, <4>1
             DEF PathCharacter, Percent, Slash, End, Question, Number_Sign
        <5> HIDE DEF query
        <5>2. SkipToEnd([p EXCEPT !.query = query], text, k + 1) =
                [skip |-> L - (k + 1), sanepath |-> a,
                 pathpart |-> b, query |-> query]
          <6> DEFINE r == [p EXCEPT !.query = query]
          <6>1. r = [skip |-> 0, sanepath |-> a, pathpart |-> b, query |-> query]
            BY ONLY <3>a
          <6> HIDE DEF r
          <6>2. SkipToEnd(r, text, k + 1) =
                  [skip |-> L - (k + 1), sanepath |-> a, pathpart |-> b,
                   query |-> query]
            BY ONLY <6>1 DEF SkipToEnd
          <6> QED BY <6>2 DEF r
        <5> QED BY <3>3, <5>1, <5>2
      <4>2. CASE rest[1] = Number_Sign
        <5>1. PathCharacter(p, text, k + 1) = SkipToEnd(p, text, k + 1)
          BY <3>1, <3>2, <4>2
             DEF PathCharacter, Percent, Slash, End, Question, Number_Sign
        <5>2. SkipToEnd(p, text, k + 1) =
                [skip |-> L - (k + 1), sanepath |-> a,
                 pathpart |-> b, query |-> d]
          BY ONLY <3>a DEF SkipToEnd
        <5> QED BY <3>3, <5>1, <5>2
      <4> QED BY <2>2, <4>1, <4>2
    <3>5. PICK query : Loop(text)[k + 1] =
             [skip |-> L - (k + 1), sanepath |-> a,
              pathpart |-> b, query |-> query]
      BY <3>4
    <3> DEFINE q == [skip |-> 0, sanepath |-> a,
                     pathpart |-> b, query |-> query]
    <3>6. Loop(text)[L] = q
      <4> HIDE DEF L
      <4> DEFINE n == k + 1
      <4>1. n \in 1 .. L /\ L \in Nat
        BY <1>7, <3>1
      <4>2. Loop(text)[n] = [skip |-> L - n, sanepath |-> a, pathpart |-> b,
                             query |-> query]
        BY <3>5
      <4> HIDE DEF n
      <4> QED BY ONLY <4>1, <4>2, Passed DEF L
    <3>8. q = [skip |-> 0, sanepath |-> q.sanepath, pathpart |-> q.pathpart,
               query |-> query]
      OBVIOUS
    <3>9. EndOfPart(q, End).sanepath = EndOfPart(p, End).sanepath
      <4>1. q.sanepath = a /\ q.pathpart = b /\ p.sanepath = a /\ p.pathpart = b
        BY <3>a
      <4> QED BY ONLY <3>a, <4>1 DEF EndOfPart
    <3> HIDE DEF q
    <3>10. Round(q, text, L + 1).sanepath = EndOfPart(q, End).sanepath
      BY <1>7, <3>8, LastRound
    <3>11. Loop(text)[L + 1] = Round(q, text, L + 1)
      BY <1>8, <3>1, <3>6
    <3> QED BY <3>9, <3>10, <3>11
  <2> QED BY <2>1, <2>2
<1>10. HandleURI(text) = <<Slash>> \o EndOfPart(p, End).sanepath
  BY <1>6, <1>9 DEF HandleURI
<1> QED BY <1>1, <1>10, GoodEnd DEF text

\* Where a part ends the path goes on as it was: it is the name the walk finds.
LEMMA PartIsName ==
  ASSUME NEW path \in Seq(Int), NEW S, EndsInSlash(S), NEW part, SlashFree(part),
         NEW i \in 1 .. Len(path), S \o part = SubSeq(path, 1, i),
         i = Len(path) \/ path[i + 1] = Slash
  PROVE  /\ Len(S) \in Slashes(path) /\ Len(S) <= i
         /\ NameAfter(path, Len(S)) = part
         /\ Len(S) = i => part = <<>>
<1> DEFINE k == Len(S)
           P == SubSeq(path, 1, i)
<1>0. /\ Len(path) \in Nat /\ DOMAIN path = 1 .. Len(path) /\ i \in Nat /\ i <= Len(path)
      /\ k \in Nat /\ k # 0 /\ S[k] = Slash /\ Len(part) \in Nat
      /\ part \in Seq(Int)
  BY LenProperties DEF EndsInSlash, SlashFree
<1>a. /\ Len(path) \in Nat /\ i \in Nat /\ 1 <= i /\ i <= Len(path)
      /\ k \in Nat /\ k # 0 /\ Len(part) \in Nat
  <2>1. i \in 1 .. Len(path)
    OBVIOUS
  <2>2. Len(path) \in Nat /\ k \in Nat /\ k # 0 /\ Len(part) \in Nat
    BY <1>0
  <2> HIDE DEF k
  <2> QED BY ONLY <2>1, <2>2
<1>b. S \o part = P
  OBVIOUS
<1> HIDE DEF k, P
<1>1. P \in Seq(Int) /\ Len(P) = i /\ \A j \in 1 .. i : P[j] = path[j]
  <2>1. 1 \in Nat \ {0} /\ 1 <= i + 1 /\ i - 1 + 1 = i /\ \A j \in 1 .. i : 1 + j - 1 = j
    BY ONLY <1>a
  <2>2. /\ P \in Seq(Int) /\ Len(P) = i - 1 + 1
        /\ \A j \in 1 .. i - 1 + 1 : P[j] = path[1 + j - 1]
    BY <1>a, <2>1, Cut DEF P
  <2> QED BY <2>1, <2>2
<1>2. /\ Len(P) = k + Len(part)
      /\ \A j \in 1 .. k : P[j] = S[j]
      /\ \A x \in k + 1 .. k + Len(part) : P[x] # Slash
      /\ SubSeq(P, k + 1, k + Len(part)) = part
  <2> DEFINE q == S \o part
  <2>1. /\ Len(q) = Len(S) + Len(part)
        /\ \A j \in 1 .. Len(S) : q[j] = S[j]
        /\ \A x \in Len(S) + 1 .. Len(S) + Len(part) : q[x] # Slash
        /\ SubSeq(q, Len(S) + 1, Len(S) + Len(part)) = part
    BY ONLY EndsInSlash(S), SlashFree(part), Joined
  <2> HIDE DEF q
  <2>2. q = P
    BY <1>b DEF q
  <2> QED BY ONLY <2>1, <2>2 DEF k
<1>3. i = k + Len(part) /\ k <= i /\ k \in 1 .. i /\ k \in 1 .. k /\ k \in 1 .. Len(path)
  <2>1. i = k + Len(part)
    BY <1>1, <1>2
  <2> QED BY ONLY <1>a, <2>1
<1>4. path[k] = Slash
  BY <1>0, <1>1, <1>2, <1>3
<1>5. ASSUME NEW x \in k + 1 .. i PROVE path[x] # Slash
  <2>1. x \in 1 .. i /\ x \in k + 1 .. k + Len(part)
    BY ONLY <1>a, <1>3
  <2> QED BY <1>1, <1>2, <2>1
<1>6. NameAfter(path, k) = SubSeq(path, k + 1, i)
  <2> DEFINE e == i + 1
  <2>1. e \in k + 1 .. Len(path) + 1 /\ e - 1 = i /\ (i = Len(path) => e = Len(path) + 1)
    BY ONLY <1>a, <1>3
  <2>2. e = Len(path) + 1 \/ path[e] = Slash
    BY <2>1
  <2> HIDE DEF e
  <2>3. \A x \in k + 1 .. e - 1 : path[x] # Slash
    BY <1>5, <2>1
  <2>4. NameAfter(path, k) = SubSeq(path, k + 1, e - 1)
    BY <1>3, <2>1, <2>2, <2>3, NameIs
  <2> QED BY <2>1, <2>4
<1>7. SubSeq(path, k + 1, i) = part
  <2> DEFINE t == SubSeq(path, k + 1, i)
  <2>1. /\ k + 1 \in Nat \ {0} /\ k + 1 <= i + 1 /\ i <= Len(path)
        /\ i - (k + 1) + 1 = Len(part) /\ i \in Nat /\ i <= Len(P)
    <3>1. Len(P) = i
      BY <1>1
    <3> QED BY ONLY <1>a, <1>3, <3>1
  <2>2. /\ t \in Seq(Int) /\ Len(t) = i - (k + 1) + 1
        /\ \A j \in 1 .. i - (k + 1) + 1 : t[j] = path[(k + 1) + j - 1]
    BY <2>1, Cut
  <2> DEFINE u == SubSeq(P, k + 1, i)
  <2>3. /\ u \in Seq(Int) /\ Len(u) = i - (k + 1) + 1
        /\ \A j \in 1 .. i - (k + 1) + 1 : u[j] = P[(k + 1) + j - 1]
    BY <1>1, <2>1, Cut
  <2> HIDE DEF t, u
  <2>4. ASSUME NEW j \in 1 .. Len(t) PROVE t[j] = u[j]
    <3>1. j \in 1 .. i - (k + 1) + 1
      BY <2>2
    <3>2. (k + 1) + j - 1 \in 1 .. i
      BY ONLY <1>a, <1>3, <3>1
    <3> QED BY <1>1, <2>2, <2>3, <3>1, <3>2
  <2>5. t = u
    BY <2>2, <2>3, <2>4, SeqEqual
  <2>6. u = part
    BY <1>2, <1>3 DEF u
  <2> QED BY <2>5, <2>6 DEF t
<1>8. k \in Slashes(path)
  BY <1>0, <1>3, <1>4 DEF Slashes
<1>9. k = i => part = <<>>
  <2>1. k = i => Len(part) = 0
    BY ONLY <1>a, <1>3
  <2> QED BY <1>0, <2>1, EmptySeq
<1> QED BY <1>3, <1>6, <1>7, <1>8, <1>9 DEF k

\* Cleaning a clean path rebuilds it, name by name.
LEMMA CleanStays ==
  ASSUME NEW path \in Seq(NotEnd), path # <<>>, path[1] = Slash, Sane(path),
         {Percent, Question, Number_Sign} \cap {path[x] : x \in DOMAIN path} = {}
  PROVE  HandleURI(path) = path
<1> DEFINE L == Len(path)
           At(i) == Loop(path)[i]
           Kept(i) == <<Slash>> \o At(i).sanepath
           Upto(i) == SubSeq(path, 1, i)
           So(i) == /\ At(i) \in PathState /\ At(i).skip = 0
                    /\ SlashFree(At(i).pathpart) /\ EndsInSlash(Kept(i))
                    /\ Kept(i) \o At(i).pathpart = Upto(i)
           S == {i \in 1 .. L : So(i)}
<1>0. /\ path \in Seq(Int) /\ L \in Nat /\ L # 0 /\ DOMAIN path = 1 .. L
  BY NotEndAreNumbers, LenProperties, EmptySeq
<1>1. /\ At(1) = StartOfPath
      /\ \A i \in 1 .. L : At(i + 1) = Round(At(i), path, i + 1)
  BY <1>0, LoopIs
<1>2. ASSUME NEW i \in 1 .. L
      PROVE  path[i] \in NotEnd /\ path[i] \notin {Percent, Question, Number_Sign}
  <2>1. path[i] \in NotEnd
    BY ElementOfSeq
  <2>2. path[i] \in {path[x] : x \in DOMAIN path}
    BY <1>0
  <2> QED BY <2>1, <2>2
<1>3. So(1)
  <2>1. Good(StartOfPath, <<Slash>>)
    BY GoodStart
  <2>2. StartOfPath.sanepath = <<>> /\ StartOfPath.pathpart = <<>>
    BY DEF StartOfPath
  <2> DEFINE r == <<Slash>>
  <2>3. r \in Seq(Int) /\ r[1] = Slash /\ Len(r) = 1
    BY DEF Slash
  <2>4. (r \o <<>>) \o <<>> = r
    <3> HIDE DEF r
    <3> QED BY <2>3, ConcatEmptySeq
  <2>5. Upto(1) = r
    <3>1. Upto(1) = <<path[1]>> \o SubSeq(path, 2, 1)
      <4>1. 1 \in 1 .. L /\ 1 \in 1 .. L /\ 1 + 1 = 2
        BY <1>0
      <4> QED BY <1>0, <4>1, SubSeqRecursiveFirst
    <3>2. SubSeq(path, 2, 1) = <<>>
      BY SubSeqEmpty
    <3> HIDE DEF Upto
    <3> QED BY <2>3, <3>1, <3>2, ConcatEmptySeq
  <2> HIDE DEF Upto
  <2> QED BY <1>1, <2>1, <2>2, <2>4, <2>5 DEF Good
<1> HIDE DEF L, At, Upto
<1>4. ASSUME NEW i \in 1 .. L - 1, i \in S PROVE i + 1 \in S
  <2> DEFINE p == At(i)
             part == p.pathpart
             sane == p.sanepath
             s == <<Slash>> \o sane
             c == path[i + 1]
             q == At(i + 1)
  <2>1. /\ i \in 1 .. L /\ i + 1 \in 1 .. L /\ ~(i + 1 > L) /\ (i + 1) - 1 = i
        /\ i + 1 \in 1 .. i + 1 /\ 1 \in 1 .. L /\ i + 1 \in 1 .. L
    BY <1>0
  <2>2. /\ p \in PathState /\ p.skip = 0 /\ SlashFree(part) /\ EndsInSlash(s)
        /\ s \o part = Upto(i)
    BY <1>4
  <2>3. /\ sane \in Seq(NotEnd) /\ part \in Seq(NotEnd)
        /\ sane \in Seq(Int) /\ part \in Seq(Int)
    <3>1. sane \in Seq(NotEnd) /\ part \in Seq(NotEnd)
      BY <2>2 DEF PathState
    <3> QED BY <3>1, NotEndAreNumbers
  <2>4. c \in NotEnd /\ c \notin {Percent, Question, Number_Sign} /\ c # End
    BY <1>2, <2>1 DEF NotEnd
  <2>5. q = PathCharacter(p, path, i + 1)
    <3>1. q = Round(p, path, i + 1)
      BY <1>1, <2>1
    <3> HIDE DEF q, p
    <3> QED BY <2>2, <3>1 DEF Round
  <2>6. Upto(i + 1) = Upto(i) \o <<c>>
    <3>1. i + 1 \in 1 .. Len(path) /\ 1 \in 1 .. Len(path)
      BY <2>1 DEF L
    <3>2. SubSeq(path, 1, i + 1) = SubSeq(path, 1, (i + 1) - 1) \o <<path[i + 1]>>
      BY <1>0, <2>1, <3>1, SubSeqRecursiveSecond
    <3> QED BY <2>1, <3>2 DEF Upto
  <2>7. CASE c # Slash
    <3>1. q = [p EXCEPT !.pathpart = Append(part, c)]
      <4> HIDE DEF q
      <4> QED BY <2>1, <2>4, <2>5, <2>7
           DEF PathCharacter, Percent, Slash, End, Question, Number_Sign, L
    <3>2. /\ q \in PathState /\ q.skip = 0 /\ q.sanepath = sane
          /\ q.pathpart = Append(part, c)
      <4>1. Append(part, c) \in Seq(NotEnd)
        BY <2>3, <2>4, AppendProperties
      <4> HIDE DEF q
      <4> QED BY <2>2, <3>1, <4>1 DEF PathState
    <3> HIDE DEF q, p, part, sane
    <3>3. SlashFree(Append(part, c))
      <4>1. c \in Int
        BY <2>4 DEF NotEnd
      <4>2. /\ Append(part, c) \in Seq(Int) /\ Len(Append(part, c)) = Len(part) + 1
            /\ \A j \in 1 .. Len(part) : Append(part, c)[j] = part[j]
            /\ Append(part, c)[Len(part) + 1] = c
        BY <2>3, <4>1, AppendProperties
      <4>3. Len(part) \in Nat
        BY <2>3, LenProperties
      <4>4. ASSUME NEW j \in 1 .. Len(Append(part, c)) PROVE Append(part, c)[j] # Slash
        <5>1. j \in 1 .. Len(part) \/ j = Len(part) + 1
          BY <4>2, <4>3
        <5> QED BY <2>2, <2>7, <4>2, <5>1 DEF SlashFree
      <4> QED BY <4>2, <4>4 DEF SlashFree
    <3>4. s \o Append(part, c) = Upto(i + 1)
      <4>1. c \in Int /\ <<c>> \in Seq(Int) /\ s \in Seq(Int)
        BY <2>2, <2>4 DEF NotEnd, EndsInSlash
      <4>2. Append(part, c) = part \o <<c>>
        BY <2>3, <4>1, AppendIsConcat
      <4> HIDE DEF s, c
      <4>3. (s \o part) \o <<c>> = s \o (part \o <<c>>)
        BY <2>3, <4>1, ConcatAssociative
      <4> QED BY <2>2, <2>6, <4>2, <4>3
    <3>5. So(i + 1)
      BY <2>2, <3>2, <3>3, <3>4 DEF q
    <3> QED BY <2>1, <3>5
  <2>8. CASE c = Slash
    <3>1. Proper(part)
      <4> HIDE DEF part, s
      <4>1. /\ Len(s) \in Slashes(path) /\ Len(s) <= i
            /\ NameAfter(path, Len(s)) = part
        <5>1. i \in 1 .. Len(path) /\ s \o part = SubSeq(path, 1, i) /\ path[i + 1] = Slash
          BY <2>1, <2>2, <2>8 DEF L, Upto
        <5> QED BY <1>0, <2>2, <5>1, PartIsName
      <4>2. Len(s) # Len(path)
        <5>1. Len(s) \in Nat
          BY <2>2 DEF EndsInSlash
        <5>2. i < L /\ i \in Nat /\ L \in Nat
          BY <1>0
        <5> QED BY <4>1, <5>1, <5>2 DEF L
      <4> QED BY <4>1, <4>2 DEF Sane, Proper
    <3> DEFINE kept == (sane \o part) \o <<Slash>>
    <3>2. q = [p EXCEPT !.pathpart = <<>>, !.sanepath = kept]
      <4>1. q = EndOfPart(p, Slash)
        <5> HIDE DEF q
        <5> QED BY <2>1, <2>5, <2>8
             DEF PathCharacter, Percent, Slash, End, Question, Number_Sign, L
      <4> HIDE DEF q, p
      <4>2. Slash # End
        BY DEF Slash, End
      <4> QED BY <2>2, <3>1, <4>1, <4>2 DEF EndOfPart, Proper, PathState
    <3>3. /\ kept \in Seq(NotEnd)
          /\ <<Slash>> \o kept = (s \o part) \o <<Slash>>
      BY <2>3, KeptPart
    <3>4. /\ q \in PathState /\ q.skip = 0 /\ q.sanepath = kept /\ q.pathpart = <<>>
      <4>1. <<>> \in Seq(NotEnd)
        BY EmptySeq
      <4> HIDE DEF q, kept
      <4> QED BY <2>2, <3>2, <3>3, <4>1 DEF PathState
    <3> HIDE DEF q, p, part, sane, kept
    <3>5. EndsInSlash(<<Slash>> \o kept)
      <4> HIDE DEF s
      <4>1. EndsInSlash((s \o part) \o <<Slash>>)
        BY <2>2, Closed
      <4> QED BY ONLY <3>3, <4>1
    <3>6. (<<Slash>> \o kept) \o <<>> = Upto(i + 1)
      <4> DEFINE t == <<Slash>> \o kept
      <4>1. t \in Seq(Int) /\ t = Upto(i + 1)
        BY <2>2, <2>6, <2>8, <3>3, <3>5 DEF EndsInSlash
      <4> HIDE DEF t
      <4>2. t \o <<>> = Upto(i + 1)
        BY <4>1, ConcatEmptySeq
      <4> QED BY <4>2 DEF t
    <3>7. SlashFree(<<>>)
      <4>1. <<>> \in Seq(Int) /\ Len(<<>>) = 0 /\ \A j \in 1 .. 0 : FALSE
        BY EmptySeq
      <4> QED BY <4>1 DEF SlashFree
    <3>8. So(i + 1)
      BY <3>4, <3>5, <3>6, <3>7 DEF q
    <3> QED BY <2>1, <3>8
  <2> QED BY <2>7, <2>8
<1>5. \A i \in 1 .. L : i \in S
  <2>1. 1 \in S
    <3>1. 1 \in 1 .. L
      BY <1>0
    <3> HIDE DEF So
    <3> QED BY <1>3, <3>1
  <2> HIDE DEF S
  <2> QED BY <1>0, <1>4, <2>1, UpTo
<1> DEFINE p == At(L)
           part == p.pathpart
           sane == p.sanepath
           s == <<Slash>> \o sane
<1>6. L \in 1 .. L
  BY <1>0
<1>7. /\ p \in PathState /\ p.skip = 0 /\ SlashFree(part) /\ EndsInSlash(s)
      /\ s \o part = Upto(L)
  BY <1>5, <1>6
<1>8. Upto(L) = path
  BY <1>0, SubSeqFull DEF Upto, L
<1>9. part = <<>> \/ Proper(part)
  <2> HIDE DEF part, s
  <2>1. Len(s) \in Slashes(path) /\ NameAfter(path, Len(s)) = part
    <3>1. /\ L \in 1 .. Len(path) /\ s \o part = SubSeq(path, 1, L) /\ L = Len(path)
      BY <1>6, <1>7 DEF L, Upto
    <3> QED BY <1>0, <1>7, <3>1, PartIsName
  <2> QED BY <2>1 DEF Sane, Proper
<1>10. <<Slash>> \o EndOfPart(p, End).sanepath = path
  <2>1. CASE part = <<>>
    <3>1. EndOfPart(p, End).sanepath = sane
      <4> HIDE DEF p
      <4> QED BY <1>7, <2>1 DEF EndOfPart, PathState
    <3> HIDE DEF p, sane, part
    <3>2. s \o <<>> = s
      <4>1. s \in Seq(Int)
        BY <1>7 DEF EndsInSlash
      <4> HIDE DEF s
      <4> QED BY <4>1, ConcatEmptySeq
    <3> QED BY <1>7, <1>8, <2>1, <3>1, <3>2
  <2>2. CASE Proper(part)
    <3>1. EndOfPart(p, End).sanepath = (sane \o part) \o <<>>
      <4> HIDE DEF p
      <4> QED BY <1>7, <2>2 DEF EndOfPart, PathState, Proper
    <3>2. sane \in Seq(NotEnd) /\ part \in Seq(NotEnd)
      <4> HIDE DEF p
      <4> QED BY <1>7 DEF PathState
    <3> HIDE DEF p, sane, part
    <3>3. <<Slash>> \o ((sane \o part) \o <<>>) = s \o part
      BY <3>2, KeptPart
    <3> QED BY <1>7, <1>8, <3>1, <3>3
  <2> QED BY <1>9, <2>1, <2>2
<1>11. Loop(path)[L + 1].sanepath = EndOfPart(p, End).sanepath
  <2>1. At(L + 1) = Round(p, path, L + 1)
    BY <1>1, <1>6
  <2> HIDE DEF p
  <2>2. p = [skip |-> 0, sanepath |-> p.sanepath, pathpart |-> p.pathpart,
             query |-> p.query]
    BY <1>7 DEF PathState
  <2>3. Round(p, path, L + 1).sanepath = EndOfPart(p, End).sanepath
    BY <1>0, <2>2, LastRound DEF L
  <2> QED BY <2>1, <2>3 DEF At
<1> QED BY <1>0, <1>10, <1>11 DEF HandleURI, L

\* What the loop has, after the terminator, is the path the text means.
LEMMA URIInvSuffices == URIInv => PathIsTheOneMeant
<1> SUFFICES ASSUME URIInv PROVE PathIsTheOneMeant
  OBVIOUS
<1>1. PICK front \in Seq(Int), rest \in Seq(Int) :
        /\ uri = front \o rest /\ Len(front) \in Nat \ {0} /\ front[1] = Slash
        /\ Read(front, meant)
        /\ IF inQuery THEN rest # <<>> /\ rest[1] \in {Question, Number_Sign}
           ELSE rest = <<>>
  BY DEF URIInv
<1>2. rest = <<>> \/ (rest # <<>> /\ rest[1] \in {Question, Number_Sign})
  BY <1>1
<1>3. PICK kept \in Seq(NotEnd) :
        LET path == <<Slash>> \o kept IN
        HandleURI(front \o rest) = path /\ Sane(path) /\ Walk(path) = Walk(meant)
  BY <1>1, <1>2, Served
<1> DEFINE path == <<Slash>> \o kept
<1>4. HandleURI(uri) = path /\ Sane(path) /\ Walk(path) = Walk(meant)
  BY <1>1, <1>3
<1>5. path \in Seq(NotEnd) /\ path # <<>> /\ path[1] = Slash
  <2>1. kept \in Seq(Int)
    BY NotEndAreNumbers
  <2>2. path[1] = Slash /\ Len(path) = Len(kept) + 1 /\ Len(kept) \in Nat
    BY <2>1, FromRoot, LenProperties
  <2>3. <<Slash>> \in Seq(NotEnd)
    BY DEF Slash, NotEnd, End
  <2>4. path \in Seq(NotEnd)
    BY <2>3, ConcatProperties
  <2>5. Len(<<>>) = 0
    BY EmptySeq
  <2> HIDE DEF path
  <2> QED BY <2>2, <2>4, <2>5
<1> HIDE DEF path
<1>6. {Percent, Question, Number_Sign} \cap {path[x] : x \in DOMAIN path} = {}
        => HandleURI(path) = path
  BY <1>4, <1>5, CleanStays
<1> QED BY <1>4, <1>5, <1>6 DEF PathIsTheOneMeant, Sane

\* Whatever is sent, the path that is served is the one that was meant, below
\* the root, and cleaning it again changes nothing (request.cpp:204-307).
THEOREM PathAlwaysTheOneMeant == URISpec => []PathIsTheOneMeant
<1>1. URISpec => []URIInv
  BY URIInitially, URIStep, PTL DEF URISpec
<1> QED BY <1>1, URIInvSuffices, PTL

-----------------------------------------------------------------------------
(* ConfigFile: the texts of several things, one after the other.            *)

\* What FlattenSeq puts together, one sequence after the other.
LEMMA FlattenIs ==
  ASSUME NEW T, NEW s \in Seq(Seq(T)), NEW at \in [0 .. Len(s) -> Seq(T)],
         at[0] = <<>>, \A i \in 1 .. Len(s) : at[i] = at[i - 1] \o s[i]
  PROVE  FlattenSeq(s) = at[Len(s)]
<1>0. Len(s) \in Nat /\ \A i \in 1 .. Len(s) : s[i] \in Seq(T)
  BY LenProperties, ElementOfSeq
<1>1. CASE s = <<>>
  BY <1>1 DEF FlattenSeq
<1>2. CASE s # <<>>
  <2> DEFINE N == Len(s)
             Is(f) == f = [i \in 1 .. N |->
                            IF i = 1 THEN s[i] ELSE f[i - 1] \o s[i]]
             g == [i \in 1 .. N |-> at[i]]
             flatten == CHOOSE f : Is(f)
  <2>1. N \in Nat \ {0}
    BY <1>0, <1>2, EmptySeq
  <2>2. FlattenSeq(s) = flatten[N]
    BY <2>1 DEF FlattenSeq
  <2> HIDE DEF N
  <2>3. Is(g)
    <3>1. ASSUME NEW i \in 1 .. N
          PROVE  g[i] = IF i = 1 THEN s[i] ELSE g[i - 1] \o s[i]
      <4>1. at[i] = at[i - 1] \o s[i] /\ g[i] = at[i] /\ s[i] \in Seq(T)
        BY <1>0 DEF N
      <4>2. CASE i = 1
        <5>1. i - 1 = 0
          BY <4>2
        <5>2. at[i] = <<>> \o s[i]
          BY <4>1, <5>1
        <5> QED BY <4>1, <4>2, <5>2, ConcatEmptySeq
      <4>3. CASE i # 1
        <5>1. i - 1 \in 1 .. N
          BY <2>1, <4>3
        <5> QED BY <4>1, <4>3, <5>1
      <4> QED BY <4>2, <4>3
    <3> QED BY <3>1
  <2>4. Is(flatten)
    BY <2>3
  <2> HIDE DEF flatten, g
  <2> DEFINE Same == {i \in 1 .. N : flatten[i] = at[i]}
  <2>5. ASSUME NEW i \in 1 .. N
        PROVE  flatten[i] = IF i = 1 THEN s[i] ELSE flatten[i - 1] \o s[i]
    BY <2>4
  <2>6. 1 \in Same
    <3>1. 1 \in 1 .. N /\ 1 - 1 = 0
      BY <2>1
    <3>2. flatten[1] = s[1] /\ s[1] \in Seq(T) /\ at[1] = <<>> \o s[1]
      BY <1>0, <2>5, <3>1 DEF N
    <3> QED BY <3>1, <3>2, ConcatEmptySeq
  <2>7. ASSUME NEW n \in 1 .. N - 1, n \in Same PROVE n + 1 \in Same
    <3>1. n + 1 \in 1 .. N /\ (n + 1) - 1 = n /\ n + 1 # 1
      BY <2>1
    <3>2. flatten[n + 1] = flatten[n] \o s[n + 1] /\ at[n + 1] = at[n] \o s[n + 1]
      BY <2>5, <3>1 DEF N
    <3> QED BY <2>7, <3>1, <3>2
  <2> HIDE DEF Same
  <2>8. N \in Same
    <3>1. \A n \in 1 .. N : n \in Same
      BY <2>1, <2>6, <2>7, UpTo
    <3> QED BY <2>1, <3>1
  <2> QED BY <2>2, <2>8 DEF Same, N
<1> QED BY <1>1, <1>2

\* A sequence that is longer by one.
LEMMA Longer ==
  ASSUME NEW S, NEW s \in Seq(S), NEW x \in S
  PROVE  /\ Append(s, x) \in Seq(S) /\ Len(Append(s, x)) = Len(s) + 1
         /\ Append(s, x)[Len(s) + 1] = x
         /\ \A i \in 1 .. Len(s) : Append(s, x)[i] = s[i]
BY AppendProperties, LenProperties

\* FlattenSeq of a sequence that is longer by one.
LEMMA FlattenAppend ==
  ASSUME NEW T, NEW s \in Seq(Seq(T)), NEW x \in Seq(T)
  PROVE  /\ FlattenSeq(s) \in Seq(T)
         /\ FlattenSeq(Append(s, x)) = FlattenSeq(s) \o x
<1> DEFINE t == Append(s, x)
           N == Len(s)
           F == [i \in 1 .. N + 1 |-> [w \in Seq(T) |-> w \o t[i]]]
<1>1. /\ N \in Nat /\ t \in Seq(Seq(T)) /\ Len(t) = N + 1 /\ t[N + 1] = x
      /\ \A i \in 1 .. N : t[i] = s[i]
  BY LenProperties, Longer
<1> HIDE DEF N, t
<1>2. \A i \in 1 .. N + 1 : t[i] \in Seq(T)
  BY <1>1, ElementOfSeq
<1>3. F \in [1 .. N + 1 -> [Seq(T) -> Seq(T)]]
  BY <1>2, ConcatProperties
<1> DEFINE M == N + 1
<1>4. <<>> \in Seq(T) /\ M \in Nat /\ F \in [1 .. M -> [Seq(T) -> Seq(T)]]
  BY <1>1, <1>3, EmptySeq
<1> HIDE DEF F, M
<1>5. PICK at \in [0 .. M -> Seq(T)] :
        at[0] = <<>> /\ \A i \in 1 .. M : at[i] = F[i][at[i - 1]]
  <2> DEFINE D == Seq(T)
             first == <<>>
  <2> HIDE DEF D, first
  <2>1. M \in Nat /\ first \in D /\ Steps(F, D, M)
    BY <1>4 DEF D, first, Steps
  <2>2. \E at : Given(at, first, F, D, M)
    BY ONLY <2>1, Recursion
  <2> QED BY <2>2 DEF D, first, Given
<1> USE DEF M
<1>6. ASSUME NEW i \in 1 .. N + 1 PROVE at[i] = at[i - 1] \o t[i]
  <2>1. i - 1 \in 0 .. N + 1
    BY <1>1
  <2>2. at[i - 1] \in Seq(T)
    BY <1>5, <2>1
  <2>3. at[i] = F[i][at[i - 1]]
    BY <1>5
  <2> QED BY <2>2, <2>3 DEF F
<1>7. FlattenSeq(t) = at[N + 1]
  <2>1. /\ at \in [0 .. Len(t) -> Seq(T)] /\ at[0] = <<>>
        /\ \A i \in 1 .. Len(t) : at[i] = at[i - 1] \o t[i]
    BY <1>1, <1>5, <1>6
  <2>2. FlattenSeq(t) = at[Len(t)]
    BY ONLY <1>1, <2>1, FlattenIs
  <2> QED BY <1>1, <2>2
<1>8. FlattenSeq(s) = at[N]
  <2> DEFINE less == [i \in 0 .. N |-> at[i]]
  <2>1. \A i \in 0 .. N : i \in 0 .. N + 1
    BY <1>1
  <2>2. less \in [0 .. N -> Seq(T)] /\ less[0] = <<>>
    BY <1>1, <1>5, <2>1
  <2>3. ASSUME NEW i \in 1 .. N PROVE less[i] = less[i - 1] \o s[i]
    <3>1. i \in 1 .. N + 1 /\ i - 1 \in 0 .. N /\ i \in 0 .. N
      BY <1>1
    <3> QED BY <1>1, <1>6, <3>1
  <2>4. less[N] = at[N]
    BY <1>1
  <2> HIDE DEF less
  <2> QED BY <2>2, <2>3, <2>4, FlattenIs DEF N
<1>9. at[N] \in Seq(T) /\ at[N + 1] = at[N] \o x
  <2>1. N \in 0 .. N + 1 /\ N + 1 \in 1 .. N + 1 /\ (N + 1) - 1 = N
    <3>1. N \in Nat
      BY <1>1
    <3> QED BY ONLY <3>1
  <2> QED BY <1>1, <1>5, <1>6, <2>1
<1> QED BY <1>7, <1>8, <1>9 DEF t

-----------------------------------------------------------------------------
(* What the local variables may hold.                                       *)

Word == Letters \cup {"*", "/"}
Value == Characters \ {"\""}
Item == [key : Seq(Word) \ {<<>>}, value : Seq(Value) \ {<<>>}]
Section == [tag : Seq(Word) \ {<<>>}, items : Seq(Item)]
Locals ==
  [ok : BOOLEAN, ch : Characters \cup {""}, skip : BOOLEAN, rest : BOOLEAN,
   section : Seq(Word), itemname : Seq(Word), wordbuffer : Seq(Value),
   in_word : BOOLEAN, in_quote : BOOLEAN, in_ml_comment : BOOLEAN,
   sectiondata : Seq(Item), target : Seq(Section)]

\* Items are in a section, and quoted values in an item.
Nested(c) ==
  /\ c.section = <<>> => c.sectiondata = <<>> /\ c.itemname = <<>>
  /\ c.itemname = <<>> => c.wordbuffer \in Seq(Word)
  /\ c.in_quote => /\ c.itemname # <<>>
                   /\ ~c.skip /\ ~c.rest /\ ~c.in_ml_comment
Confs == {c \in Locals : Nested(c)}

\* The reader starts that way, and stays that way whatever it reads: Error,
\* Quote, Equals, OpenSection, CloseSection, Letter, EndOfLine, Quoted, Commented.
LEMMA StartNested == Start \in Confs
BY EmptySeq DEF Start, Confs, Locals, Nested

\* After an error everything but ok is as it was.
LEMMA ErrorNested ==
  ASSUME NEW c \in Confs
  PROVE  Error(c) \in Confs
BY DEF Error, Confs, Locals, Nested

\* A quote begins a value, in an item.
LEMMA QuoteNested ==
  ASSUME NEW c \in Confs, ~c.skip, ~c.rest, ~c.in_ml_comment
  PROVE  Quote(c) \in Confs
BY ErrorNested DEF Quote, Confs, Locals, Nested

\* An equals sign ends a key.
LEMMA EqualsNested ==
  ASSUME NEW c \in Confs, ~c.in_quote
  PROVE  Equals(c) \in Confs
BY ErrorNested, EmptySeq DEF Equals, Confs, Locals, Nested

\* An opening brace ends a tag.
LEMMA OpenNested ==
  ASSUME NEW c \in Confs, ~c.in_quote
  PROVE  OpenSection(c) \in Confs
BY ErrorNested, EmptySeq DEF OpenSection, Confs, Locals, Nested

\* A closing brace ends a section, and no item of it is open.
LEMMA CloseNested ==
  ASSUME NEW c \in Confs, ~c.in_quote
  PROVE  CloseSection(c) \in Confs
<1>1. CASE c.section = <<>> \/ c.wordbuffer # <<>> \/ c.itemname # <<>>
  BY <1>1, ErrorNested DEF CloseSection
<1>2. CASE ~(c.section = <<>> \/ c.wordbuffer # <<>> \/ c.itemname # <<>>)
  <2> DEFINE new == [tag |-> c.section, items |-> c.sectiondata]
             longer == Append(c.target, new)
             d == [c EXCEPT !.target = longer, !.section = <<>>, !.sectiondata = <<>>]
  <2>1. new \in Section
    BY <1>2 DEF Confs, Locals, Section
  <2>2. c.target \in Seq(Section) /\ c \in Locals
    BY DEF Confs, Locals
  <2> HIDE DEF new
  <2>3. longer \in Seq(Section)
    BY <2>1, <2>2, AppendProperties
  <2> HIDE DEF longer
  <2>4. <<>> \in Seq(Word) /\ <<>> \in Seq(Item)
    BY EmptySeq
  <2>5. d \in Locals
    BY <2>2, <2>3, <2>4 DEF Locals
  <2>6. /\ d.section = <<>> /\ d.sectiondata = <<>> /\ d.itemname = <<>>
        /\ d.wordbuffer = <<>> /\ ~d.in_quote
    BY <1>2, <2>2 DEF Locals
  <2>7. CloseSection(c) = d
    BY <1>2 DEF CloseSection, longer, new
  <2> HIDE DEF d
  <2>8. Nested(d)
    BY <2>4, <2>6 DEF Nested
  <2> QED BY <2>5, <2>7, <2>8 DEF Confs
<1> QED BY <1>1, <1>2

\* A letter is added to a word.
LEMMA LetterNested ==
  ASSUME NEW c \in Confs, c.ch \in Word, ~c.in_quote
  PROVE  Letter(c) \in Confs
<1>1. CASE ~c.in_word /\ c.wordbuffer # <<>>
  BY <1>1, ErrorNested DEF Letter
<1>2. CASE ~(~c.in_word /\ c.wordbuffer # <<>>)
  <2> DEFINE longer == Append(c.wordbuffer, c.ch)
             d == [c EXCEPT !.wordbuffer = longer, !.in_word = TRUE]
  <2>1. c \in Locals /\ Nested(c) /\ c.wordbuffer \in Seq(Value)
    BY DEF Confs, Locals
  <2>2. c.ch \in Value
    BY TextsAssumption DEF Word, Value, Characters, Syntax
  <2>3. longer \in Seq(Value)
    BY <2>1, <2>2, AppendProperties
  <2>4. c.itemname = <<>> => longer \in Seq(Word)
    BY <2>1, AppendProperties DEF Nested
  <2> HIDE DEF longer
  <2>5. d \in Locals
    BY <2>1, <2>3 DEF Locals
  <2>6. /\ d.section = c.section /\ d.sectiondata = c.sectiondata
        /\ d.itemname = c.itemname /\ d.wordbuffer = longer /\ ~d.in_quote
    BY <2>1 DEF Locals
  <2>7. Letter(c) = d
    BY <1>2 DEF Letter, longer
  <2> HIDE DEF d
  <2>8. Nested(d)
    BY <2>1, <2>4, <2>6 DEF Nested
  <2> QED BY <2>5, <2>7, <2>8 DEF Confs
<1> QED BY <1>1, <1>2

\* The end of a line ends an item, unless it is part of a value.
LEMMA EndOfLineNested ==
  ASSUME NEW c \in Confs
  PROVE  EndOfLine(c) \in Confs
<1>0. c \in Locals /\ Nested(c) /\ c.wordbuffer \in Seq(Value)
  BY DEF Confs, Locals
<1>1. CASE c.in_quote
  <2> DEFINE longer == Append(c.wordbuffer, "\n")
             d == [c EXCEPT !.wordbuffer = longer]
  <2>1. "\n" \in Value
    BY DEF Value, Characters, Syntax
  <2>2. longer \in Seq(Value)
    BY <1>0, <2>1, AppendProperties
  <2> HIDE DEF longer
  <2>3. d \in Locals
    BY <1>0, <2>2 DEF Locals
  <2>4. /\ d.section = c.section /\ d.sectiondata = c.sectiondata
        /\ d.itemname = c.itemname /\ d.in_quote = c.in_quote
        /\ d.skip = c.skip /\ d.rest = c.rest /\ d.in_ml_comment = c.in_ml_comment
    BY <1>0 DEF Locals
  <2>5. EndOfLine(c) = d
    BY <1>1 DEF EndOfLine, longer
  <2> HIDE DEF d
  <2>6. Nested(d)
    BY <1>0, <1>1, <2>4 DEF Nested
  <2> QED BY <2>3, <2>5, <2>6 DEF Confs
<1>2. CASE ~c.in_quote
  <2> DEFINE d == [c EXCEPT !.in_word = FALSE, !.rest = FALSE]
  <2>1. d \in Confs
    BY DEF Confs, Locals, Nested
  <2>2. /\ d.section = c.section /\ d.sectiondata = c.sectiondata
        /\ d.itemname = c.itemname /\ d.wordbuffer = c.wordbuffer /\ ~d.in_quote
    BY <1>0, <1>2 DEF Locals
  <2> DEFINE new == [key |-> d.itemname, value |-> d.wordbuffer]
             longer == Append(d.sectiondata, new)
             e == [d EXCEPT !.sectiondata = longer, !.wordbuffer = <<>>,
                            !.itemname = <<>>]
  <2>3. EndOfLine(c) = IF d.itemname = <<>> THEN d
                       ELSE IF d.wordbuffer = <<>> THEN Error(d) ELSE e
    BY <1>2 DEF EndOfLine
  <2> HIDE DEF d
  <2>4. d \in Locals /\ Nested(d)
    BY <2>1 DEF Confs
  <2>5. CASE d.itemname # <<>> /\ d.wordbuffer # <<>>
    <3>1. new \in Item /\ d.sectiondata \in Seq(Item)
      BY <2>4, <2>5 DEF Item, Locals
    <3> HIDE DEF new
    <3>2. longer \in Seq(Item)
      BY <3>1, AppendProperties
    <3> HIDE DEF longer
    <3>3. <<>> \in Seq(Word) /\ <<>> \in Seq(Value)
      BY EmptySeq
    <3>4. e \in Locals
      BY <2>4, <3>2, <3>3 DEF Locals
    <3>5. /\ e.section = d.section /\ e.itemname = <<>> /\ e.wordbuffer = <<>>
          /\ ~e.in_quote
      BY <2>2, <2>4 DEF Locals
    <3>6. d.section # <<>>
      BY <2>4, <2>5 DEF Nested
    <3> HIDE DEF e
    <3>7. Nested(e)
      BY <3>3, <3>5, <3>6 DEF Nested
    <3> QED BY <2>3, <2>5, <3>4, <3>7 DEF Confs
  <2> HIDE DEF e
  <2> QED BY <2>1, <2>3, <2>5, ErrorNested
<1> QED BY <1>1, <1>2

\* What is in quotes is part of a value.
LEMMA QuotedNested ==
  ASSUME NEW c \in Confs, c.in_quote, c.ch # ""
  PROVE  Quoted(c) \in Confs
<1>1. c.ch # "\"" => c.ch \in Value
  BY DEF Confs, Locals, Value
<1> QED BY <1>1, AppendProperties DEF Quoted, Confs, Locals, Nested

\* What is in a comment changes nothing else.
LEMMA CommentedNested ==
  ASSUME NEW c \in Confs, ~c.in_quote, NEW next
  PROVE  Commented(c, next) \in Confs
BY DEF Commented, Confs, Locals, Nested

\* The body of the loop.
LEMMA CharacterNested ==
  ASSUME NEW c \in Confs, NEW next, c.ch \notin {"", "\n"}, ~c.skip, ~c.rest
  PROVE  Character(c, next) \in Confs
<1>0. c.ch \in Characters
  BY DEF Confs, Locals
<1>1. CASE c.in_quote
  BY <1>1, QuotedNested DEF Character
<1>2. CASE ~c.in_quote /\ c.in_ml_comment
  BY <1>2, CommentedNested DEF Character
<1>3. CASE ~c.in_quote /\ ~c.in_ml_comment
  <2>1. [c EXCEPT !.rest = TRUE] \in Confs
    BY <1>3 DEF Confs, Locals, Nested
  <2>2. [c EXCEPT !.in_ml_comment = TRUE, !.skip = TRUE] \in Confs
    BY <1>3 DEF Confs, Locals, Nested
  <2>3. [c EXCEPT !.in_word = FALSE] \in Confs
    BY <1>3 DEF Confs, Locals, Nested
  <2>4. Quote(c) \in Confs
    BY <1>3, QuoteNested
  <2>5. Equals(c) \in Confs /\ OpenSection(c) \in Confs /\ CloseSection(c) \in Confs
    BY <1>3, EqualsNested, OpenNested, CloseNested
  <2>6. c.ch \notin {"#", "\"", "=", "{", "}", ";", " "} => Letter(c) \in Confs
    <3> SUFFICES ASSUME c.ch \notin {"#", "\"", "=", "{", "}", ";", " "}
                 PROVE  Letter(c) \in Confs
      OBVIOUS
    <3>1. c.ch \in Word
      BY <1>0 DEF Characters, Syntax, Word
    <3> QED BY <1>3, <3>1, LetterNested
  <2> HIDE DEF Confs
  <2> QED BY <1>3, <2>1, <2>2, <2>3, <2>4, <2>5, <2>6 DEF Character
<1> QED BY <1>1, <1>2, <1>3

\* One character more.
LEMMA AdvanceNested ==
  ASSUME NEW c \in Confs, NEW next \in Characters \cup {""}
  PROVE  Advance(c, next) \in Confs
<1>1. ASSUME NEW d \in Confs PROVE [d EXCEPT !.ch = next] \in Confs
  BY DEF Confs, Locals, Nested
<1>2. [c EXCEPT !.skip = FALSE] \in Confs
  BY DEF Confs, Locals, Nested
<1>3. EndOfLine(c) \in Confs
  BY EndOfLineNested
<1>4. ~c.skip /\ c.ch # "\n" /\ ~(c.ch = "" \/ c.rest) => Character(c, next) \in Confs
  BY CharacterNested
<1> QED BY <1>1, <1>2, <1>3, <1>4 DEF Advance

-----------------------------------------------------------------------------
(* Reading a text.                                                          *)

Text == Seq(Characters)

\* Reading is the loop over the characters (configreader.cpp:680-892).
LEMMA ReadingIs ==
  ASSUME NEW text \in Text
  PROVE  LET at == Reading(text) IN
         /\ at \in [0 .. Len(text) -> Confs] /\ at[0] = Start
         /\ \A i \in 1 .. Len(text) : at[i] = Advance(at[i - 1], text[i])
<1> DEFINE N == Len(text)
           F == [i \in 1 .. N |-> [c \in Confs |-> Advance(c, text[i])]]
           Is(at) == at = [i \in 0 .. N |->
                            IF i = 0 THEN Start ELSE Advance(at[i - 1], text[i])]
<1>1. N \in Nat /\ \A i \in 1 .. N : text[i] \in Characters
  BY LenProperties, ElementOfSeq DEF Text
<1> HIDE DEF N
<1>2. Steps(F, Confs, N)
  BY <1>1, AdvanceNested DEF Steps
<1>3. PICK g : Given(g, Start, F, Confs, N)
  BY <1>1, <1>2, StartNested, Recursion
<1>4. ASSUME NEW i \in 1 .. N PROVE g[i] = Advance(g[i - 1], text[i])
  <2>1. i - 1 \in 0 .. N
    BY <1>1
  <2>2. g[i] = F[i][g[i - 1]] /\ g[i - 1] \in Confs
    BY <1>3, <2>1 DEF Given
  <2> QED BY <2>2
<1>5. Is(g)
  <2>1. g \in [0 .. N -> Confs] /\ g[0] = Start
    BY <1>3 DEF Given
  <2>2. \A i \in 0 .. N : i # 0 => i \in 1 .. N
    <3>1. N \in Nat
      BY <1>1
    <3> QED BY ONLY <3>1
  <2> QED BY <1>4, <2>1, <2>2
<1> DEFINE at == CHOOSE f : Is(f)
<1>6. Is(at)
  BY <1>5
<1>7. Reading(text) = at
  BY DEF Reading, N
<1> HIDE DEF at
<1>8. at[0] = Start
  BY <1>1, <1>6
<1>9. ASSUME NEW i \in 1 .. N PROVE at[i] = Advance(at[i - 1], text[i])
  <2>1. i \in 0 .. N /\ i # 0
    BY <1>1
  <2> HIDE DEF Is
  <2>2. at = [j \in 0 .. N |-> IF j = 0 THEN Start ELSE Advance(at[j - 1], text[j])]
    BY <1>6 DEF Is
  <2> QED BY <2>1, <2>2
<1>10. \A i \in 0 .. N : at[i] \in Confs
  <2> DEFINE Typed == {i \in 0 .. N : at[i] \in Confs}
  <2>1. 0 \in Typed
    BY <1>1, <1>8, StartNested
  <2>2. ASSUME NEW n \in 0 .. N - 1, n \in Typed PROVE n + 1 \in Typed
    <3>1. n + 1 \in 1 .. N /\ (n + 1) - 1 = n /\ n + 1 \in 0 .. N
      BY <1>1
    <3>2. at[n + 1] = Advance(at[n], text[n + 1]) /\ text[n + 1] \in Characters
      BY <1>1, <1>9, <3>1
    <3> QED BY <2>2, <3>1, <3>2, AdvanceNested
  <2> HIDE DEF Typed
  <2>3. \A i \in 0 .. N : i \in Typed
    BY <1>1, <2>1, <2>2, UpTo
  <2> QED BY <2>3 DEF Typed
<1>11. at \in [0 .. N -> Confs]
  <2>1. DOMAIN at = 0 .. N /\ at = [i \in 0 .. N |-> at[i]]
    BY <1>6
  <2> QED BY <1>10, <2>1
<1> QED BY <1>7, <1>8, <1>9, <1>11 DEF N

\* What the reader has become when a text is read.
After(text) == Reading(text)[Len(text)]

\* Reading one character more.
LEMMA AfterIs ==
  ASSUME NEW text \in Text, NEW x \in Characters
  PROVE  /\ After(<<>>) = Start /\ <<>> \in Text
         /\ After(text) \in Confs /\ Append(text, x) \in Text
         /\ After(Append(text, x)) = Advance(After(text), x)
<1> DEFINE N == Len(text)
           long == Append(text, x)
           f == Reading(text)
           g == Reading(long)
           F == [i \in 1 .. N |-> [c \in Confs |-> Advance(c, text[i])]]
<1>1. /\ long \in Text /\ Len(long) = N + 1 /\ long[N + 1] = x
      /\ \A i \in 1 .. N : long[i] = text[i]
  BY Longer DEF Text
<1>2. N \in Nat
  BY LenProperties DEF Text
<1> HIDE DEF N, long
<1>3. /\ f \in [0 .. N -> Confs] /\ f[0] = Start
      /\ \A i \in 1 .. N : f[i] = Advance(f[i - 1], text[i])
  BY ReadingIs DEF N
<1>4. /\ g \in [0 .. N + 1 -> Confs] /\ g[0] = Start
      /\ \A i \in 1 .. N + 1 : g[i] = Advance(g[i - 1], long[i])
  BY <1>1, ReadingIs
<1> HIDE DEF f, g
<1>5. ASSUME NEW i \in 1 .. N
      PROVE  f[i] = F[i][f[i - 1]] /\ g[i] = F[i][g[i - 1]]
  <2>1. i - 1 \in 0 .. N /\ i - 1 \in 0 .. N + 1 /\ i \in 1 .. N + 1
    BY <1>2
  <2>2. f[i - 1] \in Confs /\ g[i - 1] \in Confs
    BY <1>3, <1>4, <2>1
  <2>3. f[i] = Advance(f[i - 1], text[i]) /\ g[i] = Advance(g[i - 1], text[i])
    BY <1>1, <1>3, <1>4, <2>1
  <2> QED BY <2>2, <2>3
<1> HIDE DEF F
<1>6. \A i \in 0 .. N : f[i] = g[i]
  <2>1. f[0] = g[0]
    BY <1>3, <1>4
  <2>2. Goes(f, F, N) /\ Goes(g, F, N)
    BY <1>5 DEF Goes
  <2> QED BY ONLY <1>2, <2>1, <2>2, SameRecursion
<1>7. f[N] = g[N] /\ f[N] \in Confs /\ g[N + 1] = Advance(g[N], x)
  <2>1. N \in 0 .. N /\ N + 1 \in 1 .. N + 1 /\ (N + 1) - 1 = N
    BY ONLY <1>2
  <2>2. g[N + 1] = Advance(g[(N + 1) - 1], long[N + 1])
    BY <1>4, <2>1
  <2> QED BY <1>1, <1>3, <1>6, <2>1, <2>2
<1>8. After(text) = f[N] /\ After(long) = g[N + 1]
  BY <1>1 DEF After, f, g, N
<1>9. <<>> \in Text /\ After(<<>>) = Start
  <2>1. <<>> \in Text /\ Len(<<>>) = 0
    BY EmptySeq DEF Text
  <2> QED BY <2>1, ReadingIs DEF After
<1> QED BY <1>1, <1>7, <1>8, <1>9 DEF long

-----------------------------------------------------------------------------
(* What has been said.                                                      *)

\* What is said is made of characters.
LEMMA Sayable ==
  /\ Seq(Word) \subseteq Text /\ Seq(Value) \subseteq Text /\ <<>> \in Text
  /\ \A item \in Item : item.key \in Text /\ item.value \in Text
<1>1. Word \subseteq Characters /\ Value \subseteq Characters
  BY DEF Word, Value, Characters, Syntax
<1>2. Seq(Word) \subseteq Text /\ Seq(Value) \subseteq Text
  BY <1>1, SeqMonotonic DEF Text
<1> QED BY <1>2, EmptySeq DEF Item, Text

All(f, t) == FlattenSeq([i \in 1 .. Len(t) |-> f[t[i]]])

\* The texts of the elements of a sequence, one after the other.
LEMMA FlattenTexts ==
  ASSUME NEW S, NEW T, NEW f \in [S -> Seq(T)], NEW s \in Seq(S), NEW x \in S
  PROVE  /\ All(f, <<>>) = <<>> /\ All(f, s) \in Seq(T)
         /\ All(f, Append(s, x)) = All(f, s) \o f[x]
<1> DEFINE texts(t) == [i \in 1 .. Len(t) |-> f[t[i]]]
           N == Len(s)
           long == Append(s, x)
<1>1. ASSUME NEW t \in Seq(S)
      PROVE  texts(t) \in Seq(Seq(T)) /\ Len(texts(t)) = Len(t)
  <2>1. Len(t) \in Nat /\ \A i \in 1 .. Len(t) : f[t[i]] \in Seq(T)
    BY LenProperties, ElementOfSeq
  <2> QED BY <2>1, IsASeq
<1>2. /\ N \in Nat /\ Len(long) = N + 1 /\ long[N + 1] = x /\ long \in Seq(S)
      /\ \A i \in 1 .. N : long[i] = s[i]
  BY Longer, LenProperties
<1> DEFINE y == f[x]
<1>3. Len(texts(s)) = N /\ texts(s) \in Seq(Seq(T)) /\ y \in Seq(T)
  BY <1>1
<1>4. /\ Len(Append(texts(s), y)) = N + 1 /\ Append(texts(s), y)[N + 1] = y
      /\ \A i \in 1 .. N : Append(texts(s), y)[i] = texts(s)[i]
      /\ Append(texts(s), y) \in Seq(Seq(T))
  BY <1>3, Longer
<1>5. texts(long) \in Seq(Seq(T)) /\ Len(texts(long)) = N + 1
  BY <1>1, <1>2
<1>6. ASSUME NEW i \in 1 .. N + 1 PROVE texts(long)[i] = Append(texts(s), y)[i]
  <2>1. i = N + 1 \/ i \in 1 .. N
    BY <1>2
  <2>2. texts(long)[i] = f[long[i]]
    BY <1>2
  <2>3. i \in 1 .. N => texts(s)[i] = f[s[i]]
    OBVIOUS
  <2> HIDE DEF texts, long, N
  <2> QED BY <1>2, <1>4, <2>1, <2>2, <2>3
<1> HIDE DEF texts, long, N, y
<1>7. texts(long) = Append(texts(s), y)
  BY <1>4, <1>5, <1>6, SeqEqual
<1>8. FlattenSeq(texts(s)) \in Seq(T)
      /\ FlattenSeq(texts(long)) = FlattenSeq(texts(s)) \o y
  BY <1>3, <1>7, FlattenAppend
<1>9. FlattenSeq(texts(<<>>)) = <<>>
  BY DEF texts, FlattenSeq
<1> QED BY <1>8, <1>9 DEF texts, long, y, All

\* What the items of a section say, when there is one item more.
LEMMA SaidItemsAppend ==
  ASSUME NEW items \in Seq(Item), NEW item \in Item
  PROVE  /\ SaidItems(items) \in Text /\ SaidItems(<<>>) = <<>>
         /\ SaidItems(Append(items, item))
              = SaidItems(items) \o (item.key \o item.value)
<1> DEFINE f == [e \in Item |-> e.key \o e.value]
           all(t) == All(f, t)
<1>1. f \in [Item -> Text]
  BY Sayable, ConcatProperties DEF Text
<1>2. ASSUME NEW s \in Seq(Item) PROVE SaidItems(s) = all(s)
  <2>1. \A i \in 1 .. Len(s) : s[i] \in Item
    BY ElementOfSeq
  <2> QED BY <2>1 DEF SaidItems, All
<1>3. <<>> \in Seq(Item) /\ Append(items, item) \in Seq(Item)
  BY EmptySeq, AppendProperties
<1>4. f[item] = item.key \o item.value
  OBVIOUS
<1> HIDE DEF f
<1>5. /\ all(<<>>) = <<>> /\ all(items) \in Text
      /\ all(Append(items, item)) = all(items) \o f[item]
  BY <1>1, FlattenTexts DEF Text
<1> QED BY <1>2, <1>3, <1>4, <1>5

\* What the items of a section say is a text.
LEMMA SaidItemsType ==
  ASSUME NEW items \in Seq(Item)
  PROVE  SaidItems(items) \in Text /\ SaidItems(<<>>) = <<>>
<1> DEFINE item == [key |-> <<"*">>, value |-> <<"*">>]
<1>1. <<"*">> \in Seq(Word) \ {<<>>} /\ <<"*">> \in Seq(Value) \ {<<>>}
  BY DEF Word, Value, Characters, Syntax
<1>2. item \in Item
  BY <1>1 DEF Item
<1> QED BY <1>2, SaidItemsAppend

\* What a file says, when there is one section more.
LEMMA SaidAppend ==
  ASSUME NEW target \in Seq(Section), NEW section \in Section
  PROVE  /\ Said(target) \in Text /\ Said(<<>>) = <<>>
         /\ Said(Append(target, section))
              = Said(target) \o (section.tag \o SaidItems(section.items))
<1> DEFINE f == [e \in Section |-> e.tag \o SaidItems(e.items)]
           all(t) == All(f, t)
<1>1. f \in [Section -> Text]
  <2> SUFFICES ASSUME NEW e \in Section PROVE e.tag \o SaidItems(e.items) \in Text
    OBVIOUS
  <2>1. e.tag \in Text /\ e.items \in Seq(Item)
    BY Sayable DEF Section
  <2>2. SaidItems(e.items) \in Text
    BY <2>1, SaidItemsType
  <2> QED BY <2>1, <2>2, ConcatProperties DEF Text
<1>2. ASSUME NEW s \in Seq(Section) PROVE Said(s) = all(s)
  <2>1. \A i \in 1 .. Len(s) : s[i] \in Section
    BY ElementOfSeq
  <2> QED BY <2>1 DEF Said, All
<1>3. <<>> \in Seq(Section) /\ Append(target, section) \in Seq(Section)
  BY EmptySeq, AppendProperties
<1>4. f[section] = section.tag \o SaidItems(section.items)
  OBVIOUS
<1> HIDE DEF f
<1>5. /\ all(<<>>) = <<>> /\ all(target) \in Text
      /\ all(Append(target, section)) = all(target) \o f[section]
  BY <1>1, FlattenTexts DEF Text
<1> QED BY <1>2, <1>3, <1>4, <1>5

\* What a file says is a text.
LEMMA SaidType ==
  ASSUME NEW target \in Seq(Section)
  PROVE  Said(target) \in Text /\ Said(<<>>) = <<>>
<1> DEFINE section == [tag |-> <<"*">>, items |-> <<>>]
<1>1. <<"*">> \in Seq(Word) \ {<<>>} /\ <<>> \in Seq(Item)
  BY EmptySeq DEF Word
<1>2. section \in Section
  BY <1>1 DEF Section
<1> QED BY <1>2, SaidAppend

\* What the reader has kept, in the order in which it was read.
Kept(c) ==
  (Said(c.target) \o (c.section \o SaidItems(c.sectiondata)))
    \o (c.itemname \o c.wordbuffer)

\* Texts one after the other.
LEMMA Together ==
  ASSUME NEW a \in Text, NEW b \in Text, NEW c \in Text
  PROVE  a \o (b \o c) = (a \o b) \o c
BY ConcatAssociative DEF Text

\* Where a letter more goes.
LEMMA OneMoreLetter ==
  ASSUME NEW f \in Text, NEW k \in Text, NEW w \in Text, NEW x \in Characters
  PROVE  f \o (k \o Append(w, x)) = Append(f \o (k \o w), x)
<1> USE DEF Text
<1>1. <<x>> \in Text /\ k \o w \in Text
  BY ConcatProperties
<1>2. f \o (k \o w) \in Text
  BY <1>1, ConcatProperties
<1>3. Append(w, x) = w \o <<x>>
  BY AppendIsConcat
<1>4. k \o (w \o <<x>>) = (k \o w) \o <<x>>
  BY <1>1, ConcatAssociative
<1>5. f \o ((k \o w) \o <<x>>) = (f \o (k \o w)) \o <<x>>
  BY <1>1, ConcatAssociative
<1>6. Append(f \o (k \o w), x) = (f \o (k \o w)) \o <<x>>
  BY <1>2, AppendIsConcat
<1> QED BY <1>3, <1>4, <1>5, <1>6

\* An item more: where its key and its value go.
LEMMA OneMoreItem ==
  ASSUME NEW a \in Text, NEW s \in Text, NEW i \in Text, NEW e \in Text
  PROVE  (a \o (s \o (i \o e))) \o (<<>> \o <<>>) = (a \o (s \o i)) \o e
<1>1. PICK si \in Text : si = s \o i
  BY ConcatProperties DEF Text
<1>2. s \o (i \o e) = si \o e
  <2>1. s \o (i \o e) = (s \o i) \o e
    BY Together
  <2> QED BY <1>1, <2>1
<1>b. a \o (si \o e) = (a \o si) \o e
  BY Together
<1>3. si \o e \in Text
  BY <1>1, ConcatProperties DEF Text
<1>4. a \o (si \o e) \in Text /\ <<>> \in Text
  BY <1>3, ConcatProperties, EmptySeq DEF Text
<1>5. (a \o (si \o e)) \o <<>> = a \o (si \o e) /\ <<>> \o <<>> = <<>>
  BY <1>4, ConcatEmptySeq DEF Text
<1> QED BY <1>1, <1>2, <1>b, <1>5

\* Nothing is added in between.
LEMMA Nothing ==
  ASSUME NEW a \in Text, NEW w \in Text
  PROVE  /\ a \o (w \o <<>>) = a \o (<<>> \o w)
         /\ (a \o (w \o <<>>)) \o (<<>> \o <<>>)
              = (a \o (<<>> \o <<>>)) \o (<<>> \o w)
<1>1. a \o w \in Text /\ <<>> \in Text
  BY ConcatProperties, EmptySeq DEF Text
<1> QED BY <1>1, ConcatEmptySeq DEF Text

\* The parts of what is kept are texts.
LEMMA Keepable ==
  ASSUME NEW c \in Confs
  PROVE  /\ Said(c.target) \in Text /\ SaidItems(c.sectiondata) \in Text
         /\ Said(c.target) \o (c.section \o SaidItems(c.sectiondata)) \in Text
         /\ c.section \in Text /\ c.itemname \in Text /\ c.wordbuffer \in Text
         /\ c.target \in Seq(Section) /\ c.sectiondata \in Seq(Item)
         /\ Kept(c) \in Text /\ <<>> \in Text /\ SaidItems(<<>>) = <<>>
<1>1. /\ c.target \in Seq(Section) /\ c.sectiondata \in Seq(Item)
      /\ c.section \in Seq(Word) /\ c.itemname \in Seq(Word)
      /\ c.wordbuffer \in Seq(Value)
  BY DEF Confs, Locals
<1>2. /\ Said(c.target) \in Text /\ SaidItems(c.sectiondata) \in Text
      /\ c.section \in Text /\ c.itemname \in Text /\ c.wordbuffer \in Text
      /\ <<>> \in Text /\ SaidItems(<<>>) = <<>>
  BY <1>1, SaidType, SaidItemsType, Sayable
<1>3. /\ c.section \o SaidItems(c.sectiondata) \in Text
      /\ c.itemname \o c.wordbuffer \in Text
  BY <1>2, ConcatProperties DEF Text
<1>4. Said(c.target) \o (c.section \o SaidItems(c.sectiondata)) \in Text
  BY <1>2, <1>3, ConcatProperties DEF Text
<1>5. Kept(c) \in Text
  BY <1>3, <1>4, ConcatProperties DEF Text, Kept
<1> QED BY <1>1, <1>2, <1>4, <1>5

SameWords(c, d) ==
  /\ d.target = c.target /\ d.section = c.section
  /\ d.sectiondata = c.sectiondata /\ d.itemname = c.itemname

\* Of what is kept nothing changes.
LEMMA KeptSame ==
  ASSUME NEW c, NEW d, SameWords(c, d), d.wordbuffer = c.wordbuffer
  PROVE  Kept(d) = Kept(c)
BY DEF SameWords, Kept

\* A character is kept, in the word or the value that is being read.
LEMMA KeptLonger ==
  ASSUME NEW c \in Confs, NEW d, SameWords(c, d), NEW x \in Characters,
         d.wordbuffer = Append(c.wordbuffer, x)
  PROVE  Kept(d) = Append(Kept(c), x)
<1> DEFINE f == Said(c.target) \o (c.section \o SaidItems(c.sectiondata))
           k == c.itemname
           w == c.wordbuffer
<1>1. f \in Text /\ k \in Text /\ w \in Text
  BY Keepable
<1>2. Kept(c) = f \o (k \o w)
  BY DEF Kept
<1>3. Kept(d) = f \o (k \o Append(w, x))
  BY DEF Kept, SameWords
<1> HIDE DEF f, k, w
<1>4. f \o (k \o Append(w, x)) = Append(f \o (k \o w), x)
  BY <1>1, OneMoreLetter
<1> QED BY <1>2, <1>3, <1>4

\* A word that becomes a key is kept.
LEMMA KeptByEquals ==
  ASSUME NEW c \in Confs, Equals(c).ok
  PROVE  Kept(Equals(c)) = Kept(c)
<1> DEFINE d == Equals(c)
<1>1. c.ok \in BOOLEAN /\ ~Error(c).ok
  BY DEF Confs, Locals, Error
<1>2. /\ c.itemname = <<>> /\ d.target = c.target /\ d.section = c.section
      /\ d.sectiondata = c.sectiondata /\ d.itemname = c.wordbuffer
      /\ d.wordbuffer = <<>>
  BY <1>1 DEF Equals, Confs, Locals
<1> HIDE DEF d
<1>3. /\ Said(c.target) \o (c.section \o SaidItems(c.sectiondata)) \in Text
      /\ c.wordbuffer \in Text
  BY Keepable
<1>4. Kept(d) = (Said(c.target) \o (c.section \o SaidItems(c.sectiondata)))
                  \o (c.wordbuffer \o <<>>)
  BY <1>2 DEF Kept
<1>5. Kept(c) = (Said(c.target) \o (c.section \o SaidItems(c.sectiondata)))
                  \o (<<>> \o c.wordbuffer)
  BY <1>2 DEF Kept
<1> QED BY <1>3, <1>4, <1>5, Nothing DEF d

\* A word that becomes a tag is kept.
LEMMA KeptByOpen ==
  ASSUME NEW c \in Confs, OpenSection(c).ok
  PROVE  Kept(OpenSection(c)) = Kept(c)
<1> DEFINE d == OpenSection(c)
<1>1. c.ok \in BOOLEAN /\ ~Error(c).ok
  BY DEF Confs, Locals, Error
<1>2. /\ c.section = <<>> /\ d.target = c.target /\ d.section = c.wordbuffer
      /\ d.sectiondata = c.sectiondata /\ d.itemname = c.itemname
      /\ d.wordbuffer = <<>>
  BY <1>1 DEF OpenSection, Confs, Locals
<1>3. c.sectiondata = <<>> /\ c.itemname = <<>>
  BY <1>2 DEF Confs, Nested
<1> HIDE DEF d
<1>4. /\ Said(c.target) \in Text /\ SaidItems(<<>>) = <<>> /\ <<>> \in Text
      /\ c.wordbuffer \in Text /\ "*" \in Characters
  BY Keepable DEF Characters, Syntax
<1>5. Kept(d) = (Said(c.target) \o (c.wordbuffer \o <<>>)) \o (<<>> \o <<>>)
  BY <1>2, <1>3, <1>4 DEF Kept
<1>6. Kept(c) = (Said(c.target) \o (<<>> \o <<>>)) \o (<<>> \o c.wordbuffer)
  BY <1>2, <1>3, <1>4 DEF Kept
<1> QED BY <1>4, <1>5, <1>6, Nothing DEF d

\* A section that ends is kept.
LEMMA KeptByClose ==
  ASSUME NEW c \in Confs, CloseSection(c).ok
  PROVE  Kept(CloseSection(c)) = Kept(c)
<1> DEFINE d == CloseSection(c)
           e == [tag |-> c.section, items |-> c.sectiondata]
<1>1. c.ok \in BOOLEAN /\ ~Error(c).ok
  BY DEF Confs, Locals, Error
<1>2. /\ c.section # <<>> /\ c.wordbuffer = <<>> /\ c.itemname = <<>>
      /\ d.target = Append(c.target, e) /\ d.section = <<>>
      /\ d.sectiondata = <<>> /\ d.itemname = <<>> /\ d.wordbuffer = <<>>
  BY <1>1 DEF CloseSection, Confs, Locals
<1>3. e \in Section /\ e.tag = c.section /\ e.items = c.sectiondata
  BY <1>2 DEF Confs, Locals, Section
<1> HIDE DEF d, e
<1>4. /\ Said(c.target) \in Text /\ SaidItems(<<>>) = <<>> /\ <<>> \in Text
      /\ SaidItems(c.sectiondata) \in Text /\ c.target \in Seq(Section)
      /\ c.section \in Text /\ "*" \in Characters
  BY Keepable DEF Characters, Syntax
<1>5. Said(d.target) = Said(c.target) \o (c.section \o SaidItems(c.sectiondata))
  BY <1>2, <1>3, <1>4, SaidAppend
<1> DEFINE f == Said(c.target) \o (c.section \o SaidItems(c.sectiondata))
<1>6. Kept(d) = (f \o (<<>> \o <<>>)) \o (<<>> \o <<>>)
  BY <1>2, <1>4, <1>5 DEF Kept
<1>7. Kept(c) = f \o (<<>> \o <<>>)
  BY <1>2, <1>4 DEF Kept
<1>8. f \in Text
  BY <1>4, ConcatProperties DEF Text
<1> HIDE DEF f
<1>9. <<>> \o <<>> = <<>> /\ f \o <<>> = f
  BY <1>4, <1>8, ConcatEmptySeq DEF Text
<1> QED BY <1>6, <1>7, <1>9 DEF d

\* An item that ends is kept.
LEMMA KeptByEndOfLine ==
  ASSUME NEW c \in Confs, ~c.in_quote, EndOfLine(c).ok
  PROVE  Kept(EndOfLine(c)) = Kept(c)
<1> DEFINE d == EndOfLine(c)
           item == [key |-> c.itemname, value |-> c.wordbuffer]
<1>1. CASE c.itemname = <<>>
  <2>1. SameWords(c, d) /\ d.wordbuffer = c.wordbuffer
    BY <1>1 DEF EndOfLine, Confs, Locals, SameWords
  <2> QED BY <2>1, KeptSame
<1>2. CASE c.itemname # <<>>
  <2>1. /\ c.wordbuffer # <<>> /\ d.target = c.target /\ d.section = c.section
        /\ d.sectiondata = Append(c.sectiondata, item)
        /\ d.itemname = <<>> /\ d.wordbuffer = <<>>
    BY <1>2 DEF EndOfLine, Error, Confs, Locals
  <2>2. item \in Item /\ item.key = c.itemname /\ item.value = c.wordbuffer
    BY <1>2, <2>1 DEF Confs, Locals, Item
  <2> HIDE DEF d, item
  <2>3. /\ Said(c.target) \in Text /\ SaidItems(c.sectiondata) \in Text
        /\ c.section \in Text /\ c.itemname \in Text /\ c.wordbuffer \in Text
        /\ c.sectiondata \in Seq(Item) /\ "*" \in Characters
    BY Keepable DEF Characters, Syntax
  <2>4. SaidItems(d.sectiondata)
          = SaidItems(c.sectiondata) \o (c.itemname \o c.wordbuffer)
    BY <2>1, <2>2, <2>3, SaidItemsAppend
  <2>5. Kept(d) = (Said(c.target) \o (c.section \o (SaidItems(c.sectiondata)
                     \o (c.itemname \o c.wordbuffer)))) \o (<<>> \o <<>>)
    BY <2>1, <2>4 DEF Kept
  <2> DEFINE e == c.itemname \o c.wordbuffer
  <2>6. Kept(c) = (Said(c.target) \o (c.section \o SaidItems(c.sectiondata))) \o e
    BY DEF Kept
  <2>7. e \in Text
    BY <2>3, ConcatProperties DEF Text
  <2> DEFINE a == Said(c.target)
             s == c.section
             i == SaidItems(c.sectiondata)
  <2>8. a \in Text /\ s \in Text /\ i \in Text
    BY <2>3
  <2> HIDE DEF e, a, s, i
  <2>9. (a \o (s \o (i \o e))) \o (<<>> \o <<>>) = (a \o (s \o i)) \o e
    BY <2>7, <2>8, OneMoreItem
  <2> QED BY <2>5, <2>6, <2>9 DEF d, e, a, s, i
<1> QED BY <1>1, <1>2

\* A character is kept if it is neither syntax nor in a comment
\* (configreader.cpp:680-892).
LEMMA WordsKept ==
  ASSUME NEW c \in Confs, NEW next \in Characters \cup {""}, c.ok,
         Advance(c, next).ok
  PROVE  Kept(Advance(c, next)) = Words(c, next, Kept(c))
<1> DEFINE d0 == IF c.skip THEN [c EXCEPT !.skip = FALSE]
                 ELSE IF c.ch = "\n" THEN EndOfLine(c)
                 ELSE IF c.ch = "" \/ c.rest THEN c
                 ELSE Character(c, next)
<1>1. Advance(c, next) = [d0 EXCEPT !.ch = next]
  BY DEF Advance
<1>2. d0 \in Confs
  <2>1. [c EXCEPT !.skip = FALSE] \in Confs
    BY DEF Confs, Locals, Nested
  <2> HIDE DEF Confs
  <2> QED BY <2>1, EndOfLineNested, CharacterNested
<1>3. d0.ok /\ Kept(Advance(c, next)) = Kept(d0)
  <2> HIDE DEF d0
  <2>1. /\ SameWords(d0, Advance(c, next)) /\ d0.ok = Advance(c, next).ok
        /\ Advance(c, next).wordbuffer = d0.wordbuffer
    BY <1>1, <1>2 DEF SameWords, Confs, Locals
  <2>2. Kept(Advance(c, next)) = Kept(d0)
    BY <2>1, KeptSame
  <2> QED BY <2>1, <2>2
<1> HIDE DEF d0
<1> SUFFICES Kept(d0) = Words(c, next, Kept(c))
  BY <1>3
<1> USE DEF d0
<1>0. c.ch \in Characters \cup {""} /\ Letters \cap Syntax = {} /\ "" \notin Letters
  BY TextsAssumption DEF Confs, Locals
<1>4. CASE c.skip
  <2>1. SameWords(c, d0) /\ d0.wordbuffer = c.wordbuffer
    BY <1>4 DEF SameWords, Confs, Locals
  <2> QED BY <1>4, <2>1, KeptSame DEF Words, Significant
<1>5. CASE ~c.skip /\ c.ch = "\n"
  <2>1. d0 = EndOfLine(c) /\ "\n" \in Characters
    BY <1>5 DEF Characters, Syntax
  <2> HIDE DEF d0
  <2>2. CASE c.in_quote
    <3>1. SameWords(c, d0) /\ d0.wordbuffer = Append(c.wordbuffer, "\n")
      BY <2>1, <2>2 DEF EndOfLine, SameWords, Confs, Locals
    <3> QED BY <1>5, <2>1, <2>2, <3>1, KeptLonger DEF Words, Significant
  <2>3. CASE ~c.in_quote
    <3>1. ~Significant(c, next)
      BY <1>0, <1>5, <2>3 DEF Significant, Syntax
    <3> QED BY <1>3, <2>1, <2>3, <3>1, KeptByEndOfLine DEF Words
  <2> QED BY <2>2, <2>3
<1>6. CASE ~c.skip /\ c.ch # "\n" /\ (c.ch = "" \/ c.rest)
  <2>1. d0 = c
    BY <1>6
  <2>2. c.rest => ~c.in_quote
    BY DEF Confs, Nested
  <2> QED BY <1>6, <2>1, <2>2 DEF Words, Significant
<1>7. CASE ~c.skip /\ c.ch \notin {"\n", ""} /\ ~c.rest
  <2>1. d0 = Character(c, next) /\ c.ch \in Characters
    BY <1>0, <1>7
  <2> HIDE DEF d0
  <2>2. CASE c.in_quote
    <3>1. d0 = Quoted(c)
      BY <2>1, <2>2 DEF Character
    <3>2. CASE c.ch = "\""
      <4>1. SameWords(c, d0) /\ d0.wordbuffer = c.wordbuffer
        BY <3>1, <3>2 DEF Quoted, SameWords, Confs, Locals
      <4> QED BY <2>2, <3>2, <4>1, KeptSame DEF Words, Significant
    <3>3. CASE c.ch # "\""
      <4>1. SameWords(c, d0) /\ d0.wordbuffer = Append(c.wordbuffer, c.ch)
        BY <3>1, <3>3 DEF Quoted, SameWords, Confs, Locals
      <4> QED BY <1>7, <2>1, <2>2, <3>3, <4>1, KeptLonger DEF Words, Significant
    <3> QED BY <3>2, <3>3
  <2>3. CASE ~c.in_quote /\ c.in_ml_comment
    <3>1. SameWords(c, d0) /\ d0.wordbuffer = c.wordbuffer
      BY <2>1, <2>3 DEF Character, Commented, SameWords, Confs, Locals
    <3> QED BY <2>3, <3>1, KeptSame DEF Words, Significant
  <2>4. CASE ~c.in_quote /\ ~c.in_ml_comment
    <3>1. CASE c.ch \in {"#", "\"", ";", " "} \/ (c.ch = "/" /\ next \in {"/", "*"})
      <4>1. SameWords(c, d0) /\ d0.wordbuffer = c.wordbuffer
        BY <2>1, <2>4, <3>1 DEF Character, Quote, Error, SameWords, Confs, Locals
      <4>2. ~Significant(c, next)
        BY <1>0, <2>4, <3>1 DEF Significant, Syntax
      <4> QED BY <4>1, <4>2, KeptSame DEF Words
    <3>2. CASE c.ch \in {"=", "{", "}"}
      <4>1. ~Significant(c, next)
        BY <1>0, <2>4, <3>2 DEF Significant, Syntax
      <4>2. \/ d0 = Equals(c) \/ d0 = OpenSection(c) \/ d0 = CloseSection(c)
        BY <2>1, <2>4, <3>2 DEF Character
      <4> QED BY <1>3, <4>1, <4>2, KeptByEquals, KeptByOpen, KeptByClose DEF Words
    <3>3. CASE /\ c.ch \notin {"#", "\"", ";", " ", "=", "{", "}"}
               /\ ~(c.ch = "/" /\ next \in {"/", "*"})
      <4>1. d0 = Letter(c)
        BY <2>1, <2>4, <3>3 DEF Character
      <4>2. SameWords(c, d0) /\ d0.wordbuffer = Append(c.wordbuffer, c.ch)
        BY <1>3, <4>1 DEF Letter, Error, SameWords, Confs, Locals
      <4>3. Significant(c, next)
        BY <1>7, <2>1, <2>4, <3>3 DEF Significant, Characters, Syntax
      <4> QED BY <1>7, <2>1, <4>2, <4>3, KeptLonger DEF Words
    <3> QED BY <3>1, <3>2, <3>3
  <2> QED BY <2>2, <2>3, <2>4
<1> QED BY <1>4, <1>5, <1>6, <1>7

-----------------------------------------------------------------------------
(* Nothing is lost, and nothing is invented.                                *)

\* The history is a text.
LEMMA WordsType ==
  ASSUME NEW c \in Confs, NEW next, NEW w \in Text
  PROVE  Words(c, next, w) \in Text
<1>1. c.ch # "" => Append(w, c.ch) \in Text
  BY AppendProperties DEF Confs, Locals, Text
<1> QED BY <1>1 DEF Words

\* The history of a beginning.
LEMMA WordsAlongIs ==
  ASSUME NEW text \in Text
  PROVE  LET at == WordsAlong(text) IN
         /\ at \in [0 .. Len(text) -> Text] /\ at[0] = <<>>
         /\ \A i \in 1 .. Len(text) :
              at[i] = Words(Reading(text)[i - 1], text[i], at[i - 1])
<1> DEFINE N == Len(text)
           r == Reading(text)
           F == [i \in 1 .. N |-> [w \in Text |-> Words(r[i - 1], text[i], w)]]
           Is(at) == at = [i \in 0 .. N |->
                            IF i = 0 THEN <<>>
                            ELSE Words(r[i - 1], text[i], at[i - 1])]
<1>1. N \in Nat /\ r \in [0 .. N -> Confs] /\ <<>> \in Text
  BY ReadingIs, LenProperties, EmptySeq DEF Text
<1> DEFINE at == CHOOSE f : Is(f)
<1>2. WordsAlong(text) = at
  BY DEF WordsAlong
<1> HIDE DEF N, r, at
<1>3. \A i \in 1 .. N : r[i - 1] \in Confs
  <2>1. \A i \in 1 .. N : i - 1 \in 0 .. N
    BY <1>1
  <2> QED BY <1>1, <2>1
<1>4. Steps(F, Text, N)
  BY <1>3, WordsType DEF Steps
<1> HIDE DEF F
<1>5. PICK g : Given(g, <<>>, F, Text, N)
  BY <1>1, <1>4, Recursion
<1> USE DEF F
<1>6. ASSUME NEW i \in 1 .. N PROVE g[i] = Words(r[i - 1], text[i], g[i - 1])
  <2>1. i - 1 \in 0 .. N
    BY <1>1
  <2>2. g[i] = F[i][g[i - 1]] /\ g[i - 1] \in Text
    BY <1>5, <2>1 DEF Given
  <2> QED BY <2>2
<1>7. Is(g)
  <2>1. g \in [0 .. N -> Text] /\ g[0] = <<>>
    BY <1>5 DEF Given
  <2>2. \A i \in 0 .. N : i # 0 => i \in 1 .. N
    <3>1. N \in Nat
      BY <1>1
    <3> QED BY ONLY <3>1
  <2> QED BY <1>6, <2>1, <2>2
<1>8. Is(at)
  BY <1>7 DEF at
<1>9. at[0] = <<>>
  BY <1>1, <1>8
<1>10. ASSUME NEW i \in 1 .. N PROVE at[i] = Words(r[i - 1], text[i], at[i - 1])
  <2>1. i \in 0 .. N /\ i # 0
    BY <1>1
  <2> HIDE DEF Is
  <2>2. at = [j \in 0 .. N |-> IF j = 0 THEN <<>>
                               ELSE Words(r[j - 1], text[j], at[j - 1])]
    BY <1>8 DEF Is
  <2> QED BY <2>1, <2>2
<1>11. \A i \in 0 .. N : at[i] \in Text
  <2> DEFINE Typed == {i \in 0 .. N : at[i] \in Text}
  <2>1. 0 \in Typed
    BY <1>1, <1>9
  <2>2. ASSUME NEW n \in 0 .. N - 1, n \in Typed PROVE n + 1 \in Typed
    <3>1. n + 1 \in 1 .. N /\ (n + 1) - 1 = n /\ n + 1 \in 0 .. N /\ n \in 0 .. N
      BY <1>1
    <3>2. at[n + 1] = Words(r[n], text[n + 1], at[n]) /\ r[n] \in Confs
      BY <1>1, <1>10, <3>1
    <3> QED BY <2>2, <3>1, <3>2, WordsType
  <2> HIDE DEF Typed
  <2>3. \A i \in 0 .. N : i \in Typed
    BY <1>1, <2>1, <2>2, UpTo
  <2> QED BY <2>3 DEF Typed
<1>12. at \in [0 .. N -> Text]
  <2>1. DOMAIN at = 0 .. N /\ at = [i \in 0 .. N |-> at[i]]
    BY <1>8
  <2> QED BY <1>11, <2>1
<1> QED BY <1>2, <1>9, <1>10, <1>12 DEF N, r

\* What was read is what was kept.
ConfInv ==
  /\ conf \in Confs /\ characters \in Text
  /\ conf.ok => characters = Kept(conf)

\* At first nothing is kept.
LEMMA KeptAtStart == Kept(Start) = <<>>
<1>1. /\ Start.target = <<>> /\ Start.section = <<>> /\ Start.sectiondata = <<>>
      /\ Start.itemname = <<>> /\ Start.wordbuffer = <<>>
  BY DEF Start
<1>2. Said(<<>>) = <<>> /\ SaidItems(<<>>) = <<>>
  <2>1. <<>> \in Seq(Section) /\ <<>> \in Seq(Item)
    BY EmptySeq
  <2> QED BY <2>1, SaidType, SaidItemsType
<1>3. <<>> \o <<>> = <<>>
  OBVIOUS
<1> QED BY <1>1, <1>2, <1>3 DEF Kept

\* A reader that has failed stays as it is.
LEMMA StaysFailed ==
  ASSUME NEW c, NEW next, Advance(c, next).ok, ~c.ok
  PROVE  FALSE
BY DEF Advance

\* After the beginning of a file.
LEMMA ConfInitially == ConfInit => ConfInv
<1> SUFFICES ASSUME NEW text \in Beginnings,
                    conf = Reading(text)[Len(text)],
                    characters = WordsAlong(text)[Len(text)]
             PROVE  ConfInv
  BY DEF ConfInit
<1> DEFINE N == Len(text)
           r == Reading(text)
           w == WordsAlong(text)
           Right == {i \in 0 .. N : r[i].ok => w[i] = Kept(r[i])}
<1>1. text \in Text /\ N \in Nat /\ \A i \in 1 .. N : text[i] \in Characters
  BY TextsAssumption, LenProperties, ElementOfSeq DEF Text
<1>2. /\ r \in [0 .. N -> Confs] /\ r[0] = Start
      /\ \A i \in 1 .. N : r[i] = Advance(r[i - 1], text[i])
  BY <1>1, ReadingIs
<1>3. /\ w \in [0 .. N -> Text] /\ w[0] = <<>>
      /\ \A i \in 1 .. N : w[i] = Words(r[i - 1], text[i], w[i - 1])
  BY <1>1, WordsAlongIs
<1>4. conf = r[N] /\ characters = w[N]
  OBVIOUS
<1> HIDE DEF r, w, N
<1>5. 0 \in Right
  BY <1>1, <1>2, <1>3, KeptAtStart
<1>6. ASSUME NEW n \in 0 .. N - 1, n \in Right PROVE n + 1 \in Right
  <2>1. n + 1 \in 1 .. N /\ (n + 1) - 1 = n /\ n + 1 \in 0 .. N /\ n \in 0 .. N
    BY <1>1
  <2>2. /\ r[n + 1] = Advance(r[n], text[n + 1]) /\ r[n] \in Confs
        /\ w[n + 1] = Words(r[n], text[n + 1], w[n])
        /\ text[n + 1] \in Characters
    BY <1>1, <1>2, <1>3, <2>1
  <2>3. r[n + 1].ok => r[n].ok
    BY <2>2, StaysFailed DEF Confs, Locals
  <2>4. r[n + 1].ok => Kept(r[n + 1]) = Words(r[n], text[n + 1], Kept(r[n]))
    BY <2>2, <2>3, WordsKept
  <2> QED BY <1>6, <2>1, <2>2, <2>3, <2>4
<1> HIDE DEF Right
<1>7. \A i \in 0 .. N : i \in Right
  BY <1>1, <1>5, <1>6, UpTo
<1>8. N \in 0 .. N
  BY <1>1
<1> QED BY <1>2, <1>3, <1>4, <1>7, <1>8 DEF ConfInv, Right

ConfSpec == ConfInit /\ [][ReadCharacter]_confVars

\* After each character.
LEMMA ConfStep == ConfInv /\ [ReadCharacter]_confVars => ConfInv'
<1> SUFFICES ASSUME ConfInv, [ReadCharacter]_confVars PROVE ConfInv'
  OBVIOUS
<1>1. CASE UNCHANGED confVars
  BY <1>1 DEF ConfInv, confVars
<1>2. CASE ReadCharacter
  <2>1. PICK next \in Characters : /\ conf' = Advance(conf, next)
                                   /\ characters' = Words(conf, next, characters)
    BY <1>2 DEF ReadCharacter
  <2>2. conf.ok /\ conf \in Confs /\ characters \in Text /\ characters = Kept(conf)
    BY <1>2 DEF ReadCharacter, ConfInv
  <2>3. conf' \in Confs /\ characters' \in Text
    BY <2>1, <2>2, AdvanceNested, WordsType
  <2>4. conf'.ok => characters' = Kept(conf')
    BY <2>1, <2>2, WordsKept
  <2> QED BY <2>3, <2>4 DEF ConfInv
<1> QED BY <1>1, <1>2

\* What an accepted file has in its sections, and nothing is left over.
LEMMA Accepted ==
  ASSUME NEW c \in Confs, Finish(c).ok
  PROVE  LET end == Finish(c) IN
         /\ c.ok /\ end.target \in Seq(Section)
         /\ Said(end.target) = Words(c, "\n", Kept(c))
<1> DEFINE b == Advance(c, "\n")
           d == Advance(b, "")
<1>0. "\n" \in Characters
  BY DEF Characters, Syntax
<1>1. b \in Confs /\ d \in Confs
  BY <1>0, AdvanceNested
<1>2. /\ Finish(c) = d /\ d.ok /\ ~d.in_quote /\ d.itemname = <<>>
      /\ d.wordbuffer = <<>> /\ d.section = <<>>
  <2> HIDE DEF d
  <2>1. ~Error(d).ok
    BY <1>1 DEF Error, Confs, Locals
  <2> QED BY <2>1 DEF Finish, d
<1>3. c.ok /\ b.ok
  BY <1>1, <1>2, StaysFailed DEF Confs, Locals
<1>4. Kept(b) = Words(c, "\n", Kept(c))
  BY <1>0, <1>3, WordsKept
<1>5. b.ch = "\n"
  <2> DEFINE e == IF c.skip THEN [c EXCEPT !.skip = FALSE]
                  ELSE IF c.ch = "\n" THEN EndOfLine(c)
                  ELSE IF c.ch = "" \/ c.rest THEN c
                  ELSE Character(c, "\n")
  <2>1. b = [e EXCEPT !.ch = "\n"]
    BY <1>3 DEF Advance
  <2>2. e \in Confs
    <3>1. [c EXCEPT !.skip = FALSE] \in Confs
      BY DEF Confs, Locals, Nested
    <3> HIDE DEF Confs
    <3> QED BY <3>1, EndOfLineNested, CharacterNested
  <2> HIDE DEF e, b
  <2> QED BY <2>1, <2>2 DEF Confs, Locals
<1>6. ~b.in_quote
  <2>1. CASE ~b.in_quote
    BY <2>1
  <2>2. CASE b.in_quote
    <3>1. ~b.skip
      BY <1>1, <2>2 DEF Confs, Nested
    <3>2. d = [EndOfLine(b) EXCEPT !.ch = ""]
      BY <1>3, <1>5, <3>1 DEF Advance
    <3> HIDE DEF d, b
    <3>3. d.in_quote
      BY <1>1, <2>2, <3>2 DEF EndOfLine, Confs, Locals
    <3> QED BY <1>2, <3>3
  <2> QED BY <2>1, <2>2
<1>7. Words(b, "", Kept(b)) = Kept(b)
  <2>1. ~Significant(b, "")
    <3> HIDE DEF b
    <3> QED BY <1>5, <1>6, TextsAssumption DEF Significant, Syntax
  <2> QED BY <2>1 DEF Words
<1>8. Kept(d) = Kept(b)
  BY <1>1, <1>2, <1>3, <1>7, WordsKept
<1> HIDE DEF b, d
<1>9. d.sectiondata = <<>> /\ d.target \in Seq(Section)
  BY <1>1, <1>2 DEF Confs, Locals, Nested
<1>10. Kept(d) = Said(d.target)
  <2>1. Said(d.target) \in Text /\ <<>> \in Text /\ SaidItems(<<>>) = <<>>
    BY <1>1, Keepable
  <2>2. <<>> \o <<>> = <<>> /\ Said(d.target) \o <<>> = Said(d.target)
    BY <2>1, ConcatEmptySeq DEF Text
  <2> QED BY <1>2, <1>9, <2>1, <2>2 DEF Kept
<1> QED BY <1>2, <1>3, <1>4, <1>8, <1>9, <1>10

-----------------------------------------------------------------------------
(* Reading what is written plainly.                                         *)

\* The beginnings of a sequence.
LEMMA Beginning ==
  ASSUME NEW S, NEW s \in Seq(S)
  PROVE  LET to(n) == SubSeq(s, 1, n) IN
         /\ to(0) = <<>> /\ to(Len(s)) = s
         /\ \A n \in 0 .. Len(s) : to(n) \in Seq(S)
         /\ \A n \in 0 .. Len(s) - 1 : to(n + 1) = Append(to(n), s[n + 1])
<1>1. Len(s) \in Nat /\ \A i \in 1 .. Len(s) : s[i] \in S
  BY LenProperties, ElementOfSeq
<1>2. SubSeq(s, 1, 0) = <<>>
  BY SubSeqEmpty
<1>3. SubSeq(s, 1, Len(s)) = s
  BY SubSeqFull
<1>4. ASSUME NEW n \in 0 .. Len(s) PROVE SubSeq(s, 1, n) \in Seq(S)
  <2>1. \A i \in 1 .. n : s[i] \in S
    BY <1>1
  <2> QED BY <1>1, <2>1, SubSeqProperties
<1>5. ASSUME NEW n \in 0 .. Len(s) - 1
      PROVE  SubSeq(s, 1, n + 1) = Append(SubSeq(s, 1, n), s[n + 1])
  <2>1. n + 1 \in 1 .. Len(s) /\ (n + 1) - 1 = n /\ 1 \in 1 .. Len(s) /\ n \in 0 .. Len(s)
    BY <1>1
  <2>2. SubSeq(s, 1, n + 1) = SubSeq(s, 1, (n + 1) - 1) \o <<s[n + 1]>>
    <3> DEFINE m == n + 1
               L == Len(s)
    <3>1. m \in 1 .. L /\ 1 \in 1 .. L
      BY <2>1
    <3> HIDE DEF m, L
    <3>2. SubSeq(s, 1, m) = SubSeq(s, 1, m - 1) \o <<s[m]>>
      BY <3>1, SubSeqRecursiveSecond DEF L
    <3> QED BY <3>2 DEF m
  <2>3. SubSeq(s, 1, n) \in Seq(S) /\ s[n + 1] \in S
    BY <1>1, <1>4, <2>1
  <2> QED BY <2>1, <2>2, <2>3, AppendIsConcat
<1> QED BY <1>2, <1>3, <1>4, <1>5

\* A text and what is read after it.
LEMMA LongerText ==
  ASSUME NEW text \in Text, NEW w \in Text, NEW x \in Characters
  PROVE  text \o Append(w, x) = Append(text \o w, x)
<1>1. text \o w \in Text
  BY ConcatProperties DEF Text
<1>2. Append(w, x) = w \o <<x>> /\ Append(text \o w, x) = (text \o w) \o <<x>>
  BY <1>1, AppendIsConcat DEF Text
<1>3. text \o (w \o <<x>>) = (text \o w) \o <<x>>
  BY ConcatAssociative DEF Text
<1> QED BY <1>1, <1>2, <1>3

\* Reading a text character by character: G is what the reader has become
\* after each of them.
LEMMA ReadAlong ==
  ASSUME NEW text \in Text, NEW w \in Text, w # <<>>, NEW G,
         Advance(After(text), w[1]) = G[1],
         \A j \in 1 .. Len(w) - 1 : Advance(G[j], w[j + 1]) = G[j + 1]
  PROVE  /\ Len(w) \in Nat \ {0} /\ text \o w \in Text
         /\ After(text \o w) = G[Len(w)]
<1> DEFINE N == Len(w)
           to(j) == SubSeq(w, 1, j)
           ReadUpTo == {j \in 1 .. N : After(text \o to(j)) = G[j]}
<1>1. N \in Nat \ {0} /\ \A i \in 1 .. N : w[i] \in Characters
  BY LenProperties, ElementOfSeq, EmptySeq DEF Text
<1>2. /\ to(0) = <<>> /\ to(N) = w
      /\ \A n \in 0 .. N : to(n) \in Text
      /\ \A n \in 0 .. N - 1 : to(n + 1) = Append(to(n), w[n + 1])
  BY Beginning DEF Text
<1> HIDE DEF to, N
<1>3. ASSUME NEW n \in 0 .. N - 1
      PROVE  After(text \o to(n + 1)) = Advance(After(text \o to(n)), w[n + 1])
  <2>1. n + 1 \in 1 .. N /\ n \in 0 .. N
    BY <1>1
  <2>2. to(n) \in Text /\ w[n + 1] \in Characters /\ to(n + 1) = Append(to(n), w[n + 1])
    BY <1>1, <1>2, <2>1
  <2>3. text \o to(n) \in Text
    BY <2>2, ConcatProperties DEF Text
  <2>4. text \o to(n + 1) = Append(text \o to(n), w[n + 1])
    BY <2>2, LongerText
  <2> QED BY <2>2, <2>3, <2>4, AfterIs
<1>4. 1 \in ReadUpTo
  <2>1. 0 \in 0 .. N - 1 /\ 0 + 1 = 1 /\ 1 \in 1 .. N
    BY <1>1
  <2>2. After(text \o to(1)) = Advance(After(text \o to(0)), w[1])
    BY <1>3, <2>1
  <2>3. text \o to(0) = text
    BY <1>2, ConcatEmptySeq DEF Text
  <2> QED BY <2>1, <2>2, <2>3
<1>5. ASSUME NEW n \in 1 .. N - 1, n \in ReadUpTo PROVE n + 1 \in ReadUpTo
  <2>1. n \in 0 .. N - 1 /\ n + 1 \in 1 .. N
    BY <1>1
  <2>2. After(text \o to(n + 1)) = Advance(After(text \o to(n)), w[n + 1])
    BY <1>3, <2>1
  <2>3. Advance(G[n], w[n + 1]) = G[n + 1]
    BY DEF N
  <2> QED BY <1>5, <2>1, <2>2, <2>3
<1> HIDE DEF ReadUpTo
<1>6. \A n \in 1 .. N : n \in ReadUpTo
  BY <1>1, <1>4, <1>5, UpTo
<1>7. After(text \o to(N)) = G[N]
  BY <1>1, <1>6 DEF ReadUpTo
<1>8. text \o w \in Text
  BY ConcatProperties DEF Text
<1> QED BY <1>1, <1>2, <1>7, <1>8 DEF N

\* Where no word, quote or comment is open.
Idle(e) ==
  /\ e.ok /\ ~e.skip /\ ~e.rest /\ ~e.in_word /\ ~e.in_quote /\ ~e.in_ml_comment
  /\ e.wordbuffer = <<>>

\* A letter of a word, followed by what does not make it a comment.
LEMMA ReadLetter ==
  ASSUME NEW e \in Confs, NEW next, e.ok, ~e.skip, ~e.rest, ~e.in_quote,
         ~e.in_ml_comment, e.ch \in Word, e.in_word \/ e.wordbuffer = <<>>,
         e.ch = "/" => next \notin {"/", "*"}
  PROVE  Advance(e, next) =
           [e EXCEPT !.wordbuffer = Append(e.wordbuffer, e.ch), !.in_word = TRUE,
                     !.ch = next]
<1>1. e.ch \notin {"", "\n", "\"", "#", "=", "{", "}", ";", " "}
  BY TextsAssumption DEF Word, Syntax
<1>2. Character(e, next) = Letter(e)
  BY <1>1 DEF Character
<1>3. Letter(e) = [e EXCEPT !.wordbuffer = Append(e.wordbuffer, e.ch), !.in_word = TRUE]
  BY DEF Letter
<1>4. Advance(e, next) = [Letter(e) EXCEPT !.ch = next]
  BY <1>1, <1>2 DEF Advance
<1> QED BY <1>3, <1>4

\* Two readers that do the same with every character that comes.
Like(c, d) == \A next \in Characters : Advance(c, next) = Advance(d, next)

InWord(e, w, x) == [e EXCEPT !.wordbuffer = w, !.in_word = TRUE, !.ch = x]

\* A word.
LEMMA ReadWord ==
  ASSUME NEW text \in Text, NEW e \in Confs, Idle(e), e.ch = "",
         Like(After(text), e), NEW w \in Seq(Word), w # <<>>, Plain(w),
         NEW x \in Characters, x \notin {"/", "*"}
  PROVE  /\ Append(text \o w, x) \in Text
         /\ After(Append(text \o w, x)) = InWord(e, w, x)
<1> DEFINE N == Len(w)
           to(j) == SubSeq(w, 1, j)
           g(j) == IF j = 1 THEN [e EXCEPT !.ch = w[1]]
                   ELSE InWord(e, to(j - 1), w[j])
           G == [j \in 1 .. N |-> g(j)]
<1>1. N \in Nat \ {0} /\ \A i \in 1 .. N : w[i] \in Word
  BY LenProperties, ElementOfSeq, EmptySeq
<1>2. /\ to(0) = <<>> /\ to(N) = w
      /\ \A n \in 0 .. N : to(n) \in Seq(Word)
      /\ \A n \in 0 .. N - 1 : to(n + 1) = Append(to(n), w[n + 1])
  BY Beginning
<1>3. w \in Text /\ Word \subseteq Characters /\ Seq(Word) \subseteq Seq(Value)
  <2>1. Word \subseteq Characters /\ Word \subseteq Value
    BY TextsAssumption DEF Word, Characters, Value, Syntax
  <2> QED BY <2>1, Sayable, SeqMonotonic
<1>4. \A j \in 1 .. N - 1 : w[j] = "/" => w[j + 1] \notin {"/", "*"}
  BY DEF Plain
<1> HIDE DEF N, to
<1>p. N \in 1 .. N /\ 1 \in 1 .. N /\ 0 \in 0 .. N - 1 /\ 0 + 1 = 1 /\ 1 - 1 = 0
  <2>1. N \in Nat \ {0}
    BY <1>1
  <2> QED BY ONLY <2>1
<1>q. \A j \in 1 .. N : j - 1 \in 0 .. N - 1 /\ (j - 1) + 1 = j /\ j - 1 \in 0 .. N
  <2>1. N \in Nat
    BY <1>1
  <2> QED BY ONLY <2>1
<1>r. \A j \in 1 .. N - 1 : /\ j \in 1 .. N /\ j + 1 \in 1 .. N /\ j + 1 # 1
                           /\ (j + 1) - 1 = j
  <2>1. N \in Nat
    BY <1>1
  <2> QED BY ONLY <2>1
<1>5. ASSUME NEW j \in 1 .. N, NEW next, w[j] = "/" => next \notin {"/", "*"}
      PROVE  Advance(g(j), next) = InWord(e, to(j), next)
  <2>0. w[j] \in Word /\ w[j] \in Characters
    BY <1>1, <1>3
  <2> DEFINE d == g(j)
  <2>1. CASE j = 1
    <3>1. d = [e EXCEPT !.ch = w[j]]
      BY <2>1
    <3>2. Append(<<>>, w[j]) = to(j)
      <4>1. 0 \in 0 .. N - 1 /\ 0 + 1 = 1
        BY <1>p
      <4>2. to(0 + 1) = Append(to(0), w[0 + 1])
        BY <1>2, <4>1
      <4> QED BY <1>2, <2>1, <4>1, <4>2
    <3> HIDE DEF d
    <3>3. /\ d \in Confs /\ d.ok /\ ~d.skip /\ ~d.rest /\ ~d.in_quote
          /\ ~d.in_ml_comment /\ d.ch = w[j] /\ d.wordbuffer = <<>>
      BY <2>0, <3>1 DEF Confs, Locals, Nested, Idle
    <3>4. Advance(d, next) =
            [d EXCEPT !.wordbuffer = Append(d.wordbuffer, d.ch), !.in_word = TRUE,
                      !.ch = next]
      BY <1>5, <2>0, <3>3, ReadLetter
    <3>5. [d EXCEPT !.wordbuffer = to(j), !.in_word = TRUE, !.ch = next]
            = InWord(e, to(j), next)
      BY <3>1 DEF InWord, Confs, Locals
    <3>6. Advance(d, next) = InWord(e, to(j), next)
      BY <3>2, <3>3, <3>4, <3>5
    <3> QED BY <3>6 DEF d
  <2>2. CASE j # 1
    <3> DEFINE before == to(j - 1)
    <3>1. before \in Seq(Word) /\ Append(before, w[j]) = to(j)
      <4>1. j - 1 \in 0 .. N - 1 /\ (j - 1) + 1 = j /\ j - 1 \in 0 .. N
        BY <1>q
      <4>2. to((j - 1) + 1) = Append(to(j - 1), w[(j - 1) + 1])
        BY <1>2, <4>1
      <4> QED BY <1>2, <4>1, <4>2
    <3>2. d = InWord(e, before, w[j])
      BY <2>2
    <3> HIDE DEF d, before
    <3>3. /\ d \in Confs /\ d.ok /\ ~d.skip /\ ~d.rest /\ ~d.in_quote /\ d.in_word
          /\ ~d.in_ml_comment /\ d.ch = w[j] /\ d.wordbuffer = before
      BY <1>3, <2>0, <3>1, <3>2 DEF Confs, Locals, Nested, Idle, InWord
    <3>4. Advance(d, next) =
            [d EXCEPT !.wordbuffer = Append(d.wordbuffer, d.ch), !.in_word = TRUE,
                      !.ch = next]
      BY <1>5, <2>0, <3>3, ReadLetter
    <3>5. [d EXCEPT !.wordbuffer = to(j), !.in_word = TRUE, !.ch = next]
            = InWord(e, to(j), next)
      BY <3>2 DEF InWord, Confs, Locals
    <3>6. Advance(d, next) = InWord(e, to(j), next)
      BY <3>1, <3>3, <3>4, <3>5
    <3> QED BY <3>6 DEF d
  <2> QED BY <2>1, <2>2
<1>6. Advance(After(text), w[1]) = G[1]
  <2>1. w[1] \in Characters /\ 1 \in 1 .. N
    BY <1>1, <1>3, <1>p
  <2>2. Advance(After(text), w[1]) = Advance(e, w[1])
    BY <2>1 DEF Like
  <2>3. Advance(e, w[1]) = [e EXCEPT !.ch = w[1]]
    BY DEF Advance, Idle
  <2> QED BY <2>1, <2>2, <2>3
<1>7. ASSUME NEW j \in 1 .. N - 1 PROVE Advance(G[j], w[j + 1]) = G[j + 1]
  <2>1. j \in 1 .. N /\ j + 1 \in 1 .. N /\ j + 1 # 1 /\ (j + 1) - 1 = j
    BY <1>r
  <2>2. Advance(g(j), w[j + 1]) = InWord(e, to(j), w[j + 1])
    BY <1>4, <1>5, <2>1
  <2> QED BY <2>1, <2>2
<1>8. G[N] = g(N) /\ N \in 1 .. N
  BY <1>p
<1> HIDE DEF G
<1>9. text \o w \in Text /\ After(text \o w) = G[N]
  BY <1>3, <1>6, <1>7, ReadAlong DEF N
<1>10. Advance(g(N), x) = InWord(e, w, x)
  BY <1>2, <1>5, <1>8
<1> QED BY <1>8, <1>9, <1>10, AfterIs

InQuote(e, v, x) ==
  [e EXCEPT !.in_quote = TRUE, !.in_word = TRUE, !.wordbuffer = v, !.ch = x]

\* A value in quotes, from one quote to the other.
LEMMA ReadValue ==
  ASSUME NEW text \in Text, NEW e \in Confs, Idle(e), e.ch = "\"",
         e.section # <<>>, e.itemname # <<>>, After(text) = e,
         NEW v \in Seq(Value), v # <<>>
  PROVE  /\ Append(text \o v, "\"") \in Text
         /\ After(Append(text \o v, "\"")) = InQuote(e, v, "\"")
<1> DEFINE N == Len(v)
           to(j) == SubSeq(v, 1, j)
           g(j) == InQuote(e, to(j - 1), v[j])
           G == [j \in 1 .. N |-> g(j)]
<1>1. N \in Nat \ {0} /\ \A i \in 1 .. N : v[i] \in Value
  BY LenProperties, ElementOfSeq, EmptySeq
<1>2. /\ to(0) = <<>> /\ to(N) = v
      /\ \A n \in 0 .. N : to(n) \in Seq(Value)
      /\ \A n \in 0 .. N - 1 : to(n + 1) = Append(to(n), v[n + 1])
  BY Beginning
<1>3. v \in Text /\ Value \subseteq Characters /\ "\"" \in Characters
  BY Sayable DEF Value, Characters, Syntax
<1> HIDE DEF N, to
<1>p. N \in 1 .. N /\ 1 \in 1 .. N /\ 0 \in 0 .. N - 1 /\ 0 + 1 = 1 /\ 1 - 1 = 0
  <2>1. N \in Nat \ {0}
    BY <1>1
  <2> QED BY ONLY <2>1
<1>q. \A j \in 1 .. N : j - 1 \in 0 .. N - 1 /\ (j - 1) + 1 = j /\ j - 1 \in 0 .. N
  <2>1. N \in Nat
    BY <1>1
  <2> QED BY ONLY <2>1
<1>r. \A j \in 1 .. N - 1 : /\ j \in 1 .. N /\ j + 1 \in 1 .. N
                           /\ (j + 1) - 1 = j
  <2>1. N \in Nat
    BY <1>1
  <2> QED BY ONLY <2>1
<1>4. ASSUME NEW j \in 1 .. N, NEW next
      PROVE  Advance(g(j), next) = InQuote(e, to(j), next)
  <2>1. v[j] \in Characters /\ v[j] \notin {"\"", ""}
    BY <1>1, TextsAssumption DEF Value, Characters, Syntax
  <2> DEFINE d == g(j)
             before == to(j - 1)
  <2>2. before \in Seq(Value) /\ Append(before, v[j]) = to(j)
    <3>1. j - 1 \in 0 .. N - 1 /\ (j - 1) + 1 = j /\ j - 1 \in 0 .. N
      BY <1>q
    <3>2. to((j - 1) + 1) = Append(to(j - 1), v[(j - 1) + 1])
      BY <1>2, <3>1
    <3> QED BY <1>2, <3>1, <3>2
  <2>3. d = InQuote(e, before, v[j])
    OBVIOUS
  <2> HIDE DEF d, before
  <2>4. /\ d \in Confs /\ d.ok /\ ~d.skip /\ ~d.rest /\ d.in_quote
        /\ d.ch = v[j] /\ d.wordbuffer = before
    BY <2>1, <2>2, <2>3 DEF Confs, Locals, Nested, Idle, InQuote
  <2>5. Advance(d, next) =
          [d EXCEPT !.wordbuffer = Append(d.wordbuffer, d.ch), !.ch = next]
    BY <2>1, <2>4 DEF Advance, EndOfLine, Character, Quoted
  <2>6. [d EXCEPT !.wordbuffer = to(j), !.ch = next] = InQuote(e, to(j), next)
    BY <2>3 DEF InQuote, Confs, Locals
  <2>7. Advance(d, next) = InQuote(e, to(j), next)
    BY <2>2, <2>4, <2>5, <2>6
  <2> QED BY <2>7 DEF d
<1>5. Advance(After(text), v[1]) = G[1]
  <2>1. v[1] \in Characters /\ 1 \in 1 .. N /\ 1 - 1 = 0
    BY <1>1, <1>3, <1>p
  <2>2. Advance(e, v[1]) = [e EXCEPT !.in_quote = TRUE, !.in_word = TRUE, !.ch = v[1]]
    BY DEF Advance, Character, Quote, Idle
  <2>3. [e EXCEPT !.in_quote = TRUE, !.in_word = TRUE, !.ch = v[1]]
          = InQuote(e, <<>>, v[1])
    BY DEF InQuote, Idle, Confs, Locals
  <2> QED BY <1>2, <2>1, <2>2, <2>3
<1>6. ASSUME NEW j \in 1 .. N - 1 PROVE Advance(G[j], v[j + 1]) = G[j + 1]
  <2>1. j \in 1 .. N /\ j + 1 \in 1 .. N /\ (j + 1) - 1 = j
    BY <1>r
  <2>2. Advance(g(j), v[j + 1]) = InQuote(e, to(j), v[j + 1])
    BY <1>4, <2>1
  <2> QED BY <2>1, <2>2
<1>7. G[N] = g(N) /\ N \in 1 .. N
  BY <1>p
<1> HIDE DEF G
<1>8. text \o v \in Text /\ After(text \o v) = G[N]
  BY <1>3, <1>5, <1>6, ReadAlong DEF N
<1>9. Advance(g(N), "\"") = InQuote(e, v, "\"")
  BY <1>2, <1>4, <1>7
<1> QED BY <1>3, <1>7, <1>8, <1>9, AfterIs

\* A character after a text.
LEMMA OneText ==
  ASSUME NEW s \in Text, NEW a \in Characters
  PROVE  Append(s, a) \in Text /\ s \o <<a>> = Append(s, a)
BY AppendProperties, AppendIsConcat DEF Text

\* A few characters are a text.
LEMMA TwoText ==
  ASSUME NEW a \in Characters, NEW b \in Characters
  PROVE  <<a, b>> \in Text /\ <<a>> \in Text
BY DEF Text

\* So are three, the last of them after the others.
LEMMA ThreeText ==
  ASSUME NEW a \in Characters, NEW b \in Characters, NEW c \in Characters
  PROVE  <<a, b, c>> \in Text /\ <<a, b, c>> = <<a, b>> \o <<c>>
BY DEF Text

\* Two characters after a text.
LEMMA TwoMore ==
  ASSUME NEW s \in Text, NEW a \in Characters, NEW b \in Characters
  PROVE  s \o <<a, b>> = Append(Append(s, a), b)
<1>1. <<a>> \in Text /\ <<a, b>> = Append(<<a>>, b)
  BY DEF Text
<1>2. s \o Append(<<a>>, b) = Append(s \o <<a>>, b)
  BY <1>1, LongerText
<1>3. s \o <<a>> = Append(s, a)
  BY OneText
<1> QED BY <1>1, <1>2, <1>3

\* So are four.
LEMMA FourText ==
  ASSUME NEW a \in Characters, NEW b \in Characters, NEW c \in Characters,
         NEW d \in Characters
  PROVE  <<a, b, c, d>> \in Text
BY DEF Text

\* Four characters after a text.
LEMMA FourMore ==
  ASSUME NEW s \in Text, NEW a \in Characters, NEW b \in Characters,
         NEW c \in Characters, NEW d \in Characters
  PROVE  s \o <<a, b, c, d>> = Append(Append(Append(Append(s, a), b), c), d)
<1> DEFINE t == Append(Append(s, a), b)
<1>1. <<a, b>> \in Text /\ <<c, d>> \in Text
  BY TwoText
<1>2. s \o <<a, b>> = t
  BY TwoMore
<1>3. <<a, b, c, d>> = <<a, b>> \o <<c, d>>
  OBVIOUS
<1>4. t \in Text
  <2>1. Append(s, a) \in Text
    BY OneText
  <2> QED BY <2>1, OneText
<1> HIDE DEF t
<1>5. t \o <<c, d>> = Append(Append(t, c), d)
  BY <1>4, TwoMore
<1>6. s \o (<<a, b>> \o <<c, d>>) = (s \o <<a, b>>) \o <<c, d>>
  BY <1>1, Together
<1> QED BY <1>2, <1>3, <1>5, <1>6 DEF t

\* Between two items, or where the first will be.
Settled(target, tag, items) ==
  [ok |-> TRUE, ch |-> "", skip |-> FALSE, rest |-> FALSE,
   section |-> tag, itemname |-> <<>>, wordbuffer |-> <<>>,
   in_word |-> FALSE, in_quote |-> FALSE, in_ml_comment |-> FALSE,
   sectiondata |-> items, target |-> target]
IsSettled(d, target, tag, items) ==
  /\ d \in Confs /\ Idle(d) /\ d.ch = "" /\ d.itemname = <<>>
  /\ d.target = target /\ d.section = tag /\ d.sectiondata = items
  /\ \A next : Advance(d, next) = [d EXCEPT !.ch = next]

\* There the reader is idle, and only notes the next character.
LEMMA SettledIs ==
  ASSUME NEW target \in Seq(Section), NEW tag \in Seq(Word), NEW items \in Seq(Item),
         tag = <<>> => items = <<>>
  PROVE  IsSettled(Settled(target, tag, items), target, tag, items)
<1> DEFINE d == Settled(target, tag, items)
<1>1. /\ d \in Confs /\ Idle(d) /\ d.ch = "" /\ d.itemname = <<>>
      /\ d.target = target /\ d.section = tag /\ d.sectiondata = items
  BY EmptySeq DEF Settled, Confs, Locals, Nested, Idle
<1> HIDE DEF d
<1>2. \A next : Advance(d, next) = [d EXCEPT !.ch = next]
  BY <1>1 DEF Advance, Idle
<1> QED BY <1>1, <1>2 DEF d, IsSettled

\* A reader that is idle is known by where it is and what it has kept.
LEMMA SettledAlike ==
  ASSUME NEW a \in Confs, NEW b \in Confs, Idle(a), Idle(b), a.ch = b.ch,
         a.itemname = b.itemname, a.section = b.section, a.target = b.target,
         a.sectiondata = b.sectiondata
  PROVE  a = b
<1>1. a \in Locals /\ b \in Locals
  BY DEF Confs
<1>2. /\ a.ok = b.ok /\ a.skip = b.skip /\ a.rest = b.rest /\ a.in_word = b.in_word
      /\ a.in_quote = b.in_quote /\ a.in_ml_comment = b.in_ml_comment
      /\ a.wordbuffer = b.wordbuffer
  BY <1>1 DEF Locals, Idle
<1>3. ASSUME NEW c \in Locals
      PROVE  c = [ok |-> c.ok, ch |-> c.ch, skip |-> c.skip, rest |-> c.rest,
                  section |-> c.section, itemname |-> c.itemname,
                  wordbuffer |-> c.wordbuffer, in_word |-> c.in_word,
                  in_quote |-> c.in_quote, in_ml_comment |-> c.in_ml_comment,
                  sectiondata |-> c.sectiondata, target |-> c.target]
  BY DEF Locals
<1>4. a = [ok |-> a.ok, ch |-> a.ch, skip |-> a.skip, rest |-> a.rest,
           section |-> a.section, itemname |-> a.itemname,
           wordbuffer |-> a.wordbuffer, in_word |-> a.in_word,
           in_quote |-> a.in_quote, in_ml_comment |-> a.in_ml_comment,
           sectiondata |-> a.sectiondata, target |-> a.target]
  BY <1>1, <1>3
<1>5. b = [ok |-> b.ok, ch |-> b.ch, skip |-> b.skip, rest |-> b.rest,
           section |-> b.section, itemname |-> b.itemname,
           wordbuffer |-> b.wordbuffer, in_word |-> b.in_word,
           in_quote |-> b.in_quote, in_ml_comment |-> b.in_ml_comment,
           sectiondata |-> b.sectiondata, target |-> b.target]
  BY <1>1, <1>3
<1> QED BY <1>2, <1>4, <1>5

\* What an item says, written plainly, is read as that item.
LEMMA ReadItem ==
  ASSUME NEW target \in Seq(Section), NEW tag \in Seq(Word), tag # <<>>,
         NEW items \in Seq(Item), NEW item \in Item, Plain(item.key),
         NEW text \in Text, Like(After(text), Settled(target, tag, items))
  PROVE  /\ WrittenItem(item) \in Text /\ text \o WrittenItem(item) \in Text
         /\ Like(After(text \o WrittenItem(item)),
                 Settled(target, tag, Append(items, item)))
<1> DEFINE D == Settled(target, tag, items)
           more == Settled(target, tag, Append(items, item))
           key == item.key
           v == item.value
           t1 == Append(text \o key, " ")
           t2 == Append(Append(Append(t1, "="), " "), "\"")
           t3 == Append(t2 \o v, "\"")
           t4 == Append(t3, "\n")
<1>0. {" ", "=", "\"", "\n"} \subseteq Characters
  BY DEF Characters, Syntax
<1>1. /\ key \in Seq(Word) /\ key # <<>> /\ v \in Seq(Value) /\ v # <<>>
      /\ key \in Text /\ v \in Text
  BY Sayable DEF Item
<1>2. /\ D \in Confs /\ Idle(D) /\ D.ch = "" /\ D.itemname = <<>>
      /\ D.target = target /\ D.section = tag /\ D.sectiondata = items
      /\ Like(After(text), D)
  <2>1. IsSettled(D, target, tag, items)
    BY SettledIs
  <2> QED BY <2>1 DEF IsSettled
<1>3. /\ more \in Confs /\ Idle(more) /\ more.ch = "" /\ more.itemname = <<>>
      /\ more.target = target /\ more.section = tag
      /\ more.sectiondata = Append(items, item)
      /\ \A next : Advance(more, next) = [more EXCEPT !.ch = next]
  <2>1. Append(items, item) \in Seq(Item)
    BY AppendProperties
  <2>2. IsSettled(more, target, tag, Append(items, item))
    BY <2>1, SettledIs
  <2> QED BY <2>2 DEF IsSettled
<1>a. item = [key |-> key, value |-> v] /\ Plain(key)
  BY DEF Item
<1> HIDE DEF D, more, key, v
<1>b. more = [D EXCEPT !.sectiondata = Append(items, item)]
  <2> DEFINE x == [D EXCEPT !.sectiondata = Append(items, item)]
  <2>1. Append(items, item) \in Seq(Item)
    BY AppendProperties
  <2>2. /\ x \in Confs /\ Idle(x) /\ x.ch = D.ch /\ x.itemname = D.itemname
        /\ x.section = D.section /\ x.target = D.target
        /\ x.sectiondata = Append(items, item)
    BY <1>2, <2>1 DEF Idle, Confs, Locals, Nested
  <2> HIDE DEF x
  <2> QED BY <1>2, <1>3, <2>2, SettledAlike DEF x
<1>4. t1 \in Text /\ After(t1) = InWord(D, key, " ")
  BY <1>0, <1>1, <1>2, <1>a, ReadWord
<1> DEFINE e == [D EXCEPT !.itemname = key, !.ch = "\""]
<1>5. t2 \in Text /\ After(t2) = e
  <2> DEFINE a1 == InWord(D, key, " ")
             b1 == [a1 EXCEPT !.in_word = FALSE, !.ch = "="]
             b2 == [D EXCEPT !.itemname = key, !.ch = " "]
  <2>1. Advance(a1, "=") = b1
    <3>1. /\ a1.ok /\ ~a1.skip /\ ~a1.rest /\ ~a1.in_quote /\ ~a1.in_ml_comment
          /\ a1.ch = " "
      BY <1>2 DEF InWord, Idle, Confs, Locals
    <3> HIDE DEF a1
    <3> QED BY <3>1 DEF Advance, Character
  <2>2. Advance(b1, " ") = b2
    <3>1. /\ b1.ok /\ ~b1.skip /\ ~b1.rest /\ ~b1.in_quote /\ ~b1.in_ml_comment
          /\ b1.ch = "=" /\ b1.section # <<>> /\ b1.itemname = <<>>
          /\ b1.wordbuffer = key
      BY <1>1, <1>2 DEF InWord, Idle, Confs, Locals
    <3>2. [b1 EXCEPT !.in_word = FALSE, !.itemname = key, !.wordbuffer = <<>>,
                     !.ch = " "] = b2
      BY <1>2 DEF InWord, Idle, Confs, Locals
    <3> HIDE DEF b1, b2
    <3>3. Advance(b1, " ") = [Equals(b1) EXCEPT !.ch = " "]
      BY <3>1 DEF Advance, Character
    <3>4. Equals(b1) = [b1 EXCEPT !.in_word = FALSE, !.itemname = b1.wordbuffer,
                                  !.wordbuffer = <<>>]
      BY <3>1 DEF Equals
    <3> QED BY <3>1, <3>2, <3>3, <3>4
  <2>3. Advance(b2, "\"") = e
    <3>1. /\ b2.ok /\ ~b2.skip /\ ~b2.rest /\ ~b2.in_quote /\ ~b2.in_ml_comment
          /\ b2.ch = " " /\ ~b2.in_word /\ b2 \in Confs
      BY <1>0, <1>1, <1>2 DEF Idle, Confs, Locals, Nested
    <3>2. [b2 EXCEPT !.in_word = FALSE, !.ch = "\""] = e
      BY <1>2 DEF Idle, Confs, Locals
    <3> HIDE DEF b2
    <3>3. Advance(b2, "\"") = [[b2 EXCEPT !.in_word = FALSE] EXCEPT !.ch = "\""]
      BY <3>1 DEF Advance, Character
    <3> QED BY <3>2, <3>3
  <2> HIDE DEF a1, b1, b2, t1, e
  <2>4. /\ Append(t1, "=") \in Text /\ After(Append(t1, "=")) = b1
    BY <1>0, <1>4, <2>1, AfterIs DEF a1
  <2>5. /\ Append(Append(t1, "="), " ") \in Text
        /\ After(Append(Append(t1, "="), " ")) = b2
    BY <1>0, <2>2, <2>4, AfterIs
  <2> QED BY <1>0, <2>3, <2>5, AfterIs
<1>6. e \in Confs /\ Idle(e) /\ e.ch = "\"" /\ e.section # <<>> /\ e.itemname # <<>>
  BY <1>0, <1>1, <1>2 DEF Idle, Confs, Locals, Nested
<1>7. t3 \in Text /\ After(t3) = InQuote(e, v, "\"")
  <2> HIDE DEF e, t2
  <2> QED BY <1>1, <1>5, <1>6, ReadValue
<1> DEFINE q == InQuote(e, v, "\"")
           c == [e EXCEPT !.wordbuffer = v, !.ch = "\n"]
<1>8. Advance(q, "\n") = c
  <2>1. /\ q.ok /\ ~q.skip /\ ~q.rest /\ q.in_quote /\ q.ch = "\""
    BY <1>6 DEF InQuote, Idle, Confs, Locals
  <2>2. [q EXCEPT !.in_quote = FALSE, !.in_word = FALSE, !.ch = "\n"] = c
    BY <1>6 DEF InQuote, Idle, Confs, Locals
  <2> HIDE DEF q, c
  <2>3. Advance(q, "\n") = [[q EXCEPT !.in_quote = FALSE, !.in_word = FALSE]
                              EXCEPT !.ch = "\n"]
    BY <2>1 DEF Advance, Character, Quoted
  <2> QED BY <2>2, <2>3
<1>9. t4 \in Text /\ After(t4) = c
  BY <1>0, <1>7, <1>8, AfterIs
<1>10. Like(c, more)
  <2> SUFFICES ASSUME NEW next PROVE Advance(c, next) = Advance(more, next)
    BY DEF Like
  <2>1. /\ c.ok /\ ~c.skip /\ ~c.in_quote /\ c.ch = "\n" /\ c.itemname = key
        /\ c.wordbuffer = v /\ c.sectiondata = items
    BY <1>2 DEF Idle, Confs, Locals
  <2>2. [c EXCEPT !.in_word = FALSE, !.rest = FALSE,
                  !.sectiondata = Append(items, item),
                  !.wordbuffer = <<>>, !.itemname = <<>>, !.ch = next]
          = [more EXCEPT !.ch = next]
    BY <1>2, <1>b DEF Idle, Confs, Locals
  <2> DEFINE dd == [c EXCEPT !.in_word = FALSE, !.rest = FALSE]
             all == [dd EXCEPT !.sectiondata = Append(items, item),
                               !.wordbuffer = <<>>, !.itemname = <<>>]
  <2>a. dd.itemname = key /\ dd.wordbuffer = v /\ dd.sectiondata = items
    BY <1>2 DEF Idle, Confs, Locals
  <2>b. [all EXCEPT !.ch = next] = [more EXCEPT !.ch = next]
    BY <2>2
  <2> HIDE DEF c
  <2>c. EndOfLine(c) =
          IF dd.itemname = <<>> THEN dd
          ELSE IF dd.wordbuffer = <<>> THEN Error(dd)
          ELSE [dd EXCEPT
                 !.sectiondata =
                   Append(dd.sectiondata,
                          [key |-> dd.itemname, value |-> dd.wordbuffer]),
                 !.wordbuffer = <<>>, !.itemname = <<>>]
    BY <2>1 DEF EndOfLine
  <2> HIDE DEF dd
  <2>3. EndOfLine(c) = all
    BY <1>1, <1>a, <2>a, <2>c
  <2> HIDE DEF all
  <2>4. Advance(c, next) = [EndOfLine(c) EXCEPT !.ch = next]
    BY <2>1 DEF Advance
  <2>5. Advance(more, next) = [more EXCEPT !.ch = next]
    BY <1>3
  <2> QED BY ONLY <2>b, <2>3, <2>4, <2>5
<1>11. WrittenItem(item) \in Text /\ text \o WrittenItem(item) = t4
  <2> DEFINE A == <<" ", "=", " ", "\"">>
             B == <<"\"", "\n">>
             ka == key \o A
             kav == ka \o v
  <2>1. WrittenItem(item) = kav \o B
    BY DEF WrittenItem, key, v
  <2>0. " " \in Characters /\ "=" \in Characters /\ "\"" \in Characters /\ "\n" \in Characters
    BY <1>0
  <2>2. A \in Text /\ B \in Text
    BY <2>0, TwoText, FourText
  <2>3. (text \o key) \o A = t2
    <3> DEFINE s == text \o key
    <3>1. s \in Text
      BY <1>1, ConcatProperties DEF Text
    <3> HIDE DEF s
    <3>2. PICK space \in Characters : space = " "
      BY <2>0
    <3>b. PICK equals \in Characters : equals = "="
      BY <2>0
    <3>c. PICK quote \in Characters : quote = "\""
      BY <2>0
    <3>d. s \o <<space, equals, space, quote>>
            = Append(Append(Append(Append(s, space), equals), space), quote)
      BY <3>1, FourMore
    <3>3. s \o A = Append(Append(Append(Append(s, " "), "="), " "), "\"")
      BY <3>2, <3>b, <3>c, <3>d, Zenon
    <3> QED BY <3>3 DEF s
  <2>4. (t2 \o v) \o B = t4
    <3> DEFINE s == t2 \o v
    <3>1. s \in Text
      BY <1>1, <1>5, ConcatProperties DEF Text
    <3> HIDE DEF s
    <3>2. s \o B = Append(Append(s, "\""), "\n")
      BY <2>0, <3>1, TwoMore
    <3> QED BY <3>2 DEF s
  <2> HIDE DEF A, B, t2, t4
  <2>5. ka \in Text /\ kav \in Text /\ kav \o B \in Text
    <3>1. ka \in Text
      BY <1>1, <2>2, ConcatProperties DEF Text
    <3> HIDE DEF ka
    <3>2. kav \in Text
      BY <1>1, <3>1, ConcatProperties DEF Text
    <3> HIDE DEF kav
    <3> QED BY <2>2, <3>1, <3>2, ConcatProperties DEF Text
  <2>6. text \o ka = t2
    <3>1. text \o (key \o A) = (text \o key) \o A
      BY <1>1, <2>2, Together
    <3> QED BY <2>3, <3>1
  <2> HIDE DEF ka
  <2>7. text \o kav = t2 \o v
    <3>1. text \o (ka \o v) = (text \o ka) \o v
      BY <1>1, <2>5, Together
    <3> QED BY <2>6, <3>1
  <2> HIDE DEF kav
  <2>8. text \o (kav \o B) = t4
    <3>1. text \o (kav \o B) = (text \o kav) \o B
      BY <2>2, <2>5, Together
    <3> QED BY <2>4, <2>7, <3>1
  <2> QED BY <2>1, <2>5, <2>8
<1> HIDE DEF t4, c
<1> QED BY <1>9, <1>10, <1>11 DEF more

\* The end of a line that has nothing more to store.
LEMMA LineEnds ==
  ASSUME NEW target \in Seq(Section), NEW tag \in Seq(Word), NEW items \in Seq(Item),
         tag = <<>> => items = <<>>
  PROVE  Like([Settled(target, tag, items) EXCEPT !.ch = "\n"],
              Settled(target, tag, items))
<1> DEFINE d == Settled(target, tag, items)
           c == [d EXCEPT !.ch = "\n"]
<1>1. /\ d \in Confs /\ Idle(d) /\ d.itemname = <<>>
      /\ \A next : Advance(d, next) = [d EXCEPT !.ch = next]
  <2>1. IsSettled(d, target, tag, items)
    BY SettledIs
  <2> QED BY <2>1 DEF IsSettled
<1> HIDE DEF d
<1>2. /\ c.ok /\ ~c.skip /\ ~c.in_quote /\ c.ch = "\n" /\ c.itemname = <<>>
      /\ \A next : [c EXCEPT !.in_word = FALSE, !.rest = FALSE, !.ch = next]
                     = [d EXCEPT !.ch = next]
  BY <1>1 DEF Idle, Confs, Locals
<1> HIDE DEF c
<1>3. EndOfLine(c) = [c EXCEPT !.in_word = FALSE, !.rest = FALSE]
  <2>1. [c EXCEPT !.in_word = FALSE, !.rest = FALSE].itemname = c.itemname
    BY <1>1, <1>2 DEF c, Confs, Locals
  <2> QED BY <1>2, <2>1 DEF EndOfLine
<1>4. \A next : Advance(c, next) = [EndOfLine(c) EXCEPT !.ch = next]
  BY <1>2 DEF Advance
<1>5. ASSUME NEW next PROVE Advance(c, next) = Advance(d, next)
  <2>1. [[c EXCEPT !.in_word = FALSE, !.rest = FALSE] EXCEPT !.ch = next]
          = [d EXCEPT !.ch = next]
    BY <1>2
  <2>2. Advance(c, next) = [EndOfLine(c) EXCEPT !.ch = next]
    BY <1>4
  <2>3. Advance(d, next) = [d EXCEPT !.ch = next]
    BY <1>1
  <2> QED BY ONLY <1>3, <2>1, <2>2, <2>3
<1> QED BY <1>5 DEF Like, c, d

\* An item that is written is a text.
LEMMA WrittenItemType ==
  ASSUME NEW item \in Item
  PROVE  WrittenItem(item) \in Text
<1> DEFINE A == <<" ", "=", " ", "\"">>
           B == <<"\"", "\n">>
<1>1. item.key \in Text /\ item.value \in Text
  BY Sayable
<1>2. A \in Text /\ B \in Text
  <2>1. /\ " " \in Characters /\ "=" \in Characters /\ "\"" \in Characters
        /\ "\n" \in Characters
    BY DEF Characters, Syntax
  <2> QED BY <2>1, TwoText, FourText
<1> HIDE DEF A, B
<1> DEFINE ka == item.key \o A
           kav == ka \o item.value
<1>3. ka \in Text
  BY <1>1, <1>2, ConcatProperties DEF Text
<1> HIDE DEF ka
<1>4. kav \in Text
  BY <1>1, <1>3, ConcatProperties DEF Text
<1> HIDE DEF kav
<1>5. kav \o B \in Text
  BY <1>2, <1>4, ConcatProperties DEF Text
<1> QED BY <1>5 DEF WrittenItem, kav, ka, A, B

WrittenItems(items) ==
  FlattenSeq([i \in 1 .. Len(items) |-> WrittenItem(items[i])])

\* What is written for the items of a section, when there is one more.
LEMMA WrittenItemsAppend ==
  ASSUME NEW items \in Seq(Item), NEW item \in Item
  PROVE  /\ WrittenItems(items) \in Text /\ WrittenItems(<<>>) = <<>>
         /\ WrittenItems(Append(items, item))
              = WrittenItems(items) \o WrittenItem(item)
<1> DEFINE f == [e \in Item |-> WrittenItem(e)]
           all(t) == All(f, t)
<1>1. f \in [Item -> Text]
  BY WrittenItemType
<1>2. ASSUME NEW s \in Seq(Item) PROVE WrittenItems(s) = all(s)
  <2>1. \A i \in 1 .. Len(s) : s[i] \in Item
    BY ElementOfSeq
  <2> QED BY <2>1 DEF WrittenItems, All
<1>3. <<>> \in Seq(Item) /\ Append(items, item) \in Seq(Item)
  BY EmptySeq, AppendProperties
<1>4. f[item] = WrittenItem(item)
  OBVIOUS
<1> HIDE DEF f
<1>5. /\ all(<<>>) = <<>> /\ all(items) \in Text
      /\ all(Append(items, item)) = all(items) \o f[item]
  BY <1>1, FlattenTexts DEF Text
<1> QED BY <1>2, <1>3, <1>4, <1>5

\* What is written for the items of a section is a text.
LEMMA WrittenItemsType ==
  ASSUME NEW items \in Seq(Item)
  PROVE  WrittenItems(items) \in Text /\ WrittenItems(<<>>) = <<>>
<1> DEFINE item == [key |-> <<"*">>, value |-> <<"*">>]
<1>1. <<"*">> \in Seq(Word) \ {<<>>} /\ <<"*">> \in Seq(Value) \ {<<>>}
  BY DEF Word, Value, Characters, Syntax
<1>2. item \in Item
  BY <1>1 DEF Item
<1> QED BY <1>2, WrittenItemsAppend

\* The items of a section, one after the other.
LEMMA ReadItems ==
  ASSUME NEW target \in Seq(Section), NEW tag \in Seq(Word), tag # <<>>,
         NEW items \in Seq(Item),
         \A i \in 1 .. Len(items) : Plain(items[i].key),
         NEW text \in Text, Like(After(text), Settled(target, tag, <<>>))
  PROVE  /\ text \o WrittenItems(items) \in Text
         /\ Like(After(text \o WrittenItems(items)), Settled(target, tag, items))
<1> DEFINE N == Len(items)
           to(i) == SubSeq(items, 1, i)
           upto(i) == text \o WrittenItems(to(i))
           Done == {i \in 0 .. N : Like(After(upto(i)), Settled(target, tag, to(i)))}
<1>1. N \in Nat /\ \A i \in 1 .. N : items[i] \in Item /\ Plain(items[i].key)
  BY LenProperties, ElementOfSeq
<1>2. /\ to(0) = <<>> /\ to(N) = items
      /\ \A n \in 0 .. N : to(n) \in Seq(Item)
      /\ \A n \in 0 .. N - 1 : to(n + 1) = Append(to(n), items[n + 1])
  BY Beginning
<1> HIDE DEF N, to
<1>3. ASSUME NEW n \in 0 .. N PROVE WrittenItems(to(n)) \in Text /\ upto(n) \in Text
  <2>1. WrittenItems(to(n)) \in Text
    BY <1>2, WrittenItemsType
  <2> QED BY <2>1, ConcatProperties DEF Text
<1>4. 0 \in Done
  <2>1. WrittenItems(to(0)) = <<>>
    BY <1>2 DEF WrittenItems, FlattenSeq
  <2>2. upto(0) = text
    BY <2>1, ConcatEmptySeq DEF Text
  <2> HIDE DEF upto
  <2> QED BY <1>1, <1>2, <2>2
<1>5. ASSUME NEW n \in 0 .. N - 1, n \in Done PROVE n + 1 \in Done
  <2> DEFINE x == items[n + 1]
             some == to(n)
             t == upto(n)
  <2>1. n \in 0 .. N /\ n + 1 \in 1 .. N /\ n + 1 \in 0 .. N
    BY <1>1
  <2>2. /\ x \in Item /\ Plain(x.key) /\ some \in Seq(Item)
        /\ to(n + 1) = Append(some, x) /\ t \in Text
        /\ WrittenItems(some) \in Text
    BY <1>1, <1>2, <1>3, <2>1
  <2>3. Like(After(t), Settled(target, tag, some))
    BY <1>5
  <2>4. t = text \o WrittenItems(some)
    OBVIOUS
  <2> HIDE DEF x, some, t
  <2>5. /\ WrittenItem(x) \in Text
        /\ Like(After(t \o WrittenItem(x)), Settled(target, tag, Append(some, x)))
    BY <2>2, <2>3, ReadItem
  <2>6. WrittenItems(Append(some, x)) = WrittenItems(some) \o WrittenItem(x)
    BY <2>2, WrittenItemsAppend
  <2>7. text \o (WrittenItems(some) \o WrittenItem(x)) = t \o WrittenItem(x)
    BY <2>2, <2>4, <2>5, Together
  <2>8. upto(n + 1) = t \o WrittenItem(x)
    BY <2>2, <2>6, <2>7
  <2> HIDE DEF upto
  <2> QED BY <2>1, <2>2, <2>5, <2>8
<1> HIDE DEF Done
<1>6. \A n \in 0 .. N : n \in Done
  BY <1>1, <1>4, <1>5, UpTo
<1>7. N \in 0 .. N
  BY <1>1
<1>8. Like(After(upto(N)), Settled(target, tag, to(N))) /\ upto(N) \in Text
  BY <1>3, <1>6, <1>7 DEF Done
<1> QED BY <1>2, <1>8

\* What is written for a section, part by part.
LEMMA WrittenSectionIs ==
  ASSUME NEW section \in Section, NEW text \in Text
  PROVE  /\ WrittenSection(section) \in Text
         /\ text \o WrittenSection(section) =
              (((text \o section.tag) \o <<" ", "{", "\n">>)
                 \o WrittenItems(section.items)) \o <<"}", "\n">>
<1> DEFINE A == <<" ", "{", "\n">>
           B == <<"}", "\n">>
           tag == section.tag
           all == WrittenItems(section.items)
           ta == tag \o A
           tall == ta \o all
<1>0. tag \in Text /\ section.items \in Seq(Item)
  BY Sayable DEF Section
<1>1. tag \in Text /\ all \in Text
  BY <1>0, WrittenItemsType
<1>2. A \in Text /\ B \in Text
  <2>1. /\ " " \in Characters /\ "{" \in Characters /\ "}" \in Characters
        /\ "\n" \in Characters
    BY DEF Characters, Syntax
  <2> QED BY <2>1, TwoText, ThreeText
<1>3. WrittenSection(section) = tall \o B
  BY DEF WrittenSection, WrittenItems
<1> HIDE DEF A, B, all, tag
<1>4. ta \in Text /\ text \o ta = (text \o tag) \o A
  <2>1. ta \in Text
    BY <1>1, <1>2, ConcatProperties DEF Text
  <2> QED BY <1>1, <1>2, <2>1, Together
<1> HIDE DEF ta
<1>5. tall \in Text /\ text \o tall = (text \o ta) \o all
  <2>1. tall \in Text
    BY <1>1, <1>4, ConcatProperties DEF Text
  <2> QED BY <1>1, <1>4, <2>1, Together
<1> HIDE DEF tall
<1>6. tall \o B \in Text /\ text \o (tall \o B) = (text \o tall) \o B
  <2>1. tall \o B \in Text
    BY <1>2, <1>5, ConcatProperties DEF Text
  <2> QED BY <1>2, <1>5, <2>1, Together
<1>7. /\ WrittenSection(section) \in Text
      /\ text \o WrittenSection(section) = (((text \o tag) \o A) \o all) \o B
  BY ONLY <1>3, <1>4, <1>5, <1>6
<1> QED BY <1>7 DEF A, B, all, tag

\* What a section says, written plainly, is read as that section.
LEMMA ReadSection ==
  ASSUME NEW target \in Seq(Section), NEW section \in Section,
         Plain(section.tag),
         \A i \in 1 .. Len(section.items) : Plain(section.items[i].key),
         NEW text \in Text, Like(After(text), Settled(target, <<>>, <<>>))
  PROVE  /\ text \o WrittenSection(section) \in Text
         /\ Like(After(text \o WrittenSection(section)),
                 Settled(Append(target, section), <<>>, <<>>))
<1> DEFINE tag == section.tag
           items == section.items
           E == Settled(target, <<>>, <<>>)
           open == Settled(target, tag, <<>>)
           full == Settled(target, tag, items)
           more == Settled(Append(target, section), <<>>, <<>>)
           t1 == Append(text \o tag, " ")
           t2 == Append(Append(t1, "{"), "\n")
           t3 == t2 \o WrittenItems(items)
           t4 == Append(Append(t3, "}"), "\n")
<1>0. {" ", "{", "}", "\n"} \subseteq Characters
  BY DEF Characters, Syntax
<1>1. /\ tag \in Seq(Word) /\ tag # <<>> /\ tag \in Text /\ items \in Seq(Item)
      /\ <<>> \in Seq(Word) /\ <<>> \in Seq(Item)
      /\ section = [tag |-> tag, items |-> items]
      /\ Append(target, section) \in Seq(Section)
  BY Sayable, EmptySeq, AppendProperties DEF Section
<1>2. /\ E \in Confs /\ Idle(E) /\ E.ch = "" /\ E.itemname = <<>>
      /\ E.target = target /\ E.section = <<>> /\ E.sectiondata = <<>>
      /\ Like(After(text), E)
  <2>1. IsSettled(E, target, <<>>, <<>>)
    BY <1>1, SettledIs
  <2> QED BY <2>1 DEF IsSettled
<1>3. /\ full \in Confs /\ Idle(full) /\ full.ch = "" /\ full.itemname = <<>>
      /\ full.target = target /\ full.section = tag /\ full.sectiondata = items
      /\ \A next : Advance(full, next) = [full EXCEPT !.ch = next]
  <2>1. IsSettled(full, target, tag, items)
    BY <1>1, SettledIs
  <2> QED BY <2>1 DEF IsSettled
<1>4. Like([open EXCEPT !.ch = "\n"], open) /\ Like([more EXCEPT !.ch = "\n"], more)
  BY <1>1, LineEnds
<1>a. Plain(tag) /\ \A i \in 1 .. Len(items) : Plain(items[i].key)
  OBVIOUS
<1>e. /\ open \in Confs /\ Idle(open) /\ open.ch = "" /\ open.itemname = <<>>
      /\ open.target = target /\ open.section = tag /\ open.sectiondata = <<>>
  <2>1. IsSettled(open, target, tag, <<>>)
    BY <1>1, SettledIs
  <2> QED BY <2>1 DEF IsSettled
<1>f. /\ more \in Confs /\ Idle(more) /\ more.ch = "" /\ more.itemname = <<>>
      /\ more.target = Append(target, section) /\ more.section = <<>>
      /\ more.sectiondata = <<>>
  <2>1. IsSettled(more, Append(target, section), <<>>, <<>>)
    BY <1>1, SettledIs
  <2> QED BY <2>1 DEF IsSettled
<1>g. open = Settled(target, tag, <<>>) /\ full = Settled(target, tag, items)
  OBVIOUS
<1> HIDE DEF E, tag, items, open, full, more
<1>b. open = [E EXCEPT !.section = tag]
  BY <1>2, <1>e DEF Idle, Confs, Locals
<1>c. more = [full EXCEPT !.target = Append(target, section), !.section = <<>>,
                          !.sectiondata = <<>>]
  <2> DEFINE x == [full EXCEPT !.target = Append(target, section), !.section = <<>>,
                               !.sectiondata = <<>>]
  <2>2. /\ x \in Confs /\ Idle(x) /\ x.ch = full.ch /\ x.itemname = full.itemname
        /\ x.section = <<>> /\ x.target = Append(target, section)
        /\ x.sectiondata = <<>>
    BY <1>1, <1>3 DEF Idle, Confs, Locals, Nested
  <2> HIDE DEF x
  <2> QED BY <1>3, <1>f, <2>2, SettledAlike DEF x
<1>5. t1 \in Text /\ After(t1) = InWord(E, tag, " ")
  BY <1>0, <1>1, <1>2, <1>a, ReadWord
<1>6. t2 \in Text /\ After(t2) = [open EXCEPT !.ch = "\n"]
  <2> DEFINE a1 == InWord(E, tag, " ")
             b1 == [a1 EXCEPT !.in_word = FALSE, !.ch = "{"]
             b2 == [open EXCEPT !.ch = "\n"]
  <2>1. Advance(a1, "{") = b1
    <3>1. /\ a1.ok /\ ~a1.skip /\ ~a1.rest /\ ~a1.in_quote /\ ~a1.in_ml_comment
          /\ a1.ch = " "
      BY <1>2 DEF InWord, Idle, Confs, Locals
    <3> HIDE DEF a1
    <3> QED BY <3>1 DEF Advance, Character
  <2>2. Advance(b1, "\n") = b2
    <3>1. /\ b1.ok /\ ~b1.skip /\ ~b1.rest /\ ~b1.in_quote /\ ~b1.in_ml_comment
          /\ b1.ch = "{" /\ b1.section = <<>> /\ b1.wordbuffer = tag
      BY <1>1, <1>2 DEF InWord, Idle, Confs, Locals
    <3>2. [b1 EXCEPT !.in_word = FALSE, !.section = tag, !.wordbuffer = <<>>,
                     !.ch = "\n"] = b2
      BY <1>2, <1>b DEF InWord, Idle, Confs, Locals
    <3> HIDE DEF b1, b2
    <3>3. Advance(b1, "\n") = [OpenSection(b1) EXCEPT !.ch = "\n"]
      BY <3>1 DEF Advance, Character
    <3>4. OpenSection(b1) = [b1 EXCEPT !.in_word = FALSE, !.section = b1.wordbuffer,
                                       !.wordbuffer = <<>>]
      BY <1>1, <3>1 DEF OpenSection
    <3> QED BY <3>1, <3>2, <3>3, <3>4
  <2> HIDE DEF a1, b1, b2, t1
  <2>3. Append(t1, "{") \in Text /\ After(Append(t1, "{")) = b1
    BY <1>0, <1>5, <2>1, AfterIs DEF a1
  <2>4. t2 \in Text /\ After(t2) = b2
    BY <1>0, <2>2, <2>3, AfterIs
  <2> QED BY <2>4 DEF b2
<1> HIDE DEF t2
<1>7. t3 \in Text /\ Like(After(t3), full)
  <2>1. Like(After(t2), open)
    BY <1>4, <1>6
  <2> QED BY <1>1, <1>6, <1>a, <1>g, <2>1, ReadItems
<1> HIDE DEF t3
<1> DEFINE b == [full EXCEPT !.ch = "}"]
           c == [more EXCEPT !.ch = "\n"]
<1>8. Append(t3, "}") \in Text /\ After(Append(t3, "}")) = b
  <2>1. Advance(After(t3), "}") = b
    BY <1>0, <1>3, <1>7 DEF Like
  <2> QED BY <1>0, <1>7, <2>1, AfterIs
<1>9. Advance(b, "\n") = c
  <2>1. /\ b.ok /\ ~b.skip /\ ~b.rest /\ ~b.in_quote /\ ~b.in_ml_comment
        /\ b.ch = "}" /\ b.section = tag /\ b.wordbuffer = <<>>
        /\ b.itemname = <<>> /\ b.sectiondata = items /\ b.target = target
    BY <1>3 DEF Idle, Confs, Locals
  <2>2. [b EXCEPT !.target = Append(target, section), !.section = <<>>,
                  !.sectiondata = <<>>, !.ch = "\n"] = c
    BY <1>3, <1>c DEF Idle, Confs, Locals
  <2> HIDE DEF b, c
  <2>3. Advance(b, "\n") = [CloseSection(b) EXCEPT !.ch = "\n"]
    BY <2>1 DEF Advance, Character
  <2>4. CloseSection(b) = [b EXCEPT !.target = Append(target, section),
                                    !.section = <<>>, !.sectiondata = <<>>]
    BY <1>1, <2>1 DEF CloseSection
  <2> QED BY <2>2, <2>3, <2>4
<1>10. t4 \in Text /\ After(t4) = c
  <2> HIDE DEF b, c
  <2> QED BY <1>0, <1>8, <1>9, AfterIs
<1>11. text \o WrittenSection(section) = t4
  <2>1. text \o tag \in Text
    BY <1>1, ConcatProperties DEF Text
  <2> DEFINE s == text \o tag
             A == <<" ", "{", "\n">>
             B == <<"}", "\n">>
  <2>2. text \o WrittenSection(section) = ((s \o A) \o WrittenItems(items)) \o B
    BY WrittenSectionIs DEF tag, items
  <2>3. s \o A = t2
    <3>0. " " \in Characters /\ "{" \in Characters /\ "\n" \in Characters /\ s \in Text
      BY <1>0, <2>1
    <3>1. A = <<" ", "{">> \o <<"\n">>
      BY <3>0, ThreeText
    <3>2. s \o <<" ", "{">> = Append(Append(s, " "), "{")
      BY <3>0, TwoMore
    <3>c. <<" ", "{">> \in Text
      BY <3>0, TwoText
    <3>d. Append(Append(s, " "), "{") \in Text
      <4>1. Append(s, " ") \in Text
        BY <3>0, OneText
      <4> QED BY <3>0, <4>1, OneText
    <3>3. <<"\n">> \in Text
      BY <3>0, TwoText
    <3> HIDE DEF A, s
    <3>4. s \o (<<" ", "{">> \o <<"\n">>) = (s \o <<" ", "{">>) \o <<"\n">>
      BY <3>0, <3>c, <3>3, Together
    <3>5. Append(Append(s, " "), "{") \o <<"\n">>
            = Append(Append(Append(s, " "), "{"), "\n")
      BY <3>0, <3>d, OneText
    <3> QED BY <3>1, <3>2, <3>4, <3>5 DEF t2, s
  <2>4. t3 \o B = t4
    <3>1. "}" \in Characters /\ "\n" \in Characters
      BY <1>0
    <3> QED BY <1>7, <3>1, TwoMore
  <2> HIDE DEF A, B, s, t4
  <2> QED BY <2>2, <2>3, <2>4 DEF t3
<1> HIDE DEF t4, c
<1> QED BY <1>4, <1>10, <1>11 DEF more, c

\* What is written for a file, when there is one section more.
LEMMA WrittenAppend ==
  ASSUME NEW target \in Seq(Section), NEW section \in Section
  PROVE  /\ Written(target) \in Text /\ Written(<<>>) = <<>>
         /\ Written(Append(target, section))
              = Written(target) \o WrittenSection(section)
<1> DEFINE f == [e \in Section |-> WrittenSection(e)]
           all(t) == All(f, t)
<1>1. f \in [Section -> Text]
  <2>1. <<>> \in Text
    BY Sayable
  <2> QED BY <2>1, WrittenSectionIs
<1>2. ASSUME NEW s \in Seq(Section) PROVE Written(s) = all(s)
  <2>1. \A i \in 1 .. Len(s) : s[i] \in Section
    BY ElementOfSeq
  <2> QED BY <2>1 DEF Written, All
<1>3. <<>> \in Seq(Section) /\ Append(target, section) \in Seq(Section)
  BY EmptySeq, AppendProperties
<1>4. f[section] = WrittenSection(section)
  OBVIOUS
<1> HIDE DEF f
<1>5. /\ all(<<>>) = <<>> /\ all(target) \in Text
      /\ all(Append(target, section)) = all(target) \o f[section]
  BY <1>1, FlattenTexts DEF Text
<1> QED BY <1>2, <1>3, <1>4, <1>5

\* What is written for a file is a text.
LEMMA WrittenType ==
  ASSUME NEW target \in Seq(Section)
  PROVE  Written(target) \in Text
<1> DEFINE section == [tag |-> <<"*">>, items |-> <<>>]
<1>1. <<"*">> \in Seq(Word) \ {<<>>} /\ <<>> \in Seq(Item)
  BY EmptySeq DEF Word
<1>2. section \in Section
  BY <1>1 DEF Section
<1> QED BY <1>2, WrittenAppend

\* Names that are plain, one by one.
LEMMA PlainNames ==
  ASSUME NEW target \in Seq(Section), \A word \in NamesIn(target) : Plain(word),
         NEW s \in 1 .. Len(target)
  PROVE  /\ target[s] \in Section /\ Plain(target[s].tag)
         /\ \A i \in 1 .. Len(target[s].items) : Plain(target[s].items[i].key)
<1>1. target[s] \in Section
  BY ElementOfSeq
<1> DEFINE items == target[s].items
<1>2. items \in Seq(Item)
  BY <1>1 DEF Section
<1>3. target[s].tag \in NamesIn(target)
  BY DEF NamesIn
<1>4. ASSUME NEW i \in 1 .. Len(items) PROVE items[i].key \in NamesIn(target)
  <2>1. DOMAIN items = 1 .. Len(items)
    BY <1>2, LenProperties
  <2>2. items[i] \in Range(items)
    BY <2>1 DEF Range
  <2> QED BY <2>2 DEF NamesIn
<1> QED BY <1>1, <1>3, <1>4

\* A file written plainly says what it was written from.
LEMMA ReadWritten ==
  ASSUME NEW target \in Seq(Section), \A word \in NamesIn(target) : Plain(word)
  PROVE  LoadConf(Written(target)) = [Start EXCEPT !.target = target]
<1> DEFINE N == Len(target)
           to(i) == SubSeq(target, 1, i)
           Done == {i \in 0 .. N :
                      Like(After(Written(to(i))), Settled(to(i), <<>>, <<>>))}
<1>1. /\ N \in Nat /\ <<>> \in Seq(Word) /\ <<>> \in Seq(Item)
      /\ \A s \in 1 .. N :
           /\ target[s] \in Section /\ Plain(target[s].tag)
           /\ \A i \in 1 .. Len(target[s].items) : Plain(target[s].items[i].key)
  BY LenProperties, EmptySeq, PlainNames
<1>2. /\ to(0) = <<>> /\ to(N) = target
      /\ \A n \in 0 .. N : to(n) \in Seq(Section)
      /\ \A n \in 0 .. N - 1 : to(n + 1) = Append(to(n), target[n + 1])
  BY Beginning
<1> HIDE DEF N, to
<1>3. 0 \in Done
  <2>1. Written(<<>>) = <<>>
    BY DEF Written, FlattenSeq
  <2>2. After(<<>>) = Start
    <3>1. <<>> \in Text /\ "*" \in Characters
      BY Sayable DEF Characters, Syntax
    <3> QED BY <3>1, AfterIs
  <2>3. Settled(<<>>, <<>>, <<>>) = Start
    BY DEF Settled, Start
  <2> QED BY <1>1, <1>2, <2>1, <2>2, <2>3 DEF Like
<1>4. ASSUME NEW n \in 0 .. N - 1, n \in Done PROVE n + 1 \in Done
  <2> DEFINE x == target[n + 1]
             some == to(n)
             text == Written(some)
  <2>1. n \in 0 .. N /\ n + 1 \in 1 .. N /\ n + 1 \in 0 .. N
    BY <1>1
  <2>2. /\ x \in Section /\ Plain(x.tag) /\ some \in Seq(Section)
        /\ \A i \in 1 .. Len(x.items) : Plain(x.items[i].key)
        /\ to(n + 1) = Append(some, x)
    BY <1>1, <1>2, <2>1
  <2>3. Like(After(text), Settled(some, <<>>, <<>>))
    BY <1>4
  <2> HIDE DEF x, some
  <2>4. text \in Text
    BY <2>2, WrittenType
  <2>5. Written(Append(some, x)) = text \o WrittenSection(x)
    BY <2>2, WrittenAppend
  <2> HIDE DEF text
  <2>6. Like(After(text \o WrittenSection(x)),
             Settled(Append(some, x), <<>>, <<>>))
    BY <2>2, <2>3, <2>4, ReadSection
  <2> QED BY <2>1, <2>2, <2>5, <2>6
<1> HIDE DEF Done
<1>5. \A n \in 0 .. N : n \in Done
  BY <1>1, <1>3, <1>4, UpTo
<1>6. Like(After(Written(target)), Settled(target, <<>>, <<>>))
  <2>1. N \in 0 .. N
    BY <1>1
  <2> QED BY <1>2, <1>5, <2>1 DEF Done
<1> DEFINE a == After(Written(target))
           d == Settled(target, <<>>, <<>>)
           b == [d EXCEPT !.ch = "\n"]
<1>7. /\ d \in Confs /\ Idle(d) /\ d.ch = "" /\ d.itemname = <<>>
      /\ d.section = <<>> /\ d.target = target /\ d.sectiondata = <<>>
      /\ \A next : Advance(d, next) = [d EXCEPT !.ch = next]
      /\ Like(b, d)
  <2>1. IsSettled(d, target, <<>>, <<>>)
    BY <1>1, SettledIs
  <2>2. Like(b, d)
    BY <1>1, LineEnds
  <2> QED BY <2>1, <2>2 DEF IsSettled
<1>8. d = [Start EXCEPT !.target = target]
  <2> DEFINE x == [Start EXCEPT !.target = target]
  <2>1. /\ x \in Confs /\ x.target = target /\ x.section = <<>> /\ x.sectiondata = <<>>
        /\ x.itemname = <<>> /\ x.ch = "" /\ Idle(x)
    BY EmptySeq DEF Start, Confs, Locals, Nested, Idle
  <2>2. d.target = target /\ d.sectiondata = <<>>
    BY <1>7
  <2> HIDE DEF d, x
  <2> QED BY <1>7, <2>1, <2>2, SettledAlike DEF x
<1>9. LoadConf(Written(target)) = Finish(a)
  BY DEF LoadConf, After
<1> HIDE DEF a, d
<1>10. Advance(a, "\n") = b
  <2>1. "\n" \in Characters
    BY DEF Characters, Syntax
  <2> QED BY <1>6, <1>7, <2>1 DEF Like, a, d
<1>11. Advance(b, "") = d
  <2>1. b.ok /\ ~b.skip /\ b.ch = "\n" /\ ~b.in_quote /\ b.itemname = <<>>
    BY <1>7 DEF Idle, Confs, Locals
  <2>2. [b EXCEPT !.in_word = FALSE, !.rest = FALSE, !.ch = ""] = d
    BY <1>7 DEF Idle, Confs, Locals
  <2>3. [b EXCEPT !.in_word = FALSE, !.rest = FALSE].itemname = b.itemname
    BY <1>7 DEF Confs, Locals
  <2> HIDE DEF b
  <2>4. EndOfLine(b) = [b EXCEPT !.in_word = FALSE, !.rest = FALSE]
    BY <2>1, <2>3 DEF EndOfLine
  <2>5. Advance(b, "") = [EndOfLine(b) EXCEPT !.ch = ""]
    BY <2>1 DEF Advance
  <2> QED BY <2>2, <2>4, <2>5
<1> HIDE DEF b
<1>12. Finish(a) = d
  BY <1>7, <1>10, <1>11 DEF Finish, Idle
<1> QED BY <1>8, <1>9, <1>12

\* When the file ends and is accepted.
LEMMA ConfInvSuffices == ConfInv => Understood
<1> SUFFICES ASSUME ConfInv, Finish(conf).ok
             PROVE  LET end == Finish(conf) IN
                    /\ Said(end.target) = Words(conf, "\n", characters)
                    /\ (\A word \in NamesIn(end.target) : Plain(word)) =>
                         LoadConf(Written(end.target))
                           = [Start EXCEPT !.target = end.target]
  BY DEF Understood
<1> DEFINE end == Finish(conf)
<1>1. conf \in Confs
  BY DEF ConfInv
<1>2. /\ conf.ok /\ end.target \in Seq(Section)
      /\ Said(end.target) = Words(conf, "\n", Kept(conf))
  BY <1>1, Accepted
<1>3. Said(end.target) = Words(conf, "\n", characters)
  BY <1>2 DEF ConfInv
<1> HIDE DEF end
<1>4. (\A word \in NamesIn(end.target) : Plain(word)) =>
        LoadConf(Written(end.target)) = [Start EXCEPT !.target = end.target]
  BY <1>2, ReadWritten
<1> QED BY <1>3, <1>4 DEF end

\* For files of any length with any names and values, however they are laid
\* out: a file that is accepted says, in its sections, the characters that are
\* neither syntax nor in a comment, in their order, and the plainest file of
\* these sections is read as them (configreader.cpp:680-892).
THEOREM AcceptedFilesAreUnderstood == ConfSpec => []Understood
<1>1. ConfSpec => []ConfInv
  BY ConfInitially, ConfStep, PTL DEF ConfSpec
<1> QED BY <1>1, ConfInvSuffices, PTL
-----------------------------------------------------------------------------
(* Names and masks.                                                         *)

\* Which parts of the name the characters of the mask stand for.
Ends == [1 .. Len(mask) -> 0 .. Len(str)]
Whole(ends) ==
  Covers(ends, Len(mask)) /\ Covered(ends, Len(mask)) = Len(str)
Reach(w, i) == \E ends \in Ends : Covers(ends, w) /\ Covered(ends, w) = i

\* The last star that was passed, and how much of the name is before what is
\* compared with the mask from there on.
StarAt(m) == IF m.mp = 0 THEN 0 ELSE m.mp - 1
From(m) == IF m.mp = 0 THEN 0 ELSE m.cp - 2

\* Between two stars there is one way to go on, and no way to cover the name
\* gives that star less than it has now.
Searching(m) ==
  /\ m.wild \in 1 .. Len(mask) + 1 /\ m.string \in 1 .. Len(str) + 1
  /\ StarAt(m) \in 0 .. m.wild - 1 /\ From(m) \in 0 .. Len(str)
  /\ m.string = From(m) + (m.wild - StarAt(m))
  /\ m.mp # 0 => /\ m.mp \in 2 .. Len(mask) /\ mask[m.mp - 1] = "*"
                 /\ m.cp \in Nat
  /\ \A v \in StarAt(m) + 1 .. m.wild - 1 : mask[v] # "*"
  /\ Reach(StarAt(m), From(m)) /\ Reach(m.wild - 1, m.string - 1)
  /\ \A ends \in Ends : Whole(ends) => Covered(ends, StarAt(m)) >= From(m)

Matchers ==
  [string : Nat, wild : Nat, cp : Nat, mp : Nat, result : {"none", "yes", "no"}]
MatchInv ==
  /\ str \in Seq(NameCharacters) /\ mask \in Seq(MaskCharacters)
  /\ matching \in Matchers
  /\ matching.result = "none" => Searching(matching)
  /\ MatchesAsMeant

\* How much is covered is a number.
LEMMA CoveredType ==
  ASSUME str \in Seq(NameCharacters), mask \in Seq(MaskCharacters),
         NEW ends \in Ends, NEW w \in 0 .. Len(mask)
  PROVE  /\ Covered(ends, w) \in 0 .. Len(str)
         /\ Len(str) \in Nat /\ Len(mask) \in Nat
<1>1. Len(str) \in Nat /\ Len(mask) \in Nat
  BY LenProperties
<1> QED BY <1>1 DEF Ends, Covered

\* Where there is no star a character is covered at a time.
LEMMA Straight ==
  ASSUME str \in Seq(NameCharacters), mask \in Seq(MaskCharacters),
         NEW ends \in Ends, NEW a \in Nat, NEW k \in a .. Len(mask),
         Covers(ends, k), \A v \in a + 1 .. k : mask[v] # "*"
  PROVE  Covered(ends, k) = Covered(ends, a) + (k - a)
<1> DEFINE So == {v \in a .. k : Covered(ends, v) = Covered(ends, a) + (v - a)}
<1>0. Len(mask) \in Nat /\ Len(str) \in Nat /\ k \in Nat
  BY LenProperties
<1>1. a \in So
  BY <1>0, CoveredType
<1>2. ASSUME NEW v \in a .. k - 1, v \in So PROVE v + 1 \in So
  <2>1. v + 1 \in 1 .. k /\ v + 1 \in a + 1 .. k /\ (v + 1) - 1 = v /\ v + 1 # 0
    BY <1>0
  <2>2. ends[v + 1] = Covered(ends, v) + 1
    BY <2>1 DEF Covers
  <2>3. Covered(ends, v + 1) = ends[v + 1]
    BY <2>1 DEF Covered
  <2>4. Covered(ends, a) \in Nat
    BY <1>0, CoveredType
  <2> QED BY <1>0, <1>2, <2>1, <2>2, <2>3, <2>4
<1> HIDE DEF So
<1>3. \A v \in a .. k : v \in So
  BY <1>0, <1>1, <1>2, UpTo
<1>4. k \in So
  BY <1>0, <1>3
<1> QED BY <1>4 DEF So

\* What is covered does not get less.
LEMMA CoversOn ==
  ASSUME str \in Seq(NameCharacters), mask \in Seq(MaskCharacters),
         NEW ends \in Ends, NEW a \in Nat, a <= Len(mask),
         Covers(ends, Len(mask))
  PROVE  \A v \in a .. Len(mask) : Covered(ends, v) >= Covered(ends, a)
<1> DEFINE M == Len(mask)
           So == {v \in a .. M : Covered(ends, v) >= Covered(ends, a)}
<1>0. M \in Nat /\ Len(str) \in Nat /\ Covered(ends, a) \in Nat
  BY CoveredType, LenProperties
<1>1. a \in So
  BY <1>0
<1>2. ASSUME NEW v \in a .. M - 1, v \in So PROVE v + 1 \in So
  <2>1. v + 1 \in 1 .. M /\ v \in 0 .. M /\ (v + 1) - 1 = v /\ v + 1 # 0
    BY <1>0
  <2>2. ends[v + 1] >= Covered(ends, v)
    <3>1. Covered(ends, v) \in Nat
      BY <2>1, CoveredType
    <3> QED BY <2>1, <3>1 DEF Covers
  <2>3. Covered(ends, v + 1) = ends[v + 1]
    BY <2>1 DEF Covered
  <2>4. Covered(ends, v) \in Nat /\ Covered(ends, v + 1) \in Nat
    BY <2>1, <1>0, CoveredType
  <2> QED BY <1>0, <1>2, <2>1, <2>2, <2>3, <2>4
<1> HIDE DEF So, M
<1>3. \A v \in a .. M : v \in So
  BY <1>0, <1>1, <1>2, UpTo DEF M
<1> QED BY <1>3 DEF So, M

\* One character of the mask more.
LEMMA ReachOn ==
  ASSUME str \in Seq(NameCharacters), mask \in Seq(MaskCharacters),
         NEW w \in 1 .. Len(mask), NEW i \in Nat, Reach(w - 1, i),
         NEW j \in 0 .. Len(str),
         IF mask[w] = "*" THEN i <= j
         ELSE j = i + 1 /\ Alike(mask[w], str[j])
  PROVE  Reach(w, j)
<1>1. PICK ends \in Ends : Covers(ends, w - 1) /\ Covered(ends, w - 1) = i
  BY DEF Reach
<1> DEFINE more == [ends EXCEPT ![w] = j]
<1>2. Len(mask) \in Nat /\ w \in Nat /\ w # 0
  BY LenProperties
<1>3. /\ more \in Ends /\ more[w] = j
      /\ \A v \in 1 .. w - 1 : more[v] = ends[v]
  BY <1>2 DEF Ends
<1>4. \A v \in 0 .. w - 1 : Covered(more, v) = Covered(ends, v)
  BY <1>2, <1>3 DEF Covered
<1> HIDE DEF more
<1>5. ASSUME NEW v \in 1 .. w
      PROVE  IF mask[v] = "*" THEN Covered(more, v - 1) <= more[v]
             ELSE /\ more[v] = Covered(more, v - 1) + 1
                  /\ Alike(mask[v], str[more[v]])
  <2>1. CASE v = w
    <3>1. Covered(more, w - 1) = i
      BY <1>1, <1>2, <1>4
    <3> QED BY <1>3, <2>1, <3>1
  <2>2. CASE v # w
    <3>1. v \in 1 .. w - 1 /\ v - 1 \in 0 .. w - 1
      BY <1>2, <2>2
    <3>2. more[v] = ends[v] /\ Covered(more, v - 1) = Covered(ends, v - 1)
      BY <1>3, <1>4, <3>1
    <3> QED BY <1>1, <3>1, <3>2 DEF Covers
  <2> QED BY <2>1, <2>2
<1>6. Covers(more, w)
  BY <1>5 DEF Covers
<1>7. Covered(more, w) = j
  BY <1>2, <1>3 DEF Covered
<1> QED BY <1>3, <1>6, <1>7 DEF Reach

-----------------------------------------------------------------------------
(* The rounds of match.                                                     *)

\* Where the search is.
LEMMA Where ==
  ASSUME str \in Seq(NameCharacters), mask \in Seq(MaskCharacters),
         NEW m, Searching(m)
  PROVE  /\ Len(mask) \in Nat /\ Len(str) \in Nat
         /\ m.wild \in Nat \ {0} /\ m.wild <= Len(mask) + 1
         /\ m.string \in Nat \ {0} /\ m.string <= Len(str) + 1
         /\ StarAt(m) \in Nat /\ StarAt(m) <= m.wild - 1
         /\ From(m) \in Nat /\ From(m) <= Len(str)
         /\ m.string = From(m) + (m.wild - StarAt(m))
<1>1. Len(mask) \in Nat /\ Len(str) \in Nat
  BY LenProperties
<1>2. /\ m.wild \in 1 .. Len(mask) + 1 /\ m.string \in 1 .. Len(str) + 1
      /\ StarAt(m) \in 0 .. m.wild - 1 /\ From(m) \in 0 .. Len(str)
      /\ m.string = From(m) + (m.wild - StarAt(m))
  BY DEF Searching
<1> QED BY <1>1, <1>2

\* The rest of the mask is stars: they stand for nothing.
LEMMA EndOfName ==
  ASSUME str \in Seq(NameCharacters), mask \in Seq(MaskCharacters),
         NEW m, Searching(m), m.string = Len(str) + 1
  PROVE  Matches <=> \A w \in m.wild .. Len(mask) : mask[w] = "*"
<1> DEFINE M == Len(mask)
           L == Len(str)
<1>0. /\ M \in Nat /\ L \in Nat /\ m.wild \in Nat
      /\ m.wild \in 1 .. M + 1 /\ m.wild - 1 \in 0 .. M
  BY Where
<1>1. ASSUME \A w \in m.wild .. M : mask[w] = "*" PROVE Matches
  <2>1. PICK ends \in Ends : Covers(ends, m.wild - 1) /\ Covered(ends, m.wild - 1) = L
    BY <1>0 DEF Searching, Reach
  <2> DEFINE all == [w \in 1 .. M |-> IF w < m.wild THEN ends[w] ELSE L]
  <2>2. all \in Ends
    BY <1>0 DEF Ends
  <2>3. \A w \in 1 .. M : all[w] = IF w < m.wild THEN ends[w] ELSE L
    OBVIOUS
  <2> HIDE DEF all
  <2>4. \A w \in 0 .. m.wild - 1 : Covered(all, w) = Covered(ends, w)
    BY <1>0, <2>3 DEF Covered
  <2>5. ASSUME NEW w \in 1 .. M
        PROVE  IF mask[w] = "*" THEN Covered(all, w - 1) <= all[w]
               ELSE /\ all[w] = Covered(all, w - 1) + 1
                    /\ Alike(mask[w], str[all[w]])
    <3>1. CASE w < m.wild
      <4>1. w \in 1 .. m.wild - 1 /\ w - 1 \in 0 .. m.wild - 1
        BY <1>0, <3>1
      <4>2. all[w] = ends[w] /\ Covered(all, w - 1) = Covered(ends, w - 1)
        BY <2>3, <2>4, <3>1, <4>1
      <4> QED BY <2>1, <4>1, <4>2 DEF Covers
    <3>2. CASE ~(w < m.wild)
      <4>1. w \in m.wild .. M /\ w - 1 \in 0 .. M
        BY <1>0, <3>2
      <4>2. mask[w] = "*" /\ all[w] = L
        BY <1>1, <2>3, <3>2, <4>1
      <4>3. Covered(all, w - 1) \in 0 .. L
        BY <2>2, <4>1, CoveredType
      <4> QED BY <1>0, <4>2, <4>3
    <3> QED BY <3>1, <3>2
  <2>6. Covers(all, M)
    BY <2>5 DEF Covers
  <2>7. Covered(all, M) = L
    <3>1. CASE M < m.wild
      <4>1. M = m.wild - 1
        BY <1>0, <3>1
      <4> QED BY <1>0, <2>1, <2>4, <4>1
    <3>2. CASE ~(M < m.wild)
      BY <1>0, <2>3, <3>2 DEF Covered
    <3> QED BY <3>1, <3>2
  <2> QED BY <2>2, <2>6, <2>7 DEF Matches, Ends
<1>2. ASSUME Matches, NEW w \in m.wild .. M, mask[w] # "*" PROVE FALSE
  <2>1. PICK ends \in Ends : Whole(ends)
    BY <1>2 DEF Matches, Ends, Whole
  <2>2. /\ Covers(ends, M) /\ Covered(ends, M) = L
        /\ Covers(ends, m.wild - 1)
    BY <1>0, <2>1 DEF Whole, Covers
  <2>3. Covered(ends, m.wild - 1) >= L
    <3>1. /\ StarAt(m) \in 0 .. m.wild - 1 /\ StarAt(m) \in Nat /\ From(m) \in Nat
          /\ m.string = From(m) + (m.wild - StarAt(m))
          /\ m.wild - 1 \in StarAt(m) .. M
      BY <1>0, Where
    <3>a. /\ Covered(ends, StarAt(m)) >= From(m)
          /\ \A v \in StarAt(m) + 1 .. m.wild - 1 : mask[v] # "*"
      BY <2>1 DEF Searching
    <3>2. Covered(ends, m.wild - 1) = Covered(ends, StarAt(m)) + ((m.wild - 1) - StarAt(m))
      BY <2>2, <3>1, <3>a, Straight
    <3>3. Covered(ends, StarAt(m)) \in Nat
      <4>1. StarAt(m) \in 0 .. M
        BY <1>0, <3>1
      <4> QED BY <1>0, <4>1, CoveredType
    <3> QED BY <1>0, <3>1, <3>a, <3>2, <3>3
  <2>4. w \in 1 .. M /\ w - 1 \in m.wild - 1 .. M /\ w - 1 \in 0 .. M /\ w \in 0 .. M /\ w # 0
    BY <1>0
  <2>5. Covered(ends, w - 1) >= Covered(ends, m.wild - 1)
    BY <1>0, <2>2, <2>4, CoversOn
  <2>6. Covered(ends, w) = Covered(ends, w - 1) + 1
    BY <1>2, <2>2, <2>4 DEF Covers, Covered
  <2>7. Covered(ends, w) \in 0 .. L /\ Covered(ends, w - 1) \in 0 .. L
        /\ Covered(ends, m.wild - 1) \in 0 .. L
    BY <1>0, <2>4, CoveredType
  <2> QED BY <1>0, <2>3, <2>5, <2>6, <2>7
<1> QED BY <1>1, <1>2 DEF M

\* A star at the end of the mask stands for the rest of the name; any other is
\* where to come back to.
LEMMA StarStep ==
  ASSUME str \in Seq(NameCharacters), mask \in Seq(MaskCharacters),
         NEW m \in Matchers, Searching(m), m.string <= Len(str),
         m.wild <= Len(mask), mask[m.wild] = "*"
  PROVE  /\ m.wild = Len(mask) => Matches
         /\ m.wild < Len(mask) =>
              Searching([m EXCEPT !.wild = m.wild + 1, !.mp = m.wild + 1,
                                  !.cp = m.string + 1])
<1> DEFINE M == Len(mask)
           L == Len(str)
<1>w. /\ M \in Nat /\ L \in Nat
      /\ m.wild \in Nat \ {0} /\ m.wild <= M + 1
      /\ m.string \in Nat \ {0} /\ m.string <= L + 1
      /\ StarAt(m) \in Nat /\ StarAt(m) <= m.wild - 1
      /\ From(m) \in Nat /\ From(m) <= L
      /\ m.string = From(m) + (m.wild - StarAt(m))
  BY Where
<1>h. m.string <= L /\ m.wild <= M
  OBVIOUS
<1> HIDE DEF M, L
<1>0. /\ M \in Nat /\ L \in Nat /\ m.wild \in 1 .. M /\ m.string \in 1 .. L
      /\ m.string - 1 \in Nat /\ m.string - 1 \in 0 .. L /\ m.wild - 1 \in 0 .. M
  BY ONLY <1>w, <1>h
<1>a. Reach(m.wild - 1, m.string - 1)
  BY DEF Searching, M, L
<1>1. CASE m.wild = M
  <2>1. Reach(M, L)
    <3>1. L \in 0 .. L /\ m.string - 1 <= L
      BY <1>0
    <3> QED BY <1>0, <1>a, <1>1, <3>1, ReachOn DEF M, L
  <2>2. PICK ends \in Ends : Covers(ends, M) /\ Covered(ends, M) = L
    BY <2>1 DEF Reach, M, L
  <2> QED BY <1>1, <2>2 DEF Matches, Ends, M, L
<1>2. CASE m.wild < M
  <2> DEFINE k == [m EXCEPT !.wild = m.wild + 1, !.mp = m.wild + 1,
                            !.cp = m.string + 1]
  <2>1. /\ k.wild = m.wild + 1 /\ k.mp = m.wild + 1 /\ k.cp = m.string + 1
        /\ k.string = m.string
    BY DEF Matchers
  <2> HIDE DEF k
  <2>2. StarAt(k) = m.wild /\ From(k) = m.string - 1
    BY <1>0, <2>1 DEF StarAt, From
  <2>3. Reach(m.wild, m.string - 1)
    <3>1. m.string - 1 <= m.string - 1
      BY <1>0
    <3> QED BY <1>0, <1>a, <3>1, ReachOn DEF M, L
  <2>4. ASSUME NEW ends \in Ends, Whole(ends)
        PROVE  Covered(ends, m.wild) >= m.string - 1
    <3>1. /\ StarAt(m) \in Nat /\ From(m) \in Nat
          /\ m.string = From(m) + (m.wild - StarAt(m))
          /\ StarAt(m) \in 0 .. M
          /\ m.wild - 1 \in StarAt(m) .. M
      BY ONLY <1>0, <1>w
    <3>a. /\ Covered(ends, StarAt(m)) >= From(m)
          /\ \A v \in StarAt(m) + 1 .. m.wild - 1 : mask[v] # "*"
      BY <2>4 DEF Searching, M, L
    <3>2. Covers(ends, M) /\ Covers(ends, m.wild - 1)
      BY <1>0, <2>4 DEF Whole, Covers, M, L
    <3>3. Covered(ends, m.wild - 1) = Covered(ends, StarAt(m)) + ((m.wild - 1) - StarAt(m))
      BY <3>1, <3>a, <3>2, Straight DEF M, L
    <3>4. Covered(ends, StarAt(m)) \in Nat /\ Covered(ends, m.wild - 1) \in Nat
          /\ Covered(ends, m.wild) \in Nat
      <4>1. m.wild \in 0 .. M /\ m.wild - 1 \in 0 .. M
        BY <1>0
      <4>2. \A w \in 0 .. M : Covered(ends, w) \in 0 .. L
        BY CoveredType DEF M, L
      <4> QED BY ONLY <1>0, <3>1, <4>1, <4>2
    <3>5. Covered(ends, m.wild) >= Covered(ends, m.wild - 1)
      <4>1. m.wild - 1 \in Nat /\ m.wild - 1 <= M /\ m.wild \in m.wild - 1 .. M
        BY <1>0
      <4> QED BY <3>2, <4>1, CoversOn DEF M, L
    <3> QED BY ONLY <1>0, <3>1, <3>a, <3>3, <3>4, <3>5
  <2>5. /\ k.wild \in 1 .. M + 1 /\ m.wild \in 0 .. k.wild - 1
        /\ k.mp \in 2 .. M /\ k.mp - 1 = m.wild /\ k.wild - 1 = m.wild
        /\ m.wild + 1 .. k.wild - 1 = {}
    BY ONLY <1>0, <1>2, <2>1
  <2>6. /\ k.string \in 1 .. L + 1 /\ m.string - 1 \in 0 .. L /\ k.cp \in Nat
        /\ k.string = (m.string - 1) + (k.wild - m.wild)
    BY ONLY <1>0, <1>w, <2>1
  <2>7. Searching(k)
    BY <2>1, <2>2, <2>3, <2>4, <2>5, <2>6 DEF Searching, M, L
  <2> QED BY <1>2, <2>7 DEF k, M, L
<1> QED BY <1>0, <1>1, <1>2 DEF M

\* A character of the name is the one the mask asks for.
LEMMA FitsStep ==
  ASSUME str \in Seq(NameCharacters), mask \in Seq(MaskCharacters),
         NEW m \in Matchers, Searching(m), m.string <= Len(str),
         m.wild <= Len(mask), mask[m.wild] # "*", Alike(mask[m.wild], str[m.string])
  PROVE  Searching([m EXCEPT !.string = m.string + 1, !.wild = m.wild + 1])
<1> DEFINE M == Len(mask)
           L == Len(str)
           k == [m EXCEPT !.string = m.string + 1, !.wild = m.wild + 1]
<1>w. /\ M \in Nat /\ L \in Nat
      /\ m.wild \in Nat \ {0} /\ m.wild <= M + 1
      /\ m.string \in Nat \ {0} /\ m.string <= L + 1
      /\ StarAt(m) \in Nat /\ StarAt(m) <= m.wild - 1
      /\ From(m) \in Nat /\ From(m) <= L
      /\ m.string = From(m) + (m.wild - StarAt(m))
  BY Where
<1>h. m.string <= L /\ m.wild <= M
  OBVIOUS
<1> HIDE DEF M, L
<1>0. /\ M \in Nat /\ L \in Nat /\ m.wild \in 1 .. M /\ m.string \in 1 .. L
      /\ m.string \in 0 .. L /\ m.string - 1 \in Nat
  BY ONLY <1>w, <1>h
<1>a. Reach(m.wild - 1, m.string - 1)
  BY DEF Searching, M, L
<1>1. /\ k.wild = m.wild + 1 /\ k.mp = m.mp /\ k.cp = m.cp
      /\ k.string = m.string + 1
  BY DEF Matchers
<1> HIDE DEF k
<1>2. StarAt(k) = StarAt(m) /\ From(k) = From(m)
  BY <1>1 DEF StarAt, From
<1>3. Reach(m.wild, m.string)
  <2>1. m.string = (m.string - 1) + 1
    BY <1>0
  <2> QED BY <1>0, <1>a, <2>1, ReachOn DEF M, L
<1>4. /\ k.wild \in 1 .. M + 1 /\ k.string \in 1 .. L + 1
      /\ StarAt(m) \in 0 .. k.wild - 1
      /\ k.string = From(m) + (k.wild - StarAt(m))
      /\ k.wild - 1 = m.wild /\ k.string - 1 = m.string
      /\ \A v \in StarAt(m) + 1 .. m.wild : v = m.wild \/ v \in StarAt(m) + 1 .. m.wild - 1
  BY ONLY <1>0, <1>1, <1>w
<1>5. \A v \in StarAt(m) + 1 .. m.wild : mask[v] # "*"
  BY <1>4 DEF Searching, M, L
<1>6. Searching(k)
  BY <1>1, <1>2, <1>3, <1>4, <1>5 DEF Searching, M, L
<1> QED BY <1>6 DEF k, M, L

\* A mismatch: the last star has to stand for more, or there is none.
LEMMA GoBackStep ==
  ASSUME str \in Seq(NameCharacters), mask \in Seq(MaskCharacters),
         NEW m \in Matchers, Searching(m), m.string <= Len(str),
         m.wild <= Len(mask) =>
           mask[m.wild] # "*" /\ ~Alike(mask[m.wild], str[m.string])
  PROVE  /\ m.mp = 0 => ~Matches
         /\ m.mp # 0 => Searching([m EXCEPT !.wild = m.mp, !.string = m.cp,
                                            !.cp = m.cp + 1])
<1> DEFINE M == Len(mask)
           L == Len(str)
<1>w. /\ M \in Nat /\ L \in Nat
      /\ m.wild \in Nat \ {0} /\ m.wild <= M + 1
      /\ m.string \in Nat \ {0} /\ m.string <= L + 1
      /\ StarAt(m) \in Nat /\ StarAt(m) <= m.wild - 1
      /\ From(m) \in Nat /\ From(m) <= L
      /\ m.string = From(m) + (m.wild - StarAt(m))
  BY Where
<1>h. m.string <= L
  OBVIOUS
<1> HIDE DEF M, L
<1>0. /\ M \in Nat /\ L \in Nat /\ m.wild \in 1 .. M + 1 /\ m.string \in 1 .. L
      /\ StarAt(m) \in Nat /\ From(m) \in 0 .. L /\ StarAt(m) \in 0 .. M
      /\ m.string = From(m) + (m.wild - StarAt(m)) /\ From(m) + 1 \in 0 .. L
      /\ m.wild - 1 \in StarAt(m) .. M
  BY ONLY <1>w, <1>h
<1>1. ASSUME NEW ends \in Ends, Whole(ends), Covered(ends, StarAt(m)) = From(m)
      PROVE  FALSE
  <2>1. \A v \in StarAt(m) + 1 .. m.wild - 1 : mask[v] # "*"
    BY DEF Searching, M, L
  <2>2. Covers(ends, M) /\ Covers(ends, m.wild - 1) /\ Covered(ends, M) = L
    BY <1>0, <1>1 DEF Whole, Covers, M, L
  <2>3. Covered(ends, m.wild - 1) = Covered(ends, StarAt(m)) + ((m.wild - 1) - StarAt(m))
    BY <1>0, <2>1, <2>2, Straight DEF M, L
  <2>4. Covered(ends, m.wild - 1) = m.string - 1
    BY <1>0, <1>1, <2>3
  <2>5. CASE m.wild = M + 1
    <3>1. m.wild - 1 = M
      BY <1>0, <2>5
    <3> QED BY <1>0, <2>2, <2>4, <3>1
  <2>6. CASE m.wild # M + 1
    <3>1. m.wild \in 1 .. M /\ m.wild <= M /\ m.wild # 0
      BY <1>0, <2>6
    <3>2. ends[m.wild] = Covered(ends, m.wild - 1) + 1 /\ Alike(mask[m.wild], str[ends[m.wild]])
      BY <2>2, <3>1 DEF Covers, M, L
    <3>3. ends[m.wild] = m.string
      BY <1>0, <2>4, <3>2
    <3> QED BY <3>1, <3>2, <3>3 DEF M
  <2> QED BY <2>5, <2>6
<1>2. CASE m.mp = 0
  <2>1. StarAt(m) = 0 /\ From(m) = 0
    BY <1>2 DEF StarAt, From
  <2> QED BY <1>1, <1>2, <2>1 DEF Matches, Ends, Whole, Covered
<1>3. CASE m.mp # 0
  <2> DEFINE k == [m EXCEPT !.wild = m.mp, !.string = m.cp, !.cp = m.cp + 1]
  <2>1. /\ k.wild = m.mp /\ k.mp = m.mp /\ k.cp = m.cp + 1 /\ k.string = m.cp
    BY DEF Matchers
  <2> HIDE DEF k
  <2>2. /\ m.mp \in 2 .. M /\ mask[m.mp - 1] = "*" /\ m.cp \in Nat
        /\ StarAt(m) = m.mp - 1 /\ From(m) = m.cp - 2
    BY <1>3 DEF Searching, StarAt, From, M, L
  <2>3. StarAt(k) = m.mp - 1 /\ From(k) = m.cp - 1 /\ m.cp - 1 = From(m) + 1
    BY ONLY <1>0, <1>3, <2>1, <2>2 DEF StarAt, From
  <2>4. Reach(m.mp - 1, m.cp - 1)
    <3>1. PICK ends \in Ends : Covers(ends, m.mp - 1) /\ Covered(ends, m.mp - 1) = m.cp - 2
      BY <2>2 DEF Searching, Reach, M, L
    <3>2. m.mp - 1 \in 1 .. M /\ m.mp - 1 # 0 /\ (m.mp - 1) - 1 \in 0 .. M
      BY ONLY <1>0, <2>2
    <3>3. /\ Covered(ends, (m.mp - 1) - 1) <= m.cp - 2
          /\ Covers(ends, (m.mp - 1) - 1)
      <4>1. m.mp - 1 \in 1 .. m.mp - 1
        BY ONLY <1>0, <2>2
      <4>2. ends[m.mp - 1] = m.cp - 2
        BY <3>1, <3>2 DEF Covered, M, L
      <4>3. Covered(ends, (m.mp - 1) - 1) <= ends[m.mp - 1]
        BY <2>2, <3>1, <4>1 DEF Covers, M, L
      <4>4. Covers(ends, (m.mp - 1) - 1)
        BY <1>0, <2>2, <3>1 DEF Covers, M, L
      <4> QED BY <4>2, <4>3, <4>4
    <3>4. Covered(ends, (m.mp - 1) - 1) \in Nat
      <4>1. \A w \in 0 .. M : Covered(ends, w) \in 0 .. L
        BY CoveredType DEF M, L
      <4> QED BY ONLY <1>0, <3>2, <4>1
    <3>5. Reach((m.mp - 1) - 1, Covered(ends, (m.mp - 1) - 1))
      BY <3>3 DEF Reach, M, L
    <3>6. m.cp - 1 \in 0 .. L /\ Covered(ends, (m.mp - 1) - 1) <= m.cp - 1
      BY <1>0, <2>2, <2>3, <3>3, <3>4
    <3> QED BY <2>2, <3>2, <3>4, <3>5, <3>6, ReachOn DEF M, L
  <2>5. ASSUME NEW ends \in Ends, Whole(ends)
        PROVE  Covered(ends, m.mp - 1) >= m.cp - 1
    <3>1. Covered(ends, StarAt(m)) >= From(m)
      BY <2>5 DEF Searching, M, L
    <3>2. Covered(ends, StarAt(m)) # From(m)
      BY <1>1, <2>5
    <3>3. Covered(ends, StarAt(m)) \in Nat
      BY <1>0, CoveredType DEF M, L
    <3> QED BY <1>0, <2>2, <2>3, <3>1, <3>2, <3>3
  <2>6. /\ k.wild \in 1 .. M + 1 /\ k.string \in 1 .. L + 1
        /\ m.mp - 1 \in 0 .. k.wild - 1 /\ m.cp - 1 \in 0 .. L
        /\ k.string = (m.cp - 1) + (k.wild - (m.mp - 1))
        /\ k.wild - 1 = m.mp - 1 /\ k.string - 1 = m.cp - 1 /\ k.cp \in Nat
        /\ (m.mp - 1) + 1 .. k.wild - 1 = {}
    BY ONLY <1>0, <2>1, <2>2, <2>3
  <2>7. Searching(k)
    BY <2>1, <2>2, <2>3, <2>4, <2>5, <2>6 DEF Searching, M, L
  <2> QED BY <1>3, <2>7 DEF k, M, L
<1> QED BY <1>2, <1>3

\* At first the search is at the beginning of both.
LEMMA SearchBegins ==
  str \in Seq(NameCharacters) /\ mask \in Seq(MaskCharacters) => Searching(Matcher)
<1> SUFFICES ASSUME str \in Seq(NameCharacters), mask \in Seq(MaskCharacters)
             PROVE  Searching(Matcher)
  OBVIOUS
<1>1. Len(str) \in Nat /\ Len(mask) \in Nat
  BY LenProperties
<1>2. /\ Matcher.string = 1 /\ Matcher.wild = 1 /\ Matcher.mp = 0
      /\ StarAt(Matcher) = 0 /\ From(Matcher) = 0
  BY DEF Matcher, StarAt, From
<1>3. Reach(0, 0)
  <2>1. [w \in 1 .. Len(mask) |-> 0] \in Ends
    BY <1>1 DEF Ends
  <2> QED BY <2>1 DEF Reach, Covers, Covered
<1>4. \A ends : Covered(ends, 0) >= 0
  BY DEF Covered
<1>5. 1 \in 1 .. Len(mask) + 1 /\ 1 \in 1 .. Len(str) + 1 /\ 0 \in 0 .. Len(str)
  BY <1>1
<1>6. /\ 1 - 1 = 0 /\ 0 \in 0 .. 1 - 1 /\ 1 = 0 + (1 - 0) /\ 0 + 1 .. 1 - 1 = {}
  OBVIOUS
<1> QED BY <1>2, <1>3, <1>4, <1>5, <1>6 DEF Searching

\* A round of match.
LEMMA MatchKeeps == MatchInv /\ Match => MatchInv'
<1> SUFFICES ASSUME MatchInv, Match PROVE MatchInv'
  OBVIOUS
<1> DEFINE m == matching
<1>1. /\ str \in Seq(NameCharacters) /\ mask \in Seq(MaskCharacters)
      /\ str' = str /\ mask' = mask /\ m \in Matchers /\ Searching(m)
      /\ m.result = "none"
  BY DEF MatchInv, Match
<1> DEFINE k == matching'
<1>2. /\ k \in Matchers
      /\ \/ k.result = "none" /\ Searching(k)
         \/ k.result = "yes" /\ Matches
         \/ k.result = "no" /\ ~Matches
  <2>w. /\ Len(mask) \in Nat /\ Len(str) \in Nat
        /\ m.wild \in Nat /\ m.wild <= Len(mask) + 1
        /\ m.string \in Nat /\ m.string <= Len(str) + 1 /\ m.cp \in Nat /\ m.mp \in Nat
    <3>1. m.cp \in Nat /\ m.mp \in Nat
      BY <1>1 DEF Matchers
    <3> QED BY <1>1, <3>1, Where
  <2>n. m.wild + 1 \in Nat /\ m.string + 1 \in Nat /\ m.cp + 1 \in Nat
    BY ONLY <2>w

  <2>m. m \in Matchers /\ m.result = "none"
    BY <1>1
  <2>r. /\ \A b \in BOOLEAN : Returns(b) \in Matchers
        /\ Returns(TRUE).result = "yes" /\ Returns(FALSE).result = "no"
    BY <1>1 DEF Returns, Matchers
  <2>1. CASE m.string > Len(str)
    <3>1. k = AtEnd
      BY <2>1, <2>w DEF Match
    <3>2. m.string = Len(str) + 1
      BY <2>1, <2>w
    <3>3. Matches <=> \A w \in m.wild .. Len(mask) : mask[w] = "*"
      BY <1>1, <3>2, EndOfName
    <3>5. CASE Matches
      <4>1. k = [m EXCEPT !.result = "yes"]
        BY <3>1, <3>3, <3>5 DEF AtEnd, Returns
      <4> QED BY <2>r, <3>5, <4>1 DEF Returns
    <3>6. CASE ~Matches
      <4>1. k = [m EXCEPT !.result = "no"]
        BY <3>1, <3>3, <3>6 DEF AtEnd, Returns
      <4> QED BY <2>r, <3>6, <4>1 DEF Returns
    <3> QED BY <3>5, <3>6
  <2>2. CASE m.string <= Len(str) /\ AtStar
    <3>1. k = Star
      BY <2>2, <2>w DEF Match
    <3>2. m.wild <= Len(mask) /\ mask[m.wild] = "*"
      BY <2>2 DEF AtStar
    <3>3. CASE m.wild = Len(mask)
      <4>1. k = Returns(TRUE)
        BY <3>1, <3>3 DEF Star
      <4>2. Matches
        BY <1>1, <2>2, <3>2, <3>3, StarStep
      <4> QED BY <2>r, <4>1, <4>2
    <3>4. CASE m.wild # Len(mask)
      <4>1. k = [m EXCEPT !.wild = m.wild + 1, !.mp = m.wild + 1, !.cp = m.string + 1]
        BY <3>1, <3>4 DEF Star
      <4>2. m.wild < Len(mask)
        BY <2>w, <3>2, <3>4
      <4>3. Searching(k)
        BY <1>1, <2>2, <3>2, <4>1, <4>2, StarStep
      <4>4. k \in Matchers /\ k.result = "none"
        BY ONLY <2>m, <2>n, <2>w, <4>1 DEF Matchers
      <4> QED BY <4>3, <4>4
    <3> QED BY <3>3, <3>4
  <2>3. CASE m.string <= Len(str) /\ ~AtStar /\ Fits
    <3>1. k = [m EXCEPT !.string = m.string + 1, !.wild = m.wild + 1]
      BY <2>3, <2>w DEF Match
    <3>2. /\ m.wild <= Len(mask) /\ mask[m.wild] # "*"
          /\ Alike(mask[m.wild], str[m.string])
      BY <2>3 DEF AtStar, Fits
    <3>3. Searching(k)
      BY <1>1, <2>3, <3>1, <3>2, FitsStep
    <3>4. k \in Matchers /\ k.result = "none"
      BY ONLY <2>m, <2>n, <3>1 DEF Matchers
    <3> QED BY <3>3, <3>4
  <2>4. CASE m.string <= Len(str) /\ ~AtStar /\ ~Fits
    <3>1. k = GoBack
      BY <2>4, <2>w DEF Match
    <3>2. m.wild <= Len(mask) =>
            mask[m.wild] # "*" /\ ~Alike(mask[m.wild], str[m.string])
      BY <2>4 DEF AtStar, Fits
    <3>3. CASE m.mp = 0
      <4>1. k = Returns(FALSE)
        BY <3>1, <3>3 DEF GoBack
      <4>2. ~Matches
        BY <1>1, <2>4, <3>2, <3>3, GoBackStep
      <4> QED BY <2>r, <4>1, <4>2
    <3>4. CASE m.mp # 0
      <4>1. k = [m EXCEPT !.wild = m.mp, !.string = m.cp, !.cp = m.cp + 1]
        BY <3>1, <3>4 DEF GoBack
      <4>2. Searching(k)
        BY <1>1, <2>4, <3>2, <3>4, <4>1, GoBackStep
      <4>3. k \in Matchers /\ k.result = "none"
        BY ONLY <2>m, <2>n, <2>w, <4>1 DEF Matchers
      <4> QED BY <4>2, <4>3
    <3> QED BY <3>3, <3>4
  <2>5. m.string > Len(str) \/ m.string <= Len(str)
    BY <2>w
  <2> QED BY <2>1, <2>2, <2>3, <2>4, <2>5
<1>3. Matches' <=> Matches
  BY <1>1 DEF Matches, Covers, Covered
<1>4. Searching(matching)' <=> Searching(k)
  BY <1>1 DEF Searching, Reach, Ends, Whole, Covers, Covered
<1>5. MatchesAsMeant'
  BY <1>2, <1>3 DEF MatchesAsMeant
<1>6. (matching.result = "none" => Searching(matching))'
  BY <1>2, <1>4
<1> HIDE DEF m, k
<1>7. (str \in Seq(NameCharacters) /\ mask \in Seq(MaskCharacters))'
  BY <1>1
<1> QED BY <1>2, <1>5, <1>6, <1>7 DEF MatchInv, k

\* Names and masks are written before they are compared.
LEMMA WritingKeeps ==
  ASSUME MatchInv, matching' = Matcher,
         str' \in Seq(NameCharacters), mask' \in Seq(MaskCharacters)
  PROVE  MatchInv'
<1>1. Searching(Matcher)'
  <2>1. (str \in Seq(NameCharacters) /\ mask \in Seq(MaskCharacters) =>
           Searching(Matcher))'
    BY SearchBegins, PTL
  <2> QED BY <2>1
<1>2. Matcher \in Matchers /\ Matcher.result = "none"
  BY DEF Matchers, Matcher
<1>3. Searching(matching)'
  BY <1>1 DEF Searching, Matcher, StarAt, From
<1> QED BY <1>2, <1>3 DEF MatchInv, MatchesAsMeant

\* What the loops know stays true.
LEMMA MatchInvSteps ==
  /\ TextInit => MatchInv
  /\ MatchInv /\ [TextNext]_textVars => MatchInv'
<1>1. ASSUME TextInit PROVE MatchInv
  <2>1. str \in Seq(NameCharacters) /\ mask \in Seq(MaskCharacters)
    BY <1>1, EmptySeq DEF TextInit
  <2>2. matching = Matcher /\ Matcher \in Matchers /\ Matcher.result = "none"
    BY <1>1 DEF TextInit, Matchers, Matcher
  <2>3. Searching(matching)
    BY <2>1, <2>2, SearchBegins
  <2> QED BY <2>1, <2>2, <2>3 DEF MatchInv, MatchesAsMeant
<1>2. ASSUME MatchInv, [TextNext]_textVars PROVE MatchInv'
  <2>1. ASSUME NEW c \in PortCharacters, WriteList(c) PROVE MatchInv'
    BY <1>2, <2>1, WritingKeeps DEF WriteList, MatchInv
  <2>2. ASSUME NEW c \in NameCharacters, WriteName(c) PROVE MatchInv'
    <3>1. str' \in Seq(NameCharacters)
      BY <1>2, <2>2, AppendProperties DEF WriteName, MatchInv
    <3> QED BY <1>2, <2>2, <3>1, WritingKeeps DEF WriteName, MatchInv
  <2>3. ASSUME NEW c \in MaskCharacters, WriteMask(c) PROVE MatchInv'
    <3>1. mask' \in Seq(MaskCharacters)
      BY <1>2, <2>3, AppendProperties DEF WriteMask, MatchInv
    <3> QED BY <1>2, <2>3, <3>1, WritingKeeps DEF WriteMask, MatchInv
  <2>4. CASE UNCHANGED <<str, mask, matching>>
    BY <1>2, <2>4 DEF MatchInv, MatchesAsMeant, Matches, Searching, Reach, Ends,
                      Whole, Covers, Covered
  <2>5. CASE GetToken
    BY <2>4, <2>5 DEF GetToken
  <2>6. CASE Match
    BY <1>2, <2>6, MatchKeeps
  <2>7. CASE UNCHANGED textVars
    BY <2>4, <2>7 DEF textVars
  <2> QED BY <1>2, <2>1, <2>2, <2>3, <2>5, <2>6, <2>7 DEF TextNext
<1> QED BY <1>1, <1>2

-----------------------------------------------------------------------------
(* Lists of ports.                                                          *)

\* The first place from a on, when there is one at b.
LEMMA FirstPlace ==
  ASSUME NEW a \in Nat, NEW b \in Nat, a <= b, NEW S, b \in S
  PROVE  \E x \in a .. b : x \in S /\ \A y \in a .. x - 1 : y \notin S
<1> DEFINE T == {x \in a .. b : x \in S}
<1>1. T \subseteq Nat /\ T # {}
  OBVIOUS
<1>2. PICK x \in T : \A y \in T : x <= y
  BY <1>1, LeastNatural
<1>3. ASSUME NEW y \in a .. x - 1, y \in S PROVE FALSE
  <2>1. y \in T /\ ~(x <= y)
    BY <1>2, <1>3
  <2> QED BY <1>2, <2>1
<1> QED BY <1>2, <1>3
\* The last place up to b, when there is one at 0.
LEMMA LastPlace ==
  ASSUME NEW b \in Nat, NEW S, 0 \in S
  PROVE  \E x \in 0 .. b : x \in S /\ \A y \in x + 1 .. b : y \notin S
<1> DEFINE T == {z \in 0 .. b : b - z \in S}
<1>1. b \in T /\ T \subseteq Nat
  OBVIOUS
<1> HIDE DEF T
<1>2. PICK z \in T : \A y \in T : z <= y
  BY <1>1, LeastNatural
<1>3. z \in 0 .. b /\ b - z \in S /\ b - z \in 0 .. b
  BY <1>2 DEF T
<1>4. ASSUME NEW y \in b - z + 1 .. b, y \in S PROVE FALSE
  <2>1. b - y \in 0 .. b /\ b - (b - y) = y /\ ~(z <= b - y)
    BY <1>3
  <2>2. b - y \in T
    BY <1>4, <2>1 DEF T
  <2> QED BY <1>2, <2>1, <2>2
<1> QED BY <1>3, <1>4

\* The last dash of an element, which is where a range is divided.
LEMMA DashIs ==
  ASSUME NEW S, NEW t \in Seq(S)
  PROVE  /\ Dash(t) \in 0 .. Len(t) /\ Len(t) \in Nat
         /\ Dash(t) > 0 => t[Dash(t)] = "-"
         /\ \A i \in Dash(t) + 1 .. Len(t) : t[i] # "-"
<1> DEFINE P(n) == /\ n > 0 => t[n] = "-"
                   /\ \A i \in n + 1 .. Len(t) : t[i] # "-"
           D == {0} \cup {n \in 1 .. Len(t) : t[n] = "-"}
<1>1. Len(t) \in Nat
  BY LenProperties
<1>2. \E n \in 0 .. Len(t) : P(n)
  <2>1. PICK x \in 0 .. Len(t) : x \in D /\ \A y \in x + 1 .. Len(t) : y \notin D
    BY <1>1, LastPlace
  <2>2. \A y \in x + 1 .. Len(t) : y \in 1 .. Len(t)
    BY <1>1
  <2> QED BY <2>1, <2>2
<1>3. Dash(t) = CHOOSE n \in 0 .. Len(t) : P(n)
  BY DEF Dash
<1> HIDE DEF P
<1>4. Dash(t) \in 0 .. Len(t) /\ P(Dash(t))
  BY <1>2, <1>3
<1> QED BY <1>1, <1>4 DEF P

\* atoi of a port is its numeral.
LEMMA PortIs ==
  ASSUME NEW S, NEW t \in Seq(S), IsPort(t)
  PROVE  /\ atoi(t) = Numeral(t) /\ Numeral(t) \in 1 .. MaxPort
         /\ Dash(t) = 0 /\ t # <<>>
<1> DEFINE P(n) == /\ \A i \in 1 .. n : t[i] \in Digits
                   /\ n < Len(t) => t[n + 1] \notin Digits
<1>1. /\ Len(t) \in Nat \ {0} /\ DOMAIN t = 1 .. Len(t) /\ t # <<>>
      /\ \A i \in 1 .. Len(t) : t[i] \in Digits
  <2>1. t # <<>> /\ \A i \in DOMAIN t : t[i] \in Digits
    BY DEF IsPort
  <2> QED BY <2>1, LenProperties, EmptySeq
<1>2. "-" \notin Digits
  BY DEF Digits
<1>3. DigitsOf(t) = t
  <2>1. P(Len(t))
    BY <1>1
  <2>2. ASSUME NEW n \in 0 .. Len(t), P(n) PROVE n = Len(t)
    <3>1. CASE n < Len(t)
      <4>1. n + 1 \in 1 .. Len(t)
        BY <1>1, <3>1
      <4>2. t[n + 1] \notin Digits
        BY <2>2, <3>1
      <4> QED BY <1>1, <4>1, <4>2
    <3>2. n \in 0 .. Len(t) /\ Len(t) \in Nat
      BY <1>1
    <3> QED BY ONLY <3>1, <3>2
  <2>3. Len(t) \in 0 .. Len(t)
    BY <1>1
  <2>4. DigitsOf(t) = SubSeq(t, 1, CHOOSE n \in 0 .. Len(t) : P(n))
    BY DEF DigitsOf
  <2> HIDE DEF P
  <2>5. (CHOOSE n \in 0 .. Len(t) : P(n)) = Len(t)
    BY <2>1, <2>2, <2>3
  <2>6. SubSeq(t, 1, Len(t)) = t
    BY SubSeqFull
  <2> QED BY <2>4, <2>5, <2>6
<1>4. 1 \in 1 .. Len(t)
  BY <1>1
<1>5. t[1] # "-"
  BY <1>1, <1>2, <1>4
<1>6. atoi(t) = Numeral(t)
  BY <1>3, <1>5 DEF atoi
<1>7. Dash(t) = 0
  <2>1. Dash(t) \in 0 .. Len(t) /\ (Dash(t) > 0 => t[Dash(t)] = "-")
    BY DashIs
  <2>2. CASE Dash(t) > 0
    <3>1. Dash(t) \in 1 .. Len(t)
      BY <1>1, <2>1, <2>2
    <3> QED BY <1>1, <1>2, <2>1, <2>2, <3>1
  <2> QED BY <1>1, <2>1, <2>2
<1>8. Numeral(t) \in 1 .. MaxPort
  <2>1. IsPort(t)
    OBVIOUS
  <2> QED BY ONLY <2>1 DEF IsPort
<1> QED BY ONLY <1>1, <1>6, <1>7, <1>8
\* The ports of a range that are still to come.
Rest(p) == IF p.in_range > 0 THEN p.in_range + 1 .. p.range_end ELSE {}

Parsers(S) ==
  [tokens : Seq(S), n : Nat, last : Nat, token : Seq(S),
   in_range : Nat, range_end : Int, port : Int]

SamePlace(p, q) == p.tokens = q.tokens /\ p.n = q.n /\ p.last = q.last

\* A port stands for itself, and is what is returned for it.
LEMMA PortOfPort ==
  ASSUME NEW S, NEW q \in Parsers(S), q.in_range = 0, IsPort(q.token)
  PROVE  LET r == PortOfToken(q) IN
         /\ r \in Parsers(S) /\ SamePlace(r, q) /\ r.port # 0
         /\ {r.port} \cup Rest(r) = PortsOf(q.token)
<1> DEFINE r == PortOfToken(q)
           k == Numeral(q.token)
<1>0. q \in Parsers(S) /\ q.in_range = 0
  OBVIOUS
<1>1. q.token \in Seq(S)
  BY DEF Parsers
<1>2. /\ q.token # <<>> /\ Dash(q.token) = 0 /\ atoi(q.token) = k
      /\ k \in 1 .. MaxPort
  BY <1>1, PortIs
<1>3. k \in Int /\ k # 0
  BY ONLY <1>2
<1>4. r = [q EXCEPT !.port = k]
  BY ONLY <1>2 DEF PortOfToken
<1>5. PortsOf(q.token) = {k}
  BY DEF PortsOf
<1> HIDE DEF k, r
<1>6. /\ r \in Parsers(S) /\ SamePlace(r, q) /\ r.port = k
      /\ r.in_range = q.in_range
  BY ONLY <1>0, <1>3, <1>4 DEF Parsers, SamePlace
<1>7. Rest(r) = {}
  BY <1>6 DEF Rest
<1>8. {r.port} \cup Rest(r) = PortsOf(q.token)
  BY ONLY <1>5, <1>6, <1>7
<1> QED BY <1>3, <1>6, <1>8 DEF r

\* A range stands for its first port, which is returned, and for the others.
LEMMA PortOfRange ==
  ASSUME NEW S, NEW q \in Parsers(S), q.in_range = 0,
         ~IsPort(q.token), IsRange(q.token)
  PROVE  LET r == PortOfToken(q) IN
         /\ r \in Parsers(S) /\ SamePlace(r, q) /\ r.port # 0
         /\ {r.port} \cup Rest(r) = PortsOf(q.token)
<1> DEFINE r == PortOfToken(q)
           t == q.token
           b == Numeral(Low(t))
           e == Numeral(High(t))
<1>0. q \in Parsers(S) /\ q.in_range = 0
  OBVIOUS
<1>1. t \in Seq(S)
  BY DEF Parsers
<1>2. /\ Dash(t) \in 0 .. Len(t) /\ Len(t) \in Nat
      /\ \A i \in 1 .. Len(t) : t[i] \in S
  BY <1>1, DashIs, ElementOfSeq
<1>3. Dash(t) > 0 /\ IsPort(Low(t)) /\ IsPort(High(t))
  BY DEF IsRange
<1>4. Low(t) \in Seq(S) /\ High(t) \in Seq(S)
  <2>1. \A i \in 1 .. Dash(t) - 1 : t[i] \in S
    BY ONLY <1>2
  <2>2. \A i \in Dash(t) + 1 .. Len(t) : t[i] \in S
    BY ONLY <1>2
  <2>3. Dash(t) - 1 \in Int /\ Dash(t) + 1 \in Int /\ 1 \in Int /\ Len(t) \in Int
    BY ONLY <1>2
  <2>4. SubSeq(t, 1, Dash(t) - 1) \in Seq(S)
    BY <1>1, <2>1, <2>3, SubSeqProperties
  <2>5. SubSeq(t, Dash(t) + 1, Len(t)) \in Seq(S)
    BY <1>1, <2>2, <2>3, SubSeqProperties
  <2> QED BY <2>4, <2>5 DEF Low, High
<1>5. atoi(Low(t)) = b /\ b \in 1 .. MaxPort /\ atoi(High(t)) = e /\ e \in 1 .. MaxPort
  BY <1>3, <1>4, PortIs
<1>6. t # <<>>
  <2>1. CASE t = <<>>
    <3>1. Len(t) = 0
      BY <2>1, EmptySeq
    <3> QED BY <1>2, <1>3, <3>1
  <2> QED BY <2>1
<1>7. r = IF 0 < b /\ b < e /\ e <= MaxPort
          THEN [q EXCEPT !.in_range = b, !.range_end = e, !.port = b]
          ELSE [q EXCEPT !.range_end = e, !.port = b]
  <2>1. ~(Dash(t) = 0)
    BY ONLY <1>2, <1>3
  <2>2. /\ atoi(SubSeq(t, 1, Dash(t) - 1)) = b
        /\ atoi(SubSeq(t, Dash(t) + 1, Len(t))) = e
    BY ONLY <1>5, Zenon DEF Low, High
  <2> HIDE DEF b, e
  <2> QED BY ONLY <1>6, <2>1, <2>2, Zenon DEF PortOfToken
<1>8. PortsOf(t) = {b} \cup (b .. e)
  BY DEF PortsOf
<1> HIDE DEF r, b, e
<1>9. b \in Nat /\ b > 0 /\ b \in Int /\ e \in Int /\ 0 < b /\ e <= MaxPort
  BY ONLY <1>5
<1>10. CASE b < e
  <2>1. r = [q EXCEPT !.in_range = b, !.range_end = e, !.port = b]
    BY ONLY <1>7, <1>9, <1>10
  <2>2. /\ r \in Parsers(S) /\ SamePlace(r, q)
        /\ r.port = b /\ r.in_range = b /\ r.range_end = e
    BY ONLY <1>0, <1>9, <2>1 DEF Parsers, SamePlace
  <2>3. Rest(r) = b + 1 .. e
    BY ONLY <1>9, <2>2 DEF Rest
  <2>4. {b} \cup (b + 1 .. e) = {b} \cup (b .. e)
    BY ONLY <1>9
  <2>5. {r.port} \cup Rest(r) = PortsOf(t)
    BY ONLY <1>8, <2>2, <2>3, <2>4
  <2> QED BY <1>9, <2>2, <2>5 DEF r
<1>11. CASE ~(b < e)
  <2>1. r = [q EXCEPT !.range_end = e, !.port = b]
    BY ONLY <1>7, <1>11
  <2>2. r \in Parsers(S) /\ SamePlace(r, q) /\ r.port = b /\ r.in_range = q.in_range
    BY ONLY <1>0, <1>9, <2>1 DEF Parsers, SamePlace
  <2>3. Rest(r) = {}
    BY <2>2 DEF Rest
  <2>4. {b} \cup {} = {b} \cup (b .. e)
    BY ONLY <1>9, <1>11
  <2>5. {r.port} \cup Rest(r) = PortsOf(t)
    BY ONLY <1>8, <2>2, <2>3, <2>4
  <2> QED BY <1>9, <2>2, <2>5 DEF r
<1> QED BY <1>10, <1>11

\* Where a token from n on ends, as Token says.
Stop(tokens, n) ==
  CHOOSE m \in n .. Len(tokens) :
    /\ tokens[m] = "," \/ m = Len(tokens)
    /\ \A i \in n .. m - 1 : tokens[i] # ","

Legal ==
  list # <<>> /\ \A b \in Starts : IsPort(Element(b)) \/ IsRange(Element(b))

\* The elements that the parser has passed, and where it can be.
Behind(p) == {b \in Starts : b + 1 < p.last}
AtPosition(p) ==
  \/ p.last \in 1 .. Len(list) /\ p.n = p.last /\ p.last - 1 \in Starts
  \/ p.last = Len(list) + 1 /\ p.n = Len(list)

\* The starts are at commas, or at the beginning.
LEMMA StartsAre ==
  ASSUME list \in Seq(PortCharacters)
  PROVE  /\ Len(list) \in Nat /\ Starts \subseteq 0 .. Len(list) /\ 0 \in Starts
         /\ \A i \in 1 .. Len(list) : i \in Starts <=> list[i] = ","
<1>1. Len(list) \in Nat /\ DOMAIN list = 1 .. Len(list)
  BY LenProperties
<1>2. Starts = {0} \cup {i \in 1 .. Len(list) : list[i] = ","}
  BY ONLY <1>1 DEF Starts
<1>3. /\ Starts \subseteq 0 .. Len(list) /\ 0 \in Starts
  <2>1. 0 .. Len(list) = {0} \cup 1 .. Len(list)
    BY ONLY <1>1
  <2> QED BY ONLY <1>2, <2>1, Zenon
<1>4. ASSUME NEW i \in 1 .. Len(list) PROVE i \in Starts <=> list[i] = ","
  <2>1. i # 0
    BY ONLY <1>1, <1>4
  <2> QED BY ONLY <1>2, <1>4, <2>1, Zenon
<1> QED BY ONLY <1>1, <1>3, <1>4

\* An element goes up to the next comma, or to the end.
LEMMA ElementIs ==
  ASSUME list \in Seq(PortCharacters), NEW b \in Starts
  PROVE  \E e \in b + 1 .. Len(list) + 1 :
           /\ e <= Len(list) => list[e] = ","
           /\ \A i \in b + 1 .. e - 1 : list[i] # ","
           /\ Element(b) = SubSeq(list, b + 1, e - 1)
<1> DEFINE P(e) == /\ e <= Len(list) => list[e] = ","
                   /\ \A i \in b + 1 .. e - 1 : list[i] # ","
           L == Len(list)
           C == {L + 1} \cup {i \in 1 .. L : list[i] = ","}
<1>1. L \in Nat /\ b \in 0 .. L
  BY StartsAre
<1>2. \E e \in b + 1 .. L + 1 : P(e)
  <2>1. PICK x \in b + 1 .. L + 1 : x \in C /\ \A y \in b + 1 .. x - 1 : y \notin C
    <3>1. b + 1 \in Nat /\ L + 1 \in Nat /\ b + 1 <= L + 1 /\ L + 1 \in C
      BY <1>1
    <3> HIDE DEF C, L
    <3> QED BY <3>1, FirstPlace
  <2>2. \A y \in b + 1 .. x - 1 : y \in 1 .. L
    BY <1>1
  <2>3. \A y \in b + 1 .. x - 1 : list[y] # ","
    BY <2>1, <2>2
  <2>4. x <= L => list[x] = ","
    <3>1. x <= L => x # L + 1
      BY <1>1
    <3>2. x \in C
      BY <2>1
    <3> QED BY ONLY <3>1, <3>2, Zenon
  <2> QED BY <2>3, <2>4
<1>3. Element(b) = SubSeq(list, b + 1, (CHOOSE e \in b + 1 .. L + 1 : P(e)) - 1)
  BY DEF Element
<1> DEFINE e == CHOOSE x \in b + 1 .. L + 1 : P(x)
<1> HIDE DEF P
<1>4. e \in b + 1 .. L + 1 /\ P(e)
  BY <1>2
<1>5. Element(b) = SubSeq(list, b + 1, e - 1)
  BY <1>3
<1> HIDE DEF e
<1> QED BY <1>4, <1>5 DEF P

\* Without separators there is nothing to strip.
LEMMA NothingToStrip ==
  ASSUME NEW S, NEW t \in Seq(S), \A i \in 1 .. Len(t) : t[i] # ","
  PROVE  StripSeparators(t) = t
<1> DEFINE P(n) == /\ n > 0 => t[n] # ","
                   /\ \A i \in n + 1 .. Len(t) : t[i] = ","
<1>1. Len(t) \in Nat
  BY LenProperties
<1>2. Len(t) \in 0 .. Len(t) /\ P(Len(t))
  <2>1. \A i \in Len(t) + 1 .. Len(t) : FALSE
    BY ONLY <1>1
  <2>2. Len(t) > 0 => Len(t) \in 1 .. Len(t)
    BY ONLY <1>1
  <2>3. Len(t) \in 0 .. Len(t)
    BY ONLY <1>1
  <2> QED BY <2>1, <2>2, <2>3
<1>3. ASSUME NEW n \in 0 .. Len(t), P(n) PROVE n = Len(t)
  <2>1. CASE n < Len(t)
    <3>1. n + 1 \in 1 .. Len(t) /\ n + 1 \in n + 1 .. Len(t)
      BY ONLY <1>1, <2>1
    <3>2. t[n + 1] = ","
      BY <1>3, <3>1
    <3> QED BY <3>1, <3>2
  <2>2. n \in 0 .. Len(t) /\ Len(t) \in Nat
    BY <1>1
  <2> QED BY ONLY <2>1, <2>2
<1>4. StripSeparators(t) = SubSeq(t, 1, CHOOSE n \in 0 .. Len(t) : P(n))
  BY DEF StripSeparators
<1> HIDE DEF P
<1>5. (CHOOSE n \in 0 .. Len(t) : P(n)) = Len(t)
  BY <1>1, <1>2, <1>3
<1>6. SubSeq(t, 1, Len(t)) = t
  BY SubSeqFull
<1> QED BY <1>4, <1>5, <1>6

\* What GetToken does when there is something left.
LEMMA TokenIs ==
  ASSUME NEW p, ~(p.n > Len(p.tokens))
  PROVE  LET L == Len(p.tokens)
             stop == Stop(p.tokens, p.n)
             found == StripSeparators(
                 SubSeq(p.tokens, p.last, IF stop = L THEN L ELSE stop - 1))
             next == IF stop = L THEN L ELSE stop + 1 IN
         Token(p) = [p EXCEPT !.token = found, !.last = stop + 1,
                       !.n = IF found = <<>> THEN next + 1 ELSE next]
  BY Zenon DEF Token, Stop

\* An element is not empty.
LEMMA ElementNotEmpty ==
  ASSUME NEW S, NEW t \in Seq(S), IsPort(t) \/ IsRange(t)
  PROVE  t # <<>>
<1>1. CASE IsPort(t)
  BY <1>1 DEF IsPort
<1>2. CASE IsRange(t)
  <2>1. Dash(t) > 0 /\ Dash(t) \in 0 .. Len(t) /\ Len(t) \in Nat
    BY <1>2, DashIs DEF IsRange
  <2>2. Len(t) # 0
    BY ONLY <2>1
  <2> QED BY <2>2, EmptySeq
<1> QED BY <1>1, <1>2

\* A legal list does not end with a comma.
LEMMA LastNotComma ==
  ASSUME list \in Seq(PortCharacters), Legal
  PROVE  Len(list) \in Nat \ {0} /\ Len(list) \notin Starts
<1>1. Len(list) \in Nat /\ Starts \subseteq 0 .. Len(list)
  BY StartsAre
<1>2. Len(list) # 0
  <2>1. list # <<>>
    BY DEF Legal
  <2> QED BY <2>1, EmptySeq
<1>3. ASSUME Len(list) \in Starts PROVE FALSE
  <2>1. PICK e \in Len(list) + 1 .. Len(list) + 1 :
          Element(Len(list)) = SubSeq(list, Len(list) + 1, e - 1)
    BY <1>3, ElementIs
  <2>2. e - 1 = Len(list) /\ Len(list) < Len(list) + 1
    BY <1>1
  <2>3. SubSeq(list, Len(list) + 1, Len(list)) = <<>>
    BY <1>1, SubSeqEmpty
  <2>4. Element(Len(list)) = <<>>
    BY <2>1, <2>2, <2>3
  <2>5. IsPort(Element(Len(list))) \/ IsRange(Element(Len(list)))
    BY <1>3 DEF Legal
  <2>6. <<>> \in Seq(PortCharacters)
    BY EmptySeq
  <2> QED BY <2>4, <2>5, <2>6, ElementNotEmpty
<1> QED BY <1>1, <1>2, <1>3

\* The next separator, or the end, is where an element of a legal list ends.
LEMMA NextElement ==
  ASSUME list \in Seq(PortCharacters), Legal, NEW b \in Starts
  PROVE  /\ b \in 0 .. Len(list) - 1 /\ Len(list) \in Nat \ {0}
         /\ Element(b) \in Seq(PortCharacters) /\ Element(b) # <<>>
         /\ \E stop \in b + 1 .. Len(list) :
              /\ stop = Stop(list, b + 1)
              /\ StripSeparators(SubSeq(list, b + 1,
                   IF stop = Len(list) THEN Len(list) ELSE stop - 1)) = Element(b)
              /\ stop # Len(list) => stop \in Starts
              /\ \A x \in Starts : x <= b \/ stop <= x
<1> DEFINE L == Len(list)
<1>1. /\ L \in Nat \ {0} /\ L \notin Starts
      /\ Starts \subseteq 0 .. L
      /\ \A i \in 1 .. L : i \in Starts <=> list[i] = ","
  BY LastNotComma, StartsAre
<1>2. b \in 0 .. L /\ b # L /\ b \in Starts
  BY <1>1
<1>3. PICK e \in b + 1 .. L + 1 :
        /\ e <= L => list[e] = ","
        /\ \A i \in b + 1 .. e - 1 : list[i] # ","
        /\ Element(b) = SubSeq(list, b + 1, e - 1)
  BY ElementIs
<1> HIDE DEF L
<1>4. b \in Nat /\ b < L /\ L \in Nat /\ e \in Nat /\ b + 1 <= e /\ e <= L + 1
  <2>1. e \in b + 1 .. L + 1 /\ b \in 0 .. L /\ b # L /\ L \in Nat
    BY <1>1, <1>2, <1>3
  <2> QED BY ONLY <2>1
<1>5. /\ Element(b) \in Seq(PortCharacters) /\ Element(b) # <<>>
      /\ StripSeparators(Element(b)) = Element(b)
  <2>1. /\ b + 1 \in Int /\ e - 1 \in Int
        /\ \A i \in b + 1 .. e - 1 : i \in 1 .. L
    BY ONLY <1>4
  <2>2. \A i \in 1 .. L : list[i] \in PortCharacters
    BY ElementOfSeq DEF L
  <2>3. \A i \in b + 1 .. e - 1 : list[i] \in PortCharacters
    BY ONLY <2>1, <2>2
  <2>4. /\ Element(b) \in Seq(PortCharacters)
        /\ Len(Element(b)) = IF b + 1 <= e - 1 THEN (e - 1) - (b + 1) + 1 ELSE 0
        /\ \A j \in 1 .. (e - 1) - (b + 1) + 1 :
               Element(b)[j] = list[(b + 1) + j - 1]
    <3>1. Element(b) = SubSeq(list, b + 1, e - 1)
      BY <1>3
    <3>2. b + 1 \in Int /\ e - 1 \in Int
      BY <2>1
    <3> HIDE DEF Element
    <3> QED BY ONLY <2>3, <3>1, <3>2, SubSeqProperties
  <2>5. IsPort(Element(b)) \/ IsRange(Element(b))
    BY <1>2 DEF Legal
  <2>6. Element(b) # <<>>
    BY <2>4, <2>5, ElementNotEmpty
  <2>7. ASSUME NEW i \in 1 .. Len(Element(b)) PROVE Element(b)[i] # ","
    <3>1. /\ i \in 1 .. (e - 1) - (b + 1) + 1
          /\ (b + 1) + i - 1 \in b + 1 .. e - 1
      BY ONLY <1>4, <2>4, <2>7
    <3> QED BY <1>3, <2>4, <3>1
  <2>8. StripSeparators(Element(b)) = Element(b)
    BY <2>4, <2>7, NothingToStrip
  <2> QED BY <2>4, <2>6, <2>8
<1>6. e # b + 1
  <2>1. CASE e = b + 1
    <3>1. e - 1 < b + 1 /\ e - 1 \in Int /\ b + 1 \in Int
      BY ONLY <1>4, <2>1
    <3>2. SubSeq(list, b + 1, e - 1) = <<>>
      BY <3>1, SubSeqEmpty
    <3> QED BY <1>3, <1>5, <3>2
  <2> QED BY <2>1
<1>7. e # L
  <2>1. CASE e = L
    <3>1. L \in 1 .. L /\ e <= L
      BY ONLY <1>4, <2>1
    <3>2. list[L] = ","
      BY <1>3, <2>1, <3>1
    <3> QED BY <1>1, <3>1, <3>2
  <2> QED BY <2>1
<1> DEFINE Q(m) == /\ list[m] = "," \/ m = L
                   /\ \A i \in b + 1 .. m - 1 : list[i] # ","
           stop == IF e <= L THEN e ELSE L
<1>8. /\ b + 1 < e /\ stop \in b + 1 .. L /\ stop \in Nat
      /\ e <= L => e < L /\ stop = e
      /\ ~(e <= L) => e = L + 1 /\ stop = L
  BY ONLY <1>4, <1>6, <1>7
<1>9. /\ \A i \in b + 1 .. e - 1 : list[i] # ","
      /\ e <= L => list[e] = ","
  BY <1>3
<1> HIDE DEF stop
<1>10. Q(stop)
  <2>1. list[stop] = "," \/ stop = L
    BY <1>8, <1>9
  <2>2. \A i \in b + 1 .. stop - 1 : i \in b + 1 .. e - 1
    BY ONLY <1>4, <1>8
  <2> QED BY <1>9, <2>1, <2>2
<1>11. ASSUME NEW m \in b + 1 .. L, Q(m) PROVE m = stop
  <2>0. m \in b + 1 .. L
    BY <1>11
  <2>1. m \in Nat /\ b + 1 <= m /\ m <= L
    BY ONLY <1>4, <2>0
  <2>2. CASE m < stop
    <3>1. m \in b + 1 .. e - 1 /\ m # L
      BY ONLY <1>4, <1>8, <2>1, <2>2
    <3> QED BY <1>9, <1>11, <3>1
  <2>3. CASE stop < m
    <3>1. stop \in b + 1 .. m - 1 /\ stop # L
      BY ONLY <1>4, <1>8, <2>1, <2>3
    <3>2. list[stop] = ","
      BY <1>10, <3>1
    <3> QED BY <1>11, <3>1, <3>2
  <2> QED BY ONLY <1>8, <2>1, <2>2, <2>3
<1>12. StripSeparators(SubSeq(list, b + 1, IF stop = L THEN L ELSE stop - 1))
         = Element(b)
  <2>1. (IF stop = L THEN L ELSE stop - 1) = e - 1
    BY ONLY <1>4, <1>8
  <2> QED BY <1>3, <1>5, <2>1
<1>13. stop # L => stop \in Starts
  <2>1. ASSUME stop # L PROVE stop \in 1 .. L /\ list[stop] = ","
    <3>1. stop = e /\ e <= L
      BY ONLY <1>8, <2>1
    <3>2. stop \in 1 .. L
      BY ONLY <1>4, <1>8
    <3> QED BY <1>9, <3>1, <3>2
  <2> QED BY <1>1, <2>1
<1>14. ASSUME NEW x \in Starts PROVE x <= b \/ stop <= x
  <2>1. x \in 0 .. L
    BY <1>1
  <2>2. CASE b < x /\ x < stop
    <3>1. x \in b + 1 .. e - 1 /\ x \in 1 .. L
      BY ONLY <1>4, <1>8, <2>1, <2>2
    <3> QED BY <1>1, <1>9, <3>1
  <2> QED BY ONLY <1>4, <1>8, <2>1, <2>2
<1>15. stop = CHOOSE m \in b + 1 .. L : Q(m)
  <2> HIDE DEF Q
  <2> QED BY <1>8, <1>10, <1>11
<1>16. b \in 0 .. L - 1
  BY ONLY <1>4
<1>17. stop = Stop(list, b + 1)
  BY ONLY <1>15, Zenon DEF Stop, L
<1> QED BY ONLY <1>1, <1>5, <1>8, <1>12, <1>13, <1>14, <1>16, <1>17, Zenon DEF L

\* The next token is the next element.
LEMMA NextToken ==
  ASSUME list \in Seq(PortCharacters), Legal,
         NEW p \in Parsers(PortCharacters), p.tokens = list, p.n = p.last,
         NEW b \in Starts, p.last = b + 1
  PROVE  LET q == Token(p) IN
         /\ q \in Parsers(PortCharacters) /\ q.tokens = list
         /\ q.in_range = p.in_range /\ q.token = Element(b)
         /\ AtPosition(q) /\ Behind(q) = Behind(p) \cup {b}
<1> DEFINE L == Len(list)
           q == Token(p)
<1>0. /\ p \in Parsers(PortCharacters) /\ p.tokens = list /\ p.n = b + 1
      /\ p.last = b + 1
  OBVIOUS
<1>1. /\ b \in 0 .. L - 1 /\ L \in Nat \ {0} /\ Starts \subseteq 0 .. L
      /\ L \notin Starts /\ b \in Starts
  BY NextElement, StartsAre, LastNotComma
<1>2. Element(b) \in Seq(PortCharacters) /\ Element(b) # <<>>
  BY NextElement
<1> HIDE DEF L
<1>3. PICK stop \in b + 1 .. L :
        /\ stop = Stop(list, b + 1)
        /\ StripSeparators(SubSeq(list, b + 1, IF stop = L THEN L ELSE stop - 1))
             = Element(b)
        /\ stop # L => stop \in Starts
        /\ \A x \in Starts : x <= b \/ stop <= x
  BY NextElement DEF L
<1>4. b \in Nat /\ L \in Nat /\ stop \in Nat /\ b < stop /\ stop <= L
  <2>1. stop \in b + 1 .. L
    BY <1>3
  <2> QED BY ONLY <1>1, <2>1
<1>5. q = [p EXCEPT !.token = Element(b), !.last = stop + 1,
                    !.n = IF stop = L THEN L ELSE stop + 1]
  <2>1. ~(p.n > Len(p.tokens))
    <3>1. Len(p.tokens) = L
      BY <1>0 DEF L
    <3> QED BY ONLY <1>0, <1>4, <3>1
  <2> DEFINE Found(s) == StripSeparators(
               SubSeq(list, b + 1, IF s = L THEN L ELSE s - 1))
             Onward(s) == IF s = L THEN L ELSE s + 1
             s0 == Stop(list, b + 1)
  <2>2. q = [p EXCEPT !.token = Found(s0), !.last = s0 + 1,
               !.n = IF Found(s0) = <<>> THEN Onward(s0) + 1 ELSE Onward(s0)]
    <3>1. p.tokens = list /\ p.n = b + 1 /\ p.last = b + 1
      BY <1>0
    <3> QED BY ONLY <2>1, <3>1, TokenIs, Zenon DEF L
  <2>3. Found(stop) = Element(b) /\ s0 = stop
    BY <1>3
  <2> HIDE DEF Found, s0
  <2>4. q = [p EXCEPT !.token = Element(b), !.last = stop + 1,
               !.n = IF Element(b) = <<>> THEN Onward(stop) + 1 ELSE Onward(stop)]
    BY ONLY <2>2, <2>3, Zenon
  <2> QED BY ONLY <1>2, <2>4, Zenon
<1> DEFINE n1 == IF stop = L THEN L ELSE stop + 1
<1>6. /\ stop + 1 \in Nat /\ n1 \in Nat
      /\ stop = L => n1 = L
      /\ stop # L => n1 = stop + 1 /\ stop + 1 \in 1 .. L
  BY ONLY <1>4
<1>7. q = [p EXCEPT !.token = Element(b), !.last = stop + 1, !.n = n1]
  BY <1>5
<1> HIDE DEF n1, q
<1>8. /\ q \in Parsers(PortCharacters) /\ q.tokens = list
      /\ q.in_range = p.in_range /\ q.token = Element(b)
      /\ q.last = stop + 1 /\ q.n = n1
  BY ONLY <1>0, <1>2, <1>6, <1>7 DEF Parsers
<1>9. AtPosition(q)
  <2>1. CASE stop = L
    <3>1. q.last = Len(list) + 1 /\ q.n = Len(list)
      BY <1>6, <1>8, <2>1 DEF L
    <3> QED BY <3>1 DEF AtPosition
  <2>2. CASE stop # L
    <3>1. q.last \in 1 .. Len(list) /\ q.n = q.last
      BY <1>6, <1>8, <2>2 DEF L
    <3>2. q.last - 1 = stop
      BY ONLY <1>4, <1>8
    <3>3. q.last - 1 \in Starts
      BY <1>3, <2>2, <3>2
    <3> QED BY <3>1, <3>3 DEF AtPosition
  <2> QED BY <2>1, <2>2
<1>10. Behind(q) = Behind(p) \cup {b}
  <2>1. ASSUME NEW x \in Starts PROVE x + 1 < q.last <=> x + 1 < p.last \/ x = b
    <3>1. x \in 0 .. L /\ (x <= b \/ stop <= x)
      BY <1>1, <1>3
    <3> QED BY ONLY <1>0, <1>4, <1>8, <3>1
  <2> QED BY <1>1, <2>1, Zenon DEF Behind
<1> QED BY <1>8, <1>9, <1>10 DEF q

\* After the last element there are no tokens.
LEMMA NoMoreTokens ==
  ASSUME list \in Seq(PortCharacters), Legal,
         NEW p \in Parsers(PortCharacters), p.tokens = list,
         p.n = Len(list), p.last = Len(list) + 1
  PROVE  LET q == Token(p) IN
         /\ q \in Parsers(PortCharacters) /\ q.tokens = list
         /\ q.in_range = p.in_range /\ q.token = <<>>
         /\ q.last = Len(list) + 1
<1> DEFINE L == Len(list)
           q == Token(p)
           s0 == Stop(list, L)
<1>1. L \in Nat
  BY StartsAre
<1>2. /\ p \in Parsers(PortCharacters) /\ p.tokens = list /\ p.n = L
      /\ p.last = L + 1 /\ Len(p.tokens) = L
  OBVIOUS
<1> HIDE DEF L
<1>3. s0 = L
  <2>1. /\ L .. L = {L}
        /\ \A i \in L .. L - 1 : FALSE
    BY ONLY <1>1
  <2> QED BY ONLY <2>1, Zenon DEF Stop, L
<1> HIDE DEF s0
<1> DEFINE found == StripSeparators(SubSeq(list, L + 1, L))
<1>4. found = <<>>
  <2>1. L + 1 \in Int /\ L \in Int /\ L < L + 1
    BY ONLY <1>1
  <2>2. SubSeq(list, L + 1, L) = <<>>
    BY <2>1, SubSeqEmpty
  <2>3. <<>> \in Seq(PortCharacters) /\ Len(<<>>) = 0
    BY EmptySeq
  <2>4. \A i \in 1 .. 0 : FALSE
    OBVIOUS
  <2>5. StripSeparators(<<>>) = <<>>
    BY ONLY <2>3, <2>4, NothingToStrip
  <2> QED BY <2>2, <2>5
<1>5. q = [p EXCEPT !.token = <<>>, !.last = L + 1, !.n = L + 1]
  <2>1. ~(p.n > Len(p.tokens))
    BY ONLY <1>1, <1>2
  <2>2. q = [p EXCEPT !.token = StripSeparators(
                         SubSeq(list, L + 1, IF s0 = L THEN L ELSE s0 - 1)),
                      !.last = s0 + 1,
                      !.n = IF StripSeparators(
                         SubSeq(list, L + 1, IF s0 = L THEN L ELSE s0 - 1)) = <<>>
                            THEN (IF s0 = L THEN L ELSE s0 + 1) + 1
                            ELSE IF s0 = L THEN L ELSE s0 + 1]
    BY ONLY <1>2, <2>1, TokenIs, Zenon DEF s0
  <2>3. (IF s0 = L THEN L ELSE s0 - 1) = L /\ (IF s0 = L THEN L ELSE s0 + 1) = L
    BY ONLY <1>3
  <2>4. q = [p EXCEPT !.token = found, !.last = L + 1,
                      !.n = IF found = <<>> THEN L + 1 ELSE L]
    BY ONLY <1>3, <2>2, <2>3, Zenon
  <2> HIDE DEF found
  <2> QED BY ONLY <1>4, <2>4, Zenon
<1> HIDE DEF q
<1>6. <<>> \in Seq(PortCharacters) /\ L + 1 \in Nat
  BY <1>1, EmptySeq
<1>7. /\ q \in Parsers(PortCharacters) /\ q.tokens = list
      /\ q.in_range = p.in_range /\ q.token = <<>> /\ q.last = L + 1
  BY ONLY <1>2, <1>5, <1>6 DEF Parsers
<1> QED BY <1>7 DEF q, L

\* The ports of the elements that the parser has passed.
Done(p) == UNION {PortsOf(Element(b)) : b \in Behind(p)}

\* What the parser has returned and what is left of its range are the ports of
\* the elements that it has passed.
PortsInv ==
  /\ list \in Seq(PortCharacters)
  /\ Legal =>
       /\ portrange \in Parsers(PortCharacters) /\ portrange.tokens = list
       /\ portrange.port # 0 => AtPosition(portrange)
       /\ portnos \cup Rest(portrange) = Done(portrange)
       /\ portrange.port = 0 =>
            portrange.last = Len(list) + 1 /\ Rest(portrange) = {}

\* What a parser becomes at the end of the list.
LEMMA ParserEnds ==
  ASSUME NEW S, NEW t \in Parsers(S), NEW q, q = [t EXCEPT !.port = 0]
  PROVE  /\ q \in Parsers(S) /\ q.tokens = t.tokens /\ q.last = t.last
         /\ q.in_range = t.in_range /\ q.port = 0
  BY DEF Parsers

\* A port is one that was left of a range, or begins what the next element
\* stands for, if there is one.
LEMMA GetPortIs ==
  ASSUME list \in Seq(PortCharacters), Legal,
         NEW p \in Parsers(PortCharacters), p.tokens = list, AtPosition(p)
  PROVE  LET q == GetPort(p)
             new == ({q.port} \ {0}) \cup Rest(q) IN
         /\ q \in Parsers(PortCharacters) /\ q.tokens = list
         /\ q.port # 0 => AtPosition(q)
         /\ q.port = 0 => q.last = Len(list) + 1 /\ Rest(q) = {}
         /\ \/ new = Rest(p) /\ Done(q) = Done(p)
            \/ Rest(p) = {} /\ Done(q) = Done(p) \cup new
<1> DEFINE S == PortCharacters
           q == GetPort(p)
           new == ({q.port} \ {0}) \cup Rest(q)
<1>0. /\ p \in Parsers(S) /\ p.tokens = list /\ p.in_range \in Nat
      /\ p.range_end \in Int /\ p.last \in Nat
  BY DEF Parsers
<1>1. CASE p.in_range > 0 /\ p.in_range < p.range_end
  <2>1. q = [p EXCEPT !.in_range = p.in_range + 1, !.port = p.in_range + 1]
    BY <1>1, Zenon DEF GetPort
  <2>2. p.in_range + 1 \in Nat /\ p.in_range + 1 \in Int /\ p.in_range + 1 # 0
    BY ONLY <1>0
  <2> HIDE DEF q
  <2>3. /\ q \in Parsers(S) /\ SamePlace(q, p) /\ q.port = p.in_range + 1
        /\ q.in_range = p.in_range + 1 /\ q.range_end = p.range_end
    BY ONLY <1>0, <2>1, <2>2 DEF Parsers, SamePlace
  <2>4. /\ Rest(p) = p.in_range + 1 .. p.range_end
        /\ Rest(q) = p.in_range + 1 + 1 .. p.range_end
    BY ONLY <1>0, <1>1, <2>3 DEF Rest
  <2>5. p.in_range + 1 .. p.range_end
          = {p.in_range + 1} \cup (p.in_range + 1 + 1 .. p.range_end)
    BY ONLY <1>0, <1>1
  <2>6. new = Rest(p)
    <3>1. {q.port} \ {0} = {p.in_range + 1}
      BY ONLY <2>2, <2>3
    <3> QED BY ONLY <2>4, <2>5, <3>1
  <2>7. q.tokens = list /\ q.last = p.last /\ q.n = p.n
    BY <1>0, <2>3 DEF SamePlace
  <2>8. Done(q) = Done(p)
    BY <2>7, Zenon DEF Done, Behind
  <2>9. AtPosition(q)
    BY <2>7, Zenon DEF AtPosition
  <2> QED BY ONLY <2>2, <2>3, <2>6, <2>7, <2>8, <2>9 DEF q
<1>2. CASE ~(p.in_range > 0 /\ p.in_range < p.range_end)
  <2> DEFINE p1 == [p EXCEPT !.in_range = 0]
             t == Token(p1)
  <2>1. q = PortOfToken(t)
    BY <1>2, Zenon DEF GetPort
  <2>2. Rest(p) = {}
    BY ONLY <1>0, <1>2 DEF Rest
  <2>3. /\ p1 \in Parsers(S) /\ p1.tokens = list /\ p1.in_range = 0
        /\ p1.last = p.last /\ p1.n = p.n
    BY ONLY <1>0 DEF Parsers
  <2> HIDE DEF p1, q
  <2>4. Behind(p1) = Behind(p)
    BY <2>3, Zenon DEF Behind
  <2>5. CASE p.last \in 1 .. Len(list) /\ p.n = p.last /\ p.last - 1 \in Starts
    <3> DEFINE b == p.last - 1
    <3>1. b \in Starts /\ p1.last = b + 1 /\ p1.n = p1.last
      <4>1. p.last = (p.last - 1) + 1
        BY ONLY <1>0
      <4> QED BY ONLY <2>3, <2>5, <4>1
    <3> HIDE DEF b
    <3>2. /\ t \in Parsers(S) /\ t.tokens = list
          /\ t.in_range = 0 /\ t.token = Element(b)
          /\ AtPosition(t) /\ Behind(t) = Behind(p) \cup {b}
      BY <2>3, <2>4, <3>1, NextToken
    <3>3. IsPort(t.token) \/ IsRange(t.token)
      BY <3>1, <3>2, Zenon DEF Legal
    <3> HIDE DEF t
    <3>4. /\ q \in Parsers(S) /\ SamePlace(q, t) /\ q.port # 0
          /\ {q.port} \cup Rest(q) = PortsOf(t.token)
      BY <2>1, <3>2, <3>3, PortOfPort, PortOfRange
    <3>5. q.tokens = list /\ q.last = t.last /\ q.n = t.n
      BY <3>2, <3>4 DEF SamePlace
    <3>6. AtPosition(q) /\ Behind(q) = Behind(p) \cup {b}
      BY <3>2, <3>5, Zenon DEF AtPosition, Behind
    <3>7. new = PortsOf(Element(b))
      BY ONLY <3>2, <3>4
    <3>8. Done(q) = Done(p) \cup new
      BY ONLY <3>6, <3>7 DEF Done
    <3> QED BY ONLY <2>2, <3>4, <3>5, <3>6, <3>8 DEF q
  <2>6. CASE p.last = Len(list) + 1 /\ p.n = Len(list)
    <3>1. /\ t \in Parsers(S) /\ t.tokens = list /\ t.in_range = 0
          /\ t.token = <<>> /\ t.last = Len(list) + 1
      BY <2>3, <2>6, NoMoreTokens
    <3> HIDE DEF t
    <3>2. q = [t EXCEPT !.port = 0]
      BY ONLY <2>1, <3>1, Zenon DEF PortOfToken
    <3>3. /\ q \in Parsers(S) /\ q.tokens = list /\ q.in_range = 0
          /\ q.port = 0 /\ q.last = Len(list) + 1
      <4>1. t \in Parsers(S)
        BY <3>1
      <4>2. /\ q \in Parsers(S) /\ q.tokens = t.tokens /\ q.last = t.last
            /\ q.in_range = t.in_range /\ q.port = 0
        BY ONLY <3>2, <4>1, ParserEnds
      <4> QED BY ONLY <3>1, <4>2
    <3>4. Rest(q) = {}
      BY ONLY <3>3 DEF Rest
    <3>5. Behind(q) = Behind(p)
      BY <2>6, <3>3, Zenon DEF Behind
    <3>6. Done(q) = Done(p) /\ new = {}
      BY ONLY <3>3, <3>4, <3>5 DEF Done
    <3> QED BY ONLY <2>2, <3>3, <3>4, <3>6 DEF q
  <2> QED BY <2>5, <2>6 DEF AtPosition
<1> QED BY <1>1, <1>2

\* Nothing is passed before the first call.
LEMMA ParserBegins ==
  ASSUME list \in Seq(PortCharacters)
  PROVE  LET p == Parser(list) IN
         /\ list # <<>> => p \in Parsers(PortCharacters) /\ AtPosition(p)
         /\ p.tokens = list /\ p.port # 0 /\ Rest(p) = {} /\ Done(p) = {}
<1> DEFINE p == Parser(list)
<1>1. Len(list) \in Nat /\ Starts \subseteq 0 .. Len(list) /\ 0 \in Starts
  BY StartsAre
<1>2. /\ p.tokens = list /\ p.port = -1 /\ p.last = 1 /\ p.n = 1
      /\ p.in_range = 0
  BY DEF Parser
<1>3. p \in Parsers(PortCharacters)
  <2>1. <<>> \in Seq(PortCharacters)
    BY EmptySeq
  <2> QED BY <2>1 DEF Parser, Parsers
<1> HIDE DEF p
<1>4. list # <<>> => AtPosition(p)
  <2>1. ASSUME list # <<>> PROVE p.last \in 1 .. Len(list) /\ p.last - 1 = 0
    <3>1. Len(list) \in Nat \ {0}
      BY <2>1, EmptySeq
    <3> QED BY ONLY <1>2, <3>1
  <2> QED BY <1>1, <1>2, <2>1 DEF AtPosition
<1>5. Rest(p) = {}
  BY ONLY <1>2 DEF Rest
<1>6. Behind(p) = {}
  <2>1. ASSUME NEW b \in Starts, b + 1 < p.last PROVE FALSE
    <3>1. b \in Nat
      BY <1>1
    <3> QED BY ONLY <1>2, <2>1, <3>1
  <2> QED BY <2>1, Zenon DEF Behind
<1>7. Done(p) = {} /\ p.port # 0
  BY ONLY <1>2, <1>6 DEF Done
<1> QED BY <1>2, <1>3, <1>4, <1>5, <1>7 DEF p

\* What the parser knows stays true.
LEMMA PortsInvSteps ==
  /\ TextInit => PortsInv
  /\ PortsInv /\ [TextNext]_textVars => PortsInv'
<1>1. ASSUME TextInit PROVE PortsInv
  <2>1. list = <<>> /\ list \in Seq(PortCharacters)
    BY <1>1, EmptySeq DEF TextInit
  <2> QED BY <2>1 DEF PortsInv, Legal
<1>2. ASSUME PortsInv, UNCHANGED <<list, portrange, portnos>> PROVE PortsInv'
  <2>1. Starts' = Starts /\ (\A b : Element(b)' = Element(b))
    BY <1>2 DEF Starts, Element
  <2>2. Legal' = Legal
    BY <1>2, <2>1 DEF Legal
  <2>3. Done(portrange)' = Done(portrange)
    BY <1>2, <2>1 DEF Done, Behind
  <2>4. AtPosition(portrange)' = AtPosition(portrange)
    BY <1>2, <2>1 DEF AtPosition
  <2>5. Rest(portrange)' = Rest(portrange)
    BY <1>2 DEF Rest
  <2> QED BY <1>2, <2>2, <2>3, <2>4, <2>5 DEF PortsInv
<1>3. ASSUME PortsInv, NEW c \in PortCharacters, WriteList(c) PROVE PortsInv'
  <2>1. list' \in Seq(PortCharacters)
    <3>1. list \in Seq(PortCharacters) /\ list' = Append(list, c)
      BY <1>3 DEF PortsInv, WriteList
    <3> QED BY <3>1, AppendProperties
  <2>2. portrange' = Parser(list') /\ portnos' = {}
    BY <1>3 DEF WriteList
  <2>3. (list \in Seq(PortCharacters) =>
          LET p == Parser(list) IN
          /\ list # <<>> => p \in Parsers(PortCharacters) /\ AtPosition(p)
          /\ p.tokens = list /\ p.port # 0 /\ Rest(p) = {} /\ Done(p) = {})'
    BY ParserBegins, PTL
  <2> QED BY <2>1, <2>2, <2>3 DEF PortsInv, Legal
<1>4. ASSUME PortsInv, GetToken PROVE PortsInv'
  <2>1. /\ list' = list /\ portrange.port # 0
        /\ portrange' = GetPort(portrange)
        /\ portnos' = portnos \cup ({portrange'.port} \ {0})
    BY <1>4 DEF GetToken
  <2>2. Starts' = Starts /\ (\A b : Element(b)' = Element(b))
    BY <2>1 DEF Starts, Element
  <2>3. Legal' = Legal
    BY <2>1, <2>2 DEF Legal
  <2> SUFFICES ASSUME Legal PROVE PortsInv'
    BY <1>4, <2>1, <2>3 DEF PortsInv
  <2> DEFINE q == GetPort(portrange)
             new == ({q.port} \ {0}) \cup Rest(q)
  <2>4. /\ portrange \in Parsers(PortCharacters) /\ portrange.tokens = list
        /\ AtPosition(portrange) /\ list \in Seq(PortCharacters)
        /\ portnos \cup Rest(portrange) = Done(portrange)
    BY <1>4, <2>1 DEF PortsInv
  <2>5. /\ q \in Parsers(PortCharacters) /\ q.tokens = list
        /\ q.port # 0 => AtPosition(q)
        /\ q.port = 0 => q.last = Len(list) + 1 /\ Rest(q) = {}
        /\ \/ new = Rest(portrange) /\ Done(q) = Done(portrange)
           \/ Rest(portrange) = {} /\ Done(q) = Done(portrange) \cup new
    BY <2>4, GetPortIs
  <2> HIDE DEF q
  <2>6. portrange' = q
    BY <2>1 DEF q
  <2>7. portnos' \cup Rest(q) = Done(q)
    BY ONLY <2>1, <2>4, <2>5, <2>6
  <2>8. /\ Done(portrange)' = Done(q)
        /\ AtPosition(portrange)' = AtPosition(q)
        /\ Rest(portrange)' = Rest(q)
    BY <2>1, <2>2, <2>6 DEF Done, Behind, AtPosition, Rest
  <2> QED BY <2>1, <2>4, <2>5, <2>6, <2>7, <2>8 DEF PortsInv
<1>5. ASSUME PortsInv, [TextNext]_textVars PROVE PortsInv'
  BY <1>2, <1>3, <1>4, <1>5 DEF TextNext, WriteName, WriteMask, Match, textVars
<1> QED BY <1>1, <1>5

\* What the parser knows is what the ports are meant to be.
LEMMA PortsInvEnough == PortsInv => PortsAsMeant
<1> SUFFICES ASSUME PortsInv, Legal
             PROVE  LET every == UNION {PortsOf(Element(b)) : b \in Starts} IN
                    /\ portnos \subseteq every
                    /\ portrange.port = 0 => portnos = every
  BY DEF PortsAsMeant, Legal
<1> DEFINE every == UNION {PortsOf(Element(b)) : b \in Starts}
<1>1. portnos \cup Rest(portrange) = Done(portrange)
  BY DEF PortsInv
<1>2. Behind(portrange) \subseteq Starts
  BY DEF Behind
<1>3. Done(portrange) \subseteq every
  BY ONLY <1>2 DEF Done
<1>4. ASSUME portrange.port = 0 PROVE portnos = every
  <2>1. portrange.last = Len(list) + 1 /\ Rest(portrange) = {}
    BY <1>4 DEF PortsInv
  <2>2. Behind(portrange) = Starts
    <3>1. ASSUME NEW b \in Starts PROVE b + 1 < portrange.last
      <4>1. b \in 0 .. Len(list) /\ b # Len(list) /\ Len(list) \in Nat
        BY StartsAre, LastNotComma DEF PortsInv
      <4> QED BY ONLY <2>1, <4>1
    <3> QED BY <3>1, Zenon DEF Behind
  <2> QED BY ONLY <1>1, <2>1, <2>2 DEF Done
<1> QED BY <1>1, <1>3, <1>4

TextSpec == TextInit /\ [][TextNext]_textVars

\* For texts of any length: BindPorts gets all the ports that a legal list
\* stands for and no others (hashcomp.cpp:146-235), and match() says what the
\* stars and the question marks mean, although it only ever goes back to the
\* last star (wildcard.cpp:81-128).
THEOREM TextsAreReadAsMeant == TextSpec => []TextsAsMeant
<1>1. TextInit => MatchInv /\ PortsInv
  BY MatchInvSteps, PortsInvSteps
<1>2. MatchInv /\ PortsInv /\ [TextNext]_textVars => (MatchInv /\ PortsInv)'
  BY MatchInvSteps, PortsInvSteps
<1>3. MatchInv /\ PortsInv => TextsAsMeant
  BY PortsInvEnough DEF MatchInv, TextsAsMeant
<1> QED BY <1>1, <1>2, <1>3, PTL DEF TextSpec

=============================================================================
