---------------------------- MODULE ValuesProofs ----------------------------
(***************************************************************************)
(* The values of compiled code are Julia's.                                *)
(*                                                                         *)
(* Part 1, DictConst: a constant Dict survives the way through .rodata,    *)
(* for every table size, every set of elements and every history.          *)
(*                                                                         *)
(* Part 2, Scalars: a register is the value that Julia computes, for all   *)
(* widths and every program of the operations that keep it normalized.     *)
(***************************************************************************)
EXTENDS DictConst, Scalars, FiniteSetTheorems, WellFoundedInduction, TLAPS

-----------------------------------------------------------------------------
\* A non-empty set of naturals has a least element.
LEMMA LeastOf ==
    ASSUME NEW T \in SUBSET Nat, T # {}
    PROVE  \E n \in T : \A m \in T : n <= m
<1> DEFINE Under == {ss \in Nat \X Nat : ss[1] < ss[2]}
<1>1. IsWellFoundedOn(Under, Nat)
  BY NatLessThanWellFounded DEF OpToRel
<1> HIDE DEF Under
<1>2. PICK n \in T : \A m \in T : ~(<<m, n>> \in Under)
  BY <1>1, WFMin
<1>3. \A m \in T : ~(m < n)
  BY <1>2 DEF Under
<1>4. QED BY <1>3

-----------------------------------------------------------------------------
(* 1. Constant Dicts                                                       *)

(* Least and greatest slots                                                *)

LEMMA MinIn ==
    ASSUME NEW T \in SUBSET Nat, T # {}
    PROVE  Min(T) \in T
BY LeastOf DEF Min

-----------------------------------------------------------------------------
(* Concatenation                                                           *)

LEMMA Concat ==
    ASSUME NEW s \in Seq(Nat), NEW t \in Seq(Nat)
    PROVE  /\ s \o t \in Seq(Nat)
           /\ Len(s) \in Nat /\ Len(t) \in Nat /\ Len(s \o t) = Len(s) + Len(t)
           /\ \A x \in 1 .. Len(s) : (s \o t)[x] = s[x]
           /\ \A x \in 1 .. Len(t) : (s \o t)[Len(s) + x] = t[x]
OBVIOUS

\* f is the function flatten in FlattenSeq of the first n sequences.
Flattens(f, seqs, n) ==
    f = [i \in 1 .. n |-> IF i = 1 THEN seqs[i] ELSE f[i - 1] \o seqs[i]]

LEMMA FlattenSeqDef ==
    ASSUME NEW seqs, Len(seqs) # 0
    PROVE  FlattenSeq(seqs) = (CHOOSE f : Flattens(f, seqs, Len(seqs)))[Len(seqs)]
BY DEF FlattenSeq, Flattens

\* The recursion of FlattenSeq defines a function.
LEMMA FlattenExists ==
    ASSUME NEW seqs \in Seq(Seq(Nat)), NEW n \in 1 .. Len(seqs)
    PROVE  \E f \in [1 .. n -> Seq(Nat)] : Flattens(f, seqs, n)
<1> DEFINE Good(m) == \E f \in [1 .. m -> Seq(Nat)] : Flattens(f, seqs, m)
           Bad == {m \in 1 .. Len(seqs) : ~Good(m)}
<1>1. Good(1)
  <2>1. seqs[1] \in Seq(Nat)
    OBVIOUS
  <2>2. [i \in 1 .. 1 |-> seqs[1]] \in [1 .. 1 -> Seq(Nat)]
    BY <2>1
  <2>3. Flattens([i \in 1 .. 1 |-> seqs[1]], seqs, 1)
    BY DEF Flattens
  <2>4. QED BY <2>2, <2>3
<1>2. ASSUME NEW m \in 1 .. Len(seqs) - 1, Good(m)
      PROVE  Good(m + 1)
  <2>1. PICK f \in [1 .. m -> Seq(Nat)] : Flattens(f, seqs, m)
    BY <1>2
  <2> DEFINE g == [i \in 1 .. m + 1 |-> IF i = m + 1 THEN f[m] \o seqs[i] ELSE f[i]]
  <2>2. seqs[m + 1] \in Seq(Nat) /\ f[m] \in Seq(Nat)
    OBVIOUS
  <2>3. g \in [1 .. m + 1 -> Seq(Nat)]
    BY <2>2
  <2>4. \A i \in 1 .. m : f[i] = IF i = 1 THEN seqs[i] ELSE f[i - 1] \o seqs[i]
    BY <2>1 DEF Flattens
  <2>5. ASSUME NEW i \in 1 .. m + 1
        PROVE  g[i] = IF i = 1 THEN seqs[i] ELSE g[i - 1] \o seqs[i]
    <3>1. CASE i = m + 1
      <4>1. i # 1 /\ i - 1 \in 1 .. m + 1 /\ i - 1 # m + 1 /\ i - 1 = m
        BY <3>1
      <4>2. g[i - 1] = f[m]
        BY <4>1
      <4>3. g[i] = f[m] \o seqs[i]
        BY <3>1
      <4> HIDE DEF g
      <4>4. QED BY <4>1, <4>2, <4>3
    <3>2. CASE i # m + 1
      <4>1. i \in 1 .. m /\ g[i] = f[i]
        BY <3>2
      <4>2. i # 1 => i - 1 \in 1 .. m + 1 /\ i - 1 # m + 1
        BY <3>2
      <4>3. i # 1 => g[i - 1] = f[i - 1]
        BY <4>2
      <4> HIDE DEF g
      <4>4. QED BY <4>1, <4>3, <2>4
    <3>3. QED BY <3>1, <3>2
  <2> HIDE DEF g
  <2>6. Flattens(g, seqs, m + 1)
    BY <2>3, <2>5 DEF Flattens
  <2>7. QED BY <2>3, <2>6
<1> HIDE DEF Good
<1>3. ASSUME Bad # {}
      PROVE  FALSE
  <2>0. Bad \in SUBSET Nat
    OBVIOUS
  <2>1. PICK m \in Bad : \A k \in Bad : m <= k
    BY <1>3, <2>0, LeastOf
  <2>2. m # 1
    BY <2>1, <1>1
  <2>3. m - 1 \in 1 .. Len(seqs) - 1 /\ m - 1 \notin Bad
    BY <2>1, <2>2
  <2>4. Good((m - 1) + 1)
    BY <2>3, <1>2
  <2>5. QED BY <2>1, <2>4
<1>4. Good(n)
  BY <1>3
<1>5. QED BY <1>4 DEF Good

\* Where each sequence starts in the concatenation, and that it is there.
LEMMA FlattenParts ==
    ASSUME NEW seqs \in Seq(Seq(Nat)), Len(seqs) > 0
    PROVE  \E at \in [1 .. Len(seqs) + 1 -> Nat \ {0}] :
              /\ at[1] = 1
              /\ \A i \in 1 .. Len(seqs) : at[i + 1] = at[i] + Len(seqs[i])
              /\ FlattenSeq(seqs) \in Seq(Nat)
              /\ Len(FlattenSeq(seqs)) = at[Len(seqs) + 1] - 1
              /\ \A i \in 1 .. Len(seqs) : \A x \in 1 .. Len(seqs[i]) :
                    FlattenSeq(seqs)[at[i] + x - 1] = seqs[i][x]
<1> DEFINE n == Len(seqs)
           f == CHOOSE f : Flattens(f, seqs, n)
<1>0. n \in Nat /\ n > 0 /\ \A i \in 1 .. n : seqs[i] \in Seq(Nat)
  OBVIOUS
<1>1. Flattens(f, seqs, n)
  BY FlattenExists
<1>2. FlattenSeq(seqs) = f[n]
  BY FlattenSeqDef
<1>3. \E g \in [1 .. n -> Seq(Nat)] : Flattens(g, seqs, n)
  BY FlattenExists, SMTT(30)
<1> HIDE DEF f, n
<1>4. \A i \in 1 .. n : f[i] = IF i = 1 THEN seqs[i] ELSE f[i - 1] \o seqs[i]
  BY <1>1 DEF Flattens
<1>5. f[1] = seqs[1]
  BY <1>0, <1>4
<1>6. \A i \in 1 .. n : f[i] \in Seq(Nat)
  <2> DEFINE Bad == {i \in 1 .. n : f[i] \notin Seq(Nat)}
  <2>1. ASSUME Bad # {}
        PROVE  FALSE
    <3>0. Bad \in SUBSET Nat
      BY <1>0
    <3>1. PICK m \in Bad : \A k \in Bad : m <= k
      BY <2>1, <3>0, LeastOf
    <3>2. m # 1
      BY <3>1, <1>0, <1>5
    <3>3. m - 1 \in 1 .. n /\ m - 1 \notin Bad
      BY <3>1, <3>2, <1>0
    <3>4. f[m - 1] \in Seq(Nat) /\ seqs[m] \in Seq(Nat)
      BY <3>1, <3>3, <1>0
    <3>5. f[m] = f[m - 1] \o seqs[m]
      BY <3>1, <3>2, <1>4
    <3>6. f[m - 1] \o seqs[m] \in Seq(Nat)
      <4> DEFINE s == f[m - 1]
                 t == seqs[m]
      <4>1. s \in Seq(Nat) /\ t \in Seq(Nat)
        BY <3>4
      <4> HIDE DEF s, t
      <4>2. s \o t \in Seq(Nat)
        BY <4>1, Concat
      <4>3. QED BY <4>2 DEF s, t
    <3>7. f[m] \notin Seq(Nat)
      BY <3>1
    <3>8. QED BY <3>5, <3>6, <3>7
  <2>2. QED BY <2>1
\* What has been put together stays in front of what follows.
<1>7. ASSUME NEW i \in 1 .. n
      PROVE  Len(f[i]) <= Len(f[n]) /\ \A y \in 1 .. Len(f[i]) : f[n][y] = f[i][y]
  <2> DEFINE Keeps(j) == Len(f[i]) <= Len(f[j]) /\ \A y \in 1 .. Len(f[i]) : f[j][y] = f[i][y]
             Bad == {j \in i .. n : ~Keeps(j)}
  <2>0. \A j \in 1 .. n : f[j] \in Seq(Nat) /\ Len(f[j]) \in Nat
    BY <1>6
  <2>1. Keeps(i)
    BY <2>0
  <2>2. ASSUME NEW j \in i .. n - 1, Keeps(j)
        PROVE  Keeps(j + 1)
    <3>1. j \in 1 .. n /\ j + 1 \in 1 .. n /\ j + 1 # 1
      BY <1>0
    <3>2. f[j + 1] = f[j] \o seqs[j + 1]
      <4>1. (j + 1) - 1 = j
        OBVIOUS
      <4>2. QED BY <3>1, <4>1, <1>4
    <3>3. f[j] \in Seq(Nat) /\ seqs[j + 1] \in Seq(Nat)
      BY <3>1, <1>0, <1>6
    <3>4. Len(f[j]) <= Len(f[j + 1]) /\ \A y \in 1 .. Len(f[j]) : f[j + 1][y] = f[j][y]
      <4> DEFINE s == f[j]
                 t == seqs[j + 1]
      <4>1. s \in Seq(Nat) /\ t \in Seq(Nat) /\ f[j + 1] = s \o t
        BY <3>2, <3>3
      <4> HIDE DEF s, t
      <4>2. /\ Len(s) \in Nat /\ Len(t) \in Nat /\ Len(s \o t) = Len(s) + Len(t)
            /\ \A y \in 1 .. Len(s) : (s \o t)[y] = s[y]
        BY <4>1, Concat
      <4>3. Len(s) <= Len(f[j + 1]) /\ \A y \in 1 .. Len(s) : f[j + 1][y] = s[y]
        BY <4>1, <4>2
      <4>4. QED BY <4>3 DEF s
    <3>5. Len(f[i]) \in Nat /\ Len(f[j]) \in Nat /\ Len(f[j + 1]) \in Nat
      BY <3>1, <2>0
    <3>6. \A y \in 1 .. Len(f[i]) : y \in 1 .. Len(f[j])
      BY <3>5, <2>2
    <3>7. QED BY <3>4, <3>5, <3>6, <2>2
  <2>3. ASSUME Bad # {}
        PROVE  FALSE
    <3>0. Bad \in SUBSET Nat
      BY <1>0
    <3>1. PICK m \in Bad : \A k \in Bad : m <= k
      BY <2>3, <3>0, LeastOf
    <3> HIDE DEF Keeps
    <3>2. m # i
      BY <3>1, <2>1
    <3>3. m - 1 \in i .. n - 1 /\ m - 1 \notin Bad
      BY <3>1, <3>2, <1>0
    <3>4. Keeps(m - 1)
      BY <3>3, <1>0
    <3>5. Keeps((m - 1) + 1)
      BY <3>3, <3>4, <2>2
    <3>6. (m - 1) + 1 = m
      BY <3>1, <1>0
    <3>7. QED BY <3>1, <3>5, <3>6
  <2>4. n \in i .. n
    BY <1>0
  <2>5. QED BY <2>3, <2>4
<1> DEFINE at == [i \in 1 .. n + 1 |-> IF i = 1 THEN 1 ELSE Len(f[i - 1]) + 1]
<1>8. at \in [1 .. n + 1 -> Nat \ {0}] /\ at[1] = 1
  BY <1>0, <1>6
<1> HIDE DEF f
<1>9. ASSUME NEW i \in 1 .. n
      PROVE  /\ at[i] \in Nat \ {0} /\ at[i + 1] = Len(f[i]) + 1
             /\ Len(f[i]) \in Nat /\ Len(seqs[i]) \in Nat
  <2>1. Len(f[i]) \in Nat /\ Len(seqs[i]) \in Nat
    BY <1>0, <1>6
  <2>2. i + 1 \in 1 .. n + 1 /\ i + 1 # 1 /\ (i + 1) - 1 = i /\ i \in 1 .. n + 1
    BY <1>0
  <2>3. at[i + 1] = Len(f[i]) + 1
    BY <2>2
  <2> HIDE DEF at
  <2>4. QED BY <1>8, <2>1, <2>2, <2>3
<1>10. ASSUME NEW i \in 1 .. n
       PROVE  /\ at[i + 1] = at[i] + Len(seqs[i])
              /\ \A x \in 1 .. Len(seqs[i]) : f[i][at[i] + x - 1] = seqs[i][x]
  <2>1. CASE i = 1
    <3>1. at[i] = 1 /\ f[i] = seqs[i]
      BY <2>1, <1>0, <1>5
    <3>2. at[i + 1] = Len(seqs[i]) + 1 /\ Len(seqs[i]) \in Nat
      BY <3>1, <1>9
    <3> HIDE DEF at
    <3>3. \A x \in 1 .. Len(seqs[i]) : at[i] + x - 1 = x
      BY <3>1
    <3>4. QED BY <3>1, <3>2, <3>3
  <2>2. CASE i # 1
    <3>1. i - 1 \in 1 .. n /\ at[i] = Len(f[i - 1]) + 1
      BY <2>2, <1>0
    <3> DEFINE s == f[i - 1]
               t == seqs[i]
    <3>2. f[i] = s \o t /\ s \in Seq(Nat) /\ t \in Seq(Nat)
      BY <2>2, <3>1, <1>0, <1>4, <1>6
    <3>3. at[i] = Len(s) + 1 /\ at[i + 1] = Len(f[i]) + 1
      BY <3>1, <1>9
    <3> HIDE DEF at, s, t
    <3>4. /\ Len(s) \in Nat /\ Len(t) \in Nat /\ Len(f[i]) = Len(s) + Len(t)
          /\ \A x \in 1 .. Len(t) : f[i][Len(s) + x] = t[x]
      BY <3>2, Concat
    <3>5. \A x \in 1 .. Len(t) : at[i] + x - 1 = Len(s) + x
      BY <3>3, <3>4
    <3>6. at[i + 1] = at[i] + Len(t) /\ \A x \in 1 .. Len(t) : f[i][at[i] + x - 1] = t[x]
      BY <3>3, <3>4, <3>5
    <3>7. QED BY <3>6 DEF t
  <2>3. QED BY <2>1, <2>2
<1> HIDE DEF at
<1>11. ASSUME NEW i \in 1 .. n, NEW x \in 1 .. Len(seqs[i])
       PROVE  f[n][at[i] + x - 1] = seqs[i][x]
  <2>1. /\ at[i] \in Nat \ {0} /\ Len(f[i]) \in Nat /\ Len(seqs[i]) \in Nat
        /\ at[i + 1] = Len(f[i]) + 1
    BY <1>9
  <2>2. at[i + 1] = at[i] + Len(seqs[i])
    BY <1>10
  <2>3. at[i] + x - 1 \in 1 .. Len(f[i])
    <3> DEFINE a == at[i]
               k == Len(seqs[i])
               l == Len(f[i])
               b == at[i + 1]
    <3>1. a \in Nat \ {0} /\ k \in Nat /\ l \in Nat /\ b = l + 1 /\ b = a + k /\ x \in 1 .. k
      BY <2>1, <2>2
    <3> HIDE DEF a, k, l, b
    <3>2. a + x - 1 \in 1 .. l
      BY <3>1
    <3>3. QED BY <3>2 DEF a, l
  <2>4. QED BY <2>3, <1>7, <1>10
<1>12. n \in 1 .. n /\ f[n] \in Seq(Nat) /\ Len(f[n]) = at[n + 1] - 1
  <2>1. n \in 1 .. n /\ f[n] \in Seq(Nat) /\ Len(f[n]) \in Nat
    BY <1>0, <1>6
  <2>2. at[n + 1] = Len(f[n]) + 1
    BY <2>1, <1>9
  <2>3. QED BY <2>1, <2>2
<1>13. /\ at[1] = 1 /\ \A i \in 1 .. n : at[i + 1] = at[i] + Len(seqs[i])
       /\ f[n] \in Seq(Nat) /\ Len(f[n]) = at[n + 1] - 1
       /\ \A i \in 1 .. n : \A x \in 1 .. Len(seqs[i]) : f[n][at[i] + x - 1] = seqs[i][x]
  BY <1>8, <1>10, <1>11, <1>12
<1>14. QED BY <1>2, <1>8, <1>13 DEF n

-----------------------------------------------------------------------------
(* Through .rodata and back                                                *)

\* p is the function p in BuildStrMem.
Walks(p, blob) ==
    p = [i \in 1 .. Slots + 1 |-> IF i = 1 THEN 1 ELSE p[i - 1] + 1 + blob[p[i - 1]]]

LEMMA BuildStrMemDef ==
    ASSUME NEW blob
    PROVE  BuildStrMem(blob) =
              [i \in Index |-> StringFromRaw(blob, (CHOOSE p : Walks(p, blob))[i])]
BY DEF BuildStrMem, Walks

\* The walk over the lengths comes by the offsets that satisfy its equation.
LEMMA WalkIsAt ==
    ASSUME NEW blob, NEW at \in [1 .. Slots + 1 -> Nat \ {0}],
           at[1] = 1,
           \A i \in Index : at[i + 1] = at[i] + 1 + blob[at[i]]
    PROVE  \A i \in 1 .. Slots + 1 : (CHOOSE p : Walks(p, blob))[i] = at[i]
<1> DEFINE p == CHOOSE p : Walks(p, blob)
<1>0. Slots \in Nat
  BY ElementsAssumption
<1>1. Walks(at, blob)
  <2>1. ASSUME NEW i \in 1 .. Slots + 1
        PROVE  at[i] = IF i = 1 THEN 1 ELSE at[i - 1] + 1 + blob[at[i - 1]]
    <3>1. CASE i = 1
      BY <3>1
    <3>2. CASE i # 1
      <4>1. i - 1 \in Index /\ (i - 1) + 1 = i
        BY <3>2, <1>0 DEF Index
      <4>2. at[(i - 1) + 1] = at[i - 1] + 1 + blob[at[i - 1]]
        BY <4>1
      <4>3. QED BY <3>2, <4>1, <4>2
    <3>3. QED BY <3>1, <3>2
  <2>2. QED BY <2>1 DEF Walks
<1>2. Walks(p, blob)
  BY <1>1
<1> HIDE DEF p
<1>3. \A i \in 1 .. Slots + 1 : p[i] = IF i = 1 THEN 1 ELSE p[i - 1] + 1 + blob[p[i - 1]]
  BY <1>2 DEF Walks
<1> DEFINE Bad == {i \in 1 .. Slots + 1 : p[i] # at[i]}
<1>4. ASSUME Bad # {}
      PROVE  FALSE
  <2>0. Bad \in SUBSET Nat
    BY <1>0
  <2>1. PICK m \in Bad : \A k \in Bad : m <= k
    BY <1>4, <2>0, LeastOf
  <2>2. p[1] = 1
    BY <1>0, <1>3
  <2>3. m # 1
    BY <2>1, <2>2
  <2>4. m - 1 \in Index /\ m - 1 \in 1 .. Slots + 1 /\ m - 1 \notin Bad /\ (m - 1) + 1 = m
    BY <2>1, <2>3, <1>0 DEF Index
  <2>5. p[m - 1] = at[m - 1]
    BY <2>4
  <2>6. at[(m - 1) + 1] = at[m - 1] + 1 + blob[at[m - 1]]
    BY <2>4
  <2>7. p[m] = p[m - 1] + 1 + blob[p[m - 1]]
    BY <2>1, <2>3, <1>3
  <2>8. QED BY <2>1, <2>4, <2>5, <2>6, <2>7
<1>5. QED BY <1>4 DEF p

\* What an array of Strings is rebuilt to: the filled slots, except for empty
\* Strings.
RebuiltStrings(mem, slots) ==
    [i \in Index |-> IF Filled(slots[i]) /\ mem[i] # <<>> THEN mem[i] ELSE Null]

LEMMA StringsRoundTrip ==
    ASSUME NEW mem, NEW slots,
           \A i \in Index : Filled(slots[i]) => mem[i] \in Seq(Nat)
    PROVE  BuildStrMem(Serialize(mem, slots)) = RebuiltStrings(mem, slots)
<1> DEFINE piece(i) == IF Filled(slots[i]) THEN <<Len(mem[i])>> \o mem[i] ELSE <<0>>
           seqs == [i \in Index |-> piece(i)]
           blob == FlattenSeq(seqs)
<1>0. Slots \in Nat
  BY ElementsAssumption
<1>1. Serialize(mem, slots) = blob
  BY DEF Serialize
<1>2. CASE Slots = 0
  <2>1. Index = {}
    BY <1>2 DEF Index
  <2>2. QED BY <1>1, <2>1, BuildStrMemDef DEF RebuiltStrings
<1>3. CASE Slots > 0
  <2>1. ASSUME NEW i \in Index
        PROVE  /\ piece(i) \in Seq(Nat)
               /\ Filled(slots[i]) => /\ Len(mem[i]) \in Nat /\ mem[i] \in Seq(Nat)
                                      /\ Len(piece(i)) = 1 + Len(mem[i])
                                      /\ piece(i)[1] = Len(mem[i])
                                      /\ \A x \in 1 .. Len(mem[i]) : piece(i)[x + 1] = mem[i][x]
               /\ ~Filled(slots[i]) => Len(piece(i)) = 1 /\ piece(i)[1] = 0
    <3>1. CASE Filled(slots[i])
      <4> DEFINE s == <<Len(mem[i])>>
                 t == mem[i]
      <4>1. t \in Seq(Nat) /\ s \in Seq(Nat) /\ Len(s) = 1 /\ s[1] = Len(t)
        BY <3>1
      <4>2. piece(i) = s \o t
        BY <3>1
      <4> HIDE DEF s, t
      <4>3. /\ s \o t \in Seq(Nat) /\ Len(t) \in Nat /\ Len(s \o t) = 1 + Len(t)
            /\ (s \o t)[1] = s[1]
            /\ \A x \in 1 .. Len(t) : (s \o t)[1 + x] = t[x]
        BY <4>1, Concat, SMTT(30)
      <4>4. \A x \in 1 .. Len(t) : x + 1 = 1 + x
        BY <4>3
      <4>5. QED BY <3>1, <4>1, <4>2, <4>3, <4>4 DEF t
    <3>2. CASE ~Filled(slots[i])
      BY <3>2
    <3>3. QED BY <3>1, <3>2
  <2> HIDE DEF piece
  <2>2. seqs \in Seq(Seq(Nat)) /\ Len(seqs) = Slots /\ \A i \in Index : seqs[i] = piece(i)
    BY <2>1, <1>0 DEF Index
  <2> HIDE DEF seqs
  <2>3. PICK at \in [1 .. Slots + 1 -> Nat \ {0}] :
           /\ at[1] = 1
           /\ \A i \in Index : at[i + 1] = at[i] + Len(piece(i))
           /\ blob \in Seq(Nat) /\ Len(blob) = at[Slots + 1] - 1
           /\ \A i \in Index : \A x \in 1 .. Len(piece(i)) : blob[at[i] + x - 1] = piece(i)[x]
    <3>1. Len(seqs) > 0 /\ Index = 1 .. Len(seqs) /\ Slots = Len(seqs)
      BY <2>2, <1>3 DEF Index
    <3>2. PICK at \in [1 .. Len(seqs) + 1 -> Nat \ {0}] :
             /\ at[1] = 1
             /\ \A i \in 1 .. Len(seqs) : at[i + 1] = at[i] + Len(seqs[i])
             /\ FlattenSeq(seqs) \in Seq(Nat)
             /\ Len(FlattenSeq(seqs)) = at[Len(seqs) + 1] - 1
             /\ \A i \in 1 .. Len(seqs) : \A x \in 1 .. Len(seqs[i]) :
                   FlattenSeq(seqs)[at[i] + x - 1] = seqs[i][x]
      BY <2>2, <3>1, FlattenParts
    <3>3. at \in [1 .. Slots + 1 -> Nat \ {0}]
      BY <3>1
    <3>4. \A i \in Index : at[i + 1] = at[i] + Len(piece(i))
      BY <2>2, <3>1, <3>2
    <3>5. \A i \in Index : \A x \in 1 .. Len(piece(i)) :
             FlattenSeq(seqs)[at[i] + x - 1] = piece(i)[x]
      BY <2>2, <3>1, <3>2, SMTT(30)
    <3>6. QED BY <3>1, <3>2, <3>3, <3>4, <3>5
  <2> HIDE DEF blob
  <2>4. ASSUME NEW i \in Index
        PROVE  /\ blob[at[i]] = piece(i)[1] /\ Len(piece(i)) = 1 + piece(i)[1]
               /\ at[i] \in Nat \ {0} /\ at[i + 1] = at[i] + 1 + blob[at[i]]
    <3>1. at[i] \in Nat \ {0} /\ at[i] + 1 - 1 = at[i]
      BY <1>0 DEF Index
    <3>2. Len(piece(i)) \in Nat /\ 1 \in 1 .. Len(piece(i)) /\ Len(piece(i)) = 1 + piece(i)[1]
          /\ piece(i)[1] \in Nat
      <4>1. CASE Filled(slots[i])
        <5> DEFINE k == Len(mem[i])
                   l == Len(piece(i))
        <5>1. k \in Nat /\ l = 1 + k /\ piece(i)[1] = k
          BY <4>1, <2>1
        <5> HIDE DEF k, l
        <5>2. l \in Nat /\ 1 \in 1 .. l /\ l = 1 + piece(i)[1] /\ piece(i)[1] \in Nat
          BY <5>1
        <5>3. QED BY <5>2 DEF l
      <4>2. CASE ~Filled(slots[i])
        <5>1. Len(piece(i)) = 1 /\ piece(i)[1] = 0
          BY <4>2, <2>1
        <5>2. QED BY <5>1
      <4>3. QED BY <4>1, <4>2
    <3>3. blob[at[i] + 1 - 1] = piece(i)[1]
      BY <2>3, <3>2
    <3>4. blob[at[i]] = piece(i)[1]
      BY <3>1, <3>3
    <3>5. at[i + 1] = at[i] + Len(piece(i))
      BY <2>3
    <3>6. QED BY <3>1, <3>2, <3>4, <3>5
  <2>5. \A i \in 1 .. Slots + 1 : (CHOOSE p : Walks(p, blob))[i] = at[i]
    <3>1. \A i \in Index : at[i + 1] = at[i] + 1 + blob[at[i]]
      BY <2>4
    <3>2. at \in [1 .. Slots + 1 -> Nat \ {0}] /\ at[1] = 1
      BY <2>3
    <3> HIDE DEF Index
    <3>3. QED BY <3>1, <3>2, WalkIsAt
  <2>6. ASSUME NEW i \in Index
        PROVE  StringFromRaw(blob, at[i]) =
                  IF Filled(slots[i]) /\ mem[i] # <<>> THEN mem[i] ELSE Null
    <3>1. CASE ~Filled(slots[i])
      BY <3>1, <2>1, <2>4 DEF StringFromRaw
    <3>2. CASE Filled(slots[i]) /\ mem[i] = <<>>
      BY <3>2, <2>1, <2>4 DEF StringFromRaw
    <3>3. CASE Filled(slots[i]) /\ mem[i] # <<>>
      <4> DEFINE t == mem[i]
      <4>1. t \in Seq(Nat) /\ Len(t) \in Nat /\ blob[at[i]] = Len(t) /\ at[i] \in Nat \ {0}
            /\ Len(piece(i)) = 1 + Len(t)
            /\ \A x \in 1 .. Len(t) : piece(i)[x + 1] = t[x]
        BY <3>3, <2>1, <2>4
      <4>2. Len(t) # 0
        BY <3>3
      <4>3. StringFromRaw(blob, at[i]) = SubSeq(blob, at[i] + 1, at[i] + Len(t))
        BY <4>1, <4>2 DEF StringFromRaw
      <4>4. \A x \in 1 .. Len(t) : blob[at[i] + x] = t[x]
        <5>1. \A x \in 1 .. Len(t) : x + 1 \in 1 .. Len(piece(i)) /\ at[i] + (x + 1) - 1 = at[i] + x
          BY <4>1, SMTT(30)
        <5>2. \A x \in 1 .. Len(t) : blob[at[i] + (x + 1) - 1] = piece(i)[x + 1]
          BY <5>1, <2>3
        <5>3. QED BY <4>1, <5>1, <5>2
      <4> HIDE DEF t
      <4>5. SubSeq(blob, at[i] + 1, at[i] + Len(t)) = t
        <5> DEFINE a == at[i]
        <5>1. a \in Nat
          BY <4>1
        <5> HIDE DEF a
        <5>2. SubSeq(blob, a + 1, a + Len(t)) = [x \in 1 .. Len(t) |-> blob[a + x]]
          BY <5>1, <4>1
        <5>3. t = [x \in 1 .. Len(t) |-> t[x]]
          BY <4>1
        <5>4. QED BY <5>2, <5>3, <4>4 DEF a
      <4>6. QED BY <3>3, <4>3, <4>5 DEF t
    <3>4. QED BY <3>1, <3>2, <3>3
  <2>7. Index \subseteq 1 .. Slots + 1
    BY <1>0 DEF Index
  <2>8. BuildStrMem(blob) = [i \in Index |-> StringFromRaw(blob, at[i])]
    <3> DEFINE p == CHOOSE p : Walks(p, blob)
    <3>1. BuildStrMem(blob) = [i \in Index |-> StringFromRaw(blob, p[i])]
      BY BuildStrMemDef
    <3>2. \A i \in Index : p[i] = at[i]
      BY <2>5, <2>7
    <3> HIDE DEF p
    <3>3. QED BY <3>1, <3>2
  <2>9. QED BY <1>1, <2>6, <2>8 DEF RebuiltStrings
<1>4. QED BY <1>0, <1>2, <1>3

\* An array of bits values is aliased: nothing changes, garbage included.
LEMMA BitsRoundTrip ==
    ASSUME NEW mem \in [Index -> Bits]
    PROVE  Alias(FlattenSeq(mem)) = mem
<1>0. Slots \in Nat /\ Bits \subseteq Seq(Nat) /\ \A e \in Bits : Len(e) = 1
  BY ElementsAssumption
<1>1. CASE Slots = 0
  <2>1. Index = {}
    BY <1>1 DEF Index
  <2>2. QED BY <2>1 DEF Alias
<1>2. CASE Slots > 0
  <2>1. /\ mem \in Seq(Seq(Nat)) /\ Len(mem) = Slots /\ Len(mem) > 0
        /\ \A i \in 1 .. Len(mem) : mem[i] \in Seq(Nat) /\ Len(mem[i]) = 1
    BY <1>0, <1>2 DEF Index
  <2>2. PICK at \in [1 .. Len(mem) + 1 -> Nat \ {0}] :
           /\ at[1] = 1
           /\ \A i \in 1 .. Len(mem) : at[i + 1] = at[i] + Len(mem[i])
           /\ \A i \in 1 .. Len(mem) : \A x \in 1 .. Len(mem[i]) :
                 FlattenSeq(mem)[at[i] + x - 1] = mem[i][x]
    BY <2>1, FlattenParts
  <2> DEFINE Bad == {i \in 1 .. Slots : at[i] # i}
  <2>3. ASSUME Bad # {}
        PROVE  FALSE
    <3>0. Bad \in SUBSET Nat
      BY <1>0
    <3>1. PICK m \in Bad : \A k \in Bad : m <= k
      BY <2>3, <3>0, LeastOf
    <3>2. m # 1
      BY <3>1, <2>2
    <3>3. m - 1 \in 1 .. Slots /\ m - 1 \notin Bad /\ (m - 1) + 1 = m
      BY <3>1, <3>2, <1>0
    <3>4. at[(m - 1) + 1] = at[m - 1] + 1
      BY <3>3, <2>1, <2>2
    <3>5. QED BY <3>1, <3>3, <3>4
  <2>4. ASSUME NEW i \in Index
        PROVE  <<FlattenSeq(mem)[i]>> = mem[i]
    <3>1. at[i] = i /\ i \in Nat
      BY <2>3, <1>0 DEF Index
    <3>2. i \in 1 .. Len(mem) /\ 1 \in 1 .. Len(mem[i]) /\ at[i] + 1 - 1 = i
      <4>1. i \in 1 .. Len(mem)
        BY <2>1 DEF Index
      <4>2. 1 \in 1 .. Len(mem[i])
        <5>1. Len(mem[i]) = 1
          BY <4>1, <2>1
        <5>2. QED BY <5>1
      <4>3. QED BY <3>1, <4>1, <4>2
    <3>3. FlattenSeq(mem)[at[i] + 1 - 1] = mem[i][1]
      BY <3>2, <2>2
    <3>4. mem[i] \in Seq(Nat) /\ Len(mem[i]) = 1
      BY <3>2, <2>1
    <3>5. mem[i] = <<mem[i][1]>>
      BY <3>4
    <3>6. QED BY <3>2, <3>3, <3>5
  <2>5. QED BY <2>4 DEF Alias
<1>3. QED BY <1>0, <1>1, <1>2

-----------------------------------------------------------------------------
(* The inductive invariant                                                 *)

\* The Dict in Julia: a filled slot has a key and a value, no key fills two
\* slots, and an array of bits values has no null in it.
HostOK ==
    /\ keyIsStr \in BOOLEAN /\ valIsStr \in BOOLEAN
    /\ host \in Table(Keys, Vals)
    /\ \A i \in Index : Filled(host.slots[i]) => host.keys[i] \in Keys /\ host.vals[i] \in Vals
    /\ ~keyIsStr => host.keys \in [Index -> Bits]
    /\ ~valIsStr => host.vals \in [Index -> Bits]
    /\ \A i, j \in Index :
          Filled(host.slots[i]) /\ Filled(host.slots[j]) /\ host.keys[i] = host.keys[j] => i = j

\* What _emit_dict_const makes of an array, and what it comes back as.
EmittedArray(isStr, mem) == IF isStr THEN Serialize(mem, host.slots) ELSE FlattenSeq(mem)
RebuiltArray(isStr, mem) == IF isStr THEN RebuiltStrings(mem, host.slots) ELSE mem

RodataOK ==
    phase = "emitted" =>
        rodata = [slots |-> host.slots,
                  keys |-> EmittedArray(keyIsStr, host.keys),
                  vals |-> EmittedArray(valIsStr, host.vals)]

\* The rebuilt Dict is Julia's Dict, but for what an array of Strings held in
\* slots that are not filled, and for empty Strings.
DictOK ==
    phase \in {"built", "found", "got"} =>
        dict = [slots |-> host.slots,
                keys |-> RebuiltArray(keyIsStr, host.keys),
                vals |-> RebuiltArray(valIsStr, host.vals)]

\* No entry of the Dict has the empty String as its key or its value.
NoEmptyString ==
    \A i \in Index : Filled(host.slots[i]) => host.keys[i] # <<>> /\ host.vals[i] # <<>>

AnswerOK ==
    /\ phase \in {"host", "emitted", "built", "found", "got"}
    /\ phase \in {"found", "got"} => key \in Keys /\ answer \in Vals \cup {Null, Missing, Crash}
    /\ phase = "found" /\ NoEmptyString => answer = Expected(key)
    /\ phase = "got" /\ ~keyIsStr => answer = Expected(key)

DictsInv ==
    /\ HostOK
    /\ RodataOK
    /\ DictOK
    /\ AnswerOK

\* No element is one of the markers.
LEMMA Elements ==
    /\ Null \notin Keys /\ Null \notin Vals
    /\ ~keyIsStr => Keys = Bits
    /\ ~valIsStr => Vals = Bits
    /\ \A e \in Keys \cup Vals : e \in Seq(Nat)
BY ElementsAssumption DEF Keys, Vals

LEMMA DictsInitInv == Init => DictsInv
<1> SUFFICES ASSUME Init
             PROVE  DictsInv
  OBVIOUS
<1>1. keyIsStr \in BOOLEAN /\ valIsStr \in BOOLEAN /\ phase = "host"
  BY DEF Init
<1>2. PICK k \in Bits, v \in Bits :
         host = [slots |-> [i \in Index |-> Empty],
                 keys |-> Blank(keyIsStr, k), vals |-> Blank(valIsStr, v)]
  BY DEF Init
<1>3. \A i \in Index : ~Filled(host.slots[i])
  BY <1>2 DEF Filled, Empty
<1>4. host.keys = Blank(keyIsStr, k) /\ host.vals = Blank(valIsStr, v)
  BY <1>2
<1>5. host.slots \in [Index -> {Empty, Deleted, Occupied}]
  BY <1>2
<1>6. /\ Blank(keyIsStr, k) \in [Index -> Keys \cup {Null}]
      /\ ~keyIsStr => Blank(keyIsStr, k) \in [Index -> Bits]
  BY <1>1 DEF Blank, Keys
<1>7. /\ Blank(valIsStr, v) \in [Index -> Vals \cup {Null}]
      /\ ~valIsStr => Blank(valIsStr, v) \in [Index -> Bits]
  BY <1>1 DEF Blank, Vals
<1>8. host \in Table(Keys, Vals)
  BY <1>2, <1>5, <1>6, <1>7 DEF Table
<1>9. HostOK
  BY <1>1, <1>3, <1>4, <1>6, <1>7, <1>8 DEF HostOK
<1>10. QED BY <1>1, <1>9 DEF DictsInv, RodataOK, DictOK, AnswerOK

\* An insertion reuses the slot of its key or takes a free one when no slot
\* has the key.
LEMMA SetIndexInv ==
    ASSUME DictsInv, NEW k \in Keys, NEW v \in Vals, SetIndex(k, v)
    PROVE  DictsInv'
<1>1. PICK i \in Index :
         /\ \/ Holds(host, k, i)
            \/ ~Filled(host.slots[i]) /\ \A j \in Index : ~Holds(host, k, j)
         /\ host' = [slots |-> [host.slots EXCEPT ![i] = Occupied],
                     keys |-> [host.keys EXCEPT ![i] = k],
                     vals |-> [host.vals EXCEPT ![i] = v]]
  BY DEF SetIndex
<1>2. /\ UNCHANGED <<keyIsStr, valIsStr, rodata, dict, phase, key, answer>> /\ phase = "host"
  BY DEF SetIndex
<1>3. HostOK
  BY DEF DictsInv
<1>4. /\ host.slots \in [Index -> {Empty, Deleted, Occupied}]
      /\ host.keys \in [Index -> Keys \cup {Null}]
      /\ host.vals \in [Index -> Vals \cup {Null}]
  BY <1>3 DEF HostOK, Table
<1>5. /\ host'.slots = [host.slots EXCEPT ![i] = Occupied]
      /\ host'.keys = [host.keys EXCEPT ![i] = k]
      /\ host'.vals = [host.vals EXCEPT ![i] = v]
  BY <1>1
<1>6. Keys' = Keys /\ Vals' = Vals
  BY <1>2 DEF Keys, Vals
<1>7. host' \in Table(Keys', Vals')
  BY <1>1, <1>4, <1>6 DEF Table
<1>8. \A j \in Index : Filled(host'.slots[j]) =>
         j = i \/ (Filled(host.slots[j]) /\ host'.keys[j] = host.keys[j] /\ host'.vals[j] = host.vals[j])
  BY <1>4, <1>5
<1>9. host'.keys[i] = k /\ host'.vals[i] = v
  BY <1>4, <1>5
<1>10. \A j \in Index : Filled(host'.slots[j]) => host'.keys[j] \in Keys /\ host'.vals[j] \in Vals
  BY <1>3, <1>8, <1>9 DEF HostOK
<1>11. /\ ~keyIsStr => host'.keys \in [Index -> Bits]
       /\ ~valIsStr => host'.vals \in [Index -> Bits]
  BY <1>3, <1>5, Elements DEF HostOK
<1>12. ASSUME NEW j \in Index, Filled(host.slots[j]), host.keys[j] = k
       PROVE  j = i
  BY <1>1, <1>3, <1>12 DEF Holds, HostOK
<1>13. \A j, l \in Index :
          Filled(host'.slots[j]) /\ Filled(host'.slots[l]) /\ host'.keys[j] = host'.keys[l] => j = l
  BY <1>3, <1>8, <1>9, <1>12 DEF HostOK
<1>14. HostOK'
  BY <1>2, <1>3, <1>6, <1>7, <1>10, <1>11, <1>13 DEF HostOK, Index
<1>15. QED BY <1>2, <1>14 DEF DictsInv, RodataOK, DictOK, AnswerOK

LEMMA DeleteInv ==
    ASSUME DictsInv, NEW k \in Keys, Delete(k)
    PROVE  DictsInv'
<1>1. PICK i \in Index, s \in {Empty, Deleted} :
         host' = [slots |-> [host.slots EXCEPT ![i] = s],
                  keys |-> IF keyIsStr THEN [host.keys EXCEPT ![i] = Null]
                           ELSE host.keys,
                  vals |-> IF valIsStr THEN [host.vals EXCEPT ![i] = Null]
                           ELSE host.vals]
  BY DEF Delete
<1>2. /\ UNCHANGED <<keyIsStr, valIsStr, rodata, dict, phase, key, answer>> /\ phase = "host"
  BY DEF Delete
<1>3. HostOK
  BY DEF DictsInv
<1>4. /\ host.slots \in [Index -> {Empty, Deleted, Occupied}]
      /\ host.keys \in [Index -> Keys \cup {Null}]
      /\ host.vals \in [Index -> Vals \cup {Null}]
  BY <1>3 DEF HostOK, Table
<1>5. /\ host'.slots = [host.slots EXCEPT ![i] = s]
      /\ host'.keys = IF keyIsStr THEN [host.keys EXCEPT ![i] = Null] ELSE host.keys
      /\ host'.vals = IF valIsStr THEN [host.vals EXCEPT ![i] = Null] ELSE host.vals
  BY <1>1
<1>6. Keys' = Keys /\ Vals' = Vals
  BY <1>2 DEF Keys, Vals
<1>7. /\ host'.slots \in [Index -> {Empty, Deleted, Occupied}]
      /\ host'.keys \in [Index -> Keys \cup {Null}]
      /\ host'.vals \in [Index -> Vals \cup {Null}]
  BY <1>4, <1>5
<1>8. host' \in Table(Keys', Vals')
  BY <1>1, <1>5, <1>6, <1>7 DEF Table
<1>9. ~Filled(s)
  BY DEF Filled, Empty, Deleted
<1>10. \A j \in Index : Filled(host'.slots[j]) =>
          j # i /\ Filled(host.slots[j]) /\ host'.keys[j] = host.keys[j] /\ host'.vals[j] = host.vals[j]
  BY <1>4, <1>5, <1>9
<1>11. /\ ~keyIsStr => host'.keys \in [Index -> Bits]
       /\ ~valIsStr => host'.vals \in [Index -> Bits]
  BY <1>3, <1>5 DEF HostOK
<1>12. /\ \A j \in Index : Filled(host'.slots[j]) => host'.keys[j] \in Keys /\ host'.vals[j] \in Vals
       /\ \A j, l \in Index :
             Filled(host'.slots[j]) /\ Filled(host'.slots[l]) /\ host'.keys[j] = host'.keys[l] => j = l
  BY <1>3, <1>10 DEF HostOK
<1>13. HostOK'
  BY <1>2, <1>3, <1>6, <1>8, <1>11, <1>12 DEF HostOK, Index
<1>14. QED BY <1>2, <1>13 DEF DictsInv, RodataOK, DictOK, AnswerOK

LEMMA EmitInv ==
    ASSUME DictsInv, Emit
    PROVE  DictsInv'
<1>1. /\ UNCHANGED <<keyIsStr, valIsStr, host, dict, key, answer>>
      /\ phase' = "emitted"
      /\ rodata' = [slots |-> host.slots,
                    keys |-> EmittedArray(keyIsStr, host.keys),
                    vals |-> EmittedArray(valIsStr, host.vals)]
  BY DEF Emit, EmittedArray
<1>2. HostOK'
  BY <1>1 DEF DictsInv, HostOK, Keys, Vals
<1>3. RodataOK'
  BY <1>1 DEF RodataOK, EmittedArray
<1>4. QED BY <1>1, <1>2, <1>3 DEF DictsInv, DictOK, AnswerOK

LEMMA BuildInv ==
    ASSUME DictsInv, Build
    PROVE  DictsInv'
<1>1. /\ UNCHANGED <<keyIsStr, valIsStr, host, rodata, key, answer>>
      /\ phase = "emitted" /\ phase' = "built"
      /\ dict' = [slots |-> rodata.slots,
                  keys |-> IF keyIsStr THEN BuildStrMem(rodata.keys)
                           ELSE Alias(rodata.keys),
                  vals |-> IF valIsStr THEN BuildStrMem(rodata.vals)
                           ELSE Alias(rodata.vals)]
  BY DEF Build
<1>2. HostOK /\ keyIsStr \in BOOLEAN /\ valIsStr \in BOOLEAN
  BY DEF DictsInv, HostOK
<1>3. /\ rodata.slots = host.slots
      /\ rodata.keys = EmittedArray(keyIsStr, host.keys)
      /\ rodata.vals = EmittedArray(valIsStr, host.vals)
  BY <1>1 DEF DictsInv, RodataOK
<1>4. ASSUME NEW isStr \in BOOLEAN, NEW mem,
             isStr => \A i \in Index : Filled(host.slots[i]) => mem[i] \in Seq(Nat),
             ~isStr => mem \in [Index -> Bits]
      PROVE  (IF isStr THEN BuildStrMem(EmittedArray(isStr, mem))
              ELSE Alias(EmittedArray(isStr, mem))) = RebuiltArray(isStr, mem)
  <2>1. CASE isStr
    BY <2>1, <1>4, StringsRoundTrip DEF EmittedArray, RebuiltArray
  <2>2. CASE ~isStr
    BY <2>2, <1>4, BitsRoundTrip DEF EmittedArray, RebuiltArray
  <2>3. QED BY <2>1, <2>2
<1>5. dict'.keys = RebuiltArray(keyIsStr, host.keys)
  <2>1. /\ keyIsStr => \A i \in Index : Filled(host.slots[i]) => host.keys[i] \in Seq(Nat)
        /\ ~keyIsStr => host.keys \in [Index -> Bits]
    BY <1>2, Elements DEF HostOK
  <2>2. dict'.keys = IF keyIsStr THEN BuildStrMem(EmittedArray(keyIsStr, host.keys))
                     ELSE Alias(EmittedArray(keyIsStr, host.keys))
    BY <1>1, <1>3
  <2>3. QED BY <1>2, <1>4, <2>1, <2>2
<1>6. dict'.vals = RebuiltArray(valIsStr, host.vals)
  <2>1. /\ valIsStr => \A i \in Index : Filled(host.slots[i]) => host.vals[i] \in Seq(Nat)
        /\ ~valIsStr => host.vals \in [Index -> Bits]
    BY <1>2, Elements DEF HostOK
  <2>2. dict'.vals = IF valIsStr THEN BuildStrMem(EmittedArray(valIsStr, host.vals))
                     ELSE Alias(EmittedArray(valIsStr, host.vals))
    BY <1>1, <1>3
  <2>3. QED BY <1>2, <1>4, <2>1, <2>2
<1>7. dict' = [slots |-> host.slots,
               keys |-> RebuiltArray(keyIsStr, host.keys),
               vals |-> RebuiltArray(valIsStr, host.vals)]
  BY <1>1, <1>3, <1>5, <1>6
<1>8. HostOK'
  BY <1>1 DEF DictsInv, HostOK, Keys, Vals
<1>9. DictOK'
  BY <1>1, <1>7 DEF DictOK, RebuiltArray, RebuiltStrings
<1>10. QED BY <1>1, <1>8, <1>9 DEF DictsInv, RodataOK, AnswerOK

\* What DictOK says of the slots.
LEMMA DictSlots ==
    ASSUME DictsInv, phase \in {"built", "found", "got"}
    PROVE  \A i \in Index :
              /\ dict.slots[i] = host.slots[i]
              /\ dict.keys[i] \in Keys \cup {Null} /\ dict.vals[i] \in Vals \cup {Null}
              /\ NoEmptyString /\ Filled(host.slots[i]) =>
                    dict.keys[i] = host.keys[i] /\ dict.vals[i] = host.vals[i]
<1>1. /\ dict.slots = host.slots
      /\ dict.keys = RebuiltArray(keyIsStr, host.keys)
      /\ dict.vals = RebuiltArray(valIsStr, host.vals)
  BY DEF DictsInv, DictOK
<1>2. HostOK
  BY DEF DictsInv
<1>3. \A i \in Index :
         /\ ~keyIsStr => host.keys[i] \in Keys
         /\ ~valIsStr => host.vals[i] \in Vals
         /\ Filled(host.slots[i]) => host.keys[i] \in Keys /\ host.vals[i] \in Vals
  BY <1>2, Elements DEF HostOK
<1>4. QED BY <1>1, <1>2, <1>3 DEF HostOK, RebuiltArray, RebuiltStrings, NoEmptyString

\* One slot at most has a key, so it does not matter which of them is taken.
LEMMA OneSlot ==
    ASSUME DictsInv, NEW k \in Keys, NEW i \in Index, Holds(host, k, i)
    PROVE  /\ {j \in Index : Holds(host, k, j)} = {i}
           /\ Expected(k) = host.vals[i]
<1>1. \A j \in Index : Holds(host, k, j) => j = i
  BY DEF DictsInv, HostOK, Holds
<1>2. (CHOOSE j \in Index : Holds(host, k, j)) = i
  BY <1>1
<1>3. QED BY <1>1, <1>2 DEF Expected

LEMMA Singleton ==
    ASSUME NEW i \in Int
    PROVE  Min({i}) = i /\ Max({i}) = i
BY DEF Min, Max

\* The scan ends at the key's slot or finds nothing; only an empty String in
\* the Dict makes it read at null.
LEMMA ScanFaithful ==
    ASSUME DictsInv, phase \in {"built", "found", "got"}, NEW k \in Keys, NoEmptyString
    PROVE  Scan(k) = Expected(k)
<1> DEFINE stops == {i \in Index : Holds(dict, k, i) \/ Holds(dict, Null, i)}
<1>1. \A i \in Index : Filled(host.slots[i]) => host.keys[i] \in Keys
  BY DEF DictsInv, HostOK
<1>2. \A i \in Index : ~Holds(dict, Null, i) /\ (Holds(dict, k, i) <=> Holds(host, k, i))
  BY <1>1, DictSlots, Elements DEF Holds
<1>3. stops = {i \in Index : Holds(host, k, i)}
  BY <1>2
<1>4. CASE \E i \in Index : Holds(host, k, i)
  <2>1. PICK i \in Index : Holds(host, k, i)
    BY <1>4
  <2>2. stops = {i} /\ Expected(k) = host.vals[i]
    BY <1>3, <2>1, OneSlot
  <2>3. Min(stops) = i /\ stops # {}
    BY <2>2, Singleton DEF Index
  <2>4. dict.keys[i] # Null /\ dict.vals[i] = host.vals[i]
    BY <1>1, <2>1, DictSlots, Elements DEF Holds
  <2>5. QED BY <2>2, <2>3, <2>4 DEF Scan
<1>5. CASE ~\E i \in Index : Holds(host, k, i)
  BY <1>3, <1>5 DEF Scan, Expected
<1>6. QED BY <1>4, <1>5

LEMMA ScanType ==
    ASSUME DictsInv, phase \in {"built", "found", "got"}, NEW k \in Keys
    PROVE  Scan(k) \in Vals \cup {Null, Missing, Crash}
<1> DEFINE stops == {i \in Index : Holds(dict, k, i) \/ Holds(dict, Null, i)}
<1>1. CASE stops = {}
  BY <1>1 DEF Scan
<1>2. CASE stops # {}
  <2>1. stops \in SUBSET Nat
    BY ElementsAssumption DEF Index
  <2>2. Min(stops) \in Index
    BY <1>2, <2>1, MinIn
  <2>3. dict.vals[Min(stops)] \in Vals \cup {Null}
    BY <2>2, DictSlots
  <2>4. QED BY <1>2, <2>3 DEF Scan
<1>3. QED BY <1>1, <1>2

LEMMA GetIndexInv ==
    ASSUME DictsInv, NEW k \in Keys, GetIndex(k)
    PROVE  DictsInv'
<1>1. /\ UNCHANGED <<keyIsStr, valIsStr, host, rodata, dict>>
      /\ phase \in {"built", "found", "got"} /\ phase' = "found"
      /\ key' = k /\ answer' = Scan(k)
  BY DEF GetIndex
<1>2. Keys' = Keys /\ Vals' = Vals /\ Expected(k)' = Expected(k) /\ NoEmptyString' = NoEmptyString
  BY <1>1 DEF Keys, Vals, Expected, NoEmptyString, Holds, Index
<1>3. HostOK' /\ RodataOK' /\ DictOK'
  BY <1>1, <1>2 DEF DictsInv, HostOK, RodataOK, DictOK, RebuiltArray, RebuiltStrings, Index
<1>4. NoEmptyString => answer' = Expected(k)
  BY <1>1, ScanFaithful
<1>5. answer' \in Vals \cup {Null, Missing, Crash}
  BY <1>1, ScanType
<1>6. (NoEmptyString => answer = Expected(key))'
  BY <1>1, <1>2, <1>4 DEF Expected, Holds, NoEmptyString, Index
<1>7. AnswerOK'
  BY <1>1, <1>2, <1>5, <1>6 DEF AnswerOK
<1>8. QED BY <1>3, <1>7 DEF DictsInv

\* Of the selects that get is unrolled to at most one takes effect.
LEMMA SelectsFaithful ==
    ASSUME DictsInv, NEW k \in Keys, NEW same \in BOOLEAN
    PROVE  /\ Selects(k, same) \in Vals \cup {Missing}
           /\ ~keyIsStr => Selects(k, same) = Expected(k)
<1> DEFINE hits == {i \in Index : Holds(host, k, i) /\ (keyIsStr => same)}
<1>1. CASE hits = {}
  <2>1. Selects(k, same) = Missing
    BY <1>1 DEF Selects
  <2>2. ~keyIsStr => Expected(k) = Missing
    BY <1>1 DEF Expected
  <2>3. QED BY <2>1, <2>2
<1>2. CASE hits # {}
  <2>1. PICK i \in Index : Holds(host, k, i) /\ (keyIsStr => same)
    BY <1>2
  <2>2. {j \in Index : Holds(host, k, j)} = {i} /\ Expected(k) = host.vals[i]
    BY <2>1, OneSlot
  <2>3. hits = {i}
    BY <2>1, <2>2
  <2>4. Max(hits) = i
    BY <2>3, Singleton, SMTT(30) DEF Index
  <2>5. Selects(k, same) = host.vals[i]
    BY <1>2, <2>4 DEF Selects
  <2>6. host.vals[i] \in Vals
    BY <2>1 DEF DictsInv, HostOK, Holds
  <2>7. QED BY <2>2, <2>5, <2>6
<1>3. QED BY <1>1, <1>2

LEMMA GetInv ==
    ASSUME DictsInv, NEW k \in Keys, Get(k)
    PROVE  DictsInv'
<1>1. PICK same \in BOOLEAN : answer' = Selects(k, same)
  BY DEF Get
<1>2. /\ UNCHANGED <<keyIsStr, valIsStr, host, rodata, dict>>
      /\ phase \in {"built", "found", "got"} /\ phase' = "got" /\ key' = k
  BY DEF Get
<1>3. Keys' = Keys /\ Vals' = Vals
  BY <1>2 DEF Keys, Vals
<1>4. HostOK' /\ RodataOK' /\ DictOK'
  BY <1>2, <1>3 DEF DictsInv, HostOK, RodataOK, DictOK, RebuiltArray, RebuiltStrings, Index
<1>5. /\ answer' \in Vals \cup {Null, Missing, Crash}
      /\ ~keyIsStr => answer' = Expected(k)
  BY <1>1, SelectsFaithful
<1>6. (~keyIsStr => answer = Expected(key))'
  BY <1>2, <1>5 DEF Expected, Holds, Index
<1>7. AnswerOK'
  BY <1>2, <1>3, <1>5, <1>6 DEF AnswerOK
<1>8. QED BY <1>4, <1>7 DEF DictsInv

LEMMA StutterInv ==
    ASSUME DictsInv, UNCHANGED vars
    PROVE  DictsInv'
BY DEF vars, DictsInv, HostOK, RodataOK, DictOK, AnswerOK, Keys, Vals, EmittedArray, RebuiltArray,
    RebuiltStrings, NoEmptyString, Expected, Holds

LEMMA DictsStepInv == DictsInv /\ [Next]_vars => DictsInv'
<1> SUFFICES ASSUME DictsInv, [Next]_vars
             PROVE  DictsInv'
  OBVIOUS
<1>1. CASE \E k \in Keys, v \in Vals : SetIndex(k, v)
  BY <1>1, SetIndexInv
<1>2. CASE \E k \in Keys : Delete(k)
  BY <1>2, DeleteInv
<1>3. CASE Emit
  BY <1>3, EmitInv
<1>4. CASE Build
  BY <1>4, BuildInv
<1>5. CASE \E k \in Keys : GetIndex(k)
  BY <1>5, GetIndexInv
<1>6. CASE \E k \in Keys : Get(k)
  BY <1>6, GetInv
<1>7. CASE UNCHANGED vars
  BY <1>7, StutterInv
<1>8. QED BY <1>1, <1>2, <1>3, <1>4, <1>5, <1>6, <1>7 DEF Next

THEOREM DictsInvariance == Spec => []DictsInv
BY DictsInitInv, DictsStepInv, PTL DEF Spec

-----------------------------------------------------------------------------
(* What follows                                                            *)

\* The rebuilt Dict is a Dict of the same type, with or without empty Strings,
\* and a search gives a value, nothing, or reads at null.
THEOREM DictsTypeCorrect == Spec => []TypeOK
<1>1. ASSUME DictsInv
      PROVE  TypeOK
  <2>1. HostOK /\ DictOK /\ AnswerOK
    BY <1>1 DEF DictsInv
  <2>2. ASSUME phase \in {"built", "found", "got"}
        PROVE  dict \in Table(Keys, Vals)
    <3>1. \A i \in Index :
             dict.keys[i] \in Keys \cup {Null} /\ dict.vals[i] \in Vals \cup {Null}
      BY <1>1, <2>2, DictSlots
    <3>2. /\ host.slots \in [Index -> {Empty, Deleted, Occupied}]
          /\ host.keys \in [Index -> Keys \cup {Null}]
          /\ host.vals \in [Index -> Vals \cup {Null}]
      BY <2>1 DEF HostOK, Table
    <3>3. dict = [slots |-> host.slots,
                  keys |-> RebuiltArray(keyIsStr, host.keys),
                  vals |-> RebuiltArray(valIsStr, host.vals)]
      BY <2>1, <2>2 DEF DictOK
    <3>4. /\ RebuiltArray(keyIsStr, host.keys) \in [Index -> Keys \cup {Null}]
          /\ RebuiltArray(valIsStr, host.vals) \in [Index -> Vals \cup {Null}]
      BY <3>1, <3>2, <3>3 DEF RebuiltArray, RebuiltStrings
    <3>5. QED BY <3>2, <3>3, <3>4 DEF Table
  <2>3. QED BY <2>1, <2>2 DEF TypeOK, HostOK, AnswerOK
<1>2. QED BY <1>1, DictsInvariance, PTL

\* A lookup in a Dict that stores no empty String gives what Julia's Dict has,
\* whatever was inserted and deleted before and however keys are hashed.
THEOREM LookupsFaithful == Spec => [](NoEmptyString => LookupFaithful)
<1>1. DictsInv => (NoEmptyString => LookupFaithful)
  BY DEF DictsInv, AnswerOK, LookupFaithful
<1>2. QED BY <1>1, DictsInvariance, PTL

\* So every lookup is faithful where the empty String is no element at all.
THEOREM AllLookupsFaithful ==
    ASSUME <<>> \notin Strings
    PROVE  Spec => []LookupFaithful
<1>1. \A e \in Bits : e # <<>>
  BY ElementsAssumption
<1>2. DictsInv => LookupFaithful
  <2>1. <<>> \notin Keys \cup Vals
    BY <1>1 DEF Keys, Vals
  <2>2. DictsInv => NoEmptyString
    BY <2>1 DEF DictsInv, HostOK, NoEmptyString
  <2>3. QED BY <2>2 DEF DictsInv, AnswerOK, LookupFaithful
<1>3. QED BY <1>2, DictsInvariance, PTL

-----------------------------------------------------------------------------
(* 2. Integers                                                             *)

(* Numbers below a bound, and recursions over them                         *)

\* What holds of 0 and passes from each number to the next, up to n, holds of
\* all of them.  H is the set of the numbers it holds of.
LEMMA UpTo ==
    ASSUME NEW n \in Nat, NEW H, 0 \in H, \A j \in 0 .. n - 1 : j \in H => j + 1 \in H
    PROVE  \A j \in 0 .. n : j \in H
<1> DEFINE Bad == {j \in 0 .. n : j \notin H}
<1>1. ASSUME Bad # {}
      PROVE  FALSE
  <2>1. Bad \in SUBSET Nat
    OBVIOUS
  <2>2. PICK m \in Bad : \A k \in Bad : m <= k
    BY <1>1, <2>1, LeastOf
  <2>3. m # 0
    BY <2>2
  <2>4. m - 1 \in 0 .. n - 1 /\ m - 1 \notin Bad
    BY <2>2, <2>3
  <2>5. (m - 1) + 1 \in H
    BY <2>4
  <2>6. QED BY <2>2, <2>5
<1>2. QED BY <1>1

\* s is c at 0 and a multiple of the value before plus a number after that.
Recurs(s, n, c, b, F) == s = [j \in 0 .. n |-> IF j = 0 THEN c ELSE b * s[j - 1] + F[j - 1]]

LEMMA RecurExists ==
    ASSUME NEW n \in Nat, NEW c \in Nat, NEW b \in Nat, NEW F, \A j \in 0 .. n - 1 : F[j] \in Nat
    PROVE  \E s \in [0 .. n -> Nat] : Recurs(s, n, c, b, F)
<1> DEFINE H == {k \in 0 .. n : \E s \in [0 .. k -> Nat] : Recurs(s, k, c, b, F)}
<1>1. 0 \in H
  <2>1. [j \in 0 .. 0 |-> c] \in [0 .. 0 -> Nat]
    OBVIOUS
  <2>2. Recurs([j \in 0 .. 0 |-> c], 0, c, b, F)
    BY DEF Recurs
  <2>3. QED BY <2>1, <2>2
<1>2. ASSUME NEW k \in 0 .. n - 1, k \in H
      PROVE  k + 1 \in H
  <2>1. PICK s \in [0 .. k -> Nat] : Recurs(s, k, c, b, F)
    BY <1>2
  <2> DEFINE v == b * s[k] + F[k]
             t == [j \in 0 .. k + 1 |-> IF j = k + 1 THEN v ELSE s[j]]
  <2>2. s[k] \in Nat /\ F[k] \in Nat
    OBVIOUS
  <2>3. v \in Nat
    BY <2>2
  <2>4. t \in [0 .. k + 1 -> Nat]
    BY <2>3
  <2>5. \A j \in 0 .. k : s[j] = IF j = 0 THEN c ELSE b * s[j - 1] + F[j - 1]
    BY <2>1 DEF Recurs
  <2>6. ASSUME NEW j \in 0 .. k + 1
        PROVE  t[j] = IF j = 0 THEN c ELSE b * t[j - 1] + F[j - 1]
    <3>1. CASE j = k + 1
      <4>1. j # 0 /\ j - 1 \in 0 .. k + 1 /\ j - 1 # k + 1 /\ j - 1 = k
        BY <3>1
      <4>2. t[j - 1] = s[k] /\ t[j] = v
        BY <3>1, <4>1
      <4> HIDE DEF t
      <4>3. QED BY <4>1, <4>2
    <3>2. CASE j # k + 1
      <4>1. j \in 0 .. k /\ t[j] = s[j]
        BY <3>2
      <4>2. j # 0 => j - 1 \in 0 .. k + 1 /\ j - 1 # k + 1
        BY <3>2
      <4>3. j # 0 => t[j - 1] = s[j - 1]
        BY <4>2
      <4> HIDE DEF t
      <4>4. QED BY <4>1, <4>3, <2>5
    <3>3. QED BY <3>1, <3>2
  <2> HIDE DEF t
  <2>7. Recurs(t, k + 1, c, b, F)
    BY <2>4, <2>6 DEF Recurs
  <2>8. QED BY <2>4, <2>7
<1> HIDE DEF H
<1>3. \A j \in 0 .. n : j \in H
  BY <1>1, <1>2, UpTo
<1>4. n \in H
  BY <1>3
<1>5. QED BY <1>4, ZenonT(30) DEF H

LEMMA RecurTyped ==
    ASSUME NEW n \in Nat, NEW c \in Nat, NEW b \in Nat, NEW F, \A j \in 0 .. n - 1 : F[j] \in Nat,
           NEW s, Recurs(s, n, c, b, F)
    PROVE  s \in [0 .. n -> Nat]
<1> DEFINE H == {j \in 0 .. n : s[j] \in Nat}
<1>1. \A j \in 0 .. n : s[j] = IF j = 0 THEN c ELSE b * s[j - 1] + F[j - 1]
  BY DEF Recurs
<1>2. 0 \in H
  BY <1>1
<1>3. ASSUME NEW j \in 0 .. n - 1, j \in H
      PROVE  j + 1 \in H
  <2>1. j + 1 \in 0 .. n /\ j + 1 # 0 /\ (j + 1) - 1 = j
    OBVIOUS
  <2>2. s[j + 1] = b * s[j] + F[j]
    BY <1>1, <2>1
  <2>3. s[j] \in Nat /\ F[j] \in Nat
    BY <1>3
  <2>4. b * s[j] + F[j] \in Nat
    BY <2>3
  <2>5. QED BY <2>1, <2>2, <2>4
<1> HIDE DEF H
<1>4. \A j \in 0 .. n : j \in H
  BY <1>2, <1>3, UpTo
<1>5. \A j \in 0 .. n : s[j] \in Nat
  BY <1>4 DEF H
<1>6. s = [j \in 0 .. n |-> s[j]]
  BY DEF Recurs
<1>7. QED BY <1>5, <1>6

SameSteps(F, G, m) == \A j \in 0 .. m - 1 : F[j] = G[j]
Agree(s, t, m) == \A j \in 0 .. m : s[j] = t[j]

\* Two of them agree as far as both go.
LEMMA RecurUnique ==
    ASSUME NEW n \in Nat, NEW m \in 0 .. n, NEW c \in Nat, NEW b \in Nat, NEW F, NEW G,
           SameSteps(F, G, m),
           NEW s, Recurs(s, n, c, b, F), NEW t, Recurs(t, m, c, b, G)
    PROVE  Agree(s, t, m)
<1> DEFINE H == {j \in 0 .. m : s[j] = t[j]}
<1>0. m \in Nat
  OBVIOUS
<1>1. \A j \in 0 .. n : s[j] = IF j = 0 THEN c ELSE b * s[j - 1] + F[j - 1]
  BY DEF Recurs
<1>2. \A j \in 0 .. m : t[j] = IF j = 0 THEN c ELSE b * t[j - 1] + G[j - 1]
  BY DEF Recurs
<1>3. 0 \in H
  BY <1>1, <1>2
<1>4. ASSUME NEW j \in 0 .. m - 1, j \in H
      PROVE  j + 1 \in H
  <2>1. j + 1 \in 0 .. n /\ j + 1 \in 0 .. m /\ j + 1 # 0 /\ (j + 1) - 1 = j
    OBVIOUS
  <2>2. s[j + 1] = b * s[j] + F[j] /\ t[j + 1] = b * t[j] + G[j]
    BY <1>1, <1>2, <2>1
  <2>3. QED BY <1>4, <2>1, <2>2 DEF SameSteps
<1> HIDE DEF H
<1>5. \A j \in 0 .. m : j \in H
  BY <1>0, <1>3, <1>4, UpTo
<1>6. QED BY <1>5 DEF H, Agree

-----------------------------------------------------------------------------
(* Powers of two                                                           *)

\* p is the function that Pow2(n) recurs with.
Doubles(p, n) == p = [k \in 0 .. n |-> IF k = 0 THEN 1 ELSE 2 * p[k - 1]]

LEMMA DoublesAre ==
    ASSUME NEW n \in Nat
    PROVE  /\ \E p : Doubles(p, n)
           /\ \A p : Doubles(p, n) => Recurs(p, n, 1, 2, [j \in 0 .. n |-> 0])
                                     /\ p \in [0 .. n -> Nat]
<1> DEFINE F == [j \in 0 .. n |-> 0]
<1>0. \A j \in 0 .. n - 1 : F[j] \in Nat /\ F[j] = 0
  OBVIOUS
<1>1. PICK s \in [0 .. n -> Nat] : Recurs(s, n, 1, 2, F)
  BY <1>0, RecurExists
<1>2. Doubles(s, n)
  <2>1. \A k \in 0 .. n : s[k] = IF k = 0 THEN 1 ELSE 2 * s[k - 1] + F[k - 1]
    BY <1>1 DEF Recurs
  <2>2. \A k \in 1 .. n : k - 1 \in 0 .. n - 1 /\ F[k - 1] = 0 /\ s[k - 1] \in Nat
    BY <1>0
  <2> HIDE DEF F
  <2>3. ASSUME NEW k \in 0 .. n
        PROVE  s[k] = IF k = 0 THEN 1 ELSE 2 * s[k - 1]
    <3>1. CASE k = 0
      BY <2>1, <3>1
    <3>2. CASE k # 0
      <4>1. F[k - 1] = 0 /\ s[k - 1] \in Nat
        BY <2>2, <3>2
      <4>2. s[k] = 2 * s[k - 1] + F[k - 1]
        BY <2>1, <3>2
      <4>3. QED BY <3>2, <4>1, <4>2
    <3>3. QED BY <3>1, <3>2
  <2>4. s = [k \in 0 .. n |-> s[k]]
    OBVIOUS
  <2>5. QED BY <2>3, <2>4 DEF Doubles
<1>3. ASSUME NEW p, Doubles(p, n)
      PROVE  Recurs(p, n, 1, 2, F) /\ p \in [0 .. n -> Nat]
  <2>1. \A k \in 0 .. n : p[k] = IF k = 0 THEN 1 ELSE 2 * p[k - 1]
    BY <1>3 DEF Doubles
  <2> DEFINE H == {k \in 0 .. n : p[k] \in Nat}
  <2>2. 0 \in H
    BY <2>1
  <2>3. ASSUME NEW j \in 0 .. n - 1, j \in H
        PROVE  j + 1 \in H
    <3>1. j + 1 \in 0 .. n /\ j + 1 # 0 /\ (j + 1) - 1 = j
      OBVIOUS
    <3>2. p[j + 1] = 2 * p[j]
      BY <2>1, <3>1
    <3>3. QED BY <2>3, <3>1, <3>2
  <2> HIDE DEF H
  <2>4. \A k \in 0 .. n : k \in H
    BY <2>2, <2>3, UpTo
  <2>5. \A k \in 0 .. n : p[k] \in Nat
    BY <2>4 DEF H
  <2>6. \A k \in 1 .. n : k - 1 \in 0 .. n - 1 /\ F[k - 1] = 0 /\ p[k - 1] \in Nat
    BY <1>0, <2>5
  <2>7. p = [k \in 0 .. n |-> p[k]]
    BY <1>3 DEF Doubles
  <2> HIDE DEF F
  <2>8. \A k \in 0 .. n : p[k] = IF k = 0 THEN 1 ELSE 2 * p[k - 1] + F[k - 1]
    BY <2>1, <2>6
  <2>9. QED BY <2>5, <2>7, <2>8 DEF Recurs
<1>4. QED BY <1>2, <1>3

LEMMA Pow2Is ==
    ASSUME NEW n \in Nat
    PROVE  \E p : Doubles(p, n) /\ Pow2(n) = p[n]
<1>1. Pow2(n) = (CHOOSE p : Doubles(p, n))[n]
  BY DEF Pow2, Doubles
<1>2. QED BY <1>1, DoublesAre

LEMMA Pow2Zero == Pow2(0) = 1
<1>1. PICK p : Doubles(p, 0) /\ Pow2(0) = p[0]
  BY Pow2Is
<1>2. QED BY <1>1 DEF Doubles

LEMMA Pow2Next ==
    ASSUME NEW n \in Nat
    PROVE  Pow2(n + 1) = 2 * Pow2(n) /\ Pow2(n) \in Nat
<1>1. PICK p : Doubles(p, n) /\ Pow2(n) = p[n]
  BY Pow2Is
<1>2. PICK q : Doubles(q, n + 1) /\ Pow2(n + 1) = q[n + 1]
  BY Pow2Is
<1> DEFINE F == [j \in 0 .. n |-> 0]
           G == [j \in 0 .. n + 1 |-> 0]
<1>3. Recurs(p, n, 1, 2, F) /\ p \in [0 .. n -> Nat]
  BY <1>1, DoublesAre
<1>4. Recurs(q, n + 1, 1, 2, G)
  BY <1>2, DoublesAre
<1>5. \A j \in 0 .. n : q[j] = p[j]
  <2>1. SameSteps(G, F, n)
    BY DEF SameSteps
  <2> DEFINE N == n + 1
  <2>2. n \in 0 .. N /\ N \in Nat /\ 1 \in Nat /\ 2 \in Nat
    OBVIOUS
  <2>3. Recurs(q, N, 1, 2, G)
    BY <1>4
  <2> HIDE DEF F, G, N
  <2>4. Agree(q, p, n)
    BY <1>3, <2>1, <2>2, <2>3, RecurUnique, ZenonT(30)
  <2>5. QED BY <2>4 DEF Agree
<1>6. q[n + 1] = 2 * q[n]
  <2>1. n + 1 \in 0 .. n + 1 /\ n + 1 # 0 /\ (n + 1) - 1 = n
    OBVIOUS
  <2>2. QED BY <1>2, <2>1 DEF Doubles
<1>7. QED BY <1>1, <1>2, <1>3, <1>5, <1>6

LEMMA Pow2Pos ==
    ASSUME NEW n \in Nat
    PROVE  Pow2(n) \in Nat /\ Pow2(n) >= 1 /\ n < Pow2(n)
<1> DEFINE H == {j \in 0 .. n : Pow2(j) >= 1 /\ j < Pow2(j)}
<1>1. 0 \in H
  BY Pow2Zero
<1>2. ASSUME NEW j \in 0 .. n - 1, j \in H
      PROVE  j + 1 \in H
  <2>1. Pow2(j + 1) = 2 * Pow2(j) /\ Pow2(j) \in Nat
    BY Pow2Next
  <2>2. QED BY <1>2, <2>1
<1> HIDE DEF H
<1>3. n \in H
  BY <1>1, <1>2, UpTo
<1>4. QED BY <1>3, Pow2Next DEF H

LEMMA Pow2Prev ==
    ASSUME NEW n \in Nat, n >= 1
    PROVE  Pow2(n) = 2 * Pow2(n - 1) /\ Pow2(n - 1) \in Nat /\ Pow2(n - 1) >= 1
<1>1. n - 1 \in Nat /\ (n - 1) + 1 = n
  OBVIOUS
<1>2. Pow2((n - 1) + 1) = 2 * Pow2(n - 1)
  BY <1>1, Pow2Next
<1>3. QED BY <1>1, <1>2, Pow2Pos

LEMMA Pow2Plus ==
    ASSUME NEW a \in Nat, NEW b \in Nat
    PROVE  Pow2(a + b) = Pow2(a) * Pow2(b)
<1> DEFINE H == {j \in 0 .. b : Pow2(a + j) = Pow2(a) * Pow2(j)}
<1>1. 0 \in H
  BY Pow2Zero, Pow2Pos
<1>2. ASSUME NEW j \in 0 .. b - 1, j \in H
      PROVE  j + 1 \in H
  <2>1. Pow2(j + 1) = 2 * Pow2(j) /\ Pow2(j) \in Nat /\ Pow2(a) \in Nat
    BY Pow2Next
  <2>2. Pow2((a + j) + 1) = 2 * Pow2(a + j) /\ (a + j) + 1 = a + (j + 1)
    BY Pow2Next
  <2>3. Pow2(a + j) = Pow2(a) * Pow2(j)
    BY <1>2
  <2>4. Pow2(a + (j + 1)) = 2 * (Pow2(a) * Pow2(j))
    BY <2>2, <2>3
  <2>5. 2 * (Pow2(a) * Pow2(j)) = Pow2(a) * (2 * Pow2(j))
    BY <2>1
  <2>6. Pow2(a + (j + 1)) = Pow2(a) * Pow2(j + 1)
    BY <2>1, <2>4, <2>5
  <2>7. QED BY <2>6
<1> HIDE DEF H
<1>3. b \in H
  BY <1>1, <1>2, UpTo
<1>4. QED BY <1>3 DEF H

LEMMA Pow2Mono ==
    ASSUME NEW a \in Nat, NEW b \in Nat
    PROVE  /\ a <= b => Pow2(a) <= Pow2(b)
           /\ a < b => 2 * Pow2(a) <= Pow2(b)
<1>1. ASSUME a <= b
      PROVE  Pow2(a) <= Pow2(b)
  <2>1. b - a \in Nat /\ a + (b - a) = b
    BY <1>1
  <2>2. Pow2(b) = Pow2(a) * Pow2(b - a)
    BY <2>1, Pow2Plus
  <2>3. Pow2(a) \in Nat /\ Pow2(b - a) \in Nat /\ Pow2(b - a) >= 1
    BY <2>1, Pow2Pos
  <2>4. QED BY <2>2, <2>3
<1>2. ASSUME a < b
      PROVE  2 * Pow2(a) <= Pow2(b)
  <2>1. b - (a + 1) \in Nat /\ (a + 1) + (b - (a + 1)) = b /\ a + 1 \in Nat
    BY <1>2
  <2>2. Pow2(b) = Pow2(a + 1) * Pow2(b - (a + 1))
    BY <2>1, Pow2Plus
  <2>3. Pow2(a + 1) \in Nat /\ Pow2(b - (a + 1)) \in Nat /\ Pow2(b - (a + 1)) >= 1
    BY <2>1, Pow2Pos
  <2>4. Pow2(a + 1) <= Pow2(b)
    BY <2>2, <2>3
  <2>5. QED BY <2>4, Pow2Next
<1>3. QED BY <1>1, <1>2

-----------------------------------------------------------------------------
(* Remainders                                                              *)

LEMMA DivMod ==
    ASSUME NEW x \in Int, NEW m \in Nat, m >= 1
    PROVE  /\ x \div m \in Int /\ x % m \in 0 .. m - 1
           /\ x = m * (x \div m) + (x % m)
OBVIOUS

LEMMA DivModIs ==
    ASSUME NEW m \in Nat, m >= 1, NEW q \in Int, NEW r \in 0 .. m - 1,
           NEW x \in Int, x = m * q + r
    PROVE  x % m = r /\ x \div m = q
OBVIOUS

LEMMA SmallMod ==
    ASSUME NEW m \in Nat, m >= 1, NEW x \in 0 .. m - 1
    PROVE  x % m = x /\ x \div m = 0
OBVIOUS

\* Numbers that differ by a multiple of m.
Congruent(x, y, m) == \E q \in Int : x = y + m * q

LEMMA CongruentMod ==
    ASSUME NEW m \in Nat, m >= 1, NEW x \in Int, NEW y \in Int
    PROVE  Congruent(x, y, m) <=> x % m = y % m
<1>1. ASSUME Congruent(x, y, m)
      PROVE  x % m = y % m
  <2>1. PICK q \in Int : x = y + m * q
    BY <1>1 DEF Congruent
  <2>2. y \div m \in Int /\ y % m \in 0 .. m - 1 /\ y = m * (y \div m) + (y % m)
    BY DivMod
  <2>3. m * ((y \div m) + q) = m * (y \div m) + m * q
    BY <2>2
  <2> DEFINE e == (y \div m) + q
             r == y % m
  <2>4. x = m * e + r /\ e \in Int /\ r \in 0 .. m - 1
    BY <2>1, <2>2, <2>3
  <2> HIDE DEF e, r
  <2>5. x % m = r
    BY <2>4, DivModIs
  <2>6. QED BY <2>5 DEF r
<1>2. ASSUME x % m = y % m
      PROVE  Congruent(x, y, m)
  <2>1. x \div m \in Int /\ x = m * (x \div m) + (x % m)
    BY DivMod
  <2>2. y \div m \in Int /\ y = m * (y \div m) + (y % m) /\ y % m \in Int
    BY DivMod
  <2>3. m * ((x \div m) - (y \div m)) = m * (x \div m) - m * (y \div m)
    BY <2>1, <2>2
  <2>4. x = y + m * ((x \div m) - (y \div m)) /\ (x \div m) - (y \div m) \in Int
    BY <1>2, <2>1, <2>2, <2>3
  <2>5. QED BY <2>4 DEF Congruent
<1>3. QED BY <1>1, <1>2

LEMMA CongruentOps ==
    ASSUME NEW m \in Nat, m >= 1, NEW x \in Int, NEW y \in Int, NEW u \in Int, NEW v \in Int,
           Congruent(x, y, m), Congruent(u, v, m)
    PROVE  /\ Congruent(x + u, y + v, m)
           /\ Congruent(x - u, y - v, m)
           /\ Congruent(x * u, y * v, m)
<1>1. PICK q \in Int : x = y + m * q
  BY DEF Congruent
<1>2. PICK p \in Int : u = v + m * p
  BY DEF Congruent
<1>3. m * (q + p) = m * q + m * p /\ m * (q - p) = m * q - m * p
  OBVIOUS
<1>4. x + u = (y + v) + m * (q + p) /\ x - u = (y - v) + m * (q - p)
  BY <1>1, <1>2, <1>3
<1>5. q + p \in Int /\ q - p \in Int /\ (y * p + q * u) \in Int
  OBVIOUS
<1>6. x * u = y * v + m * (y * p + q * u)
  <2>1. x * u = y * u + (m * q) * u
    BY <1>1
  <2>2. y * u = y * v + y * (m * p)
    BY <1>2
  <2>3. (m * q) * u = m * (q * u) /\ y * (m * p) = m * (y * p)
    OBVIOUS
  <2>4. m * (y * p + q * u) = m * (y * p) + m * (q * u)
    OBVIOUS
  <2>5. QED BY <2>1, <2>2, <2>3, <2>4
<1>7. QED BY <1>4, <1>5, <1>6 DEF Congruent

LEMMA ModCongruent ==
    ASSUME NEW m \in Nat, m >= 1, NEW x \in Int
    PROVE  x % m \in Int /\ Congruent(x % m, x, m) /\ Congruent(x, x % m, m) /\ Congruent(x, x, m)
<1>1. x % m \in 0 .. m - 1 /\ x % m \in Int
  BY DivMod
<1>2. (x % m) % m = x % m
  BY <1>1, SmallMod
<1>3. QED BY <1>1, <1>2, CongruentMod

-----------------------------------------------------------------------------
(* Bits                                                                    *)

LEMMA BitIs ==
    ASSUME NEW x \in Nat, NEW i \in Nat
    PROVE  /\ Bit(x, i) \in {0, 1}
           /\ x % Pow2(i + 1) = (x % Pow2(i)) + Bit(x, i) * Pow2(i)
<1> DEFINE m == Pow2(i)
           q == x \div m
           r == x % m
           c == q \div 2
           b == q % 2
<1>1. m \in Nat /\ m >= 1 /\ Pow2(i + 1) = 2 * m
  BY Pow2Pos, Pow2Next
<1>2. q \in Nat /\ r \in 0 .. m - 1 /\ x = m * q + r
  BY <1>1
<1>3. c \in Nat /\ b \in {0, 1} /\ q = 2 * c + b
  <2> HIDE DEF q
  <2>1. QED BY <1>2
<1>4. Bit(x, i) = b
  BY DEF Bit
<1> HIDE DEF m, q, r, c, b
<1>5. m * q = (2 * m) * c + b * m
  BY <1>1, <1>3
<1>6. r + b * m \in 0 .. (2 * m) - 1 /\ 2 * m \in Nat /\ 2 * m >= 1
  <2>1. b = 0 \/ b = 1
    BY <1>3
  <2>2. CASE b = 0
    BY <1>1, <1>2, <2>2
  <2>3. CASE b = 1
    BY <1>1, <1>2, <2>3
  <2>4. QED BY <2>1, <2>2, <2>3
<1>7. x = (2 * m) * c + (r + b * m)
  BY <1>1, <1>2, <1>3, <1>5, <1>6
<1>8. x % (2 * m) = r + b * m
  BY <1>3, <1>6, <1>7, DivModIs
<1>9. QED BY <1>1, <1>3, <1>4, <1>8 DEF m, r

LEMMA BitAbove ==
    ASSUME NEW i \in Nat, NEW x \in Nat, x < Pow2(i)
    PROVE  Bit(x, i) = 0
<1>1. x \div Pow2(i) = 0
  BY Pow2Pos, SmallMod
<1>2. QED BY <1>1 DEF Bit

\* The top bit of a number of w bits.
LEMMA TopBit ==
    ASSUME NEW w \in Nat, w >= 1, NEW x \in 0 .. Pow2(w) - 1
    PROVE  Bit(x, w - 1) = IF x < Pow2(w - 1) THEN 0 ELSE 1
<1>1. Pow2(w) = 2 * Pow2(w - 1) /\ Pow2(w - 1) \in Nat /\ Pow2(w - 1) >= 1 /\ w - 1 \in Nat
  BY Pow2Prev
<1>2. x \in Nat
  BY <1>1
<1>3. CASE x < Pow2(w - 1)
  BY <1>1, <1>2, <1>3, BitAbove
<1>4. CASE x >= Pow2(w - 1)
  <2>1. x - Pow2(w - 1) \in 0 .. Pow2(w - 1) - 1 /\ x = Pow2(w - 1) * 1 + (x - Pow2(w - 1))
    BY <1>1, <1>2, <1>4
  <2>2. x \div Pow2(w - 1) = 1
    BY <1>1, <1>2, <2>1, DivModIs
  <2>3. QED BY <1>1, <1>2, <1>4, <2>2 DEF Bit
<1>5. QED BY <1>1, <1>2, <1>3, <1>4

LEMMA OnesBit ==
    ASSUME NEW w \in Nat, NEW i \in 0 .. w - 1
    PROVE  Bit(Pow2(w) - 1, i) = 1
<1> DEFINE m == Pow2(i)
           d == Pow2(w - i)
           e == Pow2((w - i) - 1)
<1>1. i \in Nat /\ w - i \in Nat /\ w - i >= 1 /\ i + (w - i) = w
  OBVIOUS
<1>2. m \in Nat /\ m >= 1
  BY <1>1, Pow2Pos
<1>3. d = 2 * e /\ e \in Nat /\ e >= 1
  BY <1>1, Pow2Prev
<1>4. Pow2(w) = m * d
  BY <1>1, Pow2Plus
<1> HIDE DEF m, d, e
<1>5. m * (d - 1) = m * d - m
  BY <1>2, <1>3
<1>6. Pow2(w) - 1 = m * (d - 1) + (m - 1) /\ d - 1 \in Int /\ m - 1 \in 0 .. m - 1
      /\ Pow2(w) - 1 \in Int
  BY <1>2, <1>3, <1>4, <1>5
<1>7. (Pow2(w) - 1) \div m = d - 1
  BY <1>2, <1>6, DivModIs
<1>8. d - 1 = 2 * (e - 1) + 1
  BY <1>3
<1>9. (d - 1) % 2 = 1
  BY <1>3, <1>8
<1>10. QED BY <1>7, <1>9 DEF Bit, m

\* s[k] is the number that the k lowest of n bits give.
Sums(s, bits, n) ==
    /\ s \in [0 .. n -> Nat] /\ s[0] = 0
    /\ \A k \in 0 .. n - 1 : s[k + 1] = s[k] + bits[k] * Pow2(k)

LEMMA NumberIs ==
    ASSUME NEW n \in Nat, NEW bits, \A i \in 0 .. n - 1 : bits[i] \in {0, 1}
    PROVE  \E s : Sums(s, bits, n) /\ Number(bits, n) = s[n]
<1> DEFINE Def(s) == s = [k \in 0 .. n |-> IF k = 0 THEN 0
                                           ELSE s[k - 1] + bits[k - 1] * Pow2(k - 1)]
           F == [j \in 0 .. n - 1 |-> bits[j] * Pow2(j)]
<1>1. Number(bits, n) = (CHOOSE s : Def(s))[n]
  BY DEF Number
<1>2. \A j \in 0 .. n - 1 : F[j] \in Nat /\ F[j] = bits[j] * Pow2(j)
  <2>1. TAKE j \in 0 .. n - 1
  <2>2. Pow2(j) \in Nat /\ bits[j] \in {0, 1}
    BY Pow2Pos
  <2>3. bits[j] * Pow2(j) \in Nat
    BY <2>2
  <2>4. QED BY <2>3
<1> HIDE DEF F
<1>3. ASSUME NEW s, s \in [0 .. n -> Nat]
      PROVE  Def(s) <=> Recurs(s, n, 0, 1, F)
  <2>1. s = [k \in 0 .. n |-> s[k]]
    BY <1>3
  <2>2. ASSUME NEW k \in 0 .. n
        PROVE  (IF k = 0 THEN 0 ELSE s[k - 1] + bits[k - 1] * Pow2(k - 1))
                 = IF k = 0 THEN 0 ELSE 1 * s[k - 1] + F[k - 1]
    <3>1. CASE k = 0
      BY <3>1
    <3>2. CASE k # 0
      <4>1. k - 1 \in 0 .. n - 1 /\ s[k - 1] \in Nat
        BY <1>3, <3>2
      <4>2. F[k - 1] = bits[k - 1] * Pow2(k - 1) /\ F[k - 1] \in Nat
        BY <1>2, <4>1
      <4>3. QED BY <3>2, <4>1, <4>2
    <3>3. QED BY <3>1, <3>2
  <2>3. QED BY <2>2 DEF Recurs
<1>4. \E s : Def(s)
  <2>1. \E s \in [0 .. n -> Nat] : Recurs(s, n, 0, 1, F)
    BY <1>2, RecurExists
  <2>2. QED BY <2>1, <1>3
<1>5. ASSUME NEW s, Def(s)
      PROVE  Sums(s, bits, n)
  <2>1. \A k \in 0 .. n : s[k] = IF k = 0 THEN 0 ELSE s[k - 1] + bits[k - 1] * Pow2(k - 1)
    BY <1>5
  <2>2. s[0] = 0
    BY <2>1
  <2>3. ASSUME NEW k \in 0 .. n - 1
        PROVE  s[k + 1] = s[k] + bits[k] * Pow2(k)
    <3>1. k + 1 \in 0 .. n /\ k + 1 # 0 /\ (k + 1) - 1 = k
      OBVIOUS
    <3>2. QED BY <2>1, <3>1
  <2> DEFINE H == {k \in 0 .. n : s[k] \in Nat}
  <2>4. 0 \in H
    BY <2>2
  <2>5. ASSUME NEW k \in 0 .. n - 1, k \in H
        PROVE  k + 1 \in H
    <3>1. F[k] \in Nat /\ F[k] = bits[k] * Pow2(k)
      BY <1>2
    <3>2. s[k + 1] = s[k] + F[k]
      BY <2>3, <3>1
    <3>3. QED BY <2>5, <3>1, <3>2
  <2> HIDE DEF H
  <2>6. \A k \in 0 .. n : k \in H
    BY <2>4, <2>5, UpTo
  <2>7. s \in [0 .. n -> Nat]
    <3>1. \A k \in 0 .. n : s[k] \in Nat
      BY <2>6 DEF H
    <3>2. s = [k \in 0 .. n |-> s[k]]
      BY <1>5
    <3>3. QED BY <3>1, <3>2
  <2>8. QED BY <2>2, <2>3, <2>7 DEF Sums
<1> HIDE DEF Def
<1>6. QED BY <1>1, <1>4, <1>5

LEMMA SumsBelow ==
    ASSUME NEW n \in Nat, NEW bits, \A i \in 0 .. n - 1 : bits[i] \in {0, 1},
           NEW s, Sums(s, bits, n)
    PROVE  \A k \in 0 .. n : s[k] \in 0 .. Pow2(k) - 1
<1> DEFINE H == {k \in 0 .. n : s[k] \in 0 .. Pow2(k) - 1}
<1>1. 0 \in H
  BY Pow2Zero DEF Sums
<1>2. ASSUME NEW k \in 0 .. n - 1, k \in H
      PROVE  k + 1 \in H
  <2>1. Pow2(k + 1) = 2 * Pow2(k) /\ Pow2(k) \in Nat /\ k + 1 \in 0 .. n
    BY Pow2Next
  <2>2. s[k + 1] = s[k] + bits[k] * Pow2(k)
    BY DEF Sums
  <2>3. bits[k] * Pow2(k) = 0 \/ bits[k] * Pow2(k) = Pow2(k)
    <3>1. bits[k] = 0 \/ bits[k] = 1
      OBVIOUS
    <3>2. QED BY <2>1, <3>1
  <2>4. s[k] \in 0 .. Pow2(k) - 1
    BY <1>2
  <2>5. QED BY <2>1, <2>2, <2>3, <2>4
<1> HIDE DEF H
<1>3. \A k \in 0 .. n : k \in H
  BY <1>1, <1>2, UpTo
<1>4. QED BY <1>3 DEF H

\* A number of n bits, and what its top bit says.
LEMMA NumberTop ==
    ASSUME NEW n \in Nat, n >= 1, NEW bits, \A i \in 0 .. n - 1 : bits[i] \in {0, 1}
    PROVE  /\ Number(bits, n) \in 0 .. Pow2(n) - 1
           /\ Number(bits, n) < Pow2(n - 1) <=> bits[n - 1] = 0
<1>1. PICK s : Sums(s, bits, n) /\ Number(bits, n) = s[n]
  BY NumberIs
<1>2. \A k \in 0 .. n : s[k] \in 0 .. Pow2(k) - 1
  BY <1>1, SumsBelow
<1>3. n - 1 \in 0 .. n - 1 /\ n - 1 \in 0 .. n /\ n \in 0 .. n /\ (n - 1) + 1 = n
  OBVIOUS
<1>4. s[n] = s[n - 1] + bits[n - 1] * Pow2(n - 1)
  BY <1>1, <1>3 DEF Sums
<1>5. Pow2(n - 1) \in Nat /\ s[n - 1] \in 0 .. Pow2(n - 1) - 1
  BY <1>2, <1>3, Pow2Prev
<1>6. bits[n - 1] = 0 \/ bits[n - 1] = 1
  BY <1>3
<1>7. Number(bits, n) \in 0 .. Pow2(n) - 1
  BY <1>1, <1>2, <1>3
<1>8. QED BY <1>1, <1>4, <1>5, <1>6, <1>7

\* The bits of x give x, and their complements give the complement.
LEMMA NumberOf ==
    ASSUME NEW n \in Nat, NEW bits, NEW x \in 0 .. Pow2(n) - 1,
           \A i \in 0 .. n - 1 : bits[i] = Bit(x, i)
    PROVE  Number(bits, n) = x
<1>0. x \in Nat /\ Pow2(n) \in Nat /\ Pow2(n) >= 1
  BY Pow2Pos
<1>1. \A i \in 0 .. n - 1 : bits[i] \in {0, 1}
  BY <1>0, BitIs
<1>2. PICK s : Sums(s, bits, n) /\ Number(bits, n) = s[n]
  BY <1>1, NumberIs
<1> DEFINE H == {k \in 0 .. n : s[k] = x % Pow2(k)}
<1>3. 0 \in H
  <2>1. x % 1 = 0
    BY <1>0
  <2>2. QED BY <1>2, <2>1, Pow2Zero DEF Sums
<1>4. ASSUME NEW k \in 0 .. n - 1, k \in H
      PROVE  k + 1 \in H
  <2>1. x % Pow2(k + 1) = (x % Pow2(k)) + Bit(x, k) * Pow2(k)
    BY <1>0, BitIs
  <2>2. s[k + 1] = s[k] + bits[k] * Pow2(k) /\ k + 1 \in 0 .. n
    BY <1>2 DEF Sums
  <2>3. QED BY <1>4, <2>1, <2>2
<1> HIDE DEF H
<1>5. n \in H
  BY <1>3, <1>4, UpTo
<1>6. s[n] = x % Pow2(n)
  BY <1>5 DEF H
<1>7. QED BY <1>0, <1>2, <1>6, SmallMod

LEMMA NumberOfComplement ==
    ASSUME NEW n \in Nat, NEW bits, NEW x \in 0 .. Pow2(n) - 1,
           \A i \in 0 .. n - 1 : bits[i] = 1 - Bit(x, i)
    PROVE  Number(bits, n) = Pow2(n) - 1 - x
<1>0. x \in Nat /\ Pow2(n) \in Nat /\ Pow2(n) >= 1
  BY Pow2Pos
<1>1. ASSUME NEW i \in 0 .. n - 1
      PROVE  bits[i] \in {0, 1}
  <2>1. Bit(x, i) \in {0, 1}
    BY <1>0, BitIs
  <2>2. QED BY <2>1
<1>2. PICK s : Sums(s, bits, n) /\ Number(bits, n) = s[n]
  BY <1>1, NumberIs
<1> DEFINE H == {k \in 0 .. n : s[k] = Pow2(k) - 1 - (x % Pow2(k))}
<1>3. 0 \in H
  <2>1. x % 1 = 0
    BY <1>0
  <2>2. QED BY <1>2, <2>1, Pow2Zero DEF Sums
<1>4. ASSUME NEW k \in 0 .. n - 1, k \in H
      PROVE  k + 1 \in H
  <2>1. x % Pow2(k + 1) = (x % Pow2(k)) + Bit(x, k) * Pow2(k) /\ Bit(x, k) \in {0, 1}
    BY <1>0, BitIs
  <2>2. s[k + 1] = s[k] + bits[k] * Pow2(k) /\ k + 1 \in 0 .. n
    BY <1>2 DEF Sums
  <2>3. Pow2(k + 1) = 2 * Pow2(k) /\ Pow2(k) \in Nat /\ Pow2(k) >= 1
    BY Pow2Next, Pow2Pos
  <2>4. s[k] = Pow2(k) - 1 - (x % Pow2(k)) /\ x % Pow2(k) \in Int
    <3>1. s[k] = Pow2(k) - 1 - (x % Pow2(k))
      BY <1>4
    <3>2. x % Pow2(k) \in Int
      BY <1>0, <2>3
    <3>3. QED BY <3>1, <3>2
  <2>5. bits[k] = 1 - Bit(x, k)
    OBVIOUS
  <2>6. CASE Bit(x, k) = 0
    BY <2>1, <2>2, <2>3, <2>4, <2>5, <2>6
  <2>7. CASE Bit(x, k) = 1
    BY <2>1, <2>2, <2>3, <2>4, <2>5, <2>7
  <2>8. QED BY <2>1, <2>6, <2>7
<1> HIDE DEF H
<1>5. n \in H
  BY <1>3, <1>4, UpTo
<1>6. s[n] = Pow2(n) - 1 - (x % Pow2(n))
  BY <1>5 DEF H
<1>7. QED BY <1>0, <1>2, <1>6, SmallMod

\* The k lowest bits of x and zeros above them.
LEMMA NumberOfLow ==
    ASSUME NEW n \in Nat, NEW k \in 0 .. n, NEW bits, NEW x \in Nat,
           \A i \in 0 .. n - 1 : bits[i] = IF i < k THEN Bit(x, i) ELSE 0
    PROVE  Number(bits, n) = x % Pow2(k)
<1>0. k \in Nat
  OBVIOUS
<1>1. ASSUME NEW i \in 0 .. n - 1
      PROVE  bits[i] \in {0, 1}
  BY BitIs
<1>2. PICK s : Sums(s, bits, n) /\ Number(bits, n) = s[n]
  BY <1>1, NumberIs
<1> DEFINE H == {j \in 0 .. n : IF j < k THEN s[j] = x % Pow2(j) ELSE s[j] = x % Pow2(k)}
<1>3. 0 \in H
  <2>1. x % 1 = 0
    OBVIOUS
  <2>2. s[0] = x % Pow2(0)
    BY <1>2, <2>1, Pow2Zero DEF Sums
  <2>3. QED BY <1>0, <2>2
<1>4. ASSUME NEW j \in 0 .. n - 1, j \in H
      PROVE  j + 1 \in H
  <2>1. x % Pow2(j + 1) = (x % Pow2(j)) + Bit(x, j) * Pow2(j)
    BY BitIs
  <2>2. s[j + 1] = s[j] + bits[j] * Pow2(j) /\ j + 1 \in 0 .. n /\ s[j] \in Nat
    BY <1>2 DEF Sums
  <2>3. CASE j < k
    <3>1. s[j + 1] = x % Pow2(j + 1)
      BY <1>4, <2>1, <2>2, <2>3
    <3>2. j + 1 < k \/ j + 1 = k
      BY <2>3
    <3>3. QED BY <2>2, <3>1, <3>2
  <2>4. CASE j >= k
    <3>1. bits[j] * Pow2(j) = 0
      BY <2>4, Pow2Pos
    <3>2. s[j + 1] = x % Pow2(k)
      BY <1>4, <2>2, <2>4, <3>1
    <3>3. ~(j + 1 < k)
      BY <2>4
    <3>4. QED BY <2>2, <3>2, <3>3
  <2>5. QED BY <2>3, <2>4
<1> HIDE DEF H
<1>5. n \in H
  BY <1>3, <1>4, UpTo
<1>6. s[n] = x % Pow2(k)
  <2>1. CASE n < k
    BY <2>1
  <2>2. CASE ~(n < k)
    BY <1>5, <2>2 DEF H
  <2>3. QED BY <2>1, <2>2
<1>7. QED BY <1>2, <1>6

LEMMA XorZero ==
    ASSUME NEW w \in Nat, NEW x \in 0 .. Pow2(w) - 1
    PROVE  Xor(x, 0, w) = x
<1> DEFINE bits == [i \in 0 .. w - 1 |-> (Bit(x, i) + Bit(0, i)) % 2]
<1>0. x \in Nat
  BY Pow2Pos
<1>1. ASSUME NEW i \in 0 .. w - 1
      PROVE  bits[i] = Bit(x, i)
  <2>1. Bit(0, i) = 0
    BY Pow2Pos, BitAbove
  <2>2. Bit(x, i) \in {0, 1}
    BY <1>0, BitIs
  <2>3. QED BY <2>1, <2>2
<1> HIDE DEF bits
<1>2. Number(bits, w) = x
  BY <1>1, NumberOf
<1>3. QED BY <1>2 DEF Xor, bits

LEMMA XorOnes ==
    ASSUME NEW w \in Nat, NEW x \in 0 .. Pow2(w) - 1
    PROVE  Xor(x, Pow2(w) - 1, w) = Pow2(w) - 1 - x
<1> DEFINE bits == [i \in 0 .. w - 1 |-> (Bit(x, i) + Bit(Pow2(w) - 1, i)) % 2]
<1>0. x \in Nat
  BY Pow2Pos
<1>1. ASSUME NEW i \in 0 .. w - 1
      PROVE  bits[i] = 1 - Bit(x, i)
  <2>1. Bit(Pow2(w) - 1, i) = 1
    BY OnesBit
  <2>2. Bit(x, i) \in {0, 1}
    BY <1>0, BitIs
  <2>3. QED BY <2>1, <2>2
<1> HIDE DEF bits
<1>2. Number(bits, w) = Pow2(w) - 1 - x
  BY <1>1, NumberOfComplement
<1>3. QED BY <1>2 DEF Xor, bits

LEMMA AndMask ==
    ASSUME NEW w \in Nat, NEW k \in 0 .. w, NEW x \in Nat
    PROVE  And(x, Pow2(k) - 1, w) = x % Pow2(k)
<1> DEFINE bits == [i \in 0 .. w - 1 |-> Bit(x, i) * Bit(Pow2(k) - 1, i)]
<1>1. ASSUME NEW i \in 0 .. w - 1
      PROVE  bits[i] = IF i < k THEN Bit(x, i) ELSE 0
  <2>1. Bit(x, i) \in {0, 1}
    BY BitIs
  <2>2. CASE i < k
    <3>1. Bit(Pow2(k) - 1, i) = 1
      BY <2>2, OnesBit
    <3>2. QED BY <2>1, <2>2, <3>1
  <2>3. CASE ~(i < k)
    <3>1. Pow2(k) - 1 \in Nat /\ Pow2(k) - 1 < Pow2(i)
      BY <2>3, Pow2Pos, Pow2Mono
    <3>2. Bit(Pow2(k) - 1, i) = 0
      BY <3>1, BitAbove
    <3>3. QED BY <2>1, <2>3, <3>2
  <2>4. QED BY <2>2, <2>3
<1> HIDE DEF bits
<1>2. Number(bits, w) = x % Pow2(k)
  BY <1>1, NumberOfLow
<1>3. QED BY <1>2 DEF And, bits

\* Whether the top bit of a number of w bits is set.
Top(x, w) == x >= Pow2(w - 1)

LEMMA XorTop ==
    ASSUME NEW w \in Nat, w >= 1, NEW x \in 0 .. Pow2(w) - 1, NEW y \in 0 .. Pow2(w) - 1
    PROVE  /\ Xor(x, y, w) \in 0 .. Pow2(w) - 1
           /\ Top(Xor(x, y, w), w) <=> ~(Top(x, w) <=> Top(y, w))
<1> DEFINE bits == [i \in 0 .. w - 1 |-> (Bit(x, i) + Bit(y, i)) % 2]
<1>0. x \in Nat /\ y \in Nat /\ Pow2(w - 1) \in Nat
  BY Pow2Pos, Pow2Prev
<1>1. \A i \in 0 .. w - 1 : bits[i] \in {0, 1}
  BY <1>0, BitIs
<1>2. bits[w - 1] = (Bit(x, w - 1) + Bit(y, w - 1)) % 2
  OBVIOUS
<1> HIDE DEF bits
<1>3. Number(bits, w) \in 0 .. Pow2(w) - 1
      /\ (Number(bits, w) < Pow2(w - 1) <=> bits[w - 1] = 0)
  BY <1>1, NumberTop
<1>4. Xor(x, y, w) = Number(bits, w)
  BY DEF Xor, bits
<1>5. bits[w - 1] = 0 <=> (x < Pow2(w - 1) <=> y < Pow2(w - 1))
  <2>1. /\ Bit(x, w - 1) = IF x < Pow2(w - 1) THEN 0 ELSE 1
        /\ Bit(y, w - 1) = IF y < Pow2(w - 1) THEN 0 ELSE 1
    BY TopBit
  <2>2. QED BY <1>2, <2>1
<1>6. Number(bits, w) \in Nat
  BY <1>3, Pow2Pos
<1>7. QED BY <1>0, <1>3, <1>4, <1>5, <1>6 DEF Top

LEMMA AndTop ==
    ASSUME NEW w \in Nat, w >= 1, NEW x \in 0 .. Pow2(w) - 1, NEW y \in 0 .. Pow2(w) - 1
    PROVE  /\ And(x, y, w) \in 0 .. Pow2(w) - 1
           /\ Top(And(x, y, w), w) <=> Top(x, w) /\ Top(y, w)
<1> DEFINE bits == [i \in 0 .. w - 1 |-> Bit(x, i) * Bit(y, i)]
<1>0. x \in Nat /\ y \in Nat /\ Pow2(w - 1) \in Nat
  BY Pow2Pos, Pow2Prev
<1>1. \A i \in 0 .. w - 1 : bits[i] \in {0, 1}
  BY <1>0, BitIs
<1>2. bits[w - 1] = Bit(x, w - 1) * Bit(y, w - 1)
  OBVIOUS
<1> HIDE DEF bits
<1>3. Number(bits, w) \in 0 .. Pow2(w) - 1
      /\ (Number(bits, w) < Pow2(w - 1) <=> bits[w - 1] = 0)
  BY <1>1, NumberTop
<1>4. And(x, y, w) = Number(bits, w)
  BY DEF And, bits
<1>5. bits[w - 1] = 0 <=> (x < Pow2(w - 1) \/ y < Pow2(w - 1))
  <2>1. /\ Bit(x, w - 1) = IF x < Pow2(w - 1) THEN 0 ELSE 1
        /\ Bit(y, w - 1) = IF y < Pow2(w - 1) THEN 0 ELSE 1
    BY TopBit
  <2>2. QED BY <1>2, <2>1
<1>6. Number(bits, w) \in Nat
  BY <1>3, Pow2Pos
<1>7. QED BY <1>0, <1>3, <1>4, <1>5, <1>6 DEF Top

-----------------------------------------------------------------------------
(* Types and their values                                                  *)

LEMMA Widths ==
    /\ Word \in Nat /\ Half \in Nat /\ Byte \in Nat
    /\ 2 <= Byte /\ Byte < Half /\ Half < Word
BY WidthsAssumption

\* The types that keep registers normalized.
SoundTypes == Types \ {Int8}

LEMMA TypeFacts ==
    ASSUME NEW T \in Types
    PROVE  /\ T.size \in Nat /\ T.size >= 2 /\ T.size \in {Word, Half, Byte}
           /\ Storage(T) \in Nat /\ Storage(T) >= 2 /\ Storage(T) \in {Word, Half}
           /\ T.size <= Storage(T) /\ T.signed \in BOOLEAN
           /\ SubWord(T) <=> T.size = Byte
           /\ ~SubWord(T) => Storage(T) = T.size
           /\ SubWord(T) => Storage(T) = Half
<1>1. T.size \in {Word, Half, Byte}
  BY DEF Types, Type, Int64, UInt64, Int32, UInt32, Char, Int8, UInt8, Bool
<1>2. T.signed \in BOOLEAN
  <2>1. Int64.signed \in BOOLEAN /\ Int32.signed \in BOOLEAN /\ Int8.signed \in BOOLEAN
    BY DEF Int64, Int32, Int8, Type
  <2>2. /\ UInt64.signed \in BOOLEAN /\ UInt32.signed \in BOOLEAN /\ Char.signed \in BOOLEAN
        /\ UInt8.signed \in BOOLEAN /\ Bool.signed \in BOOLEAN
    BY DEF UInt64, UInt32, Char, UInt8, Bool, Type
  <2>3. QED BY <2>1, <2>2, Zenon DEF Types
<1>3. QED BY <1>1, <1>2, Widths DEF Storage, SubWord

LEMMA SubWordTypes ==
    ASSUME NEW T \in SoundTypes, SubWord(T)
    PROVE  ~T.signed /\ T \in {UInt8, Bool}
<1>1. T.size = Byte
  BY TypeFacts DEF SoundTypes
<1>2. QED BY <1>1, Widths
             DEF SoundTypes, Types, Type, Int64, UInt64, Int32, UInt32, Char, Int8, UInt8, Bool

LEMMA BoolIs == Bool \in SoundTypes /\ Bool.size = Byte /\ ~Bool.signed /\ SubWord(Bool)
<1>1. Bool # Int8
  BY DEF Bool, Int8, Type
<1>2. QED BY <1>1, Widths DEF SoundTypes, Types, Bool, Type, SubWord

\* The numbers of w bits, read with a sign.
SignedRange(w) == -Pow2(w - 1) .. Pow2(w - 1) - 1

LEMMA AsSignedIs ==
    ASSUME NEW w \in Nat, w >= 1, NEW b \in 0 .. Pow2(w) - 1
    PROVE  /\ AsSigned(b, w) \in SignedRange(w)
           /\ AsSigned(b, w) \in Int /\ Congruent(AsSigned(b, w), b, Pow2(w))
           /\ AsSigned(b, w) < 0 <=> Top(b, w)
<1>1. Pow2(w) = 2 * Pow2(w - 1) /\ Pow2(w - 1) \in Nat /\ Pow2(w - 1) >= 1
  BY Pow2Prev
<1>2. b \in Int /\ Pow2(w) \in Int
  BY <1>1
<1>3. CASE b < Pow2(w - 1)
  <2>1. AsSigned(b, w) = b
    BY <1>3 DEF AsSigned
  <2>2. b = b + Pow2(w) * 0
    BY <1>2
  <2>3. Congruent(AsSigned(b, w), b, Pow2(w))
    BY <2>1, <2>2 DEF Congruent
  <2>4. QED BY <1>1, <1>2, <1>3, <2>1, <2>3 DEF SignedRange, Top
<1>4. CASE ~(b < Pow2(w - 1))
  <2>1. AsSigned(b, w) = b - Pow2(w)
    BY <1>4 DEF AsSigned
  <2>2. b - Pow2(w) = b + Pow2(w) * (-1)
    BY <1>2
  <2>3. Congruent(AsSigned(b, w), b, Pow2(w))
    BY <2>1, <2>2 DEF Congruent
  <2>4. QED BY <1>1, <1>2, <1>4, <2>1, <2>3 DEF SignedRange, Top
<1>5. QED BY <1>3, <1>4

\* A signed number is what its bits read as.
LEMMA AsSignedOf ==
    ASSUME NEW w \in Nat, w >= 1, NEW v \in SignedRange(w)
    PROVE  /\ v \in Int /\ v % Pow2(w) \in 0 .. Pow2(w) - 1
           /\ AsSigned(v % Pow2(w), w) = v
           /\ v % Pow2(w) = IF v < 0 THEN v + Pow2(w) ELSE v
<1>1. Pow2(w) = 2 * Pow2(w - 1) /\ Pow2(w - 1) \in Nat /\ Pow2(w - 1) >= 1
  BY Pow2Prev
<1>2. v \in Int /\ -Pow2(w - 1) <= v /\ v < Pow2(w - 1)
  BY <1>1 DEF SignedRange
<1>3. Pow2(w) \in Nat /\ Pow2(w) >= 1
  BY <1>1
<1>4. CASE v < 0
  <2>1. v = Pow2(w) * (-1) + (v + Pow2(w)) /\ v + Pow2(w) \in 0 .. Pow2(w) - 1
    BY <1>1, <1>2, <1>4
  <2>2. v % Pow2(w) = v + Pow2(w)
    BY <1>2, <1>3, <2>1, DivModIs
  <2>3. ~(v + Pow2(w) < Pow2(w - 1)) /\ (v + Pow2(w)) - Pow2(w) = v
    BY <1>1, <1>2
  <2>4. QED BY <1>2, <1>4, <2>1, <2>2, <2>3 DEF AsSigned
<1>5. CASE ~(v < 0)
  <2>1. v \in 0 .. Pow2(w) - 1
    BY <1>1, <1>2, <1>5
  <2>2. v % Pow2(w) = v
    BY <1>3, <2>1, SmallMod
  <2>3. QED BY <1>2, <1>5, <2>1, <2>2 DEF AsSigned
<1>6. QED BY <1>4, <1>5

LEMMA ValuesAre ==
    ASSUME NEW T \in Types
    PROVE  /\ T.signed => Values(T) = SignedRange(T.size)
           /\ ~T.signed /\ T # Bool => Values(T) = 0 .. Pow2(T.size) - 1
           /\ ~T.signed => Values(T) \subseteq 0 .. Pow2(T.size) - 1
           /\ Values(T) \subseteq Int
<1>1. T.signed => T # Bool
  BY BoolIs
<1>2. T.signed => Values(T) = SignedRange(T.size)
  BY <1>1 DEF Values, SignedRange
<1>3. ~T.signed /\ T # Bool => Values(T) = 0 .. Pow2(T.size) - 1
  BY DEF Values
<1>4. T = Bool => Values(T) \subseteq 0 .. Pow2(T.size) - 1
  <2>1. Pow2(Byte) \in Nat /\ Byte < Pow2(Byte) /\ 2 <= Byte /\ Byte \in Nat
    BY Widths, Pow2Pos
  <2>2. QED BY <2>1, BoolIs DEF Values
<1>5. Pow2(T.size) \in Nat /\ Pow2(T.size - 1) \in Nat
  BY TypeFacts, Pow2Pos, Pow2Prev
<1>6. Values(T) \subseteq Int
  <2>1. CASE T.signed
    BY <1>2, <1>5, <2>1 DEF SignedRange
  <2>2. CASE ~T.signed
    BY <1>3, <1>4, <1>5, <2>2
  <2>3. QED BY <2>1, <2>2, TypeFacts
<1>7. QED BY <1>2, <1>3, <1>4, <1>6

\* A register of a normalized type reads back as its value.
LEMMA ReadBack ==
    ASSUME NEW T \in SoundTypes, NEW v \in Values(T)
    PROVE  /\ v \in Int /\ v % Pow2(Storage(T)) \in 0 .. Pow2(Storage(T)) - 1
           /\ T.signed => AsSigned(v % Pow2(Storage(T)), Storage(T)) = v
           /\ ~T.signed => v % Pow2(Storage(T)) = v /\ v >= 0
           /\ SubWord(T) => v < Pow2(T.size)
<1>1. T \in Types /\ T.size \in Nat /\ T.size >= 2 /\ Storage(T) \in Nat /\ Storage(T) >= 2
      /\ T.size <= Storage(T)
  BY TypeFacts DEF SoundTypes
<1>2. Pow2(Storage(T)) \in Nat /\ Pow2(Storage(T)) >= 1 /\ Pow2(T.size) \in Nat
      /\ Pow2(T.size) <= Pow2(Storage(T))
  BY <1>1, Pow2Pos, Pow2Mono
<1>3. CASE T.signed
  <2>1. ~SubWord(T) /\ Storage(T) = T.size
    BY <1>1, <1>3, SubWordTypes, TypeFacts
  <2>2. v \in SignedRange(Storage(T))
    BY <1>1, <1>3, <2>1, ValuesAre
  <2>3. QED BY <1>1, <1>3, <2>1, <2>2, AsSignedOf
<1>4. CASE ~T.signed
  <2>1. v \in 0 .. Pow2(T.size) - 1
    BY <1>1, <1>4, ValuesAre
  <2>2. v \in 0 .. Pow2(Storage(T)) - 1
    BY <1>2, <2>1
  <2>3. QED BY <1>2, <1>4, <2>1, <2>2, SmallMod
<1>5. QED BY <1>1, <1>3, <1>4, TypeFacts

\* Wrapping gives the value of the type that has the same bits.
LEMMA WrapIs ==
    ASSUME NEW T \in Types, NEW x \in Int
    PROVE  /\ Wrap(x, T) \in Int /\ Congruent(Wrap(x, T), x, Pow2(T.size))
           /\ T # Bool => Wrap(x, T) \in Values(T)
           /\ Wrap(x, T) % Pow2(T.size) = x % Pow2(T.size)
<1>1. T.size \in Nat /\ T.size >= 1
  BY TypeFacts
<1> DEFINE m == Pow2(T.size)
<1>2. m \in Nat /\ m >= 1
  BY <1>1, Pow2Pos
<1> HIDE DEF m
<1>3. x % m \in 0 .. m - 1 /\ x % m \in Int /\ (x % m) % m = x % m
  <2>1. x % m \in 0 .. m - 1
    BY <1>2
  <2>2. QED BY <1>2, <2>1, SmallMod
<1>4. CASE T.signed
  <2>1. Wrap(x, T) = AsSigned(x % m, T.size)
    BY <1>4 DEF Wrap, m
  <2>2. Wrap(x, T) \in Int /\ Wrap(x, T) \in SignedRange(T.size) /\ Congruent(Wrap(x, T), x % m, m)
    BY <1>1, <1>3, <2>1, AsSignedIs DEF m
  <2>3. Wrap(x, T) % m = x % m
    BY <1>2, <1>3, <2>2, CongruentMod
  <2>4. QED BY <1>2, <1>4, <2>2, <2>3, CongruentMod, ValuesAre DEF m
<1>5. CASE ~T.signed
  <2>1. Wrap(x, T) = x % m
    BY <1>5 DEF Wrap, m
  <2>2. T # Bool => Wrap(x, T) \in Values(T)
    BY <1>3, <1>5, <2>1, ValuesAre DEF m
  <2>3. QED BY <1>2, <1>3, <2>1, <2>2, CongruentMod DEF m
<1>6. QED BY <1>4, <1>5

LEMMA WrapSelf ==
    ASSUME NEW T \in Types, NEW v \in Values(T)
    PROVE  Wrap(v, T) = v
<1>1. T.size \in Nat /\ T.size >= 1 /\ Pow2(T.size) \in Nat /\ Pow2(T.size) >= 1
  BY TypeFacts, Pow2Pos
<1>2. CASE T.signed
  <2>1. AsSigned(v % Pow2(T.size), T.size) = v
    BY <1>1, <1>2, ValuesAre, AsSignedOf
  <2>2. QED BY <1>2, <2>1 DEF Wrap
<1>3. CASE ~T.signed
  <2>1. v % Pow2(T.size) = v
    BY <1>1, <1>3, ValuesAre, SmallMod
  <2>2. QED BY <1>3, <2>1 DEF Wrap
<1>4. QED BY <1>2, <1>3

-----------------------------------------------------------------------------
(* Registers                                                               *)

LEMMA StorageFacts ==
    ASSUME NEW T \in Types
    PROVE  /\ Storage(T) \in Nat /\ Storage(T) >= 1 /\ T.size \in Nat /\ T.size >= 1
           /\ Pow2(Storage(T)) \in Nat /\ Pow2(Storage(T)) >= 1
           /\ Pow2(T.size) \in Nat /\ Pow2(T.size) >= 1
BY TypeFacts, Pow2Pos

LEMMA WordFacts ==
    /\ Word \in Nat /\ Word >= 1 /\ Pow2(Word) \in Nat /\ Pow2(Word) >= 1
    /\ Half \in Nat /\ Half >= 1 /\ Pow2(Half) \in Nat /\ Pow2(Half) >= 1
BY Widths, Pow2Pos

LEMMA RegIs ==
    ASSUME NEW w \in Nat, NEW x \in Int
    PROVE  /\ Reg(x, w).width = w /\ Reg(x, w).bits = x % Pow2(w)
           /\ Reg(x, w).bits \in 0 .. Pow2(w) - 1 /\ Reg(x, w).bits \in Int
           /\ Congruent(Reg(x, w).bits, x, Pow2(w))
<1>1. Reg(x, w).width = w /\ Reg(x, w).bits = x % Pow2(w)
  BY DEF Reg
<1>2. Pow2(w) \in Nat /\ Pow2(w) >= 1
  BY Pow2Pos
<1>3. x % Pow2(w) \in 0 .. Pow2(w) - 1
  BY <1>2
<1>4. QED BY <1>1, <1>2, <1>3, ModCongruent

LEMMA RegCongruent ==
    ASSUME NEW w \in Nat, NEW x \in Int, NEW y \in Int, Congruent(x, y, Pow2(w))
    PROVE  Reg(x, w) = Reg(y, w)
<1>1. Pow2(w) \in Nat /\ Pow2(w) >= 1
  BY Pow2Pos
<1>2. x % Pow2(w) = y % Pow2(w)
  BY <1>1, CongruentMod
<1>3. QED BY <1>2 DEF Reg

LEMMA RegOfBits ==
    ASSUME NEW w \in Nat, NEW x \in 0 .. Pow2(w) - 1
    PROVE  Reg(x, w) = [bits |-> x, width |-> w] /\ Reg(x, w).bits = x
<1>1. Pow2(w) \in Nat /\ Pow2(w) >= 1
  BY Pow2Pos
<1>2. QED BY <1>1, SmallMod DEF Reg

\* A result that is right modulo 2^w is the register of the wrapped value.
LEMMA RegWrap ==
    ASSUME NEW T \in Types, ~SubWord(T), NEW x \in Int
    PROVE  Reg(x, Storage(T)) = Argument(T, Wrap(x, T))
<1>1. Storage(T) = T.size
  BY TypeFacts
<1>2. Wrap(x, T) % Pow2(T.size) = x % Pow2(T.size)
  BY WrapIs
<1>3. QED BY <1>1, <1>2 DEF Argument, Reg

\* A constant is normalized unless its type is Int8.
LEMMA ConstantIs ==
    ASSUME NEW T \in SoundTypes, NEW v \in Values(T)
    PROVE  Constant(T, v) = Argument(T, v)
<1>1. T \in Types
  BY DEF SoundTypes
<1>2. v \in Int /\ Pow2(T.size) \in Nat /\ Pow2(T.size) >= 1
  BY <1>1, ReadBack, StorageFacts
<1>3. CASE SubWord(T)
  <2>1. v \in 0 .. Pow2(T.size) - 1
    BY <1>1, <1>3, ValuesAre, SubWordTypes
  <2>2. v % Pow2(T.size) = v
    BY <1>2, <2>1, SmallMod
  <2>3. QED BY <2>2 DEF Constant, Argument
<1>4. CASE ~SubWord(T)
  <2>1. Storage(T) = T.size
    BY <1>1, <1>4, TypeFacts
  <2>2. Congruent(v % Pow2(T.size), v, Pow2(T.size)) /\ v % Pow2(T.size) \in Int
    BY <1>2, ModCongruent
  <2>3. Reg(v % Pow2(T.size), T.size) = Reg(v, T.size)
    BY <1>1, <1>2, <2>2, RegCongruent, StorageFacts
  <2>4. QED BY <2>1, <2>3 DEF Constant, Argument
<1>5. QED BY <1>3, <1>4

LEMMA SecondIs ==
    ASSUME type \in SoundTypes, NEW v \in Values(type), NEW o \in Second(v)
    PROVE  o = Argument(type, v)
BY ConstantIs DEF Second

LEMMA BinopIs ==
    ASSUME NEW a, NEW b, NEW w, a.width = w, b.width = w, w \in Nat
    PROVE  /\ Binop("add", a, b) = Reg(a.bits + b.bits, w)
           /\ Binop("sub", a, b) = Reg(a.bits - b.bits, w)
           /\ Binop("mul", a, b) = Reg(a.bits * b.bits, w)
           /\ Binop("and", a, b) = Reg(And(a.bits, b.bits, w), w)
           /\ Binop("xor", a, b) = Reg(Xor(a.bits, b.bits, w), w)
           /\ Binop("sdiv", a, b) = Reg(Quotient(AsSigned(a.bits, w), AsSigned(b.bits, w)), w)
           /\ Binop("udiv", a, b) = Reg(a.bits \div b.bits, w)
           /\ Binop("urem", a, b) = Reg(a.bits % b.bits, w)
           /\ Binop("shl", a, b) = Reg(a.bits * Pow2(b.bits % w), w)
           /\ Binop("ushr", a, b) = Reg(a.bits \div Pow2(b.bits % w), w)
           /\ Binop("sshr", a, b) = Reg(AsSigned(a.bits, w) \div Pow2(b.bits % w), w)
<1>1. Common(a, b) = w
  BY DEF Common
<1>2. QED BY <1>1 DEF Binop

LEMMA IcmpIs ==
    ASSUME NEW a, NEW b, NEW w, a.width = w, b.width = w, w \in Nat
    PROVE  /\ Icmp("eq", a, b) <=> a.bits = b.bits
           /\ Icmp("slt", a, b) <=> AsSigned(a.bits, w) < AsSigned(b.bits, w)
           /\ Icmp("ult", a, b) <=> a.bits < b.bits
<1>1. Common(a, b) = w
  BY DEF Common
<1>2. QED BY <1>1 DEF Icmp

LEMMA ArgumentIs ==
    ASSUME NEW T \in Types, NEW v \in Int
    PROVE  /\ Argument(T, v).width = Storage(T)
           /\ Argument(T, v).bits = v % Pow2(Storage(T))
           /\ Argument(T, v).bits \in 0 .. Pow2(Storage(T)) - 1 /\ Argument(T, v).bits \in Int
           /\ Congruent(Argument(T, v).bits, v, Pow2(Storage(T)))
BY RegIs, StorageFacts DEF Argument

\* add_int, sub_int and mul_int are right modulo 2^w.
LEMMA RingOps ==
    ASSUME NEW T \in Types, ~SubWord(T), NEW x \in Int, NEW y \in Int
    PROVE  /\ Binop("add", Argument(T, x), Argument(T, y)) = Argument(T, Wrap(x + y, T))
           /\ Binop("sub", Argument(T, x), Argument(T, y)) = Argument(T, Wrap(x - y, T))
           /\ Binop("mul", Argument(T, x), Argument(T, y)) = Argument(T, Wrap(x * y, T))
<1> DEFINE a == Argument(T, x)
           b == Argument(T, y)
           w == Storage(T)
<1>1. /\ a.width = w /\ a.bits \in Int /\ Congruent(a.bits, x, Pow2(w))
      /\ b.width = w /\ b.bits \in Int /\ Congruent(b.bits, y, Pow2(w))
  BY ArgumentIs
<1>2. w \in Nat /\ Pow2(w) \in Nat /\ Pow2(w) >= 1
  BY StorageFacts
<1> HIDE DEF a, b, w
<1>3. /\ Congruent(a.bits + b.bits, x + y, Pow2(w))
      /\ Congruent(a.bits - b.bits, x - y, Pow2(w))
      /\ Congruent(a.bits * b.bits, x * y, Pow2(w))
  BY <1>1, <1>2, CongruentOps
<1>4. /\ a.bits + b.bits \in Int /\ a.bits - b.bits \in Int /\ a.bits * b.bits \in Int
      /\ x + y \in Int /\ x - y \in Int /\ x * y \in Int
  BY <1>1
<1>5. /\ Reg(a.bits + b.bits, w) = Reg(x + y, w)
      /\ Reg(a.bits - b.bits, w) = Reg(x - y, w)
      /\ Reg(a.bits * b.bits, w) = Reg(x * y, w)
  BY <1>2, <1>3, <1>4, RegCongruent
<1>6. /\ Reg(x + y, w) = Argument(T, Wrap(x + y, T))
      /\ Reg(x - y, w) = Argument(T, Wrap(x - y, T))
      /\ Reg(x * y, w) = Argument(T, Wrap(x * y, T))
  BY <1>4, RegWrap DEF w
<1>7. /\ Binop("add", a, b) = Reg(a.bits + b.bits, w)
      /\ Binop("sub", a, b) = Reg(a.bits - b.bits, w)
      /\ Binop("mul", a, b) = Reg(a.bits * b.bits, w)
  BY <1>1, <1>2, BinopIs
<1>8. QED BY <1>5, <1>6, <1>7 DEF a, b

\* Comparisons of registers compare the values.
LEMMA Compares ==
    ASSUME NEW T \in SoundTypes, NEW x \in Values(T), NEW y \in Values(T)
    PROVE  /\ Icmp("eq", Argument(T, x), Argument(T, y)) <=> x = y
           /\ T.signed => (Icmp("slt", Argument(T, x), Argument(T, y)) <=> x < y)
           /\ ~T.signed => (Icmp("ult", Argument(T, x), Argument(T, y)) <=> x < y)
<1> DEFINE a == Argument(T, x)
           b == Argument(T, y)
           w == Storage(T)
<1>1. T \in Types /\ x \in Int /\ y \in Int
  BY ReadBack DEF SoundTypes
<1>2. a.width = w /\ a.bits = x % Pow2(w) /\ b.width = w /\ b.bits = y % Pow2(w) /\ w \in Nat
  BY <1>1, ArgumentIs, StorageFacts
<1>3. /\ T.signed => AsSigned(x % Pow2(w), w) = x /\ AsSigned(y % Pow2(w), w) = y
      /\ ~T.signed => x % Pow2(w) = x /\ y % Pow2(w) = y
  BY ReadBack
<1>4. T.signed \in BOOLEAN
  BY <1>1, TypeFacts
<1> HIDE DEF a, b, w
<1>5. /\ Icmp("eq", a, b) <=> a.bits = b.bits
      /\ Icmp("slt", a, b) <=> AsSigned(a.bits, w) < AsSigned(b.bits, w)
      /\ Icmp("ult", a, b) <=> a.bits < b.bits
  BY <1>2, IcmpIs
<1>6. a.bits = b.bits <=> x = y
  BY <1>2, <1>3, <1>4
<1>7. T.signed => (AsSigned(a.bits, w) < AsSigned(b.bits, w) <=> x < y)
  BY <1>2, <1>3
<1>8. ~T.signed => (a.bits < b.bits <=> x < y)
  BY <1>2, <1>3
<1>9. QED BY <1>5, <1>6, <1>7, <1>8 DEF a, b

-----------------------------------------------------------------------------
(* The lowerings                                                           *)

WordTypes == {Int64, UInt64}

LEMMA WordTypesAre ==
    ASSUME NEW T \in WordTypes
    PROVE  /\ T \in Types /\ T \in SoundTypes /\ T.size = Word /\ ~SubWord(T)
           /\ Storage(T) = Word /\ T # Bool
<1>1. T \in Types /\ T.size = Word
  BY DEF WordTypes, Types, Int64, UInt64, Type
<1>2. T # Int8 /\ T # Bool
  BY <1>1, Widths DEF Int8, Bool, Type
<1>3. QED BY <1>1, <1>2, Widths DEF SoundTypes, SubWord, Storage

LEMMA OnesAre ==
    ASSUME NEW w \in Nat
    PROVE  Reg(-1, w).bits = Pow2(w) - 1 /\ Reg(-1, w).width = w
<1>1. Pow2(w) \in Nat /\ Pow2(w) >= 1
  BY Pow2Pos
<1>2. (-1) % Pow2(w) = Pow2(w) - 1
  <2> DEFINE m == Pow2(w)
             x == -1
             r == m - 1
  <2>1. m \in Nat /\ m >= 1 /\ x \in Int /\ r \in 0 .. m - 1 /\ x = m * (-1) + r
    BY <1>1
  <2> HIDE DEF m, x, r
  <2>2. x % m = r
    BY <2>1, DivModIs
  <2>3. QED BY <2>2 DEF m, x, r
<1>3. QED BY <1>2 DEF Reg

\* The complement of a register is that of the value.
LEMMA FlipAll ==
    ASSUME NEW w \in Nat, NEW x \in Int, NEW r, r.width = w, r.bits = x % Pow2(w)
    PROVE  /\ Binop("xor", r, Reg(-1, w)) = Reg(-1 - x, w)
           /\ Binop("xor", r, Reg(-1, w)).bits = Pow2(w) - 1 - r.bits
<1>1. Pow2(w) \in Nat /\ Pow2(w) >= 1
  BY Pow2Pos
<1>2. r.bits \in 0 .. Pow2(w) - 1 /\ r.bits \in Int
  BY <1>1
<1>3. Binop("xor", r, Reg(-1, w)) = Reg(Xor(r.bits, Pow2(w) - 1, w), w)
  BY OnesAre, BinopIs
<1>4. Xor(r.bits, Pow2(w) - 1, w) = Pow2(w) - 1 - r.bits
  BY <1>2, XorOnes
<1>5. Pow2(w) - 1 - r.bits \in 0 .. Pow2(w) - 1
  BY <1>1, <1>2
<1>6. Congruent(r.bits, x, Pow2(w)) /\ Congruent(-1, -1, Pow2(w)) /\ -1 \in Int
  BY <1>1, ModCongruent
<1>7. Congruent(-1 - r.bits, -1 - x, Pow2(w))
  BY <1>1, <1>2, <1>6, CongruentOps
<1>8. Congruent(Pow2(w) - 1 - r.bits, -1 - x, Pow2(w))
  <2>1. PICK q \in Int : -1 - r.bits = -1 - x + Pow2(w) * q
    BY <1>7 DEF Congruent
  <2>2. Pow2(w) * (q + 1) = Pow2(w) * q + Pow2(w) /\ q + 1 \in Int
    BY <1>1
  <2>3. Pow2(w) - 1 - r.bits = -1 - x + Pow2(w) * (q + 1)
    BY <1>1, <1>2, <2>1, <2>2
  <2>4. QED BY <2>2, <2>3 DEF Congruent
<1>9. -1 - x \in Int /\ Pow2(w) - 1 - r.bits \in Int
  BY <1>5
<1>10. Reg(Pow2(w) - 1 - r.bits, w) = Reg(-1 - x, w)
  BY <1>8, <1>9, RegCongruent
<1>11. Reg(Pow2(w) - 1 - r.bits, w).bits = Pow2(w) - 1 - r.bits
  BY <1>5, RegOfBits
<1>12. QED BY <1>3, <1>4, <1>10, <1>11

LEMMA NegIs ==
    ASSUME NEW T \in WordTypes, NEW v \in Int
    PROVE  NegInt(Argument(T, v), T) = Argument(T, Wrap(-v, T))
<1>1. T \in Types /\ ~SubWord(T) /\ Storage(T) = Word
  BY WordTypesAre
<1>2. NegInt(Argument(T, v), T) = Binop("sub", Argument(T, 0), Argument(T, v))
  BY <1>1 DEF NegInt, Argument
<1>3. Binop("sub", Argument(T, 0), Argument(T, v)) = Argument(T, Wrap(0 - v, T))
  BY <1>1, RingOps
<1>4. 0 - v = -v
  OBVIOUS
<1>5. QED BY <1>2, <1>3, <1>4

LEMMA NotWord ==
    ASSUME NEW T \in WordTypes, NEW v \in Int
    PROVE  NotInt(Argument(T, v), T) = Argument(T, Wrap(-1 - v, T))
<1>1. T \in Types /\ ~SubWord(T) /\ Storage(T) = Word /\ T # Bool
  BY WordTypesAre
<1>2. NotInt(Argument(T, v), T) = Binop("xor", Argument(T, v), Reg(-1, Word))
  BY <1>1 DEF NotInt
<1>3. Binop("xor", Argument(T, v), Reg(-1, Word)) = Reg(-1 - v, Word)
  BY <1>1, ArgumentIs, FlipAll, WordFacts
<1>4. -1 - v \in Int
  OBVIOUS
<1>5. Reg(-1 - v, Word) = Argument(T, Wrap(-1 - v, T))
  BY <1>1, <1>4, RegWrap
<1>6. QED BY <1>2, <1>3, <1>5

LEMMA UInt8Is ==
    /\ UInt8 \in Types /\ UInt8 \in SoundTypes /\ SubWord(UInt8) /\ UInt8 # Bool
    /\ UInt8.size = Byte /\ Storage(UInt8) = Half /\ ~UInt8.signed
<1>1. UInt8 # Bool /\ UInt8 # Int8
  BY DEF UInt8, Bool, Int8, Type
<1>2. UInt8.size = Byte /\ ~UInt8.signed
  BY DEF UInt8, Type
<1>3. QED BY <1>1, <1>2, Widths DEF Types, SoundTypes, SubWord, Storage

\* A remainder by a power determines those by smaller ones.
LEMMA ModMod ==
    ASSUME NEW k \in Nat, NEW w \in Nat, k <= w, NEW x \in Int, NEW y \in Int,
           Congruent(x, y, Pow2(w))
    PROVE  Congruent(x, y, Pow2(k))
<1>1. PICK q \in Int : x = y + Pow2(w) * q
  BY DEF Congruent
<1>2. w - k \in Nat /\ k + (w - k) = w
  OBVIOUS
<1>3. Pow2(w) = Pow2(k) * Pow2(w - k) /\ Pow2(k) \in Nat /\ Pow2(w - k) \in Nat
  <2>1. Pow2(k + (w - k)) = Pow2(k) * Pow2(w - k)
    BY <1>2, Pow2Plus
  <2>2. Pow2(k) \in Nat /\ Pow2(w - k) \in Nat
    BY <1>2, Pow2Pos
  <2>3. QED BY <1>2, <2>1, <2>2
<1>4. (Pow2(k) * Pow2(w - k)) * q = Pow2(k) * (Pow2(w - k) * q) /\ Pow2(w - k) * q \in Int
  BY <1>3
<1>5. x = y + Pow2(k) * (Pow2(w - k) * q)
  BY <1>1, <1>3, <1>4
<1>6. QED BY <1>4, <1>5 DEF Congruent

LEMMA NotByte ==
    ASSUME NEW v \in Values(UInt8)
    PROVE  NotInt(Argument(UInt8, v), UInt8) = Argument(UInt8, Wrap(-1 - v, UInt8))
<1> DEFINE r == Argument(UInt8, v)
           f == Binop("xor", r, Reg(-1, Half))
           m == Pow2(Byte)
           M == Pow2(Half)
<1>1. Byte \in Nat /\ Half \in Nat /\ Byte <= Half /\ m \in Nat /\ m >= 1 /\ M \in Nat /\ M >= m
  BY Widths, Pow2Pos, Pow2Mono
<1>2. v \in Int /\ -1 - v \in Int
  BY UInt8Is, ReadBack
<1>3. r.width = Half /\ r.bits = v % M
  BY <1>2, UInt8Is, ArgumentIs
<1>4. f = Reg(-1 - v, Half)
  BY <1>1, <1>2, <1>3, FlipAll
<1>5. f.width = Half /\ f.bits \in 0 .. M - 1 /\ f.bits \in Nat /\ Congruent(f.bits, -1 - v, M)
  <2> DEFINE x == -1 - v
  <2>1. x \in Int /\ f = Reg(x, Half)
    BY <1>2, <1>4
  <2> HIDE DEF f, x
  <2>2. f.width = Half /\ f.bits \in 0 .. M - 1 /\ Congruent(f.bits, x, M)
    BY <1>1, <2>1, RegIs
  <2>3. QED BY <1>1, <2>2 DEF x
<1>6. Reg(m - 1, Half).bits = m - 1 /\ Reg(m - 1, Half).width = Half
  <2>1. m - 1 \in 0 .. M - 1
    BY <1>1
  <2>2. QED BY <1>1, <2>1, RegOfBits
<1> HIDE DEF f, r
<1>7. Binop("and", f, Reg(m - 1, Half)) = Reg(And(f.bits, m - 1, Half), Half)
  BY <1>1, <1>5, <1>6, BinopIs
<1>8. And(f.bits, m - 1, Half) = f.bits % m
  BY <1>1, <1>5, AndMask
<1>9. f.bits % m = (-1 - v) % m
  <2> DEFINE x == -1 - v
             b == f.bits
  <2>1. x \in Int /\ b \in Int /\ Congruent(b, x, M)
    BY <1>2, <1>5
  <2> HIDE DEF x, b
  <2>2. Congruent(b, x, m)
    BY <1>1, <2>1, ModMod
  <2> HIDE DEF m
  <2>3. b % m = x % m
    BY <1>1, <2>1, <2>2, CongruentMod
  <2>4. QED BY <2>3 DEF x, b
<1>10. Wrap(-1 - v, UInt8) = (-1 - v) % m
  BY UInt8Is DEF Wrap
<1>11. NotInt(r, UInt8) = Binop("and", f, Reg(m - 1, Half))
  BY UInt8Is DEF NotInt, f
<1>12. QED BY <1>7, <1>8, <1>9, <1>10, <1>11, UInt8Is DEF Argument, r

LEMMA FlagIs ==
    ASSUME NEW p \in BOOLEAN
    PROVE  Flag(p) = Argument(Bool, IF p THEN 1 ELSE 0) /\ (IF p THEN 1 ELSE 0) \in Values(Bool)
<1>1. Storage(Bool) = Half
  BY BoolIs, TypeFacts DEF SoundTypes
<1>2. QED BY <1>1 DEF Flag, Argument, Values

LEMMA NotBool ==
    ASSUME NEW v \in Values(Bool)
    PROVE  NotInt(Argument(Bool, v), Bool) = Argument(Bool, 1 - v) /\ 1 - v \in Values(Bool)
<1>1. v \in {0, 1} /\ 0 \in Values(Bool)
  BY DEF Values
<1>2. Storage(Bool) = Half
  BY BoolIs, TypeFacts DEF SoundTypes
<1>3. Icmp("eq", Argument(Bool, v), Argument(Bool, 0)) <=> v = 0
  BY <1>1, BoolIs, Compares
<1>4. Argument(Bool, 0) = Reg(0, Half)
  BY <1>2 DEF Argument
<1>5. NotInt(Argument(Bool, v), Bool) = Flag(Icmp("eq", Argument(Bool, v), Reg(0, Half)))
  BY DEF NotInt
<1>6. Flag(Icmp("eq", Argument(Bool, v), Reg(0, Half))) = Reg(1 - v, Half)
  BY <1>1, <1>3, <1>4 DEF Flag
<1>7. QED BY <1>1, <1>2, <1>5, <1>6 DEF Argument, Values

\* The amount of a shift is taken modulo the width.
LEMMA AmountIs ==
    ASSUME NEW n \in 0 .. Word - 1
    PROVE  Reg(n, Word).width = Word /\ Reg(n, Word).bits % Word = n /\ n \in Nat
<1>1. Word \in Nat /\ Word >= 1 /\ Word < Pow2(Word) /\ Pow2(Word) \in Nat
  BY Widths, Pow2Pos
<1>2. n \in 0 .. Pow2(Word) - 1 /\ n \in Nat
  BY <1>1
<1>3. Reg(n, Word).bits = n /\ Reg(n, Word).width = Word
  BY <1>1, <1>2, RegOfBits
<1>4. n % Word = n
  BY <1>1, SmallMod
<1>5. QED BY <1>2, <1>3, <1>4

LEMMA ShlIs ==
    ASSUME NEW T \in WordTypes, NEW v \in Int, NEW n \in 0 .. Word - 1
    PROVE  Binop("shl", Argument(T, v), Reg(n, Word)) = Argument(T, Wrap(v * Pow2(n), T))
<1> DEFINE r == Argument(T, v)
           d == Reg(n, Word)
           p == Pow2(n)
<1>1. T \in Types /\ ~SubWord(T) /\ Storage(T) = Word
  BY WordTypesAre
<1>2. r.width = Word /\ r.bits \in Int /\ Congruent(r.bits, v, Pow2(Word))
  BY <1>1, ArgumentIs
<1>3. d.width = Word /\ d.bits % Word = n /\ n \in Nat
  BY AmountIs
<1>4. p \in Int
  BY <1>3, Pow2Pos
<1> HIDE DEF r, d
<1>5. Binop("shl", r, d) = Reg(r.bits * p, Word)
  BY <1>2, <1>3, BinopIs, WordFacts
<1> HIDE DEF p
<1>6. Congruent(p, p, Pow2(Word))
  BY <1>4, ModCongruent, WordFacts
<1>7. Congruent(r.bits * p, v * p, Pow2(Word)) /\ r.bits * p \in Int /\ v * p \in Int
  <2> DEFINE b == r.bits
             m == Pow2(Word)
  <2>1. b \in Int /\ Congruent(b, v, m) /\ Congruent(p, p, m) /\ m \in Nat /\ m >= 1
    BY <1>2, <1>6, WordFacts
  <2> HIDE DEF b, m
  <2>2. Congruent(b * p, v * p, m)
    BY <1>4, <2>1, CongruentOps
  <2>3. b * p \in Int /\ v * p \in Int
    BY <1>4, <2>1
  <2>4. QED BY <2>2, <2>3 DEF b, m
<1>8. Reg(r.bits * p, Word) = Reg(v * p, Word)
  BY <1>7, RegCongruent, WordFacts
<1>9. Reg(v * p, Word) = Argument(T, Wrap(v * p, T))
  BY <1>1, <1>7, RegWrap
<1>10. QED BY <1>5, <1>8, <1>9 DEF r, d, p

LEMMA UshrIs ==
    ASSUME NEW T \in WordTypes, NEW v \in Int, NEW n \in 0 .. Word - 1
    PROVE  Binop("ushr", Argument(T, v), Reg(n, Word))
             = Argument(T, Wrap((v % Pow2(T.size)) \div Pow2(n), T))
<1> DEFINE r == Argument(T, v)
           d == Reg(n, Word)
           x == (v % Pow2(T.size)) \div Pow2(n)
<1>1. T \in Types /\ ~SubWord(T) /\ Storage(T) = Word /\ T.size = Word
  BY WordTypesAre
<1>2. r.width = Word /\ r.bits = v % Pow2(T.size) /\ r.bits \in Int
  BY <1>1, ArgumentIs
<1>3. d.width = Word /\ d.bits % Word = n /\ n \in Nat
  BY AmountIs
<1>4. Pow2(n) \in Nat /\ Pow2(n) >= 1
  BY <1>3, Pow2Pos
<1>5. x \in Int
  BY <1>2, <1>4
<1> HIDE DEF r, d
<1>6. Binop("ushr", r, d) = Reg(x, Word)
  BY <1>2, <1>3, BinopIs, WordFacts
<1> HIDE DEF x
<1>7. Reg(x, Word) = Argument(T, Wrap(x, T))
  BY <1>1, <1>5, RegWrap
<1>8. QED BY <1>6, <1>7 DEF r, d, x

LEMMA Int64Is ==
    /\ Int64 \in WordTypes /\ Int64 \in Types /\ Int64 \in SoundTypes /\ Int64.signed
    /\ ~SubWord(Int64) /\ Storage(Int64) = Word /\ Int64.size = Word
    /\ Values(Int64) = SignedRange(Word)
<1>1. Int64 \in WordTypes /\ Int64.signed
  BY DEF WordTypes, Int64, Type
<1>2. QED BY <1>1, WordTypesAre, ValuesAre

\* Rounding down stays inside a range that has 0.
LEMMA DivRange ==
    ASSUME NEW h \in Nat, NEW v \in Int, -h <= v, v < h, NEW d \in Nat, d >= 1
    PROVE  -h <= v \div d /\ v \div d < h /\ v \div d \in Int
<1>1. v \div d \in Int /\ v % d \in 0 .. d - 1 /\ v = d * (v \div d) + (v % d)
  BY DivMod
<1> DEFINE q == v \div d
<1>2. q \in Int /\ d * q <= v /\ v < d * q + d
  BY <1>1
<1> HIDE DEF q
<1>3. ASSUME q >= h
      PROVE  FALSE
  <2>1. d * q >= q
    BY <1>2, <1>3
  <2>2. QED BY <1>2, <1>3, <2>1
<1>4. ASSUME q < -h
      PROVE  FALSE
  <2>1. d * (q + 1) <= q + 1
    BY <1>2, <1>4
  <2>2. d * (q + 1) = d * q + d
    BY <1>2
  <2>3. v < -h
    BY <1>2, <1>4, <2>1, <2>2
  <2>4. QED BY <2>3
<1>5. QED BY <1>2, <1>3, <1>4 DEF q

LEMMA SshrIs ==
    ASSUME NEW v \in Values(Int64), NEW n \in 0 .. Word - 1
    PROVE  /\ Binop("sshr", Argument(Int64, v), Reg(n, Word)) = Argument(Int64, v \div Pow2(n))
           /\ v \div Pow2(n) \in Values(Int64)
<1> DEFINE r == Argument(Int64, v)
           d == Reg(n, Word)
<1>1. v \in Int /\ AsSigned(v % Pow2(Word), Word) = v
  BY Int64Is, ReadBack
<1>2. r.width = Word /\ r.bits = v % Pow2(Word)
  BY <1>1, Int64Is, ArgumentIs
<1>3. d.width = Word /\ d.bits % Word = n /\ n \in Nat
  BY AmountIs
<1> HIDE DEF r, d
<1>4. Binop("sshr", r, d) = Reg(v \div Pow2(n), Word)
  BY <1>1, <1>2, <1>3, BinopIs, WordFacts
<1>5. v \div Pow2(n) \in Values(Int64)
  <2>1. Pow2(Word - 1) \in Nat /\ Pow2(n) \in Nat /\ Pow2(n) >= 1
    BY <1>3, WordFacts, Pow2Pos, Pow2Prev
  <2>2. -Pow2(Word - 1) <= v /\ v < Pow2(Word - 1)
    BY <2>1, Int64Is DEF SignedRange
  <2>3. -Pow2(Word - 1) <= v \div Pow2(n) /\ v \div Pow2(n) < Pow2(Word - 1) /\ v \div Pow2(n) \in Int
    BY <1>1, <2>1, <2>2, DivRange
  <2>4. QED BY <2>1, <2>3, Int64Is DEF SignedRange
<1>6. QED BY <1>4, <1>5, Int64Is DEF Argument, r, d

LEMMA FlipIs ==
    ASSUME NEW x \in Values(Int64), NEW y \in Values(Int64)
    PROVE  FlipsignInt(Argument(Int64, x), Argument(Int64, y), Int64)
             = Argument(Int64, Wrap(IF y < 0 THEN -x ELSE x, Int64))
<1> DEFINE r == Argument(Int64, x)
           s == Binop("sshr", Argument(Int64, y), Reg(Word - 1, Word))
           h == Pow2(Word - 1)
<1>1. x \in Int /\ y \in Int /\ Word - 1 \in 0 .. Word - 1
  BY Int64Is, ReadBack, WordFacts
<1>2. s = Argument(Int64, y \div h)
  BY <1>1, SshrIs
<1>3. h \in Nat /\ h >= 1 /\ -h <= y /\ y < h
  <2>1. h \in Nat /\ h >= 1
    BY WordFacts, Pow2Prev
  <2>2. QED BY <2>1, Int64Is DEF SignedRange
<1>4. FlipsignInt(r, Argument(Int64, y), Int64) = Binop("sub", Binop("xor", r, s), s)
  BY Int64Is DEF FlipsignInt
<1>5. r.width = Word /\ r.bits = x % Pow2(Word) /\ r.bits \in 0 .. Pow2(Word) - 1
  BY <1>1, Int64Is, ArgumentIs
<1>6. r = Reg(x, Word)
  BY Int64Is DEF Argument
<1>7. CASE y < 0
  <2>1. y = h * (-1) + (y + h) /\ y + h \in 0 .. h - 1
    BY <1>1, <1>3, <1>7
  <2>2. y \div h = -1
    BY <1>1, <1>3, <2>1, DivModIs
  <2>3. s = Reg(-1, Word) /\ s = Argument(Int64, -1)
    BY <1>2, <2>2, Int64Is DEF Argument
  <2> HIDE DEF s, r, h
  <2>4. Binop("xor", r, s) = Reg(-1 - x, Word)
    BY <1>1, <1>5, <2>3, FlipAll, WordFacts
  <2>5. Binop("xor", r, s) = Argument(Int64, -1 - x)
    BY <2>4, Int64Is DEF Argument
  <2> DEFINE z == -1 - x
  <2>6. z \in Int /\ -1 \in Int /\ z - (-1) = -x
    BY <1>1
  <2> HIDE DEF z
  <2>7. Binop("sub", Argument(Int64, z), Argument(Int64, -1)) = Argument(Int64, Wrap(z - (-1), Int64))
    BY <2>6, Int64Is, RingOps
  <2>8. Binop("sub", Binop("xor", r, s), s) = Argument(Int64, Wrap(-x, Int64))
    BY <2>3, <2>5, <2>6, <2>7 DEF z
  <2>9. QED BY <1>4, <1>7, <2>8 DEF r
<1>8. CASE ~(y < 0)
  <2>1. y \div h = 0
    BY <1>1, <1>3, <1>8, SmallMod
  <2>2. s = Reg(0, Word) /\ s = Argument(Int64, 0)
    BY <1>2, <2>1, Int64Is DEF Argument
  <2>3. s.width = Word /\ s.bits = 0
    <3>1. 0 \in 0 .. Pow2(Word) - 1
      BY WordFacts
    <3>2. QED BY <2>2, <3>1, RegOfBits, WordFacts
  <2> HIDE DEF s, h
  <2>4. Binop("xor", r, s) = Reg(r.bits, Word)
    <3> HIDE DEF r
    <3>1. Binop("xor", r, s) = Reg(Xor(r.bits, 0, Word), Word)
      BY <1>5, <2>3, BinopIs, WordFacts
    <3>2. QED BY <1>5, <3>1, XorZero, WordFacts
  <2>5. Reg(r.bits, Word) = r
    <3>1. r.bits \in Int /\ Congruent(r.bits, x, Pow2(Word))
      BY <1>1, Int64Is, ArgumentIs
    <3>2. QED BY <1>1, <1>6, <3>1, RegCongruent, WordFacts
  <2>6. Binop("sub", r, Argument(Int64, 0)) = Argument(Int64, Wrap(x - 0, Int64)) /\ x - 0 = x
    BY <1>1, Int64Is, RingOps
  <2>7. Binop("sub", Binop("xor", r, s), s) = Argument(Int64, Wrap(x, Int64))
    BY <2>2, <2>4, <2>5, <2>6
  <2>8. QED BY <1>4, <1>8, <2>7
<1>9. QED BY <1>7, <1>8

\* Counts of bits are numbers.
LEMMA CountsAre ==
    ASSUME NEW w \in Nat, NEW b \in Int
    PROVE  /\ LeadingZeros(b, w) \in Int /\ LeadingZeros(b, w) \in 0 .. w
           /\ TrailingZeros(b, w) \in Int /\ TrailingZeros(b, w) \in 0 .. w
<1> DEFINE A == {i \in 0 .. w - 1 : Pow2(i) <= b}
           B == {i \in 1 .. w : b % Pow2(i) = 0}
<1>1. IsFiniteSet(0 .. w - 1) /\ Cardinality(0 .. w - 1) = w
  BY FS_Interval
<1>2. IsFiniteSet(1 .. w) /\ Cardinality(1 .. w) = w
  BY FS_Interval
<1>3. A \subseteq 0 .. w - 1 /\ B \subseteq 1 .. w
  OBVIOUS
<1> HIDE DEF A, B
<1>4. IsFiniteSet(A) /\ Cardinality(A) <= w
  BY <1>1, <1>3, FS_Subset
<1>5. IsFiniteSet(B) /\ Cardinality(B) <= w
  BY <1>2, <1>3, FS_Subset
<1>6. Cardinality(A) \in Nat /\ Cardinality(B) \in Nat
  BY <1>4, <1>5, FS_CardinalityType
<1>7. LeadingZeros(b, w) = w - Cardinality(A) /\ TrailingZeros(b, w) = Cardinality(B)
  BY DEF LeadingZeros, TrailingZeros, A, B
<1>8. QED BY <1>4, <1>5, <1>6, <1>7

\* The zeros above the bits of a type of k bits, and below.
LEMMA CountsBelow ==
    ASSUME NEW k \in Nat, NEW w \in Nat, k < w, NEW b \in 0 .. Pow2(k) - 1
    PROVE  /\ LeadingZeros(b, w) - (w - k) = LeadingZeros(b, k)
           /\ TrailingZeros(b, k) = IF k < TrailingZeros(b, w) THEN k ELSE TrailingZeros(b, w)
<1>0. Pow2(k) \in Nat /\ b \in Nat
  BY Pow2Pos
<1>1. LeadingZeros(b, w) - (w - k) = LeadingZeros(b, k)
  <2> DEFINE A(n) == {i \in 0 .. n - 1 : Pow2(i) <= b}
  <2>1. \A i \in 0 .. w - 1 : Pow2(i) <= b => i < k
    <3>1. SUFFICES ASSUME NEW i \in 0 .. w - 1, Pow2(i) <= b, k <= i
                   PROVE  FALSE
      OBVIOUS
    <3>2. i \in Nat /\ Pow2(i) \in Nat /\ Pow2(k) <= Pow2(i)
      BY <3>1, Pow2Mono, Pow2Pos
    <3>3. QED BY <1>0, <3>1, <3>2
  <2>2. A(w) = A(k)
    BY <2>1
  <2>3. IsFiniteSet(0 .. k - 1) /\ A(k) \subseteq 0 .. k - 1
    BY FS_Interval
  <2>4. Cardinality(A(k)) \in Nat
    BY <2>3, FS_Subset, FS_CardinalityType
  <2>5. LeadingZeros(b, w) = w - Cardinality(A(w)) /\ LeadingZeros(b, k) = k - Cardinality(A(k))
    BY DEF LeadingZeros
  <2> HIDE DEF A
  <2>6. QED BY <2>2, <2>4, <2>5
<1>2. TrailingZeros(b, k) = IF k < TrailingZeros(b, w) THEN k ELSE TrailingZeros(b, w)
  <2> DEFINE B(n) == {i \in 1 .. n : b % Pow2(i) = 0}
  <2>1. TrailingZeros(b, w) = Cardinality(B(w)) /\ TrailingZeros(b, k) = Cardinality(B(k))
    BY DEF TrailingZeros
  <2>2. CASE b = 0
    <3>1. \A i \in 1 .. w : i \in Nat /\ b % Pow2(i) = 0
      <4>1. SUFFICES ASSUME NEW i \in 1 .. w
                     PROVE  i \in Nat /\ b % Pow2(i) = 0
        OBVIOUS
      <4>2. i \in Nat /\ Pow2(i) \in Nat /\ Pow2(i) >= 1
        BY Pow2Pos
      <4>3. 0 \in 0 .. Pow2(i) - 1
        BY <4>2
      <4>4. QED BY <2>2, <4>2, <4>3, SmallMod
    <3>2. B(w) = 1 .. w /\ B(k) = 1 .. k
      BY <3>1
    <3>3. Cardinality(1 .. w) = w /\ Cardinality(1 .. k) = k
      BY FS_Interval
    <3> HIDE DEF B
    <3>4. QED BY <2>1, <3>2, <3>3
  <2>3. CASE b # 0
    <3>1. \A i \in 1 .. w : b % Pow2(i) = 0 => i < k
      <4>1. SUFFICES ASSUME NEW i \in 1 .. w, b % Pow2(i) = 0, k <= i
                     PROVE  FALSE
        OBVIOUS
      <4>2. i \in Nat /\ Pow2(i) \in Nat /\ Pow2(i) >= 1 /\ Pow2(k) <= Pow2(i)
        BY <4>1, Pow2Mono, Pow2Pos
      <4>3. b \in 0 .. Pow2(i) - 1
        BY <1>0, <4>2
      <4>4. QED BY <2>3, <4>1, <4>2, <4>3, SmallMod
    <3>2. B(w) = B(k)
      BY <3>1
    <3>3. TrailingZeros(b, k) \in 0 .. k
      BY <1>0, CountsAre
    <3> HIDE DEF B
    <3>4. QED BY <2>1, <3>2, <3>3
  <2>4. QED BY <2>2, <2>3
<1>3. QED BY <1>1, <1>2

LEMMA CountWide ==
    ASSUME NEW T \in Types, ~SubWord(T), NEW v \in Int
    PROVE  /\ CountLeading(Argument(T, v), T)
                = Argument(T, Wrap(LeadingZeros(v % Pow2(T.size), T.size), T))
           /\ CountTrailing(Argument(T, v), T)
                = Argument(T, Wrap(TrailingZeros(v % Pow2(T.size), T.size), T))
<1> DEFINE r == Argument(T, v)
           w == Storage(T)
<1>1. r.width = w /\ r.bits = v % Pow2(w) /\ r.bits \in Int /\ w = T.size /\ w \in Nat
  BY ArgumentIs, TypeFacts
<1> HIDE DEF r
<1>2. /\ CountLeading(r, T) = Reg(LeadingZeros(r.bits, w), w)
      /\ CountTrailing(r, T) = Reg(TrailingZeros(r.bits, w), w)
  BY <1>1 DEF CountLeading, CountTrailing
<1>3. LeadingZeros(r.bits, w) \in Int /\ TrailingZeros(r.bits, w) \in Int
  BY <1>1, CountsAre
<1>4. /\ Reg(LeadingZeros(r.bits, w), w) = Argument(T, Wrap(LeadingZeros(r.bits, w), T))
      /\ Reg(TrailingZeros(r.bits, w), w) = Argument(T, Wrap(TrailingZeros(r.bits, w), T))
  BY <1>3, RegWrap
<1>5. QED BY <1>1, <1>2, <1>4 DEF r

LEMMA CountByte ==
    ASSUME NEW v \in Values(UInt8)
    PROVE  /\ CountLeading(Argument(UInt8, v), UInt8)
                = Argument(UInt8, Wrap(LeadingZeros(v % Pow2(Byte), Byte), UInt8))
           /\ CountTrailing(Argument(UInt8, v), UInt8)
                = Argument(UInt8, Wrap(TrailingZeros(v % Pow2(Byte), Byte), UInt8))
<1> DEFINE r == Argument(UInt8, v)
           lead == LeadingZeros(v, Half)
           trail == TrailingZeros(v, Half)
           m == Pow2(Byte)
           M == Pow2(Half)
<1>1. /\ Byte \in Nat /\ Half \in Nat /\ Byte < Half /\ m \in Nat /\ m >= 1 /\ M \in Nat /\ M >= m
      /\ Half < M /\ Byte < m
  BY Widths, Pow2Pos, Pow2Mono
<1>2. v \in 0 .. m - 1 /\ v \in Int
  BY UInt8Is, ValuesAre
<1>3. v % m = v /\ v \in 0 .. M - 1 /\ v % M = v
  <2>1. v \in 0 .. M - 1
    BY <1>1, <1>2
  <2>2. QED BY <1>1, <1>2, <2>1, SmallMod
<1>4. r.width = Half /\ r.bits = v
  BY <1>2, <1>3, UInt8Is, ArgumentIs
<1>5. lead \in 0 .. Half /\ trail \in 0 .. Half
      /\ LeadingZeros(v, Byte) \in 0 .. Byte /\ TrailingZeros(v, Byte) \in 0 .. Byte
  BY <1>1, <1>2, CountsAre
<1>6. lead - (Half - Byte) = LeadingZeros(v, Byte)
      /\ TrailingZeros(v, Byte) = IF Byte < trail THEN Byte ELSE trail
  BY <1>1, <1>2, CountsBelow
<1>7. \A n \in 0 .. Byte : Wrap(n, UInt8) = n /\ Argument(UInt8, n) = Reg(n, Half)
  <2>1. SUFFICES ASSUME NEW n \in 0 .. Byte
                 PROVE  Wrap(n, UInt8) = n /\ Argument(UInt8, n) = Reg(n, Half)
    OBVIOUS
  <2>2. n \in 0 .. m - 1
    BY <1>1
  <2>3. n \in Values(UInt8)
    BY <2>2, UInt8Is, ValuesAre
  <2>4. QED BY <2>3, UInt8Is, WrapSelf DEF Argument
<1>8. \A n \in 0 .. Half : Reg(n, Half).bits = n /\ Reg(n, Half).width = Half
  <2>1. SUFFICES ASSUME NEW n \in 0 .. Half
                 PROVE  Reg(n, Half).bits = n /\ Reg(n, Half).width = Half
    OBVIOUS
  <2>2. n \in 0 .. M - 1
    BY <1>1
  <2>3. QED BY <1>1, <2>2, RegOfBits
<1> HIDE DEF r, m, M
<1>9. CountLeading(r, UInt8) = Argument(UInt8, Wrap(LeadingZeros(v, Byte), UInt8))
  <2> DEFINE n == Reg(lead, Half)
             d == Reg(Half - Byte, Half)
  <2>1. CountLeading(r, UInt8) = Binop("sub", n, d)
    BY <1>4, UInt8Is DEF CountLeading
  <2>2. Half - Byte \in 0 .. Half
    BY <1>1
  <2>3. n.bits = lead /\ n.width = Half /\ d.bits = Half - Byte /\ d.width = Half
    BY <1>5, <1>8, <2>2
  <2> HIDE DEF n, d
  <2>4. Binop("sub", n, d) = Reg(lead - (Half - Byte), Half)
    BY <1>1, <2>3, BinopIs
  <2>5. QED BY <1>5, <1>6, <1>7, <2>1, <2>4
<1>10. CountTrailing(r, UInt8) = Argument(UInt8, Wrap(TrailingZeros(v, Byte), UInt8))
  <2> DEFINE n == Reg(trail, Half)
             d == Reg(Byte, Half)
  <2>1. CountTrailing(r, UInt8) = IF Icmp("ult", d, n) THEN d ELSE n
    BY <1>4, UInt8Is DEF CountTrailing
  <2>2. Byte \in 0 .. Half
    BY <1>1
  <2>3. n.bits = trail /\ n.width = Half /\ d.bits = Byte /\ d.width = Half
    BY <1>5, <1>8, <2>2
  <2>4. Icmp("ult", d, n) <=> Byte < trail
    <3> HIDE DEF n, d
    <3>1. Icmp("ult", d, n) <=> d.bits < n.bits
      BY <1>1, <2>3, IcmpIs
    <3>2. QED BY <2>3, <3>1
  <2>5. CountTrailing(r, UInt8) = Reg(TrailingZeros(v, Byte), Half)
    <3>1. CASE Byte < trail
      BY <1>6, <2>1, <2>4, <3>1
    <3>2. CASE ~(Byte < trail)
      BY <1>6, <2>1, <2>4, <3>2
    <3>3. QED BY <3>1, <3>2
  <2>6. QED BY <1>5, <1>7, <2>5
<1>11. QED BY <1>3, <1>9, <1>10 DEF r, m

\* A narrowing drops the upper bits.
LEMMA NarrowIs ==
    ASSUME NEW S \in Types, NEW v \in Int, NEW T \in SoundTypes, T.size < S.size, T # Bool
    PROVE  Trunc(Argument(S, v), T) = Argument(T, Wrap(v, T))
<1> DEFINE r == Argument(S, v)
           k == T.size
           m == Pow2(k)
<1>1. T \in Types /\ k \in Nat /\ k <= Storage(S) /\ Storage(S) \in Nat /\ m \in Nat /\ m >= 1
  BY TypeFacts, Pow2Pos DEF SoundTypes
<1>2. r.bits \in Int /\ Congruent(r.bits, v, Pow2(Storage(S)))
  BY ArgumentIs
<1>3. Congruent(r.bits, v, m)
  <2> DEFINE b == r.bits
             w == Storage(S)
  <2>1. b \in Int /\ Congruent(b, v, Pow2(w)) /\ w \in Nat /\ k <= w
    BY <1>1, <1>2
  <2> HIDE DEF b, w, k
  <2>2. QED BY <1>1, <2>1, ModMod DEF b
<1>4. CASE SubWord(T)
  <2>1. T = UInt8
    BY <1>4, SubWordTypes
  <2>2. Trunc(r, T) = Uextend(Ireduce(r, k), Half)
    BY <1>4 DEF Trunc
  <2>3. Ireduce(r, k) = [bits |-> r.bits % m, width |-> k]
    BY DEF Ireduce, Reg
  <2>4. k = Byte /\ Byte < Half
    BY <2>1, UInt8Is, Widths
  <2>5. Uextend(Ireduce(r, k), Half) = Reg(r.bits % m, Half)
    BY <2>3, <2>4, Widths DEF Uextend
  <2>6. r.bits % m = v % m
    BY <1>1, <1>2, <1>3, CongruentMod
  <2>7. Wrap(v, T) = v % m
    BY <2>1, UInt8Is DEF Wrap
  <2>8. QED BY <2>1, <2>2, <2>5, <2>6, <2>7, UInt8Is DEF Argument
<1>5. CASE ~SubWord(T)
  <2>1. Storage(T) = k
    BY <1>1, <1>5, TypeFacts
  <2>2. Trunc(r, T) = Reg(r.bits, k)
    BY <1>5, <2>1 DEF Trunc, Ireduce
  <2>3. Reg(r.bits, k) = Reg(v, k)
    BY <1>1, <1>2, <1>3, RegCongruent
  <2>4. Reg(v, k) = Argument(T, Wrap(v, T))
    BY <1>1, <1>5, <2>1, RegWrap
  <2>5. QED BY <2>2, <2>3, <2>4
<1>6. QED BY <1>4, <1>5

\* Only an i64 is wider than an i32.
LEMMA WiderIs ==
    ASSUME NEW T \in Types
    PROVE  T.size > Half => T.size = Word /\ Storage(T) = Word /\ ~SubWord(T)
BY TypeFacts, Widths

LEMMA SignExtendIs ==
    ASSUME NEW S \in Types, S.size = Half, NEW v \in Int, NEW T \in Types, T.size > S.size
    PROVE  Sextend(Argument(S, v), Storage(T))
             = Argument(T, Wrap(AsSigned(v % Pow2(S.size), S.size), T))
<1> DEFINE r == Argument(S, v)
           x == AsSigned(v % Pow2(Half), Half)
<1>1. T.size = Word /\ Storage(T) = Word /\ ~SubWord(T) /\ Storage(S) = Half /\ Half < Word
  BY WiderIs, Widths DEF Storage
<1>2. r.width = Half /\ r.bits = v % Pow2(Half) /\ r.bits \in 0 .. Pow2(Half) - 1
  BY <1>1, ArgumentIs
<1>3. x \in Int
  BY <1>2, WordFacts, AsSignedIs
<1> HIDE DEF r
<1>4. Sextend(r, Word) = Reg(x, Word)
  BY <1>1, <1>2, Widths DEF Sextend
<1> HIDE DEF x
<1>5. Reg(x, Word) = Argument(T, Wrap(x, T))
  BY <1>1, <1>3, RegWrap
<1>6. QED BY <1>1, <1>4, <1>5 DEF r, x

LEMMA ZeroExtendIs ==
    ASSUME NEW S \in SoundTypes, S.size # Word, NEW v \in Values(S), NEW T \in Types, T.size > S.size
    PROVE  Uextend(Argument(S, v), Storage(T)) = Argument(T, Wrap(v % Pow2(S.size), T))
<1> DEFINE r == Argument(S, v)
           x == v % Pow2(S.size)
<1>1. S \in Types /\ v \in Int /\ Storage(S) = Half /\ S.size \in {Half, Byte}
  BY ReadBack, TypeFacts DEF SoundTypes, Storage
<1>2. ~SubWord(T)
  BY <1>1, TypeFacts, Widths DEF SubWord
<1>3. r.width = Half /\ r.bits = v % Pow2(Half)
  BY <1>1, ArgumentIs
<1>4. r.bits = x /\ x \in Int
  <2>1. CASE S.size = Half
    BY <1>1, <1>3, <2>1, ArgumentIs
  <2>2. CASE S.size = Byte
    <3>1. SubWord(S)
      BY <2>2, Widths DEF SubWord
    <3>2. v % Pow2(Half) = v /\ v \in 0 .. Pow2(S.size) - 1
      BY <1>1, <3>1, SubWordTypes, ReadBack, ValuesAre
    <3>3. x = v
      BY <1>1, <3>2, StorageFacts, SmallMod
    <3>4. QED BY <1>1, <1>3, <3>2, <3>3
  <2>3. QED BY <1>1, <2>1, <2>2
<1>5. Reg(x, Storage(T)) = Argument(T, Wrap(x, T))
  BY <1>2, <1>4, RegWrap
<1> HIDE DEF r, x
<1>6. Storage(T) \in {Word, Half}
  BY TypeFacts
<1>7. CASE Storage(T) = Word
  <2>1. Uextend(r, Storage(T)) = Reg(r.bits, Word)
    BY <1>3, <1>7, Widths DEF Uextend
  <2>2. QED BY <1>4, <1>5, <1>7, <2>1 DEF r, x
<1>8. CASE Storage(T) = Half
  <2>1. Uextend(r, Storage(T)) = r
    BY <1>3, <1>8, Widths DEF Uextend
  <2>2. r = [bits |-> r.bits, width |-> r.width]
    BY DEF r, Argument, Reg
  <2>3. r.bits \in 0 .. Pow2(Half) - 1
    BY <1>1, ArgumentIs DEF r
  <2>4. Reg(r.bits, Half) = [bits |-> r.bits, width |-> Half]
    BY <2>3, RegOfBits, WordFacts
  <2>5. QED BY <1>3, <1>4, <1>5, <1>8, <2>1, <2>2, <2>4 DEF r, x
<1>9. QED BY <1>6, <1>7, <1>8

\* Types of one size share a register.
LEMMA BitcastIs ==
    ASSUME NEW S \in SoundTypes, NEW v \in Values(S), NEW T \in SoundTypes, T.size = S.size, T # Bool
    PROVE  Argument(S, v) = Argument(T, Wrap(v, T))
<1>1. S \in Types /\ T \in Types /\ v \in Int /\ Storage(T) = Storage(S)
  BY ReadBack DEF SoundTypes, Storage
<1>2. Argument(S, v) = Reg(v, Storage(T))
  BY <1>1 DEF Argument
<1>3. CASE SubWord(T)
  <2>1. SubWord(S)
    BY <1>3 DEF SubWord
  <2>2. T = UInt8 /\ ~S.signed
    BY <1>3, <2>1, SubWordTypes
  <2>3. v \in 0 .. Pow2(T.size) - 1
    BY <1>1, <2>2, ValuesAre
  <2>4. v \in Values(T)
    BY <2>2, <2>3, UInt8Is, ValuesAre
  <2>5. Wrap(v, T) = v
    BY <1>1, <2>4, WrapSelf
  <2>6. QED BY <1>2, <2>5 DEF Argument
<1>4. CASE ~SubWord(T)
  BY <1>1, <1>2, <1>4, RegWrap
<1>5. QED BY <1>3, <1>4

-----------------------------------------------------------------------------
(* Overflow                                                                *)

LEMMA WrapCongruent ==
    ASSUME NEW T \in Types, NEW x \in Int, NEW y \in Int, Congruent(x, y, Pow2(T.size))
    PROVE  Wrap(x, T) = Wrap(y, T)
<1>1. x % Pow2(T.size) = y % Pow2(T.size)
  BY StorageFacts, CongruentMod
<1>2. QED BY <1>1 DEF Wrap

\* The types with checked arithmetic.
WideTypes == {Int64, UInt64, Int32, UInt32}

LEMMA WideTypesAre ==
    ASSUME NEW T \in WideTypes
    PROVE  /\ T \in Types /\ T \in SoundTypes /\ ~SubWord(T) /\ T # Bool
           /\ T.size = Storage(T) /\ T.signed \in BOOLEAN
           /\ T.signed => Values(T) = SignedRange(T.size)
           /\ ~T.signed => Values(T) = 0 .. Pow2(T.size) - 1
<1>1. T \in Types /\ T.size \in {Word, Half}
  BY DEF WideTypes, Types, Int64, UInt64, Int32, UInt32, Type
<1>2. T # Int8 /\ T # Bool
  BY <1>1, Widths DEF Int8, Bool, Type
<1>3. ~SubWord(T)
  BY <1>1, Widths DEF SubWord
<1>4. QED BY <1>1, <1>2, <1>3, TypeFacts, ValuesAre DEF SoundTypes

\* A number less than twice around is wrapped once.
LEMMA WrapOnce ==
    ASSUME NEW T \in WideTypes, NEW s \in Int,
           -Pow2(T.size) <= s, s < 2 * Pow2(T.size), T.signed => s < Pow2(T.size)
    PROVE  Wrap(s, T) = IF s \in Values(T) THEN s
                        ELSE IF s < 0 THEN s + Pow2(T.size) ELSE s - Pow2(T.size)
<1> DEFINE m == Pow2(T.size)
           h == Pow2(T.size - 1)
<1>1. T \in Types /\ m \in Nat /\ m >= 1 /\ m = 2 * h /\ h \in Nat
  BY WideTypesAre, StorageFacts, Pow2Prev
<1>2. CASE s \in Values(T)
  BY <1>1, <1>2, WrapSelf
<1>3. CASE s \notin Values(T)
  <2> DEFINE t == IF s < 0 THEN s + m ELSE s - m
  <2>1. t \in Values(T)
    <3>1. CASE T.signed
      <4>1. Values(T) = -h .. h - 1
        BY <3>1, WideTypesAre DEF SignedRange
      <4> HIDE DEF m, h
      <4>2. QED BY <1>1, <1>3, <3>1, <4>1 DEF m
    <3>2. CASE ~T.signed
      <4>1. Values(T) = 0 .. m - 1
        BY <3>2, WideTypesAre
      <4>2. -m <= s /\ s < 2 * m
        OBVIOUS
      <4> HIDE DEF m, h
      <4>3. QED BY <1>1, <1>3, <4>1, <4>2
    <3>3. QED BY <3>1, <3>2, WideTypesAre
  <2>2. Congruent(s, t, m) /\ t \in Int
    <3>1. t \in Int /\ -1 \in Int /\ 1 \in Int
      BY <1>1
    <3>2. s = t + m * (-1) \/ s = t + m * 1
      BY <1>1
    <3> HIDE DEF t, m
    <3>3. QED BY <3>1, <3>2 DEF Congruent
  <2> HIDE DEF t
  <2>3. Wrap(s, T) = Wrap(t, T)
    BY <1>1, <2>2, WrapCongruent
  <2>4. Wrap(t, T) = t
    BY <1>1, <2>1, WrapSelf
  <2>5. QED BY <1>3, <2>3, <2>4 DEF t
<1>4. QED BY <1>2, <1>3

\* A register of w bits.
IsReg(r, w) == r.width = w /\ r.bits \in 0 .. Pow2(w) - 1

LEMMA SignBits ==
    ASSUME NEW w \in Nat, w >= 1, NEW a, NEW b, IsReg(a, w), IsReg(b, w)
    PROVE  /\ IsReg(Binop("xor", a, b), w) /\ IsReg(Binop("and", a, b), w)
           /\ Top(Binop("xor", a, b).bits, w) <=> ~(Top(a.bits, w) <=> Top(b.bits, w))
           /\ Top(Binop("and", a, b).bits, w) <=> Top(a.bits, w) /\ Top(b.bits, w)
<1> DEFINE x == Xor(a.bits, b.bits, w)
           y == And(a.bits, b.bits, w)
<1>1. Binop("xor", a, b) = Reg(x, w) /\ Binop("and", a, b) = Reg(y, w)
  BY BinopIs DEF IsReg
<1>2. x \in 0 .. Pow2(w) - 1 /\ (Top(x, w) <=> ~(Top(a.bits, w) <=> Top(b.bits, w)))
  BY XorTop DEF IsReg
<1>3. y \in 0 .. Pow2(w) - 1 /\ (Top(y, w) <=> Top(a.bits, w) /\ Top(b.bits, w))
  BY AndTop DEF IsReg
<1> HIDE DEF x, y
<1>4. /\ Reg(x, w) = [bits |-> x, width |-> w] /\ Reg(x, w).bits = x
      /\ Reg(y, w) = [bits |-> y, width |-> w] /\ Reg(y, w).bits = y
  BY <1>2, <1>3, RegOfBits
<1>5. Reg(x, w).width = w /\ Reg(y, w).width = w
  BY <1>4
<1>6. QED BY <1>1, <1>2, <1>3, <1>4, <1>5 DEF IsReg

LEMMA NegativeIs ==
    ASSUME NEW T \in WideTypes, T.signed, NEW r, IsReg(r, Storage(T))
    PROVE  Icmp("slt", r, Constant(T, 0)) <=> Top(r.bits, Storage(T))
<1> DEFINE w == Storage(T)
           c == Constant(T, 0)
<1>1. w \in Nat /\ w >= 1 /\ T \in Types /\ T \in SoundTypes /\ w = T.size /\ ~SubWord(T)
      /\ Pow2(w) \in Nat /\ Pow2(w) >= 1
  BY WideTypesAre, StorageFacts
<1>2. 0 \in SignedRange(w)
  BY <1>1, Pow2Prev DEF SignedRange
<1>3. c = Argument(T, 0) /\ 0 \in Values(T)
  BY <1>1, <1>2, WideTypesAre, ConstantIs
<1>4. c.width = w /\ AsSigned(c.bits, w) = 0
  <2>1. c.width = w /\ c.bits = 0 % Pow2(w)
    BY <1>1, <1>3, ArgumentIs
  <2>2. AsSigned(0 % Pow2(w), w) = 0
    BY <1>1, <1>2, AsSignedOf
  <2>3. QED BY <2>1, <2>2
<1>5. r.width = w /\ r.bits \in 0 .. Pow2(w) - 1
  BY DEF IsReg
<1> HIDE DEF c, w
<1>6. Icmp("slt", r, c) <=> AsSigned(r.bits, w) < AsSigned(c.bits, w)
  BY <1>1, <1>4, <1>5, IcmpIs
<1>7. AsSigned(r.bits, w) < 0 <=> Top(r.bits, w)
  BY <1>1, <1>5, AsSignedIs
<1>8. QED BY <1>4, <1>6, <1>7 DEF c, w

LEMMA ArgumentTop ==
    ASSUME NEW T \in WideTypes, T.signed, NEW v \in Values(T)
    PROVE  IsReg(Argument(T, v), Storage(T)) /\ (Top(Argument(T, v).bits, Storage(T)) <=> v < 0)
<1>1. T \in Types /\ T \in SoundTypes /\ v \in Int
  BY WideTypesAre, ReadBack
<1>2. Storage(T) \in Nat /\ Storage(T) >= 1
  BY <1>1, StorageFacts
<1>3. IsReg(Argument(T, v), Storage(T)) /\ Argument(T, v).bits = v % Pow2(Storage(T))
  BY <1>1, ArgumentIs DEF IsReg
<1>4. AsSigned(v % Pow2(Storage(T)), Storage(T)) = v
  BY <1>1, ReadBack
<1>5. v % Pow2(Storage(T)) \in 0 .. Pow2(Storage(T)) - 1
  BY <1>1, ReadBack
<1>6. AsSigned(v % Pow2(Storage(T)), Storage(T)) < 0 <=> Top(v % Pow2(Storage(T)), Storage(T))
  BY <1>2, <1>5, AsSignedIs
<1>7. QED BY <1>3, <1>4, <1>6

\* Sums and differences: the sign of the wrapped result against those of the
\* operands.
LEMMA SumSigns ==
    ASSUME NEW T \in WideTypes, T.signed, NEW x \in Values(T), NEW y \in Values(T)
    PROVE  /\ x + y \notin Values(T)
                <=> ~(Wrap(x + y, T) < 0 <=> x < 0) /\ ~(Wrap(x + y, T) < 0 <=> y < 0)
           /\ x - y \notin Values(T)
                <=> ~(x < 0 <=> y < 0) /\ ~(x < 0 <=> Wrap(x - y, T) < 0)
<1> DEFINE m == Pow2(T.size)
           h == Pow2(T.size - 1)
<1>1. m \in Nat /\ m = 2 * h /\ h \in Nat /\ h >= 1
  BY WideTypesAre, StorageFacts, Pow2Prev
<1>2. Values(T) = -h .. h - 1
  BY WideTypesAre DEF SignedRange
<1>3. ASSUME NEW s \in Int, -m <= s, s < m
      PROVE  Wrap(s, T) = IF s \in Values(T) THEN s ELSE IF s < 0 THEN s + m ELSE s - m
  <2>1. s < 2 * m
    BY <1>1, <1>3
  <2>2. QED BY <1>3, <2>1, WrapOnce
<1> HIDE DEF m, h
<1>4. x \in Int /\ y \in Int /\ -h <= x /\ x < h /\ -h <= y /\ y < h
  BY <1>1, <1>2
<1>5. /\ x + y \in Int /\ -m <= x + y /\ x + y < m
      /\ x - y \in Int /\ -m <= x - y /\ x - y < m
  BY <1>1, <1>4
<1> DEFINE s == x + y
           d == x - y
           S == Wrap(s, T)
           D == Wrap(d, T)
<1>6. S = IF s \in Values(T) THEN s ELSE IF s < 0 THEN s + m ELSE s - m
  BY <1>3, <1>5
<1>7. D = IF d \in Values(T) THEN d ELSE IF d < 0 THEN d + m ELSE d - m
  BY <1>3, <1>5
<1> HIDE DEF S, D
<1>8. /\ s \in Values(T) <=> -h <= s /\ s < h
      /\ d \in Values(T) <=> -h <= d /\ d < h
  BY <1>1, <1>2, <1>5
<1>9. s \notin Values(T) <=> ~(S < 0 <=> x < 0) /\ ~(S < 0 <=> y < 0)
  BY <1>1, <1>4, <1>6, <1>8
<1>10. d \notin Values(T) <=> ~(x < 0 <=> y < 0) /\ ~(x < 0 <=> D < 0)
  BY <1>1, <1>4, <1>7, <1>8
<1>11. QED BY <1>9, <1>10 DEF S, D

LEMMA SignedFlags ==
    ASSUME NEW T \in WideTypes, T.signed, NEW x \in Values(T), NEW y \in Values(T)
    PROVE  /\ OverflowFlag("add", Argument(T, x), Argument(T, y), T) <=> x + y \notin Values(T)
           /\ OverflowFlag("sub", Argument(T, x), Argument(T, y), T) <=> x - y \notin Values(T)
<1> DEFINE a == Argument(T, x)
           b == Argument(T, y)
           w == Storage(T)
           X == Wrap(x + y, T)
           Y == Wrap(x - y, T)
           p == Argument(T, X)
           q == Argument(T, Y)
           Neg(z) == Icmp("slt", z, Constant(T, 0))
<1>1. T \in Types /\ T \in SoundTypes /\ ~SubWord(T) /\ T # Bool /\ w \in Nat /\ w >= 1
      /\ x \in Int /\ y \in Int /\ x + y \in Int /\ x - y \in Int
  BY WideTypesAre, ReadBack, StorageFacts
<1>2. X \in Values(T) /\ Y \in Values(T)
  BY <1>1, WrapIs
<1>3. Value("add", a, b, T) = p /\ Value("sub", a, b, T) = q
  BY <1>1, RingOps DEF Value
<1>4. /\ OverflowFlag("add", a, b, T)
           <=> Neg(Binop("and", Binop("xor", p, a), Binop("xor", p, b)))
      /\ OverflowFlag("sub", a, b, T)
           <=> Neg(Binop("and", Binop("xor", a, b), Binop("xor", a, q)))
  BY <1>3 DEF OverflowFlag
<1>5. /\ IsReg(a, w) /\ (Top(a.bits, w) <=> x < 0)
      /\ IsReg(b, w) /\ (Top(b.bits, w) <=> y < 0)
      /\ IsReg(p, w) /\ (Top(p.bits, w) <=> X < 0)
      /\ IsReg(q, w) /\ (Top(q.bits, w) <=> Y < 0)
  BY <1>2, ArgumentTop
<1>6. /\ x + y \notin Values(T) <=> ~(X < 0 <=> x < 0) /\ ~(X < 0 <=> y < 0)
      /\ x - y \notin Values(T) <=> ~(x < 0 <=> y < 0) /\ ~(x < 0 <=> Y < 0)
  BY SumSigns
<1> HIDE DEF a, b, p, q, X, Y, w
<1> DEFINE pa == Binop("xor", p, a)
           pb == Binop("xor", p, b)
           ab == Binop("xor", a, b)
           aq == Binop("xor", a, q)
<1>7. /\ IsReg(pa, w) /\ (Top(pa.bits, w) <=> ~(X < 0 <=> x < 0))
      /\ IsReg(pb, w) /\ (Top(pb.bits, w) <=> ~(X < 0 <=> y < 0))
      /\ IsReg(ab, w) /\ (Top(ab.bits, w) <=> ~(x < 0 <=> y < 0))
      /\ IsReg(aq, w) /\ (Top(aq.bits, w) <=> ~(x < 0 <=> Y < 0))
  BY <1>1, <1>5, SignBits
<1> HIDE DEF pa, pb, ab, aq, Neg
<1> DEFINE f == Binop("and", pa, pb)
           g == Binop("and", ab, aq)
<1>8. /\ IsReg(f, w) /\ (Top(f.bits, w) <=> Top(pa.bits, w) /\ Top(pb.bits, w))
      /\ IsReg(g, w) /\ (Top(g.bits, w) <=> Top(ab.bits, w) /\ Top(aq.bits, w))
  BY <1>1, <1>7, SignBits
<1> HIDE DEF f, g
<1>9. (Neg(f) <=> Top(f.bits, w)) /\ (Neg(g) <=> Top(g.bits, w))
  BY <1>8, NegativeIs DEF Neg, w
<1>10. (OverflowFlag("add", a, b, T) <=> Neg(f)) /\ (OverflowFlag("sub", a, b, T) <=> Neg(g))
  BY <1>4 DEF f, g, pa, pb, ab, aq
<1>11. QED BY <1>6, <1>7, <1>8, <1>9, <1>10 DEF a, b

LEMMA UnsignedFlags ==
    ASSUME NEW T \in WideTypes, ~T.signed, NEW x \in Values(T), NEW y \in Values(T)
    PROVE  /\ OverflowFlag("add", Argument(T, x), Argument(T, y), T) <=> x + y \notin Values(T)
           /\ OverflowFlag("sub", Argument(T, x), Argument(T, y), T) <=> x - y \notin Values(T)
<1> DEFINE a == Argument(T, x)
           b == Argument(T, y)
           m == Pow2(T.size)
           X == Wrap(x + y, T)
<1>1. T \in Types /\ T \in SoundTypes /\ ~SubWord(T) /\ T # Bool /\ m \in Nat /\ m >= 1
      /\ x \in Int /\ y \in Int /\ x + y \in Int
  BY WideTypesAre, ReadBack, StorageFacts
<1>2. Values(T) = 0 .. m - 1
  BY WideTypesAre
<1>3. X \in Values(T)
  BY <1>1, WrapIs
<1>4. Value("add", a, b, T) = Argument(T, X)
  BY <1>1, RingOps DEF Value
<1>5. /\ OverflowFlag("add", a, b, T) <=> Icmp("ult", Argument(T, X), a)
      /\ OverflowFlag("sub", a, b, T) <=> Icmp("ult", a, b)
  BY <1>4 DEF OverflowFlag
<1>6. /\ Icmp("ult", Argument(T, X), a) <=> X < x
      /\ Icmp("ult", a, b) <=> x < y
  BY <1>1, <1>3, Compares
<1>7. X = IF x + y \in Values(T) THEN x + y ELSE IF x + y < 0 THEN (x + y) + m ELSE (x + y) - m
  <2> DEFINE s == x + y
  <2>1. s \in Int /\ -m <= s /\ s < 2 * m
    BY <1>1, <1>2
  <2> HIDE DEF s
  <2>2. Wrap(s, T) = IF s \in Values(T) THEN s ELSE IF s < 0 THEN s + m ELSE s - m
    BY <2>1, WrapOnce
  <2>3. X = Wrap(s, T)
    BY DEF s
  <2> HIDE DEF X
  <2>4. QED BY <2>2, <2>3 DEF s
<1> HIDE DEF X, m
<1>8. X < x <=> x + y \notin Values(T)
  BY <1>1, <1>2, <1>7
<1>9. x < y <=> x - y \notin Values(T)
  BY <1>1, <1>2
<1>10. QED BY <1>5, <1>6, <1>8, <1>9

\* Division towards zero: what is left is smaller than the divisor and has the
\* sign of the dividend.
LEMMA QuotientIs ==
    ASSUME NEW x \in Int, NEW y \in Int, y # 0
    PROVE  /\ Quotient(x, y) \in Int /\ Remainder(x, y) \in Int
           /\ x = y * Quotient(x, y) + Remainder(x, y)
           /\ Magnitude(Remainder(x, y)) < Magnitude(y)
           /\ Magnitude(Quotient(x, y)) * Magnitude(y) <= Magnitude(x)
           /\ x >= 0 /\ y >= 0 => Quotient(x, y) = x \div y /\ Remainder(x, y) = x % y
<1> DEFINE n == Magnitude(x)
           d == Magnitude(y)
           e == n \div d
           f == n % d
           q == Quotient(x, y)
           r == Remainder(x, y)
<1>1. n \in Nat /\ d \in Nat /\ d >= 1
  BY DEF Magnitude
<1>2. e \in Int /\ f \in 0 .. d - 1 /\ n = d * e + f
  <2> HIDE DEF n, d
  <2>1. QED BY <1>1, DivMod
<1>3. q = IF (x < 0) <=> (y < 0) THEN e ELSE -e
  BY DEF Quotient
<1>4. r = x - y * q
  BY DEF Remainder
<1>5. (x < 0 => x = -n) /\ (~(x < 0) => x = n) /\ (y < 0 => y = -d) /\ (~(y < 0) => y = d)
  BY DEF Magnitude
<1>6. x >= 0 /\ y >= 0 => e = x \div y /\ f = x % y
  BY DEF Magnitude
<1> HIDE DEF n, d, e, f, q, r
<1>7. e >= 0
  <2>1. SUFFICES ASSUME e <= -1 PROVE FALSE
    BY <1>2
  <2>2. d * e <= d * (-1)
    BY <1>1, <1>2, <2>1
  <2>3. QED BY <1>1, <1>2, <2>2
<1>8. y * q = IF x < 0 THEN -(d * e) ELSE d * e
  <2>1. d * (-e) = -(d * e) /\ (-d) * e = -(d * e) /\ (-d) * (-e) = d * e
    BY <1>1, <1>2
  <2>2. CASE x < 0
    BY <1>3, <1>5, <2>1, <2>2
  <2>3. CASE ~(x < 0)
    BY <1>3, <1>5, <2>1, <2>3
  <2>4. QED BY <2>2, <2>3
<1>9. r = IF x < 0 THEN -f ELSE f
  BY <1>1, <1>2, <1>4, <1>5, <1>8
<1>10. q \in Int /\ r \in Int
  BY <1>1, <1>2, <1>3, <1>9
<1>11. x = y * q + r
  BY <1>1, <1>2, <1>4, <1>8, <1>10
<1>12. Magnitude(r) < d
  <2>1. f \in Int /\ 0 <= f /\ f < d
    BY <1>1, <1>2
  <2>2. Magnitude(r) = f
    BY <1>9, <2>1 DEF Magnitude
  <2>3. QED BY <2>1, <2>2
<1>13. Magnitude(q) * d <= n
  <2>1. Magnitude(q) = e
    BY <1>2, <1>3, <1>7 DEF Magnitude
  <2>2. e * d = d * e
    BY <1>1, <1>2
  <2>3. QED BY <1>1, <1>2, <2>1, <2>2
<1>14. x >= 0 /\ y >= 0 => q = x \div y /\ r = x % y
  BY <1>3, <1>6, <1>9
<1>15. QED BY <1>10, <1>11, <1>12, <1>13, <1>14 DEF n, d, q, r

\* A multiple of d that is smaller than d is 0.
LEMMA SmallMultiple ==
    ASSUME NEW d \in Int, NEW k \in Int, NEW r \in Int, r = d * k, Magnitude(r) < Magnitude(d)
    PROVE  k = 0 /\ r = 0
<1>1. ASSUME k # 0
      PROVE  FALSE
  <2>1. k >= 1 \/ k <= -1
    BY <1>1
  <2>2. d * k >= d * 1 \/ d < 0 \/ k <= -1
    BY <2>1
  <2>3. CASE d >= 0 /\ k >= 1
    <3>1. d * k >= d
      BY <2>3
    <3>2. QED BY <2>3, <3>1 DEF Magnitude
  <2>4. CASE d >= 0 /\ k <= -1
    <3>1. d * k <= -d
      BY <2>4
    <3>2. QED BY <2>4, <3>1 DEF Magnitude
  <2>5. CASE d < 0 /\ k >= 1
    <3>1. d * k <= d
      BY <2>5
    <3>2. QED BY <2>5, <3>1 DEF Magnitude
  <2>6. CASE d < 0 /\ k <= -1
    <3>1. d * k >= -d
      BY <2>6
    <3>2. QED BY <2>6, <3>1 DEF Magnitude
  <2>7. QED BY <2>1, <2>3, <2>4, <2>5, <2>6
<1>2. k = 0
  BY <1>1
<1>3. QED BY <1>2

\* Dividing a wrapped product by a factor gives the other one if, and only
\* if, nothing was lost.
LEMMA ProductIs ==
    ASSUME NEW T \in WideTypes, NEW x \in Values(T), NEW y \in Values(T),
           x # 0, T.signed => x # -1
    PROVE  /\ Quotient(Wrap(x * y, T), x) \in Values(T)
           /\ Quotient(Wrap(x * y, T), x) = y <=> x * y \in Values(T)
<1> DEFINE m == Pow2(T.size)
           h == Pow2(T.size - 1)
           z == x * y
           p == Wrap(z, T)
           q == Quotient(p, x)
           r == Remainder(p, x)
<1>1. m \in Nat /\ m = 2 * h /\ h \in Nat /\ h >= 1
  BY WideTypesAre, StorageFacts, Pow2Prev
<1>2. /\ T.signed => Values(T) = -h .. h - 1
      /\ ~T.signed => Values(T) = 0 .. m - 1
  BY WideTypesAre DEF SignedRange
<1>3. T \in Types /\ T \in SoundTypes /\ T # Bool /\ T.signed \in BOOLEAN
      /\ x \in Int /\ y \in Int /\ z \in Int
  BY WideTypesAre, ReadBack
<1>4. p \in Int /\ p \in Values(T) /\ Congruent(p, z, m)
  <2> HIDE DEF z
  <2>1. QED BY <1>3, WrapIs
<1>5. /\ q \in Int /\ r \in Int /\ p = x * q + r /\ Magnitude(r) < Magnitude(x)
      /\ Magnitude(q) * Magnitude(x) <= Magnitude(p)
      /\ p >= 0 /\ x >= 0 => q = p \div x
  <2> HIDE DEF p
  <2>1. QED BY <1>3, <1>4, QuotientIs
<1> HIDE DEF p, q, r, m, h
<1>6. Magnitude(x) < m /\ Magnitude(x) \in Nat /\ Magnitude(x) >= 1
  BY <1>1, <1>2, <1>3 DEF Magnitude
<1>7. q \in Values(T)
  <2>1. CASE T.signed
    <3>1. CASE x = 1
      <4>1. Magnitude(r) < 1
        BY <1>5, <3>1 DEF Magnitude
      <4>2. r = 0
        BY <1>5, <4>1 DEF Magnitude
      <4>3. q = p
        BY <1>4, <1>5, <3>1, <4>2
      <4>4. QED BY <1>4, <4>3
    <3>2. CASE x # 1
      <4> DEFINE e == Magnitude(q)
                 d == Magnitude(x)
      <4>1. d >= 2 /\ d \in Nat
        BY <1>3, <2>1, <3>2 DEF Magnitude
      <4>2. e \in Nat
        BY <1>5 DEF Magnitude
      <4>3. e * d <= h
        <5>1. -h <= p /\ p < h
          BY <1>1, <1>2, <1>4, <2>1
        <5>2. Magnitude(p) <= h /\ Magnitude(p) \in Int
          BY <1>1, <1>4, <5>1 DEF Magnitude
        <5> HIDE DEF e, d
        <5>3. e * d \in Int
          BY <4>1, <4>2
        <5>4. QED BY <1>1, <1>5, <5>2, <5>3 DEF e, d
      <4> HIDE DEF e, d
      <4>4. e * 2 <= e * d
        BY <4>1, <4>2
      <4>5. e < h
        <5>1. e * d \in Int
          BY <4>1, <4>2
        <5>2. QED BY <1>1, <4>2, <4>3, <4>4, <5>1
      <4>6. -h < q /\ q < h
        BY <1>1, <1>5, <4>5 DEF Magnitude, e
      <4>7. QED BY <1>1, <1>2, <1>5, <2>1, <4>6
    <3>3. QED BY <3>1, <3>2
  <2>2. CASE ~T.signed
    <3>1. p \in Nat /\ x \in Nat /\ x >= 1 /\ p < m
      BY <1>1, <1>2, <1>3, <1>4, <2>2
    <3>2. q = p \div x
      BY <1>5, <3>1
    <3>3. -m <= p \div x /\ p \div x < m /\ p \div x \in Int
      <4>1. -m <= p /\ p \in Int
        BY <1>1, <3>1
      <4>2. QED BY <1>1, <3>1, <4>1, DivRange
    <3>4. p \div x >= 0
      BY <3>1
    <3>5. QED BY <1>1, <1>2, <2>2, <3>2, <3>3, <3>4
  <2>3. QED BY <1>3, <2>1, <2>2
<1>8. ASSUME q = y
      PROVE  z \in Values(T)
  <2>1. PICK k \in Int : p = z + m * k
    BY <1>4 DEF Congruent
  <2>2. r = m * k
    <3>1. p = z + r
      BY <1>5, <1>8
    <3>2. m * k \in Int
      BY <1>1
    <3> HIDE DEF z
    <3>3. QED BY <1>3, <1>5, <2>1, <3>1, <3>2
  <2>3. Magnitude(r) < Magnitude(m)
    BY <1>1, <1>5, <1>6 DEF Magnitude
  <2>4. k = 0
    <3>1. m \in Int
      BY <1>1
    <3>2. QED BY <1>5, <2>2, <2>3, <3>1, SmallMultiple
  <2>5. p = z
    <3>1. m * k = 0
      BY <1>1, <2>4
    <3> HIDE DEF z
    <3>2. QED BY <1>3, <2>1, <3>1
  <2>6. QED BY <1>4, <2>5
<1>9. ASSUME z \in Values(T)
      PROVE  q = y
  <2>1. p = z
    BY <1>3, <1>9, WrapSelf DEF p
  <2>2. x * (y - q) = x * y - x * q
    BY <1>3, <1>5
  <2>3. r = x * (y - q) /\ y - q \in Int
    <3>1. x * q \in Int /\ x * y \in Int
      BY <1>3, <1>5
    <3>2. r = x * y - x * q
      BY <1>5, <2>1, <3>1
    <3>3. QED BY <1>3, <1>5, <2>2, <3>2
  <2>4. y - q = 0
    <3> DEFINE k == y - q
    <3>1. k \in Int /\ r = x * k
      BY <2>3
    <3> HIDE DEF k
    <3>2. k = 0
      BY <1>3, <1>5, <3>1, SmallMultiple
    <3>3. QED BY <3>2 DEF k
  <2>5. QED BY <1>3, <1>5, <2>4
<1>10. QED BY <1>7, <1>8, <1>9 DEF z, p, q

\* 0, 1 and -1 are values of the types with checked arithmetic.
LEMMA SmallValues ==
    ASSUME NEW T \in WideTypes
    PROVE  0 \in Values(T) /\ 1 \in Values(T) /\ (T.signed => -1 \in Values(T))
<1> DEFINE m == Pow2(T.size)
           h == Pow2(T.size - 1)
<1>1. T.size \in Nat /\ T.size >= 2
  BY WideTypesAre, TypeFacts
<1>2. m = 2 * h /\ h \in Nat
  BY WideTypesAre, StorageFacts, Pow2Prev
<1>3. h >= 2
  <2>1. T.size - 1 \in Nat /\ T.size - 1 >= 1
    BY <1>1
  <2>2. T.size - 1 < h
    BY <2>1, Pow2Pos
  <2>3. QED BY <1>2, <2>1, <2>2
<1>4. /\ T.signed => Values(T) = -h .. h - 1
      /\ ~T.signed => Values(T) = 0 .. m - 1
      /\ T.signed \in BOOLEAN
  BY WideTypesAre DEF SignedRange
<1> HIDE DEF m, h
<1>5. QED BY <1>2, <1>3, <1>4

\* A quotient of registers that is a value of the type is its register.
LEMMA DivideIs ==
    ASSUME NEW T \in WideTypes, NEW p \in Values(T), NEW x \in Values(T), x # 0,
           Quotient(p, x) \in Values(T)
    PROVE  Binop(IF T.signed THEN "sdiv" ELSE "udiv", Argument(T, p), Argument(T, x))
             = Argument(T, Quotient(p, x))
<1> DEFINE a == Argument(T, p)
           b == Argument(T, x)
           w == Storage(T)
<1>1. T \in Types /\ T \in SoundTypes /\ T.signed \in BOOLEAN /\ p \in Int /\ x \in Int /\ w \in Nat
  BY WideTypesAre, ReadBack, StorageFacts
<1>2. a.width = w /\ b.width = w /\ a.bits = p % Pow2(w) /\ b.bits = x % Pow2(w)
  BY <1>1, ArgumentIs
<1>3. /\ T.signed => AsSigned(p % Pow2(w), w) = p /\ AsSigned(x % Pow2(w), w) = x
      /\ ~T.signed => p % Pow2(w) = p /\ x % Pow2(w) = x /\ p >= 0 /\ x >= 0
  BY <1>1, ReadBack
<1> HIDE DEF a, b, w
<1>4. /\ Binop("sdiv", a, b) = Reg(Quotient(AsSigned(a.bits, w), AsSigned(b.bits, w)), w)
      /\ Binop("udiv", a, b) = Reg(a.bits \div b.bits, w)
  BY <1>1, <1>2, BinopIs
<1>5. CASE T.signed
  BY <1>2, <1>3, <1>4, <1>5 DEF Argument, a, b, w
<1>6. CASE ~T.signed
  <2>1. Quotient(p, x) = p \div x
    BY <1>1, <1>3, <1>6, QuotientIs
  <2>2. Binop("udiv", a, b) = Reg(p \div x, w)
    BY <1>2, <1>3, <1>4, <1>6
  <2>3. QED BY <1>6, <2>1, <2>2 DEF Argument, a, b, w
<1>7. QED BY <1>1, <1>5, <1>6

LEMMA MulFlag ==
    ASSUME NEW T \in WideTypes, NEW x \in Values(T), NEW y \in Values(T)
    PROVE  OverflowFlag("mul", Argument(T, x), Argument(T, y), T) <=> x * y \notin Values(T)
<1> DEFINE a == Argument(T, x)
           b == Argument(T, y)
           h == Pow2(T.size - 1)
           z == x * y
           p == Wrap(z, T)
           r == Argument(T, p)
           q == Quotient(p, x)
           isZero == Icmp("eq", a, Constant(T, 0))
           isM1 == T.signed /\ Icmp("eq", a, Constant(T, -1))
           Div(s) == Binop(IF T.signed THEN "sdiv" ELSE "udiv", r, s)
<1>1. T \in Types /\ T \in SoundTypes /\ ~SubWord(T) /\ T # Bool /\ T.signed \in BOOLEAN
      /\ x \in Int /\ y \in Int /\ z \in Int
  BY WideTypesAre, ReadBack
<1>2. 0 \in Values(T) /\ 1 \in Values(T) /\ (T.signed => -1 \in Values(T))
  BY SmallValues
<1>3. p \in Values(T)
  <2> HIDE DEF z
  <2>1. QED BY <1>1, WrapIs
<1>4. Constant(T, 0) = Argument(T, 0) /\ Constant(T, 1) = Argument(T, 1)
      /\ (T.signed => Constant(T, -1) = Argument(T, -1))
  BY <1>1, <1>2, ConstantIs
<1>5. (isZero <=> x = 0) /\ (isM1 <=> T.signed /\ x = -1)
  <2>1. Icmp("eq", a, Argument(T, 0)) <=> x = 0
    BY <1>1, <1>2, Compares
  <2>2. T.signed => (Icmp("eq", a, Argument(T, -1)) <=> x = -1)
    BY <1>1, <1>2, Compares
  <2> HIDE DEF a
  <2>3. QED BY <1>1, <1>4, <2>1, <2>2
<1>6. Value("mul", a, b, T) = r
  BY <1>1, RingOps DEF Value
<1>7. OverflowFlag("mul", a, b, T)
        <=> /\ ~isZero
            /\ IF isM1 THEN Icmp("eq", b, Constant(T, -h))
               ELSE ~Icmp("eq", Div(IF isZero \/ isM1 THEN Constant(T, 1) ELSE a), b)
  BY <1>6 DEF OverflowFlag, ProductFlag
<1>8. h \in Nat /\ h >= 1 /\ (T.signed => Values(T) = -h .. h - 1)
  BY WideTypesAre, StorageFacts, Pow2Prev DEF SignedRange
<1>9. CASE x = 0
  <2>1. z = 0
    BY <1>1, <1>9
  <2>2. QED BY <1>2, <1>5, <1>7, <1>9, <2>1
<1>10. CASE T.signed /\ x = -1
  <2>1. z = -y
    BY <1>1, <1>10
  <2>2. -h \in Values(T)
    BY <1>8, <1>10
  <2>3. Icmp("eq", b, Constant(T, -h)) <=> y = -h
    <3>1. Constant(T, -h) = Argument(T, -h)
      BY <1>1, <2>2, ConstantIs
    <3>2. Icmp("eq", b, Argument(T, -h)) <=> y = -h
      <4> DEFINE n == -h
      <4>1. n \in Values(T)
        BY <2>2
      <4> HIDE DEF n
      <4>2. Icmp("eq", b, Argument(T, n)) <=> y = n
        BY <1>1, <4>1, Compares
      <4>3. QED BY <4>2 DEF n
    <3>3. QED BY <3>1, <3>2
  <2>4. z \notin Values(T) <=> y = -h
    <3>1. y \in -h .. h - 1 /\ Values(T) = -h .. h - 1
      BY <1>8, <1>10
    <3> HIDE DEF h, z
    <3>2. QED BY <1>1, <1>8, <2>1, <3>1
  <2>5. ~isZero /\ isM1
    BY <1>5, <1>10
  <2> HIDE DEF isZero, isM1, Div
  <2>6. OverflowFlag("mul", a, b, T) <=> Icmp("eq", b, Constant(T, -h))
    BY <1>7, <2>5
  <2>7. QED BY <2>3, <2>4, <2>6
<1>11. CASE x # 0 /\ ~(T.signed /\ x = -1)
  <2>1. q \in Values(T) /\ (q = y <=> z \in Values(T))
    BY <1>11, ProductIs
  <2>2. Div(a) = Argument(T, q)
    <3> HIDE DEF p
    <3>1. QED BY <1>3, <1>11, <2>1, DivideIs
  <2>3. Icmp("eq", Argument(T, q), b) <=> q = y
    <3> HIDE DEF q
    <3>1. QED BY <1>1, <2>1, Compares
  <2>4. ~isZero /\ ~isM1
    BY <1>5, <1>11
  <2> HIDE DEF isZero, isM1, Div, q, z, r
  <2>5. OverflowFlag("mul", a, b, T) <=> ~Icmp("eq", Div(a), b)
    BY <1>7, <2>4
  <2>6. OverflowFlag("mul", a, b, T) <=> z \notin Values(T)
    BY <2>1, <2>2, <2>3, <2>5
  <2>7. QED BY <2>6 DEF z
<1>12. QED BY <1>9, <1>10, <1>11

\* A remainder of unsigned numbers.
LEMMA RemIs ==
    ASSUME NEW T \in WideTypes, ~T.signed, NEW x \in Values(T), NEW y \in Values(T), y # 0
    PROVE  /\ Value("rem", Argument(T, x), Argument(T, y), T) = Argument(T, Wrap(Remainder(x, y), T))
           /\ ~OverflowFlag("rem", Argument(T, x), Argument(T, y), T)
           /\ Remainder(x, y) \in Int /\ y # -1
<1> DEFINE a == Argument(T, x)
           b == Argument(T, y)
           w == Storage(T)
<1>1. T \in Types /\ T \in SoundTypes /\ ~SubWord(T) /\ x \in Int /\ y \in Int /\ w \in Nat
      /\ x >= 0 /\ y >= 0
  BY WideTypesAre, ReadBack, StorageFacts
<1>2. a.width = w /\ b.width = w /\ a.bits = x /\ b.bits = y
  BY <1>1, ArgumentIs, ReadBack
<1>3. Remainder(x, y) = x % y /\ Remainder(x, y) \in Int
  BY <1>1, QuotientIs
<1>4. Value("rem", a, b, T) = Binop("urem", a, b)
  BY DEF Value
<1> HIDE DEF a, b, w
<1>5. Binop("urem", a, b) = Reg(x % y, w)
  BY <1>1, <1>2, BinopIs
<1>6. Reg(Remainder(x, y), w) = Argument(T, Wrap(Remainder(x, y), T))
  BY <1>1, <1>3, RegWrap DEF w
<1>7. ~OverflowFlag("rem", a, b, T)
  BY DEF OverflowFlag
<1>8. QED BY <1>1, <1>3, <1>4, <1>5, <1>6, <1>7 DEF a, b

-----------------------------------------------------------------------------
(* The way back                                                            *)

\* Whatever the build leaves above the bits of an i32, the host gets the value.
LEMMA ReturnIs ==
    ASSUME NEW T \in SoundTypes, T # Char, NEW v \in Values(T),
           NEW u \in Wires(Returned(Argument(T, v), T))
    PROVE  FromWire(u, T) = v /\ v \in Int
<1> DEFINE r == Argument(T, v)
           w == Storage(T)
<1>1. T \in Types /\ v \in Int /\ w \in Nat /\ w >= 1 /\ T.size \in Nat /\ T.size <= w
  BY ReadBack, StorageFacts, TypeFacts DEF SoundTypes
<1>2. r.width = w /\ r.bits \in 0 .. Pow2(w) - 1 /\ r.bits \in Int /\ r.bits = v % Pow2(w)
      /\ Congruent(r.bits, v, Pow2(w))
  BY <1>1, ArgumentIs
<1> HIDE DEF r
<1>3. Returned(r, T) = r
  <2>1. ~(r.width > Storage(T)) /\ r.width >= Storage(T)
    BY <1>1, <1>2
  <2>2. QED BY <2>1 DEF Returned, Uextend
<1>4. u = r.bits \/ u = AsSigned(r.bits, w)
  <2>1. u \in Wires(r)
    BY <1>3 DEF r
  <2>2. QED BY <1>2, <2>1 DEF Wires
<1>5. CASE T = Bool
  <2>1. v \in {0, 1} /\ w = Half
    BY <1>5, BoolIs, TypeFacts DEF Values, SoundTypes
  <2>2. r.bits = v
    BY <1>2, <1>5, BoolIs, ReadBack
  <2>3. Half - 1 \in Nat /\ Half - 1 >= 2 /\ Half - 1 < Pow2(Half - 1) /\ Pow2(Half - 1) \in Nat
    <3>1. Half - 1 \in Nat /\ Half - 1 >= 2
      BY Widths
    <3>2. QED BY <3>1, Pow2Pos
  <2>4. AsSigned(v, Half) = v
    BY <2>1, <2>3 DEF AsSigned
  <2>5. u = v
    BY <1>4, <2>1, <2>2, <2>4
  <2>6. QED BY <1>1, <1>5, <2>1, <2>5 DEF FromWire
<1>6. CASE T # Bool
  <2>1. AsSigned(r.bits, w) \in Int /\ Congruent(AsSigned(r.bits, w), r.bits, Pow2(w))
    BY <1>1, <1>2, AsSignedIs
  <2>2. u \in Int /\ Congruent(u, v, Pow2(w))
    <3>1. CASE u = r.bits
      BY <1>2, <3>1
    <3>2. CASE u = AsSigned(r.bits, w)
      <4> DEFINE b == r.bits
                 m == Pow2(w)
      <4>1. m \in Nat /\ m >= 1
        BY <1>1, Pow2Pos
      <4>2. u \in Int /\ b \in Int /\ Congruent(u, b, m) /\ Congruent(b, v, m)
        BY <1>2, <2>1, <3>2
      <4> HIDE DEF b, m
      <4>3. u % m = b % m /\ b % m = v % m
        BY <1>1, <4>1, <4>2, CongruentMod
      <4>4. Congruent(u, v, m)
        BY <1>1, <4>1, <4>2, <4>3, CongruentMod
      <4>5. QED BY <4>2, <4>4 DEF m
    <3>3. QED BY <1>4, <3>1, <3>2
  <2>3. Congruent(u, v, Pow2(T.size))
    <3> DEFINE k == T.size
    <3>1. k \in Nat /\ k <= w
      BY <1>1
    <3> HIDE DEF k, w
    <3>2. Congruent(u, v, Pow2(k))
      BY <1>1, <2>2, <3>1, ModMod
    <3>3. QED BY <3>2 DEF k
  <2>4. Wrap(u, T) = Wrap(v, T) /\ Wrap(v, T) = v
    BY <1>1, <2>2, <2>3, WrapCongruent, WrapSelf
  <2>5. FromWire(u, T) = Wrap(u, T)
    BY <1>6 DEF FromWire
  <2>6. QED BY <1>1, <2>4, <2>5
<1>7. QED BY <1>5, <1>6

-----------------------------------------------------------------------------
(* Programs of the operations that keep registers normalized               *)

LEMMA Names ==
    ASSUME NEW T \in Types
    PROVE  /\ T.name = "Int64" <=> T = Int64
           /\ T.name = "UInt64" <=> T = UInt64
           /\ T.name = "Int32" <=> T = Int32
           /\ T.name = "UInt32" <=> T = UInt32
           /\ T.name = "Char" <=> T = Char
           /\ T.name = "Int8" <=> T = Int8
           /\ T.name = "UInt8" <=> T = UInt8
           /\ T.name = "Bool" <=> T = Bool
BY DEF Types, Type, Int64, UInt64, Int32, UInt32, Char, Int8, UInt8, Bool

\* The types of an operation.
LEMMA SoundUses ==
    ASSUME Lowered \subseteq SoundOps, NEW T \in Types
    PROVE  /\ \A op \in {"argument", "constant", "eq", "lt"} : Uses(op, T) => T \in SoundTypes
           /\ \A op \in {"add", "sub", "mul", "checked_add", "checked_sub", "checked_mul"} :
                 Uses(op, T) => T \in WideTypes
           /\ Uses("checked_rem", T) => T \in {UInt64, UInt32}
           /\ Uses("neg", T) => T \in WordTypes
           /\ Uses("not", T) => T \in WordTypes \cup {UInt8, Bool}
           /\ Uses("flipsign", T) \/ Uses("sshr", T) => T = Int64
           /\ Uses("shl", T) \/ Uses("ushr", T) => T \in WordTypes
           /\ Uses("clz", T) \/ Uses("ctz", T) => T \in WideTypes \cup {UInt8}
           /\ Uses("sext", T) => T \in {Int32, UInt32}
           /\ Uses("zext", T) => T \in {Int32, UInt32, UInt8, Bool}
           /\ Uses("return", T) => T # Char /\ T # Int8
<1> DEFINE n == T.name
<1>1. ASSUME NEW op, Uses(op, T)
      PROVE  \/ <<op, n>> \in SoundWords
             \/ <<op, n>> \in SoundHalves
             \/ <<op, n>> \in SoundSubWords
  BY <1>1 DEF Uses, SoundOps
<1> HIDE DEF n
<1>2. ASSUME NEW op, Uses(op, T)
      PROVE  n \in {"Int64", "UInt64", "Int32", "UInt32", "Char", "UInt8", "Bool"}
  BY <1>1, <1>2 DEF SoundWords, SoundHalves, SoundSubWords
<1>3. \A op \in {"argument", "constant", "eq", "lt"} : Uses(op, T) => T \in SoundTypes
  <2>1. ASSUME NEW op, Uses(op, T)
        PROVE  T \in SoundTypes
    <3>1. n # "Int8"
      BY <1>2, <2>1
    <3>2. QED BY <3>1, Names DEF SoundTypes, n
  <2>2. QED BY <2>1
<1>4. ASSUME NEW op \in {"add", "sub", "mul", "checked_add", "checked_sub", "checked_mul"}, Uses(op, T)
      PROVE  T \in WideTypes
  <2>1. n \in {"Int64", "UInt64", "Int32", "UInt32"}
    BY <1>1, <1>4 DEF SoundWords, SoundHalves, SoundSubWords
  <2>2. QED BY <2>1, Names DEF WideTypes, n
<1>5. ASSUME Uses("checked_rem", T)
      PROVE  T \in {UInt64, UInt32}
  <2>1. <<"checked_rem", n>> \in SoundWords => n = "UInt64"
    BY DEF SoundWords
  <2>2. <<"checked_rem", n>> \in SoundHalves => n = "UInt32"
    BY DEF SoundHalves
  <2>3. ~(<<"checked_rem", n>> \in SoundSubWords)
    BY DEF SoundSubWords
  <2>4. n \in {"UInt64", "UInt32"}
    BY <1>1, <1>5, <2>1, <2>2, <2>3
  <2>5. QED BY <2>4, Names DEF n
<1>6. ASSUME NEW op \in {"neg", "shl", "ushr"}, Uses(op, T)
      PROVE  T \in WordTypes
  <2>1. n \in {"Int64", "UInt64"}
    BY <1>1, <1>6 DEF SoundWords, SoundHalves, SoundSubWords
  <2>2. QED BY <2>1, Names DEF WordTypes, n
<1>7. ASSUME Uses("not", T)
      PROVE  T \in WordTypes \cup {UInt8, Bool}
  <2>1. n \in {"Int64", "UInt64", "UInt8", "Bool"}
    BY <1>1, <1>7 DEF SoundWords, SoundHalves, SoundSubWords
  <2>2. QED BY <2>1, Names DEF WordTypes, n
<1>8. ASSUME NEW op \in {"flipsign", "sshr"}, Uses(op, T)
      PROVE  T = Int64
  <2>1. n = "Int64"
    BY <1>1, <1>8 DEF SoundWords, SoundHalves, SoundSubWords
  <2>2. QED BY <2>1, Names DEF n
<1>9. ASSUME NEW op \in {"clz", "ctz"}, Uses(op, T)
      PROVE  T \in WideTypes \cup {UInt8}
  <2>1. n \in {"Int64", "UInt64", "Int32", "UInt32", "UInt8"}
    BY <1>1, <1>9 DEF SoundWords, SoundHalves, SoundSubWords
  <2>2. QED BY <2>1, Names DEF WideTypes, n
<1>10. ASSUME Uses("sext", T)
       PROVE  T \in {Int32, UInt32}
  <2>1. ~(<<"sext", n>> \in SoundWords)
    BY DEF SoundWords
  <2>2. <<"sext", n>> \in SoundHalves => n \in {"Int32", "UInt32"}
    BY DEF SoundHalves
  <2>3. ~(<<"sext", n>> \in SoundSubWords)
    BY DEF SoundSubWords
  <2>4. n \in {"Int32", "UInt32"}
    BY <1>1, <1>10, <2>1, <2>2, <2>3
  <2>5. QED BY <2>4, Names DEF n
<1>11. ASSUME Uses("zext", T)
       PROVE  T \in {Int32, UInt32, UInt8, Bool}
  <2>1. n \in {"Int32", "UInt32", "UInt8", "Bool"}
    BY <1>1, <1>11 DEF SoundWords, SoundHalves, SoundSubWords
  <2>2. QED BY <2>1, Names DEF n
<1>12. ASSUME Uses("return", T)
       PROVE  T # Char /\ T # Int8
  <2>1. n # "Char" /\ n # "Int8"
    BY <1>1, <1>12 DEF SoundWords, SoundHalves, SoundSubWords
  <2>2. QED BY <2>1, Names DEF n
<1>13. QED BY <1>3, <1>4, <1>5, <1>6, <1>7, <1>8, <1>9, <1>10, <1>11, <1>12

LEMMA IcmpTyped ==
    ASSUME NEW cc \in {"eq", "slt", "ult"}, NEW a, NEW b
    PROVE  Icmp(cc, a, b) \in BOOLEAN
<1>1. Icmp("eq", a, b) \in BOOLEAN /\ Icmp("slt", a, b) \in BOOLEAN /\ Icmp("ult", a, b) \in BOOLEAN
  BY DEF Icmp
<1>2. QED BY <1>1

LEMMA FlagTyped ==
    ASSUME NEW kind \in DOMAIN CheckedOp, NEW a, NEW b, NEW T \in Types
    PROVE  OverflowFlag(kind, a, b, T) \in BOOLEAN
<1>1. kind \in {"add", "sub", "mul", "rem"}
  BY DEF CheckedOp
<1>2. T.signed \in BOOLEAN
  BY TypeFacts
<1>3. \A r : ProductFlag(a, b, r, T) \in BOOLEAN
  BY DEF ProductFlag
<1>4. OverflowFlag("add", a, b, T) \in BOOLEAN
  BY <1>2, IcmpTyped DEF OverflowFlag
<1>5. OverflowFlag("sub", a, b, T) \in BOOLEAN
  BY <1>2, IcmpTyped DEF OverflowFlag
<1>6. OverflowFlag("mul", a, b, T) \in BOOLEAN
  BY <1>3 DEF OverflowFlag
<1>7. OverflowFlag("rem", a, b, T) \in BOOLEAN
  BY DEF OverflowFlag
<1>8. QED BY <1>1, <1>4, <1>5, <1>6, <1>7

\* The register of the value, normalized for its type.
Normal(T, r, v) == T \in SoundTypes /\ v \in Values(T) /\ r = Argument(T, v)

(* Every register is normalized, which is what makes each next operation   *)
(* read the value that the one before it meant; the two flags agree; and   *)
(* what was returned is the value.                                         *)
ScalarsInv ==
    /\ Normal(type, reg, val)
    /\ pair \in [flag : BOOLEAN, overflow : BOOLEAN] /\ pair.flag = pair.overflow
    /\ status \in {"running", "returned", "threw"} /\ result \in Int
    /\ status # "running" => status = "returned" /\ result = val

LEMMA ScalarsInvInit ==
    ASSUME Lowered \subseteq SoundOps, ScalarInit
    PROVE  ScalarsInv
<1>1. PICK T \in Types : \E v \in Values(T) :
         \/ Uses("argument", T) /\ type = T /\ val = v /\ reg = Argument(T, v)
         \/ Uses("constant", T) /\ type = T /\ val = v /\ reg = Constant(T, v)
  BY DEF ScalarInit
<1>2. PICK v \in Values(T) :
         \/ Uses("argument", T) /\ type = T /\ val = v /\ reg = Argument(T, v)
         \/ Uses("constant", T) /\ type = T /\ val = v /\ reg = Constant(T, v)
  BY <1>1
<1>3. T \in SoundTypes
  BY <1>2, SoundUses
<1>4. Normal(type, reg, val)
  BY <1>2, <1>3, ConstantIs DEF Normal
<1>5. QED BY <1>4 DEF ScalarInit, ScalarsInv, NoPair

\* A step that keeps the register normalized and has no pair.
LEMMA KeepsInv ==
    ASSUME ScalarsInv, status = "running", Normal(type', reg', val'),
           UNCHANGED <<status, result>>,
           \/ pair' = NoPair
           \/ pair' \in [flag : BOOLEAN, overflow : BOOLEAN] /\ pair'.flag = pair'.overflow
    PROVE  ScalarsInv'
<1>1. pair' \in [flag : BOOLEAN, overflow : BOOLEAN] /\ pair'.flag = pair'.overflow
  <2>1. NoPair \in [flag : BOOLEAN, overflow : BOOLEAN] /\ NoPair.flag = NoPair.overflow
    BY DEF NoPair
  <2>2. QED BY <2>1
<1>2. QED BY <1>1 DEF ScalarsInv

LEMMA ArithmeticKeeps ==
    ASSUME Lowered \subseteq SoundOps, Normal(type, reg, val),
           NEW op \in {"add", "sub", "mul"}, Arithmetic(op)
    PROVE  Normal(type', reg', val')
<1>1. type \in WideTypes
  BY SoundUses DEF Arithmetic, Lower, Normal, SoundTypes
<1>2. PICK y \in Values(type) : \E o \in Second(y) :
         Becomes(type, Binop(op, reg, o), Wrap(Exact(op, val, y), type))
  BY DEF Arithmetic
<1>3. PICK o \in Second(y) : Becomes(type, Binop(op, reg, o), Wrap(Exact(op, val, y), type))
  BY <1>2
<1>4. type \in SoundTypes /\ val \in Values(type) /\ reg = Argument(type, val)
  BY DEF Normal
<1>5. o = Argument(type, y)
  BY <1>4, SecondIs
<1>6. type \in Types /\ ~SubWord(type) /\ type # Bool /\ val \in Int /\ y \in Int
  BY <1>1, <1>4, WideTypesAre, ReadBack
<1>7. Exact(op, val, y) \in Int
  BY <1>6 DEF Exact
<1>8. Binop(op, reg, o) = Argument(type, Wrap(Exact(op, val, y), type))
  BY <1>4, <1>5, <1>6, RingOps DEF Exact
<1>9. Wrap(Exact(op, val, y), type) \in Values(type)
  BY <1>6, <1>7, WrapIs
<1>10. QED BY <1>3, <1>4, <1>8, <1>9 DEF Becomes, Normal

LEMMA ComparisonsKeep ==
    ASSUME Lowered \subseteq SoundOps, Normal(type, reg, val), Equal \/ Less
    PROVE  Normal(type', reg', val')
<1>1. type \in SoundTypes /\ type \in Types /\ val \in Values(type) /\ reg = Argument(type, val)
      /\ type.signed \in BOOLEAN
  BY TypeFacts DEF Normal, SoundTypes
<1>2. ASSUME NEW p \in BOOLEAN, Becomes(Bool, Flag(p), IF p THEN 1 ELSE 0)
      PROVE  Normal(type', reg', val')
  BY <1>2, BoolIs, FlagIs DEF Becomes, Normal
<1>3. CASE Equal
  <2>1. PICK y \in Values(type) : \E o \in Second(y) :
           Becomes(Bool, Flag(Icmp("eq", reg, o)), IF val = y THEN 1 ELSE 0)
    BY <1>3 DEF Equal
  <2>2. PICK o \in Second(y) : Becomes(Bool, Flag(Icmp("eq", reg, o)), IF val = y THEN 1 ELSE 0)
    BY <2>1
  <2>3. Icmp("eq", reg, o) <=> val = y
    BY <1>1, SecondIs, Compares
  <2>4. Becomes(Bool, Flag(val = y), IF val = y THEN 1 ELSE 0)
    BY <2>2, <2>3 DEF Flag
  <2>5. QED BY <1>2, <2>4
<1>4. CASE Less
  <2>1. PICK y \in Values(type) : \E o \in Second(y) :
           Becomes(Bool, Flag(Icmp(IF type.signed THEN "slt" ELSE "ult", reg, o)),
                   IF val < y THEN 1 ELSE 0)
    BY <1>4 DEF Less
  <2>2. PICK o \in Second(y) :
           Becomes(Bool, Flag(Icmp(IF type.signed THEN "slt" ELSE "ult", reg, o)),
                   IF val < y THEN 1 ELSE 0)
    BY <2>1
  <2>3. Icmp(IF type.signed THEN "slt" ELSE "ult", reg, o) <=> val < y
    <3>1. o = Argument(type, y)
      BY <1>1, SecondIs
    <3>2. /\ type.signed => (Icmp("slt", reg, o) <=> val < y)
          /\ ~type.signed => (Icmp("ult", reg, o) <=> val < y)
      BY <1>1, <3>1, Compares
    <3>3. CASE type.signed
      BY <3>2, <3>3
    <3>4. CASE ~type.signed
      BY <3>2, <3>4
    <3>5. QED BY <1>1, <3>3, <3>4
  <2>4. Becomes(Bool, Flag(val < y), IF val < y THEN 1 ELSE 0)
    BY <2>2, <2>3 DEF Flag
  <2>5. (val < y) \in BOOLEAN
    OBVIOUS
  <2>6. QED BY <1>2, <2>4, <2>5
<1>5. QED BY <1>3, <1>4

LEMMA NegationsKeep ==
    ASSUME Lowered \subseteq SoundOps, Normal(type, reg, val), Negate \/ Complement
    PROVE  Normal(type', reg', val')
<1>1. type \in SoundTypes /\ type \in Types /\ val \in Values(type) /\ reg = Argument(type, val)
      /\ val \in Int
  BY ReadBack DEF Normal, SoundTypes
<1>2. -val \in Int /\ -1 - val \in Int
  BY <1>1
<1>3. CASE Negate
  <2>1. type \in WordTypes
    BY <1>1, <1>3, SoundUses DEF Negate, Lower
  <2>2. type' = type /\ reg' = NegInt(reg, type) /\ val' = Wrap(-val, type)
    BY <1>3 DEF Negate, Becomes
  <2>3. NegInt(reg, type) = Argument(type, Wrap(-val, type))
    BY <1>1, <2>1, NegIs
  <2>4. Wrap(-val, type) \in Values(type)
    BY <1>1, <1>2, <2>1, WordTypesAre, WrapIs
  <2>5. QED BY <1>1, <2>2, <2>3, <2>4 DEF Normal
<1>4. CASE Complement
  <2>1. type \in WordTypes \/ type = UInt8 \/ type = Bool
    BY <1>1, <1>4, SoundUses DEF Complement, Lower
  <2>2. /\ type' = type /\ reg' = NotInt(reg, type)
        /\ val' = IF type = Bool THEN 1 - val ELSE Wrap(-1 - val, type)
    BY <1>4 DEF Complement, Becomes
  <2>3. CASE type # Bool
    <3>1. NotInt(reg, type) = Argument(type, Wrap(-1 - val, type))
      BY <1>1, <2>1, <2>3, NotWord, NotByte
    <3>2. Wrap(-1 - val, type) \in Values(type)
      BY <1>1, <1>2, <2>3, WrapIs
    <3>3. QED BY <1>1, <2>2, <2>3, <3>1, <3>2 DEF Normal
  <2>4. CASE type = Bool
    BY <1>1, <2>2, <2>4, NotBool DEF Normal
  <2>5. QED BY <2>3, <2>4
<1>5. QED BY <1>3, <1>4

LEMMA ShiftsKeep ==
    ASSUME Lowered \subseteq SoundOps, Normal(type, reg, val),
           FlipSign \/ \E op \in {"shl", "ushr", "sshr"} : Shift(op)
    PROVE  Normal(type', reg', val')
<1>1. type \in SoundTypes /\ type \in Types /\ val \in Values(type) /\ reg = Argument(type, val)
      /\ val \in Int
  BY ReadBack DEF Normal, SoundTypes
<1>2. CASE FlipSign
  <2>1. type = Int64
    BY <1>1, <1>2, SoundUses DEF FlipSign, Lower
  <2>2. PICK y \in Values(type) : \E o \in Second(y) :
           Becomes(type, FlipsignInt(reg, o, type), Wrap(IF y < 0 THEN -val ELSE val, type))
    BY <1>2 DEF FlipSign
  <2>3. PICK o \in Second(y) :
           Becomes(type, FlipsignInt(reg, o, type), Wrap(IF y < 0 THEN -val ELSE val, type))
    BY <2>2
  <2> DEFINE z == IF y < 0 THEN -val ELSE val
  <2>4. FlipsignInt(reg, o, type) = Argument(type, Wrap(z, type))
    BY <1>1, <2>1, SecondIs, FlipIs
  <2>5. z \in Int
    BY <1>1
  <2> HIDE DEF z
  <2>6. Wrap(z, type) \in Values(type)
    BY <1>1, <2>1, <2>5, Int64Is, WordTypesAre, WrapIs
  <2>7. QED BY <1>1, <2>3, <2>4, <2>6 DEF Becomes, Normal, z
<1>3. ASSUME NEW op \in {"shl", "ushr", "sshr"}, Shift(op)
      PROVE  Normal(type', reg', val')
  <2>1. PICK n \in 0 .. Word - 1 :
          Becomes(type, Binop(op, reg, Reg(n, Word)),
                CASE op = "shl" -> Wrap(val * Pow2(n), type)
                  [] op = "ushr" -> Wrap((val % Pow2(type.size)) \div Pow2(n), type)
                  [] op = "sshr" -> val \div Pow2(n))
    BY <1>3 DEF Shift
  <2>2. Pow2(n) \in Nat /\ Pow2(n) >= 1
    BY WordFacts, AmountIs, Pow2Pos
  <2>3. CASE op = "shl"
    <3>1. type \in WordTypes
      BY <1>1, <1>3, <2>3, SoundUses DEF Shift, Lower
    <3>2. type' = type /\ reg' = Binop("shl", reg, Reg(n, Word)) /\ val' = Wrap(val * Pow2(n), type)
      BY <2>1, <2>3 DEF Becomes
    <3>3. reg' = Argument(type, Wrap(val * Pow2(n), type))
      BY <1>1, <3>1, <3>2, ShlIs
    <3>4. val * Pow2(n) \in Int
      BY <1>1, <2>2
    <3>5. Wrap(val * Pow2(n), type) \in Values(type)
      BY <1>1, <3>1, <3>4, WordTypesAre, WrapIs
    <3>6. QED BY <1>1, <3>2, <3>3, <3>5 DEF Normal
  <2>4. CASE op = "ushr"
    <3> DEFINE z == (val % Pow2(type.size)) \div Pow2(n)
    <3>1. type \in WordTypes
      BY <1>1, <1>3, <2>4, SoundUses DEF Shift, Lower
    <3>2. type' = type /\ reg' = Binop("ushr", reg, Reg(n, Word)) /\ val' = Wrap(z, type)
      BY <2>1, <2>4 DEF Becomes
    <3>3. reg' = Argument(type, Wrap(z, type))
      BY <1>1, <3>1, <3>2, UshrIs
    <3>4. z \in Int
      BY <1>1, <2>2, StorageFacts
    <3> HIDE DEF z
    <3>5. Wrap(z, type) \in Values(type)
      BY <1>1, <3>1, <3>4, WordTypesAre, WrapIs
    <3>6. QED BY <1>1, <3>2, <3>3, <3>5 DEF Normal
  <2>5. CASE op = "sshr"
    <3>1. type = Int64
      BY <1>1, <1>3, <2>5, SoundUses DEF Shift, Lower
    <3>2. type' = type /\ reg' = Binop("sshr", reg, Reg(n, Word)) /\ val' = val \div Pow2(n)
      BY <2>1, <2>5 DEF Becomes
    <3>3. QED BY <1>1, <3>1, <3>2, SshrIs DEF Normal
  <2>6. QED BY <2>3, <2>4, <2>5
<1>4. QED BY <1>2, <1>3

LEMMA CountsKeep ==
    ASSUME Lowered \subseteq SoundOps, Normal(type, reg, val), Clz \/ Ctz
    PROVE  Normal(type', reg', val')
<1> DEFINE x == val % Pow2(type.size)
           lead == LeadingZeros(x, type.size)
           trail == TrailingZeros(x, type.size)
<1>1. type \in SoundTypes /\ type \in Types /\ val \in Values(type) /\ reg = Argument(type, val)
      /\ val \in Int /\ type.size \in Nat
  BY ReadBack, TypeFacts DEF Normal, SoundTypes
<1>2. type \in WideTypes \/ type = UInt8
  BY <1>1, SoundUses DEF Clz, Ctz, Lower
<1>3. type # Bool
  BY <1>2, WideTypesAre, UInt8Is
<1>4. /\ CountLeading(reg, type) = Argument(type, Wrap(lead, type))
      /\ CountTrailing(reg, type) = Argument(type, Wrap(trail, type))
  <2>1. CASE type \in WideTypes
    BY <1>1, <2>1, WideTypesAre, CountWide
  <2>2. CASE type = UInt8
    BY <1>1, <2>2, UInt8Is, CountByte
  <2>3. QED BY <1>2, <2>1, <2>2
<1>5. x \in Int
  BY <1>1, StorageFacts
<1>6. lead \in Int /\ trail \in Int
  <2> HIDE DEF x
  <2>1. QED BY <1>1, <1>5, CountsAre
<1>7. /\ type' = type
      /\ \/ reg' = CountLeading(reg, type) /\ val' = Wrap(lead, type)
         \/ reg' = CountTrailing(reg, type) /\ val' = Wrap(trail, type)
  BY DEF Clz, Ctz, Becomes
<1> HIDE DEF lead, trail
<1>8. Wrap(lead, type) \in Values(type) /\ Wrap(trail, type) \in Values(type)
  BY <1>1, <1>3, <1>6, WrapIs
<1>9. QED BY <1>1, <1>4, <1>7, <1>8 DEF Normal

LEMMA ConversionsKeep ==
    ASSUME Lowered \subseteq SoundOps, Normal(type, reg, val), NEW T \in Types,
           Narrow(T) \/ SignExtend(T) \/ ZeroExtend(T) \/ Bitcast(T)
    PROVE  Normal(type', reg', val')
<1>1. type \in SoundTypes /\ type \in Types /\ val \in Values(type) /\ reg = Argument(type, val)
      /\ val \in Int
  BY ReadBack DEF Normal, SoundTypes
<1>2. T \in SoundTypes
  BY SoundUses DEF Narrow, SignExtend, ZeroExtend, Bitcast
<1>3. CASE Narrow(T)
  <2>1. T.size < type.size /\ T # Bool /\ type' = T /\ reg' = Trunc(reg, T) /\ val' = Wrap(val, T)
    BY <1>3 DEF Narrow, Becomes
  <2>2. reg' = Argument(T, Wrap(val, T))
    BY <1>1, <1>2, <2>1, NarrowIs
  <2>3. Wrap(val, T) \in Values(T)
    BY <1>1, <2>1, WrapIs
  <2>4. QED BY <1>2, <2>1, <2>2, <2>3 DEF Normal
<1>4. CASE SignExtend(T)
  <2> DEFINE z == AsSigned(val % Pow2(type.size), type.size)
  <2>1. T.size > type.size /\ type' = T /\ reg' = Sextend(reg, Storage(T)) /\ val' = Wrap(z, T)
    BY <1>4 DEF SignExtend, Becomes
  <2>2. type \in {Int32, UInt32}
    BY <1>1, <1>4, SoundUses DEF SignExtend, Lower
  <2>3. type.size = Half
    BY <2>2 DEF Int32, UInt32, Type
  <2>4. reg' = Argument(T, Wrap(z, T))
    BY <1>1, <2>1, <2>3, SignExtendIs
  <2>5. z \in Int
    <3>1. val % Pow2(Half) \in 0 .. Pow2(Half) - 1
      BY <1>1, WordFacts
    <3>2. QED BY <2>3, <3>1, WordFacts, AsSignedIs
  <2>6. T # Bool
    BY <2>1, <2>3, BoolIs, Widths
  <2> HIDE DEF z
  <2>7. Wrap(z, T) \in Values(T)
    BY <2>5, <2>6, WrapIs
  <2>8. QED BY <1>2, <2>1, <2>4, <2>7 DEF Normal
<1>5. CASE ZeroExtend(T)
  <2> DEFINE z == val % Pow2(type.size)
  <2>1. T.size > type.size /\ type' = T /\ reg' = Uextend(reg, Storage(T)) /\ val' = Wrap(z, T)
    BY <1>5 DEF ZeroExtend, Becomes
  <2>2. type.size # Word
    BY <2>1, TypeFacts, Widths
  <2>3. reg' = Argument(T, Wrap(z, T))
    BY <1>1, <2>1, <2>2, ZeroExtendIs
  <2>4. z \in Int
    BY <1>1, StorageFacts
  <2>5. T # Bool
    BY <1>1, <2>1, BoolIs, TypeFacts, Widths
  <2> HIDE DEF z
  <2>6. Wrap(z, T) \in Values(T)
    BY <2>4, <2>5, WrapIs
  <2>7. QED BY <1>2, <2>1, <2>3, <2>6 DEF Normal
<1>6. CASE Bitcast(T)
  <2>1. T.size = type.size /\ T # Bool /\ type' = T /\ reg' = reg /\ val' = Wrap(val, T)
    BY <1>6 DEF Bitcast, Becomes
  <2>2. reg' = Argument(T, Wrap(val, T))
    BY <1>1, <1>2, <2>1, BitcastIs
  <2>3. Wrap(val, T) \in Values(T)
    BY <1>1, <2>1, WrapIs
  <2>4. QED BY <1>2, <2>1, <2>2, <2>3 DEF Normal
<1>7. QED BY <1>3, <1>4, <1>5, <1>6

LEMMA CheckedKeeps ==
    ASSUME Lowered \subseteq SoundOps, Normal(type, reg, val),
           NEW kind \in DOMAIN CheckedOp, Checked(kind)
    PROVE  /\ Normal(type', reg', val')
           /\ pair' \in [flag : BOOLEAN, overflow : BOOLEAN] /\ pair'.flag = pair'.overflow
<1>1. type \in SoundTypes /\ type \in Types /\ val \in Values(type) /\ reg = Argument(type, val)
      /\ val \in Int
  BY ReadBack DEF Normal, SoundTypes
<1>2. /\ kind \in {"add", "sub", "mul", "rem"}
      /\ CheckedOp.add = "checked_add" /\ CheckedOp.sub = "checked_sub"
      /\ CheckedOp.mul = "checked_mul" /\ CheckedOp.rem = "checked_rem"
  BY DEF CheckedOp
<1>3. Uses(CheckedOp[kind], type)
  BY DEF Checked, Lower
<1>4. type \in WideTypes /\ (kind = "rem" => ~type.signed)
  <2>1. CASE kind = "rem"
    <3>1. type \in {UInt64, UInt32}
      BY <1>1, <1>2, <1>3, <2>1, SoundUses
    <3>2. QED BY <3>1 DEF WideTypes, UInt64, UInt32, Type
  <2>2. CASE kind # "rem"
    <3>1. CheckedOp[kind] \in {"checked_add", "checked_sub", "checked_mul"}
      BY <1>2, <2>2
    <3>2. QED BY <1>1, <1>3, <2>2, <3>1, SoundUses
  <2>3. QED BY <2>1, <2>2
<1>5. PICK y \in Values(type) : \E o \in Second(y) :
          /\ kind = "rem" => y # 0
          /\ Becomes(type, Value(kind, reg, o, type), Wrap(Exact(kind, val, y), type))
          /\ pair' = [flag |-> OverflowFlag(kind, reg, o, type),
                      overflow |-> Overflows(kind, val, y)]
  BY DEF Checked
<1>6. PICK o \in Second(y) :
          /\ kind = "rem" => y # 0
          /\ Becomes(type, Value(kind, reg, o, type), Wrap(Exact(kind, val, y), type))
          /\ pair' = [flag |-> OverflowFlag(kind, reg, o, type),
                      overflow |-> Overflows(kind, val, y)]
  BY <1>5
<1>7. o = Argument(type, y)
  BY <1>1, SecondIs
<1>8. ~SubWord(type) /\ type # Bool /\ y \in Int /\ type.signed \in BOOLEAN
  BY <1>1, <1>4, WideTypesAre, ReadBack
<1>9. Value(kind, reg, o, type) = Argument(type, Wrap(Exact(kind, val, y), type))
      /\ Exact(kind, val, y) \in Int
  <2>1. CASE kind = "rem"
    BY <1>1, <1>4, <1>6, <1>7, <2>1, RemIs DEF Exact
  <2>2. CASE kind # "rem"
    <3>1. Value(kind, reg, o, type) = Binop(kind, reg, o)
      BY <2>2 DEF Value
    <3>2. QED BY <1>1, <1>2, <1>7, <1>8, <2>2, <3>1, RingOps DEF Exact
  <2>3. QED BY <2>1, <2>2
<1>10. Wrap(Exact(kind, val, y), type) \in Values(type)
  BY <1>1, <1>8, <1>9, WrapIs
<1>11. OverflowFlag(kind, reg, o, type) <=> Overflows(kind, val, y)
  <2>1. CASE kind = "add"
    BY <1>1, <1>4, <1>7, <1>8, <2>1, SignedFlags, UnsignedFlags DEF Overflows, Exact
  <2>2. CASE kind = "sub"
    BY <1>1, <1>4, <1>7, <1>8, <2>2, SignedFlags, UnsignedFlags DEF Overflows, Exact
  <2>3. CASE kind = "mul"
    BY <1>1, <1>4, <1>7, <2>3, MulFlag DEF Overflows, Exact
  <2>4. CASE kind = "rem"
    BY <1>1, <1>4, <1>6, <1>7, <2>4, RemIs DEF Overflows
  <2>5. QED BY <1>2, <2>1, <2>2, <2>3, <2>4
<1>12. OverflowFlag(kind, reg, o, type) \in BOOLEAN /\ Overflows(kind, val, y) \in BOOLEAN
  BY <1>1, FlagTyped DEF Overflows
<1>13. Normal(type', reg', val')
  BY <1>1, <1>6, <1>9, <1>10 DEF Becomes, Normal
<1>14. QED BY <1>6, <1>11, <1>12, <1>13

LEMMA ReturnKeeps ==
    ASSUME Lowered \subseteq SoundOps, ScalarsInv, Return
    PROVE  ScalarsInv'
<1>1. type \in SoundTypes /\ type \in Types /\ val \in Values(type) /\ reg = Argument(type, val)
  BY DEF ScalarsInv, Normal, SoundTypes
<1>2. type # Char
  BY <1>1, SoundUses DEF Return
<1>3. PICK u \in Wires(Returned(reg, type)) :
          /\ status' = IF type = Char /\ ~Fits32(u) THEN "threw" ELSE "returned"
          /\ result' = FromWire(u, type)
  BY DEF Return
<1>4. FromWire(u, type) = val /\ val \in Int
  BY <1>1, <1>2, ReturnIs
<1>5. status' = "returned" /\ result' = val /\ result' \in Int
  BY <1>2, <1>3, <1>4
<1>6. pair' = NoPair /\ UNCHANGED <<type, reg, val>>
  BY DEF Return
<1>7. NoPair \in [flag : BOOLEAN, overflow : BOOLEAN] /\ NoPair.flag = NoPair.overflow
  BY DEF NoPair
<1>8. Normal(type', reg', val')
  BY <1>6 DEF ScalarsInv
<1>9. QED BY <1>5, <1>6, <1>7, <1>8 DEF ScalarsInv

LEMMA ScalarsInvNext ==
    ASSUME Lowered \subseteq SoundOps, ScalarsInv, [ScalarNext]_scalarVars
    PROVE  ScalarsInv'
<1>0. Normal(type, reg, val)
  BY DEF ScalarsInv
<1>1. ASSUME NEW op \in {"add", "sub", "mul"}, Arithmetic(op)
      PROVE  ScalarsInv'
  <2>1. status = "running" /\ UNCHANGED <<status, result>> /\ pair' = NoPair
    BY <1>1 DEF Arithmetic, Lower
  <2>2. QED BY <1>0, <1>1, <2>1, ArithmeticKeeps, KeepsInv
<1>2. CASE Equal \/ Less
  <2>1. status = "running" /\ UNCHANGED <<status, result>> /\ pair' = NoPair
    BY <1>2 DEF Equal, Less, Lower
  <2>2. QED BY <1>0, <1>2, <2>1, ComparisonsKeep, KeepsInv
<1>3. CASE Negate \/ Complement
  <2>1. status = "running" /\ UNCHANGED <<status, result>> /\ pair' = NoPair
    BY <1>3 DEF Negate, Complement, Lower
  <2>2. QED BY <1>0, <1>3, <2>1, NegationsKeep, KeepsInv
<1>4. CASE FlipSign \/ \E op \in {"shl", "ushr", "sshr"} : Shift(op)
  <2>1. status = "running" /\ UNCHANGED <<status, result>> /\ pair' = NoPair
    BY <1>4 DEF FlipSign, Shift, Lower
  <2>2. QED BY <1>0, <1>4, <2>1, ShiftsKeep, KeepsInv
<1>5. CASE Clz \/ Ctz
  <2>1. status = "running" /\ UNCHANGED <<status, result>> /\ pair' = NoPair
    BY <1>5 DEF Clz, Ctz, Lower
  <2>2. QED BY <1>0, <1>5, <2>1, CountsKeep, KeepsInv
<1>6. ASSUME NEW T \in Types, Narrow(T) \/ SignExtend(T) \/ ZeroExtend(T) \/ Bitcast(T)
      PROVE  ScalarsInv'
  <2>1. status = "running" /\ UNCHANGED <<status, result>> /\ pair' = NoPair
    BY <1>6 DEF Narrow, SignExtend, ZeroExtend, Bitcast, Lower
  <2>2. QED BY <1>0, <1>6, <2>1, ConversionsKeep, KeepsInv
<1>7. ASSUME NEW kind \in DOMAIN CheckedOp, Checked(kind)
      PROVE  ScalarsInv'
  <2>1. status = "running" /\ UNCHANGED <<status, result>>
    BY <1>7 DEF Checked, Lower
  <2>2. QED BY <1>0, <1>7, <2>1, CheckedKeeps, KeepsInv
<1>8. CASE Return
  BY <1>8, ReturnKeeps
<1>9. CASE UNCHANGED scalarVars
  BY <1>9 DEF scalarVars, ScalarsInv, Normal
<1>10. QED BY <1>1, <1>2, <1>3, <1>4, <1>5, <1>6, <1>7, <1>8, <1>9 DEF ScalarNext

LEMMA ScalarsInvMeans ==
    ASSUME ScalarsInv
    PROVE  Represents /\ FlagExact /\ ReturnsValue
<1>1. type \in SoundTypes /\ type \in Types /\ val \in Values(type) /\ reg = Argument(type, val)
      /\ val \in Int /\ type.signed \in BOOLEAN
  BY ReadBack, TypeFacts DEF ScalarsInv, Normal, SoundTypes
<1> DEFINE w == Storage(type)
<1>2. reg.width = w /\ reg.bits = val % Pow2(w) /\ reg.bits \in 0 .. Pow2(w) - 1
  BY <1>1, ArgumentIs
<1>3. reg.width \in {Half, Word}
  BY <1>1, <1>2, TypeFacts
<1>4. ScalarTypeOK
  BY <1>1, <1>2, <1>3 DEF ScalarTypeOK, ScalarsInv
<1>5. val = IF type.signed THEN AsSigned(reg.bits, reg.width) ELSE reg.bits
  <2>1. /\ type.signed => AsSigned(val % Pow2(w), w) = val
        /\ ~type.signed => val % Pow2(w) = val
    BY <1>1, ReadBack
  <2>2. QED BY <1>1, <1>2, <2>1
<1>6. QED BY <1>4, <1>5 DEF Represents, FlagExact, ReturnsValue, ScalarsInv

LEMMA ScalarsAlways ==
    ASSUME Lowered \subseteq SoundOps
    PROVE  ScalarSpec => []ScalarsInv
<1>1. ScalarInit => ScalarsInv
  BY ScalarsInvInit
<1>2. ScalarsInv /\ [ScalarNext]_scalarVars => ScalarsInv'
  BY ScalarsInvNext
<1>3. QED BY <1>1, <1>2, PTL DEF ScalarSpec

(* In every program of the operations in SoundOps, whatever the widths, a  *)
(* register read with the sign of its Julia type is the value that Julia   *)
(* computes: no lowering of builder_emit.jl and no widening of             *)
(* native-builder loses or invents a bit that a later one reads.           *)
THEOREM ScalarsRepresent ==
    ASSUME Lowered \subseteq SoundOps
    PROVE  ScalarSpec => []Represents
<1>1. ScalarSpec => []ScalarsInv
  BY ScalarsAlways
<1>2. ScalarsInv => Represents
  BY ScalarsInvMeans
<1>3. QED BY <1>1, <1>2, PTL

(* The branch-free overflow flags of emit_checked_pair are exact for all   *)
(* widths: signed and unsigned sums, differences and products, and the     *)
(* remainder of unsigned numbers.                                          *)
THEOREM FlagsExact ==
    ASSUME Lowered \subseteq SoundOps
    PROVE  ScalarSpec => []FlagExact
<1>1. ScalarSpec => []ScalarsInv
  BY ScalarsAlways
<1>2. ScalarsInv => FlagExact
  BY ScalarsInvMeans
<1>3. QED BY <1>1, <1>2, PTL

(* What the host gets from _gcall is the value that Julia computes,        *)
(* whatever the build left in the upper half of the return register.       *)
THEOREM ReturnsAlways ==
    ASSUME Lowered \subseteq SoundOps
    PROVE  ScalarSpec => []ReturnsValue
<1>1. ScalarSpec => []ScalarsInv
  BY ScalarsAlways
<1>2. ScalarsInv => ReturnsValue
  BY ScalarsInvMeans
<1>3. QED BY <1>1, <1>2, PTL
=============================================================================
