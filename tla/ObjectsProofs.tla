--------------------------- MODULE ObjectsProofs ---------------------------
(***************************************************************************)
(* Every object reads back as what was put into it, for all types, texts   *)
(* and values and any number of objects.                                   *)
(***************************************************************************)
EXTENDS Objects, WellFoundedInduction, TLAPS

-----------------------------------------------------------------------------
(* Recursion over 0 .. n                                                   *)

\* A non-empty set of naturals has a least element.
LEMMA LeastOf ==
    ASSUME NEW T \in SUBSET Nat, T # {}
    PROVE  \E n \in T : \A m \in T : n <= m
<1> DEFINE Less == {ss \in Nat \X Nat : ss[1] < ss[2]}
<1>1. IsWellFoundedOn(Less, Nat)
  BY NatLessThanWellFounded DEF OpToRel
<1> HIDE DEF Less
<1>2. PICK n \in T : \A m \in T : ~(<<m, n>> \in Less)
  BY <1>1, WFMin
<1>3. \A m \in T : ~(m < n)
  BY <1>2 DEF Less
<1>4. QED BY <1>3

\* What holds of 0 and passes from each number to the next, up to n, holds of
\* all of them.  H is the set of the numbers it holds of.
LEMMA UpTo ==
    ASSUME NEW n \in Nat, NEW H, 0 \in H, \A j \in 0 .. n - 1 : j \in H => j + 1 \in H
    PROVE  \A j \in 0 .. n : j \in H
<1> DEFINE Bad == {j \in 0 .. n : j \notin H}
<1>1. ASSUME Bad # {}
      PROVE  FALSE
  <2>1. Bad \in SUBSET Nat
    OBVIOUS
  <2>2. PICK m \in Bad : \A k \in Bad : m <= k
    BY <1>1, <2>1, LeastOf
  <2>3. m # 0
    BY <2>2
  <2>4. m - 1 \in 0 .. n - 1 /\ m - 1 \notin Bad
    BY <2>2, <2>3
  <2>5. (m - 1) + 1 \in H
    BY <2>4
  <2>6. QED BY <2>2, <2>5
<1>2. QED BY <1>1

\* s is what c becomes by applying F for 1, 2, ... n.
Iterates(s, n, c, F) == s = [j \in 0 .. n |-> IF j = 0 THEN c ELSE F[j][s[j - 1]]]

LEMMA IterateExists ==
    ASSUME NEW S, NEW n \in Nat, NEW c \in S, NEW F \in [1 .. n -> [S -> S]]
    PROVE  \E s \in [0 .. n -> S] : Iterates(s, n, c, F)
<1> DEFINE H == {k \in 0 .. n : \E s \in [0 .. k -> S] : Iterates(s, k, c, F)}
<1>1. 0 \in H
  <2>1. [j \in 0 .. 0 |-> c] \in [0 .. 0 -> S]
    OBVIOUS
  <2>2. Iterates([j \in 0 .. 0 |-> c], 0, c, F)
    BY DEF Iterates
  <2>3. QED BY <2>1, <2>2
<1>2. ASSUME NEW k \in 0 .. n - 1, k \in H
      PROVE  k + 1 \in H
  <2>1. PICK s \in [0 .. k -> S] : Iterates(s, k, c, F)
    BY <1>2
  <2> DEFINE t == [j \in 0 .. k + 1 |-> IF j = k + 1 THEN F[j][s[k]] ELSE s[j]]
  <2>2. s[k] \in S /\ k + 1 \in 1 .. n
    OBVIOUS
  <2>3. F[k + 1][s[k]] \in S
    BY <2>2
  <2>4. t \in [0 .. k + 1 -> S]
    BY <2>3
  <2>5. \A j \in 0 .. k : s[j] = IF j = 0 THEN c ELSE F[j][s[j - 1]]
    BY <2>1 DEF Iterates
  <2>6. ASSUME NEW j \in 0 .. k + 1
        PROVE  t[j] = IF j = 0 THEN c ELSE F[j][t[j - 1]]
    <3>1. CASE j = k + 1
      <4>1. j # 0 /\ j - 1 \in 0 .. k + 1 /\ j - 1 # k + 1 /\ j - 1 = k
        BY <3>1
      <4>2. t[j - 1] = s[k] /\ t[j] = F[j][s[k]]
        BY <3>1, <4>1
      <4> HIDE DEF t
      <4>3. QED BY <4>1, <4>2
    <3>2. CASE j # k + 1
      <4>1. j \in 0 .. k /\ t[j] = s[j]
        BY <3>2
      <4>2. j # 0 => j - 1 \in 0 .. k + 1 /\ j - 1 # k + 1
        BY <3>2
      <4>3. j # 0 => t[j - 1] = s[j - 1]
        BY <4>2
      <4> HIDE DEF t
      <4>4. QED BY <4>1, <4>3, <2>5
    <3>3. QED BY <3>1, <3>2
  <2> HIDE DEF t
  <2>7. Iterates(t, k + 1, c, F)
    BY <2>4, <2>6 DEF Iterates
  <2>8. QED BY <2>4, <2>7
<1> HIDE DEF H
<1>3. \A j \in 0 .. n : j \in H
  BY <1>1, <1>2, UpTo
<1>4. QED BY <1>3 DEF H

-----------------------------------------------------------------------------
(* Bytes of a number                                                       *)

LEMMA DivFacts ==
    ASSUME NEW x \in Nat
    PROVE  /\ x \div Base \in Nat /\ x % Base \in Byte
           /\ x = (x \div Base) * Base + (x % Base)
           /\ x < Base => x \div Base = 0 /\ x % Base = x
<1>0. Base \in Nat /\ Base > 1
  BY BytesAssumption
<1>1. x \div Base \in Nat
  BY <1>0
<1>2. x % Base \in Nat /\ x % Base < Base
  BY <1>0
<1>3. x = (x \div Base) * Base + (x % Base)
  BY <1>0
<1>4. x < Base => x \div Base = 0
  BY <1>0
<1>5. x < Base => x % Base = x
  BY <1>0
<1>6. QED BY <1>0, <1>1, <1>2, <1>3, <1>4, <1>5 DEF Byte

LEMMA DivMono ==
    ASSUME NEW x \in Nat, NEW y \in Nat, x <= y
    PROVE  x \div Base <= y \div Base
BY BytesAssumption

\* A sequence of numbers that starts with v and drops a byte at every step.
LEMMA ShiftedIs ==
    ASSUME NEW v \in Nat, NEW n \in Nat, NEW s \in [0 .. n -> Nat], s[0] = v,
           \A j \in 1 .. n : s[j] = s[j - 1] \div Base
    PROVE  Shifted(v, n) = s[n]
<1> DEFINE Is(f) == f = [j \in 0 .. n |-> IF j = 0 THEN v ELSE f[j - 1] \div Base]
           c == CHOOSE f : Is(f)
           H == {j \in 0 .. n : c[j] = s[j]}
<1>1. Is(s)
  <2>1. ASSUME NEW j \in 0 .. n
        PROVE  s[j] = IF j = 0 THEN v ELSE s[j - 1] \div Base
    OBVIOUS
  <2>2. QED BY <2>1
<1>2. Is(c)
  BY <1>1
<1>3. \A j \in 0 .. n : c[j] = IF j = 0 THEN v ELSE c[j - 1] \div Base
  BY <1>2
<1>4. Shifted(v, n) = c[n]
  BY DEF Shifted
<1> HIDE DEF Is, c
<1>5. 0 \in H
  BY <1>3
<1>6. ASSUME NEW j \in 0 .. n - 1, j \in H
      PROVE  j + 1 \in H
  <2>1. j + 1 \in 1 .. n /\ j + 1 # 0 /\ (j + 1) - 1 = j
    OBVIOUS
  <2>2. c[j + 1] = c[j] \div Base /\ s[j + 1] = s[j] \div Base
    BY <1>3, <2>1
  <2>3. QED BY <1>6, <2>1, <2>2
<1> HIDE DEF H
<1>7. \A j \in 0 .. n : j \in H
  BY <1>5, <1>6, UpTo
<1>8. QED BY <1>4, <1>7 DEF H

LEMMA ShiftedExists ==
    ASSUME NEW v \in Nat, NEW n \in Nat
    PROVE  \E s \in [0 .. n -> Nat] :
              s[0] = v /\ \A j \in 1 .. n : s[j] = s[j - 1] \div Base
<1> DEFINE F == [j \in 1 .. n |-> [x \in Nat |-> x \div Base]]
<1>1. \A x \in Nat : x \div Base \in Nat
  BY DivFacts
<1>2. F \in [1 .. n -> [Nat -> Nat]]
  BY <1>1
<1>3. PICK s \in [0 .. n -> Nat] : Iterates(s, n, v, F)
  BY <1>2, IterateExists
<1>4. \A j \in 0 .. n : s[j] = IF j = 0 THEN v ELSE F[j][s[j - 1]]
  BY <1>3 DEF Iterates
<1>5. ASSUME NEW j \in 1 .. n
      PROVE  s[j] = s[j - 1] \div Base
  <2>1. j - 1 \in 0 .. n /\ j \in 0 .. n /\ j # 0
    OBVIOUS
  <2>2. s[j - 1] \in Nat /\ s[j] = F[j][s[j - 1]]
    BY <2>1, <1>4
  <2>3. QED BY <2>2
<1>6. s[0] = v
  <2>1. 0 \in 0 .. n
    OBVIOUS
  <2>2. QED BY <1>4, <2>1
<1>7. QED BY <1>5, <1>6

LEMMA ShiftedDef ==
    ASSUME NEW v \in Nat
    PROVE  /\ Shifted(v, 0) = v
           /\ \A k \in Nat : /\ Shifted(v, k) \in Nat
                             /\ Shifted(v, k + 1) = Shifted(v, k) \div Base
<1>1. ASSUME NEW k \in Nat
      PROVE  /\ Shifted(v, k) \in Nat /\ Shifted(v, k + 1) = Shifted(v, k) \div Base
             /\ Shifted(v, 0) = v
  <2>1. PICK s \in [0 .. k + 1 -> Nat] :
           s[0] = v /\ \A j \in 1 .. k + 1 : s[j] = s[j - 1] \div Base
    <3>1. k + 1 \in Nat
      OBVIOUS
    <3>2. QED BY <3>1, ShiftedExists
  <2>2. ASSUME NEW i \in 0 .. k + 1
        PROVE  Shifted(v, i) = s[i]
    <3> DEFINE t == [j \in 0 .. i |-> s[j]]
    <3>1. t \in [0 .. i -> Nat] /\ t[0] = v /\ t[i] = s[i]
      BY <2>1
    <3>2. \A j \in 1 .. i : t[j] = t[j - 1] \div Base
      <4> TAKE j \in 1 .. i
      <4>1. j \in 0 .. i /\ j - 1 \in 0 .. i /\ j \in 1 .. k + 1
        OBVIOUS
      <4>2. QED BY <4>1, <2>1
    <3> HIDE DEF t
    <3>3. i \in Nat
      OBVIOUS
    <3>4. QED BY <3>1, <3>2, <3>3, ShiftedIs
  <2>3. s[k + 1] = s[k] \div Base
    <3>1. k + 1 \in 1 .. k + 1 /\ (k + 1) - 1 = k
      OBVIOUS
    <3>2. QED BY <2>1, <3>1
  <2>4. 0 \in 0 .. k + 1 /\ k \in 0 .. k + 1 /\ k + 1 \in 0 .. k + 1
    OBVIOUS
  <2>5. QED BY <2>1, <2>2, <2>3, <2>4
<1>2. QED BY <1>1

LEMMA DigitByte ==
    ASSUME NEW v \in Nat, NEW k \in Nat
    PROVE  Digit(v, k) \in Byte
<1>1. Shifted(v, k) \in Nat
  BY ShiftedDef
<1>2. QED BY <1>1, DivFacts DEF Digit

LEMMA ShiftedZero == \A k \in Nat : Shifted(0, k) = 0 /\ Digit(0, k) = 0 /\ Fits(0, k)
<1>0. Base \in Nat /\ Base > 1
  BY BytesAssumption
<1>1. ASSUME NEW k \in Nat
      PROVE  Shifted(0, k) = 0
  <2> DEFINE z == [j \in 0 .. k |-> 0]
  <2>1. z \in [0 .. k -> Nat] /\ z[0] = 0 /\ z[k] = 0
    OBVIOUS
  <2>2. \A j \in 1 .. k : z[j] = z[j - 1] \div Base
    BY <1>0
  <2> HIDE DEF z
  <2>3. QED BY <2>1, <2>2, ShiftedIs
<1>2. 0 % Base = 0
  BY <1>0
<1>3. QED BY <1>1, <1>2 DEF Digit, Fits

\* Fewer bytes hold a smaller number, and more bytes the same.
LEMMA FitsMono ==
    ASSUME NEW v \in Nat, NEW u \in Nat, v <= u, NEW w \in Nat, Fits(u, w)
    PROVE  Fits(v, w)
<1> DEFINE H == {k \in 0 .. w : Shifted(v, k) <= Shifted(u, k)}
<1>1. 0 \in H
  BY ShiftedDef
<1>2. ASSUME NEW k \in 0 .. w - 1, k \in H
      PROVE  k + 1 \in H
  <2>0. k \in Nat
    OBVIOUS
  <2>1. k \in Nat /\ Shifted(v, k) \in Nat /\ Shifted(u, k) \in Nat
    BY <2>0, ShiftedDef
  <2>2. Shifted(v, k) \div Base <= Shifted(u, k) \div Base
    BY <1>2, <2>1, DivMono
  <2>3. QED BY <2>1, <2>2, ShiftedDef
<1>3. \A k \in 0 .. w : k \in H
  <2> HIDE DEF H
  <2>1. QED BY <1>1, <1>2, UpTo
<1>4. w \in Nat /\ Shifted(v, w) \in Nat
  BY ShiftedDef
<1>5. QED BY <1>3, <1>4 DEF Fits

LEMMA FitsMore ==
    ASSUME NEW v \in Nat, NEW w \in Nat, NEW u \in Nat, Fits(v, w)
    PROVE  Fits(v, w + u)
<1> DEFINE H == {k \in 0 .. u : Shifted(v, w + k) = 0}
<1>1. 0 \in H
  BY DEF Fits
<1>2. ASSUME NEW k \in 0 .. u - 1, k \in H
      PROVE  k + 1 \in H
  <2>1. w + k \in Nat /\ w + (k + 1) = (w + k) + 1
    OBVIOUS
  <2>2. Shifted(v, w + (k + 1)) = 0 \div Base
    BY <1>2, <2>1, ShiftedDef
  <2>3. 0 \div Base = 0
    BY BytesAssumption
  <2>4. QED BY <2>2, <2>3
<1>3. \A k \in 0 .. u : k \in H
  <2> HIDE DEF H
  <2>1. QED BY <1>1, <1>2, UpTo
<1>4. QED BY <1>3 DEF Fits

\* A byte is its own only digit.
LEMMA ByteFacts ==
    ASSUME NEW b \in Byte
    PROVE  b \in Nat /\ Digit(b, 0) = b /\ Fits(b, 1)
<1>0. b \in Nat /\ b < Base
  BY BytesAssumption DEF Byte
<1>1. Shifted(b, 0) = b /\ Shifted(b, 0 + 1) = b \div Base
  BY <1>0, ShiftedDef
<1>2. b % Base = b /\ b \div Base = 0
  BY <1>0, DivFacts
<1>3. QED BY <1>0, <1>1, <1>2 DEF Digit, Fits

-----------------------------------------------------------------------------
(* Cells: where in memory a number is                                      *)

Memory == [0 .. MemSize - 1 -> {Junk} \cup Byte]

Cell(addr, width, num) == [addr |-> addr, width |-> width, num |-> num]
AllCells == [addr : Nat, width : Nat, num : Nat]

\* The number of cell c fits into it and m has its bytes.
Holds(m, c) ==
    /\ c.addr + c.width <= MemSize /\ Fits(c.num, c.width)
    /\ \A x \in 0 .. c.width - 1 : m[c.addr + x] = Digit(c.num, x)

\* No byte of one is one of the other.
Apart(c, d) == c.addr + c.width <= d.addr \/ d.addr + d.width <= c.addr

\* The cells of an object o of which p is promised: its header, with the
\* terminator of a String, and its fields.
Fixed(o, p) ==
    CASE o.layout = "String" ->
            {Cell(o.at - 8, 8, p.type), Cell(o.at, 8, Len(p.data)),
             Cell(o.at + 8 + Len(p.data), 1, 0)}
      [] o.layout = "Memory" -> {Cell(o.at - 16, 8, p.type), Cell(o.at - 8, 8, Len(p.data))}
      [] o.layout = "Struct" -> {Cell(o.at - 8, 8, p.type)}
      [] o.layout = "Legacy" -> {Cell(o.at - 12, 4, p.type), Cell(o.at - 4, 4, Len(p.data))}

FieldCell(o, p, k) == Cell(o.at + o.fields[k].off, o.fields[k].width, p.data[k])
CellsOf(o, p) == Fixed(o, p) \cup {FieldCell(o, p, k) : k \in DOMAIN o.fields}

Fields == Seq([off : Nat, width : Nat, reg : Nat])
Layouts == {"String", "Memory", "Struct", "Legacy"}

Typed(o, p) ==
    /\ o \in [layout : Layouts, at : Nat, fields : Fields]
    /\ p \in [type : Nat, data : Seq(Nat)]

\* What is so of an object from when it is made on.
Shape(o, p) ==
    /\ Typed(o, p) /\ Len(p.data) = Len(o.fields)
    /\ CellsOf(o, p) \subseteq AllCells
    /\ \A k \in DOMAIN o.fields : o.fields[k].reg = o.fields[k].width
    /\ o.layout = "String" => o.fields = Cells(Len(o.fields), 8, 1)
    /\ o.layout = "Legacy" /\ o.fields # <<>> =>
          o.fields = Cells(Len(o.fields), 0, o.fields[1].width)
    /\ \A k \in DOMAIN o.fields :
          /\ \A c \in Fixed(o, p) : Apart(c, FieldCell(o, p, k))
          /\ \A l \in DOMAIN o.fields :
                k # l => Apart(FieldCell(o, p, k), FieldCell(o, p, l))

Within(o, p, lo, hi) == \A c \in CellsOf(o, p) : lo <= c.addr /\ c.addr + c.width <= hi

MemOK == mem \in Memory /\ top \in 0 .. MemSize
ListsOK ==
    /\ objs \in Seq([layout : Layouts, at : Nat, fields : Fields])
    /\ promised \in Seq([type : Nat, data : Seq(Nat)])
    /\ Len(promised) = Len(objs)
ShapesOK ==
    \A i \in DOMAIN objs :
        Shape(objs[i], promised[i]) /\ Within(objs[i], promised[i], 0, top)
OrderOK ==
    \A i, j \in DOMAIN objs :
        i < j => \A c \in CellsOf(objs[i], promised[i]), d \in CellsOf(objs[j], promised[j]) :
                    c.addr + c.width <= d.addr
BytesOK ==
    \A i \in DOMAIN objs : \A c \in CellsOf(objs[i], promised[i]) : Holds(mem, c)
IInv == MemOK /\ ListsOK /\ ShapesOK /\ OrderOK /\ BytesOK

-----------------------------------------------------------------------------
(* Stores and loads                                                        *)

\* A load gives the number that a cell holds.
LEMMA ReadBack ==
    ASSUME NEW m \in Memory, NEW a \in Nat, NEW w \in Nat, NEW v \in Nat,
           Holds(m, Cell(a, w, v))
    PROVE  Load(m, a, w) = v
<1> DEFINE g == [k \in 0 .. w |-> Shifted(v, w - k)]
           Is(f) == f = [k \in 0 .. w |-> IF k = 0 THEN 0 ELSE f[k - 1] * Base + m[a + w - k]]
           c == CHOOSE f : Is(f)
           H == {k \in 0 .. w : c[k] = g[k]}
<1>0. Base \in Nat /\ Junk \notin Byte /\ MemSize \in Nat
  BY BytesAssumption, SizesAssumption DEF Junk, Byte
<1>1. /\ a + w <= MemSize /\ Fits(v, w)
      /\ \A x \in 0 .. w - 1 : m[a + x] = Digit(v, x)
  BY DEF Holds, Cell
<1>2. \A x \in a .. a + w - 1 : x \in DOMAIN m /\ m[x] # Junk
  <2> TAKE x \in a .. a + w - 1
  <2>1. x - a \in 0 .. w - 1 /\ x - a \in Nat /\ a + (x - a) = x /\ x \in 0 .. MemSize - 1
    BY <1>0, <1>1
  <2>2. m[x] = Digit(v, x - a)
    BY <1>1, <2>1
  <2>3. QED BY <1>0, <2>1, <2>2, DigitByte DEF Memory
<1>3. ASSUME NEW k \in 1 .. w
      PROVE  g[k] = g[k - 1] * Base + m[a + w - k]
  <2> DEFINE i == w - k
  <2>1. i \in Nat /\ i \in 0 .. w - 1 /\ w - (k - 1) = i + 1 /\ a + w - k = a + i
    OBVIOUS
  <2>2. g[k] = Shifted(v, i) /\ g[k - 1] = Shifted(v, i + 1)
    BY <2>1
  <2>3. m[a + i] = Shifted(v, i) % Base
    BY <1>1, <2>1 DEF Digit
  <2>4. Shifted(v, i) = Shifted(v, i + 1) * Base + (Shifted(v, i) % Base)
    <3>1. Shifted(v, i) \in Nat /\ Shifted(v, i + 1) = Shifted(v, i) \div Base
      BY <2>1, ShiftedDef
    <3> HIDE DEF i
    <3>2. QED BY <3>1, DivFacts
  <2> HIDE DEF g, i
  <2>5. QED BY <2>1, <2>2, <2>3, <2>4
<1>4. g[0] = 0
  BY <1>1 DEF Fits
<1>5. Is(g)
  <2>1. ASSUME NEW k \in 0 .. w
        PROVE  g[k] = IF k = 0 THEN 0 ELSE g[k - 1] * Base + m[a + w - k]
    <3>1. CASE k = 0
      BY <3>1, <1>4
    <3>2. CASE k # 0
      <4>1. k \in 1 .. w
        BY <3>2
      <4> HIDE DEF g
      <4>2. QED BY <3>2, <4>1, <1>3
    <3>3. QED BY <3>1, <3>2
  <2>2. g = [k \in 0 .. w |-> g[k]]
    OBVIOUS
  <2>3. [k \in 0 .. w |-> g[k]] =
           [k \in 0 .. w |-> IF k = 0 THEN 0 ELSE g[k - 1] * Base + m[a + w - k]]
    <3> HIDE DEF g
    <3>1. QED BY <2>1
  <2>4. QED BY <2>2, <2>3, Zenon
<1>6. Is(c)
  BY <1>5
<1>7. Load(m, a, w) = c[w]
  BY <1>2 DEF Load
<1>8. \A k \in 0 .. w : c[k] = IF k = 0 THEN 0 ELSE c[k - 1] * Base + m[a + w - k]
  <2> HIDE DEF c
  <2>1. QED BY <1>6
<1> HIDE DEF Is, c
<1>9. 0 \in H
  BY <1>4, <1>8
<1>10. ASSUME NEW k \in 0 .. w - 1, k \in H
       PROVE  k + 1 \in H
  <2>1. k + 1 \in 1 .. w /\ k + 1 # 0 /\ (k + 1) - 1 = k /\ k + 1 \in 0 .. w
    OBVIOUS
  <2>2. c[k] = g[k]
    BY <1>10
  <2>3. g[k + 1] = g[k] * Base + m[a + w - (k + 1)]
    <3> HIDE DEF g
    <3>1. QED BY <1>3, <2>1
  <2> HIDE DEF g
  <2>4. c[k + 1] = c[k] * Base + m[a + w - (k + 1)]
    BY <1>8, <2>1
  <2>5. QED BY <2>1, <2>2, <2>3, <2>4
<1>11. \A k \in 0 .. w : k \in H
  <2> HIDE DEF H
  <2>1. QED BY <1>9, <1>10, UpTo
<1>12. c[w] = g[w] /\ g[w] = Shifted(v, 0)
  BY <1>11
<1>13. QED BY <1>7, <1>12, ShiftedDef

\* A cell whose bytes are the same still holds its number.
LEMMA HoldsFrame ==
    ASSUME NEW m, NEW n, NEW c \in AllCells, Holds(m, c),
           \A x \in c.addr .. c.addr + c.width - 1 : n[x] = m[x]
    PROVE  Holds(n, c)
<1>1. c.addr \in Nat /\ c.width \in Nat
  BY DEF AllCells
<1>2. \A x \in 0 .. c.width - 1 : c.addr + x \in c.addr .. c.addr + c.width - 1
  BY <1>1
<1>3. QED BY <1>2 DEF Holds

\* A store changes its own bytes only, and the cell then holds what was stored.
LEMMA PutFacts ==
    ASSUME NEW m \in Memory, NEW a \in Nat, NEW w \in Nat, NEW v \in Nat
    PROVE  /\ Put(m, a, w, v) \in Memory
           /\ \A x \in 0 .. MemSize - 1 : x < a \/ a + w <= x => Put(m, a, w, v)[x] = m[x]
           /\ \A c \in AllCells : Holds(m, c) /\ Apart(c, Cell(a, w, v)) =>
                 Holds(Put(m, a, w, v), c)
           /\ Fits(v, w) /\ a + w <= MemSize => Holds(Put(m, a, w, v), Cell(a, w, v))
<1> DEFINE q == Put(m, a, w, v)
<1>0. MemSize \in Nat /\ DOMAIN m = 0 .. MemSize - 1
  BY SizesAssumption DEF Memory
<1>1. q = [x \in 0 .. MemSize - 1 |-> IF a <= x /\ x < a + w THEN Digit(v, x - a) ELSE m[x]]
  BY <1>0 DEF Put
<1>2. q \in Memory
  <2>1. ASSUME NEW x \in 0 .. MemSize - 1, a <= x
        PROVE  Digit(v, x - a) \in Byte
    <3>1. x - a \in Nat
      BY <1>0, <2>1
    <3>2. QED BY <3>1, DigitByte
  <2>2. \A x \in 0 .. MemSize - 1 : m[x] \in {Junk} \cup Byte
    BY DEF Memory
  <2>3. ASSUME NEW x \in 0 .. MemSize - 1
        PROVE  (IF a <= x /\ x < a + w THEN Digit(v, x - a) ELSE m[x]) \in {Junk} \cup Byte
    BY <2>1, <2>2
  <2> HIDE DEF q
  <2>4. QED BY <1>1, <2>3 DEF Memory
<1>3. \A x \in 0 .. MemSize - 1 : x < a \/ a + w <= x => q[x] = m[x]
  <2> HIDE DEF q
  <2>1. QED BY <1>0, <1>1
<1>4. ASSUME NEW c \in AllCells, Holds(m, c), Apart(c, Cell(a, w, v))
      PROVE  Holds(q, c)
  <2>1. c.addr \in Nat /\ c.width \in Nat /\ c.addr + c.width <= MemSize
    BY <1>4 DEF AllCells, Holds
  <2>2. c.addr + c.width <= a \/ a + w <= c.addr
    BY <1>4 DEF Apart, Cell
  <2> HIDE DEF q
  <2>3. \A x \in c.addr .. c.addr + c.width - 1 : q[x] = m[x]
    BY <1>0, <1>3, <2>1, <2>2
  <2>4. QED BY <1>4, <2>3, HoldsFrame
<1>5. ASSUME Fits(v, w), a + w <= MemSize
      PROVE  Holds(q, Cell(a, w, v))
  <2>1. ASSUME NEW x \in 0 .. w - 1
        PROVE  q[a + x] = Digit(v, x)
    <3>1. a + x \in 0 .. MemSize - 1 /\ a <= a + x /\ a + x < a + w /\ (a + x) - a = x
      BY <1>0, <1>5
    <3> HIDE DEF q
    <3>2. QED BY <1>1, <3>1
  <2> HIDE DEF q
  <2>2. QED BY <1>5, <2>1 DEF Holds, Cell
<1>6. QED BY <1>2, <1>3, <1>4, <1>5

LEMMA PutHolds ==
    ASSUME NEW m \in Memory, NEW a \in Nat, NEW w \in Nat, NEW v \in Nat,
           Fits(v, w), a + w <= MemSize
    PROVE  Holds(Put(m, a, w, v), Cell(a, w, v))
BY PutFacts

\* When other bytes than those from lo to hi stay as they are, so do the cells
\* there.
LEMMA Overwrite ==
    ASSUME NEW m \in Memory, NEW q, NEW lo \in Nat, NEW hi \in Nat,
           q = [x \in 0 .. MemSize - 1 |-> q[x]],
           \A x \in 0 .. MemSize - 1 :
              /\ lo <= x /\ x < hi => q[x] \in {Junk} \cup Byte
              /\ x < lo \/ hi <= x => q[x] = m[x]
    PROVE  /\ q \in Memory
           /\ \A c \in AllCells : Holds(m, c) /\ (c.addr + c.width <= lo \/ hi <= c.addr) =>
                 Holds(q, c)
<1>0. MemSize \in Nat /\ \A x \in 0 .. MemSize - 1 : m[x] \in {Junk} \cup Byte
  BY SizesAssumption DEF Memory
<1>1. \A x \in 0 .. MemSize - 1 : q[x] \in {Junk} \cup Byte
  BY <1>0
<1>2. q \in Memory
  BY <1>1 DEF Memory
<1>3. ASSUME NEW c \in AllCells, Holds(m, c), c.addr + c.width <= lo \/ hi <= c.addr
      PROVE  Holds(q, c)
  <2>1. c.addr \in Nat /\ c.width \in Nat /\ c.addr + c.width <= MemSize
    BY <1>3 DEF AllCells, Holds
  <2>2. \A x \in c.addr .. c.addr + c.width - 1 :
           x \in 0 .. MemSize - 1 /\ (x < lo \/ hi <= x)
    BY <1>0, <1>3, <2>1
  <2>3. \A x \in c.addr .. c.addr + c.width - 1 : q[x] = m[x]
    BY <2>2
  <2>4. QED BY <1>3, <2>3, HoldsFrame
<1>4. QED BY <1>2, <1>3

\* A cell of one byte holds what the byte is.
LEMMA ByteCell ==
    ASSUME NEW m \in Memory, NEW a \in Nat, NEW b \in Nat
    PROVE  /\ a < MemSize /\ b \in Byte /\ m[a] = b => Holds(m, Cell(a, 1, b))
           /\ Holds(m, Cell(a, 1, b)) => a < MemSize /\ b \in Byte /\ m[a] = b
<1>0. Base \in Nat /\ Base > 1 /\ MemSize \in Nat
  BY BytesAssumption, SizesAssumption
<1>1. Holds(m, Cell(a, 1, b)) <=> a + 1 <= MemSize /\ Fits(b, 1) /\ m[a] = Digit(b, 0)
  BY DEF Holds, Cell
<1>2. ASSUME a < MemSize, b \in Byte, m[a] = b
      PROVE  Holds(m, Cell(a, 1, b))
  BY <1>0, <1>1, <1>2, ByteFacts
<1>3. ASSUME Holds(m, Cell(a, 1, b))
      PROVE  a < MemSize /\ b \in Byte /\ m[a] = b
  <2>1. Shifted(b, 0) = b /\ Shifted(b, 0 + 1) = b \div Base
    BY ShiftedDef
  <2>2. b \div Base = 0 /\ Digit(b, 0) = b % Base
    BY <1>1, <1>3, <2>1 DEF Fits, Digit
  <2>3. b = (b \div Base) * Base + (b % Base) /\ b % Base \in Byte /\ b % Base \in Nat
    BY <1>0, DivFacts DEF Byte
  <2>4. b = b % Base
    BY <1>0, <2>2, <2>3
  <2>5. QED BY <1>0, <1>1, <1>3, <2>2, <2>3, <2>4
<1>4. QED BY <1>2, <1>3

\* Bytes copied from a text or from elsewhere in memory.
LEMMA PutBytesFacts ==
    ASSUME NEW m \in Memory, NEW a \in Nat, NEW text \in Seq(Byte), NEW n \in Nat,
           n = Len(text), a + n <= MemSize
    PROVE  /\ PutBytes(m, a, n, text) \in Memory
           /\ \A c \in AllCells : Holds(m, c) /\ (c.addr + c.width <= a \/ a + n <= c.addr) =>
                 Holds(PutBytes(m, a, n, text), c)
           /\ \A k \in 1 .. n : Holds(PutBytes(m, a, n, text), Cell(a + (k - 1), 1, text[k]))
<1> DEFINE q == PutBytes(m, a, n, text)
           hi == a + n
<1>0. MemSize \in Nat /\ DOMAIN m = 0 .. MemSize - 1 /\ Byte \subseteq Nat
  BY BytesAssumption, SizesAssumption DEF Memory, Byte
<1>1. q = [x \in 0 .. MemSize - 1 |-> IF a <= x /\ x < a + n THEN text[x - a + 1] ELSE m[x]]
  BY <1>0 DEF PutBytes
<1>2. \A k \in 1 .. n : text[k] \in Byte
  OBVIOUS
<1>3. \A x \in 0 .. MemSize - 1 : a <= x /\ x < a + n => x - a + 1 \in 1 .. n
  BY <1>0
<1> HIDE DEF q
<1>4. \A x \in 0 .. MemSize - 1 :
         /\ a <= x /\ x < a + n => q[x] = text[x - a + 1] /\ q[x] \in {Junk} \cup Byte
         /\ x < a \/ a + n <= x => q[x] = m[x]
  BY <1>0, <1>1, <1>2, <1>3
<1>5. q = [x \in 0 .. MemSize - 1 |-> q[x]] /\ hi \in Nat
  BY <1>1
<1>6. /\ q \in Memory
      /\ \A c \in AllCells : Holds(m, c) /\ (c.addr + c.width <= a \/ hi <= c.addr) =>
            Holds(q, c)
  <2>1. \A x \in 0 .. MemSize - 1 :
           /\ a <= x /\ x < hi => q[x] \in {Junk} \cup Byte
           /\ x < a \/ hi <= x => q[x] = m[x]
    BY <1>4
  <2> HIDE DEF hi
  <2>2. QED BY <1>5, <2>1, Overwrite
<1>7. ASSUME NEW k \in 1 .. n
      PROVE  Holds(q, Cell(a + (k - 1), 1, text[k]))
  <2> DEFINE x == a + (k - 1)
  <2>1. x \in 0 .. MemSize - 1 /\ a <= x /\ x < a + n /\ x - a + 1 = k
    BY <1>0
  <2>2. x \in Nat /\ x < MemSize
    BY <1>0, <2>1
  <2>t. text[k] \in Byte /\ text[k] \in Nat
    <3> HIDE DEF x
    <3>1. QED BY <1>0, <1>2, Zenon
  <2> HIDE DEF x
  <2>3. q[x] = text[k]
    BY <1>4, <2>1
  <2>4. Holds(q, Cell(x, 1, text[k]))
    BY <1>6, <2>2, <2>t, <2>3, ByteCell
  <2>5. QED BY <2>4 DEF x
<1>8. QED BY <1>6, <1>7 DEF q

LEMMA CopyFacts ==
    ASSUME NEW m \in Memory, NEW dst \in Nat, NEW src \in Nat, NEW n \in Nat,
           dst + n <= MemSize, src + n <= MemSize
    PROVE  /\ Copy(m, dst, src, n) \in Memory
           /\ \A c \in AllCells :
                 Holds(m, c) /\ (c.addr + c.width <= dst \/ dst + n <= c.addr) =>
                    Holds(Copy(m, dst, src, n), c)
           /\ \A k \in 1 .. n : Copy(m, dst, src, n)[dst + (k - 1)] = m[src + (k - 1)]
<1> DEFINE q == Copy(m, dst, src, n)
           hi == dst + n
<1>0. MemSize \in Nat /\ DOMAIN m = 0 .. MemSize - 1
      /\ \A x \in 0 .. MemSize - 1 : m[x] \in {Junk} \cup Byte
  BY SizesAssumption DEF Memory
<1>1. q = [x \in 0 .. MemSize - 1 |->
              IF dst <= x /\ x < dst + n THEN m[src + x - dst] ELSE m[x]]
  BY <1>0 DEF Copy
<1> HIDE DEF q
<1>2. \A x \in 0 .. MemSize - 1 :
         /\ dst <= x /\ x < dst + n => src + x - dst \in 0 .. MemSize - 1
  BY <1>0
<1>3. \A x \in 0 .. MemSize - 1 :
         /\ dst <= x /\ x < dst + n => q[x] = m[src + x - dst] /\ q[x] \in {Junk} \cup Byte
         /\ x < dst \/ dst + n <= x => q[x] = m[x]
  BY <1>0, <1>1, <1>2
<1>4. q = [x \in 0 .. MemSize - 1 |-> q[x]] /\ hi \in Nat
  BY <1>1
<1>5. /\ q \in Memory
      /\ \A c \in AllCells : Holds(m, c) /\ (c.addr + c.width <= dst \/ hi <= c.addr) =>
            Holds(q, c)
  <2>1. \A x \in 0 .. MemSize - 1 :
           /\ dst <= x /\ x < hi => q[x] \in {Junk} \cup Byte
           /\ x < dst \/ hi <= x => q[x] = m[x]
    BY <1>3
  <2> HIDE DEF hi
  <2>2. QED BY <1>4, <2>1, Overwrite
<1>6. ASSUME NEW k \in 1 .. n
      PROVE  q[dst + (k - 1)] = m[src + (k - 1)]
  <2> DEFINE x == dst + (k - 1)
  <2>1. /\ x \in 0 .. MemSize - 1 /\ dst <= x /\ x < dst + n
        /\ src + x - dst = src + (k - 1)
    BY <1>0
  <2> HIDE DEF x
  <2>2. q[x] = m[src + (k - 1)]
    BY <1>3, <2>1
  <2>3. QED BY <2>2 DEF x
<1>7. QED BY <1>5, <1>6 DEF q

LEMMA ZeroFillFacts ==
    ASSUME NEW m \in Memory, NEW p \in Nat, NEW size \in Nat
    PROVE  /\ ZeroFill(m, p, size) \in Memory
           /\ \A c \in AllCells : Holds(m, c) /\ c.addr + c.width <= p =>
                 Holds(ZeroFill(m, p, size), c)
           /\ \A a, w \in Nat : p <= a /\ a + w <= p + size /\ a + w <= MemSize =>
                 Holds(ZeroFill(m, p, size), Cell(a, w, 0))
<1> DEFINE q == ZeroFill(m, p, size)
           hi == p + ((size + 7) \div 8) * 8
<1>0. MemSize \in Nat /\ DOMAIN m = 0 .. MemSize - 1 /\ 0 \in Byte
  BY SizesAssumption, BytesAssumption DEF Memory, Byte
<1>1. hi \in Nat /\ p + size <= hi
  OBVIOUS
<1>2. q = [x \in 0 .. MemSize - 1 |-> IF p <= x /\ x < hi THEN 0 ELSE m[x]]
  BY <1>0 DEF ZeroFill
<1> HIDE DEF q, hi
<1>3. \A x \in 0 .. MemSize - 1 :
         /\ p <= x /\ x < hi => q[x] = 0 /\ q[x] \in {Junk} \cup Byte
         /\ x < p \/ hi <= x => q[x] = m[x]
  BY <1>0, <1>1, <1>2
<1>4. q = [x \in 0 .. MemSize - 1 |-> q[x]]
  BY <1>2
<1>5. /\ q \in Memory
      /\ \A c \in AllCells : Holds(m, c) /\ (c.addr + c.width <= p \/ hi <= c.addr) =>
            Holds(q, c)
  BY <1>1, <1>3, <1>4, Overwrite
<1>6. ASSUME NEW a \in Nat, NEW w \in Nat, p <= a, a + w <= p + size, a + w <= MemSize
      PROVE  Holds(q, Cell(a, w, 0))
  <2>1. ASSUME NEW x \in 0 .. w - 1
        PROVE  q[a + x] = Digit(0, x)
    <3>1. a + x \in 0 .. MemSize - 1 /\ p <= a + x /\ a + x < hi /\ x \in Nat
      BY <1>0, <1>1, <1>6
    <3>2. QED BY <1>3, <3>1, ShiftedZero
  <2>2. QED BY <1>6, <2>1, ShiftedZero DEF Holds, Cell
<1>7. QED BY <1>5, <1>6 DEF q

\* A series of stores to fields that lie apart: every field that is stored to
\* holds its value, and what lies apart from all of them is left alone.
LEMMA FillFacts ==
    ASSUME NEW m \in Memory, NEW p \in Nat, NEW fields \in Fields, NEW values \in Seq(Nat),
           Len(values) <= Len(fields),
           \A k \in DOMAIN fields :
              /\ fields[k].reg = fields[k].width
              /\ p + fields[k].off + fields[k].width <= MemSize,
           \A k \in DOMAIN values : Fits(values[k], fields[k].width),
           \A k, l \in DOMAIN fields : k # l =>
              Apart(Cell(p + fields[k].off, fields[k].width, 0),
                    Cell(p + fields[l].off, fields[l].width, 0))
    PROVE  /\ Fill(m, p, fields, values) \in Memory
           /\ \A k \in 1 .. Len(values) :
                 Holds(Fill(m, p, fields, values),
                       Cell(p + fields[k].off, fields[k].width, values[k]))
           /\ \A c \in AllCells :
                 /\ Holds(m, c)
                 /\ \A k \in 1 .. Len(values) :
                       Apart(c, Cell(p + fields[k].off, fields[k].width, 0))
                 => Holds(Fill(m, p, fields, values), c)
<1> DEFINE n == Len(values)
           C(k, v) == Cell(p + fields[k].off, fields[k].width, v)
           Next1(g, k) == Put(g, p + fields[k].off, fields[k].reg, values[k])
           Is(f) == f = [k \in 0 .. n |-> IF k = 0 THEN m ELSE Next1(f[k - 1], k)]
           h == CHOOSE f : Is(f)
           F == [k \in 1 .. n |-> [g \in Memory |-> Next1(g, k)]]
           Kept(k) == \A c \in AllCells :
                         Holds(m, c) /\ (\A l \in 1 .. n : Apart(c, C(l, 0))) => Holds(h[k], c)
           H == {k \in 0 .. n :
                    /\ h[k] \in Memory /\ Kept(k)
                    /\ \A l \in 1 .. k : Holds(h[k], C(l, values[l]))}
<1>0. n \in Nat /\ \A k \in 1 .. n : k \in DOMAIN values /\ values[k] \in Nat
  OBVIOUS
<1>f. \A k \in DOMAIN fields : fields[k].off \in Nat /\ fields[k].width \in Nat
  <2> DEFINE FieldRec == [off : Nat, width : Nat, reg : Nat]
  <2>1. \A f \in FieldRec : f.off \in Nat /\ f.width \in Nat
    OBVIOUS
  <2>2. fields \in Seq(FieldRec)
    BY DEF Fields
  <2> HIDE DEF FieldRec
  <2>3. \A k \in DOMAIN fields : fields[k] \in FieldRec
    BY <2>2
  <2>4. QED BY <2>1, <2>3
<1>d. \A k \in 1 .. n : k \in DOMAIN fields
  BY DEF Fields
<1>1. n \in Nat /\ \A k \in 1 .. n : /\ k \in DOMAIN fields /\ k \in DOMAIN values
                                     /\ values[k] \in Nat
                                     /\ fields[k].off \in Nat /\ fields[k].width \in Nat
                                     /\ fields[k].reg = fields[k].width
                                     /\ p + fields[k].off \in Nat
  <2> HIDE DEF n
  <2>1. QED BY <1>0, <1>f, <1>d
<1>2. \A k \in 1 .. n : C(k, 0) \in AllCells /\ C(k, values[k]) \in AllCells
  BY <1>1 DEF Cell, AllCells
<1>3. ASSUME NEW k \in 1 .. n, NEW g \in Memory
      PROVE  /\ Next1(g, k) \in Memory
             /\ \A c \in AllCells : Holds(g, c) /\ Apart(c, C(k, values[k])) =>
                   Holds(Next1(g, k), c)
             /\ Holds(Next1(g, k), C(k, values[k]))
  <2>1. Fits(values[k], fields[k].reg) /\ p + fields[k].off + fields[k].reg <= MemSize
    BY <1>1
  <2> HIDE DEF n
  <2>2. QED BY <1>1, <2>1, PutFacts
<1>4. \E f \in [0 .. n -> Memory] : Is(f)
  <2>1. \A k \in 1 .. n : \A g \in Memory : Next1(g, k) \in Memory
    BY <1>3
  <2> HIDE DEF Next1, n
  <2>2. F \in [1 .. n -> [Memory -> Memory]]
    BY <2>1
  <2> HIDE DEF F
  <2>3. PICK s \in [0 .. n -> Memory] : Iterates(s, n, m, F)
    BY <1>1, <2>2, IterateExists
  <2>4. \A k \in 0 .. n : s[k] = IF k = 0 THEN m ELSE F[k][s[k - 1]]
    BY <2>3 DEF Iterates
  <2>5. ASSUME NEW k \in 0 .. n
        PROVE  s[k] = IF k = 0 THEN m ELSE Next1(s[k - 1], k)
    <3>1. CASE k = 0
      BY <2>4, <3>1
    <3>2. CASE k # 0
      <4>1. k \in 1 .. n /\ k - 1 \in 0 .. n
        BY <1>1, <3>2
      <4>2. s[k - 1] \in Memory
        BY <4>1
      <4>3. F[k][s[k - 1]] = Next1(s[k - 1], k)
        BY <4>1, <4>2 DEF F
      <4>4. QED BY <2>4, <3>2, <4>3
    <3>3. QED BY <3>1, <3>2
  <2>6. Is(s)
    <3>1. s = [k \in 0 .. n |-> s[k]]
      OBVIOUS
    <3>2. [k \in 0 .. n |-> s[k]] =
             [k \in 0 .. n |-> IF k = 0 THEN m ELSE Next1(s[k - 1], k)]
      BY <2>5
    <3>3. QED BY <3>1, <3>2, Zenon
  <2>7. QED BY <2>6
<1>5. Is(h)
  BY <1>4
<1>6. Fill(m, p, fields, values) = h[n]
  BY DEF Fill
<1>7. \A k \in 0 .. n : h[k] = IF k = 0 THEN m ELSE Next1(h[k - 1], k)
  <2> HIDE DEF h, Next1
  <2>1. QED BY <1>5
<1> HIDE DEF h, Is, n, Next1, C
<1>8. 0 \in H
  <2>1. h[0] = m
    BY <1>1, <1>7
  <2>2. QED BY <1>1, <2>1
<1>9. ASSUME NEW k \in 0 .. n - 1, k \in H
      PROVE  k + 1 \in H
  <2>1. k + 1 \in 1 .. n /\ k + 1 # 0 /\ (k + 1) - 1 = k /\ k + 1 \in 0 .. n
    BY <1>1
  <2>2. h[k + 1] = Next1(h[k], k + 1)
    BY <1>7, <2>1
  <2>3. h[k] \in Memory /\ Kept(k) /\ \A l \in 1 .. k : Holds(h[k], C(l, values[l]))
    BY <1>9
  <2>4. /\ h[k + 1] \in Memory
        /\ \A c \in AllCells : Holds(h[k], c) /\ Apart(c, C(k + 1, values[k + 1])) =>
              Holds(h[k + 1], c)
        /\ Holds(h[k + 1], C(k + 1, values[k + 1]))
    BY <1>3, <2>1, <2>2, <2>3
  <2>5. \A c : Apart(c, C(k + 1, values[k + 1])) <=> Apart(c, C(k + 1, 0))
    BY DEF Apart, C, Cell
  <2>6. Kept(k + 1)
    BY <2>1, <2>3, <2>4, <2>5
  <2>7. ASSUME NEW l \in 1 .. k + 1
        PROVE  Holds(h[k + 1], C(l, values[l]))
    <3>1. CASE l = k + 1
      BY <2>4, <3>1
    <3>2. CASE l # k + 1
      <4>1. l \in 1 .. k /\ l \in 1 .. n
        BY <1>1, <2>1, <3>2
      <4>2. Apart(C(l, values[l]), C(k + 1, 0))
        <5>1. Apart(C(l, 0), C(k + 1, 0))
          BY <1>1, <2>1, <3>2, <4>1 DEF C
        <5>2. QED BY <5>1 DEF Apart, C, Cell
      <4>3. QED BY <1>2, <2>3, <2>4, <2>5, <4>1, <4>2
    <3>3. QED BY <3>1, <3>2
  <2>8. QED BY <2>1, <2>4, <2>6, <2>7
<1>10. \A k \in 0 .. n : k \in H
  <2> HIDE DEF H
  <2>1. QED BY <1>1, <1>8, <1>9, UpTo
<1>11. n \in 0 .. n
  BY <1>1
<1>12. n \in H
  BY <1>10, <1>11
<1>13. QED BY <1>6, <1>12 DEF n, C

-----------------------------------------------------------------------------
(* Objects                                                                 *)

LEMMA Times ==
    ASSUME NEW k \in Nat, NEW l \in Nat, NEW size \in Nat, k < l
    PROVE  /\ k * size \in Nat /\ l * size \in Nat
           /\ k * size + size <= l * size
<1>1. k * size \in Nat /\ l * size \in Nat
  OBVIOUS
<1>2. PICK d \in Nat : l = k + 1 + d
  <2>1. l - k - 1 \in Nat /\ l = k + 1 + (l - k - 1)
    OBVIOUS
  <2>2. QED BY <2>1
<1>3. l * size = k * size + size + d * size /\ d * size \in Nat
  BY <1>2
<1>4. QED BY <1>1, <1>3

LEMMA FieldFacts ==
    ASSUME NEW fields \in Fields, NEW k \in DOMAIN fields
    PROVE  /\ fields[k].off \in Nat /\ fields[k].width \in Nat /\ fields[k].reg \in Nat
           /\ k \in 1 .. Len(fields)
<1> DEFINE FieldRec == [off : Nat, width : Nat, reg : Nat]
<1>1. \A f \in FieldRec : f.off \in Nat /\ f.width \in Nat /\ f.reg \in Nat
  OBVIOUS
<1>2. fields \in Seq(FieldRec)
  BY DEF Fields
<1> HIDE DEF FieldRec
<1>3. fields[k] \in FieldRec /\ k \in 1 .. Len(fields)
  BY <1>2
<1>4. QED BY <1>1, <1>3

LEMMA CellsFacts ==
    ASSUME NEW n \in Nat, NEW first \in Nat, NEW size \in Nat
    PROVE  /\ Cells(n, first, size) \in Fields /\ Len(Cells(n, first, size)) = n
           /\ DOMAIN Cells(n, first, size) = 1 .. n
           /\ \A k \in 1 .. n :
                 /\ Cells(n, first, size)[k].off = first + (k - 1) * size
                 /\ Cells(n, first, size)[k].width = size
                 /\ Cells(n, first, size)[k].reg = size
                 /\ (k - 1) * size \in Nat /\ (k - 1) * size + size <= n * size
           /\ \A k, l \in 1 .. n : k < l => (k - 1) * size + size <= (l - 1) * size
<1> DEFINE FieldRec == [off : Nat, width : Nat, reg : Nat]
           C == Cells(n, first, size)
<1>1. ASSUME NEW k \in 1 .. n
      PROVE  (k - 1) * size \in Nat /\ (k - 1) * size + size <= n * size
  <2>1. k - 1 \in Nat /\ k - 1 < n
    OBVIOUS
  <2>2. QED BY <2>1, Times
<1>2. ASSUME NEW k \in 1 .. n, NEW l \in 1 .. n, k < l
      PROVE  (k - 1) * size + size <= (l - 1) * size
  <2>1. k - 1 \in Nat /\ l - 1 \in Nat /\ k - 1 < l - 1
    BY <1>2
  <2>2. QED BY <2>1, Times
<1>3. \A k \in 1 .. n : first + (k - 1) * size \in Nat
  BY <1>1
<1>4. \A k \in 1 .. n :
         [off |-> first + (k - 1) * size, width |-> size, reg |-> size] \in FieldRec
  BY <1>3
<1>5. C = [k \in 1 .. n |-> [off |-> first + (k - 1) * size, width |-> size, reg |-> size]]
  BY DEF Cells
<1> HIDE DEF C, FieldRec
<1>6. C \in [1 .. n -> FieldRec]
  BY <1>4, <1>5
<1>7. C \in Seq(FieldRec) /\ Len(C) = n /\ DOMAIN C = 1 .. n
  BY <1>6
<1>8. \A k \in 1 .. n : C[k].off = first + (k - 1) * size /\ C[k].width = size /\ C[k].reg = size
  BY <1>5
<1>9. QED BY <1>1, <1>2, <1>7, <1>8 DEF C, FieldRec, Fields

\* An object whose cells hold what they should reads back as what was promised.
LEMMA Reads ==
    ASSUME mem \in Memory, NEW o, NEW p, Shape(o, p),
           \A c \in CellsOf(o, p) : Holds(mem, c)
    PROVE  /\ Decode(o) = p /\ Length(o) = Len(p.data)
           /\ o.layout = "String" => Num(o.at + 8 + Len(p.data), 1) = 0
<1>1. \A a, w, v : Cell(a, w, v) \in CellsOf(o, p) => Num(a, w) = v
  <2> TAKE a, w, v
  <2> HAVE Cell(a, w, v) \in CellsOf(o, p)
  <2>1. Cell(a, w, v) \in AllCells /\ Holds(mem, Cell(a, w, v))
    BY DEF Shape
  <2>2. a \in Nat /\ w \in Nat /\ v \in Nat
    BY <2>1 DEF Cell, AllCells
  <2>3. QED BY <2>1, <2>2, ReadBack DEF Num
<1>2. /\ o.layout \in Layouts /\ o.at \in Nat /\ o.fields \in Fields
      /\ p \in [type : Nat, data : Seq(Nat)] /\ Len(p.data) = Len(o.fields)
  BY DEF Shape, Typed
<1>3. p.data \in Seq(Nat) /\ p = [type |-> p.type, data |-> p.data]
  BY <1>2
<1>4. Length(o) = Len(p.data) /\ Type(o) = p.type
  <2>1. CASE o.layout = "String"
    <3>1. /\ Cell(o.at - 8, 8, p.type) \in CellsOf(o, p)
          /\ Cell(o.at, 8, Len(p.data)) \in CellsOf(o, p)
      BY <2>1 DEF CellsOf, Fixed
    <3>2. QED BY <1>1, <2>1, <3>1 DEF Length, Type, JULIA_HEADER_SIZE
  <2>2. CASE o.layout = "Memory"
    <3>1. /\ Cell(o.at - 16, 8, p.type) \in CellsOf(o, p)
          /\ Cell(o.at - 8, 8, Len(p.data)) \in CellsOf(o, p)
      BY <2>2 DEF CellsOf, Fixed
    <3>2. o.at - 8 - JULIA_HEADER_SIZE = o.at - 16
      BY <1>2 DEF JULIA_HEADER_SIZE
    <3>3. QED BY <1>1, <2>2, <3>1, <3>2 DEF Length, Type
  <2>3. CASE o.layout = "Struct"
    <3>1. Cell(o.at - 8, 8, p.type) \in CellsOf(o, p)
      BY <2>3 DEF CellsOf, Fixed
    <3>2. QED BY <1>1, <1>2, <2>3, <3>1 DEF Length, Type, JULIA_HEADER_SIZE
  <2>4. CASE o.layout = "Legacy"
    <3>1. /\ Cell(o.at - 12, 4, p.type) \in CellsOf(o, p)
          /\ Cell(o.at - 4, 4, Len(p.data)) \in CellsOf(o, p)
      BY <2>4 DEF CellsOf, Fixed
    <3>2. o.at - HEADER_SIZE + 8 = o.at - 4
      BY <1>2 DEF HEADER_SIZE
    <3>3. QED BY <1>1, <2>4, <3>1, <3>2 DEF Length, Type, HEADER_SIZE
  <2>5. QED BY <1>2, <2>1, <2>2, <2>3, <2>4 DEF Layouts
<1>5. 1 .. Len(p.data) = DOMAIN o.fields
  BY <1>2 DEF Fields
<1>6. \A k \in 1 .. Len(p.data) : Num(o.at + o.fields[k].off, o.fields[k].width) = p.data[k]
  <2>1. \A k \in 1 .. Len(p.data) : FieldCell(o, p, k) \in CellsOf(o, p)
    BY <1>5 DEF CellsOf
  <2>2. QED BY <1>1, <2>1 DEF FieldCell
<1>7. p.data = [k \in 1 .. Len(p.data) |-> p.data[k]]
  BY <1>3
<1>8. [k \in 1 .. Length(o) |->
          IF k \in DOMAIN o.fields
          THEN Num(o.at + o.fields[k].off, o.fields[k].width) ELSE Junk] = p.data
  <2>1. [k \in 1 .. Len(p.data) |->
          IF k \in DOMAIN o.fields
          THEN Num(o.at + o.fields[k].off, o.fields[k].width) ELSE Junk]
        = [k \in 1 .. Len(p.data) |-> p.data[k]]
    BY <1>5, <1>6
  <2>2. QED BY <1>4, <1>7, <2>1
<1>9. Decode(o) = p
  BY <1>3, <1>4, <1>8 DEF Decode
<1>10. o.layout = "String" => Num(o.at + 8 + Len(p.data), 1) = 0
  <2> SUFFICES ASSUME o.layout = "String" PROVE Num(o.at + 8 + Len(p.data), 1) = 0
    OBVIOUS
  <2>1. Cell(o.at + 8 + Len(p.data), 1, 0) \in CellsOf(o, p)
    BY DEF CellsOf, Fixed
  <2>2. QED BY <1>1, <2>1
<1>11. QED BY <1>4, <1>9, <1>10

\* The object that Allocate adds, and what is promised of it.
NewObject(layout, offset, fields) == [layout |-> layout, at |-> Here + offset, fields |-> fields]
NewPromise(type, data) == [type |-> type, data |-> data]

\* A step that makes an object leaves the bytes below the bump pointer alone
\* and writes the cells of the new object between the old pointer and the new.
LEMMA AllocInv ==
    ASSUME IInv, NEW total \in Nat, NEW layout, NEW offset, NEW fields, NEW type, NEW data,
           Allocate(total, layout, offset, fields, type, data),
           mem' \in Memory,
           \A c \in AllCells : Holds(mem, c) /\ c.addr + c.width <= Here => Holds(mem', c),
           Shape(NewObject(layout, offset, fields), NewPromise(type, data)),
           Within(NewObject(layout, offset, fields), NewPromise(type, data), Here, Here + total),
           \A c \in CellsOf(NewObject(layout, offset, fields), NewPromise(type, data)) :
              Holds(mem', c)
    PROVE  IInv'
<1> DEFINE o == NewObject(layout, offset, fields)
           p == NewPromise(type, data)
           ORec == [layout : Layouts, at : Nat, fields : Fields]
           PRec == [type : Nat, data : Seq(Nat)]
           N == Len(objs)
<1>1. /\ mem \in Memory /\ top \in 0 .. MemSize /\ MemSize \in Nat
      /\ objs \in Seq(ORec) /\ promised \in Seq(PRec) /\ Len(promised) = N
  BY SizesAssumption DEF IInv, MemOK, ListsOK
<1>2. Here \in Nat /\ top <= Here
  BY <1>1 DEF Here
<1>3. /\ Here + total <= MemSize /\ top' = Here + total
      /\ objs' = Append(objs, o) /\ promised' = Append(promised, p)
  BY DEF Allocate, NewObject, NewPromise
<1>4. o \in ORec /\ p \in PRec
  BY DEF Shape, Typed
<1>o. Shape(o, p) /\ Within(o, p, Here, Here + total)
      /\ \A c \in CellsOf(o, p) : Holds(mem', c)
  OBVIOUS
<1>s. \A i \in DOMAIN objs : /\ Shape(objs[i], promised[i])
                             /\ Within(objs[i], promised[i], 0, top)
                             /\ \A c \in CellsOf(objs[i], promised[i]) : Holds(mem, c)
  BY DEF IInv, ShapesOK, BytesOK
<1>k. \A c \in AllCells : Holds(mem, c) /\ c.addr + c.width <= Here => Holds(mem', c)
  OBVIOUS
<1> HIDE DEF o, p, ORec, PRec
<1>5. /\ objs' \in Seq(ORec) /\ promised' \in Seq(PRec)
      /\ Len(objs') = N + 1 /\ Len(promised') = N + 1 /\ N \in Nat
      /\ DOMAIN objs = 1 .. N /\ DOMAIN objs' = 1 .. N + 1
      /\ \A i \in 1 .. N : objs'[i] = objs[i] /\ promised'[i] = promised[i]
      /\ objs'[N + 1] = o /\ promised'[N + 1] = p
  BY <1>1, <1>3, <1>4
<1> HIDE DEF N
<1>6. MemOK'
  BY <1>1, <1>2, <1>3 DEF MemOK, Memory
<1>7. ListsOK'
  BY <1>5 DEF ListsOK, ORec, PRec
<1>8. \A i \in 1 .. N : \A c \in CellsOf(objs[i], promised[i]) :
         /\ c \in AllCells /\ c.addr \in Nat /\ c.width \in Nat
         /\ 0 <= c.addr /\ c.addr + c.width <= top
  BY <1>5, <1>s DEF Shape, Within, AllCells
<1>9. \A c \in CellsOf(o, p) : /\ c \in AllCells /\ c.addr \in Nat /\ c.width \in Nat
                               /\ Here <= c.addr /\ c.addr + c.width <= Here + total
  BY <1>o DEF Shape, Within, AllCells
<1>10. ShapesOK'
  <2> SUFFICES ASSUME NEW i \in 1 .. N + 1
               PROVE  Shape(objs'[i], promised'[i]) /\ Within(objs'[i], promised'[i], 0, top')
    BY <1>5 DEF ShapesOK
  <2>1. CASE i = N + 1
    <3>1. Within(o, p, 0, top')
      BY <1>2, <1>3, <1>9 DEF Within
    <3>2. QED BY <1>5, <1>o, <2>1, <3>1
  <2>2. CASE i # N + 1
    <3>1. i \in 1 .. N
      BY <1>5, <2>2
    <3>2. top <= top' /\ top \in Nat /\ top' \in Nat
      BY <1>1, <1>2, <1>3
    <3>3. Within(objs[i], promised[i], 0, top')
      BY <1>8, <3>1, <3>2 DEF Within
    <3>4. QED BY <1>5, <1>s, <3>1, <3>3
  <2>3. QED BY <2>1, <2>2
<1>11. OrderOK'
  <2> SUFFICES ASSUME NEW i \in 1 .. N + 1, NEW j \in 1 .. N + 1, i < j,
                      NEW c \in CellsOf(objs'[i], promised'[i]),
                      NEW d \in CellsOf(objs'[j], promised'[j])
               PROVE  c.addr + c.width <= d.addr
    BY <1>5 DEF OrderOK
  <2>1. i \in 1 .. N /\ objs'[i] = objs[i] /\ promised'[i] = promised[i]
    BY <1>5
  <2>2. CASE j = N + 1
    <3>1. c.addr + c.width <= top /\ c.addr \in Nat /\ c.width \in Nat
      BY <1>8, <2>1
    <3>2. d \in CellsOf(o, p)
      BY <1>5, <2>2
    <3>3. Here <= d.addr /\ d.addr \in Nat
      BY <1>9, <3>2
    <3>4. top \in Nat
      BY <1>1
    <3>5. QED BY <1>2, <3>1, <3>3, <3>4
  <2>3. CASE j # N + 1
    <3>1. j \in 1 .. N
      BY <1>5, <2>3
    <3>2. objs'[j] = objs[j] /\ promised'[j] = promised[j]
      BY <1>5, <3>1
    <3>3. i \in DOMAIN objs /\ j \in DOMAIN objs
      BY <1>5, <2>1, <3>1
    <3>4. QED BY <2>1, <3>2, <3>3 DEF IInv, OrderOK
  <2>4. QED BY <2>2, <2>3
<1>12. BytesOK'
  <2> SUFFICES ASSUME NEW i \in 1 .. N + 1, NEW c \in CellsOf(objs'[i], promised'[i])
               PROVE  Holds(mem', c)
    BY <1>5 DEF BytesOK
  <2>1. CASE i = N + 1
    BY <1>5, <1>o, <2>1
  <2>2. CASE i # N + 1
    <3>1. i \in 1 .. N
      BY <1>5, <2>2
    <3>2. c \in CellsOf(objs[i], promised[i])
      BY <1>5, <3>1
    <3>3. c \in AllCells /\ c.addr + c.width <= Here
      BY <1>1, <1>2, <1>8, <3>1, <3>2
    <3>4. Holds(mem, c)
      BY <1>5, <1>s, <3>1, <3>2
    <3>5. QED BY <1>k, <3>3, <3>4
  <2>3. QED BY <2>1, <2>2
<1>13. QED BY <1>6, <1>7, <1>10, <1>11, <1>12 DEF IInv

\* A step that stores a number that fits to a field changes what that field
\* holds and no other cell of any object.
LEMMA StoreInv ==
    ASSUME IInv, NEW i \in DOMAIN objs, NEW k \in DOMAIN objs[i].fields, NEW v \in Nat,
           NEW a, NEW w, a = objs[i].at + objs[i].fields[k].off, w = objs[i].fields[k].width,
           Fits(v, w), mem' = Put(mem, a, w, v),
           promised' = [promised EXCEPT ![i].data[k] = v], UNCHANGED <<top, objs>>
    PROVE  IInv'
<1> DEFINE ORec == [layout : Layouts, at : Nat, fields : Fields]
           PRec == [type : Nat, data : Seq(Nat)]
           o == objs[i]
           p == promised[i]
           q == promised'[i]
           f == FieldCell(o, p, k)
           Moved(c, d) == d.addr = c.addr /\ d.width = c.width
<1>1. /\ mem \in Memory /\ top \in 0 .. MemSize /\ MemSize \in Nat
      /\ objs \in Seq(ORec) /\ promised \in Seq(PRec) /\ Len(promised) = Len(objs)
  BY SizesAssumption DEF IInv, MemOK, ListsOK
<1>2. i \in DOMAIN promised /\ DOMAIN promised = DOMAIN objs
  BY <1>1
<1>s. /\ o \in ORec /\ p \in PRec /\ Len(p.data) = Len(o.fields)
      /\ \A j \in DOMAIN objs :
            /\ Shape(objs[j], promised[j]) /\ Within(objs[j], promised[j], 0, top)
            /\ \A c \in CellsOf(objs[j], promised[j]) : Holds(mem, c)
  BY DEF IInv, ShapesOK, BytesOK, Shape, Typed
<1>3. k \in DOMAIN p.data /\ DOMAIN p.data = DOMAIN o.fields
  <2>1. o.fields \in Fields /\ p.data \in Seq(Nat)
    BY <1>s
  <2>2. DOMAIN o.fields = 1 .. Len(o.fields) /\ DOMAIN p.data = 1 .. Len(p.data)
    BY <2>1 DEF Fields
  <2>3. QED BY <1>s, <2>2
<1>4. q = [p EXCEPT !.data[k] = v]
  <2>1. promised' = [promised EXCEPT ![i] = [promised[i] EXCEPT !.data[k] = v]]
    OBVIOUS
  <2>2. QED BY <1>2, <2>1
<1>5. q \in PRec /\ q.type = p.type /\ Len(q.data) = Len(p.data)
      /\ q.data[k] = v /\ \A l \in DOMAIN o.fields : l # k => q.data[l] = p.data[l]
  <2>1. p.data \in Seq(Nat) /\ p.type \in Nat
    BY <1>s
  <2>2. /\ q.type = p.type /\ q.data = [p.data EXCEPT ![k] = v]
        /\ q = [type |-> q.type, data |-> q.data]
    BY <1>4, <1>s
  <2>3. q.data \in Seq(Nat) /\ Len(q.data) = Len(p.data)
    BY <2>1, <2>2, <1>3
  <2>4. q.data[k] = v /\ \A l \in DOMAIN o.fields : l # k => q.data[l] = p.data[l]
    BY <2>2, <1>3
  <2>5. QED BY <2>1, <2>2, <2>3, <2>4
<1>6. promised' \in Seq(PRec) /\ Len(promised') = Len(promised)
      /\ \A j \in DOMAIN objs : j # i => promised'[j] = promised[j]
  <2>1. promised' = [promised EXCEPT ![i] = q]
    BY <1>2, <1>4
  <2> HIDE DEF q, PRec, ORec
  <2>2. QED BY <1>1, <1>2, <1>5, <2>1
<1>7. Fixed(o, q) = Fixed(o, p)
  BY <1>5 DEF Fixed
<1>8. /\ \A l \in DOMAIN o.fields : Moved(FieldCell(o, p, l), FieldCell(o, q, l))
      /\ \A l \in DOMAIN o.fields : l # k => FieldCell(o, q, l) = FieldCell(o, p, l)
      /\ FieldCell(o, q, k) = Cell(a, w, v) /\ f.addr = a /\ f.width = w
  BY <1>5 DEF FieldCell, Cell
<1>9. \A c, d : Apart(c, d) <=> Apart(d, c)
  BY DEF Apart
<1>10. Shape(o, p)
  BY <1>s
<1> HIDE DEF o, p, q, ORec, PRec
<1>11. a \in Nat /\ w \in Nat /\ f \in AllCells /\ Cell(a, w, v) \in AllCells
       /\ a + w <= MemSize
  <2>1. f \in CellsOf(o, p)
    BY DEF CellsOf, o
  <2>2. f \in AllCells /\ f.addr + f.width <= top
    BY <1>10, <1>s, <2>1 DEF Shape, Within, o, p
  <2>3. a \in Nat /\ w \in Nat /\ a + w <= top
    BY <1>8, <2>2 DEF AllCells
  <2> HIDE DEF f
  <2>4. QED BY <1>1, <2>2, <2>3 DEF Cell, AllCells
<1>12. \A c \in CellsOf(o, q) :
          /\ c \in AllCells
          /\ \E d \in CellsOf(o, p) : Moved(c, d)
          /\ c = Cell(a, w, v) \/ (c \in CellsOf(o, p) /\ Apart(c, f))
  <2> TAKE c \in CellsOf(o, q)
  <2>1. CASE c \in Fixed(o, p)
    <3>1. c \in CellsOf(o, p) /\ Apart(c, f) /\ c \in AllCells
      BY <1>10, <2>1 DEF Shape, CellsOf, o
    <3>2. QED BY <3>1
  <2>2. ASSUME NEW l \in DOMAIN o.fields, c = FieldCell(o, q, l)
        PROVE  /\ c \in AllCells
               /\ \E d \in CellsOf(o, p) : Moved(c, d)
               /\ c = Cell(a, w, v) \/ (c \in CellsOf(o, p) /\ Apart(c, f))
    <3>0. FieldCell(o, p, l) \in CellsOf(o, p)
      BY DEF CellsOf
    <3>1. \E d \in CellsOf(o, p) : Moved(c, d)
      BY <1>8, <2>2, <3>0
    <3>2. CASE l = k
      BY <1>8, <1>11, <2>2, <3>1, <3>2
    <3>3. CASE l # k
      <4>1. c = FieldCell(o, p, l)
        BY <1>8, <2>2, <3>3
      <4>2. c \in AllCells /\ Apart(c, f)
        BY <1>10, <3>0, <3>3, <4>1 DEF Shape, o
      <4>3. QED BY <3>0, <3>1, <4>1, <4>2
    <3>4. QED BY <3>2, <3>3
  <2>3. c \in Fixed(o, p) \/ \E l \in DOMAIN o.fields : c = FieldCell(o, q, l)
    BY <1>7 DEF CellsOf
  <2>4. QED BY <2>1, <2>2, <2>3
<1>13. Shape(o, q)
  <2>1. \A l \in DOMAIN o.fields : \A c \in Fixed(o, q) : Apart(c, FieldCell(o, q, l))
    <3>1. \A l \in DOMAIN o.fields : \A c \in Fixed(o, p) : Apart(c, FieldCell(o, p, l))
      BY <1>10 DEF Shape
    <3>2. QED BY <1>7, <1>8, <3>1 DEF Apart
  <2>2. \A l, n \in DOMAIN o.fields : l # n => Apart(FieldCell(o, q, l), FieldCell(o, q, n))
    <3>1. \A l, n \in DOMAIN o.fields : l # n => Apart(FieldCell(o, p, l), FieldCell(o, p, n))
      BY <1>10 DEF Shape
    <3>2. QED BY <1>8, <3>1 DEF Apart
  <2>3. CellsOf(o, q) \subseteq AllCells
    BY <1>12
  <2>4. Len(q.data) = Len(o.fields) /\ Typed(o, q)
    BY <1>5, <1>s DEF PRec, ORec, Typed
  <2>5. QED BY <1>10, <2>1, <2>2, <2>3, <2>4 DEF Shape
<1>14. MemOK'
  BY <1>1, <1>11, PutFacts DEF MemOK, Memory
<1>15. ListsOK'
  BY <1>1, <1>6 DEF ListsOK, ORec, PRec
<1>16. ASSUME NEW j \in DOMAIN objs
       PROVE  /\ Shape(objs[j], promised'[j]) /\ Within(objs[j], promised'[j], 0, top)
              /\ \A c \in CellsOf(objs[j], promised'[j]) :
                    /\ c \in AllCells
                    /\ \E d \in CellsOf(objs[j], promised[j]) : Moved(c, d)
  <2>1. CASE j = i
    <3>1. Within(o, q, 0, top)
      BY <1>12, <1>s DEF Within, o, p
    <3>2. QED BY <1>12, <1>13, <2>1, <3>1 DEF o, p, q
  <2>2. CASE j # i
    <3>1. promised'[j] = promised[j]
      BY <1>6, <2>2
    <3>2. QED BY <1>s, <3>1 DEF Shape
  <2>3. QED BY <2>1, <2>2
<1>17. ShapesOK'
  BY <1>16 DEF ShapesOK
<1>18. OrderOK'
  <2> SUFFICES ASSUME NEW j \in DOMAIN objs, NEW l \in DOMAIN objs, j < l,
                      NEW c \in CellsOf(objs[j], promised'[j]),
                      NEW d \in CellsOf(objs[l], promised'[l])
               PROVE  c.addr + c.width <= d.addr
    BY DEF OrderOK
  <2>1. PICK cc \in CellsOf(objs[j], promised[j]) : Moved(c, cc)
    BY <1>16
  <2>2. PICK dd \in CellsOf(objs[l], promised[l]) : Moved(d, dd)
    BY <1>16
  <2>3. cc.addr + cc.width <= dd.addr
    BY DEF IInv, OrderOK
  <2>4. QED BY <2>1, <2>2, <2>3
<1>19. ASSUME NEW j \in DOMAIN objs, NEW c \in CellsOf(objs[j], promised'[j])
       PROVE  Holds(mem', c)
  <2>0. /\ \A d \in AllCells : Holds(mem, d) /\ Apart(d, Cell(a, w, v)) => Holds(mem', d)
        /\ Holds(mem', Cell(a, w, v))
    <3>1. /\ \A d \in AllCells : Holds(mem, d) /\ Apart(d, Cell(a, w, v)) =>
                Holds(Put(mem, a, w, v), d)
          /\ Holds(Put(mem, a, w, v), Cell(a, w, v))
      <4>1. mem \in Memory /\ a \in Nat /\ w \in Nat
        BY <1>1, <1>11
      <4>2. \A d \in AllCells : Holds(mem, d) /\ Apart(d, Cell(a, w, v)) =>
               Holds(Put(mem, a, w, v), d)
        BY <4>1, PutFacts, Zenon
      <4>3. a + w <= MemSize
        BY <1>11
      <4>4. Holds(Put(mem, a, w, v), Cell(a, w, v))
        BY <4>1, <4>3, PutHolds
      <4>5. QED BY <4>2, <4>4
    <3>2. mem' = Put(mem, a, w, v)
      OBVIOUS
    <3>3. QED BY <3>1, <3>2
  <2>a. \A d : Apart(d, Cell(a, w, v)) <=> Apart(d, f)
    BY <1>8 DEF Apart, Cell
  <2>1. CASE j = i
    <3>1. c \in AllCells /\ (c = Cell(a, w, v) \/ (c \in CellsOf(o, p) /\ Apart(c, f)))
      BY <1>12, <2>1 DEF o, q
    <3>2. c \in CellsOf(o, p) => Holds(mem, c)
      BY <1>s DEF o, p
    <3>3. QED BY <2>0, <2>a, <3>1, <3>2
  <2>2. CASE j # i
    <3>1. c \in CellsOf(objs[j], promised[j])
      BY <1>6, <2>2
    <3>2. c \in AllCells /\ Holds(mem, c)
      BY <1>s, <3>1 DEF Shape
    <3>3. f \in CellsOf(objs[i], promised[i])
      BY DEF CellsOf, o, p
    <3>4. i < j \/ j < i
      BY <1>1, <2>2
    <3>5. c.addr + c.width <= f.addr \/ f.addr + f.width <= c.addr
      BY <3>1, <3>3, <3>4 DEF IInv, OrderOK
    <3>6. QED BY <2>0, <2>a, <3>2, <3>5 DEF Apart
  <2>3. QED BY <2>1, <2>2
<1>20. BytesOK'
  BY <1>19 DEF BytesOK
<1>21. QED BY <1>14, <1>15, <1>17, <1>18, <1>20 DEF IInv

-----------------------------------------------------------------------------
(* New objects                                                             *)

LEMMA HereFacts ==
    ASSUME IInv
    PROVE  Here \in Nat /\ top <= Here /\ mem \in Memory /\ MemSize \in Nat /\ top \in Nat
<1>1. mem \in Memory /\ top \in Nat /\ MemSize \in Nat
  BY SizesAssumption DEF IInv, MemOK
<1>2. Here \in Nat /\ top <= Here
  BY <1>1 DEF Here
<1>3. QED BY <1>1, <1>2

\* The fields of an object with n elements of one size lie in the bytes they
\* take together, apart from each other.
LEMMA ElementCell ==
    ASSUME NEW n \in Nat, NEW first \in Nat, NEW size \in Nat, NEW o, NEW p,
           o.at \in Nat, o.fields = Cells(n, first, size),
           p.data \in Seq(Nat), Len(p.data) = n, NEW k \in 1 .. n
    PROVE  /\ FieldCell(o, p, k) \in AllCells
           /\ FieldCell(o, p, k) = Cell(o.at + first + (k - 1) * size, size, p.data[k])
           /\ o.at + first <= FieldCell(o, p, k).addr
           /\ FieldCell(o, p, k).addr + FieldCell(o, p, k).width <= o.at + first + n * size
<1> DEFINE s == (k - 1) * size
           e == n * size
<1>1. p.data[k] \in Nat
  OBVIOUS
<1>2. s \in Nat /\ s + size <= e /\ e \in Nat
  <2>1. k - 1 \in Nat /\ k - 1 < n
    OBVIOUS
  <2>2. QED BY <2>1, Times
<1>3. FieldCell(o, p, k) = Cell(o.at + (first + s), size, p.data[k])
  BY DEF FieldCell, Cells
<1> HIDE DEF s, e
<1>4. o.at + (first + s) = o.at + first + s
  BY <1>2
<1>5. FieldCell(o, p, k) \in AllCells
  BY <1>1, <1>2, <1>3 DEF Cell, AllCells
<1>6. FieldCell(o, p, k).addr = o.at + first + s /\ FieldCell(o, p, k).width = size
  BY <1>3, <1>4 DEF Cell
<1>7. o.at + first <= o.at + first + s /\ o.at + first + s + size <= o.at + first + e
  BY <1>2
<1>8. QED BY <1>3, <1>4, <1>5, <1>6, <1>7 DEF s, e

LEMMA ElementsApart ==
    ASSUME NEW n \in Nat, NEW first \in Nat, NEW size \in Nat, NEW o, NEW p,
           o.at \in Nat, o.fields = Cells(n, first, size),
           p.data \in Seq(Nat), Len(p.data) = n, NEW k \in 1 .. n, NEW l \in 1 .. n, k < l
    PROVE  /\ Apart(FieldCell(o, p, k), FieldCell(o, p, l))
           /\ Apart(FieldCell(o, p, l), FieldCell(o, p, k))
<1> DEFINE s == (k - 1) * size
           t == (l - 1) * size
<1>1. s \in Nat /\ t \in Nat /\ s + size <= t
  BY CellsFacts
<1>2. /\ FieldCell(o, p, k) = Cell(o.at + first + s, size, p.data[k])
      /\ FieldCell(o, p, l) = Cell(o.at + first + t, size, p.data[l])
  <2>1. FieldCell(o, p, k) = Cell(o.at + (first + s), size, p.data[k])
    BY DEF FieldCell, Cells
  <2>2. FieldCell(o, p, l) = Cell(o.at + (first + t), size, p.data[l])
    BY DEF FieldCell, Cells
  <2> HIDE DEF s, t
  <2>3. QED BY <1>1, <2>1, <2>2, SMTT(30)
<1> HIDE DEF s, t
<1>3. o.at + first + s + size <= o.at + first + t
  BY <1>1
<1>4. QED BY <1>2, <1>3 DEF Apart, Cell

\* The header and the terminator of an object lie between lo and b or between
\* e and hi.
Around(o, p, lo, b, e, hi) ==
    \A c \in Fixed(o, p) :
        /\ c \in AllCells /\ lo <= c.addr /\ c.addr + c.width <= hi
        /\ c.addr + c.width <= b \/ e <= c.addr

LEMMA AroundApart ==
    ASSUME NEW o, NEW p, NEW lo \in Nat, NEW b \in Nat, NEW e \in Nat, NEW hi \in Nat,
           Around(o, p, lo, b, e, hi), lo <= b, e <= hi,
           NEW d \in AllCells, b <= d.addr, d.addr + d.width <= e
    PROVE  /\ lo <= d.addr /\ d.addr + d.width <= hi
           /\ \A c \in Fixed(o, p) : Apart(c, d)
<1>1. d.addr \in Nat /\ d.width \in Nat
  BY DEF AllCells
<1>2. \A c \in Fixed(o, p) : /\ c.addr \in Nat /\ c.width \in Nat
                             /\ c.addr + c.width <= b \/ e <= c.addr
  BY DEF Around, AllCells
<1>3. QED BY <1>1, <1>2 DEF Apart

LEMMA TypedFacts ==
    ASSUME NEW o, NEW p, Typed(o, p)
    PROVE  /\ o.at \in Nat /\ o.layout \in Layouts /\ o.fields \in Fields
           /\ p.type \in Nat /\ p.data \in Seq(Nat)
           /\ o.fields \in Seq([off : Nat, width : Nat, reg : Nat])
BY DEF Typed, Fields

LEMMA FieldCellIn ==
    ASSUME NEW o, NEW p, Typed(o, p), Len(p.data) = Len(o.fields), NEW k \in DOMAIN o.fields
    PROVE  FieldCell(o, p, k) \in AllCells
<1>1. o.at \in Nat /\ o.fields \in Fields /\ p.data \in Seq(Nat)
  BY TypedFacts
<1>2. o.fields[k].off \in Nat /\ o.fields[k].width \in Nat /\ k \in 1 .. Len(o.fields)
  BY <1>1, FieldFacts
<1>3. p.data[k] \in Nat
  BY <1>1, <1>2
<1>4. o.at + o.fields[k].off \in Nat
  BY <1>1, <1>2
<1>5. QED BY <1>2, <1>3, <1>4 DEF FieldCell, Cell, AllCells

\* An object with n elements of one size between b and e, whose header and
\* terminator lie around them.
LEMMA ElementsShape ==
    ASSUME NEW n \in Nat, NEW first \in Nat, NEW size \in Nat, NEW o, NEW p,
           NEW b \in Nat, NEW e \in Nat, NEW lo \in Nat, NEW hi \in Nat,
           Typed(o, p), o.fields = Cells(n, first, size), Len(p.data) = n,
           b = o.at + first, e = b + n * size, lo <= b, e <= hi,
           Around(o, p, lo, b, e, hi),
           o.layout = "String" => first = 8 /\ size = 1,
           o.layout = "Legacy" => first = 0
    PROVE  Shape(o, p) /\ Within(o, p, lo, hi)
<1>0. o.at \in Nat /\ p.data \in Seq(Nat)
  BY TypedFacts
<1>a. /\ Len(o.fields) = n /\ DOMAIN o.fields = 1 .. n
      /\ \A k \in 1 .. n : o.fields[k].width = size /\ o.fields[k].reg = size
  <2>1. DOMAIN Cells(n, first, size) = 1 .. n /\ Len(Cells(n, first, size)) = n
    BY CellsFacts
  <2>2. \A k \in 1 .. n : /\ Cells(n, first, size)[k].width = size
                          /\ Cells(n, first, size)[k].reg = size
    BY DEF Cells
  <2>3. QED BY <2>1, <2>2
<1>1. ASSUME NEW k \in 1 .. n
      PROVE  FieldCell(o, p, k) \in AllCells
  <2>1. k \in DOMAIN o.fields
    BY <1>a
  <2>2. QED BY <2>1, <1>a, FieldCellIn
<1>2. ASSUME NEW k \in 1 .. n
      PROVE  /\ b <= FieldCell(o, p, k).addr
             /\ FieldCell(o, p, k).addr + FieldCell(o, p, k).width <= e
  BY <1>0, ElementCell, ZenonT(60)
<1>3. ASSUME NEW k \in 1 .. n, NEW l \in 1 .. n, k # l
      PROVE  Apart(FieldCell(o, p, k), FieldCell(o, p, l))
  <2>1. k < l \/ l < k
    BY <1>3
  <2>2. CASE k < l
    BY <1>0, <2>2, ElementsApart
  <2>3. CASE l < k
    BY <1>0, <2>3, ElementsApart
  <2>4. QED BY <2>1, <2>2, <2>3
<1>4. ASSUME NEW k \in 1 .. n
      PROVE  /\ lo <= FieldCell(o, p, k).addr
             /\ FieldCell(o, p, k).addr + FieldCell(o, p, k).width <= hi
             /\ \A c \in Fixed(o, p) : Apart(c, FieldCell(o, p, k))
  BY <1>1, <1>2, AroundApart, SMTT(30)
<1>5. Within(o, p, lo, hi)
  <2>1. \A c \in Fixed(o, p) : lo <= c.addr /\ c.addr + c.width <= hi
    BY DEF Around
  <2>2. QED BY <1>a, <1>4, <2>1 DEF Within, CellsOf
<1>6. CellsOf(o, p) \subseteq AllCells
  BY <1>a, <1>1 DEF CellsOf, Around
<1>7. o.layout = "String" => o.fields = Cells(Len(o.fields), 8, 1)
  BY <1>a
<1>8. o.layout = "Legacy" /\ o.fields # <<>> =>
         o.fields = Cells(Len(o.fields), 0, o.fields[1].width)
  <2> SUFFICES ASSUME o.layout = "Legacy", o.fields # <<>>
               PROVE  o.fields = Cells(Len(o.fields), 0, o.fields[1].width)
    OBVIOUS
  <2>1. n # 0
    <3>1. o.fields \in Seq([off : Nat, width : Nat, reg : Nat])
      BY TypedFacts
    <3>2. QED BY <1>a, <3>1
  <2>2. o.fields[1].width = size
    BY <1>a, <2>1
  <2>3. QED BY <1>a, <2>2
<1>9. \A k \in DOMAIN o.fields : o.fields[k].reg = o.fields[k].width
  BY <1>a
<1>10. \A k \in DOMAIN o.fields :
          /\ \A c \in Fixed(o, p) : Apart(c, FieldCell(o, p, k))
          /\ \A l \in DOMAIN o.fields : k # l => Apart(FieldCell(o, p, k), FieldCell(o, p, l))
  BY <1>a, <1>3, <1>4
<1>11. QED BY <1>a, <1>5, <1>6, <1>7, <1>8, <1>9, <1>10 DEF Shape

LEMMA StringShape ==
    ASSUME NEW h \in Nat, NEW n \in Nat, NEW o, NEW p, Typed(o, p), Len(p.data) = n,
           o.layout = "String", o.at = h + 8, o.fields = Cells(n, 8, 1)
    PROVE  /\ Shape(o, p) /\ Within(o, p, h, h + StringTotal(n))
           /\ StringTotal(n) \in Nat /\ DOMAIN o.fields = 1 .. n
<1> DEFINE b == h + 16
           e == b + n * 1
           hi == h + StringTotal(n)
<1>1. StringTotal(n) = 16 + n + 1
  BY DEF StringTotal, JULIA_HEADER_SIZE
<1>2. /\ b \in Nat /\ e \in Nat /\ hi \in Nat /\ b = o.at + 8 /\ h <= b /\ e <= hi
      /\ e = h + 16 + n /\ hi = h + 16 + n + 1
  BY <1>1
<1>3. p.type \in Nat
  BY TypedFacts
<1>4. Fixed(o, p) = {Cell(h, 8, p.type), Cell(h + 8, 8, n), Cell(h + 16 + n, 1, 0)}
  <2>1. o.at - 8 = h /\ o.at + 8 + Len(p.data) = h + 16 + n
    OBVIOUS
  <2>2. Fixed(o, p) = {Cell(o.at - 8, 8, p.type), Cell(o.at, 8, Len(p.data)),
                       Cell(o.at + 8 + Len(p.data), 1, 0)}
    BY DEF Fixed
  <2>3. QED BY <2>1, <2>2
<1>5. Around(o, p, h, b, e, hi)
  BY <1>2, <1>3, <1>4, SMTT(30) DEF Around, Cell, AllCells
<1>6. e = b + n * 1
  OBVIOUS
<1>7. Shape(o, p) /\ Within(o, p, h, hi)
  <2> HIDE DEF b, e, hi
  <2>1. QED BY <1>2, <1>5, <1>6, ElementsShape
<1>8. DOMAIN o.fields = 1 .. n
  BY CellsFacts
<1>9. QED BY <1>1, <1>7, <1>8

LEMMA MemoryShape ==
    ASSUME NEW h \in Nat, NEW n \in Nat, NEW size \in Nat, NEW o, NEW p, Typed(o, p),
           Len(p.data) = n, o.layout = "Memory", o.at = h + 16, o.fields = Cells(n, 0, size),
           NEW hi \in Nat, h + 16 + n * size <= hi
    PROVE  Shape(o, p) /\ Within(o, p, h, hi)
<1> DEFINE b == h + 16
           e == b + n * size
<1>1. n * size \in Nat /\ e <= hi
  OBVIOUS
<1>2. b \in Nat /\ e \in Nat /\ b = o.at + 0 /\ b <= e
  BY <1>1
<1>3. p.type \in Nat
  BY TypedFacts
<1>4. Fixed(o, p) = {Cell(h, 8, p.type), Cell(h + 8, 8, n)}
  <2>1. o.at - 16 = h /\ o.at - 8 = h + 8
    OBVIOUS
  <2>2. Fixed(o, p) = {Cell(o.at - 16, 8, p.type), Cell(o.at - 8, 8, Len(p.data))}
    BY DEF Fixed
  <2>3. QED BY <2>1, <2>2
<1>5. e = b + n * size /\ b = h + 16
  OBVIOUS
<1> HIDE DEF b, e
<1>6. h <= b /\ b <= hi
  BY <1>1, <1>2, <1>5
<1>7. Around(o, p, h, b, e, hi)
  <2>1. Cell(h, 8, p.type) \in AllCells /\ Cell(h + 8, 8, n) \in AllCells
    BY <1>3 DEF Cell, AllCells
  <2>2. /\ Cell(h, 8, p.type).addr = h /\ Cell(h, 8, p.type).width = 8
        /\ Cell(h + 8, 8, n).addr = h + 8 /\ Cell(h + 8, 8, n).width = 8
    BY DEF Cell
  <2>3. h + 8 <= b /\ (h + 8) + 8 <= b /\ h + 8 <= hi /\ (h + 8) + 8 <= hi /\ h <= h + 8
    BY <1>2, <1>5, <1>6
  <2>4. QED BY <1>4, <2>1, <2>2, <2>3 DEF Around
<1>8. QED BY <1>1, <1>2, <1>5, <1>6, <1>7, ElementsShape

LEMMA LegacyShape ==
    ASSUME NEW h \in Nat, NEW n \in Nat, NEW size \in Nat, NEW o, NEW p, Typed(o, p),
           Len(p.data) = n, o.layout = "Legacy", o.at = h + 12, o.fields = Cells(n, 0, size),
           NEW hi \in Nat, h + 12 + n * size <= hi
    PROVE  Shape(o, p) /\ Within(o, p, h, hi)
<1> DEFINE b == h + 12
           e == b + n * size
<1>1. n * size \in Nat /\ e <= hi
  OBVIOUS
<1>2. b \in Nat /\ e \in Nat /\ b = o.at + 0 /\ b <= e
  BY <1>1
<1>3. p.type \in Nat
  BY TypedFacts
<1>4. Fixed(o, p) = {Cell(h, 4, p.type), Cell(h + 8, 4, n)}
  <2>1. o.at - 12 = h /\ o.at - 4 = h + 8
    OBVIOUS
  <2>2. Fixed(o, p) = {Cell(o.at - 12, 4, p.type), Cell(o.at - 4, 4, Len(p.data))}
    BY DEF Fixed
  <2>3. QED BY <2>1, <2>2
<1>5. e = b + n * size /\ b = h + 12
  OBVIOUS
<1> HIDE DEF b, e
<1>6. h <= b /\ b <= hi
  BY <1>1, <1>2, <1>5
<1>7. Around(o, p, h, b, e, hi)
  <2>1. Cell(h, 4, p.type) \in AllCells /\ Cell(h + 8, 4, n) \in AllCells
    BY <1>3 DEF Cell, AllCells
  <2>2. /\ Cell(h, 4, p.type).addr = h /\ Cell(h, 4, p.type).width = 4
        /\ Cell(h + 8, 4, n).addr = h + 8 /\ Cell(h + 8, 4, n).width = 4
    BY DEF Cell
  <2>3. h + 4 <= b /\ (h + 8) + 4 <= b /\ h + 4 <= hi /\ (h + 8) + 4 <= hi /\ h <= h + 8
    BY <1>2, <1>5, <1>6
  <2>4. QED BY <1>4, <2>1, <2>2, <2>3 DEF Around
<1>8. QED BY <1>1, <1>2, <1>5, <1>6, <1>7, ElementsShape

-----------------------------------------------------------------------------
(* Strings                                                                 *)

LEMMA NewTyped ==
    ASSUME IInv, NEW layout \in Layouts, NEW offset \in Nat, NEW fields \in Fields,
           NEW type \in Nat, NEW data \in Seq(Nat)
    PROVE  Typed(NewObject(layout, offset, fields), NewPromise(type, data))
<1>1. Here + offset \in Nat
  BY HereFacts
<1>2. QED BY <1>1 DEF Typed, NewObject, NewPromise

LEMMA AllocStringFacts ==
    ASSUME IInv, NEW n \in Nat, Here + StringTotal(n) <= MemSize
    PROVE  /\ AllocString(n) \in Memory
           /\ \A c \in AllCells : Holds(mem, c) /\ c.addr + c.width <= Here =>
                 Holds(AllocString(n), c)
           /\ Holds(AllocString(n), Cell(Here, 8, StringTag))
           /\ Holds(AllocString(n), Cell(Here + 8, 8, n))
           /\ Holds(AllocString(n), Cell(Here + 16 + n, 1, 0))
<1> DEFINE h == Here
           m1 == Put(mem, h, 8, StringTag)
           m2 == Put(m1, h + 8, 8, n)
           m3 == Put(m2, h + 16 + n, 1, 0)
<1>1. h \in Nat /\ mem \in Memory /\ MemSize \in Nat
  BY HereFacts
<1>2. h + 16 + n + 1 <= MemSize /\ StringTag \in Nat
  BY <1>1, TagsAssumption DEF StringTotal, JULIA_HEADER_SIZE
<1>3. AllocString(n) = m3
  BY DEF AllocString
<1> HIDE DEF h
<1>4. Fits(StringTag, 8) /\ Fits(n, 8) /\ Fits(0, 1)
  <2>1. n <= MemSize
    BY <1>1, <1>2
  <2>2. Fits(n, 8)
    BY <1>1, <2>1, FitsMono, SizesAssumption
  <2>3. QED BY <2>2, ShiftedZero, TagsAssumption
<1>5. /\ m1 \in Memory /\ Holds(m1, Cell(h, 8, StringTag))
      /\ \A c \in AllCells : Holds(mem, c) /\ Apart(c, Cell(h, 8, StringTag)) => Holds(m1, c)
  <2>1. h + 8 <= MemSize
    BY <1>1, <1>2
  <2>2. QED BY <1>1, <1>2, <1>4, <2>1, PutFacts, ZenonT(90)
<1> HIDE DEF m1
<1>6. /\ m2 \in Memory /\ Holds(m2, Cell(h + 8, 8, n))
      /\ \A c \in AllCells : Holds(m1, c) /\ Apart(c, Cell(h + 8, 8, n)) => Holds(m2, c)
  <2>1. h + 8 + 8 <= MemSize /\ h + 8 \in Nat
    BY <1>1, <1>2
  <2>2. QED BY <1>4, <1>5, <2>1, PutFacts
<1> HIDE DEF m2
<1>7. /\ m3 \in Memory /\ Holds(m3, Cell(h + 16 + n, 1, 0))
      /\ \A c \in AllCells : Holds(m2, c) /\ Apart(c, Cell(h + 16 + n, 1, 0)) => Holds(m3, c)
  <2>1. h + 16 + n + 1 <= MemSize /\ h + 16 + n \in Nat
    BY <1>1, <1>2
  <2>2. QED BY <1>4, <1>6, <2>1, PutFacts
<1> HIDE DEF m3
<1>8. Cell(h, 8, StringTag) \in AllCells /\ Cell(h + 8, 8, n) \in AllCells
  BY <1>1, <1>2 DEF Cell, AllCells
<1>9. \A c \in AllCells : Holds(mem, c) /\ c.addr + c.width <= h => Holds(m3, c)
  <2> TAKE c \in AllCells
  <2> HAVE Holds(mem, c) /\ c.addr + c.width <= h
  <2>1. /\ Apart(c, Cell(h, 8, StringTag)) /\ Apart(c, Cell(h + 8, 8, n))
        /\ Apart(c, Cell(h + 16 + n, 1, 0))
    BY <1>1 DEF Apart, Cell, AllCells
  <2>2. QED BY <1>5, <1>6, <1>7, <2>1
<1>10. Holds(m3, Cell(h, 8, StringTag))
  <2>1. /\ Apart(Cell(h, 8, StringTag), Cell(h + 8, 8, n))
        /\ Apart(Cell(h, 8, StringTag), Cell(h + 16 + n, 1, 0))
    BY <1>1 DEF Apart, Cell
  <2>2. QED BY <1>5, <1>6, <1>7, <1>8, <2>1
<1>11. Holds(m3, Cell(h + 8, 8, n))
  <2>1. Apart(Cell(h + 8, 8, n), Cell(h + 16 + n, 1, 0))
    BY <1>1 DEF Apart, Cell
  <2>2. QED BY <1>6, <1>7, <1>8, <2>1
<1>12. QED BY <1>3, <1>7, <1>9, <1>10, <1>11 DEF h

\* A String is made right when the bytes between its length and its terminator
\* are.
LEMMA NewString ==
    ASSUME IInv, NEW n \in Nat, NEW data \in Seq(Nat), Len(data) = n,
           Allocate(StringTotal(n), "String", 8, Cells(n, 8, 1), StringTag, data),
           mem' \in Memory,
           \A c \in AllCells :
              /\ Holds(AllocString(n), c)
              /\ c.addr + c.width <= Here + 16 \/ Here + 16 + n <= c.addr
              => Holds(mem', c),
           \A k \in 1 .. n : Holds(mem', Cell(Here + 16 + (k - 1), 1, data[k]))
    PROVE  IInv'
<1> DEFINE h == Here
           o == NewObject("String", 8, Cells(n, 8, 1))
           p == NewPromise(StringTag, data)
<1>1. h \in Nat /\ StringTag \in Nat /\ Here + StringTotal(n) <= MemSize
  BY HereFacts, TagsAssumption DEF Allocate
<1>2. o.layout = "String" /\ o.at = h + 8 /\ o.fields = Cells(n, 8, 1)
      /\ p.type = StringTag /\ p.data = data
  BY DEF NewObject, NewPromise
<1>3. Typed(o, p)
  <2>1. Cells(n, 8, 1) \in Fields /\ "String" \in Layouts /\ 8 \in Nat
    BY CellsFacts DEF Layouts
  <2>2. QED BY <1>1, <2>1, NewTyped
<1>4. /\ AllocString(n) \in Memory
      /\ \A c \in AllCells : Holds(mem, c) /\ c.addr + c.width <= h => Holds(AllocString(n), c)
      /\ Holds(AllocString(n), Cell(h, 8, StringTag))
      /\ Holds(AllocString(n), Cell(h + 8, 8, n))
      /\ Holds(AllocString(n), Cell(h + 16 + n, 1, 0))
  BY <1>1, AllocStringFacts
<1>k. \A c \in AllCells :
         /\ Holds(AllocString(n), c)
         /\ c.addr + c.width <= h + 16 \/ h + 16 + n <= c.addr
         => Holds(mem', c)
  OBVIOUS
<1>d. \A k \in 1 .. n : Holds(mem', Cell(h + 16 + (k - 1), 1, data[k]))
  OBVIOUS
<1> HIDE DEF h, o, p
<1>5. /\ Shape(o, p) /\ Within(o, p, h, h + StringTotal(n))
      /\ StringTotal(n) \in Nat /\ DOMAIN o.fields = 1 .. n
      /\ Fixed(o, p) = {Cell(h, 8, StringTag), Cell(h + 8, 8, n), Cell(h + 16 + n, 1, 0)}
      /\ \A k \in 1 .. n : FieldCell(o, p, k) = Cell(h + 16 + (k - 1), 1, data[k])
  <2>1. Len(p.data) = n
    BY <1>2
  <2>2. /\ Shape(o, p) /\ Within(o, p, h, h + StringTotal(n))
        /\ StringTotal(n) \in Nat /\ DOMAIN o.fields = 1 .. n
    BY <1>1, <1>2, <1>3, <2>1, StringShape
  <2>3. Fixed(o, p) = {Cell(h, 8, StringTag), Cell(h + 8, 8, n), Cell(h + 16 + n, 1, 0)}
    <3>1. o.at - 8 = h /\ o.at + 8 + n = h + 16 + n
      BY <1>1, <1>2
    <3>2. Fixed(o, p) = {Cell(o.at - 8, 8, p.type), Cell(o.at, 8, Len(p.data)),
                         Cell(o.at + 8 + Len(p.data), 1, 0)}
      BY <1>2 DEF Fixed
    <3>3. QED BY <1>2, <2>1, <3>1, <3>2
  <2>4. ASSUME NEW k \in 1 .. n
        PROVE  FieldCell(o, p, k) = Cell(h + 16 + (k - 1), 1, data[k])
    <3>1. o.fields[k].off = 8 + (k - 1) /\ o.fields[k].width = 1
      BY <1>2 DEF Cells
    <3>2. (h + 8) + (8 + (k - 1)) = h + 16 + (k - 1)
      BY <1>1
    <3>3. QED BY <1>2, <3>1, <3>2, Zenon DEF FieldCell
  <2>5. QED BY <2>2, <2>3, <2>4
<1>6. \A c \in AllCells : Holds(mem, c) /\ c.addr + c.width <= h => Holds(mem', c)
  BY <1>1, <1>4, <1>k DEF AllCells
<1>7. \A c \in CellsOf(o, p) : Holds(mem', c)
  <2>1. \A k \in 1 .. n : Holds(mem', FieldCell(o, p, k))
    BY <1>5, <1>d
  <2>2. ASSUME NEW c \in Fixed(o, p)
        PROVE  Holds(mem', c)
    <3>1. c \in AllCells
      BY <1>5 DEF Shape, CellsOf
    <3>2. Holds(AllocString(n), c)
      BY <1>4, <1>5
    <3>3. c.addr + c.width <= h + 16 \/ h + 16 + n <= c.addr
      BY <1>1, <1>5 DEF Cell
    <3>4. QED BY <1>k, <3>1, <3>2, <3>3
  <2>3. QED BY <1>5, <2>1, <2>2 DEF CellsOf
<1>8. QED
  BY <1>5, <1>6, <1>7, AllocInv DEF h, o, p

\* A text of bytes is a sequence of numbers.
LEMMA BytesAreNumbers ==
    ASSUME NEW text \in Seq(Byte)
    PROVE  text \in Seq(Nat) /\ Len(text) \in Nat
<1>1. Byte \subseteq Nat
  BY BytesAssumption DEF Byte
<1>2. \A k \in 1 .. Len(text) : text[k] \in Byte
  OBVIOUS
<1>3. \A k \in 1 .. Len(text) : text[k] \in Nat
  BY <1>1, <1>2, Zenon
<1>4. QED BY <1>3

LEMMA StringFromRawInv ==
    ASSUME IInv, NEW text \in Texts, StringFromRaw(text)
    PROVE  IInv'
<1> DEFINE n == Len(text)
           h == Here
<1>1. text \in Seq(Byte)
  BY DataAssumption
<1>2. text \in Seq(Nat) /\ n \in Nat
  BY <1>1, BytesAreNumbers
<1>3. /\ Allocate(StringTotal(n), "String", 8, Cells(n, 8, 1), StringTag, text)
      /\ mem' = PutBytes(AllocString(n), h + 16, n, text)
  BY DEF StringFromRaw
<1>4. Here + StringTotal(n) <= MemSize
  BY <1>3 DEF Allocate
<1>5. AllocString(n) \in Memory
  <2> HIDE DEF n
  <2>1. QED BY <1>2, <1>4, AllocStringFacts
<1>6. h \in Nat /\ MemSize \in Nat /\ h + 16 \in Nat /\ h + 16 + n <= MemSize
  <2>1. h \in Nat /\ MemSize \in Nat
    BY HereFacts
  <2> HIDE DEF h, n
  <2>2. StringTotal(n) = 16 + n + 1
    BY <1>2 DEF StringTotal, JULIA_HEADER_SIZE
  <2>3. QED BY <1>2, <1>4, <2>1, <2>2 DEF h
<1>7. /\ mem' \in Memory
      /\ \A c \in AllCells :
            Holds(AllocString(n), c) /\ (c.addr + c.width <= h + 16 \/ h + 16 + n <= c.addr) =>
               Holds(mem', c)
      /\ \A k \in 1 .. n : Holds(mem', Cell(h + 16 + (k - 1), 1, text[k]))
  <2> DEFINE a == h + 16
             m == AllocString(n)
  <2>1. a \in Nat /\ m \in Memory /\ a + n <= MemSize /\ mem' = PutBytes(m, a, n, text)
    BY <1>3, <1>5, <1>6
  <2>2. n = Len(text)
    OBVIOUS
  <2> HIDE DEF a, m, n
  <2>3. /\ mem' \in Memory
        /\ \A c \in AllCells :
              Holds(m, c) /\ (c.addr + c.width <= a \/ a + n <= c.addr) => Holds(mem', c)
        /\ \A k \in 1 .. n : Holds(mem', Cell(a + (k - 1), 1, text[k]))
    BY <1>1, <1>2, <2>1, <2>2, PutBytesFacts
  <2>4. QED BY <2>3 DEF a, m
<1>8. Len(text) = n
  OBVIOUS
<1> HIDE DEF n
<1>9. QED BY <1>2, <1>3, <1>7, <1>8, NewString DEF h

\* The bytes of a String of some object: its data, in place before the bump
\* pointer.
LEMMA StringBytes ==
    ASSUME IInv, NEW i \in DOMAIN objs, objs[i].layout = "String"
    PROVE  /\ promised[i].data \in Seq(Nat) /\ objs[i].at \in Nat
           /\ Num(objs[i].at, 8) = Len(promised[i].data)
           /\ objs[i].at + 8 + Len(promised[i].data) <= top
           /\ \A k \in 1 .. Len(promised[i].data) :
                 LET c == Cell(objs[i].at + 8 + (k - 1), 1, promised[i].data[k])
                 IN  c \in AllCells /\ Holds(mem, c) /\ c.addr + c.width <= top
<1> DEFINE o == objs[i]
           p == promised[i]
           n == Len(p.data)
<1>1. /\ Shape(o, p) /\ Within(o, p, 0, top) /\ mem \in Memory
      /\ \A c \in CellsOf(o, p) : Holds(mem, c)
  BY DEF IInv, ShapesOK, BytesOK, MemOK
<1>2. o.layout = "String"
  OBVIOUS
<1> HIDE DEF o, p
<1>3. o.at \in Nat /\ p.data \in Seq(Nat) /\ o.fields \in Fields
  BY <1>1, TypedFacts DEF Shape
<1>4. Length(o) = n /\ Length(o) = Num(o.at, 8)
  <2>1. Length(o) = Len(p.data)
    BY <1>1, Reads
  <2>2. QED BY <1>2, <2>1 DEF Length
<1>5. o.at + 8 + n <= top
  <2> DEFINE c == Cell(o.at + 8 + Len(p.data), 1, 0)
  <2>1. c \in CellsOf(o, p)
    BY <1>2 DEF CellsOf, Fixed
  <2>2. c.addr + c.width <= top
    BY <1>1, <2>1 DEF Within
  <2>3. o.at + 8 + n + 1 <= top
    BY <2>2 DEF Cell
  <2>4. n \in Nat /\ top \in Nat
    BY <1>3, HereFacts
  <2>5. QED BY <1>3, <2>3, <2>4
<1>6. ASSUME NEW k \in 1 .. n
      PROVE  LET c == Cell(o.at + 8 + (k - 1), 1, p.data[k])
             IN  c \in AllCells /\ Holds(mem, c) /\ c.addr + c.width <= top
  <2>1. o.fields = Cells(Len(o.fields), 8, 1) /\ Len(o.fields) = n
    BY <1>1, <1>2 DEF Shape
  <2>2. o.fields[k].off = 8 + (k - 1) * 1 /\ o.fields[k].width = 1 /\ k \in DOMAIN o.fields
    BY <2>1 DEF Cells
  <2>3. o.at + (8 + (k - 1) * 1) = o.at + 8 + (k - 1)
    <3>1. n \in Nat
      BY <1>3
    <3> HIDE DEF n
    <3>2. QED BY <1>3, <3>1
  <2>4. FieldCell(o, p, k) = Cell(o.at + 8 + (k - 1), 1, p.data[k])
    BY <2>2, <2>3, Zenon DEF FieldCell
  <2>5. FieldCell(o, p, k) \in CellsOf(o, p)
    BY <2>2 DEF CellsOf
  <2>6. QED BY <1>1, <2>4, <2>5 DEF Shape, Within
<1>7. QED BY <1>3, <1>4, <1>5, <1>6 DEF o, p

LEMMA StringConcatInv ==
    ASSUME IInv, NEW i \in DOMAIN objs, NEW j \in DOMAIN objs, StringConcat(i, j)
    PROVE  IInv'
<1> DEFINE a == objs[i].at
           b == objs[j].at
           da == promised[i].data
           db == promised[j].data
           la == Num(a, 8)
           lb == Num(b, 8)
           n == la + lb
           h == Here
           m1 == AllocString(n)
           m2 == Copy(m1, h + 16, a + 8, la)
           m3 == Copy(m2, h + 16 + la, b + 8, lb)
<1>1. objs[i].layout = "String" /\ objs[j].layout = "String"
  BY DEF StringConcat
<1>2. /\ da \in Seq(Nat) /\ a \in Nat /\ la = Len(da) /\ a + 8 + la <= top
      /\ \A k \in 1 .. Len(da) :
            LET c == Cell(a + 8 + (k - 1), 1, da[k])
            IN  c \in AllCells /\ Holds(mem, c) /\ c.addr + c.width <= top
  BY <1>1, StringBytes
<1>3. /\ db \in Seq(Nat) /\ b \in Nat /\ lb = Len(db) /\ b + 8 + lb <= top
      /\ \A k \in 1 .. Len(db) :
            LET c == Cell(b + 8 + (k - 1), 1, db[k])
            IN  c \in AllCells /\ Holds(mem, c) /\ c.addr + c.width <= top
  BY <1>1, StringBytes
<1>4. Allocate(StringTotal(n), "String", 8, Cells(n, 8, 1), StringTag, da \o db)
  BY DEF StringConcat
<1>5. h \in Nat /\ top <= h /\ mem \in Memory /\ MemSize \in Nat /\ top \in Nat
  BY HereFacts
<1>6. mem' = m3
  <2>1. mem' = Copy(Copy(AllocString(n), (h + 8) + 8, a + 8, la), (h + 8) + Behind(la), b + 8, lb)
    BY DEF StringConcat
  <2>2. Behind(la) = 8 + la
    BY DEF Behind
  <2>3. la \in Nat
    BY <1>2
  <2> HIDE DEF la, lb, a, b, h, n
  <2>4. (h + 8) + 8 = h + 16 /\ (h + 8) + (8 + la) = h + 16 + la
    BY <1>5, <2>3
  <2>5. QED BY <2>1, <2>2, <2>4
<1> HIDE DEF a, b, da, db, la, lb
<1>7. la \in Nat /\ lb \in Nat /\ n \in Nat /\ n = la + lb
  BY <1>2, <1>3
<1> HIDE DEF n
<1>8. Here + StringTotal(n) <= MemSize /\ StringTotal(n) = 16 + n + 1
  BY <1>4, <1>7 DEF Allocate, StringTotal, JULIA_HEADER_SIZE
<1>9. /\ m1 \in Memory
      /\ \A c \in AllCells : Holds(mem, c) /\ c.addr + c.width <= h => Holds(m1, c)
  BY <1>7, <1>8, AllocStringFacts
<1> HIDE DEF h, m1
<1>10. h + 16 + n + 1 <= MemSize
  BY <1>5, <1>7, <1>8 DEF h
<1>11. /\ h + 16 \in Nat /\ a + 8 \in Nat /\ h + 16 + la \in Nat /\ b + 8 \in Nat
       /\ h + 16 + la <= MemSize /\ a + 8 + la <= MemSize
       /\ h + 16 + la + lb <= MemSize /\ b + 8 + lb <= MemSize
       /\ h + 16 + la + lb = h + 16 + n
  BY <1>2, <1>3, <1>5, <1>7, <1>10
<1>12. /\ m2 \in Memory
       /\ \A c \in AllCells :
             Holds(m1, c) /\ (c.addr + c.width <= h + 16 \/ h + 16 + la <= c.addr) => Holds(m2, c)
       /\ \A k \in 1 .. la : m2[h + 16 + (k - 1)] = m1[a + 8 + (k - 1)]
  <2> DEFINE d == h + 16
             s == a + 8
  <2>1. d \in Nat /\ s \in Nat /\ d + la <= MemSize /\ s + la <= MemSize
    BY <1>11
  <2>2. m2 = Copy(m1, d, s, la)
    OBVIOUS
  <2> HIDE DEF d, s, m2
  <2>3. /\ m2 \in Memory
        /\ \A c \in AllCells :
              Holds(m1, c) /\ (c.addr + c.width <= d \/ d + la <= c.addr) => Holds(m2, c)
        /\ \A k \in 1 .. la : m2[d + (k - 1)] = m1[s + (k - 1)]
    <3> DEFINE q == Copy(m1, d, s, la)
    <3>1. q \in Memory
      BY <1>7, <1>9, <2>1, CopyFacts
    <3>2. \A c \in AllCells :
             Holds(m1, c) /\ (c.addr + c.width <= d \/ d + la <= c.addr) => Holds(q, c)
      BY <1>7, <1>9, <2>1, CopyFacts
    <3>3. \A k \in 1 .. la : q[d + (k - 1)] = m1[s + (k - 1)]
      BY <1>7, <1>9, <2>1, CopyFacts
    <3>4. QED BY <2>2, <3>1, <3>2, <3>3
  <2>4. QED BY <2>3 DEF d, s
<1> HIDE DEF m2
<1>13. /\ m3 \in Memory
       /\ \A c \in AllCells :
             /\ Holds(m2, c)
             /\ c.addr + c.width <= h + 16 + la \/ h + 16 + la + lb <= c.addr
             => Holds(m3, c)
       /\ \A k \in 1 .. lb : m3[h + 16 + la + (k - 1)] = m2[b + 8 + (k - 1)]
  <2> DEFINE d == h + 16 + la
             s == b + 8
  <2>1. d \in Nat /\ s \in Nat /\ d + lb <= MemSize /\ s + lb <= MemSize
    BY <1>11
  <2>2. m3 = Copy(m2, d, s, lb)
    OBVIOUS
  <2> HIDE DEF d, s, m3
  <2>3. /\ m3 \in Memory
        /\ \A c \in AllCells :
              Holds(m2, c) /\ (c.addr + c.width <= d \/ d + lb <= c.addr) => Holds(m3, c)
        /\ \A k \in 1 .. lb : m3[d + (k - 1)] = m2[s + (k - 1)]
    <3> DEFINE q == Copy(m2, d, s, lb)
    <3>1. q \in Memory
      BY <1>7, <1>12, <2>1, CopyFacts
    <3>2. \A c \in AllCells :
             Holds(m2, c) /\ (c.addr + c.width <= d \/ d + lb <= c.addr) => Holds(q, c)
      BY <1>7, <1>12, <2>1, CopyFacts
    <3>3. \A k \in 1 .. lb : q[d + (k - 1)] = m2[s + (k - 1)]
      BY <1>7, <1>12, <2>1, CopyFacts
    <3>4. QED BY <2>2, <3>1, <3>2, <3>3
  <2>4. QED BY <2>3 DEF d, s
<1> HIDE DEF m3
<1>14. \A c \in AllCells : Holds(m1, c) /\ (c.addr + c.width <= h + 16 \/ h + 16 + n <= c.addr) =>
          Holds(m3, c)
  <2> TAKE c \in AllCells
  <2> HAVE Holds(m1, c) /\ (c.addr + c.width <= h + 16 \/ h + 16 + n <= c.addr)
  <2>1. c.addr \in Nat /\ c.width \in Nat
    BY DEF AllCells
  <2>2. c.addr + c.width <= h + 16 \/ h + 16 + la <= c.addr
    BY <1>5, <1>7, <2>1
  <2>3. c.addr + c.width <= h + 16 + la \/ h + 16 + la + lb <= c.addr
    BY <1>5, <1>7, <1>11, <2>1
  <2>4. QED BY <1>12, <1>13, <2>2, <2>3
<1>15. ASSUME NEW k \in 1 .. la
       PROVE  Holds(m3, Cell(h + 16 + (k - 1), 1, da[k]))
  <2> DEFINE s == a + 8 + (k - 1)
             d == h + 16 + (k - 1)
  <2>1. Cell(s, 1, da[k]) \in AllCells /\ Holds(mem, Cell(s, 1, da[k]))
        /\ Cell(s, 1, da[k]).addr + Cell(s, 1, da[k]).width <= h
    <3>1. /\ Cell(s, 1, da[k]) \in AllCells /\ Holds(mem, Cell(s, 1, da[k]))
          /\ Cell(s, 1, da[k]).addr + Cell(s, 1, da[k]).width <= top
      BY <1>2
    <3>2. Cell(s, 1, da[k]).addr \in Nat /\ Cell(s, 1, da[k]).width \in Nat
      BY <3>1 DEF AllCells
    <3> HIDE DEF s
    <3>3. QED BY <1>5, <3>1, <3>2
  <2>2. s \in Nat /\ d \in Nat /\ d < MemSize /\ d + 1 <= h + 16 + la
    BY <1>2, <1>5, <1>7, <1>11
  <2>3. da[k] \in Nat
    BY <1>2
  <2>4. m2[d] = m1[s]
    BY <1>12
  <2> HIDE DEF s, d
  <2>5. Holds(m1, Cell(s, 1, da[k]))
    BY <1>9, <2>1
  <2>6. m1[s] = da[k] /\ da[k] \in Byte
    BY <1>9, <2>2, <2>3, <2>5, ByteCell
  <2>7. Holds(m2, Cell(d, 1, da[k]))
    BY <1>12, <2>2, <2>3, <2>4, <2>6, ByteCell
  <2>8. Cell(d, 1, da[k]) \in AllCells /\ Cell(d, 1, da[k]).addr = d /\ Cell(d, 1, da[k]).width = 1
    BY <2>2, <2>3 DEF Cell, AllCells
  <2>9. Holds(m3, Cell(d, 1, da[k]))
    BY <1>13, <2>2, <2>7, <2>8
  <2>10. QED BY <2>9 DEF d
<1>16. ASSUME NEW k \in 1 .. lb
       PROVE  Holds(m3, Cell(h + 16 + la + (k - 1), 1, db[k]))
  <2> DEFINE s == b + 8 + (k - 1)
             d == h + 16 + la + (k - 1)
  <2>1. Cell(s, 1, db[k]) \in AllCells /\ Holds(mem, Cell(s, 1, db[k]))
        /\ Cell(s, 1, db[k]).addr + Cell(s, 1, db[k]).width <= h
    <3>1. /\ Cell(s, 1, db[k]) \in AllCells /\ Holds(mem, Cell(s, 1, db[k]))
          /\ Cell(s, 1, db[k]).addr + Cell(s, 1, db[k]).width <= top
      BY <1>3
    <3>2. Cell(s, 1, db[k]).addr \in Nat /\ Cell(s, 1, db[k]).width \in Nat
      BY <3>1 DEF AllCells
    <3> HIDE DEF s
    <3>3. QED BY <1>5, <3>1, <3>2
  <2>2. s \in Nat /\ d \in Nat /\ d < MemSize
    BY <1>3, <1>5, <1>7, <1>11
  <2>3. db[k] \in Nat
    BY <1>3
  <2>4. m3[d] = m2[s]
    BY <1>13
  <2> HIDE DEF s, d
  <2>5. Holds(m1, Cell(s, 1, db[k]))
    BY <1>9, <2>1
  <2>6. Cell(s, 1, db[k]).addr + Cell(s, 1, db[k]).width <= h + 16
    <3>1. Cell(s, 1, db[k]).addr = s /\ Cell(s, 1, db[k]).width = 1
      BY DEF Cell
    <3>2. QED BY <1>5, <2>1, <2>2, <3>1
  <2>7. Holds(m2, Cell(s, 1, db[k]))
    BY <1>12, <2>1, <2>5, <2>6
  <2>8. m2[s] = db[k] /\ db[k] \in Byte
    BY <1>12, <2>2, <2>3, <2>7, ByteCell
  <2>9. Holds(m3, Cell(d, 1, db[k]))
    BY <1>13, <2>2, <2>3, <2>4, <2>8, ByteCell
  <2>10. QED BY <2>9 DEF d
<1>17. /\ da \o db \in Seq(Nat) /\ Len(da \o db) = n
       /\ \A k \in 1 .. n : (da \o db)[k] = IF k <= la THEN da[k] ELSE db[k - la]
  BY <1>2, <1>3, <1>7
<1>18. ASSUME NEW k \in 1 .. n
       PROVE  Holds(m3, Cell(h + 16 + (k - 1), 1, (da \o db)[k]))
  <2>1. CASE k <= la
    <3>1. k \in 1 .. la /\ (da \o db)[k] = da[k]
      BY <1>7, <1>17, <2>1
    <3>2. QED BY <1>15, <3>1
  <2>2. CASE ~(k <= la)
    <3>1. k - la \in 1 .. lb /\ (da \o db)[k] = db[k - la]
      BY <1>7, <1>17, <2>2
    <3>2. h + 16 + la + ((k - la) - 1) = h + 16 + (k - 1)
      BY <1>5, <1>7
    <3>3. Holds(m3, Cell(h + 16 + la + ((k - la) - 1), 1, db[k - la]))
      BY <1>16, <3>1
    <3>4. QED BY <3>1, <3>2, <3>3
  <2>3. QED BY <2>1, <2>2
<1> DEFINE text == da \o db
<1>19. text \in Seq(Nat) /\ Len(text) = n
       /\ Allocate(StringTotal(n), "String", 8, Cells(n, 8, 1), StringTag, text)
       /\ \A k \in 1 .. n : Holds(m3, Cell(h + 16 + (k - 1), 1, text[k]))
  BY <1>4, <1>17, <1>18
<1> HIDE DEF text
<1>20. QED BY <1>6, <1>7, <1>13, <1>14, <1>19, NewString DEF h, m1

-----------------------------------------------------------------------------
(* Arrays and other legacy objects                                         *)

\* Two cells of a header, one behind the other with a gap of some bytes, on top
\* of what is below them.
LEMMA HeaderFacts ==
    ASSUME NEW m \in Memory, NEW h \in Nat, NEW a \in Nat, NEW w \in Nat, NEW u \in Nat,
           NEW v \in Nat, h + w <= a, a + w <= MemSize, Fits(u, w), Fits(v, w)
    PROVE  /\ Put(Put(m, h, w, u), a, w, v) \in Memory
           /\ Holds(Put(Put(m, h, w, u), a, w, v), Cell(h, w, u))
           /\ Holds(Put(Put(m, h, w, u), a, w, v), Cell(a, w, v))
           /\ \A c \in AllCells : Holds(m, c) /\ c.addr + c.width <= h =>
                 Holds(Put(Put(m, h, w, u), a, w, v), c)
<1> DEFINE m1 == Put(m, h, w, u)
           m2 == Put(m1, a, w, v)
<1>0. MemSize \in Nat /\ h + w <= MemSize
  BY SizesAssumption
<1>1. /\ m1 \in Memory /\ Holds(m1, Cell(h, w, u))
      /\ \A c \in AllCells : Holds(m, c) /\ Apart(c, Cell(h, w, u)) => Holds(m1, c)
  BY <1>0, PutFacts
<1> HIDE DEF m1
<1>2. /\ m2 \in Memory /\ Holds(m2, Cell(a, w, v))
      /\ \A c \in AllCells : Holds(m1, c) /\ Apart(c, Cell(a, w, v)) => Holds(m2, c)
  BY <1>1, PutFacts
<1> HIDE DEF m2
<1>3. Cell(h, w, u) \in AllCells /\ Apart(Cell(h, w, u), Cell(a, w, v))
  BY DEF Cell, AllCells, Apart
<1>4. Holds(m2, Cell(h, w, u))
  BY <1>1, <1>2, <1>3
<1>5. \A c \in AllCells : Holds(m, c) /\ c.addr + c.width <= h => Holds(m2, c)
  <2> TAKE c \in AllCells
  <2> HAVE Holds(m, c) /\ c.addr + c.width <= h
  <2>1. Apart(c, Cell(h, w, u)) /\ Apart(c, Cell(a, w, v))
    BY DEF Apart, Cell, AllCells
  <2>2. QED BY <1>1, <1>2, <2>1
<1>6. QED BY <1>2, <1>4, <1>5 DEF m1, m2

LEMMA LegacyHeaderFacts ==
    ASSUME IInv, NEW tag \in Nat, NEW n \in Nat, Fits(tag, 4), Fits(n, 4), Here + 12 <= MemSize
    PROVE  /\ Header(tag, n) \in Memory
           /\ Holds(Header(tag, n), Cell(Here, 4, tag))
           /\ Holds(Header(tag, n), Cell(Here + 8, 4, n))
           /\ \A c \in AllCells : Holds(mem, c) /\ c.addr + c.width <= Here =>
                 Holds(Header(tag, n), c)
<1> DEFINE h == Here
           m1 == Put(mem, h, 4, tag)
           m2 == Put(m1, h + 4, 4, 0)
           m3 == Put(m2, h + 8, 4, n)
<1>0. h \in Nat /\ mem \in Memory /\ MemSize \in Nat
  BY HereFacts
<1>1. Header(tag, n) = m3 /\ h + 12 <= MemSize
  BY DEF Header
<1> HIDE DEF h
<1>2. h + 4 + 4 <= MemSize /\ h + 4 \in Nat /\ h + 8 \in Nat /\ h + 8 + 4 <= MemSize
      /\ h + 4 <= h + 4 /\ Fits(0, 4)
  BY <1>0, <1>1, ShiftedZero
<1>3. /\ m2 \in Memory /\ Holds(m2, Cell(h, 4, tag))
      /\ \A c \in AllCells : Holds(mem, c) /\ c.addr + c.width <= h => Holds(m2, c)
  BY <1>0, <1>2, HeaderFacts, SMTT(30)
<1> HIDE DEF m2
<1>4. /\ m3 \in Memory /\ Holds(m3, Cell(h + 8, 4, n))
      /\ \A c \in AllCells : Holds(m2, c) /\ Apart(c, Cell(h + 8, 4, n)) => Holds(m3, c)
  BY <1>2, <1>3, PutFacts, ZenonT(60)
<1> HIDE DEF m3
<1>5. Cell(h, 4, tag) \in AllCells /\ Apart(Cell(h, 4, tag), Cell(h + 8, 4, n))
  BY <1>0 DEF Cell, AllCells, Apart
<1>6. \A c \in AllCells : Holds(mem, c) /\ c.addr + c.width <= h => Holds(m3, c)
  <2> TAKE c \in AllCells
  <2> HAVE Holds(mem, c) /\ c.addr + c.width <= h
  <2>1. Apart(c, Cell(h + 8, 4, n))
    BY <1>0 DEF Apart, Cell, AllCells
  <2>2. QED BY <1>3, <1>4, <2>1
<1>7. QED BY <1>1, <1>3, <1>4, <1>5, <1>6 DEF h

\* q is m with data as the n elements from p on.
Filled(q, m, p, n, size, data) ==
    /\ q \in Memory
    /\ \A k \in 1 .. n : Holds(q, Cell(p + (k - 1) * size, size, data[k]))
    /\ \A c \in AllCells : Holds(m, c) /\ c.addr + c.width <= p => Holds(q, c)

\* Elements that are set one by one to the same number.
LEMMA FillElements ==
    ASSUME NEW m \in Memory, NEW p \in Nat, NEW n \in Nat, NEW size \in Nat, NEW v \in Nat,
           Fits(v, size), p + n * size <= MemSize
    PROVE  Filled(Fill(m, p, Cells(n, 0, size), [k \in 1 .. n |-> v]), m, p, n, size,
                  [k \in 1 .. n |-> v])
<1> DEFINE f == Cells(n, 0, size)
           vs == [k \in 1 .. n |-> v]
           q == Fill(m, p, f, vs)
<1>1. f \in Fields /\ Len(f) = n /\ DOMAIN f = 1 .. n
  BY CellsFacts
<1>2. \A k \in 1 .. n : f[k].off = 0 + (k - 1) * size /\ f[k].width = size /\ f[k].reg = size
  BY DEF Cells
<1>3. vs \in Seq(Nat) /\ Len(vs) = n /\ DOMAIN vs = 1 .. n /\ \A k \in 1 .. n : vs[k] = v
  OBVIOUS
<1> HIDE DEF f, vs
<1>4. ASSUME NEW k \in 1 .. n
      PROVE  /\ (k - 1) * size \in Nat /\ (k - 1) * size + size <= n * size /\ n * size \in Nat
             /\ f[k].off = (k - 1) * size
  <2>1. k - 1 \in Nat /\ k - 1 < n
    OBVIOUS
  <2>2. (k - 1) * size \in Nat /\ (k - 1) * size + size <= n * size /\ n * size \in Nat
    BY <2>1, Times
  <2>3. QED BY <1>2, <2>2
<1>5. \A k \in DOMAIN f : f[k].reg = f[k].width /\ p + f[k].off + f[k].width <= MemSize
  <2> SUFFICES ASSUME NEW k \in 1 .. n
               PROVE  f[k].reg = f[k].width /\ p + f[k].off + f[k].width <= MemSize
    BY <1>1
  <2> DEFINE s == (k - 1) * size
             e == n * size
  <2>1. s \in Nat /\ s + size <= e /\ e \in Nat /\ f[k].off = s /\ p + e <= MemSize
        /\ f[k].width = size /\ f[k].reg = size /\ MemSize \in Nat
    BY <1>2, <1>4, SizesAssumption
  <2> HIDE DEF s, e
  <2>2. p + s + size <= MemSize
    BY <2>1
  <2>3. QED BY <2>1, <2>2
<1>6. \A k \in DOMAIN vs : Fits(vs[k], f[k].width)
  BY <1>2, <1>3
<1>7. \A k, l \in DOMAIN f : k # l =>
         Apart(Cell(p + f[k].off, f[k].width, 0), Cell(p + f[l].off, f[l].width, 0))
  <2>1. ASSUME NEW k \in 1 .. n, NEW l \in 1 .. n, k < l
        PROVE  /\ Apart(Cell(p + f[k].off, f[k].width, 0), Cell(p + f[l].off, f[l].width, 0))
               /\ Apart(Cell(p + f[l].off, f[l].width, 0), Cell(p + f[k].off, f[k].width, 0))
    <3> DEFINE s == (k - 1) * size
               t == (l - 1) * size
    <3>1. k - 1 \in Nat /\ l - 1 \in Nat /\ k - 1 < l - 1
      BY <2>1
    <3>2. s \in Nat /\ t \in Nat /\ s + size <= t
      BY <3>1, Times
    <3>3. f[k].off = s /\ f[l].off = t /\ f[k].width = size /\ f[l].width = size
      BY <1>2, <1>4
    <3> HIDE DEF s, t
    <3>4. p + s + size <= p + t
      BY <3>2
    <3>5. QED BY <3>3, <3>4 DEF Apart, Cell
  <2>2. \A k, l \in 1 .. n : k # l => k < l \/ l < k
    OBVIOUS
  <2>3. QED BY <1>1, <2>1, <2>2
<1>8. Len(vs) <= Len(f)
  BY <1>1, <1>3
<1>9. /\ q \in Memory
      /\ \A k \in 1 .. Len(vs) : Holds(q, Cell(p + f[k].off, f[k].width, vs[k]))
      /\ \A c \in AllCells :
            /\ Holds(m, c)
            /\ \A k \in 1 .. Len(vs) : Apart(c, Cell(p + f[k].off, f[k].width, 0))
            => Holds(q, c)
  BY <1>1, <1>3, <1>5, <1>6, <1>7, <1>8, FillFacts
<1> HIDE DEF q
<1>10. \A k \in 1 .. n : Holds(q, Cell(p + (k - 1) * size, size, vs[k]))
  BY <1>2, <1>3, <1>4, <1>9
<1>11. \A c \in AllCells : Holds(m, c) /\ c.addr + c.width <= p => Holds(q, c)
  <2> TAKE c \in AllCells
  <2> HAVE Holds(m, c) /\ c.addr + c.width <= p
  <2>1. ASSUME NEW k \in 1 .. n
        PROVE  Apart(c, Cell(p + f[k].off, f[k].width, 0))
    <3> DEFINE s == (k - 1) * size
    <3>1. s \in Nat /\ f[k].off = s /\ c.addr \in Nat /\ c.width \in Nat
      BY <1>4 DEF AllCells
    <3> HIDE DEF s
    <3>2. c.addr + c.width <= p + s
      BY <3>1
    <3>3. QED BY <3>1, <3>2 DEF Apart, Cell
  <2>2. QED BY <1>3, <1>9, <2>1
<1>12. QED BY <1>9, <1>10, <1>11 DEF Filled, q, f, vs

\* The cells of an object with elements of one size.
LEMMA ElementHolds ==
    ASSUME NEW at \in Nat, NEW n \in Nat, NEW size \in Nat, NEW o, NEW p, NEW q,
           o.at = at, o.fields = Cells(n, 0, size), NEW k \in 1 .. n,
           Holds(q, Cell(at + (k - 1) * size, size, p.data[k]))
    PROVE  Holds(q, FieldCell(o, p, k))
<1>1. o.fields[k].off = (k - 1) * size /\ o.fields[k].width = size
  <2>1. o.fields[k].off = 0 + (k - 1) * size /\ o.fields[k].width = size
    BY DEF Cells
  <2>2. k - 1 \in Nat
    OBVIOUS
  <2>3. (k - 1) * size \in Nat
    BY <2>2
  <2>4. QED BY <2>1, <2>3
<1>2. QED BY <1>1, Zenon DEF FieldCell

\* A legacy object is made right when its elements are.
LEMMA NewLegacy ==
    ASSUME IInv, NEW n \in Nat, NEW size \in Nat, NEW tag \in Nat, NEW total \in Nat,
           NEW data \in Seq(Nat), Len(data) = n, Fits(tag, 4), Fits(n, 4),
           12 + n * size <= total,
           Allocate(total, "Legacy", 12, Cells(n, 0, size), tag, data),
           mem' \in Memory,
           \A c \in AllCells : Holds(Header(tag, n), c) /\ c.addr + c.width <= Here + 12 =>
              Holds(mem', c),
           \A k \in 1 .. n : Holds(mem', Cell(Here + 12 + (k - 1) * size, size, data[k]))
    PROVE  IInv'
<1> DEFINE h == Here
           o == NewObject("Legacy", 12, Cells(n, 0, size))
           p == NewPromise(tag, data)
<1>1. h \in Nat /\ Here + total <= MemSize /\ MemSize \in Nat
  BY HereFacts DEF Allocate
<1>2. o.layout = "Legacy" /\ o.at = h + 12 /\ o.fields = Cells(n, 0, size)
      /\ p.type = tag /\ p.data = data
  BY DEF NewObject, NewPromise
<1>3. Typed(o, p)
  <2>1. Cells(n, 0, size) \in Fields /\ "Legacy" \in Layouts /\ 12 \in Nat
    BY CellsFacts DEF Layouts
  <2>2. QED BY <1>1, <2>1, NewTyped
<1>s. n * size \in Nat
  OBVIOUS
<1>4. /\ Header(tag, n) \in Memory
      /\ \A c \in AllCells : Holds(mem, c) /\ c.addr + c.width <= h => Holds(Header(tag, n), c)
      /\ Holds(Header(tag, n), Cell(h, 4, tag)) /\ Holds(Header(tag, n), Cell(h + 8, 4, n))
  <2>1. Here + 12 <= MemSize
    BY <1>1, <1>s
  <2>2. QED BY <2>1, LegacyHeaderFacts
<1>k. \A c \in AllCells : Holds(Header(tag, n), c) /\ c.addr + c.width <= h + 12 =>
         Holds(mem', c)
  OBVIOUS
<1>d. \A k \in 1 .. n : Holds(mem', Cell(h + 12 + (k - 1) * size, size, data[k]))
  OBVIOUS
<1>e. h + total \in Nat /\ h + 12 + n * size <= h + total /\ h + 12 \in Nat
  BY <1>1, <1>s
<1> HIDE DEF h, o, p
<1>5. Shape(o, p) /\ Within(o, p, h, h + total)
  <2>1. Len(p.data) = n
    BY <1>2
  <2> DEFINE hi == h + total
  <2>2. hi \in Nat /\ h + 12 + n * size <= hi
    BY <1>e
  <2> HIDE DEF hi
  <2>3. Shape(o, p) /\ Within(o, p, h, hi)
    BY <1>1, <1>2, <1>3, <2>1, <2>2, LegacyShape
  <2>4. QED BY <2>3 DEF hi
<1>6. Fixed(o, p) = {Cell(h, 4, tag), Cell(h + 8, 4, n)}
  <2>1. o.at - 12 = h /\ o.at - 4 = h + 8 /\ Len(p.data) = n
    BY <1>1, <1>2
  <2>2. Fixed(o, p) = {Cell(o.at - 12, 4, p.type), Cell(o.at - 4, 4, Len(p.data))}
    BY <1>2 DEF Fixed
  <2>3. QED BY <1>2, <2>1, <2>2
<1>7. \A c \in AllCells : Holds(mem, c) /\ c.addr + c.width <= h => Holds(mem', c)
  <2> TAKE c \in AllCells
  <2> HAVE Holds(mem, c) /\ c.addr + c.width <= h
  <2>1. c.addr + c.width \in Nat
    BY DEF AllCells
  <2>2. c.addr + c.width <= h + 12
    BY <1>1, <2>1
  <2>3. Holds(Header(tag, n), c)
    BY <1>4
  <2>4. QED BY <1>k, <2>2, <2>3
<1>8. \A c \in CellsOf(o, p) : Holds(mem', c)
  <2>1. ASSUME NEW k \in DOMAIN o.fields
        PROVE  Holds(mem', FieldCell(o, p, k))
    <3>1. k \in 1 .. n
      BY <1>2 DEF Cells
    <3> DEFINE at == h + 12
    <3>2. at \in Nat /\ o.at = at
      BY <1>2, <1>e
    <3>3. Holds(mem', Cell(at + (k - 1) * size, size, p.data[k]))
      BY <1>2, <1>d, <3>1
    <3> HIDE DEF at
    <3>4. QED BY <1>2, <3>1, <3>2, <3>3, ElementHolds
  <2>2. ASSUME NEW c \in Fixed(o, p)
        PROVE  Holds(mem', c)
    <3>1. c \in AllCells
      BY <1>5 DEF Shape, CellsOf
    <3>2. Holds(Header(tag, n), c)
      BY <1>4, <1>6
    <3>3. c.addr + c.width <= h + 12
      BY <1>1, <1>6 DEF Cell
    <3>4. QED BY <1>k, <3>1, <3>2, <3>3
  <2>3. QED BY <2>1, <2>2 DEF CellsOf
<1>9. QED
  BY <1>5, <1>7, <1>8, AllocInv DEF h, o, p

LEMMA AllocArrayInv ==
    ASSUME IInv, NEW tag \in LegacyTags, NEW n \in 0 .. MaxLength, NEW v \in Values,
           Fits(v, ElemSize), AllocArray(tag, n, v)
    PROVE  IInv'
<1> DEFINE h == Here
           a == h + 12
           data == [k \in 1 .. n |-> v]
           total == 12 + n * ElemSize
           m == Header(tag, n)
<1>1. /\ n \in Nat /\ v \in Nat /\ tag \in Nat /\ ElemSize \in Nat /\ MemSize \in Nat
      /\ Fits(tag, 4) /\ h \in Nat
  BY HereFacts, SizesAssumption, TagsAssumption, DataAssumption
<1>2. Fits(n, 4)
  <2>1. n <= MaxLength /\ MaxLength \in Nat /\ Fits(MaxLength, 4)
    BY SizesAssumption
  <2>2. QED BY <1>1, <2>1, FitsMono
<1>3. /\ Allocate(total, "Legacy", 12, Cells(n, 0, ElemSize), tag, data)
      /\ mem' = Fill(m, a, Cells(n, 0, ElemSize), data)
  BY DEF AllocArray, HEADER_SIZE
<1>4. n * ElemSize \in Nat /\ total \in Nat
  BY <1>1
<1>5. h + total <= MemSize
  BY <1>3 DEF Allocate
<1>6. a \in Nat /\ a + n * ElemSize <= MemSize /\ Here + 12 <= MemSize
  BY <1>1, <1>4, <1>5
<1>7. m \in Memory
  BY <1>1, <1>2, <1>6, LegacyHeaderFacts
<1>d. data = [k \in 1 .. n |-> v]
  OBVIOUS
<1>9. data \in Seq(Nat) /\ Len(data) = n
  BY <1>1
<1> HIDE DEF a, m, data
<1>8. /\ mem' \in Memory
      /\ \A k \in 1 .. n : Holds(mem', Cell(a + (k - 1) * ElemSize, ElemSize, data[k]))
      /\ \A c \in AllCells : Holds(m, c) /\ c.addr + c.width <= a => Holds(mem', c)
  <2> DEFINE q == mem'
  <2>1. q = Fill(m, a, Cells(n, 0, ElemSize), data)
    BY <1>3
  <2> HIDE DEF q
  <2>2. Filled(q, m, a, n, ElemSize, data)
    <3>1. Filled(Fill(m, a, Cells(n, 0, ElemSize), [k \in 1 .. n |-> v]), m, a, n, ElemSize,
                 [k \in 1 .. n |-> v])
      BY <1>1, <1>6, <1>7, FillElements, ZenonT(150)
    <3>2. QED BY <1>d, <2>1, <3>1
  <2>3. QED BY <2>2 DEF q, Filled
<1>10. \A k \in 1 .. n : Holds(mem', Cell(Here + 12 + (k - 1) * ElemSize, ElemSize, data[k]))
  BY <1>8 DEF a
<1>11. \A c \in AllCells : Holds(Header(tag, n), c) /\ c.addr + c.width <= Here + 12 =>
          Holds(mem', c)
  BY <1>8 DEF a, m
<1>12. 12 + n * ElemSize <= total
  BY <1>4
<1> HIDE DEF total
<1>13. QED
  BY <1>1, <1>2, <1>3, <1>4, <1>8, <1>9, <1>10, <1>11, <1>12, NewLegacy

LEMMA GcAllocInv ==
    ASSUME IInv, NEW tag \in LegacyTags, NEW size \in 0 .. MaxLength, GcAlloc(tag, size)
    PROVE  IInv'
<1>1. size \in Nat /\ tag \in Nat /\ Fits(tag, 4) /\ Fits(0, 4) /\ MemSize \in Nat /\ Here \in Nat
  BY HereFacts, SizesAssumption, TagsAssumption, ShiftedZero
<1>2. Cells(0, 0, 0) = <<>>
  BY DEF Cells
<1>3. /\ Allocate(12 + size, "Legacy", 12, Cells(0, 0, 0), tag, <<>>) /\ mem' = Header(tag, 0)
  BY <1>2 DEF GcAlloc, HEADER_SIZE
<1>4. Here + 12 <= MemSize
  BY <1>1, <1>3 DEF Allocate
<1>5. mem' \in Memory
  BY <1>1, <1>3, <1>4, LegacyHeaderFacts
<1>6. <<>> \in Seq(Nat) /\ Len(<<>>) = 0 /\ 12 + 0 * 0 <= 12 + size /\ 12 + size \in Nat
  BY <1>1
<1>7. \A k \in 1 .. 0 : Holds(mem', Cell(Here + 12 + (k - 1) * 0, 0, <<>>[k]))
  OBVIOUS
<1>8. QED BY <1>1, <1>3, <1>5, <1>6, <1>7, NewLegacy

LEMMA StringNewInv ==
    ASSUME IInv, NEW text \in Seq(Byte), Fits(Len(text), 4), StringNew(text)
    PROVE  IInv'
<1> DEFINE n == Len(text)
           a == Here + 12
           m == Header(STRING_TYPE_TAG, n)
<1>1. text \in Seq(Nat) /\ n \in Nat /\ Here \in Nat /\ MemSize \in Nat
  BY BytesAreNumbers, HereFacts
<1>2. 1 \in Nat /\ Fits(1, 4)
  <2>1. 1 \in Byte
    BY BytesAssumption DEF Byte
  <2>2. Fits(1, 1)
    BY <2>1, ByteFacts
  <2>3. Fits(1, 1 + 3)
    BY <2>2, FitsMore
  <2>4. QED BY <2>3
<1>3. /\ Allocate(12 + n, "Legacy", 12, Cells(n, 0, 1), 1, text)
      /\ mem' = PutBytes(m, a, n, text) /\ m = Header(1, n)
  BY DEF StringNew, HEADER_SIZE, STRING_TYPE_TAG
<1>4. a \in Nat /\ a + n <= MemSize /\ Here + 12 <= MemSize
  BY <1>1, <1>3 DEF Allocate
<1>5. m \in Memory
  BY <1>1, <1>2, <1>3, <1>4, LegacyHeaderFacts
<1>6. n = Len(text)
  OBVIOUS
<1>f. Fits(n, 4)
  OBVIOUS
<1> HIDE DEF a, m, n
<1>7. /\ mem' \in Memory
      /\ \A c \in AllCells :
            Holds(m, c) /\ (c.addr + c.width <= a \/ a + n <= c.addr) => Holds(mem', c)
      /\ \A k \in 1 .. n : Holds(mem', Cell(a + (k - 1), 1, text[k]))
  BY <1>1, <1>3, <1>4, <1>5, <1>6, PutBytesFacts
<1>8. \A c \in AllCells : Holds(Header(1, n), c) /\ c.addr + c.width <= Here + 12 =>
         Holds(mem', c)
  BY <1>3, <1>7 DEF a
<1>9. \A k \in 1 .. n : Holds(mem', Cell(Here + 12 + (k - 1) * 1, 1, text[k]))
  <2> TAKE k \in 1 .. n
  <2>1. (k - 1) * 1 = k - 1
    BY <1>1
  <2>2. QED BY <1>7, <2>1 DEF a
<1>10. 12 + n * 1 <= 12 + n /\ 12 + n \in Nat
  BY <1>1
<1>11. QED BY <1>1, <1>2, <1>3, <1>6, <1>f, <1>7, <1>8, <1>9, <1>10, NewLegacy

LEMMA StringFromCstrInv ==
    ASSUME IInv, NEW text \in CTexts, StringFromCstr(text)
    PROVE  IInv'
<1>1. text \in Seq(Byte) /\ Fits(Len(text), 4)
  BY DataAssumption
<1>2. PICK n \in 0 .. Len(text) : StringNew(SubSeq(text, 1, n))
  BY DEF StringFromCstr
<1>3. SubSeq(text, 1, n) \in Seq(Byte) /\ Len(SubSeq(text, 1, n)) = n
  BY <1>1
<1>4. Fits(n, 4)
  <2>1. n \in Nat /\ n <= Len(text) /\ Len(text) \in Nat
    BY <1>1
  <2>2. QED BY <1>1, <2>1, FitsMono
<1> DEFINE t == SubSeq(text, 1, n)
<1>5. t \in Seq(Byte) /\ Fits(Len(t), 4) /\ StringNew(t)
  BY <1>2, <1>3, <1>4
<1> HIDE DEF t
<1>6. QED BY <1>5, StringNewInv

LEMMA AllocArrayJuliaInv ==
    ASSUME IInv, NEW n \in 0 .. MaxLength, NEW v \in Values, Fits(v, ElemSize),
           AllocArrayJulia(n, v)
    PROVE  IInv'
<1> DEFINE h == Here
           a == h + 16
           data == [k \in 1 .. n |-> v]
           total == 16 + n * ElemSize
           m == Put(Put(mem, h, 8, MemoryTag), h + 8, 8, n)
           o == NewObject("Memory", 16, Cells(n, 0, ElemSize))
           p == NewPromise(MemoryTag, data)
<1>1. /\ n \in Nat /\ v \in Nat /\ MemoryTag \in Nat /\ ElemSize \in Nat /\ MemSize \in Nat
      /\ Fits(MemoryTag, 8) /\ h \in Nat /\ mem \in Memory
  BY HereFacts, SizesAssumption, TagsAssumption, DataAssumption
<1>2. Fits(n, 8)
  <2>1. n <= MaxLength /\ MaxLength \in Nat /\ Fits(MaxLength, 4)
    BY SizesAssumption
  <2>2. Fits(n, 4)
    BY <1>1, <2>1, FitsMono
  <2>3. Fits(n, 4 + 4)
    BY <1>1, <2>2, FitsMore
  <2>4. QED BY <2>3
<1>3. n * ElemSize \in Nat /\ total \in Nat
  BY <1>1
<1>4. /\ Allocate(total, "Memory", 16, Cells(n, 0, ElemSize), MemoryTag, data)
      /\ mem' = Fill(m, a, Cells(n, 0, ElemSize), data)
  <2>1. JULIA_HEADER_SIZE + 8 + n * ElemSize = total
    BY <1>3 DEF JULIA_HEADER_SIZE
  <2>2. QED BY <2>1 DEF AllocArrayJulia
<1>5. h + total <= MemSize
  BY <1>4 DEF Allocate
<1>6. a \in Nat /\ a + n * ElemSize <= MemSize /\ h + 8 + 8 <= MemSize /\ h + 8 <= h + 8
      /\ h + 8 \in Nat /\ h + total \in Nat /\ h + 16 + n * ElemSize <= h + total
  BY <1>1, <1>3, <1>5
<1>7. /\ m \in Memory /\ Holds(m, Cell(h, 8, MemoryTag)) /\ Holds(m, Cell(h + 8, 8, n))
      /\ \A c \in AllCells : Holds(mem, c) /\ c.addr + c.width <= h => Holds(m, c)
  BY <1>1, <1>2, <1>6, HeaderFacts, SMTT(30)
<1>t. Typed(o, p)
  <2>1. Cells(n, 0, ElemSize) \in Fields /\ "Memory" \in Layouts /\ 16 \in Nat
    BY <1>1, CellsFacts DEF Layouts
  <2>2. data \in Seq(Nat)
    BY <1>1
  <2> HIDE DEF data
  <2>3. QED BY <1>1, <2>1, <2>2, NewTyped
<1>p. o.layout = "Memory" /\ o.at = a /\ o.fields = Cells(n, 0, ElemSize)
      /\ p.type = MemoryTag /\ p.data = data
  BY DEF NewObject, NewPromise
<1>9. data \in Seq(Nat) /\ Len(data) = n
  BY <1>1
<1>d. data = [k \in 1 .. n |-> v]
  OBVIOUS
<1>a. a = h + 16 /\ \A x \in Nat : x <= h => x <= a
  BY <1>1
<1> HIDE DEF h, a, m, o, p, total, data
<1>8. /\ mem' \in Memory
      /\ \A k \in 1 .. n : Holds(mem', Cell(a + (k - 1) * ElemSize, ElemSize, data[k]))
      /\ \A c \in AllCells : Holds(m, c) /\ c.addr + c.width <= a => Holds(mem', c)
  <2> DEFINE q == mem'
  <2>1. q = Fill(m, a, Cells(n, 0, ElemSize), data)
    BY <1>4
  <2> HIDE DEF q
  <2>2. Filled(q, m, a, n, ElemSize, data)
    <3>1. Filled(Fill(m, a, Cells(n, 0, ElemSize), [k \in 1 .. n |-> v]), m, a, n, ElemSize,
                 [k \in 1 .. n |-> v])
      <4>1. m \in Memory /\ a \in Nat /\ a + n * ElemSize <= MemSize
        BY <1>6, <1>7
      <4>2. n \in Nat /\ ElemSize \in Nat /\ v \in Nat
        BY <1>1
      <4>3. QED BY <4>1, <4>2, FillElements, ZenonT(60)
    <3>2. QED BY <1>d, <2>1, <3>1
  <2>3. QED BY <2>2 DEF q, Filled
<1>10. Shape(o, p) /\ Within(o, p, h, h + total)
  <2>1. Len(p.data) = n /\ o.at = h + 16
    BY <1>p, <1>9, <1>a
  <2> DEFINE hi == h + total
  <2>2. hi \in Nat /\ h + 16 + n * ElemSize <= hi
    BY <1>6
  <2> HIDE DEF hi
  <2>3. Shape(o, p) /\ Within(o, p, h, hi)
    BY <1>1, <1>p, <1>t, <2>1, <2>2, MemoryShape
  <2>4. QED BY <2>3 DEF hi
<1>11. Fixed(o, p) = {Cell(h, 8, MemoryTag), Cell(h + 8, 8, n)}
  <2>1. o.at - 16 = h /\ o.at - 8 = h + 8 /\ Len(p.data) = n
    BY <1>1, <1>a, <1>p, <1>9
  <2>2. Fixed(o, p) = {Cell(o.at - 16, 8, p.type), Cell(o.at - 8, 8, Len(p.data))}
    BY <1>p DEF Fixed
  <2>3. QED BY <1>p, <2>1, <2>2
<1>12. \A c \in AllCells : Holds(mem, c) /\ c.addr + c.width <= h => Holds(mem', c)
  <2> TAKE c \in AllCells
  <2> HAVE Holds(mem, c) /\ c.addr + c.width <= h
  <2>1. c.addr + c.width \in Nat
    BY DEF AllCells
  <2>2. c.addr + c.width <= a
    BY <1>a, <2>1
  <2>3. QED BY <1>7, <1>8, <2>2
<1>13. \A c \in CellsOf(o, p) : Holds(mem', c)
  <2>1. ASSUME NEW k \in DOMAIN o.fields
        PROVE  Holds(mem', FieldCell(o, p, k))
    <3>1. k \in 1 .. n
      BY <1>p DEF Cells
    <3>2. Holds(mem', Cell(a + (k - 1) * ElemSize, ElemSize, p.data[k]))
      BY <1>8, <1>p, <3>1
    <3>3. QED BY <1>1, <1>6, <1>p, <3>1, <3>2, ElementHolds
  <2>2. ASSUME NEW c \in Fixed(o, p)
        PROVE  Holds(mem', c)
    <3>1. c \in AllCells
      BY <1>10 DEF Shape, CellsOf
    <3>2. Holds(m, c)
      BY <1>7, <1>11
    <3>3. c.addr + c.width <= a
      BY <1>1, <1>a, <1>11 DEF Cell
    <3>4. QED BY <1>8, <3>1, <3>2, <3>3
  <2>3. QED BY <2>1, <2>2 DEF CellsOf
<1>14. total \in Nat
  BY <1>3 DEF total
<1>15. QED
  BY <1>4, <1>8, <1>10, <1>12, <1>13, <1>14, AllocInv DEF h, o, p

-----------------------------------------------------------------------------
(* Structs                                                                 *)

\* Every field has as many bytes as the register that is stored to it: what
\* emit_new and setfield! need of a struct type.
Sound == \A T \in Structs : \A k \in DOMAIN T.fields : T.fields[k].reg = T.fields[k].width

LEMMA StructFacts ==
    ASSUME Sound, NEW T \in Structs
    PROVE  /\ T.tag \in Nat /\ Fits(T.tag, 8) /\ T.size \in Nat /\ T.fields \in Fields
           /\ \A k \in DOMAIN T.fields :
                 /\ T.fields[k].reg = T.fields[k].width
                 /\ T.fields[k].off \in Nat /\ T.fields[k].width \in Nat
                 /\ T.fields[k].off + T.fields[k].width <= T.size
           /\ \A k, l \in DOMAIN T.fields : k # l =>
                 \/ T.fields[k].off + T.fields[k].width <= T.fields[l].off
                 \/ T.fields[l].off + T.fields[l].width <= T.fields[k].off
<1>1. T.tag \in Nat /\ Fits(T.tag, 8) /\ T.size \in Nat /\ T.fields \in Fields
  BY StructsAssumption DEF Fields
<1>2. \A k \in DOMAIN T.fields : T.fields[k].off \in Nat /\ T.fields[k].width \in Nat
  BY <1>1, FieldFacts
<1>3. \A k \in DOMAIN T.fields : T.fields[k].off + T.fields[k].width <= T.size
  BY StructsAssumption
<1>4. \A k, l \in DOMAIN T.fields :
         k < l => T.fields[k].off + T.fields[k].width <= T.fields[l].off
  BY StructsAssumption
<1>5. DOMAIN T.fields \subseteq Nat
  BY <1>1 DEF Fields
<1>6. \A k, l \in DOMAIN T.fields : k # l => k < l \/ l < k
  BY <1>5
<1>7. \A k \in DOMAIN T.fields : T.fields[k].reg = T.fields[k].width
  BY DEF Sound
<1>8. QED BY <1>1, <1>2, <1>3, <1>4, <1>6, <1>7

\* The object that emit_new makes: a header, zeros, then the values.
LEMMA NewStructInv ==
    ASSUME IInv, Sound, NEW T \in Structs, NEW values \in Seq(Nat),
           Len(values) <= Len(T.fields), NewStruct(T, values)
    PROVE  IInv'
<1> DEFINE h == Here
           a == h + 8
           F == T.fields
           size == T.size
           total == 8 + size
           data == [k \in DOMAIN F |-> IF k \in DOMAIN values THEN values[k] ELSE 0]
           m1 == Put(mem, h, 8, T.tag)
           m2 == ZeroFill(m1, a, size)
           q == Fill(m2, a, F, values)
           o == NewObject("Struct", 8, F)
           p == NewPromise(T.tag, data)
           C(k, u) == Cell(a + F[k].off, F[k].width, u)
<1>1. /\ T.tag \in Nat /\ Fits(T.tag, 8) /\ size \in Nat /\ F \in Fields
      /\ h \in Nat /\ mem \in Memory /\ MemSize \in Nat
  BY StructFacts, HereFacts
<1>2. \A k \in DOMAIN F : /\ F[k].reg = F[k].width
                          /\ F[k].off \in Nat /\ F[k].width \in Nat
                          /\ F[k].off + F[k].width <= size
  BY StructFacts
<1>3. \A k, l \in DOMAIN F : k # l =>
         F[k].off + F[k].width <= F[l].off \/ F[l].off + F[l].width <= F[k].off
  BY StructFacts
<1>4. /\ Allocate(total, "Struct", 8, F, T.tag, data)
      /\ mem' = q
      /\ \A k \in DOMAIN values : Fits(values[k], F[k].width)
  BY DEF NewStruct, JULIA_HEADER_SIZE
<1>5. DOMAIN F = 1 .. Len(F) /\ Len(F) \in Nat /\ DOMAIN values = 1 .. Len(values)
      /\ Len(values) \in Nat /\ Len(values) <= Len(F)
  BY <1>1 DEF Fields
<1>6. \A k \in DOMAIN F : data[k] = (IF k \in DOMAIN values THEN values[k] ELSE 0)
  OBVIOUS
<1>7. data \in Seq(Nat) /\ Len(data) = Len(F)
  <2>1. \A k \in 1 .. Len(F) : (IF k \in DOMAIN values THEN values[k] ELSE 0) \in Nat
    BY <1>5
  <2>2. data \in [1 .. Len(F) -> Nat]
    BY <1>5, <2>1
  <2> HIDE DEF data
  <2>3. QED BY <1>5, <2>2
<1>8. h + total <= MemSize
  BY <1>4 DEF Allocate
<1>9. a \in Nat /\ a + size <= MemSize /\ h + 8 <= MemSize /\ total \in Nat /\ h + total = a + size
      /\ h <= a /\ a - 8 = h
  BY <1>1, <1>8, SMTT(30)
<1>a. o.layout = "Struct" /\ o.at = a /\ o.fields = F /\ p.type = T.tag /\ p.data = data
  BY DEF NewObject, NewPromise
<1>b. Typed(o, p)
  <2>1. "Struct" \in Layouts /\ 8 \in Nat
    BY DEF Layouts
  <2> HIDE DEF data, F
  <2>2. QED BY <1>1, <1>7, <2>1, NewTyped
<1> HIDE DEF h, a, F, size, data, o, p
<1>10. /\ m1 \in Memory /\ Holds(m1, Cell(h, 8, T.tag))
       /\ \A c \in AllCells : Holds(mem, c) /\ Apart(c, Cell(h, 8, T.tag)) => Holds(m1, c)
  <2> DEFINE tag == T.tag
  <2>1. tag \in Nat /\ Fits(tag, 8) /\ 8 \in Nat /\ m1 = Put(mem, h, 8, tag)
    BY <1>1
  <2> HIDE DEF tag, m1
  <2>2. /\ Put(mem, h, 8, tag) \in Memory /\ Holds(Put(mem, h, 8, tag), Cell(h, 8, tag))
        /\ \A c \in AllCells : Holds(mem, c) /\ Apart(c, Cell(h, 8, tag)) =>
              Holds(Put(mem, h, 8, tag), c)
    BY <1>1, <1>9, <2>1, PutFacts
  <2>3. QED BY <2>1, <2>2 DEF tag
<1> HIDE DEF m1
<1>11. /\ m2 \in Memory
       /\ \A c \in AllCells : Holds(m1, c) /\ c.addr + c.width <= a => Holds(m2, c)
       /\ \A x, w \in Nat : a <= x /\ x + w <= a + size /\ x + w <= MemSize =>
             Holds(m2, Cell(x, w, 0))
  BY <1>1, <1>9, <1>10, ZeroFillFacts
<1> HIDE DEF m2
<1>c. \A k \in DOMAIN F : /\ a + F[k].off \in Nat /\ a <= a + F[k].off
                          /\ a + F[k].off + F[k].width <= MemSize
                          /\ a + F[k].off + F[k].width <= a + size
  BY <1>1, <1>2, <1>9, SMTT(30)
<1>d. \A k, l \in DOMAIN F : \A u, v : k # l => Apart(C(k, u), C(l, v))
  <2> TAKE k, l \in DOMAIN F
  <2> TAKE u, v
  <2> HAVE k # l
  <2> DEFINE x == F[k].off
             y == F[l].off
             w == F[k].width
             z == F[l].width
  <2>1. x \in Nat /\ y \in Nat /\ w \in Nat /\ z \in Nat /\ a \in Nat
    BY <1>2, <1>9
  <2>2. x + w <= y \/ y + z <= x
    BY <1>3
  <2> HIDE DEF x, y, w, z
  <2>3. a + x + w <= a + y \/ a + y + z <= a + x
    BY <2>1, <2>2
  <2>4. QED BY <2>3 DEF Apart, Cell, x, y, w, z
<1>12. /\ q \in Memory
       /\ \A k \in 1 .. Len(values) : Holds(q, Cell(a + F[k].off, F[k].width, values[k]))
       /\ \A c \in AllCells :
             /\ Holds(m2, c)
             /\ \A k \in 1 .. Len(values) : Apart(c, Cell(a + F[k].off, F[k].width, 0))
             => Holds(q, c)
  <2>1. \A k \in DOMAIN F : F[k].reg = F[k].width /\ a + F[k].off + F[k].width <= MemSize
    BY <1>2, <1>c
  <2>2. \A k, l \in DOMAIN F : k # l =>
           Apart(Cell(a + F[k].off, F[k].width, 0), Cell(a + F[l].off, F[l].width, 0))
    BY <1>d
  <2>3. QED BY <1>1, <1>4, <1>5, <1>9, <1>11, <2>1, <2>2, FillFacts
<1> HIDE DEF q
\* What is below the fields is kept.
<1>13. \A c \in AllCells : Holds(m1, c) /\ c.addr + c.width <= a => Holds(q, c)
  <2> TAKE c \in AllCells
  <2> HAVE Holds(m1, c) /\ c.addr + c.width <= a
  <2>1. c.addr \in Nat /\ c.width \in Nat
    BY DEF AllCells
  <2>2. ASSUME NEW k \in 1 .. Len(values)
        PROVE  Apart(c, Cell(a + F[k].off, F[k].width, 0))
    <3>1. k \in DOMAIN F
      BY <1>5
    <3>2. c.addr + c.width <= a + F[k].off
      BY <1>9, <1>c, <2>1, <3>1
    <3>3. QED BY <3>2 DEF Apart, Cell
  <2>3. Holds(m2, c)
    BY <1>11
  <2>4. QED BY <1>12, <2>2, <2>3
<1>14. \A k \in DOMAIN F : Holds(q, C(k, data[k]))
  <2> TAKE k \in DOMAIN F
  <2>1. CASE k \in DOMAIN values
    <3>1. k \in 1 .. Len(values) /\ data[k] = values[k]
      BY <1>5, <1>6, <2>1
    <3>2. QED BY <1>12, <3>1
  <2>2. CASE k \notin DOMAIN values
    <3>1. data[k] = 0
      BY <1>6, <2>2
    <3>2. Holds(m2, C(k, 0))
      <4> DEFINE x == a + F[k].off
                 w == F[k].width
      <4>1. x \in Nat /\ w \in Nat /\ a <= x /\ x + w <= a + size /\ x + w <= MemSize
        BY <1>2, <1>c
      <4> HIDE DEF x, w
      <4>2. Holds(m2, Cell(x, w, 0))
        BY <1>11, <4>1
      <4>3. QED BY <4>2 DEF x, w
    <3>3. C(k, 0) \in AllCells
      BY <1>2, <1>c DEF Cell, AllCells
    <3>4. \A l \in 1 .. Len(values) : Apart(C(k, 0), C(l, 0))
      BY <1>5, <1>d, <2>2, SMTT(30)
    <3>5. Holds(q, C(k, 0))
      BY <1>12, <3>2, <3>3, <3>4
    <3>6. QED BY <3>1, <3>5
  <2>3. QED BY <2>1, <2>2
<1>15. \A k \in DOMAIN F : FieldCell(o, p, k) = C(k, data[k])
  <2> TAKE k \in DOMAIN F
  <2>1. FieldCell(o, p, k) = Cell(o.at + o.fields[k].off, o.fields[k].width, p.data[k])
    BY DEF FieldCell
  <2>2. QED BY <1>a, <2>1, Zenon
<1>16. Fixed(o, p) = {Cell(h, 8, T.tag)}
  <2>1. Fixed(o, p) = {Cell(o.at - 8, 8, p.type)}
    BY <1>a DEF Fixed
  <2>2. QED BY <1>9, <1>a, <2>1
<1> DEFINE TagCell == Cell(h, 8, T.tag)
<1>e. TagCell.addr = h /\ TagCell.width = 8 /\ TagCell \in AllCells
  BY <1>1 DEF Cell, AllCells
<1>f. \A k \in DOMAIN F : C(k, data[k]).addr = a + F[k].off /\ C(k, data[k]).width = F[k].width
  BY DEF Cell
<1> HIDE DEF TagCell, C
<1>17. \A c \in CellsOf(o, p) : c = TagCell \/ \E k \in DOMAIN F : c = C(k, data[k])
  BY <1>15, <1>16, <1>a DEF CellsOf, TagCell
<1>18. Within(o, p, h, h + total)
  <2> SUFFICES ASSUME NEW c \in CellsOf(o, p)
               PROVE  h <= c.addr /\ c.addr + c.width <= h + total
    BY DEF Within
  <2>1. CASE c = TagCell
    BY <1>1, <1>9, <1>e, <2>1
  <2>2. ASSUME NEW k \in DOMAIN F, c = C(k, data[k])
        PROVE  h <= c.addr /\ c.addr + c.width <= h + total
    <3>1. c.addr = a + F[k].off /\ c.width = F[k].width
      BY <1>f, <2>2
    <3>2. QED BY <1>1, <1>2, <1>9, <1>c, <3>1
  <2>3. QED BY <1>17, <2>1, <2>2
<1>19. Shape(o, p)
  <2>1. CellsOf(o, p) \subseteq AllCells
    <3>1. \A k \in DOMAIN o.fields : FieldCell(o, p, k) \in AllCells
      BY <1>7, <1>a, <1>b, FieldCellIn
    <3>2. QED BY <1>16, <1>e, <3>1 DEF CellsOf, TagCell
  <2>2. \A k \in DOMAIN F : Apart(TagCell, C(k, data[k]))
    <3> TAKE k \in DOMAIN F
    <3>1. TagCell.addr + TagCell.width <= C(k, data[k]).addr
      BY <1>1, <1>2, <1>9, <1>c, <1>e, <1>f
    <3>2. QED BY <3>1 DEF Apart
  <2>3. \A k, l \in DOMAIN F : k # l => Apart(C(k, data[k]), C(l, data[l]))
    BY <1>d DEF C
  <2>4. \A k \in DOMAIN o.fields :
           /\ \A c \in Fixed(o, p) : Apart(c, FieldCell(o, p, k))
           /\ \A l \in DOMAIN o.fields :
                 k # l => Apart(FieldCell(o, p, k), FieldCell(o, p, l))
    BY <1>15, <1>16, <1>a, <2>2, <2>3 DEF TagCell
  <2>5. /\ Len(p.data) = Len(o.fields)
        /\ \A k \in DOMAIN o.fields : o.fields[k].reg = o.fields[k].width
    BY <1>2, <1>7, <1>a
  <2>6. o.layout # "String" /\ o.layout # "Legacy"
    BY <1>a
  <2>7. QED BY <1>b, <2>1, <2>4, <2>5, <2>6 DEF Shape
<1>20. \A c \in CellsOf(o, p) : Holds(mem', c)
  <2> SUFFICES ASSUME NEW c \in CellsOf(o, p)
               PROVE  Holds(q, c)
    BY <1>4
  <2>1. CASE c = TagCell
    <3>1. Holds(m1, TagCell)
      BY <1>10 DEF TagCell
    <3>2. TagCell.addr + TagCell.width <= a
      BY <1>1, <1>9, <1>e
    <3>3. QED BY <1>13, <1>e, <2>1, <3>1, <3>2
  <2>2. QED BY <1>14, <1>17, <2>1 DEF C
<1>21. \A c \in AllCells : Holds(mem, c) /\ c.addr + c.width <= h => Holds(mem', c)
  <2> TAKE c \in AllCells
  <2> HAVE Holds(mem, c) /\ c.addr + c.width <= h
  <2>1. c.addr \in Nat /\ c.width \in Nat /\ c.addr + c.width <= a
    BY <1>1, <1>9 DEF AllCells
  <2>2. Apart(c, TagCell)
    BY <1>e DEF Apart
  <2>3. Holds(m1, c)
    BY <1>10, <2>2 DEF TagCell
  <2>4. QED BY <1>4, <1>13, <2>1, <2>3
<1>22. mem' \in Memory
  BY <1>4, <1>12
<1>23. total \in Nat
  BY <1>9
<1> HIDE DEF total
<1>24. QED
  BY <1>4, <1>18, <1>19, <1>20, <1>21, <1>22, <1>23, AllocInv DEF h, o, p

-----------------------------------------------------------------------------
(* Stores to objects that are there                                        *)

LEMMA SetFieldInv ==
    ASSUME IInv, NEW i \in DOMAIN objs, NEW k \in DOMAIN objs[i].fields, NEW v \in Values,
           SetField(i, k, v)
    PROVE  IInv'
<1>1. Shape(objs[i], promised[i])
  BY DEF IInv, ShapesOK
<1>2. objs[i].fields[k].reg = objs[i].fields[k].width
  BY <1>1 DEF Shape
<1>3. v \in Nat
  BY DataAssumption
<1> DEFINE a == objs[i].at + objs[i].fields[k].off
           w == objs[i].fields[k].width
<1>4. /\ Fits(v, w) /\ mem' = Put(mem, a, w, v)
      /\ promised' = [promised EXCEPT ![i].data[k] = v] /\ UNCHANGED <<top, objs>>
  BY <1>2 DEF SetField
<1>5. a = objs[i].at + objs[i].fields[k].off /\ w = objs[i].fields[k].width
  OBVIOUS
<1> HIDE DEF a, w
<1>6. QED BY <1>3, <1>4, <1>5, StoreInv

LEMMA LegacySetInv ==
    ASSUME IInv, NEW i \in DOMAIN objs, NEW k \in DOMAIN objs[i].fields, NEW v \in Values,
           LegacySet(i, k - 1, v)
    PROVE  IInv'
<1> DEFINE F == objs[i].fields
           size == F[1].width
           a == objs[i].at + (k - 1) * size
<1>1. Shape(objs[i], promised[i]) /\ objs[i].layout = "Legacy"
  BY DEF IInv, ShapesOK, LegacySet
<1>2. F \in Fields /\ k \in 1 .. Len(F) /\ Len(F) \in Nat
  <2>1. F \in Fields
    BY <1>1, TypedFacts DEF Shape
  <2>2. F \in Seq([off : Nat, width : Nat, reg : Nat])
    BY <2>1 DEF Fields
  <2> HIDE DEF F
  <2>3. QED BY <2>1, <2>2, SMTT(30) DEF F
<1>3. F # <<>> /\ 1 \in DOMAIN F
  BY <1>2 DEF Fields
<1>4. F = Cells(Len(F), 0, size)
  BY <1>1, <1>3 DEF Shape
<1>5. size \in Nat
  BY <1>2, <1>3, FieldFacts
<1>6. v \in Nat
  BY DataAssumption
<1>7. /\ Fits(v, size) /\ mem' = Put(mem, a, size, v)
      /\ promised' = [promised EXCEPT ![i].data[(k - 1) + 1] = v]
      /\ UNCHANGED <<top, objs>>
  BY DEF LegacySet
<1>8. (k - 1) + 1 = k
  BY <1>2
<1>9. promised' = [promised EXCEPT ![i].data[k] = v]
  BY <1>7, <1>8
<1>10. F[k].off = (k - 1) * size /\ F[k].width = size
  <2> DEFINE n == Len(F)
             s == size
  <2>1. F = Cells(n, 0, s) /\ k \in 1 .. n /\ n \in Nat /\ s \in Nat
    BY <1>2, <1>4, <1>5
  <2> HIDE DEF n, s, F
  <2>2. F[k].off = 0 + (k - 1) * s /\ F[k].width = s
    BY <2>1 DEF Cells
  <2>3. k - 1 \in Nat
    BY <2>1
  <2>4. (k - 1) * s \in Nat
    BY <2>1, <2>3
  <2>5. F[k].off = (k - 1) * s
    BY <2>2, <2>4
  <2>6. QED BY <2>2, <2>5 DEF s
<1>11. a = objs[i].at + objs[i].fields[k].off /\ size = objs[i].fields[k].width
  BY <1>10
<1> HIDE DEF a, size, F
<1>12. QED BY <1>6, <1>7, <1>9, <1>11, StoreInv

-----------------------------------------------------------------------------
(* All steps                                                               *)

LEMMA InitInv == Init => IInv
<1> SUFFICES ASSUME Init
             PROVE  IInv
  OBVIOUS
<1>1. MemSize \in Nat
  BY SizesAssumption
<1>2. MemOK
  BY <1>1 DEF Init, MemOK, Memory
<1>3. objs = <<>> /\ promised = <<>>
  BY DEF Init
<1>4. DOMAIN objs = {}
  BY <1>3
<1>5. ListsOK
  BY <1>3 DEF ListsOK
<1>6. QED BY <1>2, <1>4, <1>5 DEF IInv, ShapesOK, OrderOK, BytesOK

LEMMA StepInv ==
    ASSUME Sound, IInv, [Next]_vars
    PROVE  IInv'
<1>1. ASSUME NEW text \in Texts, StringFromRaw(text)
      PROVE  IInv'
  <2>1. text \in Seq(Byte)
    BY DataAssumption
  <2>2. QED BY <1>1, <2>1, StringFromRawInv
<1>2. ASSUME NEW text \in CTexts, StringNew(text)
      PROVE  IInv'
  <2>1. text \in Seq(Byte) /\ Fits(Len(text), 4)
    BY DataAssumption
  <2>2. QED BY <1>2, <2>1, StringNewInv
<1>3. ASSUME NEW text \in CTexts, StringFromCstr(text)
      PROVE  IInv'
  BY <1>3, StringFromCstrInv
<1>4. ASSUME NEW i \in DOMAIN objs, NEW j \in DOMAIN objs, StringConcat(i, j)
      PROVE  IInv'
  BY <1>4, StringConcatInv
<1>5. ASSUME NEW n \in 0 .. MaxLength, NEW v \in Values, Fits(v, ElemSize),
             AllocArrayJulia(n, v)
      PROVE  IInv'
  BY <1>5, AllocArrayJuliaInv
<1>6. ASSUME NEW n \in 0 .. MaxLength, NEW v \in Values, Fits(v, ElemSize),
             NEW tag \in LegacyTags, AllocArray(tag, n, v)
      PROVE  IInv'
  BY <1>6, AllocArrayInv
<1>7. ASSUME NEW tag \in LegacyTags, NEW n \in 0 .. MaxLength, GcAlloc(tag, n)
      PROVE  IInv'
  BY <1>7, GcAllocInv
<1>8. ASSUME NEW T \in Structs, NEW v \in Values, NEW n \in 0 .. Len(T.fields),
             NewStruct(T, [k \in 1 .. n |-> v])
      PROVE  IInv'
  <2> DEFINE values == [k \in 1 .. n |-> v]
  <2>1. v \in Nat /\ Len(T.fields) \in Nat
    BY DataAssumption, StructsAssumption
  <2>2. n \in Nat /\ n <= Len(T.fields)
    BY <2>1
  <2>3. values \in Seq(Nat) /\ Len(values) = n
    BY <2>1, <2>2
  <2>4. Len(values) <= Len(T.fields) /\ NewStruct(T, values)
    BY <1>8, <2>2, <2>3
  <2> HIDE DEF values
  <2>5. QED BY <2>3, <2>4, NewStructInv
<1>9. ASSUME NEW i \in DOMAIN objs, NEW v \in Values, NEW k \in DOMAIN objs[i].fields,
             SetField(i, k, v)
      PROVE  IInv'
  BY <1>9, SetFieldInv
<1>10. ASSUME NEW i \in DOMAIN objs, NEW v \in Values, NEW k \in DOMAIN objs[i].fields,
              LegacySet(i, k - 1, v)
       PROVE  IInv'
  BY <1>10, LegacySetInv
<1>11. CASE UNCHANGED vars
  BY <1>11 DEF vars, IInv, MemOK, ListsOK, ShapesOK, OrderOK, BytesOK
<1>12. CASE Next
  BY <1>12, <1>1, <1>2, <1>3, <1>4, <1>5, <1>6, <1>7, <1>8, <1>9, <1>10 DEF Next
<1>13. QED BY <1>11, <1>12

\* What the invariant says of what is read.
LEMMA InvReads ==
    ASSUME IInv
    PROVE  TypeOK /\ Faithful /\ Terminated
<1>1. /\ mem \in Memory /\ top \in 0 .. MemSize /\ MemSize \in Nat
      /\ Len(promised) = Len(objs)
  BY SizesAssumption DEF IInv, MemOK, ListsOK
<1>2. ASSUME NEW i \in DOMAIN objs
      PROVE  /\ Decode(objs[i]) = promised[i]
             /\ objs[i].layout = "String" =>
                   Num(objs[i].at + 8 + Len(promised[i].data), 1) = 0
             /\ objs[i].at \in 0 .. MemSize
  <2> DEFINE o == objs[i]
             p == promised[i]
  <2>1. Shape(o, p) /\ Within(o, p, 0, top) /\ \A c \in CellsOf(o, p) : Holds(mem, c)
    BY DEF IInv, ShapesOK, BytesOK
  <2> HIDE DEF o, p
  <2>2. Decode(o) = p /\ (o.layout = "String" => Num(o.at + 8 + Len(p.data), 1) = 0)
    BY <1>1, <2>1, Reads
  <2>3. o.at \in 0 .. MemSize
    <3>1. o.at \in Nat /\ o.layout \in Layouts
      BY <2>1, TypedFacts DEF Shape
    <3>2. \A c \in Fixed(o, p) : c.addr + c.width <= top
      BY <2>1 DEF Within, CellsOf
    <3>3. CASE o.layout = "String"
      <4>1. Cell(o.at, 8, Len(p.data)) \in Fixed(o, p)
        BY <3>3 DEF Fixed
      <4>2. o.at + 8 <= top
        BY <3>2, <4>1 DEF Cell
      <4>3. QED BY <1>1, <3>1, <4>2
    <3>4. CASE o.layout = "Memory"
      <4>1. Cell(o.at - 8, 8, Len(p.data)) \in Fixed(o, p)
        BY <3>4 DEF Fixed
      <4>2. o.at - 8 + 8 <= top
        BY <3>2, <4>1 DEF Cell
      <4>3. QED BY <1>1, <3>1, <4>2
    <3>5. CASE o.layout = "Struct"
      <4>1. Cell(o.at - 8, 8, p.type) \in Fixed(o, p)
        BY <3>5 DEF Fixed
      <4>2. o.at - 8 + 8 <= top
        BY <3>2, <4>1 DEF Cell
      <4>3. QED BY <1>1, <3>1, <4>2
    <3>6. CASE o.layout = "Legacy"
      <4>1. Cell(o.at - 4, 4, Len(p.data)) \in Fixed(o, p)
        BY <3>6 DEF Fixed
      <4>2. o.at - 4 + 4 <= top
        BY <3>2, <4>1 DEF Cell
      <4>3. QED BY <1>1, <3>1, <4>2
    <3>7. QED BY <3>1, <3>3, <3>4, <3>5, <3>6 DEF Layouts
  <2>4. QED BY <2>2, <2>3 DEF o, p
<1>3. TypeOK
  BY <1>1, <1>2 DEF TypeOK, Memory
<1>4. Faithful
  BY <1>2, <1>3 DEF Faithful
<1>5. Terminated
  BY <1>2 DEF Terminated
<1>6. QED BY <1>3, <1>4, <1>5

\* The inductive invariant: the cells of all objects lie in the memory that is
\* in use, those of an older object before those of a newer one, and each holds
\* the bytes of the number that was put into it.
THEOREM Invariance ==
    ASSUME Sound
    PROVE  Spec => []IInv
<1>1. IInv /\ [Next]_vars => IInv'
  BY StepInv
<1>2. QED BY <1>1, InitInv, PTL DEF Spec

\* Memory stays one of bytes, the bump pointer inside of it, and every object
\* has its data where it is promised.
THEOREM TypeCorrect ==
    ASSUME Sound
    PROVE  Spec => []TypeOK
<1>1. IInv => TypeOK
  BY InvReads
<1>2. QED BY <1>1, Invariance, PTL

\* Every object reads back as what was put into it, for all struct types whose
\* fields are stored with registers of their width.
THEOREM AllFaithful ==
    ASSUME Sound
    PROVE  Spec => []Faithful
<1>1. IInv => Faithful
  BY InvReads
<1>2. QED BY <1>1, Invariance, PTL

\* Every String ends in a zero byte at any later time.
THEOREM AllTerminated ==
    ASSUME Sound
    PROVE  Spec => []Terminated
<1>1. IInv => Terminated
  BY InvReads
<1>2. QED BY <1>1, Invariance, PTL

=============================================================================
