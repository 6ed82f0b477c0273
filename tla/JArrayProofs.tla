---------------------------- MODULE JArrayProofs ----------------------------
(***************************************************************************)
(* Vectors whose elements have the size the emitter passes to resize!, in  *)
(* programs that copy between disjoint ranges only: for any element size   *)
(* and any values they stay in their memory and are Julia Vectors.         *)
(***************************************************************************)
EXTENDS JArray, TLAPS

\* The wrapper never claims more than the Memory, the Memory never more than
\* was allocated, and the allocation is that of the capacity.
Sizes ==
    /\ length <= memLength /\ memLength <= capacity
    /\ Len(bytes) = capacity * ElemSize

IInv == TypeOK /\ Sizes /\ ~stray

Sound == ElemSize = PtrSize /\ RegSize = ElemSize /\ ~Overlaps

-----------------------------------------------------------------------------
LEMMA Times ==
    ASSUME NEW a \in Nat, NEW b \in Nat, a <= b
    PROVE  /\ a * ElemSize \in Nat /\ b * ElemSize \in Nat
           /\ a * ElemSize <= b * ElemSize
           /\ (b - a) * ElemSize = b * ElemSize - a * ElemSize
           /\ (b + 1) * ElemSize = b * ElemSize + ElemSize
<1> DEFINE d == b - a
<1>1. d \in Nat /\ b = a + d /\ ElemSize \in Nat
  BY SizesAssumption
<1>2. d * ElemSize \in Nat /\ a * ElemSize \in Nat
  BY <1>1
<1>3. (a + d) * ElemSize = a * ElemSize + d * ElemSize
  BY <1>1
<1>4. (b + 1) * ElemSize = b * ElemSize + ElemSize
  BY <1>1
<1> HIDE DEF d
<1>5. d = b - a
  BY DEF d
<1>6. QED BY <1>1, <1>2, <1>3, <1>4, <1>5

LEMMA UsableEnough == ASSUME NEW n \in Nat PROVE n <= Usable(n)
BY DEF Usable

LEMMA ByteTyped == ASSUME TypeOK, NEW k \in Int PROVE ByteAt(k) \in Byte
BY DEF TypeOK, ByteAt, Byte

LEMMA MadeSequence ==
    ASSUME NEW n \in Nat, NEW f, f = [k \in 1 .. n |-> f[k]],
           \A k \in 1 .. n : f[k] \in Byte
    PROVE  f \in Seq(Byte) /\ Len(f) = n
OBVIOUS

LEMMA WriteSteps ==
    ASSUME TypeOK, NEW start \in Nat, NEW n \in Nat, NEW b \in Byte, Write(start, n, b)
    PROVE  /\ bytes' \in Seq(Byte) /\ Len(bytes') = Len(bytes) /\ stray' \in BOOLEAN
           /\ \A k \in Int : start <= k /\ k < start + n /\ k < Len(bytes) => ByteAt(k)' = b
           /\ \A k \in Int : k < start \/ start + n <= k => ByteAt(k)' = ByteAt(k)
           /\ ~stray /\ start + n <= Len(bytes) => ~stray'
<1>1. bytes' = [k \in 1 .. Len(bytes) |-> IF start < k /\ k <= start + n THEN b ELSE bytes[k]]
  BY DEF Write
<1>2. Len(bytes) \in Nat /\ \A k \in 1 .. Len(bytes) : bytes[k] \in Byte
  BY DEF TypeOK
<1>3. \A k \in 1 .. Len(bytes) :
         bytes'[k] = IF start < k /\ k <= start + n THEN b ELSE bytes[k]
  BY <1>1
<1>4. bytes' \in Seq(Byte) /\ Len(bytes') = Len(bytes)
  <2>1. bytes' = [k \in 1 .. Len(bytes) |-> bytes'[k]]
    BY <1>1
  <2>2. \A k \in 1 .. Len(bytes) : bytes'[k] \in Byte
    BY <1>2, <1>3
  <2>3. QED BY <1>2, <2>1, <2>2, MadeSequence
<1>5. stray' \in BOOLEAN
  BY DEF Write, TypeOK
<1>6. ~stray /\ start + n <= Len(bytes) => ~stray'
  <2>1. Usable(Len(bytes)) \in Int
    BY <1>2 DEF Usable
  <2>2. start + n <= Len(bytes) => ~(start + n > Usable(Len(bytes)))
    BY <1>2, <2>1, UsableEnough
  <2>3. stray' = (stray \/ (n > 0 /\ start + n > Usable(Len(bytes))))
    BY DEF Write
  <2>4. QED BY <2>2, <2>3, Zenon
<1>7. ASSUME NEW k \in Int, start <= k, k < start + n, k < Len(bytes)
      PROVE  ByteAt(k)' = b
  BY <1>7, <1>2, <1>3, <1>4 DEF ByteAt
<1>8. ASSUME NEW k \in Int, k < start \/ start + n <= k
      PROVE  ByteAt(k)' = ByteAt(k)
  <2>1. CASE k + 1 \in 1 .. Len(bytes)
    BY <2>1, <1>8, <1>3, <1>4 DEF ByteAt
  <2>2. CASE k + 1 \notin 1 .. Len(bytes)
    BY <2>2, <1>4 DEF ByteAt
  <2>3. QED BY <2>1, <2>2
<1>9. QED BY <1>4, <1>5, <1>6, <1>7, <1>8

LEMMA MemcpySteps ==
    ASSUME TypeOK, NEW d \in Nat, NEW s \in Nat, NEW n \in Nat, NEW up \in BOOLEAN,
           Memcpy(d, s, n, up)
    PROVE  /\ bytes' \in Seq(Byte) /\ Len(bytes') = Len(bytes) /\ stray' \in BOOLEAN
           /\ d + n <= s \/ s + n <= d =>
                 \A i \in 0 .. n - 1 : d + i < Len(bytes) => ByteAt(d + i)' = ByteAt(s + i)
           /\ \A k \in Int : k < d \/ d + n <= k => ByteAt(k)' = ByteAt(k)
           /\ ~stray /\ d + n <= Len(bytes) => ~stray'
<1> DEFINE At(i) == IF up THEN IF d > s THEN i % (d - s) ELSE i
                    ELSE IF d < s THEN n - 1 - ((n - 1 - i) % (s - d)) ELSE i
           B(k) == IF d < k /\ k <= d + n THEN ByteAt(s + At(k - 1 - d)) ELSE bytes[k]
<1>1. bytes' = [k \in 1 .. Len(bytes) |-> B(k)]
  BY DEF Memcpy
<1>2. Len(bytes) \in Nat /\ \A k \in 1 .. Len(bytes) : bytes[k] \in Byte
  BY DEF TypeOK
<1>3. \A k \in 1 .. Len(bytes) : bytes'[k] = B(k)
  BY <1>1
<1>4. \A i \in 0 .. n - 1 : /\ At(i) \in Int
                            /\ d + n <= s \/ s + n <= d => At(i) = i
  <2> SUFFICES ASSUME NEW i \in 0 .. n - 1
               PROVE  At(i) \in Int /\ (d + n <= s \/ s + n <= d => At(i) = i)
    OBVIOUS
  <2>1. CASE up /\ d > s
    BY <2>1
  <2>2. CASE ~up /\ d < s
    BY <2>2
  <2>3. CASE (up /\ ~(d > s)) \/ (~up /\ ~(d < s))
    BY <2>3
  <2>4. QED BY <2>1, <2>2, <2>3
<1>5. bytes' \in Seq(Byte) /\ Len(bytes') = Len(bytes)
  <2>1. bytes' = [k \in 1 .. Len(bytes) |-> bytes'[k]]
    BY <1>1
  <2>2. ASSUME NEW k \in 1 .. Len(bytes) PROVE bytes'[k] \in Byte
    <3>1. CASE d < k /\ k <= d + n
      <4>1. s + At(k - 1 - d) \in Int
        BY <3>1, <1>2, <1>4
      <4>2. QED BY <3>1, <4>1, <1>3, ByteTyped
    <3>2. CASE ~(d < k /\ k <= d + n)
      BY <3>2, <1>2, <1>3
    <3>3. QED BY <3>1, <3>2
  <2>3. QED BY <1>2, <2>1, <2>2, MadeSequence
<1>6. stray' \in BOOLEAN
  BY DEF Memcpy, TypeOK
<1>7. ~stray /\ d + n <= Len(bytes) => ~stray'
  <2>1. Usable(Len(bytes)) \in Int
    BY <1>2 DEF Usable
  <2>2. d + n <= Len(bytes) => ~(d + n > Usable(Len(bytes)))
    BY <1>2, <2>1, UsableEnough
  <2>3. stray' = (stray \/ (n > 0 /\ d + n > Usable(Len(bytes))))
    BY DEF Memcpy
  <2>4. QED BY <2>2, <2>3, Zenon
<1>8. ASSUME d + n <= s \/ s + n <= d, NEW i \in 0 .. n - 1, d + i < Len(bytes)
      PROVE  ByteAt(d + i)' = ByteAt(s + i)
  <2> DEFINE k == d + i + 1
  <2>1. k \in 1 .. Len(bytes) /\ d < k /\ k <= d + n /\ k - 1 - d = i
    BY <1>8, <1>2
  <2>2. bytes'[k] = ByteAt(s + At(i))
    BY <2>1, <1>3
  <2>3. At(i) = i
    BY <1>4, <1>8
  <2>4. ByteAt(d + i)' = bytes'[k]
    BY <2>1, <1>5 DEF ByteAt
  <2>5. QED BY <2>2, <2>3, <2>4
<1>9. ASSUME NEW k \in Int, k < d \/ d + n <= k
      PROVE  ByteAt(k)' = ByteAt(k)
  <2>1. CASE k + 1 \in 1 .. Len(bytes)
    BY <2>1, <1>9, <1>3, <1>5 DEF ByteAt
  <2>2. CASE k + 1 \notin 1 .. Len(bytes)
    BY <2>2, <1>5 DEF ByteAt
  <2>3. QED BY <2>1, <2>2
<1>10. QED BY <1>5, <1>6, <1>7, <1>8, <1>9

\* What the two runtime functions do when they are given the right size.
LEMMA GrowSteps ==
    ASSUME IInv, NEW delta \in Nat, GrowEnd(delta, ElemSize)
    PROVE  /\ IInv' /\ length' = length + delta
           /\ \A k \in 0 .. length * ElemSize - 1 : ByteAt(k)' = ByteAt(k)
<1> DEFINE newLength == length + delta
           B(k) == IF k <= length * ElemSize THEN ByteAt(k - 1) ELSE Junk
<1>1. /\ bytes' = [k \in 1 .. newLength * ElemSize |-> B(k)]
      /\ length' = newLength /\ capacity' = newLength /\ memLength' = newLength
      /\ stray' = stray
  BY DEF GrowEnd
<1>2. length \in Nat /\ newLength \in Nat /\ length <= newLength
  BY DEF IInv, TypeOK
<1>3. /\ length * ElemSize \in Nat /\ newLength * ElemSize \in Nat
      /\ length * ElemSize <= newLength * ElemSize
  BY <1>2, Times
<1>4. \A k \in 1 .. newLength * ElemSize : bytes'[k] = B(k)
  BY <1>1
<1>5. bytes' \in Seq(Byte) /\ Len(bytes') = newLength * ElemSize
  <2>1. bytes' = [k \in 1 .. newLength * ElemSize |-> bytes'[k]]
    BY <1>1
  <2>2. \A k \in 1 .. newLength * ElemSize : B(k) \in Byte
    BY <1>3, ByteTyped DEF IInv, Byte
  <2>3. QED BY <1>3, <1>4, <2>1, <2>2, MadeSequence
<1>6. IInv'
  <2>1. capacity' * ElemSize = newLength * ElemSize
    BY <1>1
  <2>2. TypeOK' /\ stray' = FALSE
    BY <1>1, <1>2, <1>5 DEF IInv, TypeOK
  <2>3. Sizes'
    <3>1. Len(bytes') = capacity' * ElemSize
      BY <1>5, <2>1
    <3>2. length' <= memLength' /\ memLength' <= capacity'
      BY <1>1, <1>2
    <3>3. QED BY <3>1, <3>2 DEF Sizes
  <2>4. QED BY <2>2, <2>3 DEF IInv
<1>7. ASSUME NEW k \in 0 .. length * ElemSize - 1 PROVE ByteAt(k)' = ByteAt(k)
  <2>1. k + 1 \in 1 .. newLength * ElemSize /\ k + 1 <= length * ElemSize
    BY <1>3
  <2>2. ByteAt(k)' = bytes'[k + 1]
    BY <2>1, <1>5 DEF ByteAt
  <2>3. bytes'[k + 1] = ByteAt(k)
    BY <2>1, <1>3, <1>4
  <2>4. QED BY <2>2, <2>3
<1>8. QED BY <1>1, <1>6, <1>7

LEMMA DelSteps ==
    ASSUME IInv, NEW dec \in Nat, dec <= length, DelEnd(dec, ElemSize)
    PROVE  /\ IInv' /\ length' = length - dec
           /\ \A k \in 0 .. (length - dec) * ElemSize - 1 : ByteAt(k)' = ByteAt(k)
           /\ \A k \in (length - dec) * ElemSize .. length * ElemSize - 1 : ByteAt(k)' = 0
<1> DEFINE newLength == length - dec
<1>1. /\ Write(newLength * ElemSize, dec * ElemSize, 0)
      /\ length' = newLength /\ memLength' = newLength /\ capacity' = capacity
  BY DEF DelEnd, IInv, TypeOK
<1>2. /\ length \in Nat /\ newLength \in Nat /\ capacity \in Nat
      /\ newLength <= length /\ length <= capacity /\ length - newLength = dec
  BY DEF IInv, TypeOK, Sizes
<1>3. /\ newLength * ElemSize \in Nat /\ dec * ElemSize \in Nat /\ length * ElemSize \in Nat
      /\ newLength * ElemSize + dec * ElemSize = length * ElemSize
      /\ length * ElemSize <= capacity * ElemSize /\ capacity * ElemSize \in Nat
  <2>1. /\ newLength * ElemSize \in Nat /\ length * ElemSize \in Nat
        /\ (length - newLength) * ElemSize = length * ElemSize - newLength * ElemSize
    BY <1>2, Times
  <2>2. dec * ElemSize = length * ElemSize - newLength * ElemSize
    BY <1>2, <2>1
  <2>3. dec * ElemSize \in Nat
    BY Times
  <2>4. length * ElemSize <= capacity * ElemSize /\ capacity * ElemSize \in Nat
    BY <1>2, Times
  <2>5. QED BY <2>1, <2>2, <2>3, <2>4
<1>4. 0 \in Byte /\ Len(bytes) = capacity * ElemSize
  BY DEF Byte, IInv, Sizes
<1>5. /\ bytes' \in Seq(Byte) /\ Len(bytes') = Len(bytes) /\ ~stray'
      /\ \A k \in Int : newLength * ElemSize <= k /\ k < length * ElemSize => ByteAt(k)' = 0
      /\ \A k \in Int : k < newLength * ElemSize => ByteAt(k)' = ByteAt(k)
  BY <1>1, <1>3, <1>4, WriteSteps DEF IInv
<1>6. IInv'
  <2>1. stray' \in BOOLEAN
    BY <1>1, <1>3, <1>4, WriteSteps DEF IInv
  <2>2. QED BY <1>1, <1>2, <1>4, <1>5, <2>1 DEF IInv, TypeOK, Sizes
<1>7. QED BY <1>1, <1>3, <1>5, <1>6

LEMMA SetIndexSteps ==
    ASSUME RegSize = ElemSize, IInv, NEW i \in Nat, NEW v \in Values, SetIndex(i, v)
    PROVE  /\ IInv' /\ length' = length /\ i \in 1 .. length
           /\ \A k \in (i - 1) * ElemSize .. i * ElemSize - 1 : ByteAt(k)' = v
           /\ \A k \in Int : k < (i - 1) * ElemSize \/ i * ElemSize <= k =>
                  ByteAt(k)' = ByteAt(k)
<1>1. /\ i \in 1 .. length /\ Write((i - 1) * ElemSize, ElemSize, v)
      /\ UNCHANGED <<length, capacity, memLength>>
  BY DEF SetIndex
<1>2. /\ i \in Nat /\ i - 1 \in Nat /\ i <= capacity /\ capacity \in Nat
      /\ ElemSize \in Nat
  BY <1>1, SizesAssumption DEF IInv, TypeOK, Sizes
<1>3. /\ (i - 1) * ElemSize \in Nat /\ i * ElemSize \in Nat
      /\ (i - 1) * ElemSize + ElemSize = i * ElemSize
      /\ i * ElemSize <= capacity * ElemSize
  <2>1. ((i - 1) + 1) * ElemSize = (i - 1) * ElemSize + ElemSize
    BY <1>2, Times
  <2>2. (i - 1) + 1 = i
    BY <1>2
  <2>3. QED BY <1>2, <2>1, <2>2, Times
<1>4. v \in Byte /\ Len(bytes) = capacity * ElemSize
  BY DEF Byte, IInv, Sizes
<1>5. /\ bytes' \in Seq(Byte) /\ Len(bytes') = Len(bytes) /\ ~stray' /\ stray' \in BOOLEAN
      /\ \A k \in Int : (i - 1) * ElemSize <= k /\ k < i * ElemSize => ByteAt(k)' = v
      /\ \A k \in Int : k < (i - 1) * ElemSize \/ i * ElemSize <= k => ByteAt(k)' = ByteAt(k)
  <2>1. Len(bytes) \in Nat
    BY DEF IInv, TypeOK
  <2>2. /\ \A k \in Int : k < i * ElemSize => k < Len(bytes)
        /\ (i - 1) * ElemSize + ElemSize <= Len(bytes)
    BY <1>3, <1>4, <2>1
  <2>3. /\ bytes' \in Seq(Byte) /\ Len(bytes') = Len(bytes) /\ ~stray' /\ stray' \in BOOLEAN
        /\ \A k \in Int : /\ (i - 1) * ElemSize <= k
                         /\ k < (i - 1) * ElemSize + ElemSize
                         /\ k < Len(bytes) => ByteAt(k)' = v
        /\ \A k \in Int : k < (i - 1) * ElemSize \/ (i - 1) * ElemSize + ElemSize <= k =>
              ByteAt(k)' = ByteAt(k)
    BY <1>1, <1>2, <1>3, <1>4, <2>2, WriteSteps DEF IInv
  <2>4. QED BY <1>3, <2>2, <2>3
<1>6. IInv'
  BY <1>1, <1>4, <1>5 DEF IInv, TypeOK, Sizes
<1>7. QED BY <1>1, <1>3, <1>5, <1>6

LEMMA CopySteps ==
    ASSUME IInv, ~Overlaps, NEW d \in Nat \ {0}, NEW s \in Nat \ {0}, NEW n \in Nat,
           CopyTo(d, s, n)
    PROVE  /\ IInv' /\ length' = length
           /\ d + n - 1 <= length /\ s + n - 1 <= length
           /\ \A k \in 0 .. n * ElemSize - 1 :
                  ByteAt((d - 1) * ElemSize + k)' = ByteAt((s - 1) * ElemSize + k)
           /\ \A k \in Int : \/ k < (d - 1) * ElemSize
                            \/ (d - 1) * ElemSize + n * ElemSize <= k =>
                  ByteAt(k)' = ByteAt(k)
<1> DEFINE D == (d - 1) * ElemSize
           S == (s - 1) * ElemSize
           N == n * ElemSize
<1>1. /\ d + n - 1 <= length /\ s + n - 1 <= length
      /\ d + n <= s \/ s + n <= d
      /\ UNCHANGED <<length, capacity, memLength>>
  BY DEF CopyTo
<1>2. PICK up \in BOOLEAN : Memcpy(D, S, N, up)
  BY DEF CopyTo
<1>3. /\ d - 1 \in Nat /\ s - 1 \in Nat /\ length \in Nat /\ capacity \in Nat
      /\ length <= capacity /\ ElemSize \in Nat
  BY SizesAssumption DEF IInv, TypeOK, Sizes
<1>4. /\ D \in Nat /\ S \in Nat /\ N \in Nat /\ capacity * ElemSize \in Nat
      /\ D + N <= capacity * ElemSize
      /\ D + N <= S \/ S + N <= D
  <2>1. /\ D + N = (d - 1 + n) * ElemSize
        /\ S + N = (s - 1 + n) * ElemSize
    BY <1>3
  <2>2. D \in Nat /\ S \in Nat /\ N \in Nat /\ capacity * ElemSize \in Nat
    BY <1>3, Times
  <2>3. (d - 1 + n) * ElemSize <= capacity * ElemSize
    BY <1>1, <1>3, Times
  <2>4. /\ d - 1 + n <= s - 1 => (d - 1 + n) * ElemSize <= S
        /\ s - 1 + n <= d - 1 => (s - 1 + n) * ElemSize <= D
    BY <1>3, Times
  <2>5. d - 1 + n <= s - 1 \/ s - 1 + n <= d - 1
    BY <1>1, <1>3
  <2> HIDE DEF D, S, N
  <2>6. QED BY <2>1, <2>2, <2>3, <2>4, <2>5
<1>5. Len(bytes) = capacity * ElemSize
  BY DEF IInv, Sizes
<1> HIDE DEF D, S, N
<1>6. /\ bytes' \in Seq(Byte) /\ Len(bytes') = Len(bytes) /\ stray' \in BOOLEAN /\ ~stray'
      /\ \A i \in 0 .. N - 1 : D + i < Len(bytes) => ByteAt(D + i)' = ByteAt(S + i)
      /\ \A k \in Int : k < D \/ D + N <= k => ByteAt(k)' = ByteAt(k)
  <2>1. TypeOK /\ ~stray
    BY DEF IInv
  <2>2. D + N <= Len(bytes)
    BY <1>4, <1>5
  <2>3. /\ bytes' \in Seq(Byte) /\ Len(bytes') = Len(bytes) /\ stray' \in BOOLEAN
        /\ D + N <= S \/ S + N <= D =>
              \A i \in 0 .. N - 1 : D + i < Len(bytes) => ByteAt(D + i)' = ByteAt(S + i)
        /\ \A k \in Int : k < D \/ D + N <= k => ByteAt(k)' = ByteAt(k)
        /\ ~stray /\ D + N <= Len(bytes) => ~stray'
    BY <1>2, <1>4, <2>1, MemcpySteps
  <2>4. QED BY <1>4, <2>1, <2>2, <2>3, Zenon
<1>7. \A i \in 0 .. N - 1 : ByteAt(D + i)' = ByteAt(S + i)
  BY <1>4, <1>5, <1>6
<1>8. IInv'
  BY <1>1, <1>5, <1>6 DEF IInv, TypeOK, Sizes
<1>9. QED BY <1>1, <1>6, <1>7, <1>8 DEF D, S, N

LEMMA InitInv == Init => IInv
<1> SUFFICES ASSUME NEW n \in 0 .. MaxLength, NewVector(n) PROVE IInv
  BY DEF Init
<1>1. n \in Nat /\ n * ElemSize \in Nat
  BY SizesAssumption
<1>2. bytes = [k \in 1 .. n * ElemSize |-> bytes[k]]
  BY DEF NewVector, Clear
<1>3. \A k \in 1 .. n * ElemSize : bytes[k] \in Byte
  BY DEF NewVector, Clear, Byte
<1>4. bytes \in Seq(Byte) /\ Len(bytes) = n * ElemSize
  BY <1>1, <1>2, <1>3, MadeSequence
<1>5. TypeOK /\ stray = FALSE
  BY <1>1, <1>4 DEF NewVector, TypeOK
<1>6. Sizes
  BY <1>1, <1>4 DEF NewVector, Sizes
<1>7. QED BY <1>5, <1>6 DEF IInv

\* A size update within the Memory, which nothing else depends on.
LEMMA SetSizeInv ==
    ASSUME IInv, NEW n \in Int, SetSize(n)
    PROVE  IInv'
BY DEF SetSize, IInv, TypeOK, Sizes

\* resize! is a growth or a cut of the right size, when elements have the
\* size that is passed.
LEMMA ResizeCases ==
    ASSUME IInv, Sound, NEW n \in Int, Resize(n)
    PROVE  \/ \E delta \in Nat \ {0} : GrowEnd(delta, ElemSize) /\ n = length + delta
           \/ \E dec \in Nat \ {0} : /\ dec <= length /\ DelEnd(dec, ElemSize)
                                    /\ length - dec = IF n < 0 THEN 0 ELSE n
<1> DEFINE wanted == IF n < 0 THEN 0 ELSE n
<1>1. wanted \in Nat /\ length \in Nat
  BY DEF IInv, TypeOK
<1>2. CASE wanted > length /\ GrowEnd(wanted - length, PtrSize)
  <2>1. wanted - length \in Nat \ {0} /\ n = length + (wanted - length)
    BY <1>1, <1>2
  <2>2. QED BY <1>2, <2>1 DEF Sound
<1>3. CASE wanted < length /\ DelEnd(length - wanted, PtrSize)
  <2>1. /\ length - wanted \in Nat \ {0} /\ length - wanted <= length
        /\ length - (length - wanted) = wanted
    BY <1>1, <1>3
  <2>2. QED BY <1>3, <2>1 DEF Sound
<1>4. QED BY <1>2, <1>3 DEF Resize

\* Whatever Next does is one of five things to the bytes.
LEMMA NextCases ==
    ASSUME IInv, Sound, Next
    PROVE  \/ \E i \in Nat, v \in Values : SetIndex(i, v)
           \/ \E n \in Int : SetSize(n)
           \/ \E delta \in Nat : GrowEnd(delta, ElemSize)
           \/ \E dec \in Nat : dec <= length /\ DelEnd(dec, ElemSize)
           \/ \E d, s, n \in Nat \ {0} : CopyTo(d, s, n)
<1>1. CASE \E i \in 1 .. MaxLength, v \in Values : SetIndex(i, v)
  BY <1>1, SizesAssumption
<1>2. CASE \E n \in -1 .. MaxLength : SetSize(n)
  BY <1>2, SizesAssumption
<1>3. CASE \E n \in -1 .. MaxLength : Resize(n)
  BY <1>3, ResizeCases, SizesAssumption
<1>4. CASE \E delta \in 1 .. MaxLength : Push(delta)
  BY <1>4, SizesAssumption DEF Push
<1>5. CASE \E d, s, n \in 1 .. MaxLength : CopyTo(d, s, n)
  BY <1>5, SizesAssumption
<1>6. QED BY <1>1, <1>2, <1>3, <1>4, <1>5 DEF Next

LEMMA NextInv == ASSUME Sound, IInv, [Next]_vars PROVE IInv'
<1>1. CASE Next
  <2>1. ASSUME NEW i \in Nat, NEW v \in Values, SetIndex(i, v) PROVE IInv'
    BY <2>1, SetIndexSteps DEF Sound
  <2>2. ASSUME NEW n \in Int, SetSize(n) PROVE IInv'
    BY <2>2, SetSizeInv
  <2>3. ASSUME NEW delta \in Nat, GrowEnd(delta, ElemSize) PROVE IInv'
    BY <2>3, GrowSteps
  <2>4. ASSUME NEW dec \in Nat, dec <= length, DelEnd(dec, ElemSize) PROVE IInv'
    BY <2>4, DelSteps
  <2>5. ASSUME NEW d \in Nat \ {0}, NEW s \in Nat \ {0}, NEW n \in Nat \ {0}, CopyTo(d, s, n)
        PROVE  IInv'
    BY <2>5, CopySteps DEF Sound
  <2>6. QED BY <1>1, <2>1, <2>2, <2>3, <2>4, <2>5, NextCases
<1>2. CASE UNCHANGED vars
  BY <1>2 DEF vars, IInv, TypeOK, Sizes
<1>3. QED BY <1>1, <1>2

\* Sizes and bytes agree after any program.
THEOREM Invariance == ASSUME Sound PROVE Spec => []IInv
<1>1. Init => IInv BY InitInv
<1>2. IInv /\ [Next]_vars => IInv' BY NextInv
<1>3. QED BY <1>1, <1>2, PTL DEF Spec

-----------------------------------------------------------------------------
\* The fields of a vector have the types TypeOK says.
THEOREM TypeCorrect == ASSUME Sound PROVE Spec => []TypeOK
<1>1. IInv => TypeOK BY DEF IInv
<1>2. QED BY <1>1, Invariance, PTL

\* No operation writes outside the Memory: with the right element size neither
\* a store, nor a copy, nor the zero fill of a shrink reaches another object.
THEOREM MemorySafe == ASSUME Sound PROVE Spec => []StaysInMemory
<1>1. IInv => StaysInMemory BY DEF IInv, StaysInMemory
<1>2. QED BY <1>1, Invariance, PTL

\* The Memory holds every element that the wrapper or the Memory claims, for
\* any element size and however size, capacity and Memory were updated.
THEOREM HasRoom == ASSUME Sound PROVE Spec => []RoomForElements
<1>1. IInv => RoomForElements
  <2> SUFFICES ASSUME IInv PROVE RoomForElements
    OBVIOUS
  <2>1. Len(bytes) \in Nat
    BY DEF IInv, TypeOK
  <2>2. capacity * ElemSize <= Usable(Len(bytes))
    BY <2>1, UsableEnough DEF IInv, Sizes
  <2>3. QED BY <2>2 DEF IInv, Sizes, RoomForElements
<1>2. QED BY <1>1, Invariance, PTL

LEMMA OffsetsIn ==
    ASSUME NEW i \in Nat \ {0}
    PROVE  /\ (i - 1) * ElemSize \in Nat /\ i * ElemSize = (i - 1) * ElemSize + ElemSize
           /\ \A k \in Offsets(i) : k \in Int /\ (i - 1) * ElemSize <= k /\ k < i * ElemSize
           /\ \A o \in 0 .. ElemSize - 1 : (i - 1) * ElemSize + o \in Offsets(i)
           /\ \A k \in Offsets(i) : \E o \in 0 .. ElemSize - 1 : k = (i - 1) * ElemSize + o
<1> DEFINE S == (i - 1) * ElemSize
           E == i * ElemSize
<1>1. i - 1 \in Nat /\ ElemSize \in Nat \ {0} /\ (i - 1) + 1 = i
  BY SizesAssumption
<1>2. S \in Nat /\ E = S + ElemSize
  BY <1>1, Times
<1>3. Offsets(i) = S .. E - 1
  BY DEF Offsets
<1> HIDE DEF S, E
<1>4. \A k \in Offsets(i) : k \in Int /\ S <= k /\ k < E
  BY <1>1, <1>2, <1>3
<1>5. \A o \in 0 .. ElemSize - 1 : S + o \in Offsets(i)
  BY <1>1, <1>2, <1>3
<1>6. ASSUME NEW k \in Offsets(i) PROVE \E o \in 0 .. ElemSize - 1 : k = S + o
  <2>1. k - S \in 0 .. ElemSize - 1 /\ k = S + (k - S)
    BY <1>1, <1>2, <1>4
  <2>2. QED BY <2>1
<1>7. QED BY <1>2, <1>4, <1>5, <1>6 DEF S, E

\* A shrinking resize! clears every byte of the elements it removes.
THEOREM RemovedCleared == ASSUME Sound PROVE Spec => RemovedAreZero
<1>1. IInv /\ [Next]_vars =>
        [\A n \in 0 .. MaxLength :
            n < length /\ Resize(n) =>
               \A i \in n + 1 .. length : \A k \in Offsets(i) : ByteAt(k)' = 0]_vars
  <2> SUFFICES ASSUME IInv, NEW n \in 0 .. MaxLength, n < length, Resize(n),
                      NEW i \in n + 1 .. length, NEW k \in Offsets(i)
               PROVE  ByteAt(k)' = 0
    OBVIOUS
  <2>1. n \in Nat /\ length \in Nat /\ i \in Nat \ {0}
    BY SizesAssumption DEF IInv, TypeOK
  <2>2. PICK dec \in Nat \ {0} :
            /\ dec <= length /\ DelEnd(dec, ElemSize) /\ length - dec = n
    BY <2>1, ResizeCases
  <2>3. \A j \in n * ElemSize .. length * ElemSize - 1 : ByteAt(j)' = 0
    BY <2>2, DelSteps
  <2>4. /\ n * ElemSize <= (i - 1) * ElemSize /\ n * ElemSize \in Nat
        /\ i * ElemSize <= length * ElemSize
        /\ i * ElemSize \in Nat /\ length * ElemSize \in Nat
    <3>1. i - 1 \in Nat /\ n <= i - 1 /\ i \in Nat /\ i <= length
      BY <2>1
    <3>2. QED BY <2>1, <3>1, Times
  <2>5. k \in Int /\ (i - 1) * ElemSize <= k /\ k < i * ElemSize
    BY <2>1, OffsetsIn
  <2>6. (i - 1) * ElemSize \in Nat
    BY <2>1, OffsetsIn
  <2>7. k \in n * ElemSize .. length * ElemSize - 1
    BY <2>4, <2>5, <2>6
  <2>8. QED BY <2>3, <2>7
<1>2. QED BY <1>1, Invariance, PTL DEF Spec, RemovedAreZero

-----------------------------------------------------------------------------
\* What the program sees.
Seen == [i \in 1 .. length |-> Decoded(i)]

\* What element i reads as if all of it is loaded.
Whole(i) ==
    IF \E v \in Values : \A k \in Offsets(i) : ByteAt(k) = v
    THEN ByteAt((i - 1) * ElemSize)
    ELSE Undef

LEMMA AllLoaded ==
    ASSUME RegSize = ElemSize, NEW i \in Nat \ {0} PROVE Loaded(i) = Offsets(i)
<1>1. LoadSize = ElemSize
  BY SizesAssumption DEF LoadSize
<1>2. (i - 1) * ElemSize \in Int /\ i * ElemSize = (i - 1) * ElemSize + ElemSize
  BY OffsetsIn, SizesAssumption
<1>3. Loaded(i) = (i - 1) * ElemSize .. (i - 1) * ElemSize + ElemSize - 1
  BY <1>1 DEF Loaded
<1>4. (i - 1) * ElemSize + ElemSize - 1 = i * ElemSize - 1
  <2> DEFINE S == (i - 1) * ElemSize
             E == i * ElemSize
  <2>1. S \in Int /\ E = S + ElemSize /\ ElemSize \in Int
    BY <1>2, SizesAssumption
  <2> HIDE DEF S, E
  <2>2. S + ElemSize - 1 = E - 1
    BY <2>1
  <2>3. QED BY <2>2 DEF S, E
<1>5. QED BY <1>3, <1>4, Zenon DEF Offsets

LEMMA DecodedWhole ==
    ASSUME RegSize = ElemSize, NEW i \in Nat \ {0}
    PROVE  Decoded(i) = Whole(i) /\ Decoded(i)' = Whole(i)'
<1>1. Loaded(i) = Offsets(i)
  BY AllLoaded
<1>2. Decoded(i) = Whole(i)
  BY <1>1 DEF Decoded, Whole
<1>3. Decoded(i)' = Whole(i)'
  BY <1>1 DEF Decoded, Whole, Loaded, Offsets, LoadSize
<1>4. QED BY <1>2, <1>3

LEMMA DecodedElement ==
    ASSUME RegSize = ElemSize PROVE \A i \in Nat \ {0} : Decoded(i) \in Vector!Element
<1> SUFFICES ASSUME NEW i \in Nat \ {0} PROVE Whole(i) \in Vector!Element
  BY DecodedWhole
<1>1. (i - 1) * ElemSize \in Offsets(i)
  <2>1. 0 \in 0 .. ElemSize - 1
    BY SizesAssumption
  <2>2. QED BY <2>1, OffsetsIn
<1>2. CASE \E v \in Values : \A k \in Offsets(i) : ByteAt(k) = v
  BY <1>1, <1>2 DEF Whole, Vector!Element
<1>3. CASE ~\E v \in Values : \A k \in Offsets(i) : ByteAt(k) = v
  BY <1>3 DEF Whole, Vector!Element
<1>4. QED BY <1>2, <1>3

\* An element whose bytes are those another one had reads as that one did.
LEMMA SameBytes ==
    ASSUME RegSize = ElemSize, NEW i \in Nat \ {0}, NEW j \in Nat \ {0},
           \A o \in 0 .. ElemSize - 1 :
              ByteAt((i - 1) * ElemSize + o)' = ByteAt((j - 1) * ElemSize + o)
    PROVE  Decoded(i)' = Decoded(j)
<1>1. /\ \A o \in 0 .. ElemSize - 1 : (i - 1) * ElemSize + o \in Offsets(i)
      /\ \A k \in Offsets(i) : \E o \in 0 .. ElemSize - 1 : k = (i - 1) * ElemSize + o
      /\ \A o \in 0 .. ElemSize - 1 : (j - 1) * ElemSize + o \in Offsets(j)
      /\ \A k \in Offsets(j) : \E o \in 0 .. ElemSize - 1 : k = (j - 1) * ElemSize + o
  BY OffsetsIn
<1>2. ASSUME NEW v
      PROVE  (\A k \in Offsets(i) : ByteAt(k)' = v) <=> (\A k \in Offsets(j) : ByteAt(k) = v)
  BY <1>1
<1>3. ByteAt((i - 1) * ElemSize)' = ByteAt((j - 1) * ElemSize)
  <2>1. /\ (i - 1) * ElemSize + 0 = (i - 1) * ElemSize /\ 0 \in 0 .. ElemSize - 1
        /\ (j - 1) * ElemSize + 0 = (j - 1) * ElemSize
    BY SizesAssumption, OffsetsIn
  <2>2. QED BY <2>1
<1>4. Whole(i)' = Whole(j)
  BY <1>2, <1>3 DEF Whole, Undef, Offsets
<1>5. QED BY <1>4, DecodedWhole

LEMMA KeptElement ==
    ASSUME RegSize = ElemSize, NEW i \in Nat \ {0},
           \A k \in Int : (i - 1) * ElemSize <= k /\ k < i * ElemSize => ByteAt(k)' = ByteAt(k)
    PROVE  Decoded(i)' = Decoded(i)
<1>1. \A o \in 0 .. ElemSize - 1 :
         ByteAt((i - 1) * ElemSize + o)' = ByteAt((i - 1) * ElemSize + o)
  BY OffsetsIn
<1>2. QED BY <1>1, SameBytes

\* Elements do not share bytes.
LEMMA Disjoint ==
    ASSUME NEW i \in Nat \ {0}, NEW j \in Nat \ {0}
    PROVE  /\ i < j => i * ElemSize <= (j - 1) * ElemSize
           /\ i <= j => i * ElemSize <= j * ElemSize
BY Times

LEMMA SeenInit == ASSUME RegSize = ElemSize, IInv PROVE Seen \in Seq(Vector!Element)
BY DecodedElement DEF Seen, IInv, TypeOK

LEMMA SeenStore ==
    ASSUME RegSize = ElemSize, IInv, NEW i \in Nat, NEW v \in Values, SetIndex(i, v)
    PROVE  i \in 1 .. Len(Seen) /\ Seen' = [Seen EXCEPT ![i] = v]
<1>1. /\ length' = length /\ i \in 1 .. length
      /\ \A k \in (i - 1) * ElemSize .. i * ElemSize - 1 : ByteAt(k)' = v
      /\ \A k \in Int : k < (i - 1) * ElemSize \/ i * ElemSize <= k => ByteAt(k)' = ByteAt(k)
  BY SetIndexSteps
<1>2. Decoded(i)' = v
  <2>1. /\ (i - 1) * ElemSize \in Nat /\ i * ElemSize = (i - 1) * ElemSize + ElemSize
        /\ ElemSize \in Nat \ {0}
    BY <1>1, OffsetsIn, SizesAssumption
  <2>2. ByteAt((i - 1) * ElemSize)' = v
    BY <1>1, <2>1
  <2>3. \A k \in Offsets(i) : ByteAt(k)' = v
    BY <1>1 DEF Offsets
  <2>4. Whole(i)' = v
    BY <2>2, <2>3 DEF Whole, Offsets
  <2>5. i \in Nat \ {0}
    BY <1>1 DEF IInv, TypeOK
  <2>6. QED BY <2>4, <2>5, DecodedWhole
<1>3. ASSUME NEW j \in 1 .. length, j # i PROVE Decoded(j)' = Decoded(j)
  <2>1. length \in Nat /\ i \in Nat \ {0} /\ j \in Nat \ {0}
    BY <1>1 DEF IInv, TypeOK
  <2>2. /\ (i - 1) * ElemSize \in Nat /\ i * ElemSize \in Int
        /\ (j - 1) * ElemSize \in Nat /\ j * ElemSize \in Int
    BY <2>1, OffsetsIn, SizesAssumption
  <2>3. j * ElemSize <= (i - 1) * ElemSize \/ i * ElemSize <= (j - 1) * ElemSize
    BY <1>3, <2>1, Disjoint
  <2>4. QED BY <1>1, <2>1, <2>2, <2>3, KeptElement
<1>4. Seen' = [j \in 1 .. length |-> Decoded(j)']
  BY <1>1 DEF Seen
<1>5. [Seen EXCEPT ![i] = v] = [j \in 1 .. length |-> IF j = i THEN v ELSE Decoded(j)]
  BY DEF Seen
<1>6. length \in Nat /\ Len(Seen) = length
  BY DEF Seen, IInv, TypeOK
<1>7. QED BY <1>1, <1>2, <1>3, <1>4, <1>5, <1>6

LEMMA SeenPrefix ==
    ASSUME RegSize = ElemSize, IInv, NEW m \in Nat, m <= length, m <= length', length' \in Nat,
           \A k \in 0 .. m * ElemSize - 1 : ByteAt(k)' = ByteAt(k)
    PROVE  \A i \in 1 .. m : Seen'[i] = Seen[i]
<1> SUFFICES ASSUME NEW i \in 1 .. m PROVE Decoded(i)' = Decoded(i)
  BY DEF Seen, IInv, TypeOK
<1>1. i \in Nat \ {0} /\ m \in Nat \ {0}
  OBVIOUS
<1>2. (i - 1) * ElemSize \in Nat /\ i * ElemSize <= m * ElemSize /\ m * ElemSize \in Nat
      /\ i * ElemSize \in Int
  BY <1>1, OffsetsIn, Times, SizesAssumption
<1>3. QED BY <1>1, <1>2, KeptElement

LEMMA DecodedElementAfter ==
    ASSUME RegSize = ElemSize, length' \in Nat
    PROVE  \A i \in 1 .. length' : Decoded(i)' \in Vector!Element
<1> SUFFICES ASSUME NEW i \in 1 .. length' PROVE Whole(i)' \in Vector!Element
  BY DecodedWhole
<1>1. i \in Nat \ {0}
  OBVIOUS
<1>2. 0 \in 0 .. ElemSize - 1 /\ (i - 1) * ElemSize + 0 = (i - 1) * ElemSize
  BY <1>1, OffsetsIn, SizesAssumption
<1>3. (i - 1) * ElemSize \in Offsets(i)
  BY <1>1, <1>2, OffsetsIn
<1>4. CASE \E v \in Values : \A k \in Offsets(i) : ByteAt(k)' = v
  BY <1>3, <1>4 DEF Whole, Offsets, Vector!Element
<1>5. CASE ~\E v \in Values : \A k \in Offsets(i) : ByteAt(k)' = v
  BY <1>5 DEF Whole, Offsets, Vector!Element, Undef
<1>6. QED BY <1>4, <1>5

\* A step that keeps the bytes of the first elements cuts or extends what the
\* program sees.
LEMMA SeenResized ==
    ASSUME RegSize = ElemSize, IInv, length' \in Nat,
           \A k \in Int : /\ 0 <= k
                        /\ k < length * ElemSize
                        /\ k < length' * ElemSize => ByteAt(k)' = ByteAt(k)
    PROVE  \/ Len(Seen') >= Len(Seen) /\ SubSeq(Seen', 1, Len(Seen)) = Seen
           \/ Len(Seen') \in 0 .. Len(Seen) /\ Seen' = SubSeq(Seen, 1, Len(Seen'))
<1>1. length \in Nat
  BY DEF IInv, TypeOK
<1>2. /\ Seen \in Seq(Vector!Element) /\ Len(Seen) = length
      /\ Seen' \in Seq(Vector!Element) /\ Len(Seen') = length'
  <2>1. \A i \in 1 .. length' : Decoded(i)' \in Vector!Element
    BY DecodedElementAfter
  <2>2. QED BY <1>1, <2>1, SeenInit DEF Seen
<1>3. CASE length <= length'
  <2>1. length * ElemSize <= length' * ElemSize /\ length * ElemSize \in Nat
        /\ length' * ElemSize \in Nat
    BY <1>1, <1>3, Times
  <2>2. \A i \in 1 .. length : Seen'[i] = Seen[i]
    BY <1>1, <1>3, <2>1, SeenPrefix
  <2>3. SubSeq(Seen', 1, Len(Seen)) = Seen
    BY <1>1, <1>2, <1>3, <2>2
  <2>4. QED BY <1>1, <1>2, <1>3, <2>3
<1>4. CASE length' <= length
  <2>1. length' * ElemSize <= length * ElemSize /\ length' * ElemSize \in Nat
        /\ length * ElemSize \in Nat
    BY <1>1, <1>4, Times
  <2>2. \A i \in 1 .. length' : Seen'[i] = Seen[i]
    BY <1>1, <1>4, <2>1, SeenPrefix
  <2>3. Seen' = SubSeq(Seen, 1, Len(Seen'))
    BY <1>1, <1>2, <1>4, <2>2
  <2>4. QED BY <1>1, <1>2, <1>4, <2>3
<1>5. QED BY <1>1, <1>3, <1>4

LEMMA SeenMove ==
    ASSUME RegSize = ElemSize, IInv, ~Overlaps, NEW d \in Nat \ {0}, NEW s \in Nat \ {0}, NEW n \in Nat \ {0},
           CopyTo(d, s, n)
    PROVE  /\ d + n - 1 <= Len(Seen) /\ s + n - 1 <= Len(Seen)
           /\ Seen' = [i \in 1 .. Len(Seen) |->
                          IF i \in d .. d + n - 1 THEN Seen[s + i - d] ELSE Seen[i]]
<1>1. /\ length' = length /\ d + n - 1 <= length /\ s + n - 1 <= length
      /\ \A k \in 0 .. n * ElemSize - 1 :
             ByteAt((d - 1) * ElemSize + k)' = ByteAt((s - 1) * ElemSize + k)
      /\ \A k \in Int : \/ k < (d - 1) * ElemSize
                       \/ (d - 1) * ElemSize + n * ElemSize <= k => ByteAt(k)' = ByteAt(k)
  BY CopySteps
<1>2. length \in Nat /\ Len(Seen) = length /\ ElemSize \in Nat \ {0}
  BY SizesAssumption DEF Seen, IInv, TypeOK
<1>3. ASSUME NEW i \in d .. d + n - 1 PROVE Decoded(i)' = Decoded(s + i - d)
  <2> DEFINE j == s + i - d
             m == i - d
  <2>1. /\ i \in Nat \ {0} /\ j \in Nat \ {0} /\ m \in Nat /\ m + 1 <= n
        /\ i - 1 = (d - 1) + m /\ j - 1 = (s - 1) + m
    BY <1>3
  <2> HIDE DEF j, m
  <2>2. /\ (i - 1) * ElemSize = (d - 1) * ElemSize + m * ElemSize
        /\ (j - 1) * ElemSize = (s - 1) * ElemSize + m * ElemSize
    BY <1>2, <2>1
  <2>3. m * ElemSize \in Nat /\ m * ElemSize + ElemSize <= n * ElemSize /\ n * ElemSize \in Nat
    <3>1. (m + 1) * ElemSize = m * ElemSize + ElemSize /\ m * ElemSize \in Nat
      BY <1>2, <2>1
    <3>2. (m + 1) * ElemSize <= n * ElemSize /\ n * ElemSize \in Nat
      BY <2>1, Times
    <3>3. QED BY <3>1, <3>2
  <2>4. (d - 1) * ElemSize \in Nat /\ (s - 1) * ElemSize \in Nat
    BY OffsetsIn
  <2>5. ASSUME NEW o \in 0 .. ElemSize - 1
        PROVE  ByteAt((i - 1) * ElemSize + o)' = ByteAt((j - 1) * ElemSize + o)
    <3> DEFINE k == m * ElemSize + o
    <3>1. /\ k \in 0 .. n * ElemSize - 1
          /\ (i - 1) * ElemSize + o = (d - 1) * ElemSize + k
          /\ (j - 1) * ElemSize + o = (s - 1) * ElemSize + k
      <4>1. k \in Nat /\ k <= n * ElemSize - 1
        BY <1>2, <2>3
      <4>2. (i - 1) * ElemSize + o = (d - 1) * ElemSize + k
        BY <2>2, <2>3, <2>4
      <4>3. (j - 1) * ElemSize + o = (s - 1) * ElemSize + k
        BY <2>2, <2>3, <2>4
      <4>4. QED BY <2>3, <4>1, <4>2, <4>3
    <3> HIDE DEF k
    <3>2. QED BY <1>1, <3>1
  <2>6. Decoded(i)' = Decoded(j)
    BY <2>1, <2>5, SameBytes
  <2>7. QED BY <2>6 DEF j
<1>4. ASSUME NEW i \in 1 .. length, i \notin d .. d + n - 1 PROVE Decoded(i)' = Decoded(i)
  <2>1. i \in Nat \ {0} /\ (i < d \/ d + n <= i)
    BY <1>2, <1>4
  <2>2. /\ (d - 1) * ElemSize + n * ElemSize = (d + n - 1) * ElemSize
        /\ d + n - 1 \in Nat /\ d - 1 \in Nat /\ i - 1 \in Nat
    BY <1>2, <2>1
  <2>3. /\ i < d => i * ElemSize <= (d - 1) * ElemSize
        /\ d + n <= i => (d + n - 1) * ElemSize <= (i - 1) * ElemSize
    <3>1. i < d => i * ElemSize <= (d - 1) * ElemSize
      BY <2>1, Disjoint
    <3>2. d + n <= i => d + n - 1 <= i - 1
      BY <2>1
    <3>3. d + n - 1 <= i - 1 => (d + n - 1) * ElemSize <= (i - 1) * ElemSize
      BY <2>2, Times
    <3>4. QED BY <3>1, <3>2, <3>3
  <2>4. /\ (d - 1) * ElemSize \in Nat /\ i * ElemSize \in Nat
        /\ (i - 1) * ElemSize \in Nat /\ (d + n - 1) * ElemSize \in Nat
    BY <2>1, <2>2, Times
  <2>5. ASSUME NEW k \in Int, (i - 1) * ElemSize <= k, k < i * ElemSize
        PROVE  k < (d - 1) * ElemSize \/ (d - 1) * ElemSize + n * ElemSize <= k
    BY <2>1, <2>2, <2>3, <2>4, <2>5
  <2>6. QED BY <1>1, <2>1, <2>5, KeptElement
<1>5. Seen' = [i \in 1 .. length |-> Decoded(i)']
  BY <1>1 DEF Seen
<1>6. ASSUME NEW i \in 1 .. length
      PROVE  Decoded(i)' = IF i \in d .. d + n - 1 THEN Seen[s + i - d] ELSE Seen[i]
  <2>1. CASE i \in d .. d + n - 1
    <3>1. s + i - d \in 1 .. length
      BY <1>1, <1>2, <2>1
    <3>2. QED BY <1>3, <2>1, <3>1 DEF Seen
  <2>2. CASE i \notin d .. d + n - 1
    BY <1>4, <2>2 DEF Seen
  <2>3. QED BY <2>1, <2>2
<1>7. QED BY <1>1, <1>2, <1>5, <1>6

LEMMA InitRefines == ASSUME RegSize = ElemSize PROVE Init => Vector!Init
<1> SUFFICES ASSUME Init PROVE Vector!Init
  OBVIOUS
<1>1. Seen \in Seq(Vector!Element)
  BY InitInv, SeenInit
<1>2. QED BY <1>1 DEF Seen, Vector!Init

LEMMA ResizedRefines ==
    ASSUME \/ Len(Seen') >= Len(Seen) /\ SubSeq(Seen', 1, Len(Seen)) = Seen
           \/ Len(Seen') \in 0 .. Len(Seen) /\ Seen' = SubSeq(Seen, 1, Len(Seen')),
           \A i \in 1 .. Len(Seen') : Seen'[i] \in Vector!Element
    PROVE  Vector!Next
<1>1. CASE Len(Seen') >= Len(Seen) /\ SubSeq(Seen', 1, Len(Seen)) = Seen
  <2>1. Vector!Extend(Len(Seen'))
    BY <1>1 DEF Vector!Extend, Seen, Vector!Element
  <2>2. QED BY <2>1 DEF Vector!Next, Seen
<1>2. CASE Len(Seen') \in 0 .. Len(Seen) /\ Seen' = SubSeq(Seen, 1, Len(Seen'))
  <2>1. Vector!Cut(Len(Seen'))
    BY <1>2 DEF Vector!Cut, Seen
  <2>2. QED BY <2>1 DEF Vector!Next, Seen
<1>3. QED BY <1>1, <1>2

LEMMA NextRefines ==
    ASSUME Sound, IInv, IInv', [Next]_vars
    PROVE  Vector!Next \/ Seen' = Seen
<1>1. CASE UNCHANGED vars
  BY <1>1 DEF vars, Seen, Decoded, Loaded, LoadSize, Undef, ByteAt
<1>2. CASE Next
  <2>1. ASSUME NEW i \in Nat, NEW v \in Values, SetIndex(i, v) PROVE Vector!Next
    <3>1. i \in 1 .. Len(Seen) /\ Seen' = [Seen EXCEPT ![i] = v]
      BY <2>1, SeenStore DEF Sound
    <3>2. Vector!Store(i, v)
      BY <3>1 DEF Vector!Store, Seen
    <3>3. QED BY <3>1, <3>2 DEF Vector!Next, Seen
  <2>2. ASSUME NEW d \in Nat \ {0}, NEW s \in Nat \ {0}, NEW n \in Nat \ {0}, CopyTo(d, s, n)
        PROVE  Vector!Next
    <3>1. /\ d + n - 1 <= Len(Seen) /\ s + n - 1 <= Len(Seen)
          /\ Seen' = [i \in 1 .. Len(Seen) |->
                         IF i \in d .. d + n - 1 THEN Seen[s + i - d] ELSE Seen[i]]
      BY <2>2, SeenMove DEF Sound
    <3>2. Vector!Move(d, s, n)
      BY <3>1 DEF Vector!Move, Seen
    <3>3. Len(Seen) \in Nat
      BY DEF Seen, IInv, TypeOK
    <3>4. d \in 1 .. Len(Seen) /\ s \in 1 .. Len(Seen) /\ n \in 1 .. Len(Seen)
      BY <3>1, <3>3
    <3>5. QED BY <3>2, <3>4 DEF Vector!Next, Seen
  <2>3. ASSUME length' \in Nat,
               \A k \in Int : /\ 0 <= k
                            /\ k < length * ElemSize
                            /\ k < length' * ElemSize => ByteAt(k)' = ByteAt(k)
        PROVE  Vector!Next
    <3>1. \A i \in 1 .. Len(Seen') : Seen'[i] \in Vector!Element
      <4>1. \A i \in 1 .. length' : Decoded(i)' \in Vector!Element
        BY <2>3, DecodedElementAfter DEF Sound
      <4>2. QED BY <2>3, <4>1 DEF Seen
    <3>2. QED BY <2>3, <3>1, SeenResized, ResizedRefines DEF Sound
  <2>4. ASSUME NEW n \in Int, SetSize(n) PROVE Vector!Next
    <3>1. length' \in Nat /\ bytes' = bytes
      BY <2>4 DEF SetSize
    <3>2. QED BY <3>1, <2>3 DEF ByteAt
  <2>5. ASSUME NEW delta \in Nat, GrowEnd(delta, ElemSize) PROVE Vector!Next
    <3>1. /\ length' \in Nat /\ length * ElemSize \in Nat
          /\ \A k \in 0 .. length * ElemSize - 1 : ByteAt(k)' = ByteAt(k)
      <4>1. length \in Nat /\ length' \in Nat
        BY DEF IInv, TypeOK
      <4>2. length * ElemSize \in Nat
        BY <4>1, SizesAssumption
      <4>3. QED BY <2>5, <4>1, <4>2, GrowSteps
    <3>2. QED BY <3>1, <2>3
  <2>6. ASSUME NEW dec \in Nat, dec <= length, DelEnd(dec, ElemSize) PROVE Vector!Next
    <3>1. /\ length' = length - dec /\ length' \in Nat
          /\ \A k \in 0 .. (length - dec) * ElemSize - 1 : ByteAt(k)' = ByteAt(k)
      BY <2>6, DelSteps DEF IInv, TypeOK
    <3>2. length' * ElemSize \in Nat /\ length' * ElemSize = (length - dec) * ElemSize
      BY <3>1, Times
    <3>3. QED BY <3>1, <3>2, <2>3
  <2>7. QED BY <1>2, <2>1, <2>2, <2>4, <2>5, <2>6, NextCases
<1>3. QED BY <1>1, <1>2

\* The vector of compiled code implements Julia's: whatever is run, elements
\* keep their values through every resize, copy and size update.
THEOREM VectorImplements == ASSUME Sound PROVE Spec => ImplementsVector
<1>1. Init => Vector!Init BY InitRefines DEF Sound
<1>2. IInv /\ IInv' /\ [Next]_vars => [Vector!Next]_[i \in 1 .. length |-> Decoded(i)]
  BY NextRefines DEF Seen
<1>3. QED BY <1>1, <1>2, Invariance, PTL DEF Spec, ImplementsVector, Vector!Spec
=============================================================================
