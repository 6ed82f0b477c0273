---------------------------- MODULE ArenaProofs ----------------------------
(***************************************************************************)
(* The arena keeps its promise for every block size, every set of request  *)
(* sizes and every behaviour of the system allocator.                      *)
(***************************************************************************)
EXTENDS Arena, FiniteSetTheorems, TLAPS

\* Bumping stays inside the block it started in: the open block, when there
\* is one, ends exactly where the remaining bytes end.  A block made to
\* measure for a large request has no room for anything else.
OpenBlock ==
    \/ blocks = {} /\ current = 0 /\ remaining = 0
    \/ \E b \in blocks :
          /\ b.base <= current /\ current + remaining = BlockEnd(b)
          /\ \/ b.cap = BlockSize
             \/ remaining = 0
             \/ depth = 2 /\ req = remaining /\ req > BlockSize

BlocksApart ==
    \A b, c \in blocks : b = c \/ BlockEnd(b) <= c.base \/ BlockEnd(c) <= b.base

BlocksAligned == \A b \in blocks : b.base % Align = 0 /\ b.base > 0

\* No owned range reaches into the bytes still to be handed out.
FreeTail ==
    \A r \in live :
        /\ r.ptr % Align = 0
        /\ End(r) <= current \/ current + remaining <= r.ptr

\* What the running call knows: it asked for a size of usize, an empty
\* request has a block to point into, and the retry finds room.
CallOK ==
    /\ req <= MaxUsize /\ remaining <= MaxLayout
    /\ depth > 0 /\ req = 0 => blocks # {}
    /\ depth > 1 => depth = 2 /\ current % Align = 0 /\ req <= remaining

IInv ==
    /\ TypeOK
    /\ OpenBlock
    /\ BlocksApart
    /\ BlocksAligned
    /\ FreeTail
    /\ CallOK
    /\ Exclusive
    /\ InsideBlock

-----------------------------------------------------------------------------
(* Rounding                                                                *)

\* Rounding an address up gives an aligned address less than 16 bytes away.
LEMMA RoundFacts ==
    ASSUME NEW a \in Nat
    PROVE  /\ Padding(a) \in Nat /\ Round(a) \in Nat
           /\ Round(a) = a + Padding(a)
           /\ Round(a) % Align = 0
           /\ a % Align = 0 => Padding(a) = 0
BY DEF Round, Padding, Align, Promise!Round, Promise!Padding, Promise!Align

\* ... and the least such address.
LEMMA RoundLeast ==
    ASSUME NEW a \in Nat, NEW m \in Nat, m % Align = 0, a <= m
    PROVE  Round(a) <= m
BY DEF Round, Padding, Align, Promise!Round, Promise!Padding, Promise!Align

\* Ranges that share no byte share no slack either, if the later is aligned.
LEMMA BeforeByEnd ==
    ASSUME NEW r \in Promise!Ranges, NEW s \in Promise!Ranges,
           s.ptr % Align = 0, End(r) <= s.ptr
    PROVE  Promise!Before(r, s)
<1>1. End(r) \in Nat /\ s.ptr \in Nat
  BY DEF End, Promise!End, Promise!Ranges
<1>2. QED BY <1>1, RoundLeast DEF Promise!Before, Round, End

-----------------------------------------------------------------------------
(* The inductive invariant                                                 *)

LEMMA InitInv == Init => IInv
<1>1. Init => TypeOK
  <2>1. Init => aborted \in BOOLEAN
    BY Zenon DEF Init
  <2>2. 0 \in Nat
    OBVIOUS
  <2>3. QED BY <2>1, <2>2, Zenon DEF Init, TypeOK
<1>2. Init => OpenBlock /\ BlocksApart /\ BlocksAligned /\ FreeTail
  BY DEF Init, OpenBlock, BlocksApart, BlocksAligned, FreeTail
<1>3. Init => CallOK
  BY LimitsAssumption DEF Init, CallOK
<1>4. Init => Exclusive /\ InsideBlock
  BY DEF Init, Exclusive, InsideBlock
<1>5. QED BY <1>1, <1>2, <1>3, <1>4 DEF IInv

LEMMA CallBumpInv ==
    ASSUME IInv, NEW size \in Sizes, CallBump(size)
    PROVE  IInv'
BY SizesAssumption, LimitsAssumption
DEF CallBump, IInv, TypeOK, OpenBlock, BlocksApart, BlocksAligned, FreeTail,
    CallOK, Exclusive, InsideBlock, BlockEnd, Blocks, Promise!Ranges

\* A request that fits is placed at the next aligned address of the open
\* block, and the end of the remaining bytes does not move.
LEMMA PlaceStep ==
    ASSUME IInv, Place
    PROVE  /\ Round(current) \in Nat /\ Round(current) % Align = 0
           /\ current <= Round(current)
           /\ current' = Round(current) + req
           /\ remaining' = remaining - (Padding(current) + req)
           /\ remaining' \in Nat
           /\ current' + remaining' = current + remaining
<1>1. current \in Nat /\ remaining \in Nat /\ req \in Nat /\ remaining <= MaxLayout
  BY DEF IInv, TypeOK, CallOK
<1>2. Padding(current) \in Nat /\ Round(current) \in Nat
      /\ Round(current) = current + Padding(current) /\ Round(current) % Align = 0
  BY <1>1, RoundFacts
<1>3. Needed(req) = req + Padding(current) /\ Needed(req) <= remaining
  BY <1>1, <1>2, LimitsAssumption DEF Place, Fits, Needed
<1>4. QED BY <1>1, <1>2, <1>3 DEF Place

LEMMA PlaceInv ==
    ASSUME IInv, Place
    PROVE  IInv'
<1> DEFINE r0 == [ptr |-> Round(current), size |-> req]
<1>1. /\ Round(current) \in Nat /\ Round(current) % Align = 0
      /\ current <= Round(current)
      /\ current' = Round(current) + req
      /\ remaining' = remaining - (Padding(current) + req)
      /\ remaining' \in Nat
      /\ current' + remaining' = current + remaining
  BY PlaceStep
<1>2. /\ current \in Nat /\ remaining \in Nat /\ req \in Nat /\ depth \in Nat
      /\ allocated \in Nat /\ live \subseteq Promise!Ranges /\ blocks \subseteq Blocks
  BY DEF IInv, TypeOK
<1>3. /\ live' = live \cup {r0} /\ blocks' = blocks /\ depth' = 0 /\ req' = 0
      /\ allocated' = allocated + req /\ aborted' = aborted
  BY DEF Place
<1>4. /\ r0 \in Promise!Ranges /\ r0.ptr = Round(current) /\ r0.size = req
      /\ End(r0) = current'
  BY <1>1, <1>2 DEF Promise!Ranges, End, Promise!End
<1> HIDE DEF r0
<1>5. TypeOK'
  BY <1>1, <1>2, <1>3, <1>4 DEF TypeOK, IInv
<1>6. PICK b \in blocks :
          /\ b.base <= current /\ current + remaining = BlockEnd(b)
          /\ \/ b.cap = BlockSize
             \/ remaining = 0
             \/ depth = 2 /\ req = remaining /\ req > BlockSize
  <2>1. Padding(current) + req <= remaining
    BY <1>1, <1>2, RoundFacts
  <2>2. blocks = {} => remaining = 0
    BY DEF IInv, OpenBlock
  <2>3. req = 0 => blocks # {}
    BY DEF IInv, CallOK, Place
  <2>4. remaining = 0 => req = 0
    BY <1>2, <2>1, RoundFacts
  <2>5. QED BY <2>2, <2>3, <2>4 DEF IInv, OpenBlock
<1>7. /\ b.base \in Nat /\ b.cap \in Nat /\ BlockEnd(b) \in Nat
      /\ b.base % Align = 0
  BY <1>2 DEF Blocks, BlockEnd, IInv, BlocksAligned
<1>8. b.cap = BlockSize => BlockEnd(b) % Align = 0
  BY <1>7, BlockSizeAssumption DEF BlockEnd, Align, Promise!Align
<1>9. OpenBlock'
  <2>1. b.base <= current' /\ current' + remaining' = BlockEnd(b)
    BY <1>1, <1>2, <1>6, <1>7
  <2>2. b.cap = BlockSize \/ remaining' = 0
    <3>1. CASE b.cap = BlockSize BY <3>1
    <3>2. CASE remaining = 0 BY <3>2, <1>1, <1>2, RoundFacts
    <3>3. CASE depth = 2 /\ req = remaining BY <3>3, <1>1, <1>2, RoundFacts
    <3>4. QED BY <1>6, <3>1, <3>2, <3>3
  <2>3. QED BY <2>1, <2>2, <1>3, <1>6 DEF OpenBlock, BlockEnd
<1>10. BlocksApart' /\ BlocksAligned'
  BY <1>3 DEF IInv, BlocksApart, BlocksAligned, BlockEnd
<1>11. FreeTail'
  <2> SUFFICES ASSUME NEW r \in live'
               PROVE  /\ r.ptr % Align = 0
                      /\ End(r) <= current' \/ current' + remaining' <= r.ptr
    BY DEF FreeTail, End
  <2>1. CASE r = r0
    BY <2>1, <1>1, <1>4
  <2>2. CASE r \in live
    <3>1. End(r) \in Nat /\ r.ptr \in Nat
      BY <2>2, <1>2 DEF End, Promise!End, Promise!Ranges
    <3>2. r.ptr % Align = 0 /\ (End(r) <= current \/ current + remaining <= r.ptr)
      BY <2>2 DEF IInv, FreeTail
    <3>3. QED BY <3>1, <3>2, <1>1, <1>2
  <2>3. QED BY <2>1, <2>2, <1>3
<1>12. CallOK'
  BY <1>1, <1>2, <1>3, LimitsAssumption, RoundFacts DEF IInv, CallOK
<1>13. ASSUME NEW s \in live
       PROVE  Promise!Before(s, r0) \/ Promise!Before(r0, s)
  <2>1. s \in Promise!Ranges /\ End(s) \in Nat /\ s.ptr \in Nat
    BY <1>2 DEF End, Promise!End, Promise!Ranges
  <2>2. s.ptr % Align = 0 /\ (End(s) <= current \/ current + remaining <= s.ptr)
    BY DEF IInv, FreeTail
  <2>3. CASE End(s) <= current
    BY <2>1, <2>3, <1>1, <1>2, <1>4, BeforeByEnd
  <2>4. CASE current + remaining <= s.ptr
    BY <2>1, <2>2, <2>4, <1>1, <1>2, <1>4, BeforeByEnd
  <2>5. QED BY <2>2, <2>3, <2>4
<1>14. Exclusive'
  BY <1>3, <1>13 DEF IInv, Exclusive
<1>15. InsideBlock'
  <2>1. b.base <= r0.ptr /\ End(r0) <= BlockEnd(b)
    BY <1>1, <1>2, <1>4, <1>6, <1>7
  <2>2. r0.size <= BlockSize => Round(End(r0)) <= BlockEnd(b)
    <3>0. End(r0) \in Nat
      BY <1>1, <1>2, <1>4
    <3>1. CASE b.cap = BlockSize
      BY <3>0, <3>1, <1>7, <1>8, <2>1, RoundLeast
    <3>2. CASE remaining = 0
      <4>1. req = 0 /\ End(r0) = Round(current)
        BY <3>2, <1>1, <1>2, <1>4, RoundFacts
      <4>2. QED BY <4>1, <3>0, <1>1, <2>1, RoundFacts
    <3>3. CASE req > BlockSize
      BY <3>3, <1>2, <1>4, BlockSizeAssumption
    <3>4. QED BY <1>6, <3>1, <3>2, <3>3
  <2>3. QED BY <2>1, <2>2, <1>3 DEF IInv, InsideBlock, BlockEnd, End
<1>16. QED BY <1>5, <1>9, <1>10, <1>11, <1>12, <1>14, <1>15 DEF IInv

\* A fresh block is aligned, apart from the others, and big enough for the
\* request that asked for it.
LEMMA FreshBlockInv ==
    ASSUME IInv, NEW base \in Bases, FreshBlock(base)
    PROVE  IInv'
<1> DEFINE b0 == [base |-> base, cap |-> FreshSize]
<1>1. base \in Nat /\ base > 0 /\ base % Align = 0
  BY BasesAssumption
<1>2. /\ current \in Nat /\ remaining \in Nat /\ req \in Nat /\ depth \in Nat
      /\ live \subseteq Promise!Ranges /\ blocks \subseteq Blocks
      /\ req <= MaxUsize
  BY DEF IInv, TypeOK, CallOK
<1>3. /\ FreshSize \in Nat /\ req <= FreshSize /\ BlockSize <= FreshSize
      /\ FreshSize = BlockSize \/ (FreshSize = req /\ req > BlockSize)
      /\ FreshSize <= MaxLayout
  BY <1>2, BlockSizeAssumption DEF FreshSize, FreshBlock
<1>4. /\ blocks' = blocks \cup {b0} /\ current' = base /\ remaining' = FreshSize
      /\ depth' = depth + 1
      /\ UNCHANGED <<allocated, req, aborted, live>>
  BY DEF FreshBlock
<1>5. /\ b0 \in Blocks /\ b0.base = base /\ b0.cap = FreshSize
      /\ BlockEnd(b0) = base + FreshSize
  BY <1>1, <1>3 DEF Blocks, BlockEnd
<1> HIDE DEF b0
<1>6. \A b \in blocks : BlockEnd(b0) <= b.base \/ BlockEnd(b) <= base
  BY <1>5 DEF FreshBlock, Available
\* The call had not retried yet: what is left after a retry is enough.
<1>7. depth = 1
  <2>1. CASE depth > 1
    <3>1. req <= remaining /\ Padding(current) = 0
      BY <2>1, <1>2, RoundFacts DEF IInv, CallOK
    <3>2. Needed(req) <= remaining
      BY <3>1, <1>2, LimitsAssumption DEF Needed
    <3>3. QED BY <3>2 DEF FreshBlock, Fits
  <2>2. QED BY <2>1, <1>2 DEF FreshBlock
<1>8. TypeOK'
  BY <1>1, <1>2, <1>3, <1>4, <1>5 DEF TypeOK, IInv
<1>9. OpenBlock'
  <2>1. b0 \in blocks' /\ b0.base <= current' /\ current' + remaining' = BlockEnd(b0)
    BY <1>1, <1>4, <1>5
  <2>2. b0.cap = BlockSize \/ (depth' = 2 /\ req' = remaining' /\ req' > BlockSize)
    BY <1>3, <1>4, <1>5, <1>7
  <2>3. QED BY <2>1, <2>2 DEF OpenBlock, BlockEnd
<1>10. BlocksApart' /\ BlocksAligned'
  BY <1>1, <1>4, <1>5, <1>6 DEF IInv, BlocksApart, BlocksAligned, BlockEnd
<1>11. FreeTail'
  <2> SUFFICES ASSUME NEW r \in live
               PROVE  /\ r.ptr % Align = 0
                      /\ End(r) <= current' \/ current' + remaining' <= r.ptr
    BY <1>4 DEF FreeTail, End
  <2>1. PICK b \in blocks : b.base <= r.ptr /\ End(r) <= BlockEnd(b)
    BY DEF IInv, InsideBlock
  <2>2. /\ End(r) \in Nat /\ r.ptr \in Nat
        /\ b.base \in Nat /\ BlockEnd(b) \in Nat
    BY <1>2 DEF End, Promise!End, Promise!Ranges, Blocks, BlockEnd
  <2>3. BlockEnd(b0) <= b.base \/ BlockEnd(b) <= base
    BY <1>6
  <2>4. End(r) <= base \/ base + FreshSize <= r.ptr
    BY <2>1, <2>2, <2>3, <1>1, <1>3, <1>5
  <2>5. QED BY <2>4, <1>4 DEF IInv, FreeTail
<1>12. CallOK'
  BY <1>1, <1>2, <1>3, <1>4, <1>5, <1>7 DEF CallOK
<1>13. Exclusive'
  BY <1>4 DEF IInv, Exclusive
<1>14. InsideBlock'
  BY <1>4 DEF IInv, InsideBlock, BlockEnd, End
<1>15. QED BY <1>8, <1>9, <1>10, <1>11, <1>12, <1>13, <1>14 DEF IInv

LEMMA AbortInv ==
    ASSUME IInv, LayoutPanic \/ OutOfMemory
    PROVE  IInv'
BY DEF LayoutPanic, OutOfMemory, IInv, TypeOK, OpenBlock, BlocksApart,
    BlocksAligned, FreeTail, CallOK, Exclusive, InsideBlock, BlockEnd, End

LEMMA ResetInv ==
    ASSUME IInv, Reset
    PROVE  IInv'
<1>1. /\ blocks' = {} /\ current' = 0 /\ remaining' = 0 /\ allocated' = 0
      /\ live' = {} /\ depth = 0 /\ UNCHANGED <<depth, req, aborted>>
  BY DEF Reset
<1>2. TypeOK'
  BY <1>1 DEF TypeOK, IInv
<1>3. OpenBlock' /\ BlocksApart' /\ BlocksAligned' /\ FreeTail' /\ Exclusive' /\ InsideBlock'
  BY <1>1 DEF OpenBlock, BlocksApart, BlocksAligned, FreeTail, Exclusive, InsideBlock
<1>4. CallOK'
  BY <1>1, LimitsAssumption DEF IInv, CallOK
<1>5. QED BY <1>2, <1>3, <1>4 DEF IInv

LEMMA StutterInv ==
    ASSUME IInv, UNCHANGED vars
    PROVE  IInv'
BY DEF vars, IInv, TypeOK, OpenBlock, BlocksApart, BlocksAligned, FreeTail,
    CallOK, Exclusive, InsideBlock, BlockEnd, End

LEMMA StepInv == IInv /\ [Next]_vars => IInv'
<1> SUFFICES ASSUME IInv, [Next]_vars
             PROVE  IInv'
  OBVIOUS
<1>1. CASE Place
  BY <1>1, PlaceInv
<1>2. CASE LayoutPanic \/ OutOfMemory
  BY <1>2, AbortInv
<1>3. CASE \E base \in Bases : FreshBlock(base)
  BY <1>3, FreshBlockInv
<1>4. CASE Reset
  BY <1>4, ResetInv
<1>5. CASE \E size \in Sizes : CallBump(size)
  BY <1>5, CallBumpInv
<1>6. CASE UNCHANGED vars
  BY <1>6, StutterInv
<1>7. QED BY <1>1, <1>2, <1>3, <1>4, <1>5, <1>6 DEF Next, Bump

THEOREM Invariance == Spec => []IInv
BY InitInv, StepInv, PTL DEF Spec

-----------------------------------------------------------------------------
(* What follows                                                            *)

\* The arena's variables always hold what their Rust types say: bump never
\* makes `remaining` negative.
THEOREM TypeCorrect == Spec => []TypeOK
<1>1. IInv => TypeOK
  BY DEF IInv
<1>2. QED BY <1>1, Invariance, PTL

\* No two allocations of an epoch overlap, alignment slack included.
THEOREM AllocationsExclusive == Spec => []Exclusive
<1>1. IInv => Exclusive
  BY DEF IInv
<1>2. QED BY <1>1, Invariance, PTL

\* Every allocation the program still owns lies in a block still held.
THEOREM AllocationsInsideBlock == Spec => []InsideBlock
<1>1. IInv => InsideBlock
  BY DEF IInv
<1>2. QED BY <1>1, Invariance, PTL

\* bump recurses at most once.
THEOREM OneRetry == Spec => []RetriesOnce
<1>1. IInv => RetriesOnce
  BY DEF IInv, TypeOK, CallOK, RetriesOnce
<1>2. QED BY <1>1, Invariance, PTL

-----------------------------------------------------------------------------
(* The usage counter counts bytes                                          *)

\* There are finitely many owned bytes, and the counter is their number.
UsageInv == IsFiniteSet(Owned) /\ allocated = Cardinality(Owned)

\* A range has as many bytes as its size says.
LEMMA BytesFacts ==
    ASSUME NEW r \in Promise!Ranges
    PROVE  IsFiniteSet(Bytes(r)) /\ Cardinality(Bytes(r)) = r.size
<1>1. r.ptr \in Nat /\ r.size \in Nat
  BY DEF Promise!Ranges
<1>2. Bytes(r) = r.ptr .. r.ptr + r.size - 1
  BY <1>1 DEF Bytes, End, Promise!End
<1> DEFINE hi == r.ptr + r.size - 1
<1>3. hi \in Int /\ r.ptr \in Int
  BY <1>1
<1>4. /\ IsFiniteSet(r.ptr .. hi)
      /\ Cardinality(r.ptr .. hi) = IF r.ptr > hi THEN 0 ELSE hi - r.ptr + 1
  BY <1>3, FS_Interval
<1>5. QED BY <1>1, <1>2, <1>4

\* A placement adds the bytes of the new range, none of which was owned:
\* FreeTail keeps every owned range out of what bump hands out.
LEMMA PlaceUsage ==
    ASSUME IInv, UsageInv, Place
    PROVE  UsageInv'
<1> DEFINE r0 == [ptr |-> Round(current), size |-> req]
<1>1. /\ Round(current) \in Nat
      /\ current <= Round(current)
      /\ current' = Round(current) + req
      /\ remaining' \in Nat
      /\ current' + remaining' = current + remaining
  BY PlaceStep
<1>2. /\ current \in Nat /\ remaining \in Nat /\ req \in Nat /\ allocated \in Nat
      /\ live \subseteq Promise!Ranges
  BY DEF IInv, TypeOK
<1>3. live' = live \cup {r0} /\ allocated' = allocated + req
  BY DEF Place
<1>4. /\ r0 \in Promise!Ranges /\ r0.ptr = Round(current) /\ r0.size = req
      /\ End(r0) = current'
  BY <1>1, <1>2 DEF Promise!Ranges, End, Promise!End
<1> HIDE DEF r0
<1>5. Owned' = Owned \cup Bytes(r0)
  BY <1>3 DEF Owned, Bytes, End
<1>6. ASSUME NEW x \in Owned, x \in Bytes(r0)
      PROVE  FALSE
  <2>1. PICK r \in live : x \in Bytes(r)
    BY DEF Owned
  <2>2. End(r) \in Nat /\ r.ptr \in Nat
    BY <2>1, <1>2 DEF End, Promise!End, Promise!Ranges
  <2>3. End(r) <= current \/ current + remaining <= r.ptr
    BY <2>1 DEF IInv, FreeTail
  <2>4. x \in Int /\ r.ptr <= x /\ x <= End(r) - 1
    BY <2>1, <2>2 DEF Bytes
  <2>5. Round(current) <= x /\ x <= current' - 1
    BY <1>1, <1>2, <1>4, <1>6 DEF Bytes
  <2>6. QED BY <1>1, <1>2, <2>2, <2>3, <2>4, <2>5
<1>7. Owned \cap Bytes(r0) = {}
  BY <1>6
<1>8. IsFiniteSet(Bytes(r0)) /\ Cardinality(Bytes(r0)) = req
  BY <1>4, BytesFacts
<1>9. /\ IsFiniteSet(Owned \cup Bytes(r0))
      /\ Cardinality(Owned \cup Bytes(r0)) =
            Cardinality(Owned) + Cardinality(Bytes(r0)) - Cardinality(Owned \cap Bytes(r0))
  BY <1>8, FS_Union DEF UsageInv
<1>10. Cardinality(Owned \cap Bytes(r0)) = 0
  BY <1>7, FS_EmptySet
<1>11. Cardinality(Owned') = allocated + req
  BY <1>2, <1>5, <1>8, <1>9, <1>10 DEF UsageInv
<1>12. QED BY <1>3, <1>5, <1>9, <1>11 DEF UsageInv

LEMMA ResetUsage ==
    ASSUME Reset
    PROVE  UsageInv'
<1>1. Owned' = {} /\ allocated' = 0
  BY DEF Reset, Owned
<1>2. QED BY <1>1, FS_EmptySet DEF UsageInv

\* After any history of placements, retries and resets __jl_gc_usage reports
\* the number of bytes the program owns.
THEOREM UsageCorrect == Spec => []UsageIsOwned
<1>1. Init => UsageInv
  <2>1. Init => Owned = {} /\ allocated = 0
    BY DEF Init, Owned
  <2>2. QED BY <2>1, FS_EmptySet DEF UsageInv
<1>2. ASSUME IInv, UsageInv, [Next]_vars
      PROVE  UsageInv'
  <2>1. CASE Place
    BY <1>2, <2>1, PlaceUsage
  <2>2. CASE Reset
    BY <2>2, ResetUsage
  <2>3. CASE \/ LayoutPanic \/ OutOfMemory
             \/ \E base \in Bases : FreshBlock(base)
             \/ \E size \in Sizes : CallBump(size)
             \/ UNCHANGED vars
    <3>1. UNCHANGED <<allocated, live>>
      BY <2>3 DEF LayoutPanic, OutOfMemory, FreshBlock, CallBump, vars
    <3>2. Owned' = Owned
      BY <3>1 DEF Owned, Bytes, End
    <3>3. QED BY <1>2, <3>1, <3>2 DEF UsageInv
  <2>4. QED BY <1>2, <2>1, <2>2, <2>3 DEF Next, Bump
<1>3. UsageInv => UsageIsOwned
  BY DEF UsageInv, UsageIsOwned
<1>4. QED BY <1>1, <1>2, <1>3, Invariance, PTL DEF Spec

-----------------------------------------------------------------------------
(* Refinement                                                              *)

\* The arena implements the abstract allocator: a placement is a Grant, a
\* reset is FreeAll, and nothing else is visible to the program.
THEOREM ArenaImplements == Spec => Implements
<1>1. Init => Promise!Init
  BY DEF Init, Promise!Init
<1>2. ASSUME IInv, [Next]_vars
      PROVE  [Promise!Next]_live
  <2>1. CASE Place
    <3> DEFINE r0 == [ptr |-> Round(current), size |-> req]
    <3>1. /\ Round(current) \in Nat /\ Round(current) % Align = 0
          /\ current <= Round(current)
          /\ current' = Round(current) + req
          /\ current' + remaining' = current + remaining
          /\ remaining' \in Nat
      BY <1>2, <2>1, PlaceStep
    <3>2. /\ current \in Nat /\ remaining \in Nat /\ req \in Nat
          /\ live \subseteq Promise!Ranges
      BY <1>2 DEF IInv, TypeOK
    <3>3. /\ r0 \in Promise!Ranges /\ r0.ptr = Round(current) /\ End(r0) = current'
          /\ live' = live \cup {r0}
      BY <2>1, <3>1, <3>2 DEF Place, Promise!Ranges, End, Promise!End
    <3> HIDE DEF r0
    <3>4. ASSUME NEW s \in live
          PROVE  Promise!Before(s, r0) \/ Promise!Before(r0, s)
      <4>1. s \in Promise!Ranges /\ End(s) \in Nat /\ s.ptr \in Nat
        BY <3>2 DEF End, Promise!End, Promise!Ranges
      <4>2. s.ptr % Align = 0 /\ (End(s) <= current \/ current + remaining <= s.ptr)
        BY <1>2 DEF IInv, FreeTail
      <4>3. CASE End(s) <= current
        BY <4>1, <4>3, <3>1, <3>2, <3>3, BeforeByEnd
      <4>4. CASE current + remaining <= s.ptr
        BY <4>1, <4>2, <4>4, <3>1, <3>2, <3>3, BeforeByEnd
      <4>5. QED BY <4>2, <4>3, <4>4
    <3>5. Promise!Grant(r0)
      BY <3>1, <3>3, <3>4 DEF Promise!Grant, Align
    <3>6. QED BY <3>3, <3>5 DEF Promise!Next
  <2>2. CASE Reset
    BY <2>2 DEF Reset, Promise!Next, Promise!FreeAll
  <2>3. CASE \/ LayoutPanic \/ OutOfMemory
             \/ \E base \in Bases : FreshBlock(base)
             \/ \E size \in Sizes : CallBump(size)
             \/ UNCHANGED vars
    BY <2>3 DEF LayoutPanic, OutOfMemory, FreshBlock, CallBump, vars
  <2>4. QED BY <1>2, <2>1, <2>2, <2>3 DEF Next, Bump
<1>3. QED BY <1>1, <1>2, Invariance, PTL DEF Spec, Implements, Promise!Spec
=============================================================================
