------------------------------- MODULE JArray -------------------------------
(***************************************************************************)
(* The Vector of compiled code: a JuliaArrayRepr over a Memory object, and *)
(* the runtime functions that build and resize it (native-backend/src/     *)
(* runtime/gc.rs), called with the element sizes the emitter passes        *)
(* (NativeCodegen/src/builder_emit.jl).  Element data is kept byte by byte *)
(* because those sizes are what can be wrong: a stored value v fills all   *)
(* bytes of its element with v.                                            *)
(***************************************************************************)
EXTENDS Integers, Sequences

CONSTANTS
    ElemSize,       \* sizeof of the element type: _elem_size(T)
    PtrSize,        \* 8, the size emitted where the type is not consulted
    RegSize,        \* bytes of the register an element is stored from
    Values,         \* what the program stores
    Junk,           \* a byte nobody has written: arena memory is not cleared
    Overlaps,       \* programs copy between ranges of a vector that overlap
    MaxLength       \* bound: elements of a vector

VARIABLES
    length,         \* JuliaArrayRepr.length, the :size of the Vector
    capacity,       \* JuliaArrayRepr.capacity
    memLength,      \* the length field of the Memory at mem_obj
    bytes,          \* the element data of that Memory, from byte 0 on
    stray           \* history: a byte outside the Memory has been written

vars == <<length, capacity, memLength, bytes, stray>>

ASSUME SizesAssumption ==
    /\ ElemSize \in Nat \ {0} /\ PtrSize \in Nat \ {0} /\ RegSize \in Nat \ {0}
    /\ MaxLength \in Nat
    /\ Overlaps \in BOOLEAN
ASSUME ValuesAssumption == 0 \notin Values /\ Junk \notin Values \cup {0}

Byte == Values \cup {0, Junk}

\* The arena rounds what it hands out up to 16 bytes.
Usable(n) == IF n % 16 = 0 THEN n ELSE n + 16 - (n % 16)

TypeOK ==
    /\ length \in Nat /\ capacity \in Nat /\ memLength \in Nat
    /\ bytes \in Seq(Byte)
    /\ stray \in BOOLEAN

Clear(n) == [k \in 1 .. n |-> Junk]
ByteAt(k) == IF k + 1 \in 1 .. Len(bytes) THEN bytes[k + 1] ELSE Junk

\* The bytes of a write of n bytes at offset start land in the Memory; a
\* write beyond its slack hits whatever object follows.
Write(start, n, b) ==
    /\ bytes' = [k \in 1 .. Len(bytes) |->
                    IF start < k /\ k <= start + n THEN b ELSE bytes[k]]
    /\ stray' = (stray \/ (n > 0 /\ start + n > Usable(Len(bytes))))

-----------------------------------------------------------------------------
\* emit_memorynew and emit_new of an array: __jl_gc_alloc_array_julia for the
\* elements, __jl_array_new_1d for the wrapper.
NewVector(n) ==
    /\ length = n /\ capacity = n /\ memLength = n
    /\ bytes = Clear(n * ElemSize)
    /\ stray = FALSE

Init == \E n \in 0 .. MaxLength : NewVector(n)

\* memoryrefset!, after Julia's own bounds check.  The store has the width of
\* the register: 4 bytes for sub-words, 8 for the address of a large element.
SetIndex(i, v) ==
    /\ i \in 1 .. length
    /\ Write((i - 1) * ElemSize, RegSize, v)
    /\ UNCHANGED <<length, capacity, memLength>>

\* __jl_memcpy of n bytes within the Memory.  Where the ranges overlap
\* copy_nonoverlapping is undefined: the bytes are moved one by one, upwards
\* or downwards, and a byte that was overwritten is read again.  (A build with
\* checks stops the process instead.)
Memcpy(d, s, n, up) ==
    LET At(i) == IF up THEN IF d > s THEN i % (d - s) ELSE i
                 ELSE IF d < s THEN n - 1 - ((n - 1 - i) % (s - d)) ELSE i
    IN  /\ bytes' = [k \in 1 .. Len(bytes) |->
                        IF d < k /\ k <= d + n
                        THEN ByteAt(s + At(k - 1 - d)) ELSE bytes[k]]
        /\ stray' = (stray \/ (n > 0 /\ d + n > Usable(Len(bytes))))

\* unsafe_copyto! of n elements of the vector from s on to d, in bounds.
CopyTo(d, s, n) ==
    /\ d + n - 1 <= length /\ s + n - 1 <= length
    /\ Overlaps \/ d + n <= s \/ s + n <= d
    /\ \E up \in BOOLEAN :
          Memcpy((d - 1) * ElemSize, (s - 1) * ElemSize, n * ElemSize, up)
    /\ UNCHANGED <<length, capacity, memLength>>

\* Fault: a negative size is stored as it is.
SetSizeUnclamped(n) ==
    /\ n <= memLength
    /\ length' = n
    /\ UNCHANGED <<capacity, memLength, bytes, stray>>

\* setfield!(a, :size, n), which the emitter clamps at 0.
SetSize(n) ==
    /\ n <= memLength
    /\ length' = IF n < 0 THEN 0 ELSE n
    /\ UNCHANGED <<capacity, memLength, bytes, stray>>

\* Fault: the last old element is not copied.
GrowEndCopiesLess(delta, elemSize) ==
    /\ delta > 0
    /\ LET oldBytes == (length - 1) * elemSize
           newLength == length + delta
       IN  /\ bytes' = [k \in 1 .. newLength * elemSize |->
                            IF k <= oldBytes THEN ByteAt(k - 1) ELSE Junk]
           /\ length' = newLength
           /\ capacity' = newLength
           /\ memLength' = newLength
    /\ UNCHANGED stray

\* Fault: room is made for the new elements only.
GrowEndAllocatesLess(delta, elemSize) ==
    /\ delta > 0
    /\ LET newLength == length + delta
       IN  /\ bytes' = [k \in 1 .. delta * elemSize |-> ByteAt(k - 1)]
           /\ length' = newLength
           /\ capacity' = newLength
           /\ memLength' = newLength
    /\ UNCHANGED stray

\* __jl_array_grow_end: always a new Memory, old elements copied.
GrowEnd(delta, elemSize) ==
    /\ delta > 0
    /\ LET oldBytes == length * elemSize
           newLength == length + delta
       IN  /\ bytes' = [k \in 1 .. newLength * elemSize |->
                            IF k <= oldBytes THEN ByteAt(k - 1) ELSE Junk]
           /\ length' = newLength
           /\ capacity' = newLength
           /\ memLength' = newLength
    /\ UNCHANGED stray

\* Fault: zeroes behind the old end instead of before it.
DelEndZeroesBehind(dec, elemSize) ==
    /\ dec > 0
    /\ LET cut == IF dec < length THEN dec ELSE length
           newLength == length - cut
       IN  /\ Write(length * elemSize, cut * elemSize, 0)
           /\ length' = newLength
           /\ memLength' = newLength
    /\ UNCHANGED capacity

\* Fault: the first removed element is skipped.
DelEndSkipsOne(dec, elemSize) ==
    /\ dec > 0
    /\ LET cut == IF dec < length THEN dec ELSE length
           newLength == length - cut
       IN  /\ Write((newLength + 1) * elemSize, (cut - 1) * elemSize, 0)
           /\ length' = newLength
           /\ memLength' = newLength
    /\ UNCHANGED capacity

\* __jl_array_del_end: the removed elements are zeroed.
DelEnd(dec, elemSize) ==
    /\ dec > 0
    /\ LET cut == IF dec < length THEN dec ELSE length
           newLength == length - cut
       IN  /\ Write(newLength * elemSize, cut * elemSize, 0)
           /\ length' = newLength
           /\ memLength' = newLength
    /\ UNCHANGED capacity

\* invoke _growend_internal!: the element type decides the size.
Push(delta) ==
    /\ length + delta <= MaxLength
    /\ GrowEnd(delta, ElemSize)

\* invoke resize!: __jl_array_resize with the size the emitter wrote down.
Resize(n) ==
    LET wanted == IF n < 0 THEN 0 ELSE n
    IN  \/ wanted > length /\ GrowEnd(wanted - length, PtrSize)
        \/ wanted < length /\ DelEnd(length - wanted, PtrSize)

Next ==
    \/ \E i \in 1 .. MaxLength, v \in Values : SetIndex(i, v)
    \/ \E n \in -1 .. MaxLength : SetSize(n) \/ Resize(n)
    \/ \E delta \in 1 .. MaxLength : Push(delta)
    \/ \E d, s, n \in 1 .. MaxLength : CopyTo(d, s, n)

Spec == Init /\ [][Next]_vars

-----------------------------------------------------------------------------
(* Properties                                                              *)

Offsets(i) == (i - 1) * ElemSize .. i * ElemSize - 1

\* What reading element i gives; memoryrefget loads no more than the element.
Undef == Junk
LoadSize == IF RegSize < ElemSize THEN RegSize ELSE ElemSize
Loaded(i) == (i - 1) * ElemSize .. (i - 1) * ElemSize + LoadSize - 1
Decoded(i) ==
    IF \E v \in Values : \A k \in Loaded(i) : ByteAt(k) = v
    THEN ByteAt((i - 1) * ElemSize)
    ELSE Undef

Vector == INSTANCE VectorSpec WITH vec <- [i \in 1 .. length |-> Decoded(i)]

\* Whatever sequence of push!, resize!, stores, copies and size updates is run,
\* the program sees a Julia Vector: no resize loses or alters an element it
\* keeps, and a copy moves what was there before it.
ImplementsVector == Vector!Spec

\* No store, zero fill or copy leaves the Memory and the slack behind it.
StaysInMemory == ~stray

\* Every element that the wrapper or the Memory claims to have lies inside
\* the bytes that were allocated, although length, capacity and the Memory's
\* own length are updated at different times.
RoomForElements ==
    /\ length <= memLength /\ memLength <= capacity
    /\ capacity * ElemSize <= Usable(Len(bytes))

\* "Zeroes removed elements for GC safety": after a shrinking resize! no byte
\* of a removed element survives.
RemovedAreZero ==
    [][\A n \in 0 .. MaxLength :
         n < length /\ Resize(n) =>
            \A i \in n + 1 .. length : \A k \in Offsets(i) : ByteAt(k)' = 0]_vars
=============================================================================
