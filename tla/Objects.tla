------------------------------ MODULE Objects ------------------------------
(***************************************************************************)
(* Objects in arena memory, byte by byte: the two header layouts of the    *)
(* runtime (native-backend/src/runtime/gc.rs), its Strings (strings.rs),   *)
(* and how compiled code fills and reads structs (NativeCodegen/src/       *)
(* builder_emit.jl).  A Julia object has its type tag in the 8 bytes       *)
(* before its address; a legacy object has a header of 12 bytes.  Objects  *)
(* lie next to each other, the next one 16-aligned, and no memory is       *)
(* cleared.  Null pointers are left out: every function here returns null  *)
(* or does nothing for them.                                               *)
(***************************************************************************)
EXTENDS Integers, Sequences

CONSTANTS
    Base,           \* values of a byte: 256 in the code
    Texts,          \* byte strings Julia Strings are made from
    CTexts,         \* byte strings legacy strings are made from
    StringTag,      \* the type tag of String
    MemoryTag,      \* the type tag of a Memory
    LegacyTags,     \* type_tag of legacy objects; 1 is STRING_TYPE_TAG
    Structs,        \* struct types: [tag, size, fields]
    ElemSize,       \* bytes of an element of a Memory and of a legacy array
    Values,         \* what fields and elements wide enough are set to
    MaxLength,      \* bound: elements of a Memory or a legacy array
    MaxObjects,     \* bound: objects that are made
    MemSize         \* bound: bytes of arena memory

VARIABLES
    mem,            \* the arena's bytes
    top,            \* the bump pointer
    objs,           \* what was handed out: layout, address and fields
    promised        \* the type and the data each object should have

vars == <<mem, top, objs, promised>>

ASSUME BytesAssumption == Base \in Nat \ {0, 1}

Byte == 0 .. Base - 1
Junk == -1          \* a byte nobody has written
JULIA_HEADER_SIZE == 8
HEADER_SIZE == 12
STRING_TYPE_TAG == 1

-----------------------------------------------------------------------------
(* Memory                                                                  *)

\* v without its k lowest bytes, byte k of v, and whether v has w bytes at most.
Shifted(v, k) ==
    LET s[j \in 0 .. k] == IF j = 0 THEN v ELSE s[j - 1] \div Base IN s[k]
Digit(v, k) == Shifted(v, k) % Base
Fits(v, w)  == Shifted(v, w) = 0

\* The w bytes of v stored at a, and n bytes copied to a.
Put(m, a, w, v) ==
    [x \in DOMAIN m |-> IF a <= x /\ x < a + w THEN Digit(v, x - a) ELSE m[x]]
PutBytes(m, a, n, text) ==
    [x \in DOMAIN m |-> IF a <= x /\ x < a + n THEN text[x - a + 1] ELSE m[x]]
Copy(m, dst, src, n) ==
    [x \in DOMAIN m |-> IF dst <= x /\ x < dst + n THEN m[src + x - dst] ELSE m[x]]

\* The number in the w bytes at a, from its highest byte on.
Load(m, a, w) ==
    LET n[k \in 0 .. w] == IF k = 0 THEN 0 ELSE n[k - 1] * Base + m[a + w - k]
    IN  IF \E x \in a .. a + w - 1 : x \notin DOMAIN m \/ m[x] = Junk THEN Junk ELSE n[w]
Num(a, w) == Load(mem, a, w)

\* Where bump_alloc puts the next object (see Arena).
Here == ((top + 15) \div 16) * 16

\* Sizes and type tags are 64 bits wide; the length and the tag of a legacy
\* object are 32 bits, an i32 length is not negative.
ASSUME SizesAssumption ==
    /\ {ElemSize, MaxLength, MaxObjects, MemSize} \subseteq Nat
    /\ Fits(MemSize, 8) /\ Fits(MaxLength, 4)
ASSUME TagsAssumption ==
    /\ {StringTag, MemoryTag} \cup LegacyTags \subseteq Nat
    /\ Fits(StringTag, 8) /\ Fits(MemoryTag, 8)
    /\ \A tag \in LegacyTags : Fits(tag, 4)
ASSUME DataAssumption ==
    /\ Texts \subseteq Seq(Byte) /\ CTexts \subseteq Seq(Byte)
    /\ \A text \in CTexts : Fits(Len(text), 4)
    /\ Values \subseteq Nat

\* Julia lays the fields of a struct out one behind the other.
ASSUME StructsAssumption ==
    \A T \in Structs :
        /\ T.tag \in Nat /\ Fits(T.tag, 8) /\ T.size \in Nat
        /\ T.fields \in Seq([off : Nat, width : Nat, reg : Nat])
        /\ \A k \in DOMAIN T.fields : T.fields[k].off + T.fields[k].width <= T.size
        /\ \A k, l \in DOMAIN T.fields :
              k < l => T.fields[k].off + T.fields[k].width <= T.fields[l].off

-----------------------------------------------------------------------------
(* Layouts: where field k is, how many bytes it has in memory and how many *)
(* the register that is stored to it has.                                  *)

Cells(n, first, size) ==
    [k \in 1 .. n |-> [off |-> first + (k - 1) * size, width |-> size, reg |-> size]]

Length(o) ==
    CASE o.layout = "String" -> Num(o.at, 8)
      [] o.layout = "Memory" -> Num(o.at - 8, 8)
      [] o.layout = "Struct" -> Len(o.fields)
      [] o.layout = "Legacy" -> Num(o.at - HEADER_SIZE + 8, 4)

Type(o) ==
    CASE o.layout \in {"String", "Struct"} -> Num(o.at - JULIA_HEADER_SIZE, 8)
      [] o.layout = "Memory" -> Num(o.at - 8 - JULIA_HEADER_SIZE, 8)
      [] o.layout = "Legacy" -> Num(o.at - HEADER_SIZE, 4)

\* What compiled code and the accessors of the runtime read of an object.
Decode(o) ==
    [type |-> Type(o),
     data |-> [k \in 1 .. Length(o) |->
                  IF k \in DOMAIN o.fields
                  THEN Num(o.at + o.fields[k].off, o.fields[k].width) ELSE Junk]]

-----------------------------------------------------------------------------
Init ==
    /\ mem = [x \in 0 .. MemSize - 1 |-> Junk]
    /\ top = 0
    /\ objs = <<>> /\ promised = <<>>

\* bump_alloc(total, 16) for an object that is at the given offset of it.
Allocate(total, layout, offset, fields, type, data) ==
    /\ Len(objs) < MaxObjects /\ Here + total <= MemSize
    /\ top' = Here + total
    /\ objs' = Append(objs, [layout |-> layout, at |-> Here + offset, fields |-> fields])
    /\ promised' = Append(promised, [type |-> type, data |-> data])

\* Fault: no byte for the terminator.
StringTotalBare(n) == JULIA_HEADER_SIZE + 8 + n

StringTotal(n) == JULIA_HEADER_SIZE + 8 + n + 1

\* rust_alloc_string: the memory with tag, length and terminator in place.
AllocString(n) ==
    Put(Put(Put(mem, Here, 8, StringTag), Here + 8, 8, n), Here + 16 + n, 1, 0)

\* __jl_string_from_raw, and __jl_string_cached when it has to build.
StringFromRaw(text) ==
    LET n == Len(text)
    IN  /\ Allocate(StringTotal(n), "String", 8, Cells(n, 8, 1), StringTag, text)
        /\ mem' = PutBytes(AllocString(n), Here + 16, n, text)

\* Fault: the second operand is put where the first one starts.
SecondAt(la) == 8

\* Where __jl_string_concat copies the second operand to.
Behind(la) == 8 + la

\* __jl_string_concat; a * b * c is a left fold of it.
StringConcat(i, j) ==
    /\ objs[i].layout = "String" /\ objs[j].layout = "String"
    /\ LET a == objs[i].at   b == objs[j].at   r == Here + 8
           la == Num(a, 8)   lb == Num(b, 8)   n == la + lb
       IN  /\ Allocate(StringTotal(n), "String", 8, Cells(n, 8, 1), StringTag,
                       promised[i].data \o promised[j].data)
           /\ mem' = Copy(Copy(AllocString(n), r + 8, a + 8, la), r + Behind(la), b + 8, lb)

\* Stores to the first fields of an object at p, in order.
Fill(m, p, fields, values) ==
    LET h[k \in 0 .. Len(values)] ==
            IF k = 0 THEN m ELSE Put(h[k - 1], p + fields[k].off, fields[k].reg, values[k])
    IN  h[Len(values)]

\* __jl_gc_alloc_array_julia: the address is that of the elements, which the
\* program then sets one by one (see JArray).
AllocArrayJulia(n, v) ==
    /\ Allocate(JULIA_HEADER_SIZE + 8 + n * ElemSize, "Memory", 16,
                Cells(n, 0, ElemSize), MemoryTag, [k \in 1 .. n |-> v])
    /\ mem' = Fill(Put(Put(mem, Here, 8, MemoryTag), Here + 8, 8, n), Here + 16,
                   Cells(n, 0, ElemSize), [k \in 1 .. n |-> v])

\* The stores of emit_new: zeros in whole words over the object, whatever is
\* left of it, then the fields that are given, in order.
ZeroFill(m, p, size) ==
    [x \in DOMAIN m |-> IF p <= x /\ x < p + ((size + 7) \div 8) * 8 THEN 0 ELSE m[x]]

\* emit_new of a struct over __jl_gc_alloc_julia.
NewStruct(T, values) ==
    LET p == Here + JULIA_HEADER_SIZE
    IN  /\ Allocate(JULIA_HEADER_SIZE + T.size, "Struct", JULIA_HEADER_SIZE, T.fields, T.tag,
                    [k \in DOMAIN T.fields |->
                        IF k \in DOMAIN values THEN values[k] ELSE 0])
        /\ \A k \in DOMAIN values : Fits(values[k], T.fields[k].width)
        /\ mem' = Fill(ZeroFill(Put(mem, Here, 8, T.tag), p, T.size), p, T.fields, values)

\* setfield! of a struct: a store writes its register, whatever width
\* _store_field_mem asks for.
SetField(i, k, v) ==
    /\ objs[i].layout = "Struct" /\ k \in DOMAIN objs[i].fields
    /\ LET f == objs[i].fields[k]
       IN  /\ Fits(v, f.width)
           /\ mem' = Put(mem, objs[i].at + f.off, f.reg, v)
    /\ promised' = [promised EXCEPT ![i].data[k] = v]
    /\ UNCHANGED <<top, objs>>

-----------------------------------------------------------------------------
(* The legacy layout                                                       *)

Header(tag, n) == Put(Put(Put(mem, Here, 4, tag), Here + 4, 4, 0), Here + 8, 4, n)

\* __jl_gc_alloc: an object of some bytes, which are left as they are.
GcAlloc(tag, size) ==
    /\ Allocate(HEADER_SIZE + size, "Legacy", HEADER_SIZE, <<>>, tag, <<>>)
    /\ mem' = Header(tag, 0)

\* __jl_string_new, over __jl_gc_alloc_array.
StringNew(text) ==
    LET n == Len(text)
    IN  /\ Allocate(HEADER_SIZE + n, "Legacy", HEADER_SIZE, Cells(n, 0, 1),
                    STRING_TYPE_TAG, text)
        /\ mem' = PutBytes(Header(STRING_TYPE_TAG, n), Here + HEADER_SIZE, n, text)

\* __jl_string_from_cstr: what is before the first zero byte.
StringFromCstr(text) ==
    \E n \in 0 .. Len(text) :
        /\ \A k \in 1 .. n : text[k] # 0
        /\ n < Len(text) => text[n + 1] = 0
        /\ StringNew(SubSeq(text, 1, n))

\* __jl_string_set and __jl_array_set with a 0-based index.
LegacySet(i, idx, v) ==
    /\ objs[i].layout = "Legacy" /\ 0 <= idx /\ idx < Length(objs[i])
    /\ LET size == objs[i].fields[1].width
       IN  /\ Fits(v, size)
           /\ mem' = Put(mem, objs[i].at + idx * size, size, v)
    /\ promised' = [promised EXCEPT ![i].data[idx + 1] = v]
    /\ UNCHANGED <<top, objs>>

\* __jl_gc_alloc_array, filled through __jl_array_elem_ptr.
AllocArray(tag, n, v) ==
    /\ Allocate(HEADER_SIZE + n * ElemSize, "Legacy", HEADER_SIZE,
                Cells(n, 0, ElemSize), tag, [k \in 1 .. n |-> v])
    /\ mem' = Fill(Header(tag, n), Here + HEADER_SIZE, Cells(n, 0, ElemSize),
                   [k \in 1 .. n |-> v])

\* A call of __jl_string_new in Julia code: the emitter allocates a Memory of
\* words and stores the length where the elements are.
LoweredStringNew(n) ==
    /\ Allocate(JULIA_HEADER_SIZE + 8 + n * 8, "String", 16, Cells(n, 8, 1),
                StringTag, [k \in 1 .. n |-> Junk])
    /\ mem' = Put(Put(Put(mem, Here, 8, StringTag), Here + 8, 8, n), Here + 16, 8, n)

Next ==
    \/ \E t \in Texts : StringFromRaw(t)
    \/ \E t \in CTexts : StringNew(t) \/ StringFromCstr(t)
    \/ \E i, j \in DOMAIN objs : StringConcat(i, j)
    \/ \E n \in 0 .. MaxLength, v \in Values :
          /\ Fits(v, ElemSize)
          /\ AllocArrayJulia(n, v) \/ \E tag \in LegacyTags : AllocArray(tag, n, v)
    \/ \E tag \in LegacyTags, n \in 0 .. MaxLength : GcAlloc(tag, n)
    \/ \E T \in Structs, v \in Values : \E n \in 0 .. Len(T.fields) :
          NewStruct(T, [k \in 1 .. n |-> v])
    \/ \E i \in DOMAIN objs, v \in Values : \E k \in DOMAIN objs[i].fields :
          SetField(i, k, v) \/ LegacySet(i, k - 1, v)

Spec == Init /\ [][Next]_vars

\* Programs that call __jl_string_new.
SpecLowered ==
    Init /\ [][Next \/ \E n \in 0 .. MaxLength : LoweredStringNew(n)]_vars

-----------------------------------------------------------------------------
(* Properties                                                              *)

TypeOK ==
    /\ mem \in [0 .. MemSize - 1 -> {Junk} \cup Byte]
    /\ top \in 0 .. MemSize
    /\ Len(promised) = Len(objs)
    /\ \A i \in DOMAIN objs : objs[i].at \in 0 .. MemSize

\* Memory stays one of bytes, and every object reads back as what was put into
\* it, type tag and length included, whatever was allocated next to it or stored
\* since: no header, terminator, zero fill, copy or store reaches into another
\* object or field.
Faithful ==
    /\ TypeOK
    /\ \A i \in DOMAIN objs : Decode(objs[i]) = promised[i]

\* A String that is handed to C ends in a zero byte, also after its slack has
\* been followed by other objects.
Terminated ==
    \A i \in DOMAIN objs :
        objs[i].layout = "String" => Num(objs[i].at + 8 + Len(promised[i].data), 1) = 0
=============================================================================
