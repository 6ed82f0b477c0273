------------------------------ MODULE Scalars ------------------------------
(***************************************************************************)
(* Integers of compiled code: how a value of a Julia type is kept in a     *)
(* Cranelift register, what the lowerings of the integer intrinsics        *)
(* (NativeCodegen/src/builder_emit.jl) and the builder's own widening      *)
(* (native-builder/src/builder.rs) make of it, and how it crosses the      *)
(* boundary to the host (reprs.jl, _gcall of NativeCodegen.jl).            *)
(*                                                                         *)
(* A register holds a natural number below 2^width.  Next to it goes the   *)
(* value the program means, computed by Julia's rules.  One operation of   *)
(* the program after the other is applied to both.                         *)
(***************************************************************************)
EXTENDS Integers, FiniteSets

CONSTANTS
    Word, Half, Byte,   \* the bits of i64, i32 and of the sub-word types
    Lowered             \* pairs <<operation, type name>> the programs use

ASSUME WidthsAssumption ==
    /\ {Word, Half, Byte} \subseteq Nat
    /\ 1 < Byte /\ Byte < Half /\ Half < Word

VARIABLES
    type,               \* the Julia type of the value
    reg,                \* the register: [bits, width]
    val,                \* the value that Julia computes
    pair,               \* of a checked operation: [flag, overflow]
    status,             \* "running", then "returned" or "threw"
    result              \* what the host has got

scalarVars == <<type, reg, val, pair, status, result>>

\* 2 to the power of n.
Pow2(n) == LET p[k \in 0 .. n] == IF k = 0 THEN 1 ELSE 2 * p[k - 1] IN p[n]

Type(name, signed, size) == [name |-> name, signed |-> signed, size |-> size]

Int64  == Type("Int64", TRUE, Word)
UInt64 == Type("UInt64", FALSE, Word)
Int32  == Type("Int32", TRUE, Half)
UInt32 == Type("UInt32", FALSE, Half)
Char   == Type("Char", FALSE, Half)
Int8   == Type("Int8", TRUE, Byte)
UInt8  == Type("UInt8", FALSE, Byte)
Bool   == Type("Bool", FALSE, Byte)
Types  == {Int64, UInt64, Int32, UInt32, Char, Int8, UInt8, Bool}

Values(T) ==
    IF T = Bool THEN {0, 1}
    ELSE IF T.signed THEN -(Pow2(T.size - 1)) .. Pow2(T.size - 1) - 1
    ELSE 0 .. Pow2(T.size) - 1

AsSigned(bits, w) == IF bits < Pow2(w - 1) THEN bits ELSE bits - Pow2(w)

\* Julia's wrapping of an integer to a type, x % T.
Wrap(x, T) ==
    IF T.signed THEN AsSigned(x % Pow2(T.size), T.size) ELSE x % Pow2(T.size)

\* Division that rounds towards zero (\div takes a positive divisor).
Magnitude(x) == IF x < 0 THEN -x ELSE x
Quotient(x, y) ==
    LET q == Magnitude(x) \div Magnitude(y) IN IF (x < 0) <=> (y < 0) THEN q ELSE -q
Remainder(x, y) == x - y * Quotient(x, y)

-----------------------------------------------------------------------------
(* Registers and Cranelift's operations on them.  harmonize_binop widens   *)
(* the narrower operand with zeros, which leaves its bits as they are.     *)

Reg(bits, w) == [bits |-> bits % Pow2(w), width |-> w]

\* cranelift_type of a scalar: sub-word integers live in i32.
Storage(T) == IF T.size = Word THEN Word ELSE Half
SubWord(T) == T.size < Half

\* Bit i of x, the number of n bits that bits gives, and two operations on
\* bits (the community module Bitwise has RECURSIVE operators).
Bit(x, i) == (x \div Pow2(i)) % 2
Number(bits, n) ==
    LET s[k \in 0 .. n] == IF k = 0 THEN 0 ELSE s[k - 1] + bits[k - 1] * Pow2(k - 1)
    IN  s[n]
And(x, y, n) == Number([i \in 0 .. n - 1 |-> Bit(x, i) * Bit(y, i)], n)
Xor(x, y, n) == Number([i \in 0 .. n - 1 |-> (Bit(x, i) + Bit(y, i)) % 2], n)

Common(a, b) == IF a.width > b.width THEN a.width ELSE b.width

Binop(op, a, b) ==
    LET w == Common(a, b)
        x == AsSigned(a.bits, w)
        y == AsSigned(b.bits, w)
    IN  Reg(CASE op = "add" -> a.bits + b.bits
              [] op = "sub" -> a.bits - b.bits
              [] op = "mul" -> a.bits * b.bits
              [] op = "and" -> And(a.bits, b.bits, w)
              [] op = "xor" -> Xor(a.bits, b.bits, w)
              [] op = "sdiv" -> Quotient(x, y)
              [] op = "udiv" -> a.bits \div b.bits
              [] op = "srem" -> Remainder(x, y)
              [] op = "urem" -> a.bits % b.bits
              [] op = "shl" -> a.bits * Pow2(b.bits % w)
              [] op = "ushr" -> a.bits \div Pow2(b.bits % w)
              [] op = "sshr" -> x \div Pow2(b.bits % w), w)

Icmp(cc, a, b) ==
    LET w == Common(a, b) IN
    CASE cc = "eq" -> a.bits = b.bits
      [] cc = "slt" -> AsSigned(a.bits, w) < AsSigned(b.bits, w)
      [] cc = "ult" -> a.bits < b.bits

\* Fault: zeros for the sign.
SextendZeros(r, w) == IF r.width >= w THEN r ELSE Reg(r.bits, w)

\* emit_uextend and emit_sextend do nothing to a register that is not narrower.
Uextend(r, w) == IF r.width >= w THEN r ELSE Reg(r.bits, w)
Sextend(r, w) ==
    IF r.width >= w THEN r ELSE Reg(AsSigned(r.bits, r.width), w)
Ireduce(r, w) == Reg(r.bits, w)

LeadingZeros(bits, w) == w - Cardinality({i \in 0 .. w - 1 : Pow2(i) <= bits})
TrailingZeros(bits, w) == Cardinality({i \in 1 .. w : bits % Pow2(i) = 0})

-----------------------------------------------------------------------------
(* Operands: an argument that the host passed (to_wire keeps the sign), or *)
(* a constant (emit_constant takes the bits of the type alone).            *)

Argument(T, v) == Reg(v, Storage(T))
Constant(T, v) == Reg(v % Pow2(T.size), Storage(T))
Operands(T, v) == {Argument(T, v), Constant(T, v)}

\* A Bool in a register.
Flag(p) == Reg(IF p THEN 1 ELSE 0, Half)

-----------------------------------------------------------------------------
(* The lowerings.                                                          *)

\* emit_trunc
Trunc(r, T) ==
    IF SubWord(T) THEN Uextend(Ireduce(r, T.size), Half)
    ELSE Ireduce(r, Storage(T))

\* emit_neg_int: the zero is an i64 unless the type is a sub-word.
NegInt(r, T) == Binop("sub", Reg(0, IF SubWord(T) THEN Half ELSE Word), r)

\* emit_not_int
NotInt(r, T) ==
    IF T = Bool THEN Flag(Icmp("eq", r, Reg(0, Half)))
    ELSE IF SubWord(T)
         THEN Binop("and", Binop("xor", r, Reg(-1, Half)), Reg(Pow2(T.size) - 1, Half))
         ELSE Binop("xor", r, Reg(-1, Word))

\* emit_flipsign_int: (x xor s) - s, and the shift's amount is an i64.
FlipsignInt(r, y, T) ==
    LET s == Binop("sshr", y, Reg(Storage(T) - 1, Word))
    IN  Binop("sub", Binop("xor", r, s), s)

\* emit_clz, emit_ctz
CountLeading(r, T) ==
    LET n == Reg(LeadingZeros(r.bits, r.width), r.width)
    IN  IF SubWord(T) THEN Binop("sub", n, Reg(Half - T.size, Half)) ELSE n
CountTrailing(r, T) ==
    LET n == Reg(TrailingZeros(r.bits, r.width), r.width)
    IN  IF SubWord(T) /\ Icmp("ult", Reg(T.size, Half), n)
        THEN Reg(T.size, Half) ELSE n

\* Fault: a factor of -1 is not treated apart.
ProductFlagPlain(a, b, r, T) ==
    IF Icmp("eq", a, Constant(T, 0)) THEN FALSE
    ELSE ~Icmp("eq", Binop(IF T.signed THEN "sdiv" ELSE "udiv", r, a), b)

\* emit_checked_pair, the flag of a product r = a * b; the signed remainder
\* comes here too.
ProductFlag(a, b, r, T) ==
    LET isZero == Icmp("eq", a, Constant(T, 0))
        isM1 == T.signed /\ Icmp("eq", a, Constant(T, -1))
        safe == IF isZero \/ isM1 THEN Constant(T, 1) ELSE a
        quot == Binop(IF T.signed THEN "sdiv" ELSE "udiv", r, safe)
    IN  /\ ~isZero
        /\ IF isM1 THEN Icmp("eq", b, Constant(T, -(Pow2(T.size - 1))))
           ELSE ~Icmp("eq", quot, b)

Value(kind, a, b, T) ==
    Binop(IF kind = "rem" THEN (IF T.signed THEN "srem" ELSE "urem") ELSE kind, a, b)

OverflowFlag(kind, a, b, T) ==
    LET r == Value(kind, a, b, T)
        Negative(x) == Icmp("slt", x, Constant(T, 0))
    IN  CASE kind = "add" ->
               IF T.signed THEN Negative(Binop("and", Binop("xor", r, a), Binop("xor", r, b)))
               ELSE Icmp("ult", r, a)
          [] kind = "sub" ->
               IF T.signed THEN Negative(Binop("and", Binop("xor", a, b), Binop("xor", a, r)))
               ELSE Icmp("ult", a, b)
          [] kind = "mul" -> ProductFlag(a, b, r, T)
          [] kind = "rem" -> T.signed /\ ProductFlag(a, b, r, T)

-----------------------------------------------------------------------------
(* The program.  Lowered names its operations by the type of their first   *)
(* operand; a conversion goes to any type the program has arguments of.    *)

NoPair == [flag |-> FALSE, overflow |-> FALSE]

ScalarTypeOK ==
    /\ type \in Types
    /\ reg.width \in {Half, Word} /\ reg.bits \in 0 .. Pow2(reg.width) - 1
    /\ val \in Values(type)
    /\ pair \in [flag : BOOLEAN, overflow : BOOLEAN]
    /\ status \in {"running", "returned", "threw"}
    /\ result \in Int

Uses(op, T) == <<op, T.name>> \in Lowered

ScalarInit ==
    /\ \E T \in Types : \E v \in Values(T) :
          \/ Uses("argument", T) /\ type = T /\ val = v /\ reg = Argument(T, v)
          \/ Uses("constant", T) /\ type = T /\ val = v /\ reg = Constant(T, v)
    /\ pair = NoPair
    /\ status = "running"
    /\ result = 0

Lower(op) == status = "running" /\ Uses(op, type) /\ UNCHANGED <<status, result>>

\* The next statement uses the value: type, register and meaning.
Becomes(T, r, v) == type' = T /\ reg' = r /\ val' = v

\* The second operand of an operation.
Second(v) == {o \in Operands(type, v) :
                 \/ Uses("argument", type) /\ o = Argument(type, v)
                 \/ Uses("constant", type) /\ o = Constant(type, v)}

Exact(op, x, y) ==
    CASE op = "add" -> x + y
      [] op = "sub" -> x - y
      [] op = "mul" -> x * y
      [] op = "rem" -> Remainder(x, y)

\* add_int, sub_int, mul_int
Arithmetic(op) ==
    /\ Lower(op)
    /\ \E y \in Values(type) : \E o \in Second(y) :
          Becomes(type, Binop(op, reg, o), Wrap(Exact(op, val, y), type))
    /\ pair' = NoPair

\* eq_int, and slt_int or ult_int by the type's signedness.
Equal ==
    /\ Lower("eq")
    /\ \E y \in Values(type) : \E o \in Second(y) :
          Becomes(Bool, Flag(Icmp("eq", reg, o)), IF val = y THEN 1 ELSE 0)
    /\ pair' = NoPair
Less ==
    /\ Lower("lt")
    /\ \E y \in Values(type) : \E o \in Second(y) :
          Becomes(Bool, Flag(Icmp(IF type.signed THEN "slt" ELSE "ult", reg, o)),
                IF val < y THEN 1 ELSE 0)
    /\ pair' = NoPair

Negate ==
    /\ Lower("neg")
    /\ Becomes(type, NegInt(reg, type), Wrap(-val, type))
    /\ pair' = NoPair

Complement ==
    /\ Lower("not")
    /\ Becomes(type, NotInt(reg, type),
             IF type = Bool THEN 1 - val ELSE Wrap(-1 - val, type))
    /\ pair' = NoPair

FlipSign ==
    /\ Lower("flipsign")
    /\ \E y \in Values(type) : \E o \in Second(y) :
          Becomes(type, FlipsignInt(reg, o, type), Wrap(IF y < 0 THEN -val ELSE val, type))
    /\ pair' = NoPair

\* shl_int, lshr_int, ashr_int by a UInt64 below Word.
Shift(op) ==
    /\ Lower(op)
    /\ \E n \in 0 .. Word - 1 :
          Becomes(type, Binop(op, reg, Reg(n, Word)),
                CASE op = "shl" -> Wrap(val * Pow2(n), type)
                  [] op = "ushr" -> Wrap((val % Pow2(type.size)) \div Pow2(n), type)
                  [] op = "sshr" -> val \div Pow2(n))
    /\ pair' = NoPair

Clz ==
    /\ Lower("clz")
    /\ Becomes(type, CountLeading(reg, type),
             Wrap(LeadingZeros(val % Pow2(type.size), type.size), type))
    /\ pair' = NoPair
Ctz ==
    /\ Lower("ctz")
    /\ Becomes(type, CountTrailing(reg, type),
             Wrap(TrailingZeros(val % Pow2(type.size), type.size), type))
    /\ pair' = NoPair

\* trunc_int, sext_int, zext_int, bitcast to another type.
Narrow(T) ==
    /\ Lower("trunc") /\ Uses("argument", T) /\ T.size < type.size /\ T # Bool
    /\ Becomes(T, Trunc(reg, T), Wrap(val, T))
    /\ pair' = NoPair
SignExtend(T) ==
    /\ Lower("sext") /\ Uses("argument", T) /\ T.size > type.size
    /\ Becomes(T, Sextend(reg, Storage(T)),
             Wrap(AsSigned(val % Pow2(type.size), type.size), T))
    /\ pair' = NoPair
ZeroExtend(T) ==
    /\ Lower("zext") /\ Uses("argument", T) /\ T.size > type.size
    /\ Becomes(T, Uextend(reg, Storage(T)), Wrap(val % Pow2(type.size), T))
    /\ pair' = NoPair
Bitcast(T) ==
    /\ Lower("bitcast") /\ Uses("argument", T) /\ T.size = type.size /\ T # Bool
    /\ Becomes(T, reg, Wrap(val, T))
    /\ pair' = NoPair

CheckedOp == [add |-> "checked_add", sub |-> "checked_sub",
              mul |-> "checked_mul", rem |-> "checked_rem"]

\* A remainder overflows with its quotient, typemin / -1.
Overflows(kind, x, y) ==
    IF kind = "rem" THEN y = -1 /\ -x \notin Values(type)
    ELSE Exact(kind, x, y) \notin Values(type)

\* checked_sadd_int and its relatives.  Sub-words are a CompileError.  Base
\* tests for a zero divisor first.
Checked(kind) ==
    /\ Lower(CheckedOp[kind]) /\ ~SubWord(type)
    /\ \E y \in Values(type) : \E o \in Second(y) :
          /\ kind = "rem" => y # 0
          /\ Becomes(type, Value(kind, reg, o, type), Wrap(Exact(kind, val, y), type))
          /\ pair' = [flag |-> OverflowFlag(kind, reg, o, type),
                      overflow |-> Overflows(kind, val, y)]

-----------------------------------------------------------------------------
(* The way back to the host.                                               *)

\* emit_return: to the width of the signature.
Returned(r, T) ==
    IF r.width > Storage(T) THEN Ireduce(r, Storage(T)) ELSE Uextend(r, Storage(T))

\* The host reads an Int64.  The build leaves the upper half of the register
\* of an i32 zero or a copy of the sign.
Wires(r) == IF r.width = Word THEN {AsSigned(r.bits, Word)}
            ELSE {r.bits, AsSigned(r.bits, r.width)}

Fits32(v) == v \in -(Pow2(Half - 1)) .. Pow2(Half - 1) - 1

\* Fault: the wire is taken as it is.
FromWireUnwrapped(v, T) == v

\* from_wire: Int32(v) of a Char is checked.
FromWire(v, T) ==
    IF T = Bool THEN (IF v # 0 THEN 1 ELSE 0)
    ELSE IF T = Char THEN v % Pow2(Half)
    ELSE Wrap(v, T)

Return ==
    /\ status = "running" /\ Uses("return", type)
    /\ \E v \in Wires(Returned(reg, type)) :
          /\ status' = IF type = Char /\ ~Fits32(v) THEN "threw" ELSE "returned"
          /\ result' = FromWire(v, type)
    /\ pair' = NoPair
    /\ UNCHANGED <<type, reg, val>>

ScalarNext ==
    \/ \E op \in {"add", "sub", "mul"} : Arithmetic(op)
    \/ Equal \/ Less \/ Negate \/ Complement \/ FlipSign
    \/ \E op \in {"shl", "ushr", "sshr"} : Shift(op)
    \/ Clz \/ Ctz
    \/ \E T \in Types : Narrow(T) \/ SignExtend(T) \/ ZeroExtend(T) \/ Bitcast(T)
    \/ \E kind \in DOMAIN CheckedOp : Checked(kind)
    \/ Return

ScalarSpec == ScalarInit /\ [][ScalarNext]_scalarVars

-----------------------------------------------------------------------------
(* The operations that keep registers normalized, type by type.            *)

SoundWords ==
    {"argument", "constant", "add", "sub", "mul", "eq", "lt", "neg", "not",
     "shl", "ushr", "clz", "ctz", "trunc", "bitcast", "return",
     "checked_add", "checked_sub", "checked_mul"} \X {"Int64", "UInt64"}
        \cup {"flipsign", "sshr"} \X {"Int64"} \cup {"checked_rem"} \X {"UInt64"}
SoundHalves ==
    {"argument", "constant", "add", "sub", "mul", "eq", "lt", "clz", "ctz", "trunc",
     "zext", "sext", "bitcast", "return",
     "checked_add", "checked_sub", "checked_mul"} \X {"Int32", "UInt32"}
        \cup {"argument", "constant", "eq", "lt", "bitcast"} \X {"Char"}
        \cup {"checked_rem"} \X {"UInt32"}
SoundSubWords ==
    {"argument", "constant", "eq", "lt", "not", "clz", "ctz", "zext", "return"} \X {"UInt8"}
        \cup {"argument", "constant", "eq", "not", "zext", "bitcast", "return"} \X {"Bool"}
SoundOps == SoundWords \cup SoundHalves \cup SoundSubWords

(* A register, read at its own width with the sign of its type, is the     *)
(* value that Julia computes, and one of its type: the normalization of    *)
(* reprs.jl.  Every later comparison, conversion or division reads it so.  *)
Represents ==
    /\ ScalarTypeOK
    /\ val = IF type.signed THEN AsSigned(reg.bits, reg.width) ELSE reg.bits

(* The overflow flag that emit_checked_pair computes without branches says *)
(* whether the exact result is outside the type.                           *)
FlagExact == pair.flag = pair.overflow

(* The host gets the value that Julia computes, whatever the build leaves  *)
(* in the upper half of the return register.                               *)
ReturnsValue == status # "running" => status = "returned" /\ result = val
=============================================================================
