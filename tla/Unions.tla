------------------------------- MODULE Unions -------------------------------
(***************************************************************************)
(* Values of Union types in compiled code: which word a register or a      *)
(* field holds for `nothing`, an Int64 or an object, how isa, === nothing, *)
(* isnothing and haschildren tell them apart (NativeCodegen/src/           *)
(* builder_emit.jl), and what the host takes a returned word for (_gcall   *)
(* of NativeCodegen.jl).                                                   *)
(*                                                                         *)
(* Next to every word goes the value it should be.  A struct has one field *)
(* of a Union type, the first one; TypeTags says where tags come from.     *)
(***************************************************************************)
EXTENDS Integers

CONSTANTS
    Structs,        \* heap types
    Ghosts,         \* types without data whose instance is used as a literal
    Ints,           \* values of Int64
    Tag,            \* what __jl_type_tag gives for each type
    HostNothing,    \* the address of the host's instance of Nothing
    Addresses,      \* where objects are
    Junk,           \* what a load from anything but an object may give
    Forms           \* further things programs do, see Further

UnionTypes == Structs \cup Ghosts \cup {"Int64"}

Nothing == [type |-> "Nothing", id |-> 0]

ASSUME TagsAssumption ==
    /\ "Nothing" \in Ghosts
    /\ Structs \cap (Ghosts \cup {"Int64", "Free"}) = {} /\ "Int64" \notin Ghosts
    /\ \A T, U \in UnionTypes : Tag[T] = Tag[U] => T = U
    /\ \A T \in UnionTypes : Tag[T] \notin Addresses
    /\ HostNothing \notin Addresses \cup {Tag[T] : T \in UnionTypes}

VARIABLES
    heap,           \* for each address the type of the object and its field
    reg, val,       \* a register and the value it should be
    type,           \* the arms of its type in the IR
    tested,         \* of the last test: the answer and Julia's answer
    host            \* of the last return: what the host got and Julia's value

unionVars == <<heap, reg, val, type, tested, host>>

Live == {a \in Addresses : heap[a].type # "Free"}
Object(a) == [type |-> heap[a].type, id |-> a]

\* A Union field of a struct has pointer arms.
FieldTypes == Structs \cup {"Nothing"}

UnionInit ==
    /\ heap = [a \in Addresses |-> [type |-> "Free", word |-> 0, val |-> Nothing]]
    /\ reg = Tag["Nothing"] /\ val = Nothing /\ type = {"Nothing"}
    /\ tested = [got |-> TRUE, want |-> TRUE]
    /\ host = [got |-> Nothing, want |-> Nothing]

-----------------------------------------------------------------------------
(* Where values come from                                                  *)

\* Fault: null for nothing.
LiteralNull(T) == 0

\* resolve_operand: the literal of a singleton.
LiteralWord(T) == Tag["Nothing"]

Produce(w, v, arms) ==
    /\ reg' = w /\ val' = v /\ type' = arms
    /\ UNCHANGED <<tested, host>>

Literal(T) ==
    /\ Produce(LiteralWord(T), [type |-> T, id |-> 0], {T})
    /\ UNCHANGED heap

Constant(n) ==
    /\ Produce(n, [type |-> "Int64", id |-> n], {"Int64"})
    /\ UNCHANGED heap

\* emit_new with the register as the field.
New(a, S) ==
    /\ heap[a].type = "Free" /\ val.type \in FieldTypes
    /\ heap' = [heap EXCEPT ![a] = [type |-> S, word |-> reg, val |-> val]]
    /\ Produce(a, [type |-> S, id |-> a], {S})

\* An argument: an object that the host has made, with another in its field.
HostObject(a, S, w, v) ==
    /\ heap[a].type = "Free"
    /\ heap' = [heap EXCEPT ![a] = [type |-> S, word |-> w, val |-> v]]
    /\ Produce(a, [type |-> S, id |-> a], {S})

\* setfield! and getfield of a Union field move the word.
SetField(a) ==
    /\ a \in Live /\ val.type \in FieldTypes
    /\ heap' = [heap EXCEPT ![a].word = reg, ![a].val = val]
    /\ UNCHANGED <<reg, val, type, tested, host>>

GetField(a) ==
    /\ a \in Live
    /\ Produce(heap[a].word, heap[a].val, FieldTypes)
    /\ UNCHANGED heap

\* Fault: the PiNode of the other branch.
TakenAlways(arms) == arms # {}

Taken(arms) == val.type \in arms

\* The edge to a phi node, a PiNode, a call that returns its argument: the
\* type changes, the word does not.
PassOn(arms) ==
    /\ Taken(arms)
    /\ type' = arms
    /\ UNCHANGED <<heap, reg, val, tested, host>>

-----------------------------------------------------------------------------
(* Tests                                                                   *)

Answer(got, want) ==
    /\ tested' = [got |-> got, want |-> want]
    /\ UNCHANGED <<heap, reg, val, type, host>>

IsConcrete == \E T \in UnionTypes : type = {T}
NothingOr(T) == T # "Nothing" /\ type = {"Nothing", T}

\* Fault: any type that the target is an arm of decides.
StaticOfUnion(T) == T \in type

Static(T) == IsConcrete

\* emit_isa, in the order of its cases: a concrete type decides at compile time.
IsaStatic(T) == Static(T) /\ Answer(T \in type, val.type = T)

\* The next case, isa(x, Nothing), and === nothing and isnothing, which do not
\* look at the type first.
IsNothing ==
    /\ "Nothing" \in type
    /\ Answer(reg = Tag["Nothing"], val.type = "Nothing")

\* Case 2: the other arm of Union{Nothing, T}.
IsaOther(T) ==
    /\ ~Static(T) /\ NothingOr(T)
    /\ Answer(reg # Tag["Nothing"], val.type = T)

\* Cases 3 and 4: the word at the address is compared with the tag.  The tag
\* of an object lies before its address (see Objects).
FirstWords == IF reg \in Live THEN {heap[reg].word} ELSE Junk

IsaLoaded(T) ==
    /\ ~IsConcrete /\ T # "Nothing" /\ T \in type /\ ~NothingOr(T)
    /\ "Nothing" \notin type \/ T \in Structs
    /\ \E w \in FirstWords : Answer(w = Tag[T], val.type = T)

\* No case: the CompileError leaves the placeholder 0.
IsaUnsupported(T) ==
    /\ ~IsConcrete /\ T # "Nothing" /\ T \in type /\ ~NothingOr(T)
    /\ "Nothing" \in type /\ T \notin Structs
    /\ Answer(FALSE, val.type = T)

HasChildren(a) ==
    /\ a \in Live
    /\ Answer(heap[a].word # Tag["Nothing"], heap[a].val.type # "Nothing")

-----------------------------------------------------------------------------
(* The host                                                                *)

\* unsafe_pointer_to_objref: what is no object of the program is one of Julia's.
ObjectAt(w) == IF w \in Live THEN Object(w) ELSE [type |-> "DataType", id |-> w]

\* Fault: a type that nothing is a value of is taken for Nothing.
HostValueVoid(w) ==
    CASE "Nothing" \in type -> Nothing
      [] type = {"Int64"} -> [type |-> "Int64", id |-> w]
      [] OTHER -> ObjectAt(w)

\* What _gcall makes of the word, by the declared return type.
HostValue(w) ==
    CASE type = {"Nothing"} -> Nothing
      [] type = {"Int64"} -> [type |-> "Int64", id |-> w]
      [] OTHER -> IF IsConcrete \/ w # HostNothing THEN ObjectAt(w) ELSE Nothing

\* A Union with an arm that is no pointer is refused.
Return ==
    /\ type = {"Int64"} \/ type \subseteq FieldTypes
    /\ host' = [got |-> HostValue(reg), want |-> val]
    /\ UNCHANGED <<heap, reg, val, type, tested>>

ReturnsNoUnionOfNothing == val.type = "Nothing" => IsConcrete

UnionNext ==
    \/ \E T \in Ghosts : Literal(T)
    \/ \E n \in Ints : Constant(n)
    \/ \E a \in Addresses, S \in Structs :
          New(a, S) \/ \E b \in Live : HostObject(a, S, b, Object(b))
    \/ \E a \in Addresses : SetField(a) \/ GetField(a) \/ HasChildren(a)
    \/ \E arms \in SUBSET UnionTypes : PassOn(arms)
    \/ \E T \in UnionTypes : IsaStatic(T) \/ IsaOther(T)
    \/ IsNothing
    \/ ReturnsNoUnionOfNothing /\ Return

UnionSpec == UnionInit /\ [][UnionNext]_unionVars

\* What programs do beyond that: test an arm by its tag, or return a literal
\* `nothing`, which is null; get an object of the host with `nothing` in its
\* field; return `nothing` where the host expects a Union.
Further ==
    \/ "LoadedTag" \in Forms /\ \E T \in UnionTypes : IsaLoaded(T) \/ IsaUnsupported(T)
    \/ "ReturnedNothing" \in Forms /\ Produce(0, Nothing, FieldTypes) /\ UNCHANGED heap
    \/ "HostField" \in Forms /\ \E a \in Addresses, S \in Structs :
          HostObject(a, S, HostNothing, Nothing)
    \/ "NothingToHost" \in Forms /\ Return

SpecFurther == UnionInit /\ [][UnionNext \/ Further]_unionVars

-----------------------------------------------------------------------------
(* Properties                                                              *)

Values ==
    [type : Ghosts, id : {0}] \cup [type : {"Int64"}, id : Ints]
        \cup [type : Structs, id : Addresses]
FieldValues == {v \in Values : v.type \in FieldTypes}
Words == {0, HostNothing} \cup {Tag[T] : T \in UnionTypes} \cup Ints \cup Addresses

UnionTypeOK ==
    /\ heap \in [Addresses ->
                    [type : Structs \cup {"Free"}, word : Words, val : FieldValues]]
    /\ reg \in Words /\ val \in Values
    /\ type \in SUBSET UnionTypes /\ val.type \in type
    /\ tested \in [got : BOOLEAN, want : BOOLEAN]

\* A word is `nothing` exactly if it is the tag, and an object or an Int64
\* exactly if it is its address or its bits.
Means(w, v) ==
    /\ w = Tag["Nothing"] <=> v.type = "Nothing"
    /\ v.type \in Structs \cup {"Int64"} => w = v.id

\* Registers and fields keep the one representation of `nothing` that the
\* tests compare with, however a value got there.
Represents ==
    /\ Means(reg, val)
    /\ \A a \in Live : Means(heap[a].word, heap[a].val)

\* Every test gives Julia's answer, whatever case of emit_isa lowers it.
TestsFaithful == tested.got = tested.want

\* The host gets the value that Julia computes.
HostGetsValue == host.got = host.want
=============================================================================
