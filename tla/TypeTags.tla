------------------------------ MODULE TypeTags ------------------------------
(***************************************************************************)
(* How compiled code knows the type of an object.  The compiler gives each *)
(* Julia type it meets an integer id, once per Julia session (_type_id in  *)
(* NativeCodegen/src/builder_emit.jl).  Every shared library carries its   *)
(* own TYPE_TABLE (native-backend/src/runtime/gc.rs) that turns ids into   *)
(* tags: the address of the Julia datatype when Julia registered it after  *)
(* loading the library, the address of the table slot otherwise.  Tags are *)
(* written into object headers and compared by isa.                        *)
(***************************************************************************)
EXTENDS Integers

CONSTANTS
    Types,          \* Julia types
    ReservedIds,    \* _TYPE_IDS at the start: [types -> 0 .. FirstId - 1]
    FirstId,        \* the initial value of _NEXT_TYPE_ID
    TableSize,      \* TYPE_TABLE_SIZE
    MaxId,          \* bound: ids a session gives out
    Unregistrable,  \* types for which pointer_from_objref throws
    Libs,           \* shared libraries compiled in the session
    FlatNamespace,  \* the dynamic linker has one scope for RTLD_GLOBAL (ELF)
    NoId, Null

Reserved == DOMAIN ReservedIds

ASSUME ReservedAssumption ==
    /\ FirstId \in Nat /\ Reserved \subseteq Types
    /\ ReservedIds \in [Reserved -> 0 .. FirstId - 1]
    /\ \A S, T \in Reserved : ReservedIds[S] = ReservedIds[T] => S = T
ASSUME SizeAssumption ==
    TableSize \in Nat \ {0} /\ MaxId \in Nat /\ FirstId <= TableSize
ASSUME NoneAssumption ==
    /\ NoId \notin Nat
    /\ Null \notin Types /\ Null \notin Libs
    /\ \A l \in Libs, i \in 0 .. TableSize - 1 :
          [lib |-> l, slot |-> i] \notin Types \cup {Null}

VARIABLES
    ids,            \* _TYPE_IDS, NoId for a type not met yet
    nextId,         \* _NEXT_TYPE_ID
    mode,           \* of a library: "emitting", "built", or where it is loaded
    uses,           \* of a library: the types its code names
    table,          \* of a library: TYPE_TABLE
    home,           \* of a library: the one whose runtime its code calls
    first,          \* the first library opened with RTLD_GLOBAL, or Null
    headers         \* history, of a library: [type, tag] of the objects it made

scope == <<home, first>>
vars == <<ids, nextId, mode, uses, table, scope, headers>>

Slots == 0 .. TableSize - 1
Loaded == {"julia", "standalone"}

\* A tag is a datatype's address or the address of a slot.
SlotAddress(l, i) == [lib |-> l, slot |-> i]
Tags == Types \cup [lib : Libs, slot : Slots]

TypeOK ==
    /\ ids \in [Types -> Nat \cup {NoId}]
    /\ nextId \in Nat
    /\ mode \in [Libs -> {"emitting", "built"} \cup Loaded]
    /\ uses \in [Libs -> SUBSET Types]
    /\ table \in [Libs -> [Slots -> Tags \cup {Null}]]
    /\ home \in [Libs -> Libs] /\ first \in Libs \cup {Null}
    /\ headers \in [Libs -> SUBSET [type : Types, tag : Tags]]

Init ==
    /\ ids = [T \in Types |-> IF T \in Reserved THEN ReservedIds[T] ELSE NoId]
    /\ nextId = FirstId
    /\ mode = [l \in Libs |-> "emitting"]
    /\ uses = [l \in Libs |-> {}]
    /\ table = [l \in Libs |-> [i \in Slots |-> Null]]
    /\ home = [l \in Libs |-> l]
    /\ first = Null
    /\ headers = [l \in Libs |-> {}]

-----------------------------------------------------------------------------
\* _emit_type_tag, through _type_id: the id is the type's for the session.
EmitTypeTag(l, T) ==
    /\ mode[l] = "emitting" /\ T \notin uses[l]
    /\ uses' = [uses EXCEPT ![l] = @ \cup {T}]
    /\ IF ids[T] = NoId
       THEN /\ nextId <= MaxId
            /\ ids' = [ids EXCEPT ![T] = nextId]
            /\ nextId' = nextId + 1
       ELSE UNCHANGED <<ids, nextId>>
    /\ UNCHANGED <<mode, table, scope, headers>>

\* compile_native hands out the linked library.
Build(l) ==
    /\ mode[l] = "emitting"
    /\ mode' = [mode EXCEPT ![l] = "built"]
    /\ UNCHANGED <<ids, nextId, uses, table, scope, headers>>

\* Fault: clamped one slot too low.
SlotTooLow(T) == IF ids[T] < TableSize - 1 THEN ids[T] ELSE TableSize - 2

\* (id as usize).min(TYPE_TABLE_SIZE - 1)
Slot(T) == IF ids[T] < TableSize THEN ids[T] ELSE TableSize - 1

\* Fault: only the reserved types are registered.
RegisteredReserved == Reserved \ Unregistrable

\* The types __jl_register_type is called for: all those of the session.
Registered == {T \in Types \ Unregistrable : ids[T] # NoId}

\* dlopen binds the calls of a library's code when it is first opened: to its
\* own runtime, unless there is one scope for all and a runtime in it already.
\* native_callable_from_so opens a library globally, compile_and_call does not.
Bind(l, global) ==
    IF mode[l] = "built" /\ global
    THEN /\ home' = IF FlatNamespace /\ first # Null THEN [home EXCEPT ![l] = first] ELSE home
         /\ first' = IF first = Null THEN l ELSE first
    ELSE UNCHANGED scope

\* native_callable_from_so: dlopen, then _register_types!, which finds the
\* library's own __jl_register_type with dlsym.  The dictionary is
\* walked in an order of its own, so any of the types that share a slot may be
\* the last to be written there.  A library may be loaded again later.
LoadInJulia(l) ==
    /\ mode[l] \in {"built", "julia"}
    /\ mode' = [mode EXCEPT ![l] = "julia"]
    /\ \E global \in BOOLEAN : Bind(l, global)
    /\ \E last \in [{Slot(T) : T \in Registered} -> Registered] :
          /\ \A i \in DOMAIN last : Slot(last[i]) = i
          /\ table' = [table EXCEPT ![l] =
                          [i \in Slots |-> IF i \in DOMAIN last THEN last[i] ELSE @[i]]]
    /\ UNCHANGED <<ids, nextId, uses, headers>>

\* A host without Julia, and alone in its process, loads the library: nobody registers anything.
LoadStandalone(l) ==
    /\ mode[l] = "built"
    /\ mode' = [mode EXCEPT ![l] = "standalone"]
    /\ UNCHANGED <<ids, nextId, uses, table, scope, headers>>

\* Fault: no default for an empty slot.
TypeTagNoDefault(l, T) == table[l][Slot(T)]

\* __jl_type_tag of a runtime: an empty slot gets its own address.
TypeTag(l, T) ==
    LET i == Slot(T)
    IN  IF table[l][i] = Null THEN SlotAddress(l, i) ELSE table[l][i]

\* Code of the library makes an object, or compares with isa: both ask for
\* the tag of a type the code names.
AskTag(l, T) ==
    LET tag == TypeTag(home[l], T)
    IN  /\ mode[l] \in Loaded /\ T \in uses[l]
        /\ table' = [table EXCEPT ![home[l]][Slot(T)] = tag]
        /\ headers' = [headers EXCEPT ![l] = @ \cup {[type |-> T, tag |-> tag]}]
        /\ UNCHANGED <<ids, nextId, mode, uses, scope>>

Next ==
    \E l \in Libs :
        \/ Build(l) \/ LoadInJulia(l) \/ LoadStandalone(l)
        \/ \E T \in Types : EmitTypeTag(l, T) \/ AskTag(l, T)

Spec == Init /\ [][Next]_vars

-----------------------------------------------------------------------------
(* Properties                                                              *)

\* The session stays within the table: _type_id does not check it.
WithinTable == MaxId < TableSize

\* isa is right about every object a library has made, for as long as the
\* library is loaded: objects of one type keep one tag, objects of two types
\* never share one, however loading again and new types change the table.
TagsIdentifyTypes ==
    \A l \in Libs : \A x, y \in headers[l] : x.type = y.type <=> x.tag = y.tag

\* An object made inside Julia carries the address of its datatype, which
\* unsafe_pointer_to_objref dereferences: the type was registered before the
\* first object was made, in every library that names it.
TagsAreDatatypes ==
    \A l \in Libs : mode[l] = "julia" =>
        \A x \in headers[l] : x.type \notin Unregistrable => x.tag = x.type
=============================================================================
