# Verification of the native code generator

The repository compiles Julia functions to native shared libraries. A frontend
written in Julia (`NativeCodegen`) walks optimized IR and calls a Rust library
(`native-builder`) that wraps Cranelift; the object file is linked with a Rust
runtime (`native-backend`) into a library that runs inside Julia or without it.
This directory holds TLA+ models of the parts whose correctness depends on
order, on state that is shared or cached, on failure or on representation, the TLC
runs that check them and TLAPS proofs of their main properties.

    cd tla
    tlc -workers 2 -config Arena.cfg MCArena.tla      # a run
    tlapm ArenaProofs.tla                             # a proof

`PROJECT.json` lists the components, runs, seeded faults, the source lines each
definition stands for, findings, hazards and theorems.

## 1. Inventory

| component | source | state it keeps | operations |
|---|---|---|---|
| arena | `native-backend/src/runtime/gc.rs` 20-96 | per thread: blocks, bump pointer, bytes left, bytes used | `bump`, `reset`, `__jl_gc_usage` |
| constants and symbols | `gc.rs` 98-169, 249-361; `strings.rs` | per thread: `RODATA_CACHE`, `SYM_INTERN` | `get_or_build_rodata` and its four users, `__jl_intern_symbol`, `__jl_gc_reset` |
| type tags | `gc.rs` 171-247; `builder_emit.jl` 199-242; `NativeCodegen.jl` 203-236 | per session: `_TYPE_IDS`, `_NEXT_TYPE_ID`; per library: `TYPE_TABLE` | `_type_id`, `__jl_type_tag`, `__jl_register_type`, `native_callable_from_so` |
| vectors | `gc.rs` 507-729 and the lowerings that call it | per vector: length, capacity, Memory | `__jl_array_new_1d`, `grow_end`, `del_end`, `resize`, `__jl_memcpy`, stores, size updates |
| object layouts | `gc.rs` 171-187, 363-505; `strings.rs`; `emit_new` and field stores of `builder_emit.jl` | none beyond the bytes of the objects | allocation in two layouts, Strings, accessors, zero fill, field stores |
| union values | `builder_emit.jl` 1113-1117, 2146-2176, 3494-3642; `NativeCodegen.jl` 165-218 | none beyond the words in registers and fields | literals, `getfield` and `setfield!` of Union fields, `isa`, `=== nothing`, `_gcall` |
| module builder | `native-builder/src/builder.rs` 558-734 | per module: imports, exports, functions, Cranelift's module | declare, add a function, `finalize` |
| function builder | `builder.rs` 45-553 | per function: blocks, current block, `sealed`, Cranelift's builder | `switch_to_named`, `emit_*`, terminators, `seal_block`, `finalize_ctx` |
| module compiler | `builder_emit.jl` 523-605, 1898-2275 | worklist, status and name per method instance | `emit_module_via_builder`, `request!`, `emit_invoke` |
| function compiler | `builder_emit.jl` 609-1068 | block index, flags of the block loop, SSA tables | `_compile_function_in_module!`, `emit_instruction`, `get_phi_args` |
| instruction lowering | `builder_emit.jl` 1093-4187 | SSA tables, `ref_tracking` | `emit_intrinsic`, `emit_new`, `emit_isa`, ... |
| handle registry | `native-builder/src/lib.rs` 15-31, 280-282 | `BUILDERS` | create, free, clean up |
| Dict constants | `builder_emit.jl` 382-443, `gc.rs` 291-361 | none | serialize, rebuild, look up |
| exceptions | `exceptions.rs` | per thread: stack of catch frames | enter, exit, throw |
| value representation | `reprs.jl`, `NativeCodegen.jl` 106-189 | none | `scalar_repr`, `to_wire`, `from_wire`, `_gcall` |
| overlay interpreter, tables | `interp.jl`, `charmap.jl`, `intrinsics.jl` | caches of Julia's compiler | overlays |
| linker, offload table | `linker.rs`, `offload.rs` | none, a stub table | run lld |

How they interact. The frontend runs on one thread and drives everything at
compile time by calls: the module compiler takes a method instance from its
worklist, the function compiler turns its blocks into calls of one function
builder, and an invoke in the middle of a body calls back into the module
compiler (`request!`) and declares the callee in the module builder. At the end
`builder_finalize` walks the functions in the order they were added. At run
time compiled code calls the runtime. The arena is below everything; the caches
of constants and symbols point into it; type tags are written into the headers
of what it hands out; ids that the frontend baked into the code meet tables that
belong to the library.

What is hard. At run time, tables outlive or underlive the memory they point to,
another thread runs between two steps of a reset, and sizes meet limits. At
compile time, statements throw in the middle of a block or of a body and what
was already emitted, declared and requested stays; Cranelift's assertions panic
through `extern "C"` and take Julia down. Between the two, one value has several
representations (a register, a field, a word of the host) and every lowering assumes
which one it gets, and how wide. The hazards are listed with their
lines in `PROJECT.json`.

What makes each component correct:

- arena: ranges handed out are aligned, owned exclusively and inside a held block;
- constants: a use gives the constant, alive, and always the same object;
- type tags: equal tags exactly for equal types, datatype addresses inside Julia;
- vectors: a Julia `Vector` to the program, with room for what they claim;
- object layouts: an object reads back as what was put into it, next to any others;
- union values: one word for `nothing`, which every test and the host agree on;
- module compiler: the module is complete and calls land where they were meant to;
- function compiler: every block filled once, instructions and edges in their place;
- integer lowering and marshalling: a register always represents its value, overflow
  flags are exact, the host gets the value Julia computes;
- Dict constants: a lookup finds what Julia's Dict holds, and nothing else.

## 2. Modules

| module | models | state and actions |
|---|---|---|
| `Allocator` | abstract: what the runtime promises about memory | `live`; `Grant`, `FreeAll` |
| `Arena` | `Arena::bump` and `reset` | one variable per field of the struct; a call is `CallBump`, `FreshBlock` for the recursion, `Place`; `LayoutPanic` and `OutOfMemory` are the two ways it aborts |
| `ConstRuntime` | caches over arena memory, several threads | `heap` has what is at an address; one action per runtime entry, `__jl_gc_reset` in its three steps |
| `TypeTags` | ids of the session, tables of the libraries, whose table a library asks | `EmitTypeTag` at compile time, `Build`, `LoadInJulia` (with `Bind`) or `LoadStandalone`, `AskTag` at run time; `FlatNamespace` says whether symbols of libraries opened with `RTLD_GLOBAL` resolve to the first of them |
| `VectorSpec` | abstract: a sequence that can be stored to, extended, cut | `vec` |
| `JArray` | a Vector and its Memory, byte by byte | `SetIndex`, `CopyTo` over `Memcpy`, `SetSize`, `Push`, `Resize` over `GrowEnd` and `DelEnd`; `RegSize` is the width a store really has |
| `ModuleBuilder` | `BuilderContext` | operations, composed by `ModuleCompiler` |
| `ModuleCompiler` | the worklist loop and `finalize` | `NextFunction`, four kinds of invoke, `BodyDone`, `BodyThrows`, `Finalize`, `DefineNext`, `Finish` |
| `FunctionBuilder` | `FunctionCtx` over Cranelift's builder | operations, composed by `FunctionCompiler` |
| `FunctionCompiler` | the block loop of one function | `SwitchBlock`, statements (a call, mixed widths, `Core.isdefined`, one that throws), terminators, `Fallback`, `Seal`, `BodyThrows`, `Finalize` |
| `Objects` | objects in arena memory, byte by byte | `mem` and `objs` beside `promised`, what each object should be; one action per allocator, `StringConcat`, `SetField`, `LegacySet` |
| `Unions` | words of Union values | `reg` beside `val` and the IR's `type`; `Literal`, `New`, `HostObject`, `SetField`, `GetField`, `PassOn`, one action per case of `emit_isa`, `Return` |
| `Scalars` | integers in registers: `reprs.jl`, the integer intrinsics, `_gcall` | `reg` beside `val`, what Julia computes; one action per intrinsic, `Return` |
| `DictConst` | a Dict from Julia's slots to `.rodata` and back | `host`, `rodata`, `dict`; `SetIndex`, `Delete`, `Emit`, `Build`, `GetIndex`, `Get` |
| `MC*` | constants for TLC | |
| `*Proofs` | inductive invariants and theorems | |

`ModuleBuilder` and `FunctionBuilder` are EXTENDed by their only client: the
frontend composes their operations within one step, and no other code calls them.

What is abstract. In `Arena` the system allocator is any placement that does not
overlap a held block. In `ConstRuntime` an object is its owner and its meaning,
not its bytes. In `ModuleCompiler` inference is an arbitrary but fixed answer per
method instance and a body is any sequence of invokes. In `FunctionCompiler` the
graph is arbitrary with up to two different successors per block, a statement that ends no
block is one of five kinds, and it may throw. Two of the five are operations on operands of two
widths: `emit_binop` and `emit_icmp` widen one with `block_add_uextend`, which switches to the
current block first (`MixedOperation`), `emit_checked_pair` and `emit_string_codeunit` leave it to
`harmonize_binop`, which does not (`MixedUnharmonized`). Every other lowering that calls the
builder's binary operations itself emits a constant, a load or a call in the block before, so for it
the two are the same. Cranelift's two builders are external; they
are modelled by the assertions their users have to respect: in `FunctionBuilder`
a block is left only when empty or filled, nothing enters a filled block, no
block gets a predecessor after it is closed or is closed twice; in
`ModuleBuilder` a name is defined at most once and every export has a definition
when `finish()` is called. In `Scalars` a program is any sequence of the operations in
`Lowered`, pairs of an operation and the name of a type; 128-bit integers, the 16-bit
types (which differ from the 8-bit ones in width alone) and floats are left out. Its powers of
two and bitwise operations are recursive functions, as the community module `Bitwise` cannot be
used in a proof, and division rounds towards zero by magnitudes. In
`Objects` a byte is a digit to a small base, memory starts unwritten and addresses are
those of the arena's open block; sizes and tags fit their header fields, the fields of a
struct lie one behind the other (the named assumptions), and a number that is stored to a field or
element fits it (`Fits`); null pointers, for which every function here
returns null or does nothing, are left out. In `Unions` there is one register, a struct has
one field of a Union type, and the reads and writes of fields move the word that is
there; a PiNode, an edge to a phi node and a call that gives back its argument are one action,
because all three keep the word and change the type. Where a load hits no object it gives any of
`Junk`. `UnionSpec` is programs that stay within the representations the tests know; `Further`
has what they do beyond that (section 4). In
`DictConst` Julia's hashing is an arbitrary choice of the slot, a String is the
sequence of its code units and a length is one cell of the blob.

## 3. Runs

| run | bounds | shows |
|---|---|---|
| `Arena` | 8-bit `usize`, 32-byte blocks, three places for blocks, sizes 0, 5, 20, 40, 250 | ranges exclusive and inside blocks (`Exclusive`, `InsideBlock`), one retry (`RetriesOnce`), exact usage (`UsageIsOwned`), refinement of `Allocator` (`Implements`), calls end (`CallsEnd`) |
| `ConstRuntime` | 2 threads, 2 literals, 2 symbols, 4 addresses | constants stay intact through resets of either thread (`ConstantsIntact`) and are built once (`BuiltOnce`) |
| `TypeTags` | 4 types, one reserved, one without an address; 2 libraries, each bound to its own runtime; 4 slots | tags identify types (`TagsIdentifyTypes`), are datatypes inside Julia (`TagsAreDatatypes`) |
| `JArrayWords` | elements of 8 bytes, up to 4 of them, 2 values, copies between disjoint ranges | a Vector to the program (`ImplementsVector`), nothing outside its memory (`StaysInMemory`), room for every element (`RoomForElements`), removed elements zeroed (`RemovedAreZero`) |
| `JArrayTokens` | elements of 12 bytes | **violated**: `RoomForElements` |
| `ModuleCompiler` | an entry and 3 callees, two of one method; 2 invokes per body; all 81 outcomes of inference | no panic (`NoAbort`), calls land (`CallsLand`), once each (`CompiledOnce`), none lost (`NothingForgotten`), the loop ends (`Ends`) |
| `FunctionCompiler` | all 1000 graphs of 3 blocks, 0, 1 and 2 phi nodes, 2 statements per block | no assertion fails but for `Core.isdefined` and for an operand that `harmonize_binop` widens before anything was emitted in its block (`OnlyKnownPanics`, findings 5 and 25), finished functions are complete (`BodyComplete`), no instruction is inserted into another block (`InstructionsLand`) and edges are Julia's (`EdgesFollowCFG`), also on the way to a panic |
| `Scalars` | i64, i32 and sub-words of 6, 4 and 2 bits, all values, the operations of `SoundOps` | registers represent values (`Represents`), overflow flags are exact (`FlagExact`), the host gets Julia's value (`ReturnsValue`) |
| `Objects` | bytes to the base 4, 3 objects in 160 bytes; Strings of 0, 3 and 16 bytes, one with a zero in it; structs of 12 and 24 bytes | objects read back as what was put into them (`Faithful`), Strings end in a zero byte (`Terminated`) |
| `ObjectsSubword` | the same, with a struct of two Bools | **violated**: `Faithful` |
| `Unions` | 2 struct types, 2 objects, Int64 0 and 5, `nothing` as the only literal | words keep their representation (`Represents`), tests answer as Julia does (`TestsFaithful`), the host gets Julia's value (`HostGetsValue`) |
| `DictConst` | 3 slots, Strings of lengths 1 and 2, two bits values, all four combinations of key and value type | lookups are faithful (`LookupFaithful`), so is `get` with bits keys |

The runs above are those of `PROJECT.json`. The configurations below reproduce further
findings of section 4; each is a run above with some constants (and, for `Unions` and
`Objects`, the specification) changed, and TLC finds the property violated. Where the first
column names no file of its own, it says what to change in the one that it names; the property is
then its only one, as a stronger one may fail first.

| configuration | bounds | shows |
|---|---|---|
| `ConstRuntimeEmptyBlob` | `ConstRuntime`, both literals at one address | **violated**: `ConstantsIntact` |
| `ConstRuntimeThreads` | same as `ConstRuntime` | **violated**: `SymbolsPerProcess` |
| `TypeTagsOverflow` | `TypeTags`, 3 slots | **violated**: `TagsIdentifyTypes` |
| `TypeTagsFlat` | `TypeTags`, one namespace for all libraries | **violated**: `TagsAreDatatypes` |
| `JArrayOverlap` | `JArrayWords`, copies between overlapping ranges | **violated**: `ImplementsVector` |
| `JArrayBytes` | `JArrayWords`, elements of a byte, stored from 4 | **violated**: `StaysInMemory` |
| `JArrayStores` | the same, `resize!` with the size of a byte, too | **violated**: `ImplementsVector` |
| `FunctionIsdefined` | as `FunctionCompiler` | **violated**: `NoPanic` |
| `FunctionHarmonize` | as `FunctionCompiler` | **violated**: `OnlyIsdefinedPanics` |
| `ObjectsStringNew` | `Objects`, `SpecLowered` | **violated**: `Faithful` |
| `Unions.cfg` with `SPECIFICATION SpecFurther` and `Forms = {"LoadedTag"}`, `Ints = {}` | a test of an arm by its tag | **violated**: `TestsFaithful` |
| `Unions.cfg` with `SPECIFICATION SpecFurther` and `Forms = {"ReturnedNothing"}` | `return nothing` | **violated**: `TestsFaithful` |
| `Unions.cfg` with `SPECIFICATION SpecFurther` and `Forms = {"HostField"}` | `nothing` in an object of the host | **violated**: `TestsFaithful` |
| `Unions.cfg` with `SPECIFICATION SpecFurther` and `Forms = {"NothingToHost"}` | `nothing` returned as an arm of a Union | **violated**: `HostGetsValue` |
| `Unions.cfg` with `Ghosts = {"Nothing", "Missing"}` | the literal `missing` | **violated**: `TestsFaithful` |
| `Unions.cfg` with `Ints = {0, 10}` | an Int64 that equals the tag | **violated**: `TestsFaithful` |
| `Scalars.cfg` with `Lowered <-` `MCComplement32`, `MCFlipsign32`, `MCSigned8`, `MCUnsigned8`, `MCChar` | one more operation each | **violated**: `ReturnsValue` |
| `Scalars.cfg` with `Lowered <- MCRemainder` | `checked_srem_int` | **violated**: `FlagExact` |
| `DictConstEmptyString` | `DictConst` and the empty String | **violated**: `LookupFaithful` |
| `DictConstGet` | as `DictConst` | **violated**: `GetFaithful` |

Why the bounds are enough. The arena's sizes are one of each kind: empty, below and above the
alignment, larger than a block, and one whose padding wraps `usize`. Its three places are two that
touch and one apart, so a tail, a wrap and an overlap are all within reach, and the fourth block
finds no place. Four addresses for four constants and plain objects make every freed address come
back as something else, on the same thread and on the other. Two libraries are what it takes to meet
an id a table was not built with; `TypeTagsOverflow` differs by a single slot. Four elements let a
vector shrink, grow and be stored to in every order. Two invokes per body give self recursion,
mutual recursion, shared callees and a callee requested by a body that throws. Three blocks have
forward, back and self edges, and one of each number of phi nodes. The lowerings of integers are
uniform in the widths, and what they distinguish (sub-word, 32 bits, 64 bits, sign, typemin, -1, 0)
exists at 2, 4 and 6 bits. A state of `Scalars` is a value in its register, so programs of every
length are covered as soon as every value has been reached; where all registers represent their
values, nothing but the value matters to the next operation. Three slots hold a filled, a deleted
and an empty one in any order, and Strings whose bytes are possible lengths make a misaligned walk
visible. Three objects put one between two others, Strings of 3 and 16 bytes leave 12 bytes of slack
and 15 (the terminator opens a new unit of 16), and numbers to the base 4 need as many digits as
their field has bytes, so a store that is too narrow or too wide shows. One register and two objects
reach every word a value can have; what it went through leaves no other trace than the word and the
type. The theorems of section 5 remove these bounds where they apply.

`CHECK_DEADLOCK FALSE` is stated where the system stops: a finished or aborted
compilation or function, an arena whose process is gone, a vector of the largest
length, libraries that have emitted all types, a program that has returned, `Objects` when memory or
`MaxObjects` is used up and no object has a field. The caches never stop: any
thread can reset; nor do lookups in a Dict, nor programs of `Unions`.

Fairness. `FairSpec` of `Arena` is weak fairness of `bump` once it is entered,
and of `ModuleCompiler` weak fairness of its next step: both are straight-line
code on one thread that waits for nothing. Callers may stop calling. No fairness
is assumed anywhere else.

`MaxOps`, `MaxInvokes`, `MaxId`, `MaxLength`, `MaxObjects` and `MemSize` are the bounds that cap
counters; none stands for anything in the code.

## 4. Findings

1 and 14 are shown by runs of `PROJECT.json`, the others by the further configurations.

1. `resize!` is lowered with element size 8 (`builder_emit.jl`:2111) whatever the
   element type. `JArrayTokens`: growing a `Vector` of 12-byte elements leaves a
   Memory that is too small for the length it claims. Lines 2089-2104 fix the
   same mistake for `push!`.
2. `__jl_type_tag` clamps the id to the last slot and `_type_id` never looks at the
   table's size. `TypeTagsOverflow`: two types share a tag.
3. `_emit_array_const` emits an empty blob for an empty `Vector`; its symbol has the
   address of the next blob, and constants are cached by address alone.
   `ConstRuntimeEmptyBlob`: one constant is returned for another. This assumes
   that the object writer gives an empty symbol no byte of its own.
4. Symbols are interned per thread, the comment says per process.
   `ConstRuntimeThreads`.
5. `Core.isdefined` is lowered to a trap in the middle of a block, and the block loop
   does not treat it as a terminator. `FunctionIsdefined`: the next statement goes
   to a filled block, an assertion of Cranelift's builder in the debug build,
   which is the only one the loader accepts.
6. `not_int` of a 32-bit integer gives a 64-bit register with ones above
   (`emit_not_int` and, the same way, `emit_neg_int` take an Int64 constant for every
   size from 4 bytes up). `MCComplement32`: `~x == y` is false for equal values.
7. `flipsign_int` of Int32, and so `abs`, shifts a sign operand that was widened with
   zeros. `MCFlipsign32`: the result is not `-x`.
8. Constants and truncations of negative sub-word integers are zero-extended,
   arguments are sign-extended. `MCSigned8`: equal Int8 values compare unequal.
9. Sub-word arithmetic is not renormalized. `MCUnsigned8`: a UInt8 sum
   that wraps compares unequal to its value.
10. `from_wire` of a Char is a checked conversion of 64 bits of which the function has
    defined 32. `MCChar`: a Char whose first byte has its top bit set throws if
    the build leaves zeros above it.
11. The flag of `checked_srem_int` is that of a product, the comment says that of a
    division. `MCRemainder`. Julia's own `checked_srem_int` has no flag, so
    nothing reads it.
12. The empty String in a Dict constant is rebuilt as null. `DictConstEmptyString`.
13. `get` on a constant Dict with String keys compares addresses. `DictConstGet`: an
    equal key that is another object is not found. With keys of a bits type `get` compares
    registers, so a negative Int8 key whose register is sign-extended misses its constant (finding 8).
14. `emit_store` ignores its type argument and stores the whole register
    (`builder.rs`:302), although the frontend asks for the width of the field (comment at
    `builder_emit.jl`:3131-3136). `ObjectsSubword`: a store to a Bool field overwrites
    the next one. `JArrayStores`: the same in a byte vector.
15. A shrinking `resize!` of a byte vector zeroes 8 bytes per element, because of
    finding 1. `JArrayBytes`: it writes behind the Memory.
16. `__jl_memcpy` is `copy_nonoverlapping`, `unsafe_copyto!` is lowered to it, and Julia allows
    an overlap. `JArrayOverlap`: elements are read after they were overwritten.
17. Libraries are opened with `RTLD_GLOBAL` and export the same runtime names, but types are
    registered in the library's own table. `TypeTagsFlat`: where the dynamic linker has one
    scope for them, the second library's code asks the first library's table, which has no
    datatype for its types. Whether it does depends on how the library was linked.
18. The lowering of `__jl_string_new` (`builder_emit.jl`:2563-2580) allocates a Memory of words and
    stores the length where its elements start, 8 bytes behind where
    the allocator has put it. `ObjectsStringNew`: the String is one word too far
    from its tag.
19. `emit_isa` loads a tag from offset 0 of an object (lines 3607 and 3624), the runtime
    puts it 8 bytes before (`gc.rs`:461-475). `Forms = {"LoadedTag"}`: the first field is compared with
    the tag. With a scalar arm the word is no address, and where no case applies the
    CompileError is tolerated and the answer is the placeholder 0.
20. `return nothing` as a literal gives null (lines 915-931), every other `nothing` is a
    tag. `"ReturnedNothing"`: a caller's `=== nothing` is false.
21. In a Union field of an object that Julia made, `nothing` is the address of Julia's instance,
    in compiled code it is the tag of its type. `"HostField"`: `=== nothing` is
    false.
22. `get_nothing_tag` is the word Julia itself stores, so a `nothing` that compiled code
    returns is not recognized. `"NothingToHost"`: the host gets the object behind the tag, the
    datatype. The comment at `NativeCodegen.jl`:203-210 says that registration makes the two equal.
23. Every literal singleton is lowered to the tag of Nothing (line 1113). `Ghosts` with `"Missing"`:
    `missing === nothing`.
24. An Int64 in a `Union{Nothing, Int64}` is not boxed. `Ints` with the tag: the integer
    that has the bits of the tag is `nothing`.
25. `harmonize_binop` (`builder.rs`:256-265) puts its `uextend` where Cranelift's builder is. A
    checked operation hands it operands of two widths if one is an Int32 that comes from `neg`,
    `not` or `flipsign` (finding 6), `codeunit` if the index is an Int32. First in its block, with
    no literal among the operands, its `uextend` goes to the block that was left, which is filled.
    `FunctionHarmonize`: an assertion of Cranelift's builder fails. The assertion is what keeps the
    instruction out of the wrong block (`InstructionsLand`), and a release build has none.

The words of 21 and 22 are external facts about Julia's layout: the model has them different
(`TagsAssumption`), as an instance and its datatype are different objects.

What keeps registers normalized is the set `SoundOps`, checked by the run `Scalars` and proved in
`ValuesProofs`: for Int64 and UInt64 every modelled operation that Base applies to them, but for the
checked remainder of Int64; for Int32 and UInt32 all but `neg`, `not`, `flipsign`, the shifts and
the checked remainder of Int32; for UInt8 comparisons, `not`, bit counts and `zext`; for Bool `==`,
`not`, `zext` and `bitcast`; for Char comparison and `bitcast`, as long as it is not returned.
Truncation to any of these types but Bool, which it is not used with, gives a normalized register.

## 5. Proofs

Each theorem is about the specification the runs check, for all values of the
constants that satisfy the module's named assumptions.

- `ArenaProofs`. No assumption beyond the module's. The invariant says that the
  open block is one of the held blocks, that `current + remaining` is its end,
  that every live range ends before the bump pointer or lies in another block,
  and that a second activation has a fresh, aligned block at least as large as
  the request. The last conjunct is what makes `RetriesOnce` inductive: the
  padding of a fresh block is zero. `ArenaImplements` maps each step to `Grant`,
  `FreeAll` or a stutter. `UsageCorrect` replaces the sum over ranges by the set of owned bytes,
  which is finite and has `allocated` elements (`UsageInv`): a new range shares no byte with it, because
  the invariant keeps ranges out of the bytes that are still to be handed out.
- `ConstRuntimeProofs`, under `DistinctKeys` (finding 3 is what happens without
  it). Every table entry points to an object of the same thread that is what the
  entry is for, except between the steps of that thread's own reset, where it is
  exempt until the table is cleared; other threads never free or build over it.
- `TypeTagsProofs`, under `WithinTable` (finding 2) and `~FlatNamespace` (finding 17). Ids are
  unique and below the next one, a slot holds nothing but its own type's two possible tags, and the
  tag in a header is still the one in the slot.
- `ModuleCompilerProofs`. No assumption beyond the module's. A method instance is
  unseen, on the worklist, being emitted, or has been; a name's number is unique; declared names are
  those of functions that were added or are still pending; hence at the end
  every declared name has a function.
- `FunctionCompilerProofs`. No assumption beyond the module's. `LandInv`: edges of a block exist
  only once it is filled, and a translated block is the current one. `FillInv`:
  blocks are filled in order, the builder stays
  behind in a filled block or is in the current one, and nothing but the entry is
  closed before the end although `sealed` says otherwise. A lowered `Core.isdefined` and a stray
  `uextend` break `FillInv` (findings 5 and 25), so `PanicInv`, the inductive one, has it or a panic
  that came after one of the two; a function that is finished has not panicked, which is why
  `BodiesComplete` needs no exception. `InstructionsStay` rests on the same invariant: what is
  inserted where the builder is can only be inserted if that block is not filled, and then it is
  the one that is translated.
- `JArrayProofs`, under `Sound`: the emitter passes the size of the element, the register has it,
  and copies do not overlap (findings 1, 14 and 16). The invariant is that length, the Memory's
  length and capacity are ordered and that the bytes are exactly those of the capacity; from it the
  bytes of an element are disjoint from those of another, so each action maps to one of `VectorSpec`
  or to a stutter. Products of lengths and sizes are put into lemmas of their own because the solver
  does no non-linear arithmetic.
- Unions, in the second half of `TypeTagsProofs`, under `UnionsSound`: `nothing` is the only literal
  singleton and no Int64 has the bits of its tag (findings 23 and 24); `UnionsTypeCorrect` needs
  neither. `Represents` is not inductive: an object that a register or a field means has to be there
  still, or the next one at its address would be of another type. That is the conjunct `Referred` of
  `UnionsInv`.
- `ObjectsProofs`, under `Sound`: every field is stored with a register of its width (finding 14).
  The invariant is about cells, the places of numbers in memory: every object has cells for its
  header and its fields, they are apart from each other and behind those of every older object, each
  number fits its cell, and memory holds its bytes. A store to a cell leaves the others alone, and
  what a load makes of the bytes of a number is the number.
- `ValuesProofs`, part 1, constant Dicts. The invariant says what the three copies
  are: `host` has no key twice and no null in a filled slot, `rodata` is what serialization
  makes of it, `dict` is what rebuilding makes of that, and an answer is Julia's. The lemmas
  `StringsRoundTrip` and `BitsRoundTrip` say that rebuilding gives back each element of a filled
  slot, with the walk over the blob always at the place where the next length is. `LookupsFaithful` has
  `NoEmptyString` inside the box, as an empty String comes back as null (finding 12);
  `AllLookupsFaithful` has it as a hypothesis on the set `Strings`.
- `ValuesProofs`, part 2, integers, for all widths with 1 < `Byte` < `Half` < `Word` and every
  program whose operations are in `SoundOps` (findings 6 to 11 are about others, as are shifts of
  32 bits). `Represents` is not inductive: it does not say how wide the register of a type is, and
  the lowerings depend on it. `ScalarsInv` says that the register is the one `to_wire` would make of
  the value (`Normal`), that the two flags are equal and that the result is the value. The argument
  goes by congruence modulo 2^w: sums, differences and products of congruent numbers are congruent,
  and there is one value of a type for each remainder. Comparisons and shifts read the sign from the
  top bit. The flags of sums and differences are about the top bits of an xor and an and, and a sum
  wraps at most once. The flag of a product is exact because, for a factor a that is neither 0 nor
  -1, the wrapped product divided by a gives b only if it is a * b: it differs from a * b by a
  multiple of 2^w, and by less than the magnitude of a if the quotient is b.

Recursive functions (powers, numbers from bits or digits, `FlattenSeq`, the walks over blobs and
bytes) are first shown to be what their equations say, then reasoned about up to a bound. Induction
itself is the least-counterexample argument, from the library's theorem that < is well-founded on
the naturals: a set of counterexamples that is not empty would have a least element.

Only model-checked. The two liveness properties (`CallsEnd`, `Ends`), which are
beyond the prover. Every invariant and action property of the runs that pass is stated by a theorem.

## 6. Not modelled

- Of instruction lowering: floats, tuples, `ref_tracking`, and the overlays that
  `emit_invoke` puts in place of library calls. The control every lowering shares
  is in `FunctionCompiler`, the integers are in `Scalars`, allocation and field stores in `Objects`,
  tests of Unions in `Unions`.
- Of Unions: `isa` of an empty Vararg tuple, which is decided by a length; fields whose Union has
  isbits arms, which the frontend refuses to load.
- Of `strings.rs`: `__jl_string_codeunit`, which reads a Julia String through the legacy header
  and cuts its index to 32 bits (`strings.rs`:158). The emitter loads code units
  inline, and nothing calls it.
- Shift amounts of the width and more; Base guards them before the intrinsic.
- Changes of a Dict after a function that has it as a constant was compiled.
- SSA ids in `FunctionCtx`, and the creation of missing target blocks by `emit_jump`,
  which the frontend never needs.
- The exceptions runtime: the frontend emits no call of it, so there is no caller
  whose order of calls a model could follow.
- The handle registry: nothing calls `cleanup_all`, and a handle is leaked at most.
- The overlay interpreter extends Julia's compiler and keeps no state of its own; the
  linker driver is pure I/O; the offload table is a stub.
- Allocation inside `ConstRuntime` does not fail; `Arena` has the failures.
- Which of the two values `FlatNamespace` has: that is the platform's and the linker's.

## 7. Plan

Done, in this order: `Arena`, `ModuleCompiler`, `JArray`, `TypeTags`, `ConstRuntime`,
`FunctionCompiler`, `Scalars`, `DictConst`; copies and register widths in `JArray`, the scope of
libraries in `TypeTags`, panics in `FunctionCompiler`, `Objects`, `Unions`; the proofs of all of
them.

Next:

1. `MemoryRefs`: `ref_tracking` through phi nodes and offsets.
2. A composition of `ConstRuntime` and `DictConst`: a Dict that is rebuilt after a reset.
3. A composition of `TypeTags` and `Unions`: objects that pass from one library to another.
4. Proofs: the theorems about integers for programs that also use some of the operations
   outside `SoundOps`, as long as their results are only used in ways that forgive it.
