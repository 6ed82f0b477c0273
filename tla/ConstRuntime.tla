---------------------------- MODULE ConstRuntime ----------------------------
(***************************************************************************)
(* The constants of compiled code: literals rebuilt from .rodata and       *)
(* interned symbols (native-backend/src/runtime/gc.rs, strings.rs).  Both  *)
(* are arena objects remembered in thread-local tables, RODATA_CACHE and   *)
(* SYM_INTERN, and __jl_gc_reset takes the arena away under the tables.    *)
(* Memory freed by one thread may come back as an object of any thread.    *)
(***************************************************************************)
EXTENDS Integers

CONSTANTS
    Threads,
    Sites,          \* the places of the code that use a literal
    Keys,           \* addresses in .rodata
    KeyOf(_),       \* where the bytes of a site's literal are
    Symbols,        \* symbol names
    Addrs,          \* where the arenas may put objects
    NoAddr, Free, Plain

ASSUME KeysAssumption == \A s \in Sites : KeyOf(s) \in Keys
ASSUME NoneAssumption ==
    /\ NoAddr \notin Addrs
    /\ Sites \cap Symbols = {} /\ Plain \notin Sites \cup Symbols
    /\ \A t \in Threads, x \in Sites \cup Symbols \cup {Plain} :
          Free # [owner |-> t, what |-> x]

VARIABLES
    heap,           \* the object at an address, or Free
    rodataCache,    \* RODATA_CACHE of a thread, NoAddr where it has no entry
    symIntern,      \* SYM_INTERN of a thread
    resetting,      \* how far __jl_gc_reset of a thread is
    held            \* history: [thread, what, addr] obtained since the reset

vars == <<heap, rodataCache, symIntern, resetting, held>>

Things == Sites \cup Symbols \cup {Plain}
Objects == [owner : Threads, what : Things]

TypeOK ==
    /\ heap \in [Addrs -> Objects \cup {Free}]
    /\ rodataCache \in [Threads -> [Keys -> Addrs \cup {NoAddr}]]
    /\ symIntern \in [Threads -> [Symbols -> Addrs \cup {NoAddr}]]
    /\ resetting \in [Threads -> {"no", "arena freed", "symbols cleared"}]
    /\ held \subseteq [thread : Threads, what : Sites \cup Symbols, addr : Addrs]

NoEntries(K) == [k \in K |-> NoAddr]

Init ==
    /\ heap = [a \in Addrs |-> Free]
    /\ rodataCache = [t \in Threads |-> NoEntries(Keys)]
    /\ symIntern = [t \in Threads |-> NoEntries(Symbols)]
    /\ resetting = [t \in Threads |-> "no"]
    /\ held = {}

Running(t) == resetting[t] = "no"

-----------------------------------------------------------------------------
\* Fault: the object is owned by nobody's arena.
BuildUnowned(t, x, a) ==
    /\ heap[a] = Free
    /\ heap' = [heap EXCEPT ![a] = [owner |-> NoAddr, what |-> x]]

\* bump_alloc, and the object its caller writes there.
Build(t, x, a) ==
    /\ heap[a] = Free
    /\ heap' = [heap EXCEPT ![a] = [owner |-> t, what |-> x]]

Return(t, x, a) == held' = held \cup {[thread |-> t, what |-> x, addr |-> a]}

\* get_or_build_rodata under __jl_string_cached, __jl_bytes_dup,
\* __jl_array_alias_rodata and __jl_dict_from_rodata: the address of the bytes
\* is the whole key, for all four.
UseLiteral(t, s) ==
    /\ Running(t)
    /\ LET k == KeyOf(s) IN
       \/ /\ rodataCache[t][k] # NoAddr
          /\ Return(t, s, rodataCache[t][k])
          /\ UNCHANGED <<heap, rodataCache>>
       \/ /\ rodataCache[t][k] = NoAddr
          /\ \E a \in Addrs :
                /\ Build(t, s, a)
                /\ rodataCache' = [rodataCache EXCEPT ![t][k] = a]
                /\ Return(t, s, a)
    /\ UNCHANGED <<symIntern, resetting>>

\* Fault: the new symbol is not pushed onto the table.
InternSymbolForgets(t, n) ==
    /\ Running(t)
    /\ \E a \in Addrs : Build(t, n, a) /\ Return(t, n, a)
    /\ UNCHANGED <<rodataCache, symIntern, resetting>>

\* __jl_intern_symbol
InternSymbol(t, n) ==
    /\ Running(t)
    /\ \/ /\ symIntern[t][n] # NoAddr
          /\ Return(t, n, symIntern[t][n])
          /\ UNCHANGED <<heap, symIntern>>
       \/ /\ symIntern[t][n] = NoAddr
          /\ \E a \in Addrs :
                /\ Build(t, n, a)
                /\ symIntern' = [symIntern EXCEPT ![t][n] = a]
                /\ Return(t, n, a)
    /\ UNCHANGED <<rodataCache, resetting>>

\* Any other allocation: __jl_gc_alloc_julia and its relatives.
Allocate(t) ==
    /\ Running(t)
    /\ \E a \in Addrs : Build(t, Plain, a)
    /\ UNCHANGED <<rodataCache, symIntern, resetting, held>>

-----------------------------------------------------------------------------
(* __jl_gc_reset: other threads run between its steps.  The caller keeps   *)
(* no object over a reset.                                                 *)

FreeArena(t) ==
    /\ Running(t)
    /\ heap' = [a \in Addrs |->
                   IF heap[a] # Free /\ heap[a].owner = t THEN Free ELSE heap[a]]
    /\ held' = {r \in held : r.thread # t}
    /\ resetting' = [resetting EXCEPT ![t] = "arena freed"]
    /\ UNCHANGED <<rodataCache, symIntern>>

ClearSymbols(t) ==
    /\ resetting[t] = "arena freed"
    /\ symIntern' = [symIntern EXCEPT ![t] = NoEntries(Symbols)]
    /\ resetting' = [resetting EXCEPT ![t] = "symbols cleared"]
    /\ UNCHANGED <<heap, rodataCache, held>>

\* Fault: RODATA_CACHE is not cleared.
ClearRodataForgotten(t) ==
    /\ resetting[t] = "symbols cleared"
    /\ resetting' = [resetting EXCEPT ![t] = "no"]
    /\ UNCHANGED <<heap, rodataCache, symIntern, held>>

ClearRodata(t) ==
    /\ resetting[t] = "symbols cleared"
    /\ rodataCache' = [rodataCache EXCEPT ![t] = NoEntries(Keys)]
    /\ resetting' = [resetting EXCEPT ![t] = "no"]
    /\ UNCHANGED <<heap, symIntern, held>>

Reset(t) == FreeArena(t) \/ ClearSymbols(t) \/ ClearRodata(t)

Next ==
    \E t \in Threads :
        \/ Reset(t) \/ Allocate(t)
        \/ \E s \in Sites : UseLiteral(t, s)
        \/ \E n \in Symbols : InternSymbol(t, n)

Spec == Init /\ [][Next]_vars

-----------------------------------------------------------------------------
(* Properties                                                              *)

\* The blobs of two literals start at different addresses.  It is what the
\* object writer and the linker give for blobs that are not empty.
DistinctKeys == \A r, s \in Sites : KeyOf(r) = KeyOf(s) => r = s

\* What a use of a constant gave is a live object of the same thread with
\* that constant in it, until the thread resets: no table hands out memory
\* that a reset freed and some thread has since built something else in.
ConstantsIntact ==
    \A r \in held : heap[r.addr] = [owner |-> r.thread, what |-> r.what]

\* "each const is built ONCE per parse", and :foo === :foo on one thread:
\* between two resets a thread makes one object of each constant, whichever
\* of its uses comes first.
BuiltOnce ==
    \A a, b \in Addrs :
        heap[a] = heap[b] /\ heap[a] # Free /\ heap[a].what # Plain => a = b

\* "every use of the same name must return the SAME address - hence a
\* per-process intern table": also when two threads use it.
SymbolsPerProcess ==
    \A q, r \in held : q.what = r.what /\ q.what \in Symbols => q.addr = r.addr
=============================================================================
