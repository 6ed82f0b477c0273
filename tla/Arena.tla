------------------------------- MODULE Arena -------------------------------
(***************************************************************************)
(* The thread-local bump arena behind every allocation of the native       *)
(* runtime (native-backend/src/runtime/gc.rs).  A call of bump is the      *)
(* sequence CallBump, then FreshBlock if the open block is too small, then *)
(* Place; the recursion of the source is the variable depth.  Every caller *)
(* in the runtime asks for 16-byte alignment, so Align is fixed.           *)
(*                                                                         *)
(* The system allocator is external: a fresh block is any aligned range    *)
(* that starts at one of Bases and overlaps no block the arena still       *)
(* holds, or there is none and the program aborts.                         *)
(***************************************************************************)
EXTENDS Integers, FiniteSets

CONSTANTS
    BlockSize,      \* DEFAULT_BLOCK_SIZE
    Sizes,          \* the request sizes of the callers
    Bases,          \* addresses the system allocator may return
    MaxUsize,       \* usize::MAX
    MaxLayout       \* largest size Layout::from_size_align accepts

VARIABLES
    blocks,         \* Arena.blocks: [base, cap]
    current,        \* Arena.current, 0 when null
    remaining,      \* Arena.remaining
    allocated,      \* Arena.allocated
    depth,          \* activations of bump on the stack
    req,            \* the size argument of those activations
    aborted,        \* the process is gone
    live            \* history: ranges returned since the last reset

vars == <<blocks, current, remaining, allocated, depth, req, aborted, live>>

Promise == INSTANCE Allocator

Align      == Promise!Align
Padding(a) == Promise!Padding(a)
\* Fault: the pointer is not moved over the padding.
RoundForgotten(a) == a
Round(a)   == Promise!Round(a)
End(r)     == Promise!End(r)
BlockEnd(b) == b.base + b.cap

ASSUME BlockSizeAssumption ==
    BlockSize \in Nat /\ BlockSize > 0 /\ BlockSize % Align = 0
ASSUME SizesAssumption == Sizes \subseteq 0 .. MaxUsize
ASSUME BasesAssumption ==
    Bases \subseteq Nat /\ \A b \in Bases : b > 0 /\ b % Align = 0
ASSUME LimitsAssumption ==
    /\ MaxUsize \in Nat /\ MaxLayout \in Nat
    /\ BlockSize <= MaxLayout /\ MaxLayout < MaxUsize

Blocks == [base : Nat, cap : Nat]

TypeOK ==
    /\ blocks \subseteq Blocks
    /\ current \in Nat
    /\ remaining \in Nat
    /\ allocated \in Nat
    /\ depth \in Nat
    /\ req \in Nat
    /\ aborted \in BOOLEAN
    /\ live \subseteq Promise!Ranges

Init ==
    /\ blocks = {} /\ current = 0 /\ remaining = 0 /\ allocated = 0
    /\ depth = 0 /\ req = 0
    /\ aborted = FALSE
    /\ live = {}

-----------------------------------------------------------------------------
(* bump                                                                    *)

\* Fault: the addition wraps.
NeededWraps(size) == (size + Padding(current)) % (MaxUsize + 1)

\* size.checked_add(padding).unwrap_or(usize::MAX)
Needed(size) ==
    LET sum == size + Padding(current)
    IN  IF sum > MaxUsize THEN MaxUsize ELSE sum

\* Fault: padding is left out of the comparison.
FitsUnpadded == req <= remaining
Fits == Needed(req) <= remaining

\* Fault: every block has the default size.
FreshSizeDefault == BlockSize

\* core::cmp::max(DEFAULT_BLOCK_SIZE, size)
FreshSize == IF req > BlockSize THEN req ELSE BlockSize

\* The system allocator may put a block of n bytes at base.
Available(base, n) ==
    /\ base + n <= MaxUsize
    /\ \A b \in blocks : base + n <= b.base \/ BlockEnd(b) <= base

\* A runtime entry point asks for size bytes.  The one empty request, the
\* slot table of an empty Dict, follows a request of a header's size.
CallBump(size) ==
    /\ depth = 0 /\ ~aborted
    /\ size = 0 => blocks # {}
    /\ depth' = 1
    /\ req' = size
    /\ UNCHANGED <<blocks, current, remaining, allocated, aborted, live>>

Place ==
    /\ depth > 0 /\ ~aborted
    /\ Fits
    /\ current' = Round(current) + req
    /\ remaining' = remaining - Needed(req)
    /\ allocated' = allocated + req
    /\ live' = live \cup {[ptr |-> Round(current), size |-> req]}
    /\ depth' = 0
    /\ req' = 0
    /\ UNCHANGED <<blocks, aborted>>

FreshBlock(base) ==
    /\ depth > 0 /\ ~aborted
    /\ ~Fits
    /\ FreshSize <= MaxLayout
    /\ Available(base, FreshSize)
    /\ blocks' = blocks \cup {[base |-> base, cap |-> FreshSize]}
    /\ current' = base
    /\ remaining' = FreshSize
    /\ depth' = depth + 1
    /\ UNCHANGED <<allocated, req, aborted, live>>

\* Layout::from_size_align(..).unwrap() panics: the size rounds past isize::MAX.
LayoutPanic ==
    /\ depth > 0 /\ ~aborted
    /\ ~Fits
    /\ FreshSize > MaxLayout
    /\ aborted' = TRUE
    /\ UNCHANGED <<blocks, current, remaining, allocated, depth, req, live>>

\* Fault: a null block is asked for again.
OutOfMemoryRetries ==
    /\ depth > 0 /\ ~aborted
    /\ ~Fits
    /\ FreshSize <= MaxLayout
    /\ \A base \in Bases : ~Available(base, FreshSize)
    /\ UNCHANGED vars

\* unreachable!("oom")
OutOfMemory ==
    /\ depth > 0 /\ ~aborted
    /\ ~Fits
    /\ FreshSize <= MaxLayout
    /\ \A base \in Bases : ~Available(base, FreshSize)
    /\ aborted' = TRUE
    /\ UNCHANGED <<blocks, current, remaining, allocated, depth, req, live>>

-----------------------------------------------------------------------------
(* __jl_gc_reset, as far as the arena goes                                 *)

\* Fault: the bump pointer survives the blocks.
ResetKeepsPointer ==
    /\ depth = 0 /\ ~aborted
    /\ blocks' = {}
    /\ allocated' = 0
    /\ live' = {}
    /\ UNCHANGED <<current, remaining, depth, req, aborted>>

\* Fault: the usage counter is not reset.
ResetKeepsUsage ==
    /\ depth = 0 /\ ~aborted
    /\ blocks' = {}
    /\ current' = 0
    /\ remaining' = 0
    /\ live' = {}
    /\ UNCHANGED <<allocated, depth, req, aborted>>

Reset ==
    /\ depth = 0 /\ ~aborted
    /\ blocks' = {}
    /\ current' = 0
    /\ remaining' = 0
    /\ allocated' = 0
    /\ live' = {}
    /\ UNCHANGED <<depth, req, aborted>>

-----------------------------------------------------------------------------
Bump == Place \/ LayoutPanic \/ OutOfMemory \/ \E base \in Bases : FreshBlock(base)

Next == Bump \/ Reset \/ \E size \in Sizes : CallBump(size)

Spec == Init /\ [][Next]_vars

\* A call that has been entered keeps running: nothing in bump waits.
FairSpec == Spec /\ WF_vars(Bump)

-----------------------------------------------------------------------------
(* Properties                                                              *)

\* Two ranges handed out since the last reset share no byte, and the slack
\* that rounds a range up to 16 bytes belongs to it alone.  Generated code
\* relies on the slack: the zero fill of emit_new stores a full word in the
\* last, shorter chunk of an object.
Exclusive ==
    \A r, s \in live : r = s \/ Promise!Before(r, s) \/ Promise!Before(s, r)

\* Every range handed out lies in a block the arena still holds, so that no
\* owned range is dealloc'ed or was carved from the tail of an abandoned
\* block.  The slack of any request a default block can hold is in the block too.
InsideBlock ==
    \A r \in live : \E b \in blocks :
        /\ b.base <= r.ptr /\ End(r) <= BlockEnd(b)
        /\ r.size <= BlockSize => Round(End(r)) <= BlockEnd(b)

\* "Retry once with the fresh block (guaranteed to fit)": bump never recurses
\* a second time, whatever size was asked for.
RetriesOnce == depth <= 2

\* The bytes of the ranges the program owns.
Bytes(r) == r.ptr .. End(r) - 1
Owned    == UNION {Bytes(r) : r \in live}

\* __jl_gc_usage reports what the program owns: as many bytes as it was handed
\* since the last reset, counting neither padding nor abandoned block tails.
UsageIsOwned == allocated = Cardinality(Owned)

\* The arena is an implementation of the abstract allocator.
Implements == Promise!Spec

\* A call of bump returns or takes the process down; it does not recurse for ever.
CallsEnd == depth > 0 ~> (depth = 0 \/ aborted)

=============================================================================
