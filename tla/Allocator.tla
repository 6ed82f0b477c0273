----------------------------- MODULE Allocator -----------------------------
(***************************************************************************)
(* What the runtime promises its callers about memory, independently of    *)
(* how the arena of native-backend/src/runtime/gc.rs provides it: a        *)
(* request is answered with an aligned range of addresses that shares no   *)
(* byte, alignment slack included, with any range still owned by the       *)
(* program, and ranges are only ever taken back all together.              *)
(***************************************************************************)
EXTENDS Integers

VARIABLE live           \* the ranges [ptr, size] the program owns

Align == 16

Padding(a) == IF a % Align = 0 THEN 0 ELSE Align - (a % Align)
Round(a)   == a + Padding(a)

End(r) == r.ptr + r.size

Ranges == [ptr : Nat, size : Nat]

\* r ends, slack included, before s begins.
Before(r, s) == Round(End(r)) <= s.ptr

Grant(r) ==
    /\ r.ptr % Align = 0
    /\ \A s \in live : Before(r, s) \/ Before(s, r)
    /\ live' = live \cup {r}

FreeAll == live' = {}

Init == live = {}
Next == FreeAll \/ \E r \in live' : r \in Ranges /\ Grant(r)
Spec == Init /\ [][Next]_live

=============================================================================
