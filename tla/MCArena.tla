------------------------------ MODULE MCArena ------------------------------
(* A small address space: 8-bit usize, blocks of 32 bytes. *)
EXTENDS Arena

MCBlockSize == 32
MCMaxUsize  == 255
MCMaxLayout == 112                      \* isize::MAX - (Align - 1), 8-bit isize
MCBases     == {16, 48, 96}
MCSizes     == {0, 5, 20, 40, 250}
=============================================================================
