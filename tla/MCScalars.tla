----------------------------- MODULE MCScalars -----------------------------
(* Scaled widths: i64 has 6 bits, i32 has 4 and a sub-word has 2.  The     *)
(* programs of MCSound use the operations that keep registers normalized.  *)
(* Each other set adds one that does not.                                  *)
EXTENDS Scalars

MCSound == SoundOps

MCComplement32 == MCSound \cup {"not"} \X {"UInt32"}
MCFlipsign32   == MCSound \cup {"flipsign"} \X {"Int32"}
MCSigned8      == MCSound \cup {"argument", "constant", "eq"} \X {"Int8"}
MCUnsigned8    == MCSound \cup {"add"} \X {"UInt8"}
MCChar         == MCSound \cup {"return"} \X {"Char"}
MCRemainder    == MCSound \cup {"checked_rem"} \X {"Int64"}
=============================================================================
