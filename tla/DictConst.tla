----------------------------- MODULE DictConst -----------------------------
(***************************************************************************)
(* A constant Dict in compiled code: its three arrays are serialized to    *)
(* .rodata (NativeCodegen/src/builder_emit.jl), rebuilt at run time        *)
(* (native-backend/src/runtime/gc.rs, strings.rs) and searched by the      *)
(* linear scan that replaces Base's hashing (interp.jl), or, for get, by   *)
(* comparisons that the emitter unrolls.                                   *)
(*                                                                         *)
(* An element is the sequence of its cells.  An element of a bits type has *)
(* one cell; a String has one for each code unit.  A length is one cell.   *)
(***************************************************************************)
EXTENDS Integers, SequencesExt

CONSTANTS
    Slots,          \* slots of the hash table
    Strings, Bits,  \* elements: Strings, and values of the bits types
    Null, Missing, Crash

ASSUME ElementsAssumption ==
    /\ Slots \in Nat
    /\ Strings \subseteq Seq(Nat) /\ Bits \subseteq Seq(Nat)
    /\ \A e \in Bits : Len(e) = 1
    /\ {Null, Missing, Crash} \cap (Strings \cup Bits) = {}

VARIABLES
    keyIsStr, valIsStr,     \* the Dict's type
    host,                   \* the Dict in Julia: slots, keys, vals
    rodata,                 \* the emitted bytes of each array
    dict,                   \* the rebuilt Dict
    phase,                  \* "host", "emitted", "built", "found" or "got"
    key, answer             \* a search and what it gives

vars == <<keyIsStr, valIsStr, host, rodata, dict, phase, key, answer>>

Index == 1 .. Slots
Empty == 0
Deleted == 127
Occupied == 128             \* the hash in the other seven bits is left out

Keys == IF keyIsStr THEN Strings ELSE Bits
Vals == IF valIsStr THEN Strings ELSE Bits

Table(K, V) == [slots : [Index -> {Empty, Deleted, Occupied}],
                keys : [Index -> K \cup {Null}], vals : [Index -> V \cup {Null}]]

TypeOK ==
    /\ keyIsStr \in BOOLEAN /\ valIsStr \in BOOLEAN
    /\ host \in Table(Keys, Vals)
    /\ phase \in {"host", "emitted", "built", "found", "got"}
    /\ phase \in {"built", "found", "got"} => dict \in Table(Keys, Vals)
    /\ phase \in {"found", "got"} =>
          /\ key \in Keys
          /\ answer \in Vals \cup {Null, Missing, Crash}

\* isslotfilled: bit 7 of the slot's byte.
Filled(slot) == slot >= 128

-----------------------------------------------------------------------------
(* Base.Dict in the compiling session.  The place of a key is up to its    *)
(* hash.  An array of bits elements holds garbage where nothing was        *)
(* stored, and keeps what was deleted; an array of Strings holds null.     *)

Blank(isStr, e) == [i \in Index |-> IF isStr THEN Null ELSE e]

Init ==
    /\ keyIsStr \in BOOLEAN /\ valIsStr \in BOOLEAN
    /\ \E k \in Bits, v \in Bits :
          host = [slots |-> [i \in Index |-> Empty],
                  keys |-> Blank(keyIsStr, k), vals |-> Blank(valIsStr, v)]
    /\ rodata = <<>> /\ dict = <<>>
    /\ phase = "host"
    /\ key = Null /\ answer = Null

Holds(t, k, i) == Filled(t.slots[i]) /\ t.keys[i] = k

SetIndex(k, v) ==
    /\ phase = "host"
    /\ \E i \in Index :
          /\ \/ Holds(host, k, i)
             \/ ~Filled(host.slots[i]) /\ \A j \in Index : ~Holds(host, k, j)
          /\ host' = [slots |-> [host.slots EXCEPT ![i] = Occupied],
                      keys |-> [host.keys EXCEPT ![i] = k],
                      vals |-> [host.vals EXCEPT ![i] = v]]
    /\ UNCHANGED <<keyIsStr, valIsStr, rodata, dict, phase, key, answer>>

Delete(k) ==
    /\ phase = "host"
    /\ \E i \in Index, s \in {Empty, Deleted} :
          /\ Holds(host, k, i)
          /\ host' = [slots |-> [host.slots EXCEPT ![i] = s],
                      keys |-> IF keyIsStr THEN [host.keys EXCEPT ![i] = Null]
                               ELSE host.keys,
                      vals |-> IF valIsStr THEN [host.vals EXCEPT ![i] = Null]
                               ELSE host.vals]
    /\ UNCHANGED <<keyIsStr, valIsStr, rodata, dict, phase, key, answer>>

-----------------------------------------------------------------------------
(* The emitter.                                                            *)

\* _serialize_str_dict_elems: length and bytes, slot by slot.
Serialize(mem, slots) ==
    FlattenSeq([i \in Index |->
        IF Filled(slots[i]) THEN <<Len(mem[i])>> \o mem[i] ELSE <<0>>])

\* _emit_dict_const
Emit ==
    /\ phase = "host"
    /\ rodata' = [slots |-> host.slots,
                  keys |-> IF keyIsStr THEN Serialize(host.keys, host.slots)
                           ELSE FlattenSeq(host.keys),
                  vals |-> IF valIsStr THEN Serialize(host.vals, host.slots)
                           ELSE FlattenSeq(host.vals)]
    /\ phase' = "emitted"
    /\ UNCHANGED <<keyIsStr, valIsStr, host, dict, key, answer>>

-----------------------------------------------------------------------------
(* The runtime: __jl_dict_from_rodata.                                     *)

\* Fault: the last byte is not copied.
StringFromRawShort(blob, p) ==
    IF blob[p] = 0 THEN Null ELSE SubSeq(blob, p + 1, p + blob[p] - 1)

\* The bytes at p are null when the length is 0, and __jl_string_from_raw
\* makes null of null.
StringFromRaw(blob, p) ==
    IF blob[p] = 0 THEN Null ELSE SubSeq(blob, p + 1, p + blob[p])

\* build_str_mem walks over the lengths.
BuildStrMem(blob) ==
    LET p[i \in 1 .. Slots + 1] ==
            IF i = 1 THEN 1 ELSE p[i - 1] + 1 + blob[p[i - 1]]
    IN  [i \in Index |-> StringFromRaw(blob, p[i])]

\* mk_mem points into the blob.
Alias(blob) == [i \in Index |-> <<blob[i]>>]

Build ==
    /\ phase = "emitted"
    /\ dict' = [slots |-> rodata.slots,
                keys |-> IF keyIsStr THEN BuildStrMem(rodata.keys)
                         ELSE Alias(rodata.keys),
                vals |-> IF valIsStr THEN BuildStrMem(rodata.vals)
                         ELSE Alias(rodata.vals)]
    /\ phase' = "built"
    /\ UNCHANGED <<keyIsStr, valIsStr, host, rodata, key, answer>>

-----------------------------------------------------------------------------
(* The searches.                                                           *)

\* Fault: the slots' bytes are not looked at.
ScanUnfilled(k) ==
    LET stops == {i \in Index : dict.keys[i] = k}
    IN  IF stops = {} THEN Missing ELSE dict.vals[Min(stops)]

\* ht_keyindex: up to the first filled slot with an equal key.  Comparing
\* with a null String reads at null.
Scan(k) ==
    LET stops == {i \in Index : Holds(dict, k, i) \/ Holds(dict, Null, i)}
    IN  IF stops = {} THEN Missing
        ELSE LET i == Min(stops) IN
             IF dict.keys[i] = Null THEN Crash ELSE dict.vals[i]

GetIndex(k) ==
    /\ phase \in {"built", "found", "got"}
    /\ answer' = Scan(k)
    /\ phase' = "found" /\ key' = k
    /\ UNCHANGED <<keyIsStr, valIsStr, host, rodata, dict>>

\* _emit_const_dict_get: a select for each entry.  Registers are compared, of
\* a String that is its address: the key has to be the object in the Dict.
Selects(k, same) ==
    LET hits == {i \in Index : Holds(host, k, i) /\ (keyIsStr => same)}
    IN  IF hits = {} THEN Missing ELSE host.vals[Max(hits)]

Get(k) ==
    /\ phase \in {"built", "found", "got"}
    /\ \E i \in Index : Filled(host.slots[i])
    /\ \E same \in BOOLEAN : answer' = Selects(k, same)
    /\ phase' = "got" /\ key' = k
    /\ UNCHANGED <<keyIsStr, valIsStr, host, rodata, dict>>

Next ==
    \/ \E k \in Keys : Delete(k) \/ GetIndex(k) \/ Get(k)
    \/ \E k \in Keys, v \in Vals : SetIndex(k, v)
    \/ Emit \/ Build

Spec == Init /\ [][Next]_vars

-----------------------------------------------------------------------------
\* What the Dict in Julia has for a key.
Expected(k) ==
    IF \E i \in Index : Holds(host, k, i)
    THEN host.vals[CHOOSE i \in Index : Holds(host, k, i)] ELSE Missing

(* A lookup in the rebuilt Dict gives what the Dict in Julia holds: after  *)
(* any history of insertions and deletions the three arrays still belong   *)
(* together, and what a deleted slot has left behind is not found.  So     *)
(* does get with keys of a bits type, as long as the registers of their    *)
(* constants are their values, which those of a negative Int8 are not.     *)
LookupFaithful ==
    phase = "found" \/ (phase = "got" /\ ~keyIsStr) => answer = Expected(key)

(* So does get on a constant Dict with keys of any type. *)
GetFaithful == phase = "got" => answer = Expected(key)
=============================================================================
