--------------------------- MODULE TypeTagsProofs ---------------------------
(***************************************************************************)
(* Tags are right in every session that stays within the table and whose   *)
(* libraries keep to their own runtime, for any number of types and        *)
(* libraries and any order of compiling and loading.  Where tags are, the  *)
(* values of Union types that carry them keep their representation: the    *)
(* second part, about Unions.                                              *)
(***************************************************************************)
EXTENDS TypeTags, Unions, TLAPS

HasId(T) == ids[T] # NoId

\* Ids are given out in order, never twice, and fit the table.
IdsUnique ==
    /\ nextId \in Nat /\ FirstId <= nextId /\ nextId <= TableSize
    /\ \A T \in Types : HasId(T) => ids[T] \in Nat /\ ids[T] < nextId
    /\ \A S, T \in Types : HasId(S) /\ ids[S] = ids[T] => S = T

UsesHaveIds == \A l \in Libs : \A T \in uses[l] : HasId(T)

\* A slot that belongs to a type holds one of the two tags it may have, and
\* a slot whose id has not been given out is empty.
SlotsPrivate ==
    \A l \in Libs :
        /\ \A T \in Types : HasId(T) =>
              table[l][ids[T]] \in {Null, T, SlotAddress(l, ids[T])}
        /\ \A i \in Slots : nextId <= i => table[l][i] = Null

\* Loading in Julia leaves a datatype in the slot of every type the code names.
Overridden ==
    \A l \in Libs : mode[l] = "julia" =>
        \A T \in uses[l] \ Unregistrable : table[l][ids[T]] = T

\* The tag an object got is still the one its type's slot holds.
HeadersInTable ==
    \A l \in Libs : \A x \in headers[l] :
        /\ mode[l] \in Loaded /\ x.type \in uses[l]
        /\ table[l][ids[x.type]] = x.tag

\* The code of a library calls its own runtime.
HomeOwn == \A l \in Libs : home[l] = l

IInv == /\ TypeOK /\ IdsUnique /\ UsesHaveIds /\ SlotsPrivate /\ Overridden
        /\ HeadersInTable /\ HomeOwn

-----------------------------------------------------------------------------
LEMMA SlotIsId ==
    ASSUME IdsUnique, NEW T \in Types, HasId(T)
    PROVE  Slot(T) = ids[T] /\ ids[T] \in Slots
BY SizeAssumption DEF IdsUnique, Slot, Slots

LEMMA InitInv == Init => IInv
<1> SUFFICES ASSUME Init PROVE IInv
  OBVIOUS
<1>1. \A T \in Types : \/ T \in Reserved /\ ids[T] = ReservedIds[T]
                       \/ T \notin Reserved /\ ids[T] = NoId
  BY DEF Init
<1>2. \A T \in Reserved : ReservedIds[T] \in Nat /\ ReservedIds[T] < FirstId
  BY ReservedAssumption
<1>3. TypeOK
  BY <1>2, ReservedAssumption DEF Init, TypeOK
<1>4. \A T \in Types : HasId(T) => T \in Reserved /\ ids[T] = ReservedIds[T]
  BY <1>1 DEF HasId
<1>5. IdsUnique
  <2>1. nextId \in Nat /\ FirstId <= nextId /\ nextId <= TableSize
    BY SizeAssumption, ReservedAssumption DEF Init
  <2>2. \A T \in Types : HasId(T) => ids[T] \in Nat /\ ids[T] < nextId
    BY <1>2, <1>4 DEF Init
  <2>3. \A S, T \in Types : HasId(S) /\ ids[S] = ids[T] => S = T
    BY <1>4, ReservedAssumption DEF HasId
  <2>4. QED BY <2>1, <2>2, <2>3 DEF IdsUnique
<1>6. SlotsPrivate
  <2>1. \A l \in Libs : \A i \in Slots : table[l][i] = Null
    BY DEF Init
  <2>2. \A T \in Types : HasId(T) => ids[T] \in Slots
    BY <1>5, SlotIsId
  <2>3. QED BY <2>1, <2>2 DEF SlotsPrivate
<1>7. UsesHaveIds /\ Overridden /\ HeadersInTable /\ HomeOwn
  BY DEF Init, UsesHaveIds, Overridden, HeadersInTable, HomeOwn
<1>8. QED BY <1>3, <1>5, <1>6, <1>7 DEF IInv

LEMMA StutterInv == ASSUME IInv, UNCHANGED vars PROVE IInv'
BY DEF vars, scope, IInv, TypeOK, IdsUnique, UsesHaveIds, SlotsPrivate, Overridden,
       HeadersInTable, HomeOwn, HasId

LEMMA EmitInv ==
    ASSUME WithinTable, IInv, NEW l \in Libs, NEW T \in Types, EmitTypeTag(l, T)
    PROVE  IInv'
<1>1. /\ UNCHANGED <<mode, table, home, first, headers>> /\ mode[l] = "emitting"
      /\ uses' = [uses EXCEPT ![l] = @ \cup {T}]
  BY DEF EmitTypeTag, scope
<1>0. HomeOwn'
  BY <1>1 DEF IInv, HomeOwn
<1>2. CASE ids[T] # NoId
  <2>1. UNCHANGED <<ids, nextId>>
    BY <1>2 DEF EmitTypeTag
  <2>2. TypeOK'
    BY <1>1, <2>1 DEF IInv, TypeOK
  <2>3. (IdsUnique /\ SlotsPrivate)'
    BY <1>1, <2>1 DEF IInv, IdsUnique, SlotsPrivate, HasId
  <2>4. (UsesHaveIds /\ Overridden /\ HeadersInTable)'
    BY <1>1, <1>2, <2>1
    DEF IInv, TypeOK, UsesHaveIds, Overridden, HeadersInTable, HasId
  <2>5. QED BY <1>0, <2>2, <2>3, <2>4 DEF IInv
<1>3. CASE ids[T] = NoId
  <2>1. nextId <= MaxId /\ ids' = [ids EXCEPT ![T] = nextId] /\ nextId' = nextId + 1
    BY <1>3 DEF EmitTypeTag
  <2>2. nextId \in Slots /\ nextId \in Nat /\ nextId + 1 <= TableSize
    BY <2>1, SizeAssumption DEF WithinTable, Slots, IInv, TypeOK
  <2>3. /\ ids'[T] = nextId
        /\ \A S \in Types : S # T => ids'[S] = ids[S]
        /\ \A S \in Types : HasId(S) => S # T /\ ids'[S] = ids[S]
    BY <1>3, <2>1 DEF IInv, TypeOK, HasId
  <2>4. TypeOK'
    BY <1>1, <2>1 DEF IInv, TypeOK
  <2>5. IdsUnique'
    <3>1. nextId' \in Nat /\ FirstId <= nextId' /\ nextId' <= TableSize
      BY <2>1, <2>2, ReservedAssumption DEF IInv, IdsUnique
    <3>2. ASSUME NEW S \in Types, HasId(S)'
          PROVE  ids'[S] \in Nat /\ ids'[S] < nextId'
      BY <2>1, <2>2, <2>3, <3>2 DEF IInv, IdsUnique, HasId
    <3>3. ASSUME NEW R \in Types, NEW S \in Types, HasId(R)', ids'[R] = ids'[S]
          PROVE  R = S
      <4>1. CASE R = T /\ S # T
        BY <4>1, <3>3, <2>2, <2>3, NoneAssumption DEF IInv, IdsUnique, HasId
      <4>2. CASE R # T /\ S = T
        BY <4>2, <3>3, <2>2, <2>3, NoneAssumption DEF IInv, IdsUnique, HasId
      <4>3. CASE R # T /\ S # T
        BY <4>3, <3>3, <2>3 DEF IInv, IdsUnique, HasId
      <4>4. QED BY <4>1, <4>2, <4>3
    <3>4. QED BY <3>1, <3>2, <3>3 DEF IdsUnique
  <2>6. UsesHaveIds'
    BY <1>1, <2>2, <2>3, NoneAssumption DEF IInv, TypeOK, UsesHaveIds, HasId
  <2>7. SlotsPrivate'
    <3>1. ASSUME NEW m \in Libs, NEW S \in Types, HasId(S)'
          PROVE  table[m][ids'[S]] \in {Null, S, SlotAddress(m, ids'[S])}
      <4>1. CASE S = T
        BY <4>1, <2>2, <2>3 DEF IInv, SlotsPrivate
      <4>2. CASE S # T
        BY <4>2, <3>1, <2>3 DEF IInv, SlotsPrivate, HasId
      <4>3. QED BY <4>1, <4>2
    <3>2. ASSUME NEW m \in Libs, NEW i \in Slots, nextId' <= i
          PROVE  table[m][i] = Null
      <4>1. nextId <= i
        BY <3>2, <2>1, <2>2 DEF Slots
      <4>2. QED BY <4>1 DEF IInv, SlotsPrivate
    <3>3. QED BY <3>1, <3>2, <1>1 DEF SlotsPrivate
  <2>8. Overridden'
    BY <1>1, <2>3 DEF IInv, TypeOK, Overridden, UsesHaveIds
  <2>9. HeadersInTable'
    BY <1>1, <2>3 DEF IInv, TypeOK, HeadersInTable, UsesHaveIds
  <2>10. QED BY <1>0, <2>4, <2>5, <2>6, <2>7, <2>8, <2>9 DEF IInv
<1>4. QED BY <1>2, <1>3

LEMMA ModeInv ==
    ASSUME IInv, NEW l \in Libs, Build(l) \/ LoadStandalone(l)
    PROVE  IInv'
<1>1. /\ UNCHANGED <<ids, nextId, uses, table, home, first, headers>>
      /\ mode[l] \notin Loaded
      /\ \E m \in {"built", "standalone"} : mode' = [mode EXCEPT ![l] = m]
  BY DEF Build, LoadStandalone, Loaded, scope
<1>2. TypeOK'
  BY <1>1 DEF IInv, TypeOK, Loaded
<1>3. (IdsUnique /\ UsesHaveIds /\ SlotsPrivate)'
  BY <1>1 DEF IInv, IdsUnique, UsesHaveIds, SlotsPrivate, HasId
<1>4. Overridden'
  BY <1>1 DEF IInv, TypeOK, Overridden
<1>5. (HeadersInTable /\ HomeOwn)'
  BY <1>1 DEF IInv, TypeOK, HeadersInTable, HomeOwn
<1>6. QED BY <1>2, <1>3, <1>4, <1>5 DEF IInv

\* Registration writes a type into its own slot and into no other.
LEMMA LoadInv ==
    ASSUME ~FlatNamespace, IInv, NEW l \in Libs, LoadInJulia(l)
    PROVE  IInv'
<1>1. /\ UNCHANGED <<ids, nextId, uses, headers>>
      /\ mode' = [mode EXCEPT ![l] = "julia"]
      /\ mode[l] \in {"built", "julia"}
  BY DEF LoadInJulia
<1>0. home' = home /\ first' \in Libs \cup {Null}
  BY DEF LoadInJulia, Bind, scope, IInv, TypeOK
<1>2. PICK last \in [{Slot(T) : T \in Registered} -> Registered] :
         /\ \A i \in DOMAIN last : Slot(last[i]) = i
         /\ table' = [table EXCEPT ![l] =
                         [i \in Slots |-> IF i \in DOMAIN last THEN last[i] ELSE @[i]]]
  BY DEF LoadInJulia
<1>3. \A T \in Registered : T \in Types /\ T \notin Unregistrable /\ HasId(T)
  BY DEF Registered, HasId
<1>4. /\ \A m \in Libs : m # l => table'[m] = table[m]
      /\ \A i \in Slots : i \in DOMAIN last => table'[l][i] = last[i]
      /\ \A i \in Slots : i \notin DOMAIN last => table'[l][i] = table[l][i]
  BY <1>2 DEF IInv, TypeOK
<1>5. ASSUME NEW T \in Types, HasId(T)
      PROVE  /\ ids[T] \in Slots
             /\ T \in Registered => table'[l][ids[T]] = T
             /\ T \notin Registered => table'[l][ids[T]] = table[l][ids[T]]
  <2>1. Slot(T) = ids[T] /\ ids[T] \in Slots
    BY <1>5, SlotIsId DEF IInv
  <2>2. ids[T] \in DOMAIN last => last[ids[T]] = T /\ T \in Registered
    <3> SUFFICES ASSUME ids[T] \in DOMAIN last
                 PROVE  last[ids[T]] = T /\ T \in Registered
      OBVIOUS
    <3>1. last[ids[T]] \in Registered /\ Slot(last[ids[T]]) = ids[T]
      BY <1>2
    <3>2. ids[last[ids[T]]] = ids[T] /\ HasId(last[ids[T]])
      BY <3>1, <1>3, SlotIsId DEF IInv
    <3>3. QED BY <3>1, <3>2, <1>3 DEF IInv, IdsUnique
  <2>3. T \in Registered => ids[T] \in DOMAIN last
    BY <1>2, <2>1
  <2>4. QED BY <1>4, <2>1, <2>2, <2>3
<1>6. TypeOK'
  <2>1. ASSUME NEW i \in Slots
        PROVE  table'[l][i] \in Tags \cup {Null}
    <3>1. CASE i \in DOMAIN last
      BY <3>1, <1>2, <1>3, <1>4 DEF Tags
    <3>2. CASE i \notin DOMAIN last
      BY <3>2, <1>4 DEF IInv, TypeOK
    <3>3. QED BY <3>1, <3>2
  <2>2. table' \in [Libs -> [Slots -> Tags \cup {Null}]]
    BY <1>2, <1>4, <2>1 DEF IInv, TypeOK
  <2>3. QED BY <1>1, <1>0, <2>2 DEF IInv, TypeOK, Loaded
<1>7. (IdsUnique /\ UsesHaveIds /\ HomeOwn)'
  BY <1>1, <1>0 DEF IInv, IdsUnique, UsesHaveIds, HomeOwn, HasId
<1>8. SlotsPrivate'
  <2>1. ASSUME NEW m \in Libs, NEW T \in Types, HasId(T)
        PROVE  table'[m][ids[T]] \in {Null, T, SlotAddress(m, ids[T])}
    <3>1. table[m][ids[T]] \in {Null, T, SlotAddress(m, ids[T])}
      BY <2>1 DEF IInv, SlotsPrivate
    <3>2. QED BY <3>1, <2>1, <1>4, <1>5
  <2>2. ASSUME NEW m \in Libs, NEW i \in Slots, nextId <= i
        PROVE  table'[m][i] = Null
    <3>1. table[m][i] = Null
      BY <2>2 DEF IInv, SlotsPrivate
    <3>2. i \notin DOMAIN last
      <4> SUFFICES ASSUME i \in DOMAIN last PROVE FALSE
        OBVIOUS
      <4>1. last[i] \in Registered /\ Slot(last[i]) = i
        BY <1>2
      <4>2. ids[last[i]] = i /\ ids[last[i]] < nextId
        BY <4>1, <1>3, SlotIsId DEF IInv, IdsUnique
      <4>3. QED BY <4>2, <2>2 DEF Slots, IInv, TypeOK
    <3>3. QED BY <3>1, <3>2, <1>4
  <2>3. QED BY <1>1, <2>1, <2>2 DEF SlotsPrivate, HasId
<1>9. Overridden'
  <2> SUFFICES ASSUME NEW m \in Libs, mode'[m] = "julia",
                      NEW T \in uses[m] \ Unregistrable
               PROVE  table'[m][ids[T]] = T
    BY <1>1 DEF Overridden
  <2>1. T \in Types /\ HasId(T)
    BY DEF IInv, TypeOK, UsesHaveIds
  <2>2. CASE m = l
    BY <2>1, <2>2, <1>5 DEF Registered, HasId
  <2>3. CASE m # l
    BY <2>3, <1>1, <1>4 DEF IInv, TypeOK, Overridden
  <2>4. QED BY <2>2, <2>3
<1>10. HeadersInTable'
  <2> SUFFICES ASSUME NEW m \in Libs, NEW x \in headers[m]
               PROVE  /\ mode'[m] \in Loaded /\ x.type \in uses[m]
                      /\ table'[m][ids[x.type]] = x.tag
    BY <1>1 DEF HeadersInTable
  <2>1. mode[m] \in Loaded /\ x.type \in uses[m] /\ table[m][ids[x.type]] = x.tag
    BY DEF IInv, HeadersInTable
  <2>2. mode'[m] \in Loaded
    BY <2>1, <1>1 DEF Loaded, IInv, TypeOK
  <2>3. x.type \in Types /\ HasId(x.type)
    BY <2>1 DEF IInv, TypeOK, UsesHaveIds
  <2>4. table'[m][ids[x.type]] = table[m][ids[x.type]]
    <3>1. CASE m # l
      BY <3>1, <1>4
    <3>2. CASE m = l /\ x.type \notin Registered
      BY <3>2, <2>3, <1>5
    <3>3. CASE m = l /\ x.type \in Registered
      <4>1. mode[l] = "julia"
        BY <3>3, <2>1, <1>1 DEF Loaded
      <4>2. table[l][ids[x.type]] = x.type
        BY <4>1, <3>3, <2>1, <1>3 DEF IInv, Overridden
      <4>3. QED BY <4>2, <3>3, <2>3, <1>5
    <3>4. QED BY <3>1, <3>2, <3>3
  <2>5. QED BY <2>1, <2>2, <2>4
<1>11. QED BY <1>6, <1>7, <1>8, <1>9, <1>10 DEF IInv

\* Asking for a tag fills at most the slot of the type, and never changes a
\* slot that has been filled.
LEMMA AskInv ==
    ASSUME IInv, NEW l \in Libs, NEW T \in Types, AskTag(l, T)
    PROVE  IInv'
<1> DEFINE tag == TypeTag(l, T)
<1>0. home[l] = l
  BY DEF IInv, HomeOwn
<1>1. /\ UNCHANGED <<ids, nextId, mode, uses, home, first>>
      /\ mode[l] \in Loaded /\ T \in uses[l] /\ HasId(T)
      /\ headers' = [headers EXCEPT ![l] = @ \cup {[type |-> T, tag |-> tag]}]
      /\ table' = [table EXCEPT ![l][Slot(T)] = tag]
  BY <1>0 DEF AskTag, scope, IInv, UsesHaveIds
<1>2. Slot(T) = ids[T] /\ ids[T] \in Slots
  BY <1>1, SlotIsId DEF IInv
<1>3. /\ tag \in {T, SlotAddress(l, ids[T])}
      /\ table[l][ids[T]] # Null => tag = table[l][ids[T]]
  BY <1>1, <1>2 DEF TypeTag, IInv, SlotsPrivate
<1>4. /\ table'[l][ids[T]] = tag
      /\ \A m \in Libs, i \in Slots : m # l \/ i # ids[T] => table'[m][i] = table[m][i]
  BY <1>1, <1>2 DEF IInv, TypeOK
<1>5. tag \in Tags
  BY <1>2, <1>3 DEF Tags, SlotAddress
<1>6. TypeOK'
  <2>1. table' \in [Libs -> [Slots -> Tags \cup {Null}]]
    BY <1>1, <1>2, <1>5 DEF IInv, TypeOK
  <2>2. [type |-> T, tag |-> tag] \in [type : Types, tag : Tags]
    BY <1>5
  <2>3. headers' \in [Libs -> SUBSET [type : Types, tag : Tags]]
    BY <1>1, <2>2 DEF IInv, TypeOK
  <2>4. QED BY <1>1, <2>1, <2>3 DEF IInv, TypeOK
<1>7. (IdsUnique /\ UsesHaveIds /\ HomeOwn)'
  BY <1>1 DEF IInv, IdsUnique, UsesHaveIds, HomeOwn, HasId
<1>8. ASSUME NEW m \in Libs, NEW S \in Types, HasId(S)
      PROVE  /\ ids[S] \in Slots
             /\ S # T \/ m # l => table'[m][ids[S]] = table[m][ids[S]]
  <2>1. ids[S] \in Slots
    BY <1>8, SlotIsId DEF IInv
  <2>2. S # T => ids[S] # ids[T]
    BY <1>8, <1>1 DEF IInv, IdsUnique
  <2>3. QED BY <2>1, <2>2, <1>4
<1>9. SlotsPrivate'
  <2>1. ASSUME NEW m \in Libs, NEW S \in Types, HasId(S)
        PROVE  table'[m][ids[S]] \in {Null, S, SlotAddress(m, ids[S])}
    <3>1. CASE S = T /\ m = l
      BY <3>1, <1>3, <1>4
    <3>2. CASE S # T \/ m # l
      BY <3>2, <2>1, <1>8 DEF IInv, SlotsPrivate
    <3>3. QED BY <3>1, <3>2
  <2>2. ASSUME NEW m \in Libs, NEW i \in Slots, nextId <= i
        PROVE  table'[m][i] = Null
    <3>1. ids[T] # i
      BY <1>1, <2>2 DEF IInv, IdsUnique, TypeOK, Slots
    <3>2. QED BY <3>1, <2>2, <1>4 DEF IInv, SlotsPrivate
  <2>3. QED BY <1>1, <2>1, <2>2 DEF SlotsPrivate, HasId
<1>10. Overridden'
  <2> SUFFICES ASSUME NEW m \in Libs, mode[m] = "julia",
                      NEW S \in uses[m] \ Unregistrable
               PROVE  table'[m][ids[S]] = S
    BY <1>1 DEF Overridden
  <2>1. S \in Types /\ HasId(S) /\ table[m][ids[S]] = S
    BY DEF IInv, TypeOK, UsesHaveIds, Overridden
  <2>2. CASE S = T /\ m = l
    BY <2>1, <2>2, <1>3, <1>4, NoneAssumption
  <2>3. CASE S # T \/ m # l
    BY <2>1, <2>3, <1>8
  <2>4. QED BY <2>2, <2>3
<1>11. HeadersInTable'
  <2> SUFFICES ASSUME NEW m \in Libs, NEW x \in headers'[m]
               PROVE  /\ mode[m] \in Loaded /\ x.type \in uses[m]
                      /\ table'[m][ids[x.type]] = x.tag
    BY <1>1 DEF HeadersInTable
  <2>1. CASE x \in headers[m]
    <3>1. mode[m] \in Loaded /\ x.type \in uses[m] /\ table[m][ids[x.type]] = x.tag
      BY <2>1 DEF IInv, HeadersInTable
    <3>2. x.type \in Types /\ x.tag \in Tags /\ HasId(x.type)
      BY <2>1, <3>1 DEF IInv, TypeOK, UsesHaveIds
    <3>3. x.tag # Null
      BY <3>2, NoneAssumption DEF Tags, Slots
    <3>4. CASE x.type = T /\ m = l
      BY <3>1, <3>3, <3>4, <1>3, <1>4
    <3>5. CASE x.type # T \/ m # l
      BY <3>1, <3>2, <3>5, <1>8
    <3>6. QED BY <3>1, <3>4, <3>5
  <2>2. CASE x \notin headers[m]
    <3>1. m = l /\ x = [type |-> T, tag |-> tag]
      BY <2>2, <1>1 DEF IInv, TypeOK
    <3>2. QED BY <3>1, <1>1, <1>4
  <2>3. QED BY <2>1, <2>2
<1>12. QED BY <1>6, <1>7, <1>9, <1>10, <1>11 DEF IInv

LEMMA NextInv == ASSUME WithinTable, ~FlatNamespace, IInv, [Next]_vars PROVE IInv'
BY EmitInv, ModeInv, LoadInv, AskInv, StutterInv DEF Next

\* Ids, table slots and headers agree, whatever is compiled and loaded when.
THEOREM Invariance == ASSUME WithinTable, ~FlatNamespace PROVE Spec => []IInv
<1>1. Init => IInv BY InitInv
<1>2. IInv /\ [Next]_vars => IInv' BY NextInv
<1>3. QED BY <1>1, <1>2, PTL DEF Spec

-----------------------------------------------------------------------------
LEMMA IdentifyByInv == IInv => TagsIdentifyTypes
<1> SUFFICES ASSUME IInv, NEW l \in Libs, NEW x \in headers[l], NEW y \in headers[l]
             PROVE  x.type = y.type <=> x.tag = y.tag
  BY DEF TagsIdentifyTypes
<1>1. ASSUME NEW z \in headers[l]
      PROVE  /\ z.type \in Types /\ HasId(z.type) /\ ids[z.type] \in Slots
             /\ table[l][ids[z.type]] = z.tag
             /\ z.tag = z.type \/ z.tag = SlotAddress(l, ids[z.type])
  <2>1. z.type \in Types /\ z.tag \in Tags
    BY DEF IInv, TypeOK
  <2>2. HasId(z.type) /\ table[l][ids[z.type]] = z.tag
    BY DEF IInv, HeadersInTable, UsesHaveIds
  <2>3. z.tag # Null
    BY <2>1, NoneAssumption DEF Tags, Slots
  <2>4. ids[z.type] \in Slots
    BY <2>1, <2>2, SlotIsId DEF IInv
  <2>5. z.tag = z.type \/ z.tag = SlotAddress(l, ids[z.type])
    BY <2>1, <2>2, <2>3 DEF IInv, SlotsPrivate
  <2>6. QED BY <2>1, <2>2, <2>4, <2>5
<1>2. x.type = y.type => x.tag = y.tag
  BY <1>1
<1>3. ASSUME x.tag = y.tag PROVE x.type = y.type
  <2>1. CASE x.tag = x.type
    <3>1. y.tag # SlotAddress(l, ids[y.type])
      BY <2>1, <1>3, <1>1, NoneAssumption DEF SlotAddress, Slots
    <3>2. QED BY <2>1, <3>1, <1>1, <1>3
  <2>2. CASE x.tag = SlotAddress(l, ids[x.type])
    <3>1. y.tag # y.type
      BY <2>2, <1>3, <1>1, NoneAssumption DEF SlotAddress, Slots
    <3>2. SlotAddress(l, ids[x.type]) = SlotAddress(l, ids[y.type])
      BY <2>2, <3>1, <1>1, <1>3
    <3>3. ids[x.type] = ids[y.type]
      BY <3>2 DEF SlotAddress
    <3>4. QED BY <3>3, <1>1 DEF IInv, IdsUnique
  <2>3. QED BY <2>1, <2>2, <1>1
<1>4. QED BY <1>2, <1>3

LEMMA DatatypesByInv == IInv => TagsAreDatatypes
<1> SUFFICES ASSUME IInv, NEW l \in Libs, mode[l] = "julia", NEW x \in headers[l],
                    x.type \notin Unregistrable
             PROVE  x.tag = x.type
  BY DEF TagsAreDatatypes
<1>1. x.type \in uses[l] /\ table[l][ids[x.type]] = x.tag
  BY DEF IInv, HeadersInTable
<1>2. QED BY <1>1 DEF IInv, Overridden

\* isa never confuses two types: as long as the session gives out no more
\* ids than the table has slots, a tag identifies a type within a library.
THEOREM TagsIdentify == ASSUME WithinTable, ~FlatNamespace PROVE Spec => []TagsIdentifyTypes
BY Invariance, IdentifyByInv, PTL

\* What code loaded by Julia puts into a header is the datatype's address.
THEOREM TagsDatatypes == ASSUME WithinTable, ~FlatNamespace PROVE Spec => []TagsAreDatatypes
BY Invariance, DatatypesByInv, PTL

\* The registry has the types TypeOK says.
THEOREM TypeCorrect == ASSUME WithinTable, ~FlatNamespace PROVE Spec => []TypeOK
<1>1. IInv => TypeOK BY DEF IInv
<1>2. QED BY <1>1, Invariance, PTL

-----------------------------------------------------------------------------
(***************************************************************************)
(* Union values: in programs of UnionSpec they keep their representation,  *)
(* for any number of types and objects, and tests and the host read them   *)
(* rightly.                                                                *)
(***************************************************************************)

\* No other singleton than nothing is used as a literal, and no Int64 has the
\* bits of its tag.
UnionsSound == Ghosts = {"Nothing"} /\ Tag["Nothing"] \notin Ints

\* An object that a register or a field means is there.
Refers(v) == v.type \in Structs => heap[v.id].type = v.type
Referred == Refers(val) /\ \A a \in Live : Refers(heap[a].val)

UnionsInv == UnionTypeOK /\ Represents /\ Referred

LEMMA TypesDiffer ==
    /\ "Nothing" \in UnionTypes /\ "Int64" \in UnionTypes /\ "Nothing" \in Ghosts
    /\ "Nothing" \notin Structs /\ "Int64" \notin Structs /\ "Free" \notin Structs
BY TagsAssumption DEF UnionTypes

LEMMA ValueCases ==
    ASSUME NEW v \in Values
    PROVE  /\ v = [type |-> v.type, id |-> v.id] /\ v.type \in UnionTypes
           /\ v.type \in Ghosts => v.id = 0
           /\ v.type = "Int64" => v.id \in Ints
           /\ v.type \in Structs => v.id \in Addresses
BY TagsAssumption DEF Values, UnionTypes

LEMMA AddressesMean ==
    ASSUME NEW a \in Addresses, NEW S \in Structs
    PROVE  Means(a, [type |-> S, id |-> a])
BY TagsAssumption, TypesDiffer DEF Means, UnionTypes

-----------------------------------------------------------------------------

LEMMA UnionsInitType == UnionInit => UnionTypeOK
BY TypesDiffer
   DEF UnionInit, UnionTypeOK, Words, Values, FieldValues, FieldTypes, Nothing, UnionTypes

LEMMA UnionsStepType == UnionTypeOK /\ [UnionNext]_unionVars => UnionTypeOK'
<1> SUFFICES ASSUME UnionTypeOK, [UnionNext]_unionVars PROVE UnionTypeOK'
  OBVIOUS
<1> USE DEF UnionTypeOK
<1>a. \A a \in Addresses : /\ heap[a].type \in Structs \cup {"Free"}
                           /\ heap[a].word \in Words /\ heap[a].val \in FieldValues
  OBVIOUS
<1>1. ASSUME NEW T \in Ghosts, Literal(T) PROVE UnionTypeOK'
  <2>1. reg' \in Words /\ val' \in Values /\ type' \in SUBSET UnionTypes /\ val'.type \in type'
    BY <1>1, TypesDiffer DEF Literal, LiteralWord, Produce, Words, Values, UnionTypes
  <2>2. QED BY <1>1, <2>1 DEF Literal, Produce
<1>2. ASSUME NEW n \in Ints, Constant(n) PROVE UnionTypeOK'
  <2>1. reg' \in Words /\ val' \in Values /\ type' \in SUBSET UnionTypes /\ val'.type \in type'
    BY <1>2, TypesDiffer DEF Constant, Produce, Words, Values, UnionTypes
  <2>2. QED BY <1>2, <2>1 DEF Constant, Produce
<1>3. ASSUME NEW a \in Addresses, NEW S \in Structs, NEW w \in Words, NEW v \in FieldValues,
             heap' = [heap EXCEPT ![a] = [type |-> S, word |-> w, val |-> v]],
             Produce(a, [type |-> S, id |-> a], {S})
      PROVE  UnionTypeOK'
  <2>1. reg' \in Words /\ val' \in Values /\ type' \in SUBSET UnionTypes /\ val'.type \in type'
    BY <1>3 DEF Produce, Words, Values, UnionTypes
  <2>2. heap' \in [Addresses ->
                     [type : Structs \cup {"Free"}, word : Words, val : FieldValues]]
    BY <1>3
  <2>3. QED BY <1>3, <2>1, <2>2 DEF Produce
<1>4. ASSUME NEW a \in Addresses, NEW S \in Structs, New(a, S) PROVE UnionTypeOK'
  BY <1>3, <1>4 DEF New, FieldValues
<1>5. ASSUME NEW a \in Addresses, NEW S \in Structs, NEW b \in Live,
             HostObject(a, S, b, Object(b))
      PROVE  UnionTypeOK'
  <2>1. b \in Words /\ Object(b) \in FieldValues
    BY DEF Live, Words, Object, FieldValues, FieldTypes, Values
  <2>2. QED BY <1>3, <1>5, <2>1 DEF HostObject
<1>6. ASSUME NEW a \in Addresses, SetField(a) PROVE UnionTypeOK'
  <2>1. val \in FieldValues
    BY <1>6 DEF SetField, FieldValues
  <2>2. QED BY <1>6, <2>1 DEF SetField
<1>7. ASSUME NEW a \in Addresses, GetField(a) PROVE UnionTypeOK'
  <2>1. FieldTypes \subseteq UnionTypes
    BY TypesDiffer DEF FieldTypes, UnionTypes
  <2>2. QED BY <1>7, <1>a, <2>1 DEF GetField, Produce, FieldValues
<1>8. ASSUME NEW got \in BOOLEAN, NEW want \in BOOLEAN, Answer(got, want) PROVE UnionTypeOK'
  BY <1>8 DEF Answer
<1>9. ASSUME NEW a \in Addresses, HasChildren(a) PROVE UnionTypeOK'
  BY <1>8, <1>9 DEF HasChildren
<1>10. ASSUME NEW T \in UnionTypes, IsaStatic(T) \/ IsaOther(T) PROVE UnionTypeOK'
  <2>1. /\ (T \in type) \in BOOLEAN /\ (val.type = T) \in BOOLEAN
        /\ (reg # Tag["Nothing"]) \in BOOLEAN
    OBVIOUS
  <2>2. CASE IsaStatic(T)
    BY <2>1, <2>2, <1>8, Zenon DEF IsaStatic
  <2>3. CASE IsaOther(T)
    BY <2>1, <2>3, <1>8, Zenon DEF IsaOther
  <2>4. QED BY <2>2, <2>3, <1>10
<1>11. ASSUME IsNothing PROVE UnionTypeOK'
  BY <1>8, <1>11 DEF IsNothing
<1>12. ASSUME NEW arms \in SUBSET UnionTypes, PassOn(arms) PROVE UnionTypeOK'
  BY <1>12 DEF PassOn, Taken
<1>13. ASSUME Return PROVE UnionTypeOK'
  BY <1>13 DEF Return
<1>14. CASE UNCHANGED unionVars
  BY <1>14 DEF unionVars
<1> HIDE DEF UnionTypeOK
<1>15. QED
  BY <1>1, <1>2, <1>4, <1>5, <1>6, <1>7, <1>9, <1>10, <1>11, <1>12, <1>13, <1>14 DEF UnionNext

\* Words, values, types and answers are of the kinds TypeOK says.
THEOREM UnionsTypeCorrect == UnionSpec => []UnionTypeOK
BY UnionsInitType, UnionsStepType, PTL DEF UnionSpec

-----------------------------------------------------------------------------
LEMMA UnionsInit == UnionInit => Represents /\ Referred
BY TypesDiffer DEF UnionInit, Represents, Referred, Refers, Means, Live, Nothing

\* A step that leaves objects alone and puts into the register what is right
\* and refers to them.
LEMMA ProduceInv ==
    ASSUME UnionsInv, heap' = heap, Means(reg', val'), Refers(val')
    PROVE  Represents' /\ Referred'
BY DEF UnionsInv, Represents, Referred, Refers, Live, Means

LEMMA ObjectInv ==
    ASSUME UnionsInv, NEW a \in Addresses, NEW S \in Structs, NEW w, NEW v,
           heap[a].type = "Free", Means(w, v), v \in Values, Refers(v),
           heap' = [heap EXCEPT ![a] = [type |-> S, word |-> w, val |-> v]],
           Produce(a, [type |-> S, id |-> a], {S})
    PROVE  Represents' /\ Referred'
<1>1. Live' = Live \cup {a} /\ a \notin Live
  BY TypesDiffer DEF Live, UnionsInv, UnionTypeOK
<1>2. \A b \in Addresses \ {a} : heap'[b] = heap[b]
  BY DEF UnionsInv, UnionTypeOK
<1>3. heap'[a].type = S /\ heap'[a].word = w /\ heap'[a].val = v
  BY DEF UnionsInv, UnionTypeOK
<1>4. Means(reg', val')
  BY AddressesMean DEF Produce
<1>5. \A u \in Values : Refers(u) => Refers(u)'
  BY <1>2, ValueCases, TypesDiffer DEF Refers
<1>6. \A b \in Live : heap[b].val \in Values
  BY DEF UnionsInv, UnionTypeOK, Live, FieldValues
<1>7. Represents'
  BY <1>1, <1>2, <1>3, <1>4 DEF UnionsInv, Represents, Means, Live
<1>8. Refers(val)'
  BY <1>3 DEF Produce, Refers
<1>9. Referred'
  <2> SUFFICES ASSUME NEW b \in Live' PROVE Refers(heap[b].val)'
    BY <1>8 DEF Referred
  <2>1. CASE b = a
    BY <2>1, <1>3, <1>5 DEF Refers
  <2>2. CASE b # a
    <3>1. b \in Live /\ heap'[b].val = heap[b].val
      BY <2>2, <1>1, <1>2 DEF Live
    <3>2. QED BY <3>1, <1>5, <1>6 DEF UnionsInv, Referred, Refers
  <2>3. QED BY <2>1, <2>2
<1>10. QED BY <1>7, <1>9

LEMMA UnionsStep == ASSUME UnionsSound PROVE UnionsInv /\ [UnionNext]_unionVars => UnionsInv'
<1> SUFFICES ASSUME UnionsInv, [UnionNext]_unionVars PROVE Represents' /\ Referred'
  BY UnionsStepType DEF UnionsInv
<1>a. UnionTypeOK /\ Represents /\ Referred
  BY DEF UnionsInv
<1>1. ASSUME NEW T \in Ghosts, Literal(T) PROVE Represents' /\ Referred'
  <2>1. Means(reg', val') /\ Refers(val')
    BY <1>1, TypesDiffer DEF UnionsSound, Literal, LiteralWord, Produce, Means, Refers
  <2>2. QED BY <1>1, <2>1, ProduceInv DEF Literal
<1>2. ASSUME NEW n \in Ints, Constant(n) PROVE Represents' /\ Referred'
  <2>1. Means(reg', val') /\ Refers(val')
    BY <1>2, TypesDiffer DEF UnionsSound, Constant, Produce, Means, Refers
  <2>2. QED BY <1>2, <2>1, ProduceInv DEF Constant
<1>3. ASSUME NEW a \in Addresses, NEW S \in Structs, New(a, S) PROVE Represents' /\ Referred'
  BY <1>3, <1>a, ObjectInv DEF New, UnionTypeOK, Represents, Referred
<1>4. ASSUME NEW a \in Addresses, NEW S \in Structs, NEW b \in Live,
             HostObject(a, S, b, Object(b))
      PROVE  Represents' /\ Referred'
  <2>1. b \in Addresses /\ heap[b].type \in Structs
    BY <1>a DEF Live, UnionTypeOK
  <2>2. Means(b, Object(b)) /\ Object(b) \in Values /\ Refers(Object(b))
    BY <2>1, AddressesMean DEF Object, Values, Refers
  <2>3. QED BY <1>4, <2>2, ObjectInv DEF HostObject
<1>5. ASSUME NEW a \in Addresses, SetField(a) PROVE Represents' /\ Referred'
  <2>1. /\ \A b \in Addresses : heap'[b].type = heap[b].type
        /\ \A b \in Addresses \ {a} : heap'[b] = heap[b]
        /\ heap'[a].word = reg /\ heap'[a].val = val
    BY <1>5, <1>a DEF SetField, UnionTypeOK
  <2>2. Live' = Live
    BY <2>1 DEF Live
  <2>3. Represents'
    BY <1>5, <1>a, <2>1, <2>2, ZenonT(60) DEF SetField, Represents, Means, Live
  <2>4. \A u \in Values : Refers(u) => Refers(u)'
    BY <2>1, ValueCases DEF Refers
  <2>5. \A b \in Live : heap[b].val \in Values
    BY <1>a DEF UnionTypeOK, Live, FieldValues
  <2>6. Refers(val)'
    BY <1>5, <1>a, <2>4 DEF SetField, Referred, UnionTypeOK, Refers
  <2>7. ASSUME NEW b \in Live PROVE Refers(heap[b].val)'
    <3>1. CASE b = a
      BY <3>1, <2>1, <2>6, <1>5 DEF Refers, SetField
    <3>2. CASE b # a
      <4>1. heap'[b].val = heap[b].val
        BY <3>2, <2>1 DEF Live
      <4>2. QED BY <4>1, <2>4, <2>5, <1>a DEF Referred, Refers
    <3>3. QED BY <3>1, <3>2
  <2>8. QED BY <2>2, <2>3, <2>6, <2>7 DEF Referred
<1>6. ASSUME NEW a \in Addresses, GetField(a) PROVE Represents' /\ Referred'
  <2>1. Means(reg', val') /\ Refers(val')
    BY <1>6, <1>a DEF GetField, Produce, Represents, Referred
  <2>2. QED BY <1>6, <2>1, ProduceInv DEF GetField
<1>7. ASSUME UNCHANGED <<heap, reg, val>> PROVE Represents' /\ Referred'
  BY <1>7, <1>a DEF Represents, Referred, Means, Refers, Live
<1>8. QED
  BY <1>1, <1>2, <1>3, <1>4, <1>5, <1>6, <1>7
     DEF UnionNext, HasChildren, PassOn, IsaStatic, IsaOther, IsNothing, Return, Answer, unionVars

LEMMA UnionsInvariance == ASSUME UnionsSound PROVE UnionSpec => []UnionsInv
<1>1. UnionInit => UnionsInv
  BY UnionsInitType, UnionsInit DEF UnionsInv
<1>2. QED BY <1>1, UnionsStep, PTL DEF UnionSpec

\* Nothing, and only nothing, is its tag, in registers and in fields.
THEOREM RepresentsAlways == ASSUME UnionsSound PROVE UnionSpec => []Represents
<1>1. UnionsInv => Represents BY DEF UnionsInv
<1>2. QED BY <1>1, UnionsInvariance, PTL

-----------------------------------------------------------------------------
LEMMA StepTests ==
    ASSUME UnionsSound
    PROVE  UnionsInv /\ TestsFaithful /\ [UnionNext]_unionVars => TestsFaithful'
<1> SUFFICES ASSUME UnionsInv, TestsFaithful, [UnionNext]_unionVars PROVE TestsFaithful'
  OBVIOUS
<1>a. val.type \in type /\ Means(reg, val) /\ \A a \in Live : Means(heap[a].word, heap[a].val)
  BY DEF UnionsInv, UnionTypeOK, Represents
<1>1. ASSUME NEW T \in UnionTypes, IsaStatic(T) PROVE TestsFaithful'
  BY <1>1, <1>a DEF IsaStatic, Static, IsConcrete, Answer, TestsFaithful
<1>2. ASSUME NEW T \in UnionTypes, IsaOther(T) PROVE TestsFaithful'
  <2>1. (reg # Tag["Nothing"]) = (val.type = T)
    BY <1>2, <1>a DEF IsaOther, NothingOr, Means
  <2>2. QED BY <1>2, <2>1 DEF IsaOther, Answer, TestsFaithful
<1>3. ASSUME IsNothing PROVE TestsFaithful'
  BY <1>3, <1>a DEF IsNothing, Means, Answer, TestsFaithful
<1>4. ASSUME NEW a \in Addresses, HasChildren(a) PROVE TestsFaithful'
  BY <1>4, <1>a DEF HasChildren, Means, Answer, TestsFaithful
<1>5. ASSUME UNCHANGED tested PROVE TestsFaithful'
  BY <1>5 DEF TestsFaithful
<1>6. QED
  BY <1>1, <1>2, <1>3, <1>4, <1>5
     DEF UnionNext, Literal, Constant, New, HostObject, SetField, GetField, PassOn, Return,
         Produce, unionVars

\* isa, === nothing, isnothing and haschildren answer as Julia does.
THEOREM TestsAlwaysFaithful == ASSUME UnionsSound PROVE UnionSpec => []TestsFaithful
<1>1. UnionInit => TestsFaithful
  BY DEF UnionInit, TestsFaithful
<1>2. QED BY <1>1, StepTests, UnionsInvariance, PTL DEF UnionSpec

-----------------------------------------------------------------------------
LEMMA HostValueRight ==
    ASSUME UnionsSound, UnionsInv, ReturnsNoUnionOfNothing, Return
    PROVE  HostValue(reg) = val
<1>a. /\ val \in Values /\ val.type \in type /\ type \in SUBSET UnionTypes
      /\ Means(reg, val) /\ Refers(val)
  BY DEF UnionsInv, UnionTypeOK, Represents, Referred
<1>b. val = [type |-> val.type, id |-> val.id]
  BY <1>a, ValueCases
<1>1. CASE type = {"Nothing"}
  <2>1. val.type = "Nothing" /\ val.id = 0
    BY <1>1, <1>a, ValueCases, TypesDiffer
  <2>2. QED BY <1>1, <1>b, <2>1 DEF HostValue, Nothing
<1>2. CASE type = {"Int64"}
  <2>1. val.type = "Int64" /\ reg = val.id
    BY <1>2, <1>a DEF Means
  <2>2. "Int64" # "Nothing"
    OBVIOUS
  <2>3. QED BY <1>2, <1>b, <2>1, <2>2 DEF HostValue
<1>3. CASE type # {"Nothing"} /\ type # {"Int64"}
  <2>1. val.type # "Nothing"
    BY <1>3, <1>a DEF ReturnsNoUnionOfNothing, IsConcrete
  <2>2. val.type \in Structs
    BY <1>3, <1>a, <2>1 DEF Return, FieldTypes
  <2>3. reg = val.id /\ reg \in Addresses /\ heap[reg].type = val.type
    BY <1>a, <2>2, ValueCases DEF Means, Refers
  <2>4. reg # HostNothing /\ reg \in Live
    BY <2>2, <2>3, TagsAssumption, TypesDiffer DEF Live
  <2>5. ObjectAt(reg) = val
    BY <1>b, <2>3, <2>4 DEF ObjectAt, Object
  <2>6. QED BY <1>3, <2>4, <2>5 DEF HostValue
<1>4. QED BY <1>1, <1>2, <1>3

LEMMA StepHost ==
    ASSUME UnionsSound
    PROVE  UnionsInv /\ HostGetsValue /\ [UnionNext]_unionVars => HostGetsValue'
<1> SUFFICES ASSUME UnionsInv, HostGetsValue, [UnionNext]_unionVars PROVE HostGetsValue'
  OBVIOUS
<1>1. ASSUME ReturnsNoUnionOfNothing, Return PROVE HostGetsValue'
  <2>1. HostValue(reg) = val
    BY <1>1, HostValueRight
  <2>2. QED BY <1>1, <2>1 DEF Return, HostGetsValue
<1>2. ASSUME UNCHANGED host PROVE HostGetsValue'
  BY <1>2 DEF HostGetsValue
<1>3. QED
  BY <1>1, <1>2
     DEF UnionNext, Literal, Constant, New, HostObject, SetField, GetField, PassOn, IsaStatic,
         IsaOther, IsNothing, HasChildren, Answer, Produce, unionVars

\* What crosses to the host is the value, as long as `nothing` does not cross
\* as one arm of a Union.
THEOREM HostAlwaysGetsValue == ASSUME UnionsSound PROVE UnionSpec => []HostGetsValue
<1>1. UnionInit => HostGetsValue
  BY DEF UnionInit, HostGetsValue
<1>2. QED BY <1>1, StepHost, UnionsInvariance, PTL DEF UnionSpec
=============================================================================
