------------------------- MODULE ConstRuntimeProofs -------------------------
(***************************************************************************)
(* The tables of constants are right for every number of threads, literals *)
(* and symbols, provided that no two literals share an address.            *)
(***************************************************************************)
EXTENDS ConstRuntime, TLAPS

Constants == Sites \cup Symbols

\* What thread t's tables say of x.
Cached(t, x) == IF x \in Symbols THEN symIntern[t][x] ELSE rodataCache[t][KeyOf(x)]

\* Outside a reset an entry points to the thread's own object of that constant.
EntriesLive ==
    \A t \in Threads, x \in Constants :
        Running(t) /\ Cached(t, x) # NoAddr =>
            heap[Cached(t, x)] = [owner |-> t, what |-> x]

\* A thread in the middle of a reset owns nothing, and every constant a
\* running thread has built is in its tables.
ObjectsCached ==
    \A a \in Addrs, t \in Threads, x \in Things :
        heap[a] = [owner |-> t, what |-> x] =>
            Running(t) /\ (x # Plain => Cached(t, x) = a)

\* Everything in the program's hands came out of the tables.
HeldCached ==
    \A r \in held : Running(r.thread) /\ Cached(r.thread, r.what) = r.addr

SymbolsGone ==
    \A t \in Threads : resetting[t] = "symbols cleared" =>
        \A n \in Symbols : symIntern[t][n] = NoAddr

IInv == TypeOK /\ EntriesLive /\ ObjectsCached /\ HeldCached /\ SymbolsGone

-----------------------------------------------------------------------------
LEMMA CachedType ==
    ASSUME TypeOK, NEW t \in Threads, NEW x \in Constants
    PROVE  Cached(t, x) \in Addrs \cup {NoAddr}
<1>1. CASE x \in Symbols
  BY <1>1, ZenonT(60) DEF TypeOK, Cached
<1>2. CASE x \notin Symbols
  <2>1. KeyOf(x) \in Keys
    BY <1>2, KeysAssumption DEF Constants
  <2>2. \A k \in Keys : rodataCache[t][k] \in Addrs \cup {NoAddr}
    BY ZenonT(60) DEF TypeOK
  <2>3. rodataCache[t][KeyOf(x)] \in Addrs \cup {NoAddr}
    BY <2>1, <2>2, Zenon
  <2>4. QED BY <1>2, <2>3, Zenon DEF Cached
<1>3. QED BY <1>1, <1>2

\* The types of what a use that builds leaves behind.
LEMMA BuildType ==
    ASSUME TypeOK, NEW t \in Threads, NEW x \in Things, NEW a \in Addrs,
           Build(t, x, a)
    PROVE  heap' \in [Addrs -> Objects \cup {Free}]
<1>1. [owner |-> t, what |-> x] \in Objects
  BY DEF Objects
<1>2. QED BY <1>1 DEF TypeOK, Build

LEMMA ReturnType ==
    ASSUME TypeOK, NEW t \in Threads, NEW x \in Constants, NEW a \in Addrs,
           Return(t, x, a)
    PROVE  held' \subseteq [thread : Threads, what : Sites \cup Symbols, addr : Addrs]
<1>1. [thread |-> t, what |-> x, addr |-> a]
         \in [thread : Threads, what : Sites \cup Symbols, addr : Addrs]
  BY DEF Constants
<1>2. QED BY <1>1 DEF TypeOK, Return

LEMMA InitInv == Init => IInv
<1> SUFFICES ASSUME Init PROVE IInv
  OBVIOUS
<1>1. TypeOK
  BY DEF Init, TypeOK, NoEntries
<1>2. \A t \in Threads, x \in Constants : Cached(t, x) = NoAddr
  BY KeysAssumption DEF Init, NoEntries, Cached, Constants
<1>3. EntriesLive
  BY <1>2 DEF EntriesLive
<1>4. ObjectsCached
  BY NoneAssumption DEF Init, ObjectsCached, Things
<1>5. HeldCached /\ SymbolsGone
  BY DEF Init, HeldCached, SymbolsGone
<1>6. QED BY <1>1, <1>3, <1>4, <1>5 DEF IInv

LEMMA StutterInv == ASSUME IInv, UNCHANGED vars PROVE IInv'
<1>1. TypeOK'
  BY DEF vars, IInv, TypeOK
<1>2. /\ \A t \in Threads : Running(t)' = Running(t)
      /\ \A t \in Threads, x \in Things : Cached(t, x)' = Cached(t, x)
  BY DEF vars, Running, Cached
<1>3. (EntriesLive /\ ObjectsCached)'
  BY <1>2 DEF vars, IInv, EntriesLive, ObjectsCached, Constants, Things
<1>4. (HeldCached /\ SymbolsGone)'
  BY DEF vars, IInv, HeldCached, SymbolsGone, Running, Cached
<1>5. QED BY <1>1, <1>3, <1>4 DEF IInv

\* A table that already had the answer: only the history grows.
LEMMA HitInv ==
    ASSUME IInv, NEW t \in Threads, NEW x \in Constants, Running(t),
           Cached(t, x) # NoAddr, Return(t, x, Cached(t, x)),
           UNCHANGED <<heap, rodataCache, symIntern, resetting>>
    PROVE  IInv'
<1>1. Cached(t, x) \in Addrs
  BY CachedType DEF IInv
<1>2. TypeOK'
  <2>1. held' \subseteq [thread : Threads, what : Sites \cup Symbols, addr : Addrs]
    BY <1>1, ReturnType DEF IInv
  <2>2. QED BY <2>1 DEF IInv, TypeOK
<1>3. (EntriesLive /\ ObjectsCached /\ SymbolsGone)'
  <2>1. /\ \A u \in Threads : Running(u)' = Running(u)
        /\ \A u \in Threads, y \in Things : Cached(u, y)' = Cached(u, y)
    BY DEF Running, Cached
  <2>2. (EntriesLive /\ ObjectsCached)'
    BY <2>1 DEF IInv, EntriesLive, ObjectsCached, Constants, Things
  <2>3. SymbolsGone'
    BY DEF IInv, SymbolsGone
  <2>4. QED BY <2>2, <2>3
<1>4. HeldCached'
  BY DEF IInv, HeldCached, Return, Cached, Running
<1>5. QED BY <1>2, <1>3, <1>4 DEF IInv

\* A table that had not: the object is new and so is the entry, and no other
\* entry changes.
LEMMA MissInv ==
    ASSUME IInv, NEW t \in Threads, NEW x \in Constants, NEW a \in Addrs,
           Running(t), Build(t, x, a), Return(t, x, a), TypeOK',
           Cached(t, x) = NoAddr, Cached(t, x)' = a,
           \A u \in Threads, y \in Constants :
               u # t \/ y # x => Cached(u, y)' = Cached(u, y),
           SymbolsGone',
           UNCHANGED resetting
    PROVE  IInv'
<1> DEFINE new == [owner |-> t, what |-> x]
<1>1. /\ heap[a] = Free /\ heap'[a] = new /\ new # Free
      /\ \A b \in Addrs : b # a => heap'[b] = heap[b]
  BY NoneAssumption DEF Build, IInv, TypeOK, Constants
<1>2. \A u \in Threads : Running(u)' = Running(u)
  BY DEF Running
<1>3. EntriesLive'
  <2> SUFFICES ASSUME NEW u \in Threads, NEW y \in Constants,
                      Running(u)', Cached(u, y)' # NoAddr
               PROVE  heap'[Cached(u, y)'] = [owner |-> u, what |-> y]
    BY DEF EntriesLive
  <2>1. CASE u = t /\ y = x
    BY <2>1, <1>1
  <2>2. CASE u # t \/ y # x
    <3>1. Cached(u, y)' = Cached(u, y) /\ Cached(u, y) # NoAddr
      BY <2>2
    <3>2. heap[Cached(u, y)] = [owner |-> u, what |-> y]
      BY <3>1, <1>2 DEF IInv, EntriesLive
    <3>3. Cached(u, y) \in Addrs
      BY <3>1, CachedType DEF IInv
    <3>4. heap[Cached(u, y)] # Free
      BY <3>2, NoneAssumption DEF Constants
    <3>5. QED BY <3>1, <3>2, <3>3, <3>4, <1>1
  <2>3. QED BY <2>1, <2>2
<1>4. ObjectsCached'
  <2> SUFFICES ASSUME NEW b \in Addrs, NEW u \in Threads, NEW y \in Things,
                      heap'[b] = [owner |-> u, what |-> y]
               PROVE  Running(u)' /\ (y # Plain => Cached(u, y)' = b)
    BY DEF ObjectsCached
  <2>1. CASE b = a
    BY <2>1, <1>1, <1>2
  <2>2. CASE b # a
    <3>1. heap[b] = [owner |-> u, what |-> y]
      BY <2>2, <1>1
    <3>2. Running(u) /\ (y # Plain => Cached(u, y) = b)
      BY <3>1 DEF IInv, ObjectsCached
    <3>3. ASSUME y # Plain PROVE Cached(u, y)' = b
      <4>1. y \in Constants
        BY <3>3 DEF Things, Constants
      <4>2. u # t \/ y # x
        BY <3>2, <3>3, NoneAssumption
      <4>3. QED BY <3>2, <3>3, <4>1, <4>2
    <3>4. QED BY <3>2, <3>3, <1>2
  <2>3. QED BY <2>1, <2>2
<1>5. HeldCached'
  <2> SUFFICES ASSUME NEW r \in held'
               PROVE  Running(r.thread)' /\ Cached(r.thread, r.what)' = r.addr
    BY DEF HeldCached
  <2>1. CASE r = [thread |-> t, what |-> x, addr |-> a]
    BY <2>1, <1>2
  <2>2. CASE r \in held
    <3>1. r.thread \in Threads /\ r.what \in Constants /\ r.addr \in Addrs
      BY <2>2 DEF IInv, TypeOK, Constants
    <3>2. Running(r.thread) /\ Cached(r.thread, r.what) = r.addr
      BY <2>2 DEF IInv, HeldCached
    <3>3. r.thread # t \/ r.what # x
      BY <3>1, <3>2, NoneAssumption
    <3>4. QED BY <3>1, <3>2, <3>3, <1>2
  <2>3. QED BY <2>1, <2>2 DEF Return
<1>6. QED BY <1>3, <1>4, <1>5 DEF IInv

LEMMA UseLiteralInv ==
    ASSUME DistinctKeys, IInv, NEW t \in Threads, NEW s \in Sites, UseLiteral(t, s)
    PROVE  IInv'
<1>1. s \in Constants /\ s \notin Symbols
  BY NoneAssumption DEF Constants
<1>2. Cached(t, s) = rodataCache[t][KeyOf(s)]
  BY <1>1 DEF Cached
<1>3. CASE rodataCache[t][KeyOf(s)] # NoAddr
  BY <1>1, <1>2, <1>3, HitInv DEF UseLiteral
<1>4. CASE rodataCache[t][KeyOf(s)] = NoAddr
  <2>1. PICK a \in Addrs :
           /\ Build(t, s, a)
           /\ rodataCache' = [rodataCache EXCEPT ![t][KeyOf(s)] = a]
           /\ Return(t, s, a)
    BY <1>4 DEF UseLiteral
  <2>2. UNCHANGED <<symIntern, resetting>> /\ Running(t)
    BY DEF UseLiteral
  <2>3. KeyOf(s) \in Keys
    BY KeysAssumption
  <2>4. TypeOK'
    <3>1. heap' \in [Addrs -> Objects \cup {Free}]
      BY <2>1, BuildType DEF IInv, Things
    <3>2. held' \subseteq [thread : Threads, what : Sites \cup Symbols, addr : Addrs]
      BY <1>1, <2>1, ReturnType DEF IInv
    <3>3. QED BY <2>1, <2>2, <2>3, <3>1, <3>2 DEF IInv, TypeOK
  <2>5. Cached(t, s)' = a
    BY <1>1, <2>1, <2>3 DEF Cached, IInv, TypeOK
  <2>6. ASSUME NEW u \in Threads, NEW y \in Constants, u # t \/ y # s
        PROVE  Cached(u, y)' = Cached(u, y)
    <3>1. CASE y \in Symbols
      BY <3>1, <2>2 DEF Cached
    <3>2. CASE y \notin Symbols
      <4>1. y \in Sites
        BY <3>2 DEF Constants
      <4>2. KeyOf(y) \in Keys /\ (y # s => KeyOf(y) # KeyOf(s))
        BY <4>1, KeysAssumption DEF DistinctKeys
      <4>3. rodataCache'[u][KeyOf(y)] = rodataCache[u][KeyOf(y)]
        BY <4>2, <2>1, <2>6, <2>3 DEF IInv, TypeOK
      <4>4. QED BY <3>2, <4>3 DEF Cached
    <3>3. QED BY <3>1, <3>2
  <2>7. SymbolsGone'
    BY <2>2 DEF IInv, SymbolsGone
  <2>8. Cached(t, s) = NoAddr
    BY <1>2, <1>4
  <2>9. QED BY <1>1, <2>1, <2>2, <2>4, <2>5, <2>6, <2>7, <2>8, MissInv
<1>5. QED BY <1>3, <1>4

LEMMA InternSymbolInv ==
    ASSUME IInv, NEW t \in Threads, NEW n \in Symbols, InternSymbol(t, n)
    PROVE  IInv'
<1>1. n \in Constants /\ Cached(t, n) = symIntern[t][n]
  BY DEF Constants, Cached
<1>2. CASE symIntern[t][n] # NoAddr
  BY <1>1, <1>2, HitInv DEF InternSymbol
<1>3. CASE symIntern[t][n] = NoAddr
  <2>1. PICK a \in Addrs :
           /\ Build(t, n, a)
           /\ symIntern' = [symIntern EXCEPT ![t][n] = a]
           /\ Return(t, n, a)
    BY <1>3 DEF InternSymbol
  <2>2. UNCHANGED <<rodataCache, resetting>> /\ Running(t)
    BY DEF InternSymbol
  <2>3. TypeOK'
    <3>1. heap' \in [Addrs -> Objects \cup {Free}]
      BY <2>1, BuildType DEF IInv, Things
    <3>2. held' \subseteq [thread : Threads, what : Sites \cup Symbols, addr : Addrs]
      BY <1>1, <2>1, ReturnType DEF IInv
    <3>3. QED BY <2>1, <2>2, <3>1, <3>2 DEF IInv, TypeOK
  <2>4. Cached(t, n)' = a
    BY <2>1 DEF Cached, IInv, TypeOK
  <2>5. ASSUME NEW u \in Threads, NEW y \in Constants, u # t \/ y # n
        PROVE  Cached(u, y)' = Cached(u, y)
    BY <2>1, <2>2, <2>5 DEF Cached, IInv, TypeOK
  <2>6. SymbolsGone'
    BY <2>1, <2>2 DEF IInv, SymbolsGone, TypeOK, Running
  <2>7. QED BY <1>1, <1>3, <2>1, <2>2, <2>3, <2>4, <2>5, <2>6, MissInv
<1>4. QED BY <1>2, <1>3

LEMMA AllocateInv ==
    ASSUME IInv, NEW t \in Threads, Allocate(t)
    PROVE  IInv'
<1>1. PICK a \in Addrs : heap[a] = Free
                         /\ heap' = [heap EXCEPT ![a] = [owner |-> t, what |-> Plain]]
  BY DEF Allocate, Build
<1>2. UNCHANGED <<rodataCache, symIntern, resetting, held>> /\ Running(t)
  BY DEF Allocate
<1>3. TypeOK'
  BY <1>1, <1>2 DEF IInv, TypeOK, Objects, Things
<1>4. EntriesLive'
  <2> SUFFICES ASSUME NEW u \in Threads, NEW x \in Constants,
                      Running(u), Cached(u, x) # NoAddr
               PROVE  heap'[Cached(u, x)] = [owner |-> u, what |-> x]
    BY <1>2 DEF EntriesLive, Running, Cached
  <2>1. heap[Cached(u, x)] = [owner |-> u, what |-> x]
    BY DEF IInv, EntriesLive
  <2>2. heap[Cached(u, x)] # Free
    BY <2>1, NoneAssumption DEF Constants
  <2>3. Cached(u, x) \in Addrs
    BY CachedType DEF IInv
  <2>4. QED BY <1>1, <2>1, <2>2, <2>3 DEF IInv, TypeOK
<1>5. ObjectsCached'
  <2> SUFFICES ASSUME NEW b \in Addrs, NEW u \in Threads, NEW y \in Things,
                      heap'[b] = [owner |-> u, what |-> y]
               PROVE  Running(u) /\ (y # Plain => Cached(u, y) = b)
    BY <1>2 DEF ObjectsCached, Running, Cached
  <2>1. CASE b = a
    <3>1. heap'[b] = [owner |-> t, what |-> Plain]
      BY <2>1, <1>1 DEF IInv, TypeOK
    <3>2. u = t /\ y = Plain
      BY <3>1
    <3>3. QED BY <1>2, <3>2
  <2>2. CASE b # a
    BY <2>2, <1>1 DEF IInv, TypeOK, ObjectsCached
  <2>3. QED BY <2>1, <2>2
<1>6. (HeldCached /\ SymbolsGone)'
  BY <1>2 DEF IInv, HeldCached, SymbolsGone, Cached, Running
<1>7. QED BY <1>3, <1>4, <1>5, <1>6 DEF IInv

LEMMA ResetInv ==
    ASSUME IInv, NEW t \in Threads, Reset(t)
    PROVE  IInv'
<1>1. CASE FreeArena(t)
  <2>1. /\ \A a \in Addrs : \/ heap'[a] = Free
                            \/ heap'[a] = heap[a] /\ heap[a].owner # t
        /\ \A a \in Addrs : heap[a] # Free /\ heap[a].owner # t => heap'[a] = heap[a]
    BY <1>1 DEF FreeArena
  <2>2. \A u \in Threads : Running(u)' <=> Running(u) /\ u # t
    BY <1>1 DEF FreeArena, Running, IInv, TypeOK
  <2>3. \A u \in Threads, x \in Constants : Cached(u, x)' = Cached(u, x)
    BY <1>1 DEF FreeArena, Cached
  <2>4. TypeOK'
    BY <1>1 DEF FreeArena, IInv, TypeOK
  <2>5. EntriesLive'
    <3> SUFFICES ASSUME NEW u \in Threads, NEW x \in Constants,
                        Running(u)', Cached(u, x)' # NoAddr
                 PROVE  heap'[Cached(u, x)'] = [owner |-> u, what |-> x]
      BY DEF EntriesLive
    <3>1. u # t /\ heap[Cached(u, x)] = [owner |-> u, what |-> x]
      BY <2>2, <2>3 DEF IInv, EntriesLive
    <3>2. heap[Cached(u, x)] # Free /\ heap[Cached(u, x)].owner # t
      BY <3>1, NoneAssumption DEF Constants
    <3>3. Cached(u, x) \in Addrs
      BY <2>3, CachedType DEF IInv
    <3>4. QED BY <2>1, <2>3, <3>1, <3>2, <3>3
  <2>6. ObjectsCached'
    <3> SUFFICES ASSUME NEW a \in Addrs, NEW u \in Threads, NEW x \in Things,
                        heap'[a] = [owner |-> u, what |-> x]
                 PROVE  Running(u)' /\ (x # Plain => Cached(u, x)' = a)
      BY DEF ObjectsCached
    <3>1. heap[a] = [owner |-> u, what |-> x] /\ u # t
      BY <2>1, NoneAssumption DEF Things
    <3>2. QED BY <2>2, <2>3, <3>1 DEF IInv, ObjectsCached, Constants, Things
  <2>7. HeldCached'
    BY <1>1, <2>2, <2>3 DEF FreeArena, IInv, TypeOK, HeldCached, Constants
  <2>8. SymbolsGone'
    BY <1>1 DEF FreeArena, IInv, TypeOK, SymbolsGone
  <2>9. QED BY <2>4, <2>5, <2>6, <2>7, <2>8 DEF IInv
<1>2. CASE ClearSymbols(t) \/ ClearRodata(t)
  <2>1. \A u \in Threads : u # t => (Running(u)' <=> Running(u))
    BY <1>2 DEF ClearSymbols, ClearRodata, Running, IInv, TypeOK
  <2>2. ~Running(t) /\ UNCHANGED <<heap, held>>
    BY <1>2 DEF ClearSymbols, ClearRodata, Running
  <2>3. \A u \in Threads, x \in Constants : u # t => Cached(u, x)' = Cached(u, x)
    BY <1>2 DEF ClearSymbols, ClearRodata, Cached, IInv, TypeOK
  <2>4. Running(t)' => \A x \in Constants : Cached(t, x)' = NoAddr
    <3>1. CASE ClearSymbols(t)
      BY <3>1 DEF ClearSymbols, Running, IInv, TypeOK
    <3>2. CASE ClearRodata(t)
      BY <3>2, KeysAssumption
      DEF ClearRodata, NoEntries, Cached, Constants, IInv, TypeOK, SymbolsGone
    <3>3. QED BY <1>2, <3>1, <3>2
  <2>5. TypeOK'
    <3>1. CASE ClearSymbols(t)
      BY <3>1 DEF ClearSymbols, NoEntries, IInv, TypeOK
    <3>2. CASE ClearRodata(t)
      BY <3>2 DEF ClearRodata, NoEntries, IInv, TypeOK
    <3>3. QED BY <1>2, <3>1, <3>2
  <2>6. EntriesLive'
    BY <2>1, <2>2, <2>3, <2>4 DEF IInv, EntriesLive
  <2>7. ObjectsCached'
    <3> SUFFICES ASSUME NEW a \in Addrs, NEW u \in Threads, NEW x \in Things,
                        heap[a] = [owner |-> u, what |-> x]
                 PROVE  Running(u)' /\ (x # Plain => Cached(u, x)' = a)
      BY <2>2 DEF ObjectsCached
    <3>1. Running(u) /\ u # t /\ (x # Plain => Cached(u, x) = a)
      BY <2>2 DEF IInv, ObjectsCached
    <3>2. QED BY <2>1, <2>3, <3>1 DEF Constants, Things
  <2>8. HeldCached'
    BY <2>1, <2>2, <2>3 DEF IInv, TypeOK, HeldCached, Constants
  <2>9. SymbolsGone'
    <3>1. CASE ClearSymbols(t)
      BY <3>1 DEF ClearSymbols, NoEntries, IInv, TypeOK, SymbolsGone
    <3>2. CASE ClearRodata(t)
      BY <3>2 DEF ClearRodata, IInv, TypeOK, SymbolsGone
    <3>3. QED BY <1>2, <3>1, <3>2
  <2>10. QED BY <2>5, <2>6, <2>7, <2>8, <2>9 DEF IInv
<1>3. QED BY <1>1, <1>2 DEF Reset

LEMMA NextInv == ASSUME DistinctKeys, IInv, [Next]_vars PROVE IInv'
BY UseLiteralInv, InternSymbolInv, AllocateInv, ResetInv, StutterInv DEF Next

\* The tables of every thread agree with the memory behind them.
THEOREM Invariance == ASSUME DistinctKeys PROVE Spec => []IInv
<1>1. Init => IInv BY InitInv
<1>2. IInv /\ [Next]_vars => IInv' BY NextInv
<1>3. QED BY <1>1, <1>2, PTL DEF Spec

-----------------------------------------------------------------------------
LEMMA IntactByInv == IInv => ConstantsIntact
<1> SUFFICES ASSUME IInv, NEW r \in held
             PROVE  heap[r.addr] = [owner |-> r.thread, what |-> r.what]
  BY DEF ConstantsIntact
<1>1. r.thread \in Threads /\ r.what \in Constants /\ r.addr \in Addrs
  BY DEF IInv, TypeOK, Constants
<1>2. Running(r.thread) /\ Cached(r.thread, r.what) = r.addr
  BY DEF IInv, HeldCached
<1>3. QED BY <1>1, <1>2, NoneAssumption DEF IInv, EntriesLive

LEMMA OnceByInv == IInv => BuiltOnce
<1> SUFFICES ASSUME IInv, NEW a \in Addrs, NEW b \in Addrs,
                    heap[a] = heap[b], heap[a] # Free, heap[a].what # Plain
             PROVE  a = b
  BY DEF BuiltOnce
<1>1. PICK t \in Threads, x \in Things : heap[a] = [owner |-> t, what |-> x]
  BY DEF IInv, TypeOK, Objects
<1>2. x # Plain
  BY <1>1
<1>3. Cached(t, x) = a /\ Cached(t, x) = b
  BY <1>1, <1>2 DEF IInv, ObjectsCached
<1>4. QED BY <1>3

\* No use of a constant ever returns memory that a reset took away, however
\* threads interleave their uses and the steps of their resets.
THEOREM ConstantsStayIntact == ASSUME DistinctKeys PROVE Spec => []ConstantsIntact
BY Invariance, IntactByInv, PTL

\* A thread builds each constant once between two resets.
THEOREM OneObjectPerConstant == ASSUME DistinctKeys PROVE Spec => []BuiltOnce
BY Invariance, OnceByInv, PTL

\* The tables and the memory have the types TypeOK says.
THEOREM TypeCorrect == ASSUME DistinctKeys PROVE Spec => []TypeOK
<1>1. IInv => TypeOK BY DEF IInv
<1>2. QED BY <1>1, Invariance, PTL
=============================================================================
