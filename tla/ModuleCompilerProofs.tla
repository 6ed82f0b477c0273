----------------------- MODULE ModuleCompilerProofs -----------------------
(***************************************************************************)
(* Compilation of a module neither aborts nor loses or confuses a          *)
(* function, for any number of method instances, any call graph, any       *)
(* pattern of failures, and any verdict of type inference.                 *)
(***************************************************************************)
EXTENDS ModuleCompiler, TLAPS

Seen(m) == status[m] # "unseen"
HasFunc(m) == \E i \in 1 .. Len(funcs) : funcs[i].code = m

\* Names are given once, from a counter, and a callee is only requested when
\* its IR is usable; so the only function whose IR can be missing is the entry.
NamesGiven ==
    /\ Seen(Entry)
    /\ \A m \in MIs : Seen(m) => names[m].k <= count
    /\ \A m, n \in MIs : Seen(m) /\ Seen(n) /\ names[m].k = names[n].k => m = n
    /\ \A m \in MIs : Seen(m) => m = Entry \/ ir[m] = "callable"

\* The function being emitted is declared and pending.
CurrentOK ==
    /\ phase = "body" <=> current # NoMI
    /\ phase = "body" => status[current] = "pending" /\ names[current] \in exports

\* A pending function is queued or being emitted, as long as the loop runs.
Queued ==
    phase \in {"worklist", "body"} =>
        \A m \in MIs : status[m] = "pending" =>
            m = current \/ \E i \in 1 .. Len(worklist) : worklist[i] = m

\* Functions of the module and method instances that were started correspond.
FuncsOfStarted ==
    \A i \in 1 .. Len(funcs) :
        /\ Seen(funcs[i].code)
        /\ funcs[i].name = names[funcs[i].code]
        /\ \/ status[funcs[i].code] \in {"compiled", "failed"}
           \/ funcs[i].code = current
           \/ phase = "error"
FuncsOnce ==
    \A i, j \in 1 .. Len(funcs) : funcs[i].code = funcs[j].code => i = j
StartedHaveFuncs ==
    \A m \in MIs : status[m] \in {"compiled", "failed"} \/ m = current => HasFunc(m)

\* A declared name, and the name in a call, is the name of a requested function.
ExportsSeen == \A n \in exports : \E m \in MIs : Seen(m) /\ names[m] = n
CallsSeen == \A c \in calls : Seen(c.callee) /\ names[c.callee] = c.name

\* finalize starts when nothing is pending and defines functions in order.
Finalizing ==
    /\ phase \in {"worklist", "body"} => next = 1
    /\ phase \in {"finalize", "ok"} =>
          /\ \A m \in MIs : status[m] # "pending"
          /\ \A i \in 1 .. Len(funcs) : i < next => funcs[i] \in defined
    /\ phase = "ok" => next > Len(funcs)

IInv ==
    /\ TypeOK
    /\ NoAbort
    /\ NamesGiven
    /\ CurrentOK
    /\ Queued
    /\ FuncsOfStarted
    /\ FuncsOnce
    /\ StartedHaveFuncs
    /\ ExportsSeen
    /\ CallsSeen
    /\ Finalizing

-----------------------------------------------------------------------------
LEMMA InitInv == Init => IInv
<1> SUFFICES ASSUME Init PROVE IInv
  OBVIOUS
<1>1. TypeOK
  BY EntryAssumption DEF Init, BuilderInit, TypeOK, IRKinds, Statuses, Phases,
     Names, EntryName, Name, MethodNames
<1>2. NoAbort /\ NamesGiven /\ CurrentOK
  BY EntryAssumption DEF Init, BuilderInit, NoAbort, NamesGiven, CurrentOK, Seen,
     EntryName, Name
<1>3. Queued
  <2>1. worklist[1] = Entry /\ Len(worklist) = 1
    BY DEF Init
  <2>2. QED BY <2>1, EntryAssumption DEF Init, Queued
<1>4. FuncsOfStarted /\ FuncsOnce /\ ExportsSeen /\ CallsSeen /\ Finalizing
  BY DEF Init, BuilderInit, FuncsOfStarted, FuncsOnce, ExportsSeen, CallsSeen,
     Finalizing
<1>5. StartedHaveFuncs
  BY EntryAssumption DEF Init, BuilderInit, StartedHaveFuncs, HasFunc
<1>6. QED BY <1>1, <1>2, <1>3, <1>4, <1>5 DEF IInv

LEMMA SeqElement ==
    ASSUME NEW S, NEW s \in Seq(S), NEW i \in 1 .. Len(s)
    PROVE  s[i] \in S
OBVIOUS

LEMMA FuncsType ==
    ASSUME TypeOK, NEW i \in 1 .. Len(funcs)
    PROVE  funcs[i] \in [name : Names, code : MIs] /\ funcs[i].code \in MIs
<1>1. funcs \in Seq([name : Names, code : MIs])
  BY DEF TypeOK
<1>2. funcs[i] \in [name : Names, code : MIs]
  BY <1>1, SeqElement
<1>3. QED BY <1>2

\* What Request does to the queue and to the tables, for a callee whose IR is usable.
LEMMA RequestFacts ==
    ASSUME IInv, NEW callee \in MIs, ir[callee] = "callable", phase = "body",
           Request(callee), UNCHANGED <<ir, current, funcs>>
    PROVE  /\ status' \in [MIs -> Statuses] /\ worklist' \in Seq(MIs)
           /\ count' \in Nat /\ names' \in [MIs -> Names]
           /\ NamesGiven'
           /\ Seen(callee)'
           /\ \A m \in MIs : Seen(m) => names'[m] = names[m] /\ status'[m] = status[m]
           /\ \A m \in MIs : status'[m] = status[m] \/ (~Seen(m) /\ status'[m] = "pending")
           /\ \A m \in MIs : status'[m] = "pending" =>
                m = current \/ \E i \in 1 .. Len(worklist') : worklist'[i] = m
<1>1. /\ status \in [MIs -> Statuses] /\ worklist \in Seq(MIs) /\ count \in Nat
      /\ names \in [MIs -> Names] /\ NamesGiven
  BY DEF IInv, TypeOK
<1>2. \A m \in MIs : status[m] = "pending" =>
         m = current \/ \E i \in 1 .. Len(worklist) : worklist[i] = m
  BY DEF IInv, Queued
<1>3. CASE Seen(callee)
  <2>1. UNCHANGED <<status, worklist, count, names>>
    BY <1>3 DEF Request, Seen
  <2>2. QED BY <1>1, <1>2, <1>3, <2>1 DEF Seen, NamesGiven
<1>4. CASE ~Seen(callee)
  <2> DEFINE new == Name(count + 1, Method[callee])
  <2>1. /\ status' = [status EXCEPT ![callee] = "pending"]
        /\ worklist' = Append(worklist, callee)
        /\ count' = count + 1
        /\ names' = [names EXCEPT ![callee] = new]
    BY <1>4 DEF Request, Seen
  <2>2. new \in Names /\ new.k = count + 1
    BY <1>1 DEF Names, MethodNames, Name
  <2> HIDE DEF new
  <2>3. /\ status' \in [MIs -> Statuses] /\ worklist' \in Seq(MIs)
        /\ count' \in Nat /\ names' \in [MIs -> Names]
    BY <1>1, <2>1, <2>2 DEF Statuses
  <2>4. /\ \A m \in MIs : m # callee => names'[m] = names[m] /\ status'[m] = status[m]
        /\ status'[callee] = "pending" /\ names'[callee] = new
    BY <1>1, <2>1
  <2>5. \A m \in MIs : names[m].k \in Nat
    BY <1>1 DEF Names
  <2>6. NamesGiven'
    <3>1. Seen(Entry)'
      BY <1>1, <2>4, EntryAssumption DEF NamesGiven, Seen
    <3>2. \A m \in MIs : Seen(m)' => (names[m].k <= count + 1)'
      BY <1>1, <2>1, <2>2, <2>4, <2>5 DEF NamesGiven, Seen
    <3>3. \A m \in MIs : Seen(m)' => (names[m].k <= count)'
      BY <1>1, <2>1, <2>2, <2>4, <2>5 DEF NamesGiven, Seen
    <3>4. ASSUME NEW m \in MIs, NEW n \in MIs, Seen(m)', Seen(n)',
                 (names[m].k = names[n].k)'
          PROVE  m = n
      BY <3>4, <1>1, <2>2, <2>4, <2>5 DEF NamesGiven, Seen
    <3>5. \A m \in MIs : Seen(m)' => m = Entry \/ ir'[m] = "callable"
      BY <1>1, <2>4 DEF NamesGiven, Seen
    <3>6. QED BY <3>1, <3>3, <3>4, <3>5 DEF NamesGiven
  <2>7. \A m \in MIs : status'[m] = "pending" =>
           m = current \/ \E i \in 1 .. Len(worklist') : worklist'[i] = m
    <3>1. /\ Len(worklist') = Len(worklist) + 1 /\ Len(worklist) \in Nat
          /\ worklist'[Len(worklist) + 1] = callee
          /\ \A i \in 1 .. Len(worklist) : worklist'[i] = worklist[i]
      BY <1>1, <2>1
    <3>2. QED BY <1>2, <2>4, <3>1
  <2>8. QED BY <1>4, <2>3, <2>4, <2>6, <2>7 DEF Seen
<1>5. QED BY <1>3, <1>4

\* An invoke of a callee, with or without its call instruction.
LEMMA InvokeInv ==
    ASSUME IInv, NEW callee \in MIs, phase = "body", invokes' \in Nat,
           callee # current, ir[callee] = "callable",
           Request(callee), DeclareSelf(names'[callee]),
           \/ UNCHANGED calls
           \/ calls' = calls \cup {[callee |-> callee, name |-> names'[callee]]},
           UNCHANGED <<funcs, defined, module, ir, current, phase, next>>
    PROVE  IInv'
<1>1. /\ status' \in [MIs -> Statuses] /\ worklist' \in Seq(MIs)
      /\ count' \in Nat /\ names' \in [MIs -> Names]
      /\ NamesGiven'
      /\ Seen(callee)'
      /\ \A m \in MIs : Seen(m) => names'[m] = names[m] /\ status'[m] = status[m]
      /\ \A m \in MIs : status'[m] = status[m] \/ (~Seen(m) /\ status'[m] = "pending")
      /\ \A m \in MIs : status'[m] = "pending" =>
           m = current \/ \E i \in 1 .. Len(worklist') : worklist'[i] = m
  BY RequestFacts
<1>2. exports' = exports \cup {names'[callee]}
  BY DEF DeclareSelf
<1>3. names'[callee] \in Names
  BY <1>1
<1>4. TypeOK'
  BY <1>1, <1>2, <1>3 DEF IInv, TypeOK
<1>5. NoAbort' /\ Queued' /\ FuncsOnce'
  BY <1>1 DEF IInv, NoAbort, Queued, FuncsOnce
<1>6. CurrentOK'
  BY <1>1, <1>2 DEF IInv, CurrentOK, TypeOK, Seen
<1>7. FuncsOfStarted'
  <2>1. \A i \in 1 .. Len(funcs) : funcs[i].code \in MIs
    BY FuncsType DEF IInv
  <2>2. QED BY <1>1, <2>1 DEF IInv, FuncsOfStarted, Seen
<1>8. StartedHaveFuncs'
  BY <1>1 DEF IInv, StartedHaveFuncs, HasFunc, Seen
<1>9. ExportsSeen'
  BY <1>1, <1>2 DEF IInv, ExportsSeen, Seen
<1>10. CallsSeen'
  <2>1. \A c \in calls : c.callee \in MIs
    BY DEF IInv, TypeOK
  <2>2. \A c \in calls : Seen(c.callee)' /\ names'[c.callee] = c.name
    BY <1>1, <2>1 DEF IInv, CallsSeen, Seen
  <2>3. QED BY <1>1, <2>2 DEF CallsSeen
<1>11. Finalizing'
  BY DEF IInv, Finalizing
<1>12. QED BY <1>1, <1>4, <1>5, <1>6, <1>7, <1>8, <1>9, <1>10, <1>11 DEF IInv

LEMMA InvokeOtherInv ==
    ASSUME IInv, NEW callee \in MIs, InvokeOther(callee)
    PROVE  IInv'
<1>1. names'[callee] \in exports'
  BY DEF InvokeOther, DeclareSelf
<1>2. /\ calls' = calls \cup {[callee |-> callee, name |-> names'[callee]]}
      /\ UNCHANGED phase
  BY <1>1 DEF InvokeOther, AddCall
<1>3. phase = "body" /\ invokes' \in Nat
  BY DEF InvokeOther, Invoking, IInv, TypeOK
<1>4. QED BY <1>2, <1>3, InvokeInv DEF InvokeOther

LEMMA InvokeWithBadOperandInv ==
    ASSUME IInv, NEW callee \in MIs, InvokeWithBadOperand(callee)
    PROVE  IInv'
<1>1. phase = "body" /\ invokes' \in Nat
  BY DEF InvokeWithBadOperand, Invoking, IInv, TypeOK
<1>2. QED BY <1>1, InvokeInv DEF InvokeWithBadOperand

\* Steps that change nothing the invariant speaks of.
LEMMA QuietInv ==
    ASSUME IInv, invokes' \in Nat,
           UNCHANGED <<builderVars, ir, worklist, status, names, count, current,
                       phase, next, calls>>
    PROVE  IInv'
BY DEF builderVars, IInv, TypeOK, NoAbort, NamesGiven, CurrentOK, Queued,
    FuncsOfStarted, FuncsOnce, StartedHaveFuncs, ExportsSeen, CallsSeen,
    Finalizing, Seen, HasFunc

LEMMA InvokeSelfInv == ASSUME IInv, InvokeSelf PROVE IInv'
<1>1. phase = "body" /\ invokes' \in Nat /\ names[current] \in exports
      /\ current \in MIs /\ status[current] = "pending"
  BY DEF InvokeSelf, Invoking, IInv, TypeOK, CurrentOK
<1>2. /\ calls' = calls \cup {[callee |-> current, name |-> names[current]]}
      /\ UNCHANGED <<builderVars, ir, worklist, status, names, count, current,
                     phase, next>>
  BY <1>1 DEF InvokeSelf, AddCall
<1>3. names[current] \in Names
  BY <1>1 DEF IInv, TypeOK
<1>4. TypeOK'
  BY <1>1, <1>2, <1>3 DEF IInv, TypeOK, builderVars
<1>5. CallsSeen'
  BY <1>1, <1>2 DEF IInv, CallsSeen, Seen
<1>6. QED BY <1>2, <1>4, <1>5 DEF builderVars, IInv, NoAbort, NamesGiven,
    CurrentOK, Queued, FuncsOfStarted, FuncsOnce, StartedHaveFuncs, ExportsSeen,
    Finalizing, Seen, HasFunc

-----------------------------------------------------------------------------
LEMMA HeadTail ==
    ASSUME worklist \in Seq(MIs), worklist # <<>>
    PROVE  /\ Head(worklist) \in MIs /\ Tail(worklist) \in Seq(MIs)
           /\ \A m \in MIs :
                m # Head(worklist) /\ (\E i \in 1 .. Len(worklist) : worklist[i] = m) =>
                \E i \in 1 .. Len(Tail(worklist)) : Tail(worklist)[i] = m
<1>1. /\ Head(worklist) = worklist[1] /\ Len(worklist) \in Nat /\ Len(worklist) > 0
      /\ Len(Tail(worklist)) = Len(worklist) - 1
      /\ \A i \in 1 .. Len(worklist) - 1 : Tail(worklist)[i] = worklist[i + 1]
  OBVIOUS
<1>2. Head(worklist) \in MIs /\ Tail(worklist) \in Seq(MIs)
  OBVIOUS
<1>3. ASSUME NEW m \in MIs, m # Head(worklist),
             NEW i \in 1 .. Len(worklist), worklist[i] = m
      PROVE  \E j \in 1 .. Len(Tail(worklist)) : Tail(worklist)[j] = m
  <2>1. i # 1 /\ i - 1 \in 1 .. Len(Tail(worklist))
    BY <1>1, <1>3
  <2>2. Tail(worklist)[i - 1] = m
    BY <1>1, <1>3, <2>1
  <2>3. QED BY <2>1, <2>2
<1>4. QED BY <1>2, <1>3

LEMMA StartBodyInv ==
    ASSUME IInv, phase = "worklist", worklist # <<>>,
           worklist' = Tail(worklist), status[Head(worklist)] = "pending",
           StartBody(Head(worklist)), UNCHANGED <<ir, names, count, next, calls>>
    PROVE  IInv'
<1> DEFINE mi == Head(worklist)
<1>1. /\ worklist \in Seq(MIs) /\ names \in [MIs -> Names]
      /\ funcs \in Seq([name : Names, code : MIs]) /\ NoMI \notin MIs
      /\ current = NoMI
  BY EntryAssumption DEF IInv, TypeOK, CurrentOK
<1>2. /\ mi \in MIs /\ Tail(worklist) \in Seq(MIs)
      /\ \A m \in MIs :
           m # mi /\ (\E i \in 1 .. Len(worklist) : worklist[i] = m) =>
           \E i \in 1 .. Len(Tail(worklist)) : Tail(worklist)[i] = m
  BY <1>1, HeadTail
<1> HIDE DEF mi
<1>3. /\ funcs' = Append(funcs, [name |-> names[mi], code |-> mi])
      /\ exports' = exports \cup {names[mi]}
      /\ current' = mi /\ phase' = "body" /\ invokes' = 0
      /\ UNCHANGED <<defined, module, status, ir, names, count, next, calls>>
      /\ worklist' = Tail(worklist) /\ status[mi] = "pending"
  BY DEF StartBody, AddFunction, DeclareSelf, mi
<1>4. [name |-> names[mi], code |-> mi] \in [name : Names, code : MIs]
  BY <1>1, <1>2
<1>5. /\ funcs' \in Seq([name : Names, code : MIs])
      /\ Len(funcs') = Len(funcs) + 1 /\ Len(funcs) \in Nat
      /\ \A i \in 1 .. Len(funcs) : funcs'[i] = funcs[i]
      /\ funcs'[Len(funcs) + 1].name = names[mi]
      /\ funcs'[Len(funcs) + 1].code = mi
  BY <1>1, <1>3, <1>4
<1>6. TypeOK'
  BY <1>1, <1>2, <1>3, <1>5 DEF IInv, TypeOK, Phases
<1>7. NoAbort' /\ CurrentOK'
  BY <1>1, <1>2, <1>3 DEF NoAbort, CurrentOK
<1>8. NamesGiven' /\ CallsSeen'
  BY <1>3 DEF IInv, NamesGiven, CallsSeen, Seen
<1>9. Queued'
  BY <1>1, <1>2, <1>3 DEF IInv, Queued
\* The function being started had none: those that have one are not pending.
<1>10. \A i \in 1 .. Len(funcs) : funcs[i].code # mi
  BY <1>1, <1>2, <1>3 DEF IInv, FuncsOfStarted
<1>11. FuncsOfStarted'
  <2>1. \A i \in 1 .. Len(funcs) :
           /\ status[funcs[i].code] # "unseen"
           /\ funcs[i].name = names[funcs[i].code]
           /\ status[funcs[i].code] \in {"compiled", "failed"}
    <3>1. \A i \in 1 .. Len(funcs) : funcs[i].code \in MIs
      BY FuncsType DEF IInv
    <3>2. QED BY <1>1, <3>1 DEF IInv, FuncsOfStarted, Seen
  <2>2. QED BY <1>3, <1>5, <2>1 DEF FuncsOfStarted, Seen
<1>12. FuncsOnce'
  BY <1>5, <1>10 DEF IInv, FuncsOnce
<1>13. StartedHaveFuncs'
  <2> SUFFICES ASSUME NEW m \in MIs,
                      status'[m] \in {"compiled", "failed"} \/ m = current'
               PROVE  HasFunc(m)'
    BY DEF StartedHaveFuncs
  <2>1. CASE m = mi
    BY <1>5, <2>1 DEF HasFunc
  <2>2. CASE m # mi
    <3>1. HasFunc(m)
      BY <1>3, <2>2 DEF IInv, StartedHaveFuncs
    <3>2. QED BY <1>5, <3>1 DEF HasFunc
  <2>3. QED BY <2>1, <2>2
<1>14. ExportsSeen'
  BY <1>2, <1>3 DEF IInv, ExportsSeen, Seen
<1>15. Finalizing'
  BY <1>3 DEF IInv, Finalizing
<1>16. QED BY <1>6, <1>7, <1>8, <1>9, <1>11, <1>12, <1>13, <1>14, <1>15 DEF IInv

LEMMA NextFunctionInv == ASSUME IInv, NextFunction PROVE IInv'
<1> DEFINE mi == Head(worklist)
<1>1. /\ phase = "worklist" /\ worklist # <<>> /\ worklist' = Tail(worklist)
      /\ UNCHANGED <<ir, names, count, next, calls>>
      /\ worklist \in Seq(MIs) /\ current = NoMI
  BY DEF NextFunction, IInv, TypeOK, CurrentOK
<1>2. /\ mi \in MIs /\ Tail(worklist) \in Seq(MIs)
      /\ \A m \in MIs :
           m # mi /\ (\E i \in 1 .. Len(worklist) : worklist[i] = m) =>
           \E i \in 1 .. Len(Tail(worklist)) : Tail(worklist)[i] = m
  BY <1>1, HeadTail
<1>3. CASE status[mi] # "pending"
  <2>1. UNCHANGED <<builderVars, status, current, phase, invokes>>
    BY <1>3 DEF NextFunction
  <2>2. Queued'
    BY <1>1, <1>2, <1>3, <2>1 DEF IInv, Queued
  <2>3. TypeOK'
    BY <1>1, <1>2, <2>1 DEF IInv, TypeOK, builderVars
  <2>4. QED BY <1>1, <2>1, <2>2, <2>3 DEF builderVars, IInv, NoAbort, NamesGiven,
      CurrentOK, FuncsOfStarted, FuncsOnce, StartedHaveFuncs, ExportsSeen,
      CallsSeen, Finalizing, Seen, HasFunc
<1>4. CASE status[mi] = "pending" /\ ir[mi] = "none"
  <2>1. mi = Entry
    BY <1>2, <1>4 DEF IInv, NamesGiven, Seen
  <2>2. phase' = "error" /\ UNCHANGED <<builderVars, status, current, invokes>>
    BY <1>4, <2>1 DEF NextFunction, Fail
  <2>3. TypeOK'
    BY <1>1, <1>2, <2>2 DEF IInv, TypeOK, builderVars, Phases
  <2>4. CurrentOK' /\ Queued'
    BY <1>1, <2>2 DEF IInv, CurrentOK, Queued
  <2>5. QED BY <1>1, <2>2, <2>3, <2>4 DEF builderVars, IInv, NoAbort, NamesGiven,
      FuncsOfStarted, FuncsOnce, StartedHaveFuncs, ExportsSeen, CallsSeen,
      Finalizing, Seen, HasFunc
<1>5. CASE status[mi] = "pending" /\ ir[mi] # "none"
  <2>1. StartBody(mi)
    BY <1>5 DEF NextFunction
  <2>2. QED BY <1>1, <1>5, <2>1, StartBodyInv
<1>6. QED BY <1>3, <1>4, <1>5

\* The body is over: the function is compiled, or failed, or was the entry.
LEMMA BodyEndInv ==
    ASSUME IInv, phase = "body", current' = NoMI,
           UNCHANGED <<builderVars, ir, worklist, names, count, invokes, next, calls>>,
           \/ /\ phase' = "worklist"
              /\ \/ status' = [status EXCEPT ![current] = "compiled"]
                 \/ status' = [status EXCEPT ![current] = "failed"]
           \/ phase' = "error" /\ UNCHANGED status
    PROVE  IInv'
<1>1. /\ status \in [MIs -> Statuses] /\ current \in MIs /\ status[current] = "pending"
      /\ NoMI \notin MIs
  BY EntryAssumption DEF IInv, TypeOK, CurrentOK
<1>2. /\ status' \in [MIs -> Statuses]
      /\ \A m \in MIs : m # current => status'[m] = status[m]
      /\ status'[current] # "unseen"
      /\ phase' = "worklist" => status'[current] \in {"compiled", "failed"}
      /\ phase' \in {"worklist", "error"}
  BY <1>1 DEF Statuses
<1>3. TypeOK'
  BY <1>2 DEF IInv, TypeOK, builderVars, Phases
<1>4. NoAbort' /\ CurrentOK' /\ CallsSeen' /\ ExportsSeen' /\ NamesGiven'
  <2>1. \A m \in MIs : Seen(m)' <=> Seen(m)
    BY <1>1, <1>2 DEF Seen
  <2>2. \A c \in calls : c.callee \in MIs
    BY DEF IInv, TypeOK
  <2>3. NoAbort' /\ CurrentOK'
    BY <1>2 DEF NoAbort, CurrentOK
  <2>4. NamesGiven'
    BY <2>1, EntryAssumption DEF IInv, NamesGiven
  <2>5. ExportsSeen' /\ CallsSeen'
    BY <2>1, <2>2 DEF IInv, ExportsSeen, CallsSeen, builderVars
  <2>6. QED BY <2>3, <2>4, <2>5
<1>5. Queued'
  BY <1>1, <1>2 DEF IInv, Queued
<1>6. FuncsOfStarted'
  <2>1. \A i \in 1 .. Len(funcs) : funcs[i].code \in MIs
    BY FuncsType DEF IInv
  <2>2. QED BY <1>1, <1>2, <2>1 DEF IInv, FuncsOfStarted, Seen, builderVars
<1>7. FuncsOnce'
  BY DEF IInv, FuncsOnce, builderVars
<1>8. StartedHaveFuncs'
  BY <1>1, <1>2 DEF IInv, StartedHaveFuncs, HasFunc, builderVars
<1>9. Finalizing'
  BY <1>2 DEF IInv, Finalizing
<1>10. QED BY <1>3, <1>4, <1>5, <1>6, <1>7, <1>8, <1>9 DEF IInv

-----------------------------------------------------------------------------
LEMMA FinalizeInv == ASSUME IInv, Finalize PROVE IInv'
<1>1. /\ phase = "worklist" /\ worklist = <<>> /\ phase' = "finalize"
      /\ module' = "taken" /\ current = NoMI /\ NoMI \notin MIs
      /\ UNCHANGED <<exports, funcs, defined, ir, worklist, status, names, count,
                     current, invokes, next, calls>>
  BY EntryAssumption DEF Finalize, TakeModule, IInv, CurrentOK
<1>2. \A m \in MIs : status[m] # "pending"
  BY <1>1 DEF IInv, Queued
<1>3. Finalizing'
  BY <1>1, <1>2 DEF IInv, TypeOK, Finalizing
<1>4. TypeOK'
  BY <1>1 DEF IInv, TypeOK, Phases
<1>5. QED BY <1>1, <1>3, <1>4 DEF IInv, NoAbort, NamesGiven, CurrentOK, Queued,
    FuncsOfStarted, FuncsOnce, StartedHaveFuncs, ExportsSeen, CallsSeen, Seen, HasFunc

LEMMA DefineNextInv == ASSUME IInv, DefineNext PROVE IInv'
<1>1. /\ phase = "finalize" /\ next <= Len(funcs) /\ next \in 1 .. Len(funcs)
      /\ UNCHANGED <<ir, worklist, status, names, count, current, invokes, calls>>
  BY DEF DefineNext, IInv, TypeOK
<1>2. funcs[next] \in [name : Names, code : MIs]
  BY <1>1, FuncsType DEF IInv
<1>3. CASE CanDefine(next)
  <2>1. /\ defined' = defined \cup {funcs[next]} /\ next' = next + 1
        /\ UNCHANGED <<exports, funcs, module, phase>>
    BY <1>3 DEF DefineNext, Define
  <2>2. TypeOK'
    BY <1>1, <1>2, <2>1 DEF IInv, TypeOK
  <2>3. Finalizing'
    BY <1>1, <2>1 DEF IInv, TypeOK, Finalizing
  <2>4. QED BY <1>1, <2>1, <2>2, <2>3 DEF IInv, NoAbort, NamesGiven, CurrentOK,
      Queued, FuncsOfStarted, FuncsOnce, StartedHaveFuncs, ExportsSeen, CallsSeen,
      Seen, HasFunc
<1>4. CASE ~CanDefine(next)
  <2>1. phase' = "error" /\ UNCHANGED <<exports, funcs, defined, module, next>>
    BY <1>4 DEF DefineNext, builderVars
  <2>2. TypeOK'
    BY <1>1, <2>1 DEF IInv, TypeOK, Phases
  <2>3. QED BY <1>1, <2>1, <2>2 DEF IInv, NoAbort, NamesGiven, CurrentOK, Queued,
      FuncsOfStarted, FuncsOnce, StartedHaveFuncs, ExportsSeen, CallsSeen,
      Finalizing, Seen, HasFunc
<1>5. QED BY <1>3, <1>4

\* The heart of the matter: when the loop of finalize is over, every requested
\* function has been defined under the name it was given.
LEMMA AllDefined ==
    ASSUME IInv, phase \in {"finalize", "ok"}, next > Len(funcs),
           NEW m \in MIs, Seen(m)
    PROVE  [name |-> names[m], code |-> m] \in defined
<1>1. status[m] \in {"compiled", "failed"}
  BY DEF IInv, TypeOK, Statuses, Finalizing, Seen
<1>2. PICK i \in 1 .. Len(funcs) : funcs[i].code = m
  BY <1>1 DEF IInv, StartedHaveFuncs, HasFunc
<1>3. funcs[i] \in [name : Names, code : MIs] /\ funcs[i].name = names[m]
  BY <1>2, FuncsType DEF IInv, FuncsOfStarted
<1>4. funcs[i] \in defined
  BY <1>2 DEF IInv, TypeOK, Finalizing
<1>5. funcs[i] = [name |-> names[m], code |-> m]
  BY <1>2, <1>3
<1>6. QED BY <1>4, <1>5

LEMMA FinishInv == ASSUME IInv, Finish PROVE IInv'
<1>1. /\ phase = "finalize" /\ next > Len(funcs)
      /\ UNCHANGED <<builderVars, ir, worklist, status, names, count, current,
                     invokes, next, calls>>
  BY DEF Finish
<1>2. ~FinishPanics
  <2>1. ASSUME NEW n \in exports PROVE n \in DefinedNames
    <3>1. PICK m \in MIs : Seen(m) /\ names[m] = n
      BY DEF IInv, ExportsSeen
    <3>2. [name |-> n, code |-> m] \in defined
      BY <1>1, <3>1, AllDefined
    <3>3. QED BY <3>2 DEF DefinedNames
  <2>2. QED BY <2>1 DEF FinishPanics
<1>3. phase' \in {"ok", "error"}
  BY <1>2 DEF Finish
<1>4. TypeOK'
  BY <1>1, <1>3 DEF IInv, TypeOK, builderVars, Phases
<1>5. QED BY <1>1, <1>3, <1>4 DEF builderVars, IInv, NoAbort, NamesGiven, CurrentOK,
    Queued, FuncsOfStarted, FuncsOnce, StartedHaveFuncs, ExportsSeen, CallsSeen,
    Finalizing, Seen, HasFunc

LEMMA StepInv == IInv /\ [Next]_vars => IInv'
<1> SUFFICES ASSUME IInv, [Next]_vars PROVE IInv'
  OBVIOUS
<1>1. CASE NextFunction
  BY <1>1, NextFunctionInv
<1>2. CASE InvokeSelf
  BY <1>2, InvokeSelfInv
<1>3. CASE \E callee \in MIs : InvokeOther(callee)
  BY <1>3, InvokeOtherInv
<1>4. CASE \E callee \in MIs : InvokeWithBadOperand(callee)
  BY <1>4, InvokeWithBadOperandInv
<1>5. CASE \E callee \in MIs : InvokeSentinel(callee)
  <2>1. invokes' \in Nat
    BY <1>5 DEF InvokeSentinel, Invoking, IInv, TypeOK
  <2>2. QED BY <1>5, <2>1, QuietInv DEF InvokeSentinel
<1>6. CASE BodyDone
  BY <1>6, BodyEndInv DEF BodyDone
<1>7. CASE BodyThrows
  BY <1>7, BodyEndInv DEF BodyThrows, Fail
<1>8. CASE Finalize
  BY <1>8, FinalizeInv
<1>9. CASE DefineNext
  BY <1>9, DefineNextInv
<1>10. CASE Finish
  BY <1>10, FinishInv
<1>11. CASE UNCHANGED vars
  <2>1. invokes' \in Nat
    BY <1>11 DEF vars, compilerVars, IInv, TypeOK
  <2>2. QED BY <1>11, <2>1, QuietInv DEF vars, compilerVars
<1>12. QED BY <1>1, <1>2, <1>3, <1>4, <1>5, <1>6, <1>7, <1>8, <1>9, <1>10, <1>11
    DEF Next, Compile

THEOREM Invariance == Spec => []IInv
BY InitInv, StepInv, PTL DEF Spec

-----------------------------------------------------------------------------
\* The tables of the compiler and of the builder keep their types.
THEOREM TypeCorrect == Spec => []TypeOK
<1>1. IInv => TypeOK
  BY DEF IInv
<1>2. QED BY <1>1, Invariance, PTL

\* Neither an undeclared callee nor an undefined export ends the process.
THEOREM NeverAborts == Spec => []NoAbort
<1>1. IInv => NoAbort
  BY DEF IInv
<1>2. QED BY <1>1, Invariance, PTL

\* No method instance is compiled twice and no two functions share a name.
THEOREM EachCompiledOnce == Spec => []CompiledOnce
<1>1. IInv => CompiledOnce
  <2> SUFFICES ASSUME IInv, NEW i \in 1 .. Len(funcs), NEW j \in 1 .. Len(funcs), i # j
               PROVE  funcs[i].name # funcs[j].name /\ funcs[i].code # funcs[j].code
    BY DEF CompiledOnce
  <2>1. funcs[i].code # funcs[j].code
    BY DEF IInv, FuncsOnce
  <2>2. funcs[i].code \in MIs /\ funcs[j].code \in MIs
    BY FuncsType DEF IInv
  <2>3. QED BY <2>1, <2>2 DEF IInv, FuncsOfStarted, NamesGiven
<1>2. QED BY <1>1, Invariance, PTL

\* Every call of a finished module lands in the function it was meant for.
THEOREM EveryCallLands == Spec => []CallsLand
<1>1. IInv => CallsLand
  <2> SUFFICES ASSUME IInv, phase = "ok", NEW c \in calls
               PROVE  \E d \in defined : d.name = c.name /\ d.code = c.callee
    BY DEF CallsLand
  <2>1. c.callee \in MIs /\ Seen(c.callee) /\ names[c.callee] = c.name
    BY DEF IInv, TypeOK, CallsSeen
  <2>2. [name |-> names[c.callee], code |-> c.callee] \in defined
    BY <2>1, AllDefined DEF IInv, Finalizing
  <2>3. QED BY <2>1, <2>2
<1>2. QED BY <1>1, Invariance, PTL

\* Finalization sees the whole call graph.
THEOREM NoneForgotten == Spec => []NothingForgotten
<1>1. IInv => NothingForgotten
  <2> SUFFICES ASSUME IInv, phase = "finalize", NEW m \in MIs
               PROVE  /\ status[m] # "pending"
                      /\ status[m] \in {"compiled", "failed"} <=> HasFunc(m)
    BY DEF NothingForgotten, HasFunc
  <2>1. status[m] # "pending"
    BY DEF IInv, Finalizing
  <2>2. current = NoMI /\ m # NoMI
    BY EntryAssumption DEF IInv, TypeOK, CurrentOK
  <2>3. status[m] \in {"compiled", "failed"} => HasFunc(m)
    BY DEF IInv, StartedHaveFuncs
  <2>4. HasFunc(m) => status[m] \in {"compiled", "failed"}
    BY <2>2 DEF IInv, FuncsOfStarted, HasFunc
  <2>5. QED BY <2>1, <2>3, <2>4
<1>2. QED BY <1>1, Invariance, PTL
=============================================================================
