--------------------------- MODULE ModuleCompiler ---------------------------
(***************************************************************************)
(* emit_module_via_builder of NativeCodegen/src/builder_emit.jl: the       *)
(* worklist loop that compiles the call graph of an entry function into    *)
(* one object module, and the finalization of that module.                 *)
(*                                                                         *)
(* MIs stands for MethodInstances.  What type inference finds for each of  *)
(* them (code_ircode_by_type, cranelift_type) is external: ir is chosen    *)
(* freely but once, because the same interpreter at the same world answers *)
(* the same question when a callee is requested and when it is compiled.   *)
(* Which statements a body has is left open.                               *)
(***************************************************************************)
EXTENDS ModuleBuilder

CONSTANTS
    MIs,            \* MethodInstances
    Entry,          \* the one the module is compiled for
    Method,         \* [MIs -> method names]
    NoMI,           \* no body is being emitted
    MaxInvokes      \* bound: invokes per body

VARIABLES
    ir,             \* inference's answer per MI: see IRKinds
    worklist,       \* mc.worklist
    status,         \* mc.status
    names,          \* mc.callee_names, meaningful once status is set
    count,          \* mc.compiled_count
    current,        \* bc.current_mi
    invokes,        \* bounds the body being emitted
    phase,          \* where emit_module_via_builder is
    next,           \* next index of the finalize loop
    calls           \* history: the call instructions emitted

compilerVars == <<ir, worklist, status, names, count, current, invokes,
                  phase, next, calls>>
vars == <<builderVars, compilerVars>>

ASSUME EntryAssumption == Entry \in MIs /\ NoMI \notin MIs
ASSUME CodeAssumption == Code = MIs
ASSUME BoundAssumption == MaxInvokes \in Nat

\* "none": no unique IR.  "opaque": IR whose control flow or types a call
\* cannot be made to, or typejoin.  "callable": everything else.
IRKinds == {"none", "opaque", "callable"}
Statuses == {"unseen", "pending", "compiled", "failed"}
Phases == {"worklist", "body", "finalize", "ok", "error", "abort"}

Name(k, method) == [k |-> k, method |-> method]
EntryName == Name(0, "entry")

MethodNames == {Method[m] : m \in MIs} \cup {"entry"}
Names == [k : Nat, method : MethodNames]

TypeOK ==
    /\ exports \subseteq Names
    /\ funcs \in Seq([name : Names, code : MIs])
    /\ defined \subseteq [name : Names, code : MIs]
    /\ module \in {"open", "taken"}
    /\ ir \in [MIs -> IRKinds]
    /\ worklist \in Seq(MIs)
    /\ status \in [MIs -> Statuses]
    /\ names \in [MIs -> Names]
    /\ count \in Nat
    /\ current \in MIs \cup {NoMI}
    /\ invokes \in Nat
    /\ phase \in Phases
    /\ next \in Nat \ {0}
    /\ calls \subseteq [callee : MIs, name : Names]

\* request!(mc, mi), then callee_names[mi] is set to the entry's name.
Init ==
    /\ BuilderInit
    /\ ir \in [MIs -> IRKinds]
    /\ worklist = <<Entry>>
    /\ status = [m \in MIs |-> IF m = Entry THEN "pending" ELSE "unseen"]
    /\ names = [m \in MIs |-> EntryName]
    /\ count = 1
    /\ current = NoMI
    /\ invokes = 0
    /\ phase = "worklist"
    /\ next = 1
    /\ calls = {}

-----------------------------------------------------------------------------
(* The worklist                                                            *)

\* Fault: only a pending request is remembered.
RequestUnlessPending(mi) ==
    IF status[mi] # "pending"
    THEN /\ status' = [status EXCEPT ![mi] = "pending"]
         /\ worklist' = Append(worklist, mi)
         /\ count' = count + 1
         /\ names' = [names EXCEPT ![mi] = Name(count + 1, Method[mi])]
    ELSE UNCHANGED <<status, worklist, count, names>>

\* request!: idempotent, gives a method instance its function name.
Request(mi) ==
    IF status[mi] = "unseen"
    THEN /\ status' = [status EXCEPT ![mi] = "pending"]
         /\ worklist' = Append(worklist, mi)
         /\ count' = count + 1
         /\ names' = [names EXCEPT ![mi] = Name(count + 1, Method[mi])]
    ELSE UNCHANGED <<status, worklist, count, names>>

\* Fault: the status says why the callee failed.
FailWithReason(mi) ==
    IF mi = Entry
    THEN phase' = "error" /\ UNCHANGED status
    ELSE phase' = "worklist" /\ status' = [status EXCEPT ![mi] = ir[mi]]

\* Fault: a callee that does not compile keeps its status.
FailUnmarked(mi) ==
    IF mi = Entry
    THEN phase' = "error" /\ UNCHANGED status
    ELSE phase' = "worklist" /\ UNCHANGED status

\* The catch clause of the loop: the entry must compile, a callee need not.
Fail(mi) ==
    IF mi = Entry
    THEN phase' = "error" /\ UNCHANGED status
    ELSE phase' = "worklist" /\ status' = [status EXCEPT ![mi] = "failed"]

\* _compile_function_in_module! up to the emission of the body: the function
\* joins the module and is declared callable.
StartBody(mi) ==
    /\ AddFunction(names[mi], mi)
    /\ DeclareSelf(names[mi])
    /\ current' = mi
    /\ phase' = "body"
    /\ invokes' = 0
    /\ UNCHANGED <<defined, module, status>>

\* Fault: the head of the worklist is read but not removed.
NextFunctionPeeks ==
    /\ phase = "worklist" /\ worklist # <<>>
    /\ LET mi == Head(worklist) IN
       IF status[mi] # "pending"
       THEN UNCHANGED <<builderVars, status, current, phase, invokes>>
       ELSE IF ir[mi] = "none"
       THEN Fail(mi) /\ UNCHANGED <<builderVars, current, invokes>>
       ELSE StartBody(mi)
    /\ UNCHANGED <<ir, worklist, names, count, next, calls>>

\* One round of the loop.  A function that is not pending is passed over; one
\* without IR fails before the module is touched.
NextFunction ==
    /\ phase = "worklist" /\ worklist # <<>>
    /\ worklist' = Tail(worklist)
    /\ LET mi == Head(worklist) IN
       IF status[mi] # "pending"
       THEN UNCHANGED <<builderVars, status, current, phase, invokes>>
       ELSE IF ir[mi] = "none"
       THEN Fail(mi) /\ UNCHANGED <<builderVars, current, invokes>>
       ELSE StartBody(mi)
    /\ UNCHANGED <<ir, names, count, next, calls>>

-----------------------------------------------------------------------------
(* The body: emit_invoke, _emit_recursive_globalcall                       *)

Invoking == phase = "body" /\ invokes < MaxInvokes /\ invokes' = invokes + 1

\* block_add_call: emit_call_import panics on a name that is not declared.
AddCall(callee, name, declared) ==
    IF name \in declared
    THEN /\ calls' = calls \cup {[callee |-> callee, name |-> name]}
         /\ UNCHANGED phase
    ELSE /\ phase' = "abort"
         /\ UNCHANGED calls

\* Fault: self-recursion goes to the symbol of the module's entry.
InvokeSelfAsEntry ==
    /\ Invoking
    /\ AddCall(current, EntryName, exports)
    /\ UNCHANGED <<builderVars, ir, worklist, status, names, count, current, next>>

\* The callee is the function being compiled.
InvokeSelf ==
    /\ Invoking
    /\ AddCall(current, names[current], exports)
    /\ UNCHANGED <<builderVars, ir, worklist, status, names, count, current, next>>

\* A callee with usable IR is requested, declared, and called.
InvokeOther(callee) ==
    /\ Invoking
    /\ callee # current /\ ir[callee] = "callable"
    /\ Request(callee)
    /\ DeclareSelf(names'[callee])
    /\ AddCall(callee, names'[callee], exports')
    /\ UNCHANGED <<funcs, defined, module, ir, current, next>>

\* The same, but resolve_operand throws an error the emitter tolerates: the
\* statement becomes a placeholder after the callee was requested.
InvokeWithBadOperand(callee) ==
    /\ Invoking
    /\ callee # current /\ ir[callee] = "callable"
    /\ Request(callee)
    /\ DeclareSelf(names'[callee])
    /\ UNCHANGED <<funcs, defined, module, ir, current, phase, next, calls>>

\* A callee without usable IR is replaced by a constant.
InvokeSentinel(callee) ==
    /\ Invoking
    /\ callee # current /\ ir[callee] # "callable"
    /\ UNCHANGED <<builderVars, ir, worklist, status, names, count, current,
                   phase, next, calls>>

BodyDone ==
    /\ phase = "body"
    /\ status' = [status EXCEPT ![current] = "compiled"]
    /\ current' = NoMI
    /\ phase' = "worklist"
    /\ UNCHANGED <<builderVars, ir, worklist, names, count, invokes, next, calls>>

\* Fault: the half-made function is taken out, its declaration stays.
BodyThrowsAndDrops ==
    /\ phase = "body"
    /\ Fail(current)
    /\ current' = NoMI
    /\ funcs' = SubSeq(funcs, 1, Len(funcs) - 1)
    /\ UNCHANGED <<exports, defined, module, ir, worklist, names, count, invokes,
                   next, calls>>

\* An exception that is neither CompileError nor ErrorException is rethrown
\* out of the body; what was emitted of it stays in the module.
BodyThrows ==
    /\ phase = "body"
    /\ Fail(current)
    /\ current' = NoMI
    /\ UNCHANGED <<builderVars, ir, worklist, names, count, invokes, next, calls>>

-----------------------------------------------------------------------------
(* builder_finalize                                                        *)

Finalize ==
    /\ phase = "worklist" /\ worklist = <<>>
    /\ TakeModule
    /\ phase' = "finalize"
    /\ UNCHANGED <<ir, worklist, status, names, count, current, invokes, next, calls>>

DefineNext ==
    /\ phase = "finalize" /\ next <= Len(funcs)
    /\ IF CanDefine(next)
       THEN Define(next) /\ next' = next + 1 /\ UNCHANGED phase
       ELSE phase' = "error" /\ UNCHANGED <<builderVars, next>>
    /\ UNCHANGED <<ir, worklist, status, names, count, current, invokes, calls>>

\* module.finish(), emit, write; free_builder follows only when all went well.
Finish ==
    /\ phase = "finalize" /\ next > Len(funcs)
    /\ IF FinishPanics THEN phase' = "abort" ELSE phase' \in {"ok", "error"}
    /\ UNCHANGED <<builderVars, ir, worklist, status, names, count, current,
                   invokes, next, calls>>

-----------------------------------------------------------------------------
Compile ==
    \/ NextFunction \/ InvokeSelf \/ BodyDone \/ BodyThrows
    \/ \E callee \in MIs :
          InvokeOther(callee) \/ InvokeWithBadOperand(callee) \/ InvokeSentinel(callee)

Next == Compile \/ Finalize \/ DefineNext \/ Finish

Spec == Init /\ [][Next]_vars

\* One thread runs the compiler and nothing in it waits.
FairSpec == Spec /\ WF_vars(Next)

-----------------------------------------------------------------------------
(* Properties                                                              *)

\* Neither panic of the object module is reached: every call names a declared
\* function, and every function declared Export has a body or a stub when
\* finish() looks, although callees are declared by their callers, may be
\* requested by a statement that is then dropped, and may fail to compile.
NoAbort == phase # "abort"

\* In a finished module every call instruction lands in code compiled from
\* the method instance that was invoked, under the name the caller used,
\* including calls back into the entry, which is renamed after its request.
CallsLand ==
    phase = "ok" =>
        \A c \in calls : \E d \in defined : d.name = c.name /\ d.code = c.callee

\* No two functions share a name and no method instance is compiled twice.
CompiledOnce ==
    \A i, j \in 1 .. Len(funcs) :
        i # j => funcs[i].name # funcs[j].name /\ funcs[i].code # funcs[j].code

\* When the module is finalized nothing that was ever requested is left out,
\* and what counts as compiled is what the module has a function for.
NothingForgotten ==
    phase = "finalize" =>
        \A m \in MIs :
            /\ status[m] # "pending"
            /\ status[m] \in {"compiled", "failed"} <=>
                  \E i \in 1 .. Len(funcs) : funcs[i].code = m

\* The worklist drains: compilation ends with an object file or an error.
Ends == <>(phase \in {"ok", "error", "abort"})
=============================================================================
