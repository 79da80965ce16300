----------------------------- MODULE EvalMemory -----------------------------
(***************************************************************************)
(* Who owns the buffers while EvalStreams runs.  The user's handles, the   *)
(* graph, the evaluating thread and the tasks on the queues all hold       *)
(* references; a buffer goes back to the allocator with the last one, and  *)
(* an output may take over (donation) the buffer of an input that nobody   *)
(* else refers to.  Kernels are queued with raw pointers and run later, on *)
(* another thread: no reference may be given up too early.                 *)
(***************************************************************************)
EXTENDS EvalStreams

CONSTANTS InPlace,  \* arrays whose kernel may write over one of its inputs
          Kept      \* the sets of arrays the user may have handles to at first

(* An array is made from arrays that exist: among any arrays there is one   *)
(* that no other of them was made from.                                     *)
ASSUME MemoryAssumption ==
    /\ InPlace \subseteq Arrays \ (Leaves \cup Views)
    /\ Kept \subseteq SUBSET Arrays
    /\ \A v \in Views : Inputs[v] # <<>> /\ Outputs[v] \subseteq Views
    /\ IsFiniteSet(Arrays) /\ IsFiniteSet(Streams)
    /\ \A S \in (SUBSET Arrays) \ {{}} : \E a \in S : \A c \in S :
          Parents(c) \cap Outputs[a] = {}

(* Buffers are numbered in the order std::malloc first returns them. *)
Buffers == 1..Cardinality(Arrays)
NoBuffer == 0

VARIABLES held,     \* the arrays the user has a handle to
          buf,      \* array_desc_->data: the buffer an array was given
          outsOf,   \* outputs of each eval, for the release of its Synchronizer
          contents  \* whose data a buffer holds

memVars == <<held, buf, outsOf, contents>>

(* The array whose data a shares: itself, unless it is a view. *)
Origin[a \in Arrays] == IF a \in Views THEN Origin[Inputs[a][1]] ELSE a

-----------------------------------------------------------------------------
(* References to array descriptions *)

Occurrences(q, x) == Cardinality({i \in DOMAIN q : q[i] = x})

Evaluating == pc \in {"tape", "inputs", "retain", "check", "throttled", "recheck", "fence"}

(* The Synchronizer has its inputs until it is detached itself. *)
SyncInputs == IF Evaluating /\ ~(arr = Sync /\ pc = "fence") THEN outs ELSE <<>>

(* The local variable of the run loop. *)
Current == IF Evaluating /\ pc # "tape" /\ arr # Sync THEN {arr} ELSE {}

(* The arrays that some reference reaches.  Those not evaluated yet refer   *)
(* to their inputs and siblings; array::detach clears both.                 *)
Live ==
    LET roots  == held \cup SeqRange(SyncInputs) \cup Current
        needed == Needed(roots)
    IN  roots \cup needed \cup UNION {Parents(a) : a \in needed}

(* array_desc_.use_count() of an evaluated array that is not the current   *)
(* one, where L is Live.                                                    *)
DescRefs(L, x) ==
    Occurrences(SyncInputs, x) + Cardinality({h \in held : h = x})
    + Cardinality(UNION {{<<c, i>> : i \in {j \in DOMAIN Inputs[c] : Inputs[c][j] = x}} :
                         c \in L \cap Unscheduled})

-----------------------------------------------------------------------------
(* References to buffers *)

RetainedInputsOnly(a) == {buf[x] : x \in Parents(a)} \ {buf[a]}

(* cpu::eval: the buffers of the inputs and siblings, but not a's own,      *)
(* which an input may have donated.                                         *)
Retained(a) == {buf[x] : x \in Parents(a) \cup Outputs[a]} \ {buf[a]}

(* What the release task t holds. *)
RetainedBy(t) ==
    IF t.arr = Sync THEN {buf[x] : x \in SeqRange(outsOf[t.eval])}
                    ELSE Retained(t.arr)

PendingOf(kind) ==
    UNION {{<<s, k>> : k \in {j \in (pos[s] + 1)..Length(s) : log[s][j].kind = kind}} :
           s \in Streams}

Retainers(b) ==
    {p \in PendingOf("release") : b \in RetainedBy(log[p[1]][p[2]])}

SharingAmong(L, b) == {a \in L : buf[a] = b}

(* data.use_count() *)
DataRefs(L, b) == Cardinality(SharingAmong(L, b)) + Cardinality(Retainers(b))

InUse(L) ==
    ({buf[a] : a \in L} \ {NoBuffer})
    \cup UNION {RetainedBy(log[p[1]][p[2]]) : p \in PendingOf("release")}

DonatableWhateverData(L, x) == DescRefs(L, x) = 1

DonatableWhateverHandles(L, x) == DataRefs(L, buf[x]) = 1

(* array::is_donatable *)
Donatable(L, x) == DescRefs(L, x) = 1 /\ DataRefs(L, buf[x]) = 1

-----------------------------------------------------------------------------
MemInit ==
    /\ Init
    /\ held \in Kept
    /\ buf \in [Arrays -> 0..Cardinality(Leaves)]
    /\ \A a \in Arrays : buf[a] = NoBuffer <=> a \notin Leaves
    /\ \A a, b \in Leaves : buf[a] = buf[b] => a = b
    /\ outsOf = [e \in Evals |-> <<>>]
    /\ contents = [b \in Buffers |-> {a \in Leaves : buf[a] = b}]

(* The user asks for arrays it has. *)
MemBeginEval(O, i, isAsync) ==
    /\ SeqRange(O) \subseteq held
    /\ BeginEval(O, i, isAsync)
    /\ outsOf' = [outsOf EXCEPT ![cur + 1] = O]
    /\ UNCHANGED <<held, buf, contents>>

(* What is on the tape was reached from a consumer still on it, and stands  *)
(* for its siblings.                                                        *)
MemTakeArray(a) ==
    /\ a # Sync => \/ a \in SeqRange(outs)
                   \/ \E c \in todo : a \in Parents(c)
    /\ TakeArray(a)
    /\ UNCHANGED memVars

(* Primitive::eval_cpu gives every output a buffer: a view shares that of   *)
(* its input; a kernel that may work in place takes the one of a donatable  *)
(* input, if the sizes fit; any other output is allocated, in memory that   *)
(* was given back or in new memory, which gets the next number.             *)
Placements(a) ==
    LET L       == Live
        known   == {buf[x] : x \in Arrays} \ {NoBuffer}
        donated == {buf[x] : x \in {y \in Parents(a) : a \in InPlace /\ Donatable(L, y)}}
        usable  == donated \cup (Buffers \ InUse(L))
    IN  IF a \in Views
        THEN {[o \in Outputs[a] |-> buf[Inputs[a][1]]]}
        ELSE {f \in [Outputs[a] -> usable] :
                 LET after == known \cup {f[o] : o \in Outputs[a]}
                 IN  /\ \A o, p \in Outputs[a] : f[o] = f[p] => o = p
                     /\ after = 1..Cardinality(after)}

MemEvalKernel ==
    /\ EvalKernel
    /\ IF arr = Sync THEN UNCHANGED buf
       ELSE \E f \in Placements(arr) :
               buf' = [a \in Arrays |-> IF a \in Outputs[arr] THEN f[a] ELSE buf[a]]
    /\ UNCHANGED <<held, outsOf, contents>>

(* A handle goes out of scope, between calls or, on another thread of the   *)
(* user, while eval runs.                                                   *)
Drop(a) ==
    /\ a \in held
    /\ held' = held \ {a}
    /\ UNCHANGED <<buf, outsOf, contents, vars>>

(* A kernel writes its outputs. *)
MemRun(s) ==
    /\ Run(s)
    /\ contents' = IF HeadTask(s).kind = "kernel"
                   THEN [b \in Buffers |->
                          LET written == SharingAmong(Outputs[HeadTask(s).arr], b)
                          IN  IF written = {} THEN contents[b] ELSE written]
                   ELSE contents
    /\ UNCHANGED <<held, buf, outsOf>>

MemCaller ==
    \/ \E a \in Arrays \cup {Sync} : MemTakeArray(a)
    \/ MemEvalKernel
    \/ /\ \/ WaitInput \/ Throw \/ Retain
          \/ \E overLimit \in BOOLEAN : Throttle(overLimit) \/ MarkEvaluated(overLimit)
          \/ WaitForOne \/ NextArray \/ EndEval \/ ReturnWait
          \/ \E b \in Arrays : UpdateFence(b)
          \/ \E s \in Streams : SignalEvent(s)
       /\ UNCHANGED memVars

(* The user waits for, or looks at, arrays that it has.  synchronize, which *)
(* names a stream and no array, is left to EvalStreams.                     *)
MemUser ==
    \/ \E O \in Requests, isAsync \in BOOLEAN :
         \E i \in DOMAIN O : MemBeginEval(O, i, isAsync)
    \/ \E a \in held : (IsAvailable(a) \/ CallWait(a)) /\ UNCHANGED memVars
    \/ \E a \in Arrays : Drop(a)

MemNext ==
    \/ MemCaller \/ MemUser \/ \E s \in Streams : MemRun(s)
    \/ Quiescent /\ UNCHANGED memVars

MemSpec == MemInit /\ [][MemNext]_<<vars, memVars>>

-----------------------------------------------------------------------------
(* Properties *)

(* The data of a's origin is in the buffer of a. *)
Intact(a) == Origin[a] \in contents[buf[a]]

(* When a worker is about to run a kernel, every input still holds the data *)
(* it was computed with: no donation or reuse of its buffer came first,     *)
(* whatever streams the reader and the writer are on.                       *)
InputsIntact ==
    \A s \in Streams :
        Pending(s) /\ HeadTask(s).kind = "kernel" =>
            \A x \in Parents(HeadTask(s).arr) : Intact(x)

(* An array that the user has, and is told is available, holds its data:    *)
(* neither donation nor a kernel that was late has written over it.         *)
HeldIntact ==
    \A a \in held :
        pc = "idle" /\ status[a] # "unscheduled" /\ Ready(a) => Intact(a)

(* As long as a kernel is on a queue, every buffer it reads or writes is    *)
(* referred to by an array or by a release task: it is neither freed nor    *)
(* given to another array.                                                  *)
KernelsOwnBuffers ==
    LET owned == InUse(Live)
    IN  \A p \in PendingOf("kernel") :
            LET a == log[p[1]][p[2]].arr
            IN  {buf[x] : x \in Parents(a) \cup Outputs[a]} \subseteq owned
=============================================================================
