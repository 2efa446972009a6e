------------------------------ MODULE Closures ------------------------------
(***************************************************************************)
(* Calls and captured variables in the virtual machine of vm.cc: the value *)
(* stack, the call frames, the closures and their upvalues, and the list   *)
(* of open upvalues that links a closure to a variable still on the stack. *)
(*                                                                         *)
(* One action is the handler of one instruction (a case of VM::run), or    *)
(* of the call of run() for a line of input.  The bytecode itself is any   *)
(* that compiler.cc may emit: an action's operands are chosen among those  *)
(* the compiler could have resolved in a function whose locals are the     *)
(* frame's.  That contract is what the frame's fields `locals', `params'   *)
(* and `captured' record; module Compiler is about the compiler's side.    *)
(*                                                                         *)
(* Values are members of Data or closures, which are numbers: indexes of   *)
(* the sequence `closures'.  Objects are never freed: a collector, where   *)
(* one is linked, is external and takes only what nothing reaches.         *)
(***************************************************************************)
EXTENDS Integers, SequencesExt

CONSTANTS
    Data,          \* the values that are not closures
    NIL,           \* one of them
    Globals,       \* the global variables
    FRAMES_MAX,    \* limit of call frames (vm.hh)
    STACK_MAX,     \* slots of the value stack (vm.hh)
    MaxArity,      \* bound: parameters of a function
    MaxLinks,      \* bound: upvalues of one function
    MaxClosures,   \* bound: closures made in a behaviour
    MaxErrors      \* bound: runtime errors in a behaviour

ASSUME ClosuresAssumption ==
    /\ Data \cap Int = {} /\ NIL \in Data
    /\ FRAMES_MAX \in Nat \ {0} /\ STACK_MAX \in Nat \ {0}
    /\ MaxArity \in Nat /\ MaxLinks \in Nat /\ MaxClosures \in Nat /\ MaxErrors \in Nat

VARIABLES
    stack,         \* the value slots; those from stackTop up keep old values
    stackTop,      \* index of the first free slot
    frames,        \* the CallFrames, innermost last
    closures,      \* the heap's ObjClosures: arity and upvalues
    upvalues,      \* the heap's ObjUpvalues: location and closed value
    openUpvalues,  \* the list of open ObjUpvalues, by index, head first
    linking,       \* the (isLocal, index) pairs the CLOSURE in progress has to read
    globals,       \* the values of the global variables defined so far
    errors         \* runtime errors so far

heap == <<closures, upvalues, openUpvalues, linking>>
vars == <<stack, stackTop, frames, heap, globals, errors>>

CLOSED == -1       \* location of an upvalue that points to its own field
Slot == 0..STACK_MAX - 1
Value == Data \cup Nat

Running == frames # <<>> /\ linking = <<>>     \* between two instructions
Frame == frames[Len(frames)]
LocalsEnd == Frame.slots + Frame.locals      \* where the frame's temporaries begin
Temporaries == stackTop - LocalsEnd
Captures == closures[Frame.closure].upvalues  \* the upvalues of the running closure

(* Only the frame's own bookkeeping changes.                               *)
WithFrame(f) == [frames EXCEPT ![Len(frames)] = f]

-----------------------------------------------------------------------------
(* The value stack.  The code checks no overflow of it (push writes at     *)
(* stackTop whatever it is): Room is a bound of the model.                 *)

Room == stackTop < STACK_MAX
Pushed(v) == [stack EXCEPT ![stackTop] = v]
Top == stack[stackTop - 1]

Push(v) ==
    /\ Running /\ Room
    /\ stack' = Pushed(v)
    /\ stackTop' = stackTop + 1
    /\ UNCHANGED <<frames, heap, globals, errors>>

Constant == \E v \in Data : Push(v)

Pop ==
    /\ Running /\ Temporaries > 0
    /\ stackTop' = stackTop - 1
    /\ UNCHANGED <<stack, frames, heap, globals, errors>>

(* The value on top becomes a local variable: the compiler emits nothing,  *)
(* it only counts the slot from here on (markInitialized).                 *)
DeclareLocal ==
    /\ Running /\ Temporaries = 1
    /\ frames' = WithFrame([Frame EXCEPT !.locals = @ + 1])
    /\ UNCHANGED <<stack, stackTop, heap, globals, errors>>

GetLocal ==
    /\ Running
    /\ \E slot \in 0..Frame.locals - 1 : Push(stack[Frame.slots + slot])

SetLocal ==
    /\ Running /\ Temporaries > 0
    /\ \E slot \in 0..Frame.locals - 1 : stack' = [stack EXCEPT ![Frame.slots + slot] = Top]
    /\ UNCHANGED <<stackTop, frames, heap, globals, errors>>

-----------------------------------------------------------------------------
(* Runtime errors and globals.                                             *)

(* runtimeError: resetStack empties stack, frames and the list; it closes  *)
(* no upvalue.                                                             *)
RuntimeError ==
    /\ errors < MaxErrors
    /\ stackTop' = 0
    /\ frames' = <<>>
    /\ openUpvalues' = <<>>
    /\ errors' = errors + 1
    /\ UNCHANGED <<stack, closures, upvalues, linking, globals>>

(* An instruction of another kind fails: an operand of the wrong type.     *)
Fault == Running /\ RuntimeError

GetGlobal ==
    /\ Running
    /\ \E x \in Globals : IF x \in DOMAIN globals THEN Push(globals[x]) ELSE RuntimeError

(* Only the script has globals to define, outside of its blocks.           *)
DefineGlobal ==
    /\ Running /\ Len(frames) = 1 /\ Frame.locals = Frame.params /\ Temporaries = 1
    /\ \E x \in Globals :
        globals' = [y \in DOMAIN globals \cup {x} |-> IF y = x THEN Top ELSE globals[y]]
    /\ stackTop' = stackTop - 1
    /\ UNCHANGED <<stack, frames, heap, errors>>

(* To assign is to set, and to take back a name that was not there.        *)
SetGlobal ==
    /\ Running /\ Temporaries > 0
    /\ \E x \in Globals :
        IF x \in DOMAIN globals
        THEN /\ globals' = [globals EXCEPT ![x] = Top]
             /\ UNCHANGED <<stack, stackTop, frames, heap, errors>>
        ELSE RuntimeError

-----------------------------------------------------------------------------
(* Upvalues.                                                               *)

(* The loops of captureUpvalue and closeUpvalues walk the list from its    *)
(* head, over the upvalues of slots above a bound.  How many they pass:    *)
Passed(bound) ==
    LET stops == {k \in 0..Len(openUpvalues) :
                    k < Len(openUpvalues) => upvalues[openUpvalues[k + 1]].location <= bound}
    IN  CHOOSE k \in stops : \A j \in stops : k <= j

(* *location of an upvalue.                                                *)
Content(u) == IF upvalues[u].location = CLOSED THEN upvalues[u].closed
              ELSE stack[upvalues[u].location]

GetUpvalue == Running /\ \E k \in 1..Len(Captures) : Push(Content(Captures[k]))

SetUpvalue ==
    /\ Running /\ Temporaries > 0
    /\ \E k \in 1..Len(Captures) :
        LET upvalue == upvalues[Captures[k]] IN
        IF upvalue.location = CLOSED
        THEN /\ upvalues' = [upvalues EXCEPT ![Captures[k]].closed = Top]
             /\ UNCHANGED stack
        ELSE /\ stack' = [stack EXCEPT ![upvalue.location] = Top]
             /\ UNCHANGED upvalues
    /\ UNCHANGED <<stackTop, frames, closures, openUpvalues, linking, globals, errors>>

(* Mutant: the value stays behind.                                         *)
CloseUpvaluesUncopied(last) ==
    LET passed == Passed(last - 1)
        closing == {openUpvalues[k] : k \in 1..passed}
    IN  /\ upvalues' = [u \in 1..Len(upvalues) |->
                          IF u \in closing THEN [upvalues[u] EXCEPT !.location = CLOSED]
                          ELSE upvalues[u]]
        /\ openUpvalues' = SubSeq(openUpvalues, passed + 1, Len(openUpvalues))
        /\ UNCHANGED <<closures, linking>>

(* closeUpvalues(last): the upvalues of slots from last up take the value  *)
(* with them.                                                              *)
CloseUpvalues(last) ==
    LET passed == Passed(last - 1)
        closing == {openUpvalues[k] : k \in 1..passed}
    IN  /\ upvalues' = [u \in 1..Len(upvalues) |->
                          IF u \in closing
                          THEN [location |-> CLOSED, closed |-> stack[upvalues[u].location]]
                          ELSE upvalues[u]]
        /\ openUpvalues' = SubSeq(openUpvalues, passed + 1, Len(openUpvalues))
        /\ UNCHANGED <<closures, linking>>

(* Mutants of the next operator: the new upvalue always goes to the head   *)
(* of the list; what follows it in the list is lost; the search for an     *)
(* upvalue of the same slot is left out.                                   *)
CaptureUpvalueAtHead(local) ==
    LET new == Len(upvalues) + 1
        found == {k \in 1..Len(openUpvalues) : upvalues[openUpvalues[k]].location = local}
    IN  /\ IF found # {}
           THEN UNCHANGED <<upvalues, openUpvalues>>
           ELSE /\ upvalues' = Append(upvalues, [location |-> local, closed |-> NIL])
                /\ openUpvalues' = <<new>> \o openUpvalues
        /\ closures' = [closures EXCEPT ![Len(closures)].upvalues =
                            Append(@, IF found # {} THEN openUpvalues[CHOOSE k \in found : TRUE]
                                      ELSE new)]

CaptureUpvalueLosesTail(local) ==
    LET passed == Passed(local)
        found == passed < Len(openUpvalues)
                 /\ upvalues[openUpvalues[passed + 1]].location = local
        new == Len(upvalues) + 1
    IN  /\ IF found
           THEN UNCHANGED <<upvalues, openUpvalues>>
           ELSE /\ upvalues' = Append(upvalues, [location |-> local, closed |-> NIL])
                /\ openUpvalues' = Append(SubSeq(openUpvalues, 1, passed), new)
        /\ closures' = [closures EXCEPT ![Len(closures)].upvalues =
                            Append(@, IF found THEN openUpvalues[passed + 1] ELSE new)]

CaptureUpvalueAnew(local) ==
    LET new == Len(upvalues) + 1 IN
    /\ upvalues' = Append(upvalues, [location |-> local, closed |-> NIL])
    /\ openUpvalues' = InsertAt(openUpvalues, Passed(local) + 1, new)
    /\ closures' = [closures EXCEPT ![Len(closures)].upvalues = Append(@, new)]

(* captureUpvalue(local) for the closure being made: the open upvalue of   *)
(* that slot, or a new one linked in before the first of a lower slot.     *)
CaptureUpvalue(local) ==
    LET passed == Passed(local)
        found == passed < Len(openUpvalues)
                 /\ upvalues[openUpvalues[passed + 1]].location = local
        new == Len(upvalues) + 1
    IN  /\ IF found
           THEN UNCHANGED <<upvalues, openUpvalues>>
           ELSE /\ upvalues' = Append(upvalues, [location |-> local, closed |-> NIL])
                /\ openUpvalues' = InsertAt(openUpvalues, passed + 1, new)
        /\ closures' = [closures EXCEPT ![Len(closures)].upvalues =
                            Append(@, IF found THEN openUpvalues[passed + 1] ELSE new)]

(* The pairs a CLOSURE may carry in a function with that many locals: what *)
(* addUpvalue has collected, each pair once.  Slot 0 is `this' of a method; *)
(* the script has none.                                                    *)
Links(locals) ==
    LET lowest == IF Len(frames) = 1 THEN 1 ELSE 0
        pairs == [isLocal : {TRUE}, index : lowest..locals - 1] \cup
                 [isLocal : {FALSE}, index : 0..Len(Captures) - 1]
    IN  {links \in UNION {[1..n -> pairs] : n \in 0..MaxLinks} :
            \A i, j \in DOMAIN links : links[i] = links[j] => i = j}

(* CLOSURE up to its loop.  A local function is a local already when it is *)
(* made (funDeclaration), so that it can capture itself.                   *)
MakeClosure ==
    /\ Running /\ Room /\ Len(closures) < MaxClosures
    /\ stack' = Pushed(Len(closures) + 1)
    /\ stackTop' = stackTop + 1
    /\ \E arity \in 0..MaxArity :
        closures' = Append(closures, [arity |-> arity, upvalues |-> <<>>])
    /\ \/ UNCHANGED frames
       \/ /\ Temporaries = 0
          /\ frames' = WithFrame([Frame EXCEPT !.locals = @ + 1])
    /\ linking' \in Links(frames'[Len(frames)].locals)
    /\ UNCHANGED <<upvalues, openUpvalues, globals, errors>>

(* One round of the loop of CLOSURE.                                       *)
Link ==
    /\ linking # <<>>
    /\ LET link == Head(linking)
           local == Frame.slots + link.index
       IN  IF link.isLocal
           THEN /\ CaptureUpvalue(local)
                /\ frames' = WithFrame([Frame EXCEPT !.captured = @ \cup {local}])
           ELSE /\ closures' = [closures EXCEPT ![Len(closures)].upvalues =
                                    Append(@, Captures[link.index + 1])]
                /\ UNCHANGED <<upvalues, openUpvalues, frames>>
    /\ linking' = Tail(linking)
    /\ UNCHANGED <<stack, stackTop, globals, errors>>

(* Mutant: POP for every local.                                            *)
EndLocalPops ==
    /\ Running /\ Temporaries = 0 /\ Frame.locals > Frame.params
    /\ frames' = WithFrame([Frame EXCEPT !.locals = @ - 1, !.captured = @ \ {stackTop - 1}])
    /\ stackTop' = stackTop - 1
    /\ UNCHANGED <<stack, heap, globals, errors>>

(* The end of a block drops its locals one by one (adjust_locals): a       *)
(* captured one by CLOSE_UPVALUE, the others by POP.                       *)
EndLocal ==
    /\ Running /\ Temporaries = 0 /\ Frame.locals > Frame.params
    /\ LET slot == stackTop - 1 IN
        /\ IF slot \in Frame.captured THEN CloseUpvalues(slot) ELSE UNCHANGED heap
        /\ frames' = WithFrame([Frame EXCEPT !.locals = @ - 1, !.captured = @ \ {slot}])
    /\ stackTop' = stackTop - 1
    /\ UNCHANGED <<stack, globals, errors>>

-----------------------------------------------------------------------------
(* Calls.                                                                  *)

NewFrame(closure, slots, n) ==
    [closure |-> closure, slots |-> slots, params |-> n + 1, locals |-> n + 1, captured |-> {}]

(* CALL: callValue and call.  The callee sits below its n arguments.       *)
Call ==
    /\ Running
    /\ \E n \in 0..Temporaries - 1 :
        LET slots == stackTop - n - 1
            callee == stack[slots]
        IN  IF callee \in Data \/ closures[callee].arity # n \/ Len(frames) = FRAMES_MAX
            THEN RuntimeError
            ELSE /\ frames' = Append(frames, NewFrame(callee, slots, n))
                 /\ UNCHANGED <<stack, stackTop, heap, globals, errors>>

(* RETURN from a function: its slots go, its result takes their place.     *)
Return ==
    /\ Running /\ Len(frames) > 1 /\ Temporaries = 1
    /\ CloseUpvalues(Frame.slots)
    /\ frames' = Front(frames)
    /\ stack' = [stack EXCEPT ![Frame.slots] = Top]
    /\ stackTop' = Frame.slots + 1
    /\ UNCHANGED <<globals, errors>>

(* Mutants: the script's closure is not popped; the result is popped twice. *)
EndLineUnpopped ==
    /\ Running /\ Len(frames) = 1 /\ Temporaries = 1 /\ Frame.locals = Frame.params
    /\ CloseUpvalues(Frame.slots)
    /\ frames' = <<>>
    /\ stackTop' = stackTop - 1
    /\ UNCHANGED <<stack, globals, errors>>

EndLinePopsTwice ==
    /\ Running /\ Len(frames) = 1 /\ Temporaries = 1 /\ Frame.locals = Frame.params
    /\ CloseUpvalues(Frame.slots)
    /\ frames' = <<>>
    /\ stackTop' = stackTop - 3
    /\ UNCHANGED <<stack, globals, errors>>

(* RETURN from the script, which the compiler emits at its end only, when  *)
(* no block is open: the closure of the script is popped too.              *)
EndLine ==
    /\ Running /\ Len(frames) = 1 /\ Temporaries = 1 /\ Frame.locals = Frame.params
    /\ CloseUpvalues(Frame.slots)
    /\ frames' = <<>>
    /\ stackTop' = stackTop - 2
    /\ UNCHANGED <<stack, globals, errors>>

(* run(function): the closure of a line of input, called with no argument. *)
StartLine ==
    /\ frames = <<>> /\ Room /\ Len(closures) < MaxClosures
    /\ closures' = Append(closures, [arity |-> 0, upvalues |-> <<>>])
    /\ stack' = Pushed(Len(closures) + 1)
    /\ stackTop' = stackTop + 1
    /\ frames' = <<NewFrame(Len(closures) + 1, stackTop, 0)>>
    /\ UNCHANGED <<upvalues, openUpvalues, linking, globals, errors>>

-----------------------------------------------------------------------------
(* resetStack() of init().                                                 *)
Init ==
    /\ stack = [i \in Slot |-> NIL]
    /\ stackTop = 0
    /\ frames = <<>>
    /\ closures = <<>> /\ upvalues = <<>> /\ openUpvalues = <<>> /\ linking = <<>>
    /\ globals = <<>>
    /\ errors = 0

Next ==
    \/ Constant \/ Pop \/ DeclareLocal \/ EndLocal
    \/ GetLocal \/ SetLocal \/ GetGlobal \/ DefineGlobal \/ SetGlobal
    \/ GetUpvalue \/ SetUpvalue
    \/ MakeClosure \/ Link
    \/ Fault \/ Call \/ Return \/ EndLine \/ StartLine

Spec == Init /\ [][Next]_vars

-----------------------------------------------------------------------------
(* Properties.                                                             *)

Values == Data \cup 1..Len(closures)
Frames == [closure : 1..Len(closures), slots : Slot, params : Nat \ {0}, locals : Nat \ {0},
           captured : SUBSET Slot]
Upvalues == [location : Slot \cup {CLOSED}, closed : Values]
Closure == [arity : Nat, upvalues : Seq(1..Len(upvalues))]

TypeOK ==
    /\ stack \in [Slot -> Values]
    /\ stackTop \in 0..STACK_MAX
    /\ frames \in Seq(Frames)
    /\ closures \in Seq(Closure)
    /\ upvalues \in Seq(Upvalues)
    /\ openUpvalues \in Seq(1..Len(upvalues))
    /\ linking \in Seq([isLocal : BOOLEAN, index : Nat])
    /\ DOMAIN globals \subseteq Globals /\ globals \in [DOMAIN globals -> Values]
    /\ errors \in 0..MaxErrors

(* The windows of the frames follow one another on the stack: each begins  *)
(* above the locals of its caller, and all end below stackTop; with no     *)
(* frame the stack is empty, however the last line ended (call, RETURN).   *)
FramesNested ==
    /\ frames = <<>> => stackTop = 0
    /\ frames # <<>> => LocalsEnd <= stackTop
    /\ \A f, g \in 1..Len(frames) :
        f < g => frames[f].slots + frames[f].locals <= frames[g].slots

(* The list of open upvalues is sorted by slot, highest first, with no     *)
(* slot twice: captureUpvalue and closeUpvalues stop at the first slot     *)
(* that is low enough.                                                     *)
OpenSorted ==
    \A j, k \in 1..Len(openUpvalues) :
        j < k => upvalues[openUpvalues[j]].location > upvalues[openUpvalues[k]].location

(* Every open upvalue points to a local variable that is alive, of a frame *)
(* whose code knows that it is captured (closeUpvalues runs before a slot  *)
(* is given up).                                                           *)
OpenIsCaptured ==
    \A k \in 1..Len(openUpvalues) :
        LET location == upvalues[openUpvalues[k]].location IN
        \E f \in 1..Len(frames) :
            /\ location \in frames[f].captured
            /\ location \in frames[f].slots..frames[f].slots + frames[f].locals - 1

(* As long as no error has emptied the stack, an upvalue is either closed  *)
(* or on the list: none points to a slot that has been given up.           *)
NoDangling ==
    errors = 0 =>
        \A u \in 1..Len(upvalues) :
            upvalues[u].location = CLOSED \/ u \in ToSet(openUpvalues)

(* The frame at the bottom is the script's, on the whole stack.            *)
ScriptFrame ==
    frames # <<>> => frames[1].slots = 0 /\ frames[1].params = 1

(* What a CLOSURE in progress still has to link exists in the function     *)
(* that is running.                                                        *)
LinksExist ==
    linking # <<>> =>
        /\ frames # <<>>
        /\ \A k \in 1..Len(linking) :
            linking[k].index < IF linking[k].isLocal THEN Frame.locals ELSE Len(Captures)

(* Inductive: no action leads out of it.                                   *)
Inv ==
    /\ TypeOK /\ FramesNested /\ ScriptFrame /\ LinksExist
    /\ OpenSorted /\ OpenIsCaptured /\ NoDangling

(* What xtest/closure expects of a closure in a global variable: it may be *)
(* called after its variables' function is over, and as globals survive a  *)
(* runtime error, also in a later line: its upvalues are closed or open.   *)
CapturesSurvive ==
    \A x \in DOMAIN globals : globals[x] \notin Data =>
        \A u \in ToSet(closures[globals[x]].upvalues) :
            upvalues[u].location = CLOSED \/ u \in ToSet(openUpvalues)

=============================================================================
