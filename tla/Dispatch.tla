------------------------------ MODULE Dispatch ------------------------------
(***************************************************************************)
(* Classes, instances and methods in the virtual machine of vm.cc: what a  *)
(* call calls, how a property is found, and how a class inherits.          *)
(*                                                                         *)
(* One action is the handler of one instruction.  A handler that calls     *)
(* others of the VM's functions is built from operators with their names,  *)
(* which take a machine and give the machine that they leave.  As in       *)
(* module Closures the bytecode is any that compiler.cc may emit; the      *)
(* instructions of a class declaration come one after the other, in the    *)
(* order of classDeclaration, with nothing of the program's between them.  *)
(*                                                                         *)
(* Upvalues are left to Closures and the tables to HashTable: here a table *)
(* is a function from names, to None where there is no entry, and `super'  *)
(* is what the class's methods captured.                                   *)
(***************************************************************************)
EXTENDS Integers, SequencesExt

CONSTANTS
    Names,         \* names of properties
    initString,    \* one of them, "init"
    FUN,           \* the name of the functions that are no methods
    Arity,         \* the parameters of methods and functions, by name
    Globals,       \* global variables; one holds class Object
    OBJECT,        \* that one
    CLOCK,         \* the one that holds a native function
    FRAMES_MAX,    \* limit of call frames (vm.hh)
    STACK_MAX,     \* bound: values on the stack
    MaxTemporaries,\* bound: temporary values of one frame
    MaxClasses,    \* bound: classes, with Object
    MaxMethods,    \* bound: methods of all the classes together
    MaxInstances,  \* bound: instances made by one statement
    MaxFields,     \* bound: fields of all the instances together
    FunctionNames  \* bound: the globals that functions are declared as

ASSUME DispatchAssumption ==
    /\ initString \in Names /\ FUN \notin Names
    /\ Arity \in [Names \cup {FUN} -> Nat]
    /\ {OBJECT, CLOCK} \subseteq Globals /\ OBJECT # CLOCK
    /\ FRAMES_MAX \in Nat \ {0} /\ MaxTemporaries \in Nat
    /\ MaxClasses \in Nat \ {0} /\ MaxMethods \in Nat
    /\ MaxInstances \in Nat /\ MaxFields \in Nat
    /\ FunctionNames \subseteq Globals

VARIABLES
    stack,         \* the values up to stackTop
    frames,        \* the CallFrames, innermost last
    classes,       \* the heap's ObjClasses: methods, and what their methods know
    instances,     \* the heap's ObjInstances: class and fields
    globals,       \* the values of the global variables
    declaration    \* the class declaration in progress, and its next instruction

vars == <<stack, frames, classes, instances, globals, declaration>>

-----------------------------------------------------------------------------
(* Values and objects.                                                     *)

Nil == [kind |-> "nil"]
Native == [kind |-> "native"]
ClassValue(c) == [kind |-> "class", class |-> c]
Instance(i) == [kind |-> "instance", instance |-> i]
Bound(receiver, method) == [kind |-> "bound", receiver |-> receiver, method |-> method]

(* A method is known by the class that declares it; 0 is none.             *)
Closure(method) == [kind |-> "closure", method |-> method]
Function == [class |-> 0, name |-> FUN]
Script == [class |-> 0, name |-> "script"]

(* Tables.                                                                 *)
None == [kind |-> "none"]
Empty == [x \in Names |-> None]
Has(table, name) == table[name] # None

(* ObjClass.  `super' is the value of the local variable of that name that *)
(* the methods capture; `declares' records the methods of the class body.  *)
NewClass == [methods |-> Empty, super |-> 0, declares |-> {}]

(* Mutant: a name that is there keeps its value.                           *)
WithUnlessThere(table, name, value) ==
    IF Has(table, name) THEN table ELSE [table EXCEPT ![name] = value]

With(table, name, value) == [table EXCEPT ![name] = value]

(* addAll.                                                                 *)
WithAll(table, from) == [x \in Names |-> IF Has(from, x) THEN from[x] ELSE table[x]]

-----------------------------------------------------------------------------
(* The functions of the VM, each as what it makes of a machine.            *)

Machine == [ok |-> TRUE, stack |-> stack, frames |-> frames, instances |-> instances]

(* runtimeError, and the `return false' after it.                          *)
Failure(m) == [m EXCEPT !.ok = FALSE, !.stack = <<>>, !.frames = <<>>]

Peek(m, distance) == m.stack[Len(m.stack) - distance]
Push(m, v) == [m EXCEPT !.stack = Append(@, v)]
Pop(m, n) == [m EXCEPT !.stack = SubSeq(@, 1, Len(@) - n)]
Put(m, distance, v) == [m EXCEPT !.stack[Len(m.stack) - distance] = v]

Parameters(method) == IF method = Script THEN 0 ELSE Arity[method.name]

(* `height' is the frame's height on the stack as the compiler reckons it, *)
(* `made' the instance that the call is to initialize.                     *)
NewFrame(method, slots) ==
    [method |-> method, slots |-> slots, height |-> Parameters(method) + 1, made |-> 0]

AfterCall(m, method, n) ==
    IF n # Parameters(method) \/ Len(m.frames) = FRAMES_MAX THEN Failure(m)
    ELSE [m EXCEPT !.frames = Append(@, NewFrame(method, Len(m.stack) - n))]

(* callValue for a class: an instance takes the place of the class.        *)
AfterMake(m, c, n) ==
    [Put(m, n, Instance(Len(m.instances) + 1)) EXCEPT
        !.instances = Append(@, [class |-> c, fields |-> Empty])]

AfterCallClass(m, c, n) ==
    LET methods == classes[c].methods
        made == AfterMake(m, c, n)
        called == AfterCall(made, methods[initString], n)
    IN  IF Has(methods, initString)
        THEN IF called.ok
             THEN [called EXCEPT !.frames[Len(called.frames)].made = Len(made.instances)]
             ELSE called
        ELSE IF n = 0 THEN made ELSE Failure(made)

(* Mutant: a bound method is called without its receiver.                  *)
AfterCallValueUnbound(m, callee, n) ==
    CASE callee.kind = "bound" -> AfterCall(m, callee.method, n)
      [] callee.kind = "class" -> AfterCallClass(m, callee.class, n)
      [] callee.kind = "closure" -> AfterCall(m, callee.method, n)
      [] callee.kind = "native" -> Push(Pop(m, n + 1), Nil)
      [] OTHER -> Failure(m)

(* Mutant: a native function's arguments are popped, itself is not.        *)
AfterCallValueUnpopped(m, callee, n) ==
    CASE callee.kind = "bound" -> AfterCall(Put(m, n, callee.receiver), callee.method, n)
      [] callee.kind = "class" -> AfterCallClass(m, callee.class, n)
      [] callee.kind = "closure" -> AfterCall(m, callee.method, n)
      [] callee.kind = "native" -> Push(Pop(m, n), Nil)
      [] OTHER -> Failure(m)

(* A native function returns some value that cannot be called: nil.        *)
AfterCallValue(m, callee, n) ==
    CASE callee.kind = "bound" -> AfterCall(Put(m, n, callee.receiver), callee.method, n)
      [] callee.kind = "class" -> AfterCallClass(m, callee.class, n)
      [] callee.kind = "closure" -> AfterCall(m, callee.method, n)
      [] callee.kind = "native" -> Push(Pop(m, n + 1), Nil)
      [] OTHER -> Failure(m)

AfterInvokeFromClass(m, c, name, n) ==
    IF Has(classes[c].methods, name)
    THEN AfterCall(m, classes[c].methods[name], n)
    ELSE Failure(m)

(* Mutant: methods come before fields.                                     *)
AfterInvokeMethodsFirst(m, name, n) ==
    IF Peek(m, n).kind # "instance" THEN Failure(m)
    ELSE LET instance == m.instances[Peek(m, n).instance] IN
         IF Has(instance.fields, name) /\ ~Has(classes[instance.class].methods, name)
         THEN AfterCallValue(Put(m, n, instance.fields[name]), instance.fields[name], n)
         ELSE AfterInvokeFromClass(m, instance.class, name, n)

AfterInvoke(m, name, n) ==
    IF Peek(m, n).kind # "instance" THEN Failure(m)
    ELSE LET instance == m.instances[Peek(m, n).instance] IN
         IF Has(instance.fields, name)
         THEN AfterCallValue(Put(m, n, instance.fields[name]), instance.fields[name], n)
         ELSE AfterInvokeFromClass(m, instance.class, name, n)

AfterBindMethod(m, c, name) ==
    IF Has(classes[c].methods, name)
    THEN Push(Pop(m, 1), Bound(Peek(m, 0), classes[c].methods[name]))
    ELSE Failure(m)

(* The handlers of the instructions of these names.                        *)
AfterGetProperty(m, name) ==
    IF Peek(m, 0).kind # "instance" THEN Failure(m)
    ELSE LET instance == m.instances[Peek(m, 0).instance] IN
         IF Has(instance.fields, name)
         THEN Push(Pop(m, 1), instance.fields[name])
         ELSE AfterBindMethod(m, instance.class, name)

AfterSetProperty(m, name) ==
    IF Peek(m, 1).kind # "instance" THEN Failure(m)
    ELSE [Push(Pop(m, 2), Peek(m, 0)) EXCEPT
            !.instances[Peek(m, 1).instance].fields = With(@, name, Peek(m, 0))]

(* Mutant: the superclass is taken from the stack after the binding.       *)
AfterGetSuperUnpopped(m, name) == AfterBindMethod(m, Peek(m, 0).class, name)
AfterGetSuper(m, name) == AfterBindMethod(Pop(m, 1), Peek(m, 0).class, name)
AfterSuperInvoke(m, name, n) == AfterInvokeFromClass(Pop(m, 1), Peek(m, 0).class, name, n)

-----------------------------------------------------------------------------
(* Instructions.                                                           *)

NoDeclaration == [next |-> "none"]

(* The temporary values of m's innermost frame.                            *)
Height(m) ==
    IF m.frames = <<>> THEN 0
    ELSE Len(m.stack) - (Last(m.frames).slots + Parameters(Last(m.frames).method))

Frame == frames[Len(frames)]
Running == frames # <<>> /\ declaration = NoDeclaration
Temporaries == Height(Machine)
Arguments == 0..Temporaries - 1
InMethod == Frame.method.class # 0
AtStatement == Running /\ Len(frames) = 1 /\ Temporaries = 0

(* Nothing of the last statement is reached by the next: only classes and  *)
(* functions go into global variables here.                                *)
Reached(m) == IF Len(m.stack) <= 1 THEN <<>> ELSE m.instances

(* The machine becomes m, by instructions that raise the stack by `effect' *)
(* as the compiler reckons: the frame that they are in keeps its account.  *)
Becomes(m, effect) ==
    /\ Height(m) <= MaxTemporaries /\ Len(m.stack) <= STACK_MAX
    /\ Len(m.instances) <= MaxInstances
    /\ stack' = m.stack
    /\ instances' = Reached(m)
    /\ frames' = IF m.ok THEN [m.frames EXCEPT ![Len(frames)].height = @ + effect] ELSE <<>>

Execute(m, effect) == Running /\ Becomes(m, effect) /\ UNCHANGED <<classes, globals, declaration>>

PopValue == Running /\ Temporaries > 0 /\ Execute(Pop(Machine, 1), -1)

GetGlobal == \E x \in Globals : Execute(Push(Machine, globals[x]), 1)

(* `this' and the parameters.                                              *)
GetLocal ==
    /\ Running
    /\ \E slot \in 0..Parameters(Frame.method) :
        /\ slot > 0 \/ InMethod
        /\ Execute(Push(Machine, stack[Frame.slots + slot]), 1)

GetProperty ==
    /\ Running /\ Temporaries > 0
    /\ \E name \in Names : Execute(AfterGetProperty(Machine, name), 0)

SetProperty ==
    /\ Running /\ Temporaries > 1
    /\ \E name \in Names : Execute(AfterSetProperty(Machine, name), -1)
    /\ Cardinality({p \in (1..Len(instances')) \X Names : Has(instances'[p[1]].fields, p[2])}) <= MaxFields

Call ==
    /\ Running
    /\ \E n \in Arguments : Execute(AfterCallValue(Machine, Peek(Machine, n), n), -n)

Invoke ==
    /\ Running
    /\ \E n \in Arguments, name \in Names : Execute(AfterInvoke(Machine, name, n), -n)

(* The compiler pushes `this' and the arguments, then `super', and the     *)
(* instruction follows at once.                                            *)
MaySuper == Running /\ InMethod /\ classes[Frame.method.class].super # 0
WithSuper(m) == Push(m, ClassValue(classes[Frame.method.class].super))
This == stack[Frame.slots]

GetSuper ==
    /\ MaySuper /\ Temporaries > 0 /\ Peek(Machine, 0) = This
    /\ \E name \in Names : Execute(AfterGetSuper(WithSuper(Machine), name), 0)

SuperInvoke ==
    /\ MaySuper
    /\ \E n \in Arguments, name \in Names :
        /\ Peek(Machine, n) = This
        /\ Execute(AfterSuperInvoke(WithSuper(Machine), name, n), 1 - (n + 1))

(* What a function returns: what emitReturn pushes, where it ends or has   *)
(* no value to return, or the value of a return statement.                 *)
IsInitializer(f) == f.class # 0 /\ f.name = initString

(* Mutant: initializers return like other functions.                       *)
ReturnValuesAlike ==
    IF Temporaries = 0 THEN {Nil}
    ELSE IF Temporaries = 1 /\ Len(frames) > 1 THEN {Peek(Machine, 0)} ELSE {}

ReturnValues ==
    IF Temporaries = 0 THEN {IF IsInitializer(Frame.method) THEN This ELSE Nil}
    ELSE IF Temporaries = 1 /\ Len(frames) > 1 /\ ~IsInitializer(Frame.method)
    THEN {Peek(Machine, 0)} ELSE {}

Return ==
    /\ Running
    /\ \E v \in ReturnValues :
        stack' = IF Len(frames) = 1 THEN <<>> ELSE Append(SubSeq(stack, 1, Frame.slots - 1), v)
    /\ frames' = Front(frames)
    /\ instances' = IF Len(frames) = 1 THEN <<>> ELSE instances
    /\ UNCHANGED <<classes, globals, declaration>>

(* run(function).                                                          *)
StartLine ==
    /\ frames = <<>>
    /\ stack' = <<Closure(Script)>>
    /\ frames' = <<NewFrame(Script, 1)>>
    /\ UNCHANGED <<classes, instances, globals, declaration>>

(* A function is declared: CLOSURE and DEFINE_GLOBAL.                      *)
DeclareFunction ==
    /\ AtStatement
    /\ \E x \in FunctionNames : globals' = [globals EXCEPT ![x] = Closure(Function)]
    /\ UNCHANGED <<stack, frames, classes, instances, declaration>>

-----------------------------------------------------------------------------
(* Declarations of classes.                                                *)

(* The next instruction of the declaration is executed.                    *)
Declare(m, effect, next) ==
    /\ Becomes(m, effect)
    /\ declaration' = IF m.ok THEN [declaration EXCEPT !.next = next] ELSE NoDeclaration

Class ==
    /\ AtStatement /\ Len(classes) < MaxClasses
    /\ Becomes(Push(Machine, ClassValue(Len(classes) + 1)), 1)
    /\ classes' = Append(classes, NewClass)
    /\ \E x \in Globals : declaration' = [next |-> "define", name |-> x]
    /\ UNCHANGED globals

DefineClass ==
    /\ declaration.next = "define"
    /\ globals' = [globals EXCEPT ![declaration.name] = Peek(Machine, 0)]
    /\ Declare(Pop(Machine, 1), -1, "extend")
    /\ UNCHANGED classes

(* The superclass becomes the local variable `super'.                      *)
GetSuperclass ==
    /\ declaration.next = "extend"
    /\ \E x \in Globals \ {declaration.name} : Declare(Push(Machine, globals[x]), 1, "load")
    /\ UNCHANGED <<classes, globals>>

GetClass ==
    /\ declaration.next \in {"extend", "load", "reload"}
    /\ Declare(Push(Machine, globals[declaration.name]), 1,
               IF declaration.next = "load" THEN "inherit" ELSE "methods")
    /\ UNCHANGED <<classes, globals>>

Inherit ==
    /\ declaration.next = "inherit"
    /\ LET superclass == Peek(Machine, 1)
           subclass == Peek(Machine, 0).class
       IN  IF superclass.kind # "class"
           THEN Declare(Failure(Machine), 0, "none") /\ UNCHANGED classes
           ELSE /\ classes' = [classes EXCEPT
                        ![subclass].methods = WithAll(@, classes[superclass.class].methods),
                        ![subclass].super = superclass.class]
                /\ Declare(Pop(Machine, 1), -1, "reload")
    /\ UNCHANGED globals

(* CLOSURE and METHOD, for one method of the class.                        *)
Method ==
    /\ declaration.next = "methods"
    /\ \E name \in Names :
        LET c == Peek(Machine, 0).class IN
        classes' = [classes EXCEPT
            ![c].methods = With(@, name, [class |-> c, name |-> name]),
            ![c].declares = @ \cup {name}]
    /\ Cardinality(UNION {{c} \X classes'[c].declares : c \in DOMAIN classes'}) <= MaxMethods
    /\ UNCHANGED <<stack, frames, instances, globals, declaration>>

(* The class is popped, and `super' with its scope.                        *)
EndClass ==
    /\ declaration.next = "methods"
    /\ \E n \in {IF classes[Peek(Machine, 0).class].super = 0 THEN 1 ELSE 2} :
        Becomes(Pop(Machine, n), -n)
    /\ declaration' = NoDeclaration
    /\ UNCHANGED <<classes, globals>>

-----------------------------------------------------------------------------
(* init(): class Object and the native functions are defined.              *)
Init ==
    /\ stack = <<>> /\ frames = <<>> /\ instances = <<>>
    /\ classes = <<NewClass>>
    /\ globals \in {[x \in Globals |-> IF x = OBJECT THEN ClassValue(1) ELSE Native]}
    /\ declaration = NoDeclaration

Next ==
    \/ PopValue \/ GetGlobal \/ GetLocal
    \/ GetProperty \/ SetProperty \/ GetSuper
    \/ Call \/ Invoke \/ SuperInvoke \/ Return \/ StartLine
    \/ DeclareFunction
    \/ Class \/ DefineClass \/ GetSuperclass \/ GetClass \/ Inherit \/ Method \/ EndClass

Spec == Init /\ [][Next]_vars

-----------------------------------------------------------------------------
(* Properties.                                                             *)

Methods == [class : Nat \ {0}, name : Names]
Callables == Methods \cup {Function, Script}

InstanceValues == [kind : {"instance"}, instance : Nat]
Values ==
    {Nil, Native} \cup InstanceValues
    \cup [kind : {"class"}, class : Nat]
    \cup [kind : {"closure"}, method : {Function, Script}]
    \cup [kind : {"bound"}, receiver : InstanceValues, method : Methods]

Tables(S) == [Names -> S \cup {None}]
CallFrames == [method : Callables, slots : Nat, height : Nat, made : Nat]
Classes == [methods : Tables(Methods), super : Nat, declares : SUBSET Names]
Instances == [class : Nat, fields : Tables(Values)]
Machines ==
    [ok : BOOLEAN, stack : Seq(Values), frames : Seq(CallFrames), instances : Seq(Instances)]

(* A value names what there is in m.                                       *)
Exists(v, m) ==
    /\ v.kind = "class" => v.class \in DOMAIN classes
    /\ v.kind = "instance" => v.instance \in DOMAIN m.instances
    /\ v.kind = "bound" => v.receiver.instance \in DOMAIN m.instances

(* Types, and that no value names a class or an instance that is not there. *)
TypeOK ==
    /\ Machine \in Machines
    /\ classes \in Seq(Classes) /\ \A c \in DOMAIN classes : classes[c].super < c
    /\ globals \in [Globals -> Values]
    /\ declaration \in
        {NoDeclaration} \cup
        [next : {"define", "extend", "load", "inherit", "reload", "methods"}, name : Globals]
    /\ \A v \in Range(stack) \cup Range(globals) : Exists(v, Machine)
    /\ \A i \in DOMAIN instances :
        /\ instances[i].class \in DOMAIN classes
        /\ \A v \in Range(instances[i].fields) : Exists(v, Machine)

(* A class and those above it: what every set has that holds the class and *)
(* the superclasses of its classes.                                        *)
Closed(S) == \A c \in S : classes[c].super \in S \cup {0}
Ancestors(c) == {a \in DOMAIN classes : \A S \in SUBSET DOMAIN classes : c \in S /\ Closed(S) => a \in S}

(* The tables of methods that INHERIT copies and METHOD extends say what   *)
(* the chain of superclasses says: a name means the method of the nearest  *)
(* class above that declares it, whatever was redefined or failed since.   *)
Declaring(c, name) == {a \in Ancestors(c) : name \in classes[a].declares}

MethodsAreInherited ==
    \A c \in DOMAIN classes, name \in Names :
        /\ Has(classes[c].methods, name) <=> Declaring(c, name) # {}
        /\ Has(classes[c].methods, name) =>
            \E a \in Declaring(c, name) :
                /\ \A b \in Declaring(c, name) : b <= a
                /\ classes[c].methods[name] = [class |-> a, name |-> name]

(* The value is an instance of the method's class, or of one below it.     *)
Receives(v, method, m) ==
    v.kind = "instance" /\ method.class \in Ancestors(m.instances[v.instance].class)

(* A method runs with a `this' of its own class, whichever way it was      *)
(* called: by name, through super, as a bound method kept in a field, or   *)
(* to initialize; and what is bound to a method is of the method's class.  *)
ThisBelongs ==
    /\ \A f \in Range(frames) : f.method.class # 0 => Receives(stack[f.slots], f.method, Machine)
    /\ \A v \in Range(stack) \cup UNION {Range(i.fields) : i \in Range(instances)} :
        v.kind = "bound" => Receives(v.receiver, v.method, Machine)

(* INVOKE and SUPER_INVOKE do what the two instructions do that they stand *)
(* for, GET_PROPERTY or GET_SUPER before the arguments, and CALL.          *)
Sequence(m, got, n) ==
    IF got.ok THEN AfterCallValue(Put(m, n, Peek(got, 0)), Peek(got, 0), n) ELSE got

InvokeIsGetAndCall ==
    Running => \A n \in Arguments, name \in Names :
        LET before == Pop(Machine, n) IN
        /\ AfterInvoke(Machine, name, n) = Sequence(Machine, AfterGetProperty(before, name), n)
        /\ MaySuper /\ Peek(Machine, n) = This =>
            AfterSuperInvoke(WithSuper(Machine), name, n) =
                Sequence(Machine, AfterGetSuper(WithSuper(before), name), n)

(* The stack is as high as the compiler reckons, in every frame, so that   *)
(* locals are where the code of the frame looks for them: a call leaves    *)
(* one value in place of the callee and its arguments.                     *)
HeightsMatch ==
    /\ frames = <<>> => stack = <<>>
    /\ frames # <<>> => Len(stack) = Frame.slots + Frame.height - 1
    /\ \A f \in 1..Len(frames) - 1 :
        frames[f + 1].slots = frames[f].slots + frames[f].height - 1

(* The call of a class that has an initializer yields the instance made    *)
(* for it, of that class.                                                  *)
ConstructorsYieldTheirInstance ==
    [][Len(frames) > 1 /\ frames' = Front(frames) /\ Frame.made # 0 =>
        Peek([stack |-> stack'], 0) = Instance(Frame.made)]_vars

-----------------------------------------------------------------------------
(* The inductive invariant (DispatchProofs).                               *)

Types ==
    /\ Machine \in Machines
    /\ classes \in Seq(Classes)
    /\ globals \in [Globals -> Values]
    /\ declaration \in
        {NoDeclaration} \cup
        [next : {"define", "extend", "load", "inherit", "reload", "methods"}, name : Globals]

(* A value names what there is, and a bound method belongs to its receiver. *)
Sound(v, m) ==
    Exists(v, m) /\ (v.kind = "bound" => Receives(v.receiver, v.method, m))

Objects(m) ==
    \A i \in DOMAIN m.instances :
        /\ m.instances[i].class \in DOMAIN classes
        /\ \A x \in Names : Sound(m.instances[i].fields[x], m)

(* A frame has its callee, `this' or not, and its parameters on the stack. *)
FrameHolds(f, m) ==
    /\ f.slots \in 1..Len(m.stack) /\ f.slots + Parameters(f.method) <= Len(m.stack)
    /\ f.method.class # 0 => Receives(m.stack[f.slots], f.method, m)
    /\ f.made # 0 => IsInitializer(f.method) /\ m.stack[f.slots] = Instance(f.made)

FramesHold ==
    /\ \A f \in DOMAIN frames : FrameHolds(frames[f], Machine)
    /\ \A f, g \in DOMAIN frames :
        f < g => frames[f].slots + Parameters(frames[f].method) < frames[g].slots
    /\ frames # <<>> =>
        /\ frames[1].method = Script /\ frames[1].slots = 1 /\ stack[1] = Closure(Script)

(* What a statement made is gone after it.                                 *)
NothingRemains == Len(stack) <= 1 => instances = <<>>

(* Only classes and functions are in global variables; of the class that   *)
(* is being declared, its own at most.                                     *)
GlobalsHold ==
    \A x \in Globals :
        /\ globals[x].kind \in {"class", "native", "closure"}
        /\ globals[x].kind = "class" =>
            /\ globals[x].class \in DOMAIN classes
            /\ declaration # NoDeclaration /\ (declaration.next = "define" \/ x # declaration.name) =>
                globals[x].class # Len(classes)

Chain == \A c \in DOMAIN classes : classes[c].super < c

(* How far a declaration is.                                               *)
DeclarationGoes ==
    declaration # NoDeclaration =>
        LET c == Len(classes)
            next == declaration.next
        IN
        /\ c > 0 /\ Len(frames) = 1 /\ instances = <<>>
        /\ next \in {"define", "extend", "load", "inherit"} => classes[c] = NewClass
        /\ next # "define" => globals[declaration.name] = ClassValue(c)
        /\ next = "reload" => classes[c].super # 0
        /\ next \in {"load", "inherit"} /\ stack[2].kind = "class" => stack[2].class < c
        /\ next \in {"define", "inherit", "methods"} => stack[Len(stack)] = ClassValue(c)
        /\ Len(stack) =
            CASE next = "extend" -> 1
              [] next \in {"define", "load", "reload"} -> 2
              [] next = "inherit" -> 3
              [] next = "methods" -> IF classes[c].super = 0 THEN 2 ELSE 3

Inv ==
    /\ Types
    /\ \A i \in DOMAIN stack : Sound(stack[i], Machine)
    /\ Objects(Machine)
    /\ FramesHold /\ HeightsMatch
    /\ NothingRemains
    /\ Chain /\ MethodsAreInherited
    /\ GlobalsHold /\ DeclarationGoes
=============================================================================
