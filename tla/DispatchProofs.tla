--------------------------- MODULE DispatchProofs ---------------------------
(***************************************************************************)
(* Inv of module Dispatch is inductive: whatever a program does with       *)
(* classes, a method runs with a `this' of its class.                      *)
(***************************************************************************)
EXTENDS Dispatch, SequenceTheorems, TLAPS

-----------------------------------------------------------------------------
(* Classes and those above them.                                           *)

LEMMA Above ==
    ASSUME classes \in Seq(Classes), Chain, NEW c \in DOMAIN classes
    PROVE  /\ c \in Ancestors(c) /\ \A a \in Ancestors(c) : a <= c
           /\ classes[c].super = 0 => Ancestors(c) = {c}
           /\ classes[c].super # 0 =>
                /\ classes[c].super \in DOMAIN classes
                /\ Ancestors(c) = {c} \cup Ancestors(classes[c].super)
<1> DEFINE s == classes[c].super
           D == DOMAIN classes
<1>0. /\ D = 1 .. Len(classes) /\ Len(classes) \in Nat
      /\ \A d \in D : classes[d].super \in Nat /\ classes[d].super < d
    <2>1. \A d \in D : classes[d] \in Classes
        OBVIOUS
    <2> QED BY <2>1 DEF Classes, Chain
<1>1. c \in Ancestors(c)
    BY DEF Ancestors
<1>2. ASSUME NEW e \in D
      PROVE  Closed(1 .. e) /\ (1 .. e) \in SUBSET D
    <2>1. \A d \in 1 .. e : classes[d].super \in (1 .. e) \cup {0}
        BY <1>0
    <2> QED BY <1>0, <2>1 DEF Closed
<1>3. \A e \in D : \A a \in Ancestors(e) : a <= e
    BY <1>0, <1>2 DEF Ancestors
<1>4. ASSUME s = 0
      PROVE  Ancestors(c) = {c}
    <2>1. Closed({c}) /\ {c} \in SUBSET D
        BY <1>4 DEF Closed
    <2> QED BY <1>1, <2>1 DEF Ancestors
<1>5. ASSUME s # 0
      PROVE  s \in D /\ Ancestors(c) = {c} \cup Ancestors(s)
    <2>1. s \in D
        BY <1>0, <1>5
    <2>2. ASSUME NEW a \in Ancestors(s)
          PROVE  a \in Ancestors(c)
        <3>1. ASSUME NEW S \in SUBSET D, c \in S, Closed(S)
              PROVE  a \in S
            <4>1. s \in S
                BY <1>5, <3>1 DEF Closed
            <4> QED BY <2>2, <3>1, <4>1 DEF Ancestors
        <3> QED BY <2>2, <3>1 DEF Ancestors
    <2>3. ASSUME NEW a \in Ancestors(c), a # c
          PROVE  a \in Ancestors(s)
        <3>1. ASSUME NEW S \in SUBSET D, s \in S, Closed(S)
              PROVE  a \in S
            <4>1. Closed(S \cup {c}) /\ S \cup {c} \in SUBSET D
                BY <3>1 DEF Closed
            <4> QED BY <2>3, <4>1 DEF Ancestors
        <3> QED BY <2>3, <3>1 DEF Ancestors
    <2> QED BY <1>1, <2>1, <2>2, <2>3
<1> QED BY <1>1, <1>3, <1>4, <1>5

LEMMA AboveAbove ==
    ASSUME NEW a, NEW b, NEW c, a \in Ancestors(b), b \in Ancestors(c)
    PROVE  a \in Ancestors(c)
BY DEF Ancestors

(* Classes that stay, with those above them, keep their ancestors.         *)
LEMMA AncestorsStay ==
    ASSUME classes \in Seq(Classes), Chain, classes' \in Seq(Classes), Chain',
           NEW n \in Nat, n <= Len(classes), n <= Len(classes'),
           \A d \in 1 .. n : classes'[d].super = classes[d].super,
           NEW c \in 1 .. n
    PROVE  Ancestors(c)' = Ancestors(c)
<1>0. /\ DOMAIN classes = 1 .. Len(classes) /\ Len(classes) \in Nat
      /\ DOMAIN classes' = 1 .. Len(classes') /\ Len(classes') \in Nat
      /\ 1 .. n \subseteq DOMAIN classes /\ 1 .. n \subseteq DOMAIN classes'
    OBVIOUS
<1>1. \A d \in 1 .. n : classes[d].super \in Nat /\ classes[d].super < d
    <2>1. \A d \in 1 .. n : classes[d] \in Classes
        BY <1>0
    <2> QED BY <1>0, <2>1 DEF Classes, Chain
<1>2. ASSUME NEW S, Closed(S)
      PROVE  Closed(S \cap (1 .. n)) /\ Closed(S \cap (1 .. n))'
    BY <1>1, <1>2 DEF Closed
<1>3. ASSUME NEW S, Closed(S)'
      PROVE  Closed(S \cap (1 .. n)) /\ Closed(S \cap (1 .. n))'
    BY <1>1, <1>3 DEF Closed
<1>4. ASSUME NEW a \in Ancestors(c)
      PROVE  a \in Ancestors(c)'
    <2>1. Closed(1 .. n)
        BY <1>1 DEF Closed
    <2>2. a \in 1 .. n
        BY <1>0, <2>1 DEF Ancestors
    <2>3. ASSUME NEW S \in SUBSET DOMAIN classes', c \in S, Closed(S)'
          PROVE  a \in S
        <3>1. Closed(S \cap (1 .. n)) /\ c \in S \cap (1 .. n) /\ S \cap (1 .. n) \in SUBSET DOMAIN classes
            BY <1>0, <1>3, <2>3
        <3> QED BY <3>1 DEF Ancestors
    <2> QED BY <1>0, <2>2, <2>3 DEF Ancestors
<1>5. ASSUME NEW a \in Ancestors(c)'
      PROVE  a \in Ancestors(c)
    <2>1. Closed(1 .. n)'
        BY <1>1 DEF Closed
    <2>2. a \in 1 .. n
        BY <1>0, <2>1 DEF Ancestors
    <2>3. ASSUME NEW S \in SUBSET DOMAIN classes, c \in S, Closed(S)
          PROVE  a \in S
        <3>1. Closed(S \cap (1 .. n))' /\ c \in S \cap (1 .. n) /\ S \cap (1 .. n) \in SUBSET DOMAIN classes'
            BY <1>0, <1>2, <2>3
        <3> QED BY <3>1 DEF Ancestors
    <2> QED BY <1>0, <2>2, <2>3 DEF Ancestors
<1> QED BY <1>4, <1>5

(* A method that is found is that of a class above.                        *)
LEMMA Found ==
    ASSUME classes \in Seq(Classes), MethodsAreInherited, NEW c \in DOMAIN classes,
           NEW name \in Names, Has(classes[c].methods, name)
    PROVE  /\ classes[c].methods[name] \in Methods
           /\ classes[c].methods[name].name = name
           /\ classes[c].methods[name].class # 0
           /\ classes[c].methods[name].class \in Ancestors(c)
<1>1. classes[c].methods[name] \in Methods
    <2>1. classes[c] \in Classes
        OBVIOUS
    <2> QED BY <2>1 DEF Classes, Tables, Has
<1>2. PICK a \in Declaring(c, name) : classes[c].methods[name] = [class |-> a, name |-> name]
    BY DEF MethodsAreInherited
<1>3. a \in Ancestors(c)
    BY DEF Declaring
<1> QED BY <1>1, <1>2, <1>3 DEF Methods

-----------------------------------------------------------------------------
(* What the functions of the VM do to the stack.                           *)

LEMMA StackChanged ==
    ASSUME NEW m \in Machines, NEW s \in Seq(Values), NEW k, k = [m EXCEPT !.stack = s]
    PROVE  /\ k \in Machines /\ k.stack = s /\ k.ok = m.ok
           /\ k.frames = m.frames /\ k.instances = m.instances
BY DEF Machines

LEMMA Stacks ==
    ASSUME NEW m \in Machines
    PROVE  /\ m.stack \in Seq(Values) /\ Len(m.stack) \in Nat /\ DOMAIN m.stack = 1 .. Len(m.stack)
           /\ m.frames \in Seq(CallFrames) /\ m.instances \in Seq(Instances) /\ m.ok \in BOOLEAN
<1>1. m.stack \in Seq(Values) /\ m.frames \in Seq(CallFrames) /\ m.instances \in Seq(Instances) /\ m.ok \in BOOLEAN
    BY DEF Machines
<1> QED BY <1>1

LEMMA Pushed ==
    ASSUME NEW m \in Machines, NEW v \in Values
    PROVE  /\ Push(m, v) \in Machines
           /\ Push(m, v).stack = Append(m.stack, v) /\ Push(m, v).ok = m.ok
           /\ Push(m, v).frames = m.frames /\ Push(m, v).instances = m.instances
<1>0. Append(m.stack, v) \in Seq(Values)
    BY Stacks
<1>1. PICK s \in Seq(Values) : s = Append(m.stack, v)
    BY <1>0
<1>2. Push(m, v) = [m EXCEPT !.stack = s]
    BY <1>1 DEF Push
<1>3. /\ Push(m, v) \in Machines /\ Push(m, v).stack = s /\ Push(m, v).ok = m.ok
      /\ Push(m, v).frames = m.frames /\ Push(m, v).instances = m.instances
    BY <1>2, StackChanged
<1> QED BY <1>1, <1>3

LEMMA Popped ==
    ASSUME NEW m \in Machines, NEW n \in 0 .. Len(m.stack)
    PROVE  /\ Pop(m, n) \in Machines /\ Len(Pop(m, n).stack) = Len(m.stack) - n
           /\ \A i \in 1 .. Len(m.stack) - n : Pop(m, n).stack[i] = m.stack[i]
           /\ Pop(m, n).ok = m.ok
           /\ Pop(m, n).frames = m.frames /\ Pop(m, n).instances = m.instances
<1>1. m.stack \in Seq(Values) /\ Len(m.stack) \in Nat
    BY Stacks
<1>2. /\ SubSeq(m.stack, 1, Len(m.stack) - n) \in Seq(Values)
      /\ Len(SubSeq(m.stack, 1, Len(m.stack) - n)) = Len(m.stack) - n
      /\ \A i \in 1 .. Len(m.stack) - n : SubSeq(m.stack, 1, Len(m.stack) - n)[i] = m.stack[i]
    BY <1>1
<1>3. PICK s \in Seq(Values) : s = SubSeq(m.stack, 1, Len(m.stack) - n)
    BY <1>2
<1>4. Pop(m, n) = [m EXCEPT !.stack = s]
    BY <1>3 DEF Pop
<1>5. /\ Pop(m, n) \in Machines /\ Pop(m, n).stack = s /\ Pop(m, n).ok = m.ok
      /\ Pop(m, n).frames = m.frames /\ Pop(m, n).instances = m.instances
    BY <1>4, StackChanged
<1> QED BY <1>2, <1>3, <1>5

LEMMA PutDown ==
    ASSUME NEW m \in Machines, NEW n \in 0 .. Len(m.stack) - 1, NEW v \in Values
    PROVE  /\ Put(m, n, v) \in Machines /\ Len(Put(m, n, v).stack) = Len(m.stack)
           /\ Put(m, n, v).stack[Len(m.stack) - n] = v
           /\ \A i \in 1 .. Len(m.stack) : i # Len(m.stack) - n => Put(m, n, v).stack[i] = m.stack[i]
           /\ Put(m, n, v).ok = m.ok
           /\ Put(m, n, v).frames = m.frames /\ Put(m, n, v).instances = m.instances
<1>1. m.stack \in Seq(Values) /\ Len(m.stack) \in Nat
    BY Stacks
<1>0. [m.stack EXCEPT ![Len(m.stack) - n] = v] \in Seq(Values)
    BY <1>1
<1>2. PICK s \in Seq(Values) : s = [m.stack EXCEPT ![Len(m.stack) - n] = v]
    BY <1>0
<1>3. Put(m, n, v) = [m EXCEPT !.stack = s]
    BY <1>2 DEF Put
<1>4. /\ Len(s) = Len(m.stack) /\ s[Len(m.stack) - n] = v
      /\ \A i \in 1 .. Len(m.stack) : i # Len(m.stack) - n => s[i] = m.stack[i]
    BY <1>1, <1>2
<1>5. /\ Put(m, n, v) \in Machines /\ Put(m, n, v).stack = s /\ Put(m, n, v).ok = m.ok
      /\ Put(m, n, v).frames = m.frames /\ Put(m, n, v).instances = m.instances
    BY <1>3, StackChanged
<1> QED BY <1>2, <1>4, <1>5

LEMMA Seen ==
    ASSUME NEW m \in Machines, NEW n \in 0 .. Len(m.stack) - 1
    PROVE  Peek(m, n) = m.stack[Len(m.stack) - n] /\ Peek(m, n) \in Values
           /\ Len(m.stack) - n \in 1 .. Len(m.stack)
<1>1. m.stack \in Seq(Values) /\ Len(m.stack) \in Nat
    BY Stacks
<1> QED BY <1>1 DEF Peek

LEMMA PushedAndPopped ==
    ASSUME NEW m \in Machines, NEW v \in Values
    PROVE  Pop(Push(m, v), 1) = m /\ Peek(Push(m, v), 0) = v
<1>1. m.stack \in Seq(Values) /\ Len(m.stack) \in Nat
    BY Stacks
<1>0. Append(m.stack, v) \in Seq(Values)
    BY <1>1
<1>2. PICK s \in Seq(Values) : s = Append(m.stack, v)
    BY <1>0
<1>3. Push(m, v) = [m EXCEPT !.stack = s]
    BY <1>2 DEF Push
<1>4. Len(s) = Len(m.stack) + 1 /\ SubSeq(s, 1, Len(m.stack)) = m.stack /\ s[Len(m.stack) + 1] = v
    BY <1>1, <1>2
<1>5. Push(m, v).stack = s
    BY <1>3, StackChanged
<1>6. Pop(Push(m, v), 1) = [Push(m, v) EXCEPT !.stack = SubSeq(s, 1, Len(s) - 1)]
    BY <1>5 DEF Pop
<1>7. Len(s) - 1 = Len(m.stack)
    BY <1>1, <1>4
<1>8. Pop(Push(m, v), 1) = [[m EXCEPT !.stack = s] EXCEPT !.stack = m.stack]
    BY <1>3, <1>4, <1>6, <1>7
<1>9. [[m EXCEPT !.stack = s] EXCEPT !.stack = m.stack] = m
    BY DEF Machines
<1>10. Peek(Push(m, v), 0) = v
    BY <1>1, <1>4, <1>5 DEF Peek
<1> QED BY <1>8, <1>9, <1>10

LEMMA Failing ==
    ASSUME NEW m \in Machines
    PROVE  /\ Failure(m) \in Machines /\ ~Failure(m).ok
           /\ Failure(m).stack = <<>> /\ Failure(m).frames = <<>>
<1>1. <<>> \in Seq(Values) /\ <<>> \in Seq(CallFrames)
    OBVIOUS
<1> QED BY <1>1 DEF Failure, Machines

(* Kinds of values.                                                        *)
LEMMA Kinds ==
    ASSUME NEW v \in Values
    PROVE  /\ v.kind \in {"nil", "native", "class", "closure", "instance", "bound"}
           /\ v.kind = "class" => v.class \in Nat
           /\ v.kind = "closure" => v.method \in {Function, Script}
           /\ v.kind = "instance" => v \in InstanceValues /\ v.instance \in Nat
           /\ v.kind = "bound" =>
                v.receiver \in InstanceValues /\ v.receiver \in Values /\ v.method \in Methods
           /\ v # None
BY DEF Values, Nil, Native, InstanceValues, None

LEMMA MadeValues ==
    /\ Nil \in Values /\ Nil.kind = "nil"
    /\ \A c \in Nat : ClassValue(c) \in Values /\ ClassValue(c).kind = "class" /\ ClassValue(c).class = c
    /\ \A i \in Nat : /\ Instance(i) \in InstanceValues /\ Instance(i) \in Values
                      /\ Instance(i).kind = "instance" /\ Instance(i).instance = i
    /\ \A r \in InstanceValues, f \in Methods :
         /\ Bound(r, f) \in Values /\ Bound(r, f).kind = "bound"
         /\ Bound(r, f).receiver = r /\ Bound(r, f).method = f
    /\ \A f \in {Function, Script} : Closure(f) \in Values /\ Closure(f).kind = "closure" /\ Closure(f).method = f
BY DEF Values, Nil, ClassValue, Instance, Bound, Closure, InstanceValues

-----------------------------------------------------------------------------
(* What a handler makes of the machine.                                    *)

(* The frame that runs has its callee and parameters up to here.           *)
Base == Frame.slots + Parameters(Frame.method)

(* What is there stays: the objects, with their classes, and the stack     *)
(* below the temporary values; and every value is sound.                   *)
Grown(m) ==
    /\ Len(instances) <= Len(m.instances)
    /\ \A i \in DOMAIN instances : m.instances[i].class = instances[i].class

ClassesHold == classes \in Seq(Classes) /\ Chain /\ MethodsAreInherited

Common(m) ==
    /\ ClassesHold
    /\ m \in Machines /\ m.ok
    /\ \A i \in DOMAIN m.stack : Sound(m.stack[i], m)
    /\ Objects(m) /\ Grown(m)
    /\ Base \in 1 .. Len(m.stack) /\ \A i \in 1 .. Base : m.stack[i] = stack[i]

Steady(m, e) == Common(m) /\ m.frames = frames /\ Len(m.stack) = Len(stack) + e

(* A frame was entered, for the callee and the arguments on the stack.     *)
Entered(m, e) ==
    /\ Common(m)
    /\ \E f \in CallFrames :
        /\ m.frames = Append(frames, f) /\ FrameHolds(f, m)
        /\ f.height = Parameters(f.method) + 1
        /\ Base < f.slots /\ f.slots = Len(stack) + e
        /\ Len(m.stack) = f.slots + Parameters(f.method)

Failed(m) == m \in Machines /\ ~m.ok /\ m.stack = <<>> /\ m.frames = <<>>

Outcome(m, e) == Failed(m) \/ Steady(m, e) \/ Entered(m, e)

LEMMA MachineIs ==
    /\ Machine.ok /\ Machine.stack = stack /\ Machine.frames = frames /\ Machine.instances = instances
BY DEF Machine

(* What the invariant says of the machine while a program runs.            *)
LEMMA RunningHolds ==
    ASSUME Inv, frames # <<>>
    PROVE  /\ Common(Machine) /\ Steady(Machine, 0)
           /\ Len(frames) \in Nat /\ Len(frames) > 0 /\ Frame \in CallFrames /\ Len(stack) \in Nat
           /\ Frame.slots \in 1 .. Base /\ Base \in 1 .. Len(stack)
           /\ Parameters(Frame.method) \in Nat
           /\ Len(stack) = Frame.slots + Frame.height - 1
           /\ Temporaries = Len(stack) - Base
           /\ FrameHolds(Frame, Machine)
<1>1. /\ Machine \in Machines /\ Machine.ok /\ Machine.stack = stack
      /\ Machine.frames = frames /\ Machine.instances = instances
    BY DEF Inv, Types, Machine
<1>2. stack \in Seq(Values) /\ frames \in Seq(CallFrames) /\ instances \in Seq(Instances)
    BY <1>1, Stacks
<1>3. Len(frames) \in Nat /\ Len(frames) > 0 /\ Len(frames) \in DOMAIN frames /\ Len(stack) \in Nat
    BY <1>2
<1>4. Frame \in CallFrames
    BY <1>2, <1>3 DEF Frame
<1>5. FrameHolds(Frame, Machine)
    BY <1>3 DEF Inv, FramesHold, Frame
<1>6. Parameters(Frame.method) \in Nat
    BY <1>4, DispatchAssumption DEF Parameters, CallFrames, Callables, Methods, Function
<1>7. Frame.slots \in 1 .. Base /\ Base \in 1 .. Len(stack)
    BY <1>1, <1>3, <1>5, <1>6 DEF FrameHolds, Base
<1>8. Len(stack) = Frame.slots + Frame.height - 1
    BY DEF Inv, HeightsMatch
<1>9. Temporaries = Len(stack) - Base
    BY <1>1, <1>2, <1>3 DEF Temporaries, Height, Last, Frame, Base
<1>10. Common(Machine)
    BY <1>1, <1>2, <1>7 DEF Common, Inv, Types, ClassesHold, Grown
<1> QED BY <1>1, <1>3, <1>4, <1>5, <1>6, <1>7, <1>8, <1>9, <1>10 DEF Steady

(* A machine with the same instances finds the same values sound.          *)
LEMMA SoundStays ==
    ASSUME NEW k, NEW m, k.instances \in Seq(Instances), m.instances \in Seq(Instances),
           Len(k.instances) <= Len(m.instances),
           \A i \in DOMAIN k.instances : m.instances[i].class = k.instances[i].class,
           NEW v \in Values, Sound(v, k)
    PROVE  Sound(v, m)
<1>1. DOMAIN k.instances \subseteq DOMAIN m.instances
    OBVIOUS
<1>2. Exists(v, m)
    BY <1>1 DEF Sound, Exists
<1>3. ASSUME v.kind = "bound"
      PROVE  Receives(v.receiver, v.method, m)
    BY <1>1, <1>3 DEF Sound, Exists, Receives
<1> QED BY <1>2, <1>3 DEF Sound

LEMMA ReceivesStays ==
    ASSUME NEW k, NEW m,
           \A i \in DOMAIN k.instances : m.instances[i].class = k.instances[i].class,
           NEW v, Exists(v, k), NEW f, Receives(v, f, k)
    PROVE  Receives(v, f, m)
BY DEF Receives, Exists

(* Objects keep their classes and hold what they held.                     *)
LEMMA ObjectsStay ==
    ASSUME NEW k, NEW m, m.instances = k.instances, Objects(k)
    PROVE  Objects(m)
BY DEF Objects, Sound, Exists, Receives

LEMMA SameInstances ==
    ASSUME NEW k, NEW m, m.instances = k.instances, NEW v
    PROVE  Sound(v, m) = Sound(v, k) /\ \A f : Receives(v, f, m) = Receives(v, f, k)
BY DEF Sound, Exists, Receives

LEMMA PushCommon ==
    ASSUME NEW m, Common(m), NEW v \in Values, Sound(v, m)
    PROVE  /\ Common(Push(m, v)) /\ Len(Push(m, v).stack) = Len(m.stack) + 1
           /\ Push(m, v).frames = m.frames /\ Push(m, v).instances = m.instances
<1>1. /\ m \in Machines /\ m.stack \in Seq(Values) /\ Len(m.stack) \in Nat /\ DOMAIN m.stack = 1 .. Len(m.stack)
    BY Stacks DEF Common
<1> DEFINE k == Push(m, v)
<1>2. /\ k \in Machines /\ k.ok = m.ok /\ k.instances = m.instances /\ k.frames = m.frames
      /\ k.stack = Append(m.stack, v)
    BY <1>1, Pushed
<1>3. /\ Len(k.stack) = Len(m.stack) + 1 /\ k.stack[Len(m.stack) + 1] = v
      /\ DOMAIN k.stack = 1 .. Len(m.stack) + 1
      /\ \A i \in 1 .. Len(m.stack) : k.stack[i] = m.stack[i]
    BY <1>1, <1>2
<1> HIDE DEF k
<1>4. \A i \in DOMAIN k.stack : Sound(k.stack[i], k)
    BY <1>1, <1>2, <1>3, SameInstances DEF Common
<1>5. Objects(k) /\ Grown(k)
    BY <1>2, ObjectsStay DEF Common, Grown
<1>6. k.ok /\ Base \in 1 .. Len(k.stack) /\ \A i \in 1 .. Base : k.stack[i] = stack[i]
    BY <1>1, <1>2, <1>3 DEF Common
<1>7. Common(k)
    BY <1>2, <1>4, <1>5, <1>6 DEF Common
<1> QED BY <1>2, <1>3, <1>7 DEF k

LEMMA PopCommon ==
    ASSUME NEW m, Common(m), NEW n \in 0 .. Len(m.stack) - Base
    PROVE  /\ Common(Pop(m, n)) /\ Len(Pop(m, n).stack) = Len(m.stack) - n
           /\ Pop(m, n).frames = m.frames /\ Pop(m, n).instances = m.instances
<1>1. /\ m \in Machines /\ m.stack \in Seq(Values) /\ Len(m.stack) \in Nat /\ DOMAIN m.stack = 1 .. Len(m.stack)
      /\ Base \in 1 .. Len(m.stack) /\ n \in 0 .. Len(m.stack)
    BY Stacks DEF Common
<1> DEFINE k == Pop(m, n)
<1>2. /\ k \in Machines /\ k.ok = m.ok /\ k.instances = m.instances /\ k.frames = m.frames
      /\ Len(k.stack) = Len(m.stack) - n /\ DOMAIN k.stack = 1 .. Len(k.stack)
      /\ \A i \in 1 .. Len(m.stack) - n : k.stack[i] = m.stack[i]
    BY <1>1, Popped, Stacks
<1> HIDE DEF k
<1>4. \A i \in DOMAIN k.stack : Sound(k.stack[i], k)
    BY <1>1, <1>2, SameInstances DEF Common
<1>5. Objects(k) /\ Grown(k)
    BY <1>2, ObjectsStay DEF Common, Grown
<1>6. k.ok /\ Base \in 1 .. Len(k.stack) /\ \A i \in 1 .. Base : k.stack[i] = stack[i]
    BY <1>1, <1>2 DEF Common
<1>7. Common(k)
    BY <1>2, <1>4, <1>5, <1>6 DEF Common
<1> QED BY <1>2, <1>7 DEF k

LEMMA PutCommon ==
    ASSUME NEW m, Common(m), NEW n \in 0 .. Len(m.stack) - Base - 1,
           NEW v \in Values, Sound(v, m)
    PROVE  Common(Put(m, n, v)) /\ Len(Put(m, n, v).stack) = Len(m.stack)
<1>1. /\ m \in Machines /\ m.stack \in Seq(Values) /\ Len(m.stack) \in Nat /\ DOMAIN m.stack = 1 .. Len(m.stack)
      /\ Base \in 1 .. Len(m.stack) /\ n \in 0 .. Len(m.stack) - 1
    BY Stacks DEF Common
<1> DEFINE k == Put(m, n, v)
<1>2. /\ k \in Machines /\ k.ok = m.ok /\ k.instances = m.instances
      /\ Len(k.stack) = Len(m.stack) /\ DOMAIN k.stack = 1 .. Len(k.stack)
      /\ \A i \in 1 .. Len(m.stack) : i # Len(m.stack) - n => k.stack[i] = m.stack[i]
      /\ k.stack[Len(m.stack) - n] = v
    <2>1. /\ k \in Machines /\ k.ok = m.ok /\ k.instances = m.instances
          /\ Len(k.stack) = Len(m.stack) /\ k.stack[Len(m.stack) - n] = v
          /\ \A i \in 1 .. Len(m.stack) : i # Len(m.stack) - n => k.stack[i] = m.stack[i]
        BY <1>1, PutDown
    <2>2. DOMAIN k.stack = 1 .. Len(k.stack)
        BY <2>1, Stacks
    <2> QED BY <2>1, <2>2
<1> HIDE DEF k
<1>4. \A i \in DOMAIN k.stack : Sound(k.stack[i], k)
    BY <1>1, <1>2, SameInstances DEF Common
<1>5. Objects(k) /\ Grown(k)
    BY <1>2, ObjectsStay DEF Common, Grown
<1>6. k.ok /\ Base \in 1 .. Len(k.stack) /\ \A i \in 1 .. Base : k.stack[i] = stack[i]
    BY <1>1, <1>2 DEF Common
<1>7. Common(k)
    BY <1>2, <1>4, <1>5, <1>6 DEF Common
<1> QED BY <1>2, <1>7 DEF k

(* What is seen is sound.                                                  *)
LEMMA PeekCommon ==
    ASSUME NEW m, Common(m), NEW n \in 0 .. Len(m.stack) - 1
    PROVE  /\ Peek(m, n) \in Values /\ Sound(Peek(m, n), m)
           /\ Peek(m, n) = m.stack[Len(m.stack) - n]
<1>1. m \in Machines /\ DOMAIN m.stack = 1 .. Len(m.stack)
    BY Stacks DEF Common
<1> QED BY <1>1, Seen DEF Common

(* What an instance of sound values has.                                   *)
LEMMA InstanceHas ==
    ASSUME NEW m, Common(m), NEW v \in Values, Sound(v, m), v.kind = "instance"
    PROVE  LET o == m.instances[v.instance] IN
           /\ v.instance \in DOMAIN m.instances /\ o \in Instances
           /\ o.class \in DOMAIN classes
           /\ o.fields \in Tables(Values)
           /\ \A x \in Names : Has(o.fields, x) => o.fields[x] \in Values /\ Sound(o.fields[x], m)
<1>1. m.instances \in Seq(Instances)
    BY Stacks DEF Common
<1>2. v.instance \in DOMAIN m.instances
    BY DEF Sound, Exists
<1>3. m.instances[v.instance] \in Instances
    BY <1>1, <1>2
<1>4. m.instances[v.instance].fields \in Tables(Values)
    BY <1>3 DEF Instances
<1> QED BY <1>2, <1>3, <1>4 DEF Common, Objects, Tables, Has

LEMMA ParametersAreNatural ==
    ASSUME NEW f \in Callables
    PROVE  Parameters(f) \in Nat
BY DispatchAssumption DEF Parameters, Callables, Methods, Function

LEMMA CommonStays ==
    ASSUME NEW m, Common(m), NEW k \in Machines, k.ok, k.stack = m.stack, k.instances = m.instances
    PROVE  Common(k)
<1>1. \A i \in DOMAIN k.stack : Sound(k.stack[i], k)
    BY SameInstances DEF Common
<1>2. Objects(k) /\ Grown(k)
    BY ObjectsStay DEF Common, Grown
<1> QED BY <1>1, <1>2 DEF Common

(* A frame is entered for the callee and the arguments on the stack.       *)
LEMMA FrameEntered ==
    ASSUME NEW m, Common(m), m.frames = frames, NEW e \in Int,
           NEW f \in CallFrames, FrameHolds(f, m), f.height = Parameters(f.method) + 1,
           Base < f.slots, f.slots = Len(stack) + e, Len(m.stack) = f.slots + Parameters(f.method),
           NEW k, k = [m EXCEPT !.frames = Append(frames, f)]
    PROVE  /\ Entered(k, e) /\ k.ok /\ k.stack = m.stack /\ k.instances = m.instances
           /\ k.frames = Append(frames, f)
<1>1. m \in Machines /\ m.ok /\ frames \in Seq(CallFrames)
    BY Stacks DEF Common
<1>2. Append(frames, f) \in Seq(CallFrames)
    BY <1>1
<1>3. PICK s \in Seq(CallFrames) : s = Append(frames, f)
    BY <1>2
<1>4. k = [m EXCEPT !.frames = s]
    BY <1>3
<1>5. k \in Machines /\ k.ok = m.ok /\ k.stack = m.stack /\ k.instances = m.instances /\ k.frames = s
    BY <1>1, <1>4 DEF Machines
<1>6. Common(k)
    BY <1>1, <1>5, CommonStays
<1>7. FrameHolds(f, k)
    BY <1>5 DEF FrameHolds, Receives
<1>8. Entered(k, e)
    BY <1>3, <1>5, <1>6, <1>7 DEF Entered
<1> QED BY <1>1, <1>3, <1>5, <1>8

(* call(): of a function, or of a method on a receiver of its class.       *)
LEMMA CallOutcome ==
    ASSUME NEW m, Common(m), m.frames = frames, NEW f \in Callables,
           NEW n \in 0 .. Len(m.stack) - Base - 1,
           f.class # 0 => Receives(m.stack[Len(m.stack) - n], f, m),
           NEW e \in Int, Len(m.stack) - n = Len(stack) + e
    PROVE  LET k == AfterCall(m, f, n)
               new == NewFrame(f, Len(m.stack) - n)
           IN
           /\ Failed(k) \/ Entered(k, e)
           /\ k.ok =>
                /\ n = Parameters(f) /\ k = [m EXCEPT !.frames = Append(frames, new)]
                /\ new \in CallFrames /\ new.slots = Len(m.stack) - n /\ new.method = f
                /\ new.height = Parameters(f) + 1 /\ new.made = 0 /\ FrameHolds(new, m)
<1>1. /\ m \in Machines /\ m.stack \in Seq(Values) /\ Len(m.stack) \in Nat /\ DOMAIN m.stack = 1 .. Len(m.stack)
      /\ Base \in 1 .. Len(m.stack) /\ n \in Nat
    BY Stacks DEF Common
<1> DEFINE k == AfterCall(m, f, n)
           new == NewFrame(f, Len(m.stack) - n)
<1>2. CASE n # Parameters(f) \/ Len(m.frames) = FRAMES_MAX
    <2>1. k = Failure(m)
        BY <1>2 DEF AfterCall
    <2> QED BY <1>1, <2>1, Failing DEF Failed
<1>3. CASE ~(n # Parameters(f) \/ Len(m.frames) = FRAMES_MAX)
    <2>1. /\ new \in CallFrames /\ new.slots = Len(m.stack) - n /\ new.method = f
          /\ new.height = Parameters(f) + 1 /\ new.made = 0
        BY <1>1, ParametersAreNatural DEF NewFrame, CallFrames
    <2> HIDE DEF new
    <2>2. k = [m EXCEPT !.frames = Append(frames, new)]
        BY <1>3 DEF AfterCall, new
    <2>3. FrameHolds(new, m)
        BY <1>1, <1>3, <2>1 DEF FrameHolds
    <2>4. Base < new.slots /\ new.slots = Len(stack) + e /\ Len(m.stack) = new.slots + Parameters(new.method)
        BY <1>1, <1>3, <2>1
    <2> HIDE DEF k
    <2>5. Entered(k, e)
        BY <2>1, <2>2, <2>3, <2>4, FrameEntered
    <2> QED BY <1>3, <2>1, <2>2, <2>3, <2>5 DEF k, new
<1> QED BY <1>2, <1>3

(* An instance is made in place of its class: p has its value, k itself.   *)
LEMMA InstanceMade ==
    ASSUME NEW m, Common(m), NEW p \in Machines, NEW k \in Machines,
           NEW new, new = Len(m.instances) + 1, NEW o \in Instances,
           o.class \in DOMAIN classes, \A x \in Names : o.fields[x] = None,
           NEW j \in Base + 1 .. Len(m.stack),
           Len(p.stack) = Len(m.stack), p.stack[j] = Instance(new),
           \A i \in 1 .. Len(m.stack) : i # j => p.stack[i] = m.stack[i],
           k.ok, k.stack = p.stack, k.instances = Append(m.instances, o)
    PROVE  /\ Common(k)
           /\ new \in Nat \ {0} /\ new \in DOMAIN k.instances /\ k.instances[new] = o
<1>1. /\ m \in Machines /\ Len(m.stack) \in Nat /\ DOMAIN m.stack = 1 .. Len(m.stack)
      /\ m.instances \in Seq(Instances) /\ m.stack \in Seq(Values)
      /\ k.instances \in Seq(Instances)
      /\ Base \in 1 .. Len(m.stack) /\ DOMAIN k.stack = 1 .. Len(m.stack)
    BY Stacks DEF Common
<1>2. /\ Len(m.instances) \in Nat /\ DOMAIN m.instances = 1 .. Len(m.instances)
      /\ DOMAIN k.instances = 1 .. new /\ Len(k.instances) = new
      /\ new \in Nat \ {0} /\ k.instances[new] = o
      /\ \A i \in 1 .. Len(m.instances) : k.instances[i] = m.instances[i]
    BY <1>1
<1>3. ASSUME NEW v \in Values, Sound(v, m)
      PROVE  Sound(v, k)
    <2>1. \A i \in DOMAIN m.instances : k.instances[i].class = m.instances[i].class
        BY <1>2
    <2>2. Len(m.instances) <= Len(k.instances)
        BY <1>2
    <2> QED BY <1>1, <1>3, <2>1, <2>2, SoundStays
<1>4. Sound(Instance(new), k)
    BY <1>2, MadeValues DEF Sound, Exists
<1>5. ASSUME NEW i \in DOMAIN k.stack
      PROVE  Sound(k.stack[i], k)
    <2>1. CASE i = j
        BY <1>4, <2>1
    <2>2. CASE i # j
        <3>1. k.stack[i] = m.stack[i] /\ i \in DOMAIN m.stack /\ m.stack[i] \in Values
            BY <1>1, <2>2
        <3> QED BY <1>3, <3>1 DEF Common
    <2> QED BY <2>1, <2>2
<1>6. ASSUME NEW i \in DOMAIN k.instances
      PROVE  k.instances[i].class \in DOMAIN classes /\ \A x \in Names : Sound(k.instances[i].fields[x], k)
    <2>1. CASE i = new
        BY <1>2, <2>1 DEF Sound, Exists, None
    <2>2. CASE i # new
        <3>1. i \in DOMAIN m.instances /\ k.instances[i] = m.instances[i] /\ m.instances[i] \in Instances
            BY <1>1, <1>2, <2>2
        <3>2. ASSUME NEW x \in Names
              PROVE  Sound(k.instances[i].fields[x], k)
            <4>1. Sound(m.instances[i].fields[x], m) /\ m.instances[i].fields[x] \in Values \cup {None}
                BY <3>1 DEF Common, Objects, Instances, Tables
            <4>2. Sound(None, k)
                BY DEF Sound, Exists, None
            <4> QED BY <1>3, <3>1, <4>1, <4>2
        <3> QED BY <3>1, <3>2 DEF Common, Objects
    <2> QED BY <2>1, <2>2
<1>7. Objects(k)
    BY <1>6 DEF Objects
<1>8. Grown(k)
    BY <1>1, <1>2 DEF Grown, Common, Machines
<1>9. Base \in 1 .. Len(k.stack) /\ \A i \in 1 .. Base : k.stack[i] = stack[i]
    BY <1>1 DEF Common
<1>10. Common(k)
    BY <1>5, <1>7, <1>8, <1>9 DEF Common
<1> QED BY <1>2, <1>10

LEMMA MadeCommon ==
    ASSUME NEW m, Common(m), NEW c \in DOMAIN classes,
           NEW n \in 0 .. Len(m.stack) - Base - 1
    PROVE  LET k == AfterMake(m, c, n)
               new == Len(k.instances)
           IN
           /\ Common(k) /\ k.frames = m.frames /\ Len(k.stack) = Len(m.stack)
           /\ k.stack[Len(m.stack) - n] = Instance(new)
           /\ new \in Nat \ {0} /\ new \in DOMAIN k.instances /\ k.instances[new].class = c
<1>1. /\ m \in Machines /\ m.ok /\ m.stack \in Seq(Values) /\ Len(m.stack) \in Nat
      /\ m.instances \in Seq(Instances)
      /\ Base \in 1 .. Len(m.stack) /\ n \in 0 .. Len(m.stack) - 1
    BY Stacks DEF Common
<1> DEFINE new == Len(m.instances) + 1
           p == Put(m, n, Instance(new))
           o == [class |-> c, fields |-> Empty]
           k == AfterMake(m, c, n)
<1>2. new \in Nat \ {0} /\ Instance(new) \in Values
    <2>1. new \in Nat \ {0}
        BY <1>1
    <2> QED BY <2>1, MadeValues
<1>3. /\ p \in Machines /\ p.ok = m.ok /\ p.frames = m.frames /\ p.instances = m.instances
      /\ Len(p.stack) = Len(m.stack) /\ p.stack[Len(m.stack) - n] = Instance(new)
      /\ \A i \in 1 .. Len(m.stack) : i # Len(m.stack) - n => p.stack[i] = m.stack[i]
    <2>1. PICK v \in Values : v = Instance(new)
        BY <1>2
    <2>2. p = Put(m, n, v)
        BY <2>1
    <2> HIDE DEF p, o, k
    <2>3. /\ Put(m, n, v) \in Machines /\ Len(Put(m, n, v).stack) = Len(m.stack)
          /\ Put(m, n, v).stack[Len(m.stack) - n] = v
          /\ \A i \in 1 .. Len(m.stack) : i # Len(m.stack) - n => Put(m, n, v).stack[i] = m.stack[i]
          /\ Put(m, n, v).ok = m.ok
          /\ Put(m, n, v).frames = m.frames /\ Put(m, n, v).instances = m.instances
        BY <1>1, PutDown
    <2> QED BY <2>1, <2>2, <2>3
<1>4. /\ o.class = c /\ \A x \in Names : o.fields[x] = None
    BY DEF Empty
<1>5. o \in Instances
    <2>1. c \in Nat
        BY DEF Common, ClassesHold
    <2>2. Empty \in Tables(Values)
        BY DEF Empty, Tables
    <2> QED BY <2>1, <2>2 DEF Instances
<1>6. k = [p EXCEPT !.instances = Append(p.instances, o)]
    BY DEF AfterMake
<1> HIDE DEF p, o, k
<1>7. Append(p.instances, o) \in Seq(Instances)
    BY <1>1, <1>3, <1>5
<1>8. PICK s \in Seq(Instances) : s = Append(p.instances, o)
    BY <1>7
<1>9. k = [p EXCEPT !.instances = s]
    BY <1>6, <1>8
<1>10. k \in Machines /\ k.ok = p.ok /\ k.frames = p.frames /\ k.instances = s /\ k.stack = p.stack
    BY <1>3, <1>9 DEF Machines
<1>11. Len(m.stack) - n \in Base + 1 .. Len(m.stack)
    BY <1>1
<1>12. k.instances = Append(m.instances, o)
    BY <1>3, <1>8, <1>10
<1>13. new = Len(m.instances) + 1
    OBVIOUS
<1> HIDE DEF new
<1>14. Common(k) /\ new \in Nat \ {0} /\ new \in DOMAIN k.instances /\ k.instances[new] = o
    <2>1. PICK j \in Base + 1 .. Len(m.stack) : j = Len(m.stack) - n
        BY <1>11
    <2>2. /\ Len(p.stack) = Len(m.stack) /\ p.stack[j] = Instance(new)
          /\ \A i \in 1 .. Len(m.stack) : i # j => p.stack[i] = m.stack[i]
        BY <1>3, <2>1
    <2>3. o.class \in DOMAIN classes
        BY <1>4
    <2>4. k \in Machines /\ k.ok /\ k.stack = p.stack
        BY <1>1, <1>3, <1>10
    <2>5. p \in Machines /\ o \in Instances /\ \A x \in Names : o.fields[x] = None
        BY <1>3, <1>4, <1>5
    <2> QED BY ONLY <1>12, <1>13, <2>1, <2>2, <2>3, <2>4, <2>5, InstanceMade, Common(m), SMTT(30)
<1>15. Len(k.instances) = new
    BY <1>1, <1>12, <1>13
<1> QED BY <1>3, <1>4, <1>10, <1>14, <1>15 DEF k

LEMMA LastMade ==
    ASSUME NEW s \in Seq(CallFrames), NEW f \in CallFrames, NEW n \in Nat
    PROVE  /\ [f EXCEPT !.made = n] \in CallFrames
           /\ [Append(s, f) EXCEPT ![Len(Append(s, f))].made = n] = Append(s, [f EXCEPT !.made = n])
<1>1. PICK g \in CallFrames : g = [f EXCEPT !.made = n]
    <2>1. [f EXCEPT !.made = n] \in CallFrames
        BY DEF CallFrames
    <2> QED BY <2>1
<1>2. PICK t \in Seq(CallFrames) : t = Append(s, f)
    <2>1. Append(s, f) \in Seq(CallFrames)
        OBVIOUS
    <2> QED BY <2>1
<1>3. Len(t) = Len(s) + 1 /\ t[Len(t)] = f /\ \A i \in 1 .. Len(s) : t[i] = s[i]
    BY <1>2
<1>4. [t EXCEPT ![Len(t)].made = n] = [t EXCEPT ![Len(t)] = g]
    BY <1>1, <1>3
<1>5. [t EXCEPT ![Len(t)] = g] = Append(s, g)
    <2>1. PICK u : u = [t EXCEPT ![Len(t)] = g]
        OBVIOUS
    <2>2. u \in Seq(CallFrames) /\ Len(u) = Len(s) + 1 /\ u[Len(s) + 1] = g /\ \A i \in 1 .. Len(s) : u[i] = s[i]
        BY <1>3, <2>1
    <2>3. PICK w : w = Append(s, g)
        OBVIOUS
    <2>4. w \in Seq(CallFrames) /\ Len(w) = Len(s) + 1 /\ w[Len(s) + 1] = g /\ \A i \in 1 .. Len(s) : w[i] = s[i]
        BY <2>3
    <2>5. \A i \in 1 .. Len(u) : u[i] = w[i]
        BY <2>2, <2>4
    <2>6. u = w
        BY ONLY <2>2, <2>4, <2>5, SeqEqual
    <2> QED BY <2>1, <2>3, <2>6
<1> QED BY <1>1, <1>2, <1>4, <1>5

(* callValue() for a class.                                                *)
LEMMA CallClassOutcome ==
    ASSUME NEW m, Common(m), m.frames = frames, NEW c \in DOMAIN classes,
           NEW n \in 0 .. Len(m.stack) - Base - 1,
           NEW e \in Int, Len(m.stack) - n = Len(stack) + e
    PROVE  Outcome(AfterCallClass(m, c, n), e)
<1> DEFINE made == AfterMake(m, c, n)
           new == Len(made.instances)
           f == classes[c].methods[initString]
           called == AfterCall(made, f, n)
           k == AfterCallClass(m, c, n)
<1>1. /\ Common(made) /\ made.frames = frames /\ Len(made.stack) = Len(m.stack)
      /\ made.stack[Len(m.stack) - n] = Instance(new)
      /\ new \in Nat \ {0} /\ new \in DOMAIN made.instances /\ made.instances[new].class = c
    BY MadeCommon
<1>2. initString \in Names
    BY DispatchAssumption
<1>3. k = IF Has(classes[c].methods, initString)
          THEN IF called.ok THEN [called EXCEPT !.frames[Len(called.frames)].made = new] ELSE called
          ELSE IF n = 0 THEN made ELSE Failure(made)
    BY DEF AfterCallClass
<1> HIDE DEF made, k
<1>4. CASE Has(classes[c].methods, initString)
    <2>1. f \in Methods /\ f.name = initString /\ f.class # 0 /\ f.class \in Ancestors(c)
        BY <1>2, <1>4, Found DEF Common, ClassesHold
    <2>2. Receives(made.stack[Len(made.stack) - n], f, made)
        BY <1>1, <2>1, MadeValues DEF Receives
    <2>3. f \in Callables /\ n \in 0 .. Len(made.stack) - Base - 1 /\ Len(made.stack) - n = Len(stack) + e
        BY <1>1, <2>1 DEF Callables
    <2> DEFINE g == NewFrame(f, Len(made.stack) - n)
               h == [g EXCEPT !.made = new]
    <2>4. /\ Failed(called) \/ Entered(called, e)
          /\ called.ok =>
                /\ n = Parameters(f) /\ called = [made EXCEPT !.frames = Append(frames, g)]
                /\ g \in CallFrames /\ g.slots = Len(made.stack) - n /\ g.method = f
                /\ g.height = Parameters(f) + 1 /\ g.made = 0 /\ FrameHolds(g, made)
        BY <1>1, <2>2, <2>3, CallOutcome, ZenonT(30)
    <2> HIDE DEF called, g
    <2>5. CASE ~called.ok
        <3>1. k = called /\ Failed(called)
            BY <1>3, <1>4, <2>4, <2>5 DEF Entered, Common
        <3> QED BY <3>1 DEF Outcome, k
    <2>6. CASE called.ok
        <3>1. frames \in Seq(CallFrames) /\ made \in Machines
            BY <1>1, Stacks DEF Common
        <3>2. h \in CallFrames /\ h.slots = g.slots /\ h.method = f /\ h.height = g.height /\ h.made = new
            BY <1>1, <2>4, <2>6 DEF CallFrames
        <3>3. k = [made EXCEPT !.frames = Append(frames, h)]
            <4>1. k = [called EXCEPT !.frames[Len(called.frames)].made = new]
                BY <1>3, <1>4, <2>6
            <4>2. PICK s \in Seq(CallFrames) : s = Append(frames, g)
                <5>1. Append(frames, g) \in Seq(CallFrames)
                    BY <2>4, <2>6, <3>1
                <5> QED BY <5>1
            <4>3. called = [made EXCEPT !.frames = s]
                BY <2>4, <2>6, <4>2
            <4>4. called.frames = s
                BY <3>1, <4>3 DEF Machines
            <4>5. [s EXCEPT ![Len(s)].made = new] = Append(frames, h)
                <5>1. [Append(frames, g) EXCEPT ![Len(Append(frames, g))].made = new] = Append(frames, h)
                    BY <1>1, <2>4, <2>6, <3>1, LastMade, ZenonT(30)
                <5> QED BY <4>2, <5>1
            <4>6. k = [called EXCEPT !.frames = [s EXCEPT ![Len(s)].made = new]]
                BY <4>1, <4>4
            <4> QED BY <3>1, <4>3, <4>5, <4>6 DEF Machines
        <3> HIDE DEF h
        <3>4. FrameHolds(h, made)
            BY <1>1, <2>1, <2>4, <2>6, <3>2 DEF FrameHolds, IsInitializer
        <3>5. Base < h.slots /\ h.slots = Len(stack) + e /\ Len(made.stack) = h.slots + Parameters(h.method)
            BY <2>3, <2>4, <2>6, <3>1, <3>2, Stacks DEF Common
        <3>6. Entered(k, e)
            BY <1>1, <2>4, <2>6, <3>2, <3>3, <3>4, <3>5, FrameEntered, ZenonT(30)
        <3> QED BY <3>6 DEF Outcome, k
    <2> QED BY <2>5, <2>6
<1>5. CASE ~Has(classes[c].methods, initString) /\ n = 0
    <2>1. m \in Machines /\ Len(m.stack) \in Nat /\ Len(made.stack) = Len(stack) + e
        BY <1>1, <1>5, Stacks DEF Common
    <2> QED BY <1>1, <1>3, <1>5, <2>1 DEF Outcome, Steady, k
<1>6. CASE ~Has(classes[c].methods, initString) /\ n # 0
    <2>1. k = Failure(made)
        BY <1>3, <1>6
    <2> QED BY <1>1, <2>1, Failing DEF Outcome, Failed, Common, k
<1> QED BY <1>4, <1>5, <1>6

LEMMA FailureOutcome ==
    ASSUME NEW m \in Machines, NEW e
    PROVE  Outcome(Failure(m), e)
BY Failing DEF Outcome, Failed

(* callValue().                                                            *)
LEMMA CallValueOutcome ==
    ASSUME NEW m, Common(m), m.frames = frames, NEW v \in Values, Sound(v, m),
           NEW n \in 0 .. Len(m.stack) - Base - 1,
           NEW e \in Int, Len(m.stack) - n = Len(stack) + e
    PROVE  Outcome(AfterCallValue(m, v, n), e)
<1>1. /\ m \in Machines /\ Len(m.stack) \in Nat /\ Base \in 1 .. Len(m.stack)
      /\ n \in 0 .. Len(m.stack) - 1
    BY Stacks DEF Common
<1>2. CASE v.kind = "bound"
    <2> DEFINE p == Put(m, n, v.receiver)
    <2>1. /\ v.receiver \in InstanceValues /\ v.receiver \in Values
          /\ v.method \in Methods /\ v.method \in Callables
        BY <1>2, Kinds DEF Callables
    <2>2. Receives(v.receiver, v.method, m) /\ Sound(v.receiver, m)
        BY <1>2, <2>1 DEF Sound, Exists, InstanceValues
    <2>3. /\ Common(p) /\ Len(p.stack) = Len(m.stack) /\ p.frames = frames
          /\ p.stack[Len(m.stack) - n] = v.receiver /\ p.instances = m.instances
        BY <1>1, <2>1, <2>2, PutCommon, PutDown
    <2>4. AfterCallValue(m, v, n) = AfterCall(p, v.method, n)
        BY <1>2 DEF AfterCallValue
    <2> HIDE DEF p
    <2>5. Receives(p.stack[Len(p.stack) - n], v.method, p)
        BY <2>2, <2>3 DEF Receives
    <2>6. Failed(AfterCall(p, v.method, n)) \/ Entered(AfterCall(p, v.method, n), e)
        BY <2>1, <2>3, <2>5, CallOutcome
    <2> QED BY <2>4, <2>6 DEF Outcome
<1>3. CASE v.kind = "class"
    <2>1. v.class \in DOMAIN classes
        BY <1>3 DEF Sound, Exists
    <2>2. AfterCallValue(m, v, n) = AfterCallClass(m, v.class, n)
        BY <1>3 DEF AfterCallValue
    <2> QED BY <2>1, <2>2, CallClassOutcome
<1>4. CASE v.kind = "closure"
    <2>1. v.method \in Callables /\ v.method.class = 0
        BY <1>4, Kinds DEF Callables, Function, Script
    <2>2. AfterCallValue(m, v, n) = AfterCall(m, v.method, n)
        BY <1>4 DEF AfterCallValue
    <2>3. Failed(AfterCall(m, v.method, n)) \/ Entered(AfterCall(m, v.method, n), e)
        BY <2>1, CallOutcome
    <2> QED BY <2>2, <2>3 DEF Outcome
<1>5. CASE v.kind = "native"
    <2> DEFINE p == Pop(m, n + 1)
    <2>1. n + 1 \in 0 .. Len(m.stack) - Base /\ n + 1 \in 0 .. Len(m.stack)
        BY <1>1
    <2>2. Common(p) /\ Len(p.stack) = Len(m.stack) - (n + 1) /\ p.frames = frames
        BY <2>1, PopCommon
    <2>3. Nil \in Values /\ Sound(Nil, p)
        BY DEF Values, Nil, Sound, Exists
    <2>4. AfterCallValue(m, v, n) = Push(p, Nil)
        BY <1>5 DEF AfterCallValue
    <2> HIDE DEF p
    <2>5. Common(Push(p, Nil)) /\ Len(Push(p, Nil).stack) = Len(m.stack) - n /\ Push(p, Nil).frames = frames
        BY <1>1, <2>2, <2>3, PushCommon
    <2> QED BY <2>4, <2>5 DEF Outcome, Steady
<1>6. CASE v.kind \notin {"bound", "class", "closure", "native"}
    <2>1. AfterCallValue(m, v, n) = Failure(m)
        BY <1>6 DEF AfterCallValue
    <2> QED BY <1>1, <2>1, FailureOutcome
<1> QED BY <1>2, <1>3, <1>4, <1>5, <1>6

(* invokeFromClass(): of the receiver's class, or of one above it.         *)
LEMMA InvokeFromClassOutcome ==
    ASSUME NEW m, Common(m), m.frames = frames,
           NEW n \in 0 .. Len(m.stack) - Base - 1, NEW name \in Names,
           NEW v, v = m.stack[Len(m.stack) - n], v.kind = "instance",
           NEW c \in DOMAIN classes, c \in Ancestors(m.instances[v.instance].class),
           NEW e \in Int, Len(m.stack) - n = Len(stack) + e
    PROVE  Outcome(AfterInvokeFromClass(m, c, name, n), e)
<1> DEFINE f == classes[c].methods[name]
<1>1. CASE Has(classes[c].methods, name)
    <2>1. f \in Methods /\ f.class # 0 /\ f.class \in Ancestors(c)
        BY <1>1, Found DEF Common, ClassesHold
    <2>2. f \in Callables /\ Receives(v, f, m)
        BY <2>1, AboveAbove DEF Receives, Callables
    <2>3. AfterInvokeFromClass(m, c, name, n) = AfterCall(m, f, n)
        BY <1>1 DEF AfterInvokeFromClass
    <2> HIDE DEF f
    <2>4. Failed(AfterCall(m, f, n)) \/ Entered(AfterCall(m, f, n), e)
        BY <2>2, CallOutcome
    <2> QED BY <2>3, <2>4 DEF Outcome
<1>2. CASE ~Has(classes[c].methods, name)
    <2>1. AfterInvokeFromClass(m, c, name, n) = Failure(m)
        BY <1>2 DEF AfterInvokeFromClass
    <2> QED BY <2>1, FailureOutcome DEF Common
<1> QED BY <1>1, <1>2

(* invoke().                                                               *)
LEMMA InvokeOutcome ==
    ASSUME NEW m, Common(m), m.frames = frames,
           NEW n \in 0 .. Len(m.stack) - Base - 1, NEW name \in Names,
           NEW e \in Int, Len(m.stack) - n = Len(stack) + e
    PROVE  Outcome(AfterInvoke(m, name, n), e)
<1> DEFINE v == Peek(m, n)
           o == m.instances[v.instance]
<1>1. /\ m \in Machines /\ Len(m.stack) \in Nat /\ Base \in 1 .. Len(m.stack)
      /\ n \in 0 .. Len(m.stack) - 1
    BY Stacks DEF Common
<1>2. v \in Values /\ Sound(v, m) /\ v = m.stack[Len(m.stack) - n]
    BY <1>1, PeekCommon
<1> HIDE DEF v
<1>3. CASE v.kind # "instance"
    <2>1. AfterInvoke(m, name, n) = Failure(m)
        BY <1>3 DEF AfterInvoke, v
    <2> QED BY <1>1, <2>1, FailureOutcome
<1>4. CASE v.kind = "instance"
    <2>1. /\ o \in Instances /\ o.class \in DOMAIN classes
          /\ Has(o.fields, name) => o.fields[name] \in Values /\ Sound(o.fields[name], m)
        BY <1>2, <1>4, InstanceHas
    <2>2. AfterInvoke(m, name, n) =
            IF Has(o.fields, name)
            THEN AfterCallValue(Put(m, n, o.fields[name]), o.fields[name], n)
            ELSE AfterInvokeFromClass(m, o.class, name, n)
        BY <1>4 DEF AfterInvoke, v
    <2>3. CASE Has(o.fields, name)
        <3> DEFINE p == Put(m, n, o.fields[name])
        <3>1. Common(p) /\ Len(p.stack) = Len(m.stack) /\ p.frames = frames /\ p.instances = m.instances
            BY <1>1, <2>1, <2>3, PutCommon, PutDown
        <3> HIDE DEF p
        <3>2. Sound(o.fields[name], p)
            BY <2>1, <2>3, <3>1, SameInstances
        <3>3. Outcome(AfterCallValue(p, o.fields[name], n), e)
            BY <2>1, <2>3, <3>1, <3>2, CallValueOutcome
        <3> QED BY <2>2, <2>3, <3>3 DEF p
    <2>4. CASE ~Has(o.fields, name)
        <3>1. o.class \in Ancestors(o.class)
            BY <2>1 DEF Ancestors
        <3>2. Outcome(AfterInvokeFromClass(m, o.class, name, n), e)
            BY <1>2, <1>4, <2>1, <3>1, InvokeFromClassOutcome
        <3> QED BY <2>2, <2>4, <3>2
    <2> QED BY <2>3, <2>4
<1> QED BY <1>3, <1>4

(* bindMethod(): to a receiver of the class, or of one below it.           *)
LEMMA BindMethodOutcome ==
    ASSUME NEW m, Common(m), m.frames = frames, Base < Len(m.stack), NEW name \in Names,
           NEW v \in Values, v = m.stack[Len(m.stack)], v.kind = "instance",
           NEW c \in DOMAIN classes, c \in Ancestors(m.instances[v.instance].class),
           NEW e \in Int, Len(m.stack) = Len(stack) + e
    PROVE  Outcome(AfterBindMethod(m, c, name), e)
<1> DEFINE f == classes[c].methods[name]
           p == Pop(m, 1)
           b == Bound(v, f)
<1>1. m \in Machines /\ m.stack \in Seq(Values) /\ Len(m.stack) \in Nat /\ Base \in 1 .. Len(m.stack)
    BY Stacks DEF Common
<1>2. CASE Has(classes[c].methods, name)
    <2>1. f \in Methods /\ f.class # 0 /\ f.class \in Ancestors(c)
        BY <1>2, Found DEF Common, ClassesHold
    <2>2. v \in InstanceValues /\ Receives(v, f, m)
        BY <2>1, AboveAbove, Kinds DEF Receives
    <2>3. b \in Values /\ b.kind = "bound" /\ b.receiver = v /\ b.method = f
        BY <2>1, <2>2, MadeValues
    <2>4. AfterBindMethod(m, c, name) = Push(p, b)
        <3>1. Peek(m, 0) = v
            BY <1>1 DEF Peek
        <3> QED BY <1>2, <3>1 DEF AfterBindMethod
    <2>5. /\ Common(p) /\ Len(p.stack) = Len(m.stack) - 1 /\ p.frames = frames /\ p.instances = m.instances
        <3>1. 1 \in 0 .. Len(m.stack) - Base
            BY <1>1
        <3> QED BY <3>1, PopCommon
    <2>6. Len(m.stack) \in DOMAIN m.stack
        BY <1>1
    <2> HIDE DEF f, p, b
    <2>7. v.instance \in DOMAIN m.instances
        BY <2>6 DEF Common, Sound, Exists
    <2>8. Sound(b, p)
        BY <2>2, <2>3, <2>5, <2>7 DEF Sound, Exists, Receives
    <2>9. Common(Push(p, b)) /\ Len(Push(p, b).stack) = Len(m.stack) /\ Push(p, b).frames = frames
        BY <1>1, <2>3, <2>5, <2>8, PushCommon
    <2> QED BY <2>4, <2>9 DEF Outcome, Steady
<1>3. CASE ~Has(classes[c].methods, name)
    <2>1. AfterBindMethod(m, c, name) = Failure(m)
        BY <1>3 DEF AfterBindMethod
    <2> QED BY <1>1, <2>1, FailureOutcome
<1> QED BY <1>2, <1>3

(* GET_PROPERTY.                                                           *)
LEMMA GetPropertyOutcome ==
    ASSUME NEW m, Common(m), m.frames = frames, Base < Len(m.stack), NEW name \in Names,
           NEW e \in Int, Len(m.stack) = Len(stack) + e
    PROVE  Outcome(AfterGetProperty(m, name), e)
<1> DEFINE v == Peek(m, 0)
           o == m.instances[v.instance]
           p == Pop(m, 1)
<1>1. m \in Machines /\ Len(m.stack) \in Nat /\ Base \in 1 .. Len(m.stack)
    BY Stacks DEF Common
<1>2. v \in Values /\ Sound(v, m) /\ v = m.stack[Len(m.stack)]
    <2>1. 0 \in 0 .. Len(m.stack) - 1 /\ Len(m.stack) - 0 = Len(m.stack)
        BY <1>1
    <2> QED BY <2>1, PeekCommon
<1> HIDE DEF v
<1>3. CASE v.kind # "instance"
    <2>1. AfterGetProperty(m, name) = Failure(m)
        BY <1>3 DEF AfterGetProperty, v
    <2> QED BY <1>1, <2>1, FailureOutcome
<1>4. CASE v.kind = "instance"
    <2>1. /\ o \in Instances /\ o.class \in DOMAIN classes
          /\ Has(o.fields, name) => o.fields[name] \in Values /\ Sound(o.fields[name], m)
        BY <1>2, <1>4, InstanceHas
    <2>2. AfterGetProperty(m, name) =
            IF Has(o.fields, name) THEN Push(p, o.fields[name])
            ELSE AfterBindMethod(m, o.class, name)
        BY <1>4 DEF AfterGetProperty, v
    <2>3. CASE Has(o.fields, name)
        <3>1. /\ Common(p) /\ Len(p.stack) = Len(m.stack) - 1 /\ p.frames = frames /\ p.instances = m.instances
            <4>1. 1 \in 0 .. Len(m.stack) - Base
                BY <1>1
            <4> QED BY <4>1, PopCommon
        <3> HIDE DEF p
        <3>2. PICK w \in Values : w = o.fields[name]
            BY <2>1, <2>3
        <3>3. Sound(w, p)
            BY <2>1, <2>3, <3>1, <3>2, SameInstances
        <3>4. Common(Push(p, w)) /\ Len(Push(p, w).stack) = Len(m.stack) /\ Push(p, w).frames = frames
            BY <1>1, <3>1, <3>3, PushCommon
        <3> QED BY <2>2, <2>3, <3>2, <3>4 DEF Outcome, Steady
    <2>4. CASE ~Has(o.fields, name)
        <3>1. o.class \in Ancestors(o.class)
            BY <2>1 DEF Ancestors
        <3>2. Outcome(AfterBindMethod(m, o.class, name), e)
            BY <1>2, <1>4, <2>1, <3>1, BindMethodOutcome
        <3> QED BY <2>2, <2>4, <3>2
    <2> QED BY <2>3, <2>4
<1> QED BY <1>3, <1>4

(* A field is set: the instances keep their classes.                       *)
LEMMA FieldSet ==
    ASSUME NEW p, Common(p), NEW i \in DOMAIN p.instances, NEW name \in Names,
           NEW w \in Values, Sound(w, p)
    PROVE  LET k == [p EXCEPT !.instances[i].fields = With(@, name, w)] IN
           Common(k) /\ k.frames = p.frames /\ k.stack = p.stack
<1> DEFINE o == p.instances[i]
           t == With(o.fields, name, w)
           q == [o EXCEPT !.fields = t]
           s == [p.instances EXCEPT ![i] = q]
           k == [p EXCEPT !.instances = s]
<1>1. /\ p \in Machines /\ p.ok /\ p.instances \in Seq(Instances) /\ p.stack \in Seq(Values)
    BY Stacks DEF Common
<1>2. o \in Instances /\ o.fields \in Tables(Values)
    <2>1. o \in Instances
        BY <1>1
    <2> QED BY <2>1 DEF Instances
<1>3. t \in Tables(Values) /\ \A x \in Names : t[x] = IF x = name THEN w ELSE o.fields[x]
    BY <1>2 DEF With, Tables
<1>4. [p EXCEPT !.instances[i].fields = With(@, name, w)] = k
    OBVIOUS
<1> HIDE DEF t
<1>5. q \in Instances /\ q.class = o.class /\ q.fields = t
    BY <1>2, <1>3 DEF Instances
<1> HIDE DEF o, q
<1>6. /\ s \in Seq(Instances) /\ DOMAIN s = DOMAIN p.instances /\ Len(s) = Len(p.instances)
      /\ s[i] = q /\ \A j \in DOMAIN s : j # i => s[j] = p.instances[j]
    BY <1>1, <1>5
<1> HIDE DEF s
<1>7. k \in Machines /\ k.ok = p.ok /\ k.frames = p.frames /\ k.instances = s /\ k.stack = p.stack
    BY <1>1, <1>6 DEF Machines
<1> HIDE DEF k
<1>8. \A j \in DOMAIN p.instances : k.instances[j].class = p.instances[j].class
    BY <1>5, <1>6, <1>7 DEF o
<1>9. Len(p.instances) <= Len(k.instances) /\ k.instances \in Seq(Instances)
    BY <1>1, <1>6, <1>7
<1>10. ASSUME NEW v \in Values, Sound(v, p)
       PROVE  Sound(v, k)
    BY <1>1, <1>8, <1>9, <1>10, SoundStays
<1>11. ASSUME NEW j \in DOMAIN k.stack
       PROVE  Sound(k.stack[j], k)
    <2>1. j \in DOMAIN p.stack /\ k.stack[j] = p.stack[j] /\ p.stack[j] \in Values
        BY <1>1, <1>7
    <2> QED BY <1>10, <2>1 DEF Common
<1>12. ASSUME NEW j \in DOMAIN k.instances
       PROVE  k.instances[j].class \in DOMAIN classes /\ \A x \in Names : Sound(k.instances[j].fields[x], k)
    <2>1. j \in DOMAIN p.instances /\ p.instances[j] \in Instances
        BY <1>1, <1>6, <1>7
    <2>2. k.instances[j].class \in DOMAIN classes
        BY <1>8, <2>1 DEF Common, Objects
    <2>3. ASSUME NEW x \in Names
          PROVE  Sound(k.instances[j].fields[x], k)
        <3>1. CASE j = i /\ x = name
            BY <1>3, <1>5, <1>6, <1>7, <1>10, <3>1
        <3>2. CASE ~(j = i /\ x = name)
            <4>1. k.instances[j].fields[x] = p.instances[j].fields[x]
                BY <1>3, <1>5, <1>6, <1>7, <2>1, <3>2 DEF o
            <4>2. Sound(p.instances[j].fields[x], p) /\ p.instances[j].fields[x] \in Values \cup {None}
                BY <2>1 DEF Common, Objects, Instances, Tables
            <4>3. Sound(None, k)
                BY DEF Sound, Exists, None
            <4> QED BY <1>10, <4>1, <4>2, <4>3
        <3> QED BY <3>1, <3>2
    <2> QED BY <2>2, <2>3
<1>13. Objects(k)
    BY <1>12 DEF Objects
<1>14. Grown(k)
    BY <1>1, <1>6, <1>7, <1>8 DEF Grown, Common
<1>15. Common(k)
    BY <1>1, <1>7, <1>11, <1>13, <1>14 DEF Common
<1> QED BY <1>4, <1>7, <1>15

(* SET_PROPERTY.                                                           *)
LEMMA SetPropertyOutcome ==
    ASSUME NEW m, Common(m), m.frames = frames, Base + 1 < Len(m.stack), NEW name \in Names,
           NEW e \in Int, Len(m.stack) = Len(stack) + e + 1
    PROVE  Outcome(AfterSetProperty(m, name), e)
<1> DEFINE v == Peek(m, 1)
           w == Peek(m, 0)
           q == Pop(m, 2)
           p == Push(q, w)
<1>1. m \in Machines /\ Len(m.stack) \in Nat /\ Base \in 1 .. Len(m.stack)
    BY Stacks DEF Common
<1>2. 0 \in 0 .. Len(m.stack) - 1 /\ 1 \in 0 .. Len(m.stack) - 1 /\ 2 \in 0 .. Len(m.stack) - Base
    BY <1>1
<1>3. v \in Values /\ Sound(v, m) /\ w \in Values /\ Sound(w, m)
    BY <1>2, PeekCommon
<1>4. CASE v.kind # "instance"
    <2>1. AfterSetProperty(m, name) = Failure(m)
        BY <1>4 DEF AfterSetProperty
    <2> QED BY <1>1, <2>1, FailureOutcome
<1>5. CASE v.kind = "instance"
    <2>1. AfterSetProperty(m, name) = [p EXCEPT !.instances[v.instance].fields = With(@, name, w)]
        BY <1>5 DEF AfterSetProperty
    <2> HIDE DEF v, w
    <2>2. Common(q) /\ Len(q.stack) = Len(m.stack) - 2 /\ q.frames = frames /\ q.instances = m.instances
        BY <1>2, PopCommon
    <2> HIDE DEF q
    <2>3. Sound(w, q)
        BY <1>3, <2>2, SameInstances
    <2>4. Common(p) /\ Len(p.stack) = Len(m.stack) - 1 /\ p.frames = frames /\ p.instances = m.instances
        BY <1>1, <1>3, <2>2, <2>3, PushCommon
    <2> HIDE DEF p
    <2>5. Sound(w, p) /\ v.instance \in DOMAIN p.instances
        BY <1>3, <1>5, <2>4, SameInstances DEF Sound, Exists
    <2> DEFINE k == [p EXCEPT !.instances[v.instance].fields = With(@, name, w)]
    <2>6. Common(k) /\ k.frames = frames /\ k.stack = p.stack
        BY <1>3, <2>4, <2>5, FieldSet
    <2> HIDE DEF k
    <2>7. Len(k.stack) = Len(stack) + e
        <3>1. Len(stack) + e = Len(m.stack) - 1
            BY <1>1
        <3> QED BY <2>4, <2>6, <3>1
    <2>8. Steady(k, e)
        BY <2>6, <2>7 DEF Steady
    <2> QED BY <2>1, <2>8 DEF Outcome, k
<1> QED BY <1>4, <1>5

(* What a method with a superclass knows of it: `this' is of a class below. *)
LEMMA SuperHolds ==
    ASSUME Inv, MaySuper
    PROVE  LET c == classes[Frame.method.class].super IN
           /\ c \in DOMAIN classes
           /\ This.kind = "instance" /\ This.instance \in DOMAIN instances
           /\ c \in Ancestors(instances[This.instance].class)
           /\ ClassValue(c) \in Values /\ ClassValue(c).class = c
           /\ \A m \in Machines : Pop(WithSuper(m), 1) = m /\ Peek(WithSuper(m), 0).class = c
<1> DEFINE d == Frame.method.class
           c == classes[d].super
<1>1. frames # <<>> /\ d # 0 /\ c # 0
    BY DEF MaySuper, Running, InMethod
<1>2. FrameHolds(Frame, Machine) /\ Common(Machine) /\ Frame.slots \in 1 .. Len(stack)
    BY <1>1, RunningHolds
<1>3. Machine.stack = stack /\ Machine.instances = instances
    BY DEF Machine
<1>4. Receives(This, Frame.method, Machine)
    BY <1>1, <1>2, <1>3 DEF FrameHolds, This
<1>5. This.kind = "instance" /\ d \in Ancestors(instances[This.instance].class)
    BY <1>3, <1>4 DEF Receives
<1>6. Sound(This, Machine)
    <2>1. DOMAIN stack = 1 .. Len(stack)
        BY <1>2, <1>3, Stacks DEF Common
    <2> QED BY <1>2, <1>3, <2>1 DEF Common, This
<1>7. This.instance \in DOMAIN instances
    BY <1>3, <1>5, <1>6 DEF Sound, Exists
<1>8. d \in DOMAIN classes
    BY <1>5 DEF Ancestors
<1>9. c \in DOMAIN classes /\ c \in Ancestors(d)
    <2>1. c \in DOMAIN classes /\ Ancestors(d) = {d} \cup Ancestors(c)
        BY <1>1, <1>2, <1>8, Above DEF Common, ClassesHold
    <2>2. c \in Ancestors(c)
        BY <2>1 DEF Ancestors
    <2> QED BY <2>1, <2>2
<1>10. c \in Ancestors(instances[This.instance].class)
    BY <1>5, <1>9, AboveAbove
<1>11. ClassValue(c) \in Values /\ ClassValue(c).class = c
    <2>1. c \in Nat
        BY <1>2, <1>9 DEF Common, ClassesHold
    <2> QED BY <2>1, MadeValues
<1>12. ASSUME NEW m \in Machines
       PROVE  Pop(WithSuper(m), 1) = m /\ Peek(WithSuper(m), 0).class = c
    <2>1. WithSuper(m) = Push(m, ClassValue(c))
        BY DEF WithSuper
    <2> HIDE DEF c
    <2> QED BY <1>11, <2>1, PushedAndPopped
<1> QED BY <1>5, <1>7, <1>9, <1>10, <1>11, <1>12

LEMMA GetSuperOutcome ==
    ASSUME Inv, MaySuper, Temporaries > 0, Peek(Machine, 0) = This, NEW name \in Names
    PROVE  Outcome(AfterGetSuper(WithSuper(Machine), name), 0)
<1> DEFINE c == classes[Frame.method.class].super
<1>1. frames # <<>>
    BY DEF MaySuper, Running
<1>2. /\ Common(Machine) /\ Machine \in Machines /\ Machine.stack = stack /\ Machine.frames = frames
      /\ Machine.instances = instances /\ Len(stack) \in Nat /\ Base \in 1 .. Len(stack) /\ Base < Len(stack)
    <2>1. Common(Machine) /\ Len(stack) \in Nat /\ Base \in 1 .. Len(stack) /\ Temporaries = Len(stack) - Base
        BY <1>1, RunningHolds
    <2>2. Base < Len(stack)
        BY <2>1
    <2> QED BY <2>1, <2>2, MachineIs DEF Common
<1>3. /\ c \in DOMAIN classes /\ This.kind = "instance"
      /\ c \in Ancestors(instances[This.instance].class)
      /\ Pop(WithSuper(Machine), 1) = Machine /\ Peek(WithSuper(Machine), 0).class = c
    BY <1>2, SuperHolds
<1>4. AfterGetSuper(WithSuper(Machine), name) = AfterBindMethod(Machine, c, name)
    BY <1>3 DEF AfterGetSuper
<1>5. This \in Values /\ This = stack[Len(stack)]
    <2>1. 0 \in 0 .. Len(stack) - 1 /\ Len(stack) - 0 = Len(stack)
        BY <1>2
    <2> QED BY <1>2, <2>1, PeekCommon
<1> HIDE DEF c
<1>6. Len(stack) = Len(stack) + 0 /\ 0 \in Int
    BY <1>2
<1>7. Outcome(AfterBindMethod(Machine, c, name), 0)
    BY <1>2, <1>3, <1>5, <1>6, BindMethodOutcome
<1> QED BY <1>4, <1>7

LEMMA SuperInvokeOutcome ==
    ASSUME Inv, MaySuper, NEW n \in Arguments, Peek(Machine, n) = This, NEW name \in Names
    PROVE  Outcome(AfterSuperInvoke(WithSuper(Machine), name, n), 1 - (n + 1))
<1> DEFINE c == classes[Frame.method.class].super
<1>1. frames # <<>>
    BY DEF MaySuper, Running
<1>2. /\ Common(Machine) /\ Machine \in Machines /\ Machine.stack = stack /\ Machine.frames = frames
      /\ Machine.instances = instances /\ Len(stack) \in Nat /\ Base \in 1 .. Len(stack)
      /\ n \in 0 .. Len(stack) - Base - 1 /\ n \in 0 .. Len(stack) - 1
    <2>1. Common(Machine) /\ Len(stack) \in Nat /\ Base \in 1 .. Len(stack) /\ Temporaries = Len(stack) - Base
        BY <1>1, RunningHolds
    <2>2. n \in 0 .. Len(stack) - Base - 1 /\ n \in 0 .. Len(stack) - 1
        BY <2>1 DEF Arguments
    <2> QED BY <2>1, <2>2, MachineIs DEF Common
<1>3. /\ c \in DOMAIN classes /\ This.kind = "instance"
      /\ c \in Ancestors(instances[This.instance].class)
      /\ Pop(WithSuper(Machine), 1) = Machine /\ Peek(WithSuper(Machine), 0).class = c
    BY <1>2, SuperHolds
<1>4. AfterSuperInvoke(WithSuper(Machine), name, n) = AfterInvokeFromClass(Machine, c, name, n)
    BY <1>3 DEF AfterSuperInvoke
<1>5. This = stack[Len(stack) - n]
    BY <1>2, PeekCommon
<1> HIDE DEF c
<1>6. Len(stack) - n = Len(stack) + (1 - (n + 1)) /\ 1 - (n + 1) \in Int
    BY <1>2
<1>7. Outcome(AfterInvokeFromClass(Machine, c, name, n), 1 - (n + 1))
    BY <1>2, <1>3, <1>5, <1>6, InvokeFromClassOutcome
<1> QED BY <1>4, <1>7

-----------------------------------------------------------------------------
(* What the invariant says of a machine.                                   *)

HeightsHold(k) ==
    /\ k.frames = <<>> => k.stack = <<>>
    /\ k.frames # <<>> => LET f == k.frames[Len(k.frames)] IN Len(k.stack) = f.slots + f.height - 1
    /\ \A f \in 1 .. Len(k.frames) - 1 :
        k.frames[f + 1].slots = k.frames[f].slots + k.frames[f].height - 1

AllFramesHold(k) ==
    /\ \A f \in DOMAIN k.frames : FrameHolds(k.frames[f], k)
    /\ \A f, g \in DOMAIN k.frames :
        f < g => k.frames[f].slots + Parameters(k.frames[f].method) < k.frames[g].slots
    /\ k.frames # <<>> =>
        /\ k.frames[1].method = Script /\ k.frames[1].slots = 1 /\ k.stack[1] = Closure(Script)

MachineHolds(k) ==
    /\ k \in Machines
    /\ \A i \in DOMAIN k.stack : Sound(k.stack[i], k)
    /\ Objects(k)
    /\ AllFramesHold(k) /\ HeightsHold(k)
    /\ Len(k.stack) <= 1 => k.instances = <<>>

LEMMA MachineOfInv ==
    ASSUME Inv
    PROVE  MachineHolds(Machine)
<1>1. AllFramesHold(Machine)
    BY MachineIs DEF AllFramesHold, Inv, FramesHold
<1>2. HeightsHold(Machine)
    BY MachineIs DEF HeightsHold, Inv, HeightsMatch, Frame
<1> QED BY <1>1, <1>2, MachineIs DEF MachineHolds, Inv, Types, NothingRemains

(* While classes stay, so does what is above them, and what is sound.      *)
LEMMA ClassesStay ==
    ASSUME classes' = classes
    PROVE  /\ \A c : Ancestors(c)' = Ancestors(c)
           /\ \A v, m : Sound(v, m)' <=> Sound(v, m)
           /\ \A v, f, m : Receives(v, f, m)' <=> Receives(v, f, m)
<1>1. ASSUME NEW S
      PROVE  Closed(S)' <=> Closed(S)
    BY DEF Closed
<1>2. ASSUME NEW c
      PROVE  Ancestors(c)' = Ancestors(c)
    BY <1>1 DEF Ancestors
<1>3. ASSUME NEW v, NEW f, NEW m
      PROVE  Receives(v, f, m)' <=> Receives(v, f, m)
    BY <1>2 DEF Receives
<1>4. ASSUME NEW v, NEW m
      PROVE  Sound(v, m)' <=> Sound(v, m)
    BY <1>3 DEF Sound, Exists
<1> QED BY <1>2, <1>3, <1>4

(* The machine and the rest of the state make the invariant.               *)
LEMMA InvOfMachine ==
    ASSUME Inv, NEW k, k = Machine', MachineHolds(k),
           UNCHANGED <<classes, globals, declaration>>, declaration = NoDeclaration
    PROVE  Inv'
<1>1. k.stack = stack' /\ k.frames = frames' /\ k.instances = instances'
    BY DEF Machine
<1>2. Types'
    BY DEF Types, Inv, MachineHolds
<1>3. (\A i \in DOMAIN stack : Sound(stack[i], Machine))'
    BY <1>1, ClassesStay DEF MachineHolds
<1>4. Objects(Machine)'
    BY <1>1, ClassesStay DEF MachineHolds, Objects
<1>5. FramesHold'
    <2>1. (\A f \in DOMAIN frames : FrameHolds(frames[f], Machine))'
        BY <1>1, ClassesStay DEF MachineHolds, AllFramesHold, FrameHolds
    <2> QED BY <1>1, <2>1 DEF MachineHolds, AllFramesHold, FramesHold
<1>6. HeightsMatch'
    BY <1>1 DEF MachineHolds, HeightsHold, HeightsMatch, Frame
<1>7. NothingRemains'
    BY <1>1 DEF MachineHolds, NothingRemains
<1>8. Chain' /\ GlobalsHold' /\ DeclarationGoes'
    BY DEF Inv, Chain, GlobalsHold, DeclarationGoes
<1>9. MethodsAreInherited'
    BY ClassesStay DEF Inv, MethodsAreInherited, Declaring
<1> QED BY <1>2, <1>3, <1>4, <1>5, <1>6, <1>7, <1>8, <1>9 DEF Inv

-----------------------------------------------------------------------------
(* The steps of a program.                                                 *)

(* The frames that were there find on m's stack what they found before.    *)
LEMMA OldFrames ==
    ASSUME Inv, frames # <<>>, NEW m, Common(m), NEW i \in DOMAIN frames
    PROVE  /\ FrameHolds(frames[i], m) /\ frames[i] \in CallFrames
           /\ frames[i].slots \in 1 .. Base
           /\ frames[i].slots + Parameters(frames[i].method) <= Base
           /\ i # Len(frames) => frames[i].slots + Parameters(frames[i].method) < Frame.slots
<1> DEFINE f == frames[i]
<1>1. /\ Machine \in Machines /\ frames \in Seq(CallFrames) /\ stack \in Seq(Values)
      /\ instances \in Seq(Instances)
    BY MachineIs, Stacks DEF Inv, Types
<1>2. f \in CallFrames /\ i \in 1 .. Len(frames)
    BY <1>1
<1>3. Parameters(f.method) \in Nat /\ f.slots \in Nat
    BY <1>2, ParametersAreNatural DEF CallFrames
<1>4. FrameHolds(f, Machine)
    BY DEF Inv, FramesHold
<1>5. Frame.slots \in 1 .. Base /\ Base \in 1 .. Len(stack) /\ Parameters(Frame.method) \in Nat
      /\ Len(stack) \in Nat
      /\ Len(frames) \in DOMAIN frames /\ Len(frames) \in Nat
    BY <1>1, RunningHolds
<1>6. i # Len(frames) => f.slots + Parameters(f.method) < Frame.slots
    <2>1. i < Len(frames) => f.slots + Parameters(f.method) < frames[Len(frames)].slots
        BY <1>5 DEF Inv, FramesHold
    <2> QED BY <1>2, <1>5, <2>1 DEF Frame
<1>7. f.slots + Parameters(f.method) <= Base
    BY <1>3, <1>5, <1>6 DEF Base, Frame
<1>8. f.slots \in 1 .. Base
    <2>1. f.slots >= 1
        BY <1>4, <1>5, MachineIs DEF FrameHolds
    <2> QED BY <1>3, <1>5, <1>7, <2>1
<1>9. m.stack[f.slots] = stack[f.slots] /\ f.slots \in DOMAIN stack /\ Base \in 1 .. Len(m.stack)
    BY <1>1, <1>5, <1>8 DEF Common
<1>10. m \in Machines /\ Len(m.stack) \in Nat
    BY Stacks DEF Common
<1> HIDE DEF f
<1>11. f.slots \in 1 .. Len(m.stack) /\ f.slots + Parameters(f.method) <= Len(m.stack)
    BY <1>3, <1>5, <1>7, <1>8, <1>9, <1>10
<1>12. f.method.class # 0 => Receives(m.stack[f.slots], f.method, m)
    <2>1. Exists(stack[f.slots], Machine)
        BY <1>9 DEF Inv, Sound
    <2>2. f.method.class # 0 => Receives(stack[f.slots], f.method, Machine)
        BY <1>4, MachineIs DEF FrameHolds
    <2>3. \A j \in DOMAIN Machine.instances : m.instances[j].class = Machine.instances[j].class
        BY MachineIs DEF Common, Grown
    <2> QED BY <1>9, <2>1, <2>2, <2>3, ReceivesStays
<1>13. f.made # 0 => IsInitializer(f.method) /\ m.stack[f.slots] = Instance(f.made)
    BY <1>4, <1>9, MachineIs DEF FrameHolds
<1>14. FrameHolds(f, m)
    BY <1>11, <1>12, <1>13 DEF FrameHolds
<1> QED BY <1>2, <1>6, <1>7, <1>8, <1>14 DEF f

(* A frame is the same but for its height.                                 *)
LEMMA FrameStays ==
    ASSUME NEW f, NEW g, g.method = f.method, g.slots = f.slots, g.made = f.made,
           NEW m, FrameHolds(f, m), NEW k, k.stack = m.stack, k.instances = m.instances
    PROVE  FrameHolds(g, k)
BY DEF FrameHolds, Receives

(* The frames t are the frames s, but for e that is added to the height of  *)
(* frame n.                                                                *)
Accounts(s, t, n, e) ==
    /\ t \in Seq(CallFrames) /\ Len(t) = Len(s) /\ DOMAIN t = 1 .. Len(s) /\ DOMAIN s = 1 .. Len(s)
    /\ t[n].height = s[n].height + e
    /\ \A i \in DOMAIN s :
        /\ t[i].method = s[i].method /\ t[i].slots = s[i].slots /\ t[i].made = s[i].made
        /\ i # n => t[i].height = s[i].height

LEMMA HeightChanges ==
    ASSUME NEW s \in Seq(CallFrames), NEW n \in DOMAIN s, NEW e \in Int, s[n].height + e \in Nat,
           NEW t, t = [s EXCEPT ![n].height = @ + e]
    PROVE  Accounts(s, t, n, e)
<1>1. s[n] \in CallFrames
    OBVIOUS
<1>2. PICK g : g = [s[n] EXCEPT !.height = @ + e]
    OBVIOUS
<1>3. g \in CallFrames /\ g.height = s[n].height + e
      /\ g.method = s[n].method /\ g.slots = s[n].slots /\ g.made = s[n].made
    BY <1>1, <1>2 DEF CallFrames
<1>4. t = [s EXCEPT ![n] = g]
    BY <1>2
<1>5. t \in Seq(CallFrames) /\ Len(t) = Len(s) /\ DOMAIN t = 1 .. Len(s) /\ DOMAIN s = 1 .. Len(s)
      /\ t[n] = g /\ \A i \in DOMAIN s : i # n => t[i] = s[i]
    BY <1>3, <1>4
<1> QED BY ONLY <1>3, <1>5, n \in DOMAIN s DEF Accounts

LEMMA EmptyHolds ==
    ASSUME NEW k \in Machines, k.stack = <<>>, k.frames = <<>>, k.instances = <<>>
    PROVE  MachineHolds(k)
<1>1. DOMAIN k.stack = {} /\ DOMAIN k.frames = {} /\ DOMAIN k.instances = {}
    OBVIOUS
<1>2. 1 .. Len(k.frames) - 1 = {}
    OBVIOUS
<1> QED BY <1>1, <1>2 DEF MachineHolds, Objects, AllFramesHold, HeightsHold

(* The frame that was entered.                                             *)
LEMMA EnteredFrame ==
    ASSUME NEW m, NEW e, frames \in Seq(CallFrames), Entered(m, e)
    PROVE  \E f \in CallFrames :
            /\ m.frames = Append(frames, f) /\ FrameHolds(f, m)
            /\ f.height = Parameters(f.method) + 1
            /\ Base < f.slots /\ f.slots = Len(stack) + e
            /\ Len(m.stack) = f.slots + Parameters(f.method)
            /\ f.slots \in Nat /\ Parameters(f.method) \in Nat
            /\ Len(m.frames) = Len(frames) + 1 /\ DOMAIN m.frames = 1 .. Len(frames) + 1
            /\ m.frames[Len(frames) + 1] = f
            /\ \A i \in 1 .. Len(frames) : m.frames[i] = frames[i]
<1>1. PICK f \in CallFrames :
        /\ m.frames = Append(frames, f) /\ FrameHolds(f, m)
        /\ f.height = Parameters(f.method) + 1
        /\ Base < f.slots /\ f.slots = Len(stack) + e
        /\ Len(m.stack) = f.slots + Parameters(f.method)
    BY DEF Entered
<1>2. f.slots \in Nat /\ Parameters(f.method) \in Nat
    BY ParametersAreNatural DEF CallFrames
<1>3. /\ Len(m.frames) = Len(frames) + 1 /\ DOMAIN m.frames = 1 .. Len(frames) + 1
      /\ m.frames[Len(frames) + 1] = f
      /\ \A i \in 1 .. Len(frames) : m.frames[i] = frames[i]
    BY <1>1
<1> QED BY <1>1, <1>2, <1>3

(* What is known of the machine that a handler leaves, and its frames.     *)
LEMMA SettledFrames ==
    ASSUME Inv, Running, NEW m, NEW e \in Int, Steady(m, e) \/ Entered(m, e)
    PROVE  LET L == Len(frames) IN
           /\ Common(m) /\ m \in Machines /\ m.stack \in Seq(Values)
           /\ Len(m.stack) \in Nat /\ DOMAIN m.stack = 1 .. Len(m.stack)
           /\ frames \in Seq(CallFrames) /\ DOMAIN frames = 1 .. L /\ frames # <<>>
           /\ L \in Nat /\ L > 0 /\ L \in DOMAIN frames /\ Len(stack) \in Nat
           /\ Frame.slots \in 1 .. Base /\ Base \in 1 .. Len(stack) /\ Base \in 1 .. Len(m.stack)
           /\ Len(stack) = Frame.slots + Frame.height - 1
           /\ m.frames \in Seq(CallFrames)
           /\ L \in DOMAIN m.frames /\ DOMAIN m.frames = 1 .. Len(m.frames) /\ Len(m.frames) \in Nat
           /\ \A i \in 1 .. L : m.frames[i] = frames[i]
           /\ Len(m.frames) >= L
           /\ m.frames[L] = Frame /\ Frame.height \in Nat /\ Frame.height + e \in Nat
<1> DEFINE L == Len(frames)
<1>1. /\ Common(m) /\ m \in Machines /\ m.stack \in Seq(Values) /\ Len(m.stack) \in Nat /\ DOMAIN m.stack = 1 .. Len(m.stack)
      /\ m.frames \in Seq(CallFrames) /\ Machine \in Machines
    BY Stacks DEF Steady, Entered, Common, Inv, Types
<1>2. /\ frames \in Seq(CallFrames) /\ DOMAIN frames = 1 .. L /\ frames # <<>>
    BY <1>1, Stacks, MachineIs DEF Running
<1>3. /\ L \in Nat /\ L > 0 /\ L \in DOMAIN frames /\ Len(stack) \in Nat
      /\ Frame.slots \in 1 .. Base /\ Base \in 1 .. Len(stack) /\ Base \in 1 .. Len(m.stack)
      /\ Frame \in CallFrames /\ Len(stack) = Frame.slots + Frame.height - 1
    BY <1>1, <1>2, RunningHolds DEF Common
<1>4. /\ L \in DOMAIN m.frames /\ DOMAIN m.frames = 1 .. Len(m.frames) /\ Len(m.frames) \in Nat
      /\ \A i \in 1 .. L : m.frames[i] = frames[i]
      /\ Len(m.frames) >= L
    <2>1. DOMAIN m.frames = 1 .. Len(m.frames) /\ Len(m.frames) \in Nat
        BY <1>1
    <2>2. CASE Steady(m, e)
        BY <1>2, <1>3, <2>1, <2>2 DEF Steady
    <2>3. CASE Entered(m, e)
        <3>1. Len(m.frames) = L + 1 /\ \A i \in 1 .. L : m.frames[i] = frames[i]
            BY <1>2, <2>3, EnteredFrame
        <3> QED BY <1>3, <2>1, <3>1
    <2> QED BY <2>2, <2>3
<1>5. m.frames[L] = Frame
    BY <1>2, <1>3, <1>4 DEF Frame
<1>6. Frame.height \in Nat /\ Frame.slots \in Nat
    BY <1>3 DEF CallFrames
<1>7. Frame.height + e \in Nat
    <2>1. CASE Steady(m, e)
        BY <1>3, <1>6, <2>1 DEF Steady
    <2>2. CASE Entered(m, e)
        <3>1. PICK f \in CallFrames : Base < f.slots /\ f.slots = Len(stack) + e
            BY <2>2 DEF Entered
        <3> QED BY <1>3, <1>6, <3>1 DEF CallFrames
    <2> QED BY <2>1, <2>2
<1> QED BY <1>1, <1>2, <1>3, <1>4, <1>5, <1>6, <1>7

(* The machine that m leaves, with the frame's account kept.               *)
LEMMA SettledHolds ==
    ASSUME Inv, Running, NEW m, NEW e \in Int, Steady(m, e) \/ Entered(m, e),
           NEW k \in Machines, k.stack = m.stack, k.instances = Reached(m),
           Accounts(m.frames, k.frames, Len(frames), e)
    PROVE  MachineHolds(k) /\ Len(k.frames) >= Len(frames)
<1> DEFINE L == Len(frames)
<1>1. /\ Common(m) /\ m \in Machines /\ m.stack \in Seq(Values) /\ Len(m.stack) \in Nat /\ DOMAIN m.stack = 1 .. Len(m.stack)
    BY SettledFrames
<1>2. /\ frames \in Seq(CallFrames) /\ DOMAIN frames = 1 .. L /\ frames # <<>>
    BY SettledFrames
<1>3. /\ L \in Nat /\ L > 0 /\ L \in DOMAIN frames /\ Len(stack) \in Nat
      /\ Frame.slots \in 1 .. Base /\ Base \in 1 .. Len(stack) /\ Base \in 1 .. Len(m.stack)
      /\ Len(stack) = Frame.slots + Frame.height - 1
    BY SettledFrames
<1>4. /\ L \in DOMAIN m.frames /\ DOMAIN m.frames = 1 .. Len(m.frames) /\ Len(m.frames) \in Nat
      /\ \A i \in 1 .. L : m.frames[i] = frames[i]
      /\ Len(m.frames) >= L /\ m.frames \in Seq(CallFrames)
    BY SettledFrames
<1>5. /\ m.frames[L] = Frame /\ Frame.height \in Nat /\ Frame.height + e \in Nat
    BY SettledFrames
<1>6. /\ k.frames \in Seq(CallFrames) /\ Len(k.frames) = Len(m.frames)
      /\ DOMAIN k.frames = 1 .. Len(m.frames)
      /\ k.frames[L].height = Frame.height + e
      /\ \A i \in DOMAIN m.frames :
            /\ k.frames[i].method = m.frames[i].method /\ k.frames[i].slots = m.frames[i].slots
            /\ k.frames[i].made = m.frames[i].made
            /\ i # L => k.frames[i].height = m.frames[i].height
    BY <1>5 DEF Accounts
<1>7. CASE Len(m.stack) > 1
    <2>1. k.instances = m.instances
        BY <1>1, <1>7 DEF Reached
    <2>2. \A i \in DOMAIN k.stack : Sound(k.stack[i], k)
        BY <1>1, <2>1, SameInstances DEF Common
    <2>3. Objects(k)
        BY <1>1, <2>1, ObjectsStay DEF Common
    <2>4. ASSUME NEW i \in DOMAIN k.frames
          PROVE  FrameHolds(k.frames[i], k)
        <3>1. FrameHolds(m.frames[i], m)
            <4>1. CASE i \in 1 .. L
                BY <1>1, <1>2, <1>4, <4>1, OldFrames
            <4>2. CASE i \notin 1 .. L
                <5>1. Entered(m, e)
                    BY <1>4, <1>6, <4>2 DEF Steady
                <5>2. FrameHolds(m.frames[L + 1], m) /\ Len(m.frames) = L + 1
                    BY <1>2, <5>1, EnteredFrame
                <5>3. i = L + 1
                    BY <1>3, <1>6, <4>2, <5>2
                <5> QED BY <5>2, <5>3
            <4> QED BY <4>1, <4>2
        <3>2. /\ k.frames[i].method = m.frames[i].method /\ k.frames[i].slots = m.frames[i].slots
              /\ k.frames[i].made = m.frames[i].made
            BY <1>4, <1>6
        <3> QED BY <2>1, <3>1, <3>2, FrameStays
    <2>5. ASSUME NEW i \in DOMAIN k.frames, NEW j \in DOMAIN k.frames, i < j
          PROVE  k.frames[i].slots + Parameters(k.frames[i].method) < k.frames[j].slots
        <3>1. m.frames[i].slots + Parameters(m.frames[i].method) < m.frames[j].slots
            <4>1. CASE j \in 1 .. L
                <5>1. i \in 1 .. L /\ j \in 1 .. L /\ m.frames[i] = frames[i] /\ m.frames[j] = frames[j]
                    BY <1>3, <1>4, <1>6, <2>5, <4>1
                <5> QED BY <1>2, <2>5, <5>1 DEF Inv, FramesHold
            <4>2. CASE j \notin 1 .. L
                <5>1. Entered(m, e) /\ j = L + 1 /\ i \in 1 .. L
                    <6>1. Entered(m, e)
                        BY <1>4, <1>6, <4>2 DEF Steady
                    <6>2. Len(m.frames) = L + 1
                        BY <1>2, <6>1, EnteredFrame
                    <6>3. j = L + 1 /\ i \in 1 .. L
                        BY <1>3, <1>6, <2>5, <4>2, <6>2
                    <6> QED BY <6>1, <6>3
                <5>2. Base < m.frames[j].slots
                    BY <1>2, <5>1, EnteredFrame
                <5>3. frames[i].slots + Parameters(frames[i].method) <= Base /\ frames[i] \in CallFrames
                    BY <1>1, <1>2, <5>1, OldFrames
                <5>4. frames[i].slots \in Nat /\ Parameters(frames[i].method) \in Nat
                    BY <5>3, ParametersAreNatural DEF CallFrames
                <5>5. m.frames[j].slots \in Nat
                    <6>1. m.frames[j] \in CallFrames
                        BY <1>1, <1>4, <1>6
                    <6> QED BY <6>1 DEF CallFrames
                <5>6. PICK a \in Nat : a = frames[i].slots + Parameters(frames[i].method)
                    BY <5>4
                <5>7. PICK b \in Nat : b = Base
                    BY <1>3
                <5>8. PICK d \in Nat : d = m.frames[j].slots
                    BY <5>5
                <5>9. a <= b /\ b < d
                    BY <5>2, <5>3, <5>6, <5>7, <5>8
                <5>10. a < d
                    BY ONLY <5>9
                <5>11. m.frames[i] = frames[i]
                    BY <1>4, <5>1
                <5> QED BY <5>6, <5>8, <5>10, <5>11
            <4> QED BY <4>1, <4>2
        <3> QED BY <1>4, <1>6, <3>1
    <2>6. k.frames[1].method = Script /\ k.frames[1].slots = 1 /\ k.stack[1] = Closure(Script)
        <3>1. frames[1].method = Script /\ frames[1].slots = 1 /\ stack[1] = Closure(Script)
            BY <1>2 DEF Inv, FramesHold
        <3>2. 1 \in DOMAIN m.frames /\ m.frames[1] = frames[1]
            BY <1>3, <1>4
        <3>3. m.stack[1] = stack[1]
            BY <1>1, <1>3 DEF Common
        <3> QED BY <1>6, <3>1, <3>2, <3>3
    <2>7. AllFramesHold(k)
        BY <2>4, <2>5, <2>6 DEF AllFramesHold
    <2>8. HeightsHold(k)
        <3>1. k.frames # <<>>
            BY <1>3, <1>4, <1>6
        <3>2. \A i \in 1 .. L - 1 : frames[i + 1].slots = frames[i].slots + frames[i].height - 1
            BY DEF Inv, HeightsMatch
        <3>3. CASE Steady(m, e)
            <4>1. Len(k.frames) = L /\ m.frames = frames /\ Len(k.stack) = Len(stack) + e
                BY <1>6, <3>3 DEF Steady
            <4>2. Len(k.stack) = k.frames[L].slots + k.frames[L].height - 1
                <5>1. k.frames[L].slots = Frame.slots /\ k.frames[L].height = Frame.height + e
                    BY <1>4, <1>5, <1>6
                <5>2. PICK s \in Nat, h \in Nat : s = Frame.slots /\ h = Frame.height
                    BY <1>3, <1>5
                <5>3. (s + h - 1) + e = s + (h + e) - 1
                    BY ONLY <5>2, e \in Int
                <5> QED BY <1>3, <4>1, <5>1, <5>2, <5>3
            <4>3. ASSUME NEW i \in 1 .. L - 1
                  PROVE  k.frames[i + 1].slots = k.frames[i].slots + k.frames[i].height - 1
                <5>1. /\ i \in 1 .. L /\ i + 1 \in 1 .. L
                      /\ i \in DOMAIN m.frames /\ i + 1 \in DOMAIN m.frames
                    BY <1>3, <1>4
                <5>2. k.frames[i + 1].slots = frames[i + 1].slots /\ k.frames[i].slots = frames[i].slots
                    BY <1>4, <1>6, <5>1
                <5>3. i # L
                    BY <1>3
                <5>4. k.frames[i].height = frames[i].height
                    BY <1>4, <1>6, <5>1, <5>3
                <5> QED BY <3>2, <5>2, <5>4
            <4> QED BY <3>1, <4>1, <4>2, <4>3 DEF HeightsHold
        <3>4. CASE Entered(m, e)
            <4>1. PICK f \in CallFrames :
                    /\ f.height = Parameters(f.method) + 1
                    /\ f.slots = Len(stack) + e
                    /\ Len(m.stack) = f.slots + Parameters(f.method)
                    /\ f.slots \in Nat /\ Parameters(f.method) \in Nat
                    /\ Len(m.frames) = L + 1 /\ m.frames[L + 1] = f
                BY <1>2, <3>4, EnteredFrame
            <4>2. Parameters(f.method) \in Nat /\ f.slots \in Nat
                BY <4>1
            <4>3. Len(k.frames) = L + 1 /\ m.frames[L + 1] = f /\ L + 1 \in DOMAIN m.frames /\ L + 1 # L
                BY <1>3, <1>4, <1>6, <4>1
            <4>4. Len(k.stack) = k.frames[L + 1].slots + k.frames[L + 1].height - 1
                <5>1. k.frames[L + 1].slots = f.slots /\ k.frames[L + 1].height = f.height
                    BY <1>6, <4>3
                <5> QED BY <4>1, <5>1
            <4>5. k.frames[L + 1].slots = k.frames[L].slots + k.frames[L].height - 1
                <5>1. k.frames[L + 1].slots = Len(stack) + e
                    BY <1>6, <4>1, <4>3
                <5>2. k.frames[L].slots = Frame.slots /\ k.frames[L].height = Frame.height + e
                    BY <1>4, <1>5, <1>6
                <5> QED BY <1>3, <1>5, <5>1, <5>2
            <4>6. ASSUME NEW i \in 1 .. L - 1
                  PROVE  k.frames[i + 1].slots = k.frames[i].slots + k.frames[i].height - 1
                <5>1. /\ i \in 1 .. L /\ i + 1 \in 1 .. L /\ i # L
                      /\ i \in DOMAIN m.frames /\ i + 1 \in DOMAIN m.frames
                    BY <1>3, <1>4
                <5> QED BY <1>4, <1>6, <3>2, <5>1
            <4>7. \A i \in 1 .. Len(k.frames) - 1 :
                    k.frames[i + 1].slots = k.frames[i].slots + k.frames[i].height - 1
                BY <1>3, <4>3, <4>5, <4>6
            <4> QED BY <3>1, <4>3, <4>4, <4>7 DEF HeightsHold
        <3> QED BY <3>3, <3>4
    <2>9. Len(k.stack) > 1
        BY <1>7
    <2> QED BY <1>1, <1>4, <1>6, <2>2, <2>3, <2>7, <2>8, <2>9 DEF MachineHolds
<1>8. CASE Len(m.stack) <= 1
    <2>1. k.instances = <<>> /\ Len(m.stack) = 1 /\ Base = 1 /\ Frame.slots = 1
        <3>1. Len(m.stack) = 1
            <4>1. PICK n \in Nat : n = Len(m.stack)
                BY <1>1
            <4>2. Base \in 1 .. n /\ n <= 1
                BY <1>3, <1>8, <4>1
            <4>3. n = 1
                BY <4>2
            <4> QED BY <4>1, <4>3
        <3>2. Base = 1 /\ Frame.slots = 1
            BY <1>3, <3>1
        <3> QED BY <1>8, <3>1, <3>2 DEF Reached
    <2>2. Steady(m, e)
        <3>1. ~Entered(m, e)
            <4>1. SUFFICES ASSUME Entered(m, e)
                           PROVE  FALSE
                OBVIOUS
            <4>2. PICK f \in CallFrames :
                    /\ Base < f.slots /\ Len(m.stack) = f.slots + Parameters(f.method)
                    /\ f.slots \in Nat /\ Parameters(f.method) \in Nat
                BY <1>2, <4>1, EnteredFrame
            <4>3. 1 = f.slots + Parameters(f.method) /\ 1 < f.slots
                BY ONLY <2>1, <4>2
            <4> QED BY <4>2, <4>3
        <3> QED BY <3>1
    <2>3. L = 1 /\ frames[1].method = Script /\ stack[1] = Closure(Script) /\ frames[1] = Frame
        <3>1. frames[1].method = Script /\ frames[1].slots = 1 /\ stack[1] = Closure(Script)
            BY <1>2 DEF Inv, FramesHold
        <3>2. L = 1
            <4>1. SUFFICES ASSUME L # 1
                           PROVE  FALSE
                OBVIOUS
            <4>2. 1 \in DOMAIN frames /\ 1 # L
                BY <1>2, <1>3, <4>1
            <4>3. frames[1].slots + Parameters(frames[1].method) < Frame.slots
                BY <1>1, <1>2, <4>2, OldFrames
            <4>4. Parameters(Script) = 0
                BY DEF Parameters
            <4> QED BY <2>1, <3>1, <4>3, <4>4
        <3> QED BY <3>1, <3>2 DEF Frame
    <2>4. Len(k.frames) = 1 /\ DOMAIN k.frames = {1} /\ Len(k.stack) = 1 /\ DOMAIN k.stack = {1}
        BY <1>1, <1>6, <2>1, <2>2, <2>3 DEF Steady
    <2>5. k.stack[1] = Closure(Script)
        BY <1>1, <2>1, <2>3 DEF Common
    <2>6. /\ k.frames[1].method = Script /\ k.frames[1].slots = 1
          /\ k.frames[1].height = Frame.height + e /\ k.frames[1].made = Frame.made
        BY <1>4, <1>5, <1>6, <2>1, <2>3
    <2>7. Sound(Closure(Script), k)
        BY DEF Sound, Exists, Closure
    <2>8. Objects(k)
        <3>1. DOMAIN k.instances = {}
            BY <2>1
        <3> QED BY <3>1 DEF Objects
    <2>9. FrameHolds(k.frames[1], k)
        <3>1. Parameters(Script) = 0 /\ Script.class = 0
            BY DEF Parameters, Script
        <3>2. Frame.made = 0
            <4>1. FrameHolds(Frame, Machine)
                BY <1>2, RunningHolds
            <4> QED BY <2>3, <3>1, <4>1 DEF FrameHolds, IsInitializer
        <3> QED BY <2>4, <2>6, <3>1, <3>2 DEF FrameHolds
    <2>10. AllFramesHold(k)
        BY <2>4, <2>5, <2>6, <2>9 DEF AllFramesHold
    <2>11. HeightsHold(k)
        <3>1. Frame.height + e = 1
            <4>1. Len(stack) + e = 1
                BY <2>1, <2>2 DEF Steady
            <4> QED BY <1>3, <1>5, <2>1, <4>1
        <3>2. k.frames # <<>> /\ Len(k.frames) = 1 /\ Len(k.stack) = 1
            <4>1. DOMAIN (<<>>) = {} /\ 1 \in DOMAIN k.frames
                BY <2>4
            <4>2. k.frames # <<>>
                BY ONLY <4>1
            <4> QED BY <2>4, <4>2
        <3>3. 1 .. Len(k.frames) - 1 = {}
            BY <3>2
        <3> QED BY <2>6, <3>1, <3>2, <3>3 DEF HeightsHold
    <2>12. \A i \in DOMAIN k.stack : Sound(k.stack[i], k)
        BY <2>4, <2>5, <2>7
    <2> QED BY <1>4, <1>6, <2>1, <2>8, <2>10, <2>11, <2>12 DEF MachineHolds
<1> QED BY <1>1, <1>7, <1>8

LEMMA ExecuteKeeps ==
    ASSUME Inv, NEW m, NEW e \in Int, Outcome(m, e), Execute(m, e)
    PROVE  Inv' /\ (frames' = <<>> \/ Len(frames') >= Len(frames))
<1> DEFINE k == Machine'
<1>1. /\ Running /\ frames # <<>> /\ declaration = NoDeclaration
      /\ UNCHANGED <<classes, globals, declaration>>
      /\ stack' = m.stack /\ instances' = Reached(m)
      /\ frames' = IF m.ok THEN [m.frames EXCEPT ![Len(frames)].height = @ + e] ELSE <<>>
    BY DEF Execute, Becomes, Running
<1>2. k = [ok |-> TRUE, stack |-> stack', frames |-> frames', instances |-> instances']
    BY DEF Machine
<1>3. k.stack = stack' /\ k.frames = frames' /\ k.instances = instances'
    BY <1>2
<1>4. CASE Failed(m)
    <2>1. m.stack = <<>> /\ ~m.ok /\ frames' = <<>> /\ stack' = <<>>
        BY <1>1, <1>4 DEF Failed
    <2>2. instances' = <<>>
        BY <1>1, <2>1 DEF Reached
    <2>3. k \in Machines
        <3>1. /\ <<>> \in Seq(Values) /\ <<>> \in Seq(CallFrames) /\ <<>> \in Seq(Instances)
            OBVIOUS
        <3> QED BY <1>2, <2>1, <2>2, <3>1 DEF Machines
    <2> HIDE DEF k
    <2>4. MachineHolds(k)
        BY <1>3, <2>1, <2>2, <2>3, EmptyHolds
    <2> QED BY <1>1, <2>1, <2>4, InvOfMachine DEF k
<1>5. CASE Steady(m, e) \/ Entered(m, e)
    <2>1. /\ m \in Machines /\ m.ok /\ m.stack \in Seq(Values) /\ m.frames \in Seq(CallFrames)
          /\ m.instances \in Seq(Instances)
        BY <1>5, Stacks DEF Steady, Entered, Common
    <2>2. /\ Len(frames) \in DOMAIN m.frames
          /\ m.frames[Len(frames)].height + e \in Nat
        BY <1>1, <1>5, SettledFrames
    <2>3. Accounts(m.frames, frames', Len(frames), e)
        BY <1>1, <2>1, <2>2, HeightChanges
    <2>4. Reached(m) \in Seq(Instances)
        BY <2>1 DEF Reached
    <2>5. k \in Machines
        BY <1>1, <1>2, <2>1, <2>3, <2>4 DEF Machines, Accounts
    <2> HIDE DEF k
    <2>6. MachineHolds(k) /\ Len(k.frames) >= Len(frames)
        BY <1>1, <1>3, <1>5, <2>3, <2>5, SettledHolds
    <2> QED BY <1>1, <1>3, <2>6, InvOfMachine DEF k
<1> QED BY <1>4, <1>5 DEF Outcome

(* Every handler has one of the outcomes.                                  *)
Handled == \E m : \E e \in Int : Outcome(m, e) /\ Execute(m, e)

LEMMA RunningCommon ==
    ASSUME Inv, Running
    PROVE  /\ Common(Machine) /\ Machine \in Machines /\ Machine.stack = stack /\ Machine.frames = frames
           /\ Machine.instances = instances /\ Len(stack) \in Nat /\ Base \in 1 .. Len(stack)
           /\ Temporaries = Len(stack) - Base
<1>1. frames # <<>>
    BY DEF Running
<1>2. Common(Machine) /\ Len(stack) \in Nat /\ Base \in 1 .. Len(stack) /\ Temporaries = Len(stack) - Base
    BY <1>1, RunningHolds
<1> QED BY <1>2, MachineIs DEF Common

LEMMA PushHandled ==
    ASSUME Inv, NEW v \in Values, Sound(v, Machine), Execute(Push(Machine, v), 1)
    PROVE  Handled
<1>1. Running
    BY DEF Execute
<1>2. Common(Machine) /\ Machine.stack = stack /\ Machine.frames = frames
    BY <1>1, RunningCommon
<1>3. Steady(Push(Machine, v), 1)
    BY <1>2, PushCommon DEF Steady
<1> QED BY <1>3 DEF Handled, Outcome

LEMMA PopValueHandled == Inv /\ PopValue => Handled
<1> SUFFICES ASSUME Inv, PopValue
             PROVE  Handled
    OBVIOUS
<1>1. Running /\ Temporaries > 0 /\ Execute(Pop(Machine, 1), -1)
    BY DEF PopValue
<1>2. /\ Common(Machine) /\ Machine.stack = stack /\ Machine.frames = frames
      /\ 1 \in 0 .. Len(stack) - Base /\ Len(stack) \in Nat
    BY <1>1, RunningCommon
<1>3. Common(Pop(Machine, 1)) /\ Len(Pop(Machine, 1).stack) = Len(stack) - 1 /\ Pop(Machine, 1).frames = frames
    BY <1>2, PopCommon
<1>4. Steady(Pop(Machine, 1), -1)
    BY <1>2, <1>3 DEF Steady
<1> QED BY <1>1, <1>4 DEF Handled, Outcome

LEMMA GetGlobalHandled == Inv /\ GetGlobal => Handled
<1> SUFFICES ASSUME Inv, GetGlobal
             PROVE  Handled
    OBVIOUS
<1>1. PICK x \in Globals : Execute(Push(Machine, globals[x]), 1)
    BY DEF GetGlobal
<1>2. globals[x] \in Values
    BY DEF Inv, Types
<1>3. Sound(globals[x], Machine)
    BY DEF Inv, GlobalsHold, Sound, Exists
<1> QED BY <1>1, <1>2, <1>3, PushHandled

LEMMA GetLocalHandled == Inv /\ GetLocal => Handled
<1> SUFFICES ASSUME Inv, GetLocal
             PROVE  Handled
    OBVIOUS
<1>1. Running
    BY DEF GetLocal
<1>2. PICK slot \in 0 .. Parameters(Frame.method) : Execute(Push(Machine, stack[Frame.slots + slot]), 1)
    BY DEF GetLocal
<1>3. /\ Frame.slots \in 1 .. Base /\ Parameters(Frame.method) \in Nat
      /\ Base \in 1 .. Len(stack) /\ Len(stack) \in Nat
    BY <1>1, RunningHolds DEF Running
<1>4. Frame.slots + slot \in 1 .. Len(stack)
    BY <1>3 DEF Base
<1>5. stack \in Seq(Values) /\ DOMAIN stack = 1 .. Len(stack)
    BY <1>1, RunningCommon, Stacks
<1>6. stack[Frame.slots + slot] \in Values
    BY <1>4, <1>5
<1>7. Sound(stack[Frame.slots + slot], Machine)
    BY <1>4, <1>5 DEF Inv
<1> QED BY <1>2, <1>6, <1>7, PushHandled

LEMMA GetPropertyHandled == Inv /\ GetProperty => Handled
<1> SUFFICES ASSUME Inv, GetProperty
             PROVE  Handled
    OBVIOUS
<1>1. Running /\ Temporaries > 0
    BY DEF GetProperty
<1>2. PICK name \in Names : Execute(AfterGetProperty(Machine, name), 0)
    BY DEF GetProperty
<1>3. /\ Common(Machine) /\ Machine.stack = stack /\ Machine.frames = frames
      /\ Base < Len(stack) /\ Len(stack) = Len(stack) + 0
    BY <1>1, RunningCommon
<1>4. Outcome(AfterGetProperty(Machine, name), 0)
    BY <1>3, GetPropertyOutcome
<1> QED BY <1>2, <1>4 DEF Handled

LEMMA SetPropertyHandled == Inv /\ SetProperty => Handled
<1> SUFFICES ASSUME Inv, SetProperty
             PROVE  Handled
    OBVIOUS
<1>1. Running /\ Temporaries > 1
    BY DEF SetProperty
<1>2. PICK name \in Names : Execute(AfterSetProperty(Machine, name), -1)
    BY DEF SetProperty
<1>3. /\ Common(Machine) /\ Machine.stack = stack /\ Machine.frames = frames
      /\ Base + 1 < Len(stack) /\ Len(stack) = Len(stack) + (-1) + 1 /\ -1 \in Int
    BY <1>1, RunningCommon
<1>4. Outcome(AfterSetProperty(Machine, name), -1)
    BY <1>3, SetPropertyOutcome
<1> QED BY <1>2, <1>4 DEF Handled

LEMMA CallHandled == Inv /\ Call => Handled
<1> SUFFICES ASSUME Inv, Call
             PROVE  Handled
    OBVIOUS
<1>1. Running
    BY DEF Call
<1>2. PICK n \in Arguments : Execute(AfterCallValue(Machine, Peek(Machine, n), n), -n)
    BY DEF Call
<1>3. /\ Common(Machine) /\ Machine.stack = stack /\ Machine.frames = frames
      /\ n \in 0 .. Len(stack) - Base - 1 /\ n \in 0 .. Len(stack) - 1 /\ Len(stack) - n = Len(stack) + (-n) /\ -n \in Int
    BY <1>1, RunningCommon DEF Arguments
<1>4. Peek(Machine, n) \in Values /\ Sound(Peek(Machine, n), Machine)
    BY <1>3, PeekCommon
<1>5. Outcome(AfterCallValue(Machine, Peek(Machine, n), n), -n)
    BY <1>3, <1>4, CallValueOutcome
<1> QED BY <1>2, <1>3, <1>5 DEF Handled

LEMMA InvokeHandled == Inv /\ Invoke => Handled
<1> SUFFICES ASSUME Inv, Invoke
             PROVE  Handled
    OBVIOUS
<1>1. Running
    BY DEF Invoke
<1>2. PICK n \in Arguments, name \in Names : Execute(AfterInvoke(Machine, name, n), -n)
    BY DEF Invoke
<1>3. /\ Common(Machine) /\ Machine.stack = stack /\ Machine.frames = frames
      /\ n \in 0 .. Len(stack) - Base - 1 /\ Len(stack) - n = Len(stack) + (-n) /\ -n \in Int
    BY <1>1, RunningCommon DEF Arguments
<1>4. Outcome(AfterInvoke(Machine, name, n), -n)
    BY <1>3, InvokeOutcome
<1> QED BY <1>2, <1>3, <1>4 DEF Handled

LEMMA GetSuperHandled == Inv /\ GetSuper => Handled
<1> SUFFICES ASSUME Inv, GetSuper
             PROVE  Handled
    OBVIOUS
<1>1. PICK name \in Names : Execute(AfterGetSuper(WithSuper(Machine), name), 0)
    BY DEF GetSuper
<1>2. Outcome(AfterGetSuper(WithSuper(Machine), name), 0)
    BY GetSuperOutcome DEF GetSuper
<1> QED BY <1>1, <1>2 DEF Handled

LEMMA SuperInvokeHandled == Inv /\ SuperInvoke => Handled
<1> SUFFICES ASSUME Inv, SuperInvoke
             PROVE  Handled
    OBVIOUS
<1>1. PICK n \in Arguments, name \in Names :
        /\ Peek(Machine, n) = This
        /\ Execute(AfterSuperInvoke(WithSuper(Machine), name, n), 1 - (n + 1))
    BY DEF SuperInvoke
<1>2. Outcome(AfterSuperInvoke(WithSuper(Machine), name, n), 1 - (n + 1))
    BY <1>1, SuperInvokeOutcome DEF SuperInvoke
<1>3. 1 - (n + 1) \in Int
    <2>1. Running
        BY DEF SuperInvoke, MaySuper
    <2>2. Temporaries \in Int
        BY <2>1, RunningCommon
    <2> QED BY <2>2 DEF Arguments
<1> QED BY <1>1, <1>2, <1>3 DEF Handled

(* What a return leaves: the frames below find what they left.             *)
LEMMA ReturnedHolds ==
    ASSUME Inv, frames # <<>>, NEW L \in Nat, L = Len(frames), L # 1, NEW v \in Values, Sound(v, Machine),
           NEW k \in Machines, k.instances = instances,
           Len(k.stack) = Frame.slots, k.stack[Frame.slots] = v,
           \A i \in 1 .. Frame.slots - 1 : k.stack[i] = stack[i],
           Len(k.frames) = L - 1,
           \A i \in 1 .. L - 1 : k.frames[i] = frames[i]
    PROVE  MachineHolds(k)
<1>1. /\ Common(Machine) /\ Machine \in Machines /\ Machine.stack = stack /\ Machine.instances = instances
      /\ Machine.frames = frames
    BY RunningHolds, MachineIs DEF Common
<1>2. /\ L \in Nat /\ L > 1 /\ DOMAIN frames = 1 .. L /\ DOMAIN stack = 1 .. Len(stack)
      /\ Frame.slots \in 1 .. Base /\ Base \in 1 .. Len(stack) /\ Len(stack) \in Nat
    <2>1. DOMAIN frames = 1 .. L /\ DOMAIN stack = 1 .. Len(stack)
        BY <1>1, Stacks
    <2>2. L > 0 /\ Frame.slots \in 1 .. Base /\ Base \in 1 .. Len(stack) /\ Len(stack) \in Nat
        BY RunningHolds
    <2> QED BY <2>1, <2>2
<1>3. /\ DOMAIN k.stack = 1 .. Frame.slots /\ Frame.slots \in Nat
      /\ DOMAIN k.frames = 1 .. L - 1 /\ L - 1 > 0 /\ L - 1 \in Nat
    <2>1. DOMAIN k.stack = 1 .. Len(k.stack) /\ DOMAIN k.frames = 1 .. Len(k.frames)
        <3>1. k.frames \in Seq(CallFrames)
            BY Stacks
        <3> QED BY <3>1, Stacks
    <2> QED BY <1>2, <2>1
<1>4. ASSUME NEW i \in 1 .. L - 1
      PROVE  /\ FrameHolds(frames[i], Machine) /\ frames[i] \in CallFrames
             /\ frames[i].slots \in 1 .. Frame.slots - 1
             /\ frames[i].slots + Parameters(frames[i].method) < Frame.slots
    <2>1. i \in DOMAIN frames /\ i # Len(frames)
        BY <1>2
    <2>2. /\ FrameHolds(frames[i], Machine) /\ frames[i] \in CallFrames
          /\ frames[i].slots \in 1 .. Base
          /\ frames[i].slots + Parameters(frames[i].method) < Frame.slots
        BY <1>1, <2>1, OldFrames
    <2>3. Parameters(frames[i].method) \in Nat
        BY <2>2, ParametersAreNatural DEF CallFrames
    <2> QED BY <1>2, <2>2, <2>3
<1>5. ASSUME NEW i \in DOMAIN k.stack
      PROVE  Sound(k.stack[i], k)
    <2>1. Sound(k.stack[i], Machine)
        <3>1. CASE i = Frame.slots
            BY <3>1
        <3>2. CASE i # Frame.slots
            <4>1. i \in 1 .. Frame.slots - 1 /\ i \in DOMAIN stack
                BY <1>2, <1>3, <3>2
            <4> QED BY <4>1 DEF Inv
        <3> QED BY <3>1, <3>2
    <2> QED BY <1>1, <2>1, SameInstances
<1>6. Objects(k)
    BY <1>1, ObjectsStay DEF Inv
<1>7. ASSUME NEW i \in DOMAIN k.frames
      PROVE  FrameHolds(k.frames[i], k)
    <2> DEFINE f == frames[i]
    <2>1. /\ k.frames[i] = f /\ FrameHolds(f, Machine)
          /\ f.slots \in 1 .. Frame.slots - 1
          /\ f.slots + Parameters(f.method) < Frame.slots
          /\ f.slots \in Nat /\ Parameters(f.method) \in Nat
        BY <1>3, <1>4, ParametersAreNatural DEF CallFrames
    <2> HIDE DEF f
    <2>2. k.stack[f.slots] = stack[f.slots]
        BY <2>1
    <2>3. f.slots \in 1 .. Len(k.stack) /\ f.slots + Parameters(f.method) <= Len(k.stack)
        BY <1>3, <2>1
    <2>4. f.method.class # 0 => Receives(k.stack[f.slots], f.method, k)
        BY <1>1, <2>1, <2>2 DEF FrameHolds, Receives
    <2>5. f.made # 0 => IsInitializer(f.method) /\ k.stack[f.slots] = Instance(f.made)
        BY <1>1, <2>1, <2>2 DEF FrameHolds
    <2> QED BY <2>1, <2>3, <2>4, <2>5 DEF FrameHolds
<1>8. ASSUME NEW i \in DOMAIN k.frames, NEW j \in DOMAIN k.frames, i < j
      PROVE  k.frames[i].slots + Parameters(k.frames[i].method) < k.frames[j].slots
    <2>0. i \in 1 .. L - 1 /\ j \in 1 .. L - 1 /\ 1 .. L - 1 \subseteq 1 .. L
        BY <1>3
    <2>1. i \in DOMAIN frames /\ j \in DOMAIN frames /\ k.frames[i] = frames[i] /\ k.frames[j] = frames[j]
        <3>1. i \in 1 .. L /\ j \in 1 .. L
            BY <2>0
        <3> QED BY <1>2, <2>0, <3>1
    <2>2. FramesHold
        BY DEF Inv
    <2>3. frames[i].slots + Parameters(frames[i].method) < frames[j].slots
        BY <1>8, <2>1, <2>2 DEF FramesHold
    <2> QED BY <2>1, <2>3
<1>9. /\ frames[1].method = Script /\ frames[1].slots = 1 /\ stack[1] = Closure(Script)
      /\ 1 < Frame.slots
    <2>1. frames[1].method = Script /\ frames[1].slots = 1 /\ stack[1] = Closure(Script)
        BY DEF Inv, FramesHold
    <2>2. 1 \in 1 .. L - 1
        BY <1>2
    <2>3. frames[1].slots + Parameters(frames[1].method) < Frame.slots
        BY <1>4, <2>2
    <2>4. Parameters(Script) = 0
        BY DEF Parameters
    <2> QED BY <1>3, <2>1, <2>3, <2>4
<1>10. AllFramesHold(k)
    <2>1. k.frames[1] = frames[1] /\ k.stack[1] = stack[1]
        BY <1>2, <1>3, <1>9
    <2> QED BY <1>7, <1>8, <1>9, <2>1 DEF AllFramesHold
<1>11. HeightsHold(k)
    <2>1. \A i \in 1 .. L - 1 : frames[i + 1].slots = frames[i].slots + frames[i].height - 1
        BY DEF Inv, HeightsMatch
    <2>2. L - 1 \in 1 .. L - 1 /\ L - 1 + 1 = L
        BY <1>2
    <2>3. frames[L].slots = frames[L - 1].slots + frames[L - 1].height - 1
        BY <2>1, <2>2
    <2>4. Len(k.stack) = k.frames[L - 1].slots + k.frames[L - 1].height - 1
        BY <2>2, <2>3 DEF Frame
    <2>5. k.frames # <<>>
        BY <1>3
    <2>6. ASSUME NEW i \in 1 .. Len(k.frames) - 1
          PROVE  k.frames[i + 1].slots = k.frames[i].slots + k.frames[i].height - 1
        <3>1. i \in 1 .. L - 1 /\ i + 1 \in 1 .. L - 1
            BY <1>2
        <3> QED BY <2>1, <3>1
    <2> QED BY <2>4, <2>5, <2>6 DEF HeightsHold
<1>12. ~(Len(k.stack) <= 1)
    BY <1>3, <1>9
<1> QED BY <1>5, <1>6, <1>10, <1>11, <1>12 DEF MachineHolds

(* A return value is sound.                                                *)
LEMMA ReturnValuesSound ==
    ASSUME Inv, Running, NEW v \in ReturnValues
    PROVE  v \in Values /\ Sound(v, Machine)
<1>1. /\ Common(Machine) /\ Machine \in Machines /\ Machine.stack = stack
      /\ Frame.slots \in 1 .. Base /\ Base \in 1 .. Len(stack) /\ Len(stack) \in Nat
      /\ stack \in Seq(Values)
    BY RunningCommon, RunningHolds, Stacks DEF Running
<1>2. v \in {Nil, This, Peek(Machine, 0)}
    BY DEF ReturnValues
<1>3. CASE v = Nil
    BY <1>3 DEF Values, Nil, Sound, Exists
<1>4. CASE v = This
    <2>1. Frame.slots \in DOMAIN stack
        BY <1>1
    <2> QED BY <1>1, <1>4, <2>1 DEF This, Inv
<1>5. CASE v = Peek(Machine, 0)
    <2>1. 0 \in 0 .. Len(stack) - 1
        BY <1>1
    <2> QED BY <1>1, <1>5, <2>1, PeekCommon
<1> QED BY <1>2, <1>3, <1>4, <1>5

LEMMA FrontIs ==
    ASSUME NEW S, NEW s \in Seq(S), NEW n \in Nat, n = Len(s), n > 0
    PROVE  /\ Front(s) \in Seq(S) /\ Len(Front(s)) = n - 1
           /\ \A i \in 1 .. n - 1 : Front(s)[i] = s[i]
BY DEF Front

LEMMA ReturnKeeps == Inv /\ Return => Inv'
<1> SUFFICES ASSUME Inv, Return
             PROVE  Inv'
    OBVIOUS
<1> DEFINE k == Machine'
<1>0. PICK L \in Nat : L = Len(frames)
    BY RunningHolds DEF Return, Running
<1>1. PICK v \in ReturnValues :
        stack' = IF L = 1 THEN <<>> ELSE Append(SubSeq(stack, 1, Frame.slots - 1), v)
    BY <1>0 DEF Return
<1>2. /\ Running /\ declaration = NoDeclaration /\ frames # <<>> /\ frames' = Front(frames)
      /\ instances' = IF L = 1 THEN <<>> ELSE instances
      /\ UNCHANGED <<classes, globals, declaration>>
    BY <1>0 DEF Return, Running
<1>3. v \in Values /\ Sound(v, Machine)
    BY <1>2, ReturnValuesSound
<1>4. /\ frames \in Seq(CallFrames) /\ stack \in Seq(Values) /\ instances \in Seq(Instances)
      /\ L \in Nat /\ L > 0
      /\ Frame.slots \in 1 .. Len(stack) /\ Len(stack) \in Nat
    BY <1>0, <1>2, RunningCommon, RunningHolds, Stacks
<1>5. k = [ok |-> TRUE, stack |-> stack', frames |-> frames', instances |-> instances']
    BY DEF Machine
<1>6. /\ frames' \in Seq(CallFrames) /\ Len(frames') = L - 1
      /\ \A i \in 1 .. L - 1 : frames'[i] = frames[i]
    BY <1>0, <1>2, <1>4, FrontIs
<1>7. CASE L = 1
    <2>1. stack' = <<>> /\ instances' = <<>> /\ stack' \in Seq(Values) /\ instances' \in Seq(Instances)
        BY <1>1, <1>2, <1>7
    <2>2. frames' = <<>>
        BY <1>6, <1>7
    <2>3. k \in Machines /\ k.stack = <<>> /\ k.frames = <<>> /\ k.instances = <<>>
        BY <1>5, <1>6, <2>1, <2>2 DEF Machines
    <2>4. MachineHolds(k)
        BY <2>3, EmptyHolds
    <2> QED BY <1>2, <2>4, InvOfMachine
<1>8. CASE L # 1
    <2>1. PICK s : s = SubSeq(stack, 1, Frame.slots - 1)
        OBVIOUS
    <2>2. s \in Seq(Values) /\ Len(s) = Frame.slots - 1 /\ \A i \in 1 .. Frame.slots - 1 : s[i] = stack[i]
        BY <1>4, <2>1
    <2>3. stack' = Append(s, v) /\ instances' = instances
        BY <1>1, <1>2, <1>8, <2>1
    <2>4. /\ stack' \in Seq(Values) /\ Len(stack') = Frame.slots /\ stack'[Frame.slots] = v
          /\ \A i \in 1 .. Frame.slots - 1 : stack'[i] = stack[i]
        BY <1>3, <1>4, <2>2, <2>3
    <2>5. /\ k \in Machines /\ k.stack = stack' /\ k.frames = frames' /\ k.instances = instances
        BY <1>4, <1>5, <1>6, <2>3, <2>4 DEF Machines
    <2> HIDE DEF k
    <2>6. MachineHolds(k)
        BY <1>0, <1>2, <1>3, <1>6, <1>8, <2>4, <2>5, ReturnedHolds
    <2> QED BY <1>2, <2>6, InvOfMachine DEF k
<1> QED BY <1>7, <1>8

LEMMA StartLineKeeps == Inv /\ StartLine => Inv'
<1> SUFFICES ASSUME Inv, StartLine
             PROVE  Inv'
    OBVIOUS
<1> DEFINE k == Machine'
           f == NewFrame(Script, 1)
<1>1. /\ frames = <<>> /\ stack' = <<Closure(Script)>> /\ frames' = <<f>>
      /\ UNCHANGED <<classes, instances, globals, declaration>>
    BY DEF StartLine
<1>2. instances = <<>>
    <2>1. stack = <<>>
        BY <1>1 DEF Inv, HeightsMatch
    <2> QED BY <2>1 DEF Inv, NothingRemains
<1>3. declaration = NoDeclaration
    BY <1>1 DEF Inv, DeclarationGoes
<1>4. /\ f \in CallFrames /\ f.method = Script /\ f.slots = 1 /\ f.height = 1 /\ f.made = 0
      /\ Parameters(Script) = 0 /\ Script.class = 0
    BY DEF NewFrame, Parameters, Script, CallFrames, Callables
<1> HIDE DEF f
<1>5. k = [ok |-> TRUE, stack |-> stack', frames |-> frames', instances |-> instances']
    BY DEF Machine
<1>6. Closure(Script) \in Values
    BY MadeValues
<1>7. stack' \in Seq(Values) /\ frames' \in Seq(CallFrames) /\ instances' \in Seq(Instances)
    BY <1>1, <1>2, <1>4, <1>6
<1>8. k \in Machines /\ k.stack = stack' /\ k.frames = frames' /\ k.instances = <<>>
    BY <1>1, <1>2, <1>5, <1>7 DEF Machines
<1> HIDE DEF k
<1>9. /\ DOMAIN k.stack = {1} /\ k.stack[1] = Closure(Script) /\ Len(k.stack) = 1
      /\ DOMAIN k.frames = {1} /\ k.frames[1] = f /\ Len(k.frames) = 1
    BY <1>1, <1>8
<1>10. Sound(Closure(Script), k)
    BY DEF Sound, Exists, Closure
<1>11. Objects(k)
    <2>1. DOMAIN k.instances = {}
        BY <1>8
    <2> QED BY <2>1 DEF Objects
<1>12. FrameHolds(f, k)
    BY <1>4, <1>9 DEF FrameHolds
<1>13. AllFramesHold(k)
    BY <1>4, <1>9, <1>12 DEF AllFramesHold
<1>14. HeightsHold(k)
    <2>1. 1 .. Len(k.frames) - 1 = {} /\ k.frames # <<>>
        BY <1>9
    <2> QED BY <1>4, <1>9, <2>1 DEF HeightsHold
<1>15. MachineHolds(k)
    BY <1>8, <1>9, <1>10, <1>11, <1>13, <1>14 DEF MachineHolds
<1> QED BY <1>1, <1>3, <1>15, InvOfMachine DEF k

LEMMA DeclareFunctionKeeps == Inv /\ DeclareFunction => Inv'
<1> SUFFICES ASSUME Inv, DeclareFunction
             PROVE  Inv'
    OBVIOUS
<1>1. PICK x \in FunctionNames : globals' = [globals EXCEPT ![x] = Closure(Function)]
    BY DEF DeclareFunction
<1>2. declaration = NoDeclaration /\ UNCHANGED <<stack, frames, classes, instances, declaration>>
    BY DEF DeclareFunction, AtStatement, Running
<1>3. globals \in [Globals -> Values] /\ x \in Globals /\ Closure(Function) \in Values
      /\ Closure(Function).kind = "closure"
    BY MadeValues, DispatchAssumption DEF Inv, Types
<1>4. globals' \in [Globals -> Values] /\ \A y \in Globals : globals'[y] \in {globals[y], Closure(Function)}
    BY <1>1, <1>3
<1>5. Machine' = Machine
    BY <1>2 DEF Machine
<1>6. Types'
    BY <1>2, <1>4, <1>5 DEF Inv, Types
<1>7. (\A i \in DOMAIN stack : Sound(stack[i], Machine))' /\ Objects(Machine)'
    BY <1>2, <1>5, ClassesStay DEF Inv, Objects
<1>8. FramesHold'
    <2>1. (\A f \in DOMAIN frames : FrameHolds(frames[f], Machine))'
        BY <1>2, <1>5, ClassesStay DEF Inv, FramesHold, FrameHolds
    <2> QED BY <1>2, <2>1 DEF Inv, FramesHold
<1>9. HeightsMatch' /\ NothingRemains' /\ Chain'
    BY <1>2 DEF Inv, HeightsMatch, NothingRemains, Chain, Frame
<1>10. MethodsAreInherited'
    BY <1>2, ClassesStay DEF Inv, MethodsAreInherited, Declaring
<1>11. GlobalsHold' /\ DeclarationGoes'
    BY <1>2, <1>3, <1>4 DEF Inv, GlobalsHold, DeclarationGoes
<1> QED BY <1>6, <1>7, <1>8, <1>9, <1>10, <1>11 DEF Inv

-----------------------------------------------------------------------------
(* The steps of a declaration.                                             *)

(* A value of n classes that is not of an instance.                        *)
Plain(v, n) == v.kind \notin {"instance", "bound"} /\ (v.kind = "class" => v.class \in 1 .. n)

(* The part of the invariant that is about the stack and the frames.       *)
Settled ==
    /\ Machine \in Machines
    /\ \A i \in DOMAIN stack : Sound(stack[i], Machine)
    /\ Objects(Machine)
    /\ FramesHold /\ HeightsMatch /\ NothingRemains

LEMMA OneFrame ==
    ASSUME NEW s \in Seq(CallFrames), Len(s) = 1
    PROVE  DOMAIN s = {1} /\ s # <<>> /\ 1 .. Len(s) - 1 = {}
<1>1. DOMAIN s = {1} /\ DOMAIN (<<>>) = {} /\ 1 .. Len(s) - 1 = {}
    OBVIOUS
<1>2. s # <<>>
    BY ONLY <1>1
<1> QED BY <1>1, <1>2

(* While a class is declared there is the frame of the script, and no      *)
(* instance.                                                               *)
LEMMA DeclarationHolds ==
    ASSUME Inv, Len(frames) = 1, instances = <<>>
    PROVE  /\ Machine \in Machines /\ stack \in Seq(Values) /\ frames \in Seq(CallFrames)
           /\ Len(stack) \in Nat /\ DOMAIN stack = 1 .. Len(stack) /\ DOMAIN frames = {1} /\ 1 \in DOMAIN stack
           /\ frames[1].method = Script /\ frames[1].slots = 1 /\ frames[1].made = 0
           /\ frames[1].height = Len(stack) /\ stack[1] = Closure(Script)
           /\ \A i \in DOMAIN stack : Plain(stack[i], Len(classes))
           /\ Base = 1 /\ frames # <<>>
<1>1. Machine \in Machines /\ stack \in Seq(Values) /\ frames \in Seq(CallFrames)
    BY MachineIs, Stacks DEF Inv, Types
<1>2. Len(stack) \in Nat /\ DOMAIN stack = 1 .. Len(stack) /\ DOMAIN frames = {1} /\ frames # <<>>
    <2>1. Len(stack) \in Nat /\ DOMAIN stack = 1 .. Len(stack)
        BY <1>1
    <2> QED BY <1>1, <2>1, OneFrame
<1>3. frames[1].method = Script /\ frames[1].slots = 1 /\ stack[1] = Closure(Script)
    BY <1>2 DEF Inv, FramesHold
<1>4. frames[1] = Frame
    BY DEF Frame
<1>5. Script.class = 0 /\ Parameters(Script) = 0
    BY DEF Script, Parameters
<1>6. frames[1].made = 0 /\ 1 \in DOMAIN stack
    <2>1. FrameHolds(frames[1], Machine)
        BY <1>2 DEF Inv, FramesHold
    <2> QED BY <1>2, <1>3, <1>5, <2>1, MachineIs DEF FrameHolds, IsInitializer
<1>7. frames[1].height = Len(stack)
    <2>1. Len(stack) = frames[1].slots + frames[1].height - 1
        BY <1>2, <1>4 DEF Inv, HeightsMatch
    <2>2. frames[1].height \in Nat
        <3>1. frames[1] \in CallFrames
            BY <1>1, <1>2
        <3> QED BY <3>1 DEF CallFrames
    <2> QED BY <1>2, <1>3, <2>1, <2>2
<1>8. ASSUME NEW i \in DOMAIN stack
      PROVE  Plain(stack[i], Len(classes))
    <2>1. Sound(stack[i], Machine) /\ stack[i] \in Values
        BY <1>1 DEF Inv
    <2>2. DOMAIN instances = {} /\ DOMAIN classes = 1 .. Len(classes)
        BY DEF Inv, Types
    <2> QED BY <2>1, <2>2, MachineIs DEF Sound, Exists, Plain
<1>9. Base = 1
    BY <1>3, <1>4, <1>5 DEF Base
<1> QED BY <1>1, <1>2, <1>3, <1>6, <1>7, <1>8, <1>9

(* What becomes of the machine in such a step.                             *)
LEMMA DeclareSettles ==
    ASSUME Inv, Len(frames) = 1, instances = <<>>,
           NEW m \in Machines, m.ok, m.frames = frames, m.instances = instances,
           NEW e \in Int, Len(m.stack) = Len(stack) + e,
           1 \in DOMAIN m.stack, m.stack[1] = stack[1],
           \A i \in DOMAIN m.stack : Plain(m.stack[i], Len(classes')),
           classes' \in Seq(Classes), Becomes(m, e)
    PROVE  Settled' /\ stack' = m.stack /\ Len(frames') = 1 /\ instances' = <<>>
<1>1. /\ frames \in Seq(CallFrames) /\ Len(stack) \in Nat /\ DOMAIN frames = {1}
      /\ frames[1].method = Script /\ frames[1].slots = 1 /\ frames[1].made = 0
      /\ frames[1].height = Len(stack) /\ stack[1] = Closure(Script)
    BY DeclarationHolds
<1>2. m.stack \in Seq(Values) /\ Len(m.stack) \in Nat /\ DOMAIN m.stack = 1 .. Len(m.stack)
    BY Stacks
<1>3. /\ stack' = m.stack /\ instances' = <<>>
      /\ frames' = [frames EXCEPT ![1].height = @ + e]
    BY DEF Becomes, Reached
<1>4. Accounts(frames, frames', 1, e)
    BY <1>1, <1>2, <1>3, HeightChanges
<1>5. /\ frames' \in Seq(CallFrames) /\ Len(frames') = 1 /\ DOMAIN frames' = {1}
      /\ frames'[1].method = Script /\ frames'[1].slots = 1 /\ frames'[1].made = 0
      /\ frames'[1].height = Len(stack')
    BY <1>1, <1>3, <1>4 DEF Accounts
<1>6. Machine' = [ok |-> TRUE, stack |-> stack', frames |-> frames', instances |-> instances']
    BY DEF Machine
<1>7. Machine' \in Machines
    <2>1. instances' \in Seq(Instances)
        BY <1>3
    <2> QED BY <1>2, <1>3, <1>5, <1>6, <2>1 DEF Machines
<1>8. Machine'.stack = stack' /\ Machine'.instances = instances'
    BY <1>6
<1>9. DOMAIN stack' = 1 .. Len(stack') /\ Len(stack') \in Nat /\ 1 \in DOMAIN stack' /\ stack'[1] = Closure(Script)
    BY <1>1, <1>2, <1>3
<1>10. (\A i \in DOMAIN stack : Sound(stack[i], Machine))'
    <2>1. DOMAIN classes' = 1 .. Len(classes')
        OBVIOUS
    <2> QED BY <1>3, <2>1 DEF Plain, Sound, Exists
<1>11. Objects(Machine)'
    <2>1. DOMAIN instances' = {}
        BY <1>3
    <2> QED BY <1>8, <2>1 DEF Objects
<1>12. FramesHold'
    <2>1. Parameters(Script) = 0 /\ Script.class = 0
        BY DEF Parameters, Script
    <2>2. FrameHolds(frames[1], Machine)'
        BY <1>5, <1>8, <1>9, <2>1 DEF FrameHolds
    <2> QED BY <1>5, <1>9, <2>2 DEF FramesHold
<1>13. HeightsMatch'
    <2>1. Frame' = frames'[1]
        BY <1>5 DEF Frame
    <2>2. 1 .. Len(frames') - 1 = {} /\ frames' # <<>>
        BY <1>5, OneFrame
    <2>3. Len(stack') = frames'[1].slots + frames'[1].height - 1
        BY <1>5, <1>9
    <2> QED BY <2>1, <2>2, <2>3 DEF HeightsMatch
<1>14. NothingRemains'
    BY <1>3 DEF NothingRemains
<1> QED BY <1>3, <1>5, <1>7, <1>10, <1>11, <1>12, <1>13, <1>14 DEF Settled

Nexts == {"define", "extend", "load", "inherit", "reload", "methods"}

(* The class that is declared is the last one.                             *)
LEMMA DeclarationAt ==
    ASSUME Inv, declaration.next \in Nexts
    PROVE  LET c == Len(classes)
               next == declaration.next
           IN
           /\ declaration # NoDeclaration /\ declaration.name \in Globals
           /\ declaration \in [next : Nexts, name : Globals]
           /\ Len(frames) = 1 /\ instances = <<>>
           /\ classes \in Seq(Classes) /\ c \in Nat /\ c > 0 /\ DOMAIN classes = 1 .. c
           /\ globals \in [Globals -> Values] /\ Chain /\ MethodsAreInherited
           /\ next \in {"define", "extend", "load", "inherit"} => classes[c] = NewClass
           /\ next # "define" => globals[declaration.name] = ClassValue(c)
           /\ next = "reload" => classes[c].super # 0
           /\ next \in {"load", "inherit"} /\ stack[2].kind = "class" => stack[2].class < c
           /\ next \in {"define", "inherit", "methods"} => stack[Len(stack)] = ClassValue(c)
           /\ next = "extend" => Len(stack) = 1
           /\ next \in {"define", "load", "reload"} => Len(stack) = 2
           /\ next = "inherit" => Len(stack) = 3
           /\ next = "methods" => Len(stack) = IF classes[c].super = 0 THEN 2 ELSE 3
           /\ ClassValue(c) \in Values /\ ClassValue(c).kind = "class" /\ ClassValue(c).class = c
<1>1. declaration # NoDeclaration
    BY DEF NoDeclaration, Nexts
<1>2. declaration \in [next : Nexts, name : Globals]
    BY <1>1 DEF Inv, Types, Nexts
<1>3. /\ classes \in Seq(Classes) /\ Len(classes) \in Nat /\ DOMAIN classes = 1 .. Len(classes)
      /\ globals \in [Globals -> Values]
    BY DEF Inv, Types
<1>4. /\ ClassValue(Len(classes)) \in Values /\ ClassValue(Len(classes)).kind = "class"
      /\ ClassValue(Len(classes)).class = Len(classes)
    BY <1>3, MadeValues
<1>5. declaration.name \in Globals
    BY <1>2
<1>6. Chain /\ MethodsAreInherited
    BY DEF Inv
<1>7. /\ Len(classes) > 0 /\ Len(frames) = 1 /\ instances = <<>>
      /\ declaration.next \in {"define", "extend", "load", "inherit"} => classes[Len(classes)] = NewClass
      /\ declaration.next # "define" => globals[declaration.name] = ClassValue(Len(classes))
      /\ declaration.next = "reload" => classes[Len(classes)].super # 0
      /\ declaration.next \in {"load", "inherit"} /\ stack[2].kind = "class" => stack[2].class < Len(classes)
      /\ declaration.next \in {"define", "inherit", "methods"} => stack[Len(stack)] = ClassValue(Len(classes))
    BY <1>1 DEF Inv, DeclarationGoes
<1>8. /\ declaration.next = "extend" => Len(stack) = 1
      /\ declaration.next \in {"define", "load", "reload"} => Len(stack) = 2
      /\ declaration.next = "inherit" => Len(stack) = 3
      /\ declaration.next = "methods" => Len(stack) = IF classes[Len(classes)].super = 0 THEN 2 ELSE 3
    BY <1>1 DEF Inv, DeclarationGoes
<1> QED BY <1>1, <1>2, <1>3, <1>4, <1>5, <1>6, <1>7, <1>8

LEMMA InvOfSettled ==
    ASSUME Settled', classes' \in Seq(Classes), globals' \in [Globals -> Values],
           declaration' \in {NoDeclaration} \cup [next : Nexts, name : Globals],
           Chain', MethodsAreInherited', GlobalsHold', DeclarationGoes'
    PROVE  Inv'
BY DEF Inv, Settled, Types, Nexts

LEMMA GlobalsArePlain ==
    ASSUME Inv, NEW x \in Globals
    PROVE  globals[x] \in Values /\ Plain(globals[x], Len(classes))
<1>1. globals[x] \in Values /\ DOMAIN classes = 1 .. Len(classes)
    BY DEF Inv, Types
<1>2. GlobalsHold
    BY DEF Inv
<1> QED BY <1>1, <1>2 DEF GlobalsHold, Plain

(* While classes stay, what is plain does, and every method is inherited.  *)
LEMMA InheritedStay ==
    ASSUME Inv, classes' = classes
    PROVE  MethodsAreInherited' /\ Chain'
<1>1. MethodsAreInherited /\ Chain
    BY DEF Inv
<1>2. \A c : Ancestors(c)' = Ancestors(c)
    BY ClassesStay
<1>3. \A c, name : Declaring(c, name)' = Declaring(c, name)
    BY <1>2 DEF Declaring
<1>4. MethodsAreInherited'
    BY <1>1, <1>3, Zenon DEF MethodsAreInherited
<1> QED BY <1>1, <1>4 DEF Chain

(* A value is pushed or popped in the course of a declaration.             *)
LEMMA DeclarePush ==
    ASSUME Inv, Len(frames) = 1, instances = <<>>, NEW v \in Values, Plain(v, Len(classes')),
           Len(classes) <= Len(classes'), classes \in Seq(Classes), classes' \in Seq(Classes),
           Becomes(Push(Machine, v), 1)
    PROVE  /\ Settled' /\ Len(frames') = 1 /\ instances' = <<>>
           /\ Len(stack') = Len(stack) + 1 /\ stack'[Len(stack) + 1] = v
           /\ \A i \in 1 .. Len(stack) : stack'[i] = stack[i]
<1> DEFINE m == Push(Machine, v)
<1>1. /\ Machine \in Machines /\ stack \in Seq(Values) /\ Len(stack) \in Nat
      /\ DOMAIN stack = 1 .. Len(stack) /\ 1 \in DOMAIN stack
      /\ \A i \in DOMAIN stack : Plain(stack[i], Len(classes))
    BY DeclarationHolds
<1>2. m \in Machines /\ m.ok /\ m.frames = frames /\ m.instances = instances /\ m.stack = Append(stack, v)
    BY <1>1, Pushed, MachineIs
<1>3. /\ Len(m.stack) = Len(stack) + 1 /\ m.stack[Len(stack) + 1] = v
      /\ \A i \in 1 .. Len(stack) : m.stack[i] = stack[i]
      /\ DOMAIN m.stack = 1 .. Len(stack) + 1
    BY <1>1, <1>2
<1> HIDE DEF m
<1>4. ASSUME NEW i \in DOMAIN m.stack
      PROVE  Plain(m.stack[i], Len(classes'))
    <2>1. CASE i = Len(stack) + 1
        BY <1>3, <2>1
    <2>2. CASE i # Len(stack) + 1
        <3>1. i \in DOMAIN stack /\ m.stack[i] = stack[i] /\ Plain(stack[i], Len(classes))
            BY <1>1, <1>3, <2>2
        <3>2. 1 .. Len(classes) \subseteq 1 .. Len(classes')
            OBVIOUS
        <3> QED BY <3>1, <3>2 DEF Plain
    <2> QED BY <2>1, <2>2
<1>5. 1 \in DOMAIN m.stack /\ m.stack[1] = stack[1] /\ 1 \in Int
    BY <1>1, <1>3
<1>6. Becomes(m, 1)
    BY DEF m, Becomes
<1>7. Settled' /\ stack' = m.stack /\ Len(frames') = 1 /\ instances' = <<>>
    BY <1>2, <1>3, <1>4, <1>5, <1>6, DeclareSettles
<1> QED BY <1>3, <1>7

LEMMA DeclarePop ==
    ASSUME Inv, Len(frames) = 1, instances = <<>>, NEW n \in Nat, n < Len(stack),
           Len(classes) <= Len(classes'), classes \in Seq(Classes), classes' \in Seq(Classes),
           Becomes(Pop(Machine, n), -n)
    PROVE  /\ Settled' /\ Len(frames') = 1 /\ instances' = <<>>
           /\ Len(stack') = Len(stack) - n
           /\ \A i \in 1 .. Len(stack) - n : stack'[i] = stack[i]
<1> DEFINE m == Pop(Machine, n)
<1>1. /\ Machine \in Machines /\ stack \in Seq(Values) /\ Len(stack) \in Nat
      /\ DOMAIN stack = 1 .. Len(stack) /\ 1 \in DOMAIN stack
      /\ \A i \in DOMAIN stack : Plain(stack[i], Len(classes))
    BY DeclarationHolds
<1>2. n \in 0 .. Len(stack)
    BY <1>1
<1>3. /\ m \in Machines /\ m.ok /\ m.frames = frames /\ m.instances = instances
      /\ Len(m.stack) = Len(stack) - n /\ \A i \in 1 .. Len(stack) - n : m.stack[i] = stack[i]
    BY <1>1, <1>2, Popped, MachineIs
<1> HIDE DEF m
<1>4. DOMAIN m.stack = 1 .. Len(stack) - n
    BY <1>3, Stacks
<1>5. ASSUME NEW i \in DOMAIN m.stack
      PROVE  Plain(m.stack[i], Len(classes'))
    <2>1. i \in DOMAIN stack /\ m.stack[i] = stack[i] /\ Plain(stack[i], Len(classes))
        <3>1. PICK h \in Nat : h = Len(stack)
            BY <1>1
        <3>2. i \in 1 .. h - n
            BY <1>4, <3>1
        <3>3. i \in 1 .. h
            BY <3>2
        <3> QED BY <1>1, <1>3, <3>1, <3>2, <3>3
    <2>2. 1 .. Len(classes) \subseteq 1 .. Len(classes')
        OBVIOUS
    <2> QED BY <2>1, <2>2 DEF Plain
<1>6. 1 \in DOMAIN m.stack /\ m.stack[1] = stack[1] /\ -n \in Int /\ Len(m.stack) = Len(stack) + (-n)
    <2>1. PICK h \in Nat : h = Len(stack)
        BY <1>1
    <2>2. 1 \in 1 .. h - n /\ -n \in Int /\ h - n = h + (-n)
        BY <2>1
    <2> QED BY <1>3, <1>4, <2>1, <2>2
<1>7. Becomes(m, -n)
    BY DEF m
<1>8. Settled' /\ stack' = m.stack /\ Len(frames') = 1 /\ instances' = <<>>
    BY <1>3, <1>5, <1>6, <1>7, DeclareSettles
<1> QED BY <1>3, <1>8

(* What DeclarationGoes says of the next instruction.                      *)
LEMMA DeclarationNext ==
    ASSUME NEW next \in Nexts, NEW x \in Globals, declaration' = [next |-> next, name |-> x]
    PROVE  /\ declaration' # NoDeclaration /\ declaration'.next = next /\ declaration'.name = x
           /\ declaration' \in {NoDeclaration} \cup [next : Nexts, name : Globals]
BY DEF NoDeclaration, Nexts

LEMMA DefineClassKeeps == Inv /\ DefineClass => Inv'
<1> SUFFICES ASSUME Inv, DefineClass
             PROVE  Inv'
    OBVIOUS
<1> DEFINE c == Len(classes)
           x == declaration.name
<1>1. declaration.next = "define" /\ declaration.next \in Nexts
    BY DEF DefineClass, Nexts
<1>2. /\ x \in Globals /\ Len(frames) = 1 /\ instances = <<>> /\ declaration \in [next : Nexts, name : Globals]
      /\ classes \in Seq(Classes) /\ globals \in [Globals -> Values] /\ Len(stack) = 2
      /\ classes[c] = NewClass /\ c > 0 /\ stack[Len(stack)] = ClassValue(c)
      /\ c \in Nat /\ DOMAIN classes = 1 .. c
      /\ ClassValue(c) \in Values /\ ClassValue(c).kind = "class" /\ ClassValue(c).class = c
      /\ declaration # NoDeclaration
    BY <1>1, DeclarationAt
<1>3. Machine.ok /\ Machine.stack = stack /\ Machine \in Machines
    BY MachineIs DEF Inv, Types
<1>4. Peek(Machine, 0) = ClassValue(c)
    <2>1. stack[2] = ClassValue(c) /\ 2 - 0 = 2
        BY <1>2
    <2> QED BY <1>2, <1>3, <2>1 DEF Peek
<1>5. Pop(Machine, 1).ok
    <2>1. PICK h \in Nat : h = Len(Machine.stack) /\ h = 2
        BY <1>2, <1>3
    <2>2. 1 \in 0 .. h
        BY <2>1
    <2>3. 1 \in 0 .. Len(Machine.stack)
        BY <2>1, <2>2
    <2> QED BY <1>3, <2>3, Popped
<1>6. /\ globals' = [globals EXCEPT ![x] = ClassValue(c)] /\ classes' = classes
      /\ Becomes(Pop(Machine, 1), -1)
      /\ declaration' = [declaration EXCEPT !.next = "extend"]
    BY <1>4, <1>5 DEF DefineClass, Declare
<1>7. declaration' = [next |-> "extend", name |-> x]
    BY <1>2, <1>6
<1> HIDE DEF x, c
<1>8. /\ declaration' # NoDeclaration /\ declaration'.next = "extend" /\ declaration'.name = x
      /\ declaration' \in {NoDeclaration} \cup [next : Nexts, name : Globals]
    BY <1>2, <1>7, DeclarationNext DEF Nexts
<1>9. Settled' /\ Len(frames') = 1 /\ instances' = <<>> /\ Len(stack') = 1
    <2>1. 1 \in Nat /\ 1 < Len(stack) /\ Len(stack) - 1 = 1 /\ Len(classes) <= Len(classes')
        BY <1>2, <1>6 DEF c
    <2> QED BY <1>2, <1>6, <2>1, DeclarePop
<1>10. /\ globals' \in [Globals -> Values] /\ globals'[x] = ClassValue(c)
       /\ \A y \in Globals : y # x => globals'[y] = globals[y]
    BY <1>2, <1>6
<1>11. GlobalsHold'
    BY <1>1, <1>2, <1>6, <1>8, <1>10 DEF Inv, GlobalsHold, c
<1>12. DeclarationGoes'
    BY <1>2, <1>6, <1>8, <1>9, <1>10 DEF DeclarationGoes, c
<1>13. MethodsAreInherited' /\ Chain' /\ classes' \in Seq(Classes)
    BY <1>2, <1>6, InheritedStay
<1> QED BY <1>8, <1>9, <1>10, <1>11, <1>12, <1>13, InvOfSettled

LEMMA GetSuperclassKeeps == Inv /\ GetSuperclass => Inv'
<1> SUFFICES ASSUME Inv, GetSuperclass
             PROVE  Inv'
    OBVIOUS
<1> DEFINE c == Len(classes)
           x == declaration.name
<1>1. declaration.next = "extend" /\ declaration.next \in Nexts
    BY DEF GetSuperclass, Nexts
<1>2. /\ x \in Globals /\ Len(frames) = 1 /\ instances = <<>> /\ declaration \in [next : Nexts, name : Globals]
      /\ classes \in Seq(Classes) /\ globals \in [Globals -> Values] /\ Len(stack) = 1
      /\ classes[c] = NewClass /\ c > 0 /\ globals[x] = ClassValue(c)
      /\ c \in Nat /\ DOMAIN classes = 1 .. c /\ declaration # NoDeclaration
    BY <1>1, DeclarationAt
<1>3. Machine.ok /\ Machine \in Machines
    BY MachineIs DEF Inv, Types
<1>4. PICK y \in Globals \ {x} : Declare(Push(Machine, globals[y]), 1, "load")
    BY DEF GetSuperclass
<1>5. PICK v : v = globals[y]
    OBVIOUS
<1>6. v \in Values /\ Plain(v, c) /\ (v.kind = "class" => v.class # c)
    BY <1>1, <1>2, <1>4, <1>5, GlobalsArePlain DEF Inv, GlobalsHold
<1>7. Push(Machine, v).ok
    BY <1>3, <1>6, Pushed
<1>8. /\ globals' = globals /\ classes' = classes
      /\ Becomes(Push(Machine, v), 1)
      /\ declaration' = [declaration EXCEPT !.next = "load"]
    BY <1>4, <1>5, <1>7 DEF GetSuperclass, Declare
<1>9. declaration' = [next |-> "load", name |-> x]
    BY <1>2, <1>8
<1> HIDE DEF x, c
<1>10. /\ declaration' # NoDeclaration /\ declaration'.next = "load" /\ declaration'.name = x
       /\ declaration' \in {NoDeclaration} \cup [next : Nexts, name : Globals]
    BY <1>2, <1>9, DeclarationNext DEF Nexts
<1>11. Settled' /\ Len(frames') = 1 /\ instances' = <<>> /\ Len(stack') = 2 /\ stack'[2] = v
    BY <1>2, <1>6, <1>8, DeclarePush DEF c
<1>12. GlobalsHold'
    BY <1>1, <1>2, <1>8, <1>10 DEF Inv, GlobalsHold, c
<1>13. v.kind = "class" => v.class < c
    BY <1>2, <1>6 DEF Plain
<1>14. DeclarationGoes'
    BY <1>2, <1>8, <1>10, <1>11, <1>13 DEF DeclarationGoes, c
<1>15. MethodsAreInherited' /\ Chain' /\ classes' \in Seq(Classes) /\ globals' \in [Globals -> Values]
    BY <1>2, <1>8, InheritedStay
<1> QED BY <1>10, <1>11, <1>12, <1>14, <1>15, InvOfSettled

LEMMA GetClassKeeps == Inv /\ GetClass => Inv'
<1> SUFFICES ASSUME Inv, GetClass
             PROVE  Inv'
    OBVIOUS
<1> DEFINE c == Len(classes)
           x == declaration.name
           next == IF declaration.next = "load" THEN "inherit" ELSE "methods"
<1>1. declaration.next \in {"extend", "load", "reload"} /\ declaration.next \in Nexts
    BY DEF GetClass, Nexts
<1>2. /\ x \in Globals /\ Len(frames) = 1 /\ instances = <<>> /\ declaration \in [next : Nexts, name : Globals]
      /\ classes \in Seq(Classes) /\ globals \in [Globals -> Values]
      /\ c > 0 /\ globals[x] = ClassValue(c)
      /\ c \in Nat /\ DOMAIN classes = 1 .. c /\ declaration # NoDeclaration
      /\ ClassValue(c) \in Values /\ ClassValue(c).kind = "class" /\ ClassValue(c).class = c
    BY <1>1, DeclarationAt
<1>3. /\ declaration.next \in {"extend", "load"} => classes[c] = NewClass
      /\ declaration.next = "reload" => classes[c].super # 0
      /\ declaration.next = "load" /\ stack[2].kind = "class" => stack[2].class < c
      /\ declaration.next = "extend" => Len(stack) = 1
      /\ declaration.next \in {"load", "reload"} => Len(stack) = 2
    BY <1>1, DeclarationAt
<1>4. Machine.ok /\ Machine \in Machines
    BY MachineIs DEF Inv, Types
<1>5. PICK v : v = ClassValue(c)
    OBVIOUS
<1>6. v \in Values /\ Plain(v, c)
    BY <1>2, <1>5 DEF Plain
<1>7. Push(Machine, v).ok
    BY <1>4, <1>6, Pushed
<1>8. /\ globals' = globals /\ classes' = classes
      /\ Becomes(Push(Machine, v), 1)
      /\ declaration' = [declaration EXCEPT !.next = next]
    BY <1>2, <1>5, <1>7 DEF GetClass, Declare
<1>9. declaration' = [next |-> next, name |-> x]
    BY <1>2, <1>8
<1>10. next = (IF declaration.next = "load" THEN "inherit" ELSE "methods") /\ next \in Nexts /\ next # "define"
    BY DEF Nexts
<1> HIDE DEF x, c, next
<1>11. /\ declaration' # NoDeclaration /\ declaration'.next = next /\ declaration'.name = x
       /\ declaration' \in {NoDeclaration} \cup [next : Nexts, name : Globals]
    BY <1>2, <1>9, <1>10, DeclarationNext
<1>12. /\ Settled' /\ Len(frames') = 1 /\ instances' = <<>>
       /\ Len(stack') = Len(stack) + 1 /\ stack'[Len(stack) + 1] = v
       /\ \A i \in 1 .. Len(stack) : stack'[i] = stack[i]
    BY <1>2, <1>6, <1>8, DeclarePush DEF c
<1>13. GlobalsHold'
    BY <1>1, <1>2, <1>8, <1>10, <1>11 DEF Inv, GlobalsHold, c
<1>14. ASSUME declaration.next = "load"
       PROVE  DeclarationGoes'
    <2>1. next = "inherit" /\ Len(stack') = 3 /\ stack'[3] = v /\ stack'[2] = stack[2]
        <3>1. Len(stack) = 2
            BY <1>3, <1>14
        <3>2. Len(stack) + 1 = 3
            BY <3>1
        <3> QED BY <1>10, <1>12, <1>14, <3>1, <3>2
    <2> QED BY <1>2, <1>3, <1>5, <1>8, <1>11, <1>12, <1>14, <2>1 DEF DeclarationGoes, c
<1>15. ASSUME declaration.next = "extend"
       PROVE  DeclarationGoes'
    <2>1. next = "methods" /\ Len(stack') = 2 /\ stack'[2] = v
        <3>1. Len(stack) = 1
            BY <1>3, <1>15
        <3>2. Len(stack) + 1 = 2
            BY <3>1
        <3> QED BY <1>10, <1>12, <1>15, <3>1, <3>2
    <2>2. classes[c].super = 0
        BY <1>3, <1>15 DEF NewClass
    <2> QED BY <1>2, <1>5, <1>8, <1>11, <1>12, <2>1, <2>2 DEF DeclarationGoes, c
<1>16. ASSUME declaration.next = "reload"
       PROVE  DeclarationGoes'
    <2>1. next = "methods" /\ Len(stack') = 3 /\ stack'[3] = v
        <3>1. Len(stack) = 2
            BY <1>3, <1>16
        <3>2. Len(stack) + 1 = 3
            BY <3>1
        <3> QED BY <1>10, <1>12, <1>16, <3>1, <3>2
    <2> QED BY <1>2, <1>3, <1>5, <1>8, <1>11, <1>12, <1>16, <2>1 DEF DeclarationGoes, c
<1>17. MethodsAreInherited' /\ Chain' /\ classes' \in Seq(Classes) /\ globals' \in [Globals -> Values]
    BY <1>2, <1>8, InheritedStay
<1> QED BY <1>1, <1>11, <1>12, <1>13, <1>14, <1>15, <1>16, <1>17, InvOfSettled

LEMMA EndClassKeeps == Inv /\ EndClass => Inv'
<1> SUFFICES ASSUME Inv, EndClass
             PROVE  Inv'
    OBVIOUS
<1> DEFINE c == Len(classes)
<1>1. declaration.next = "methods" /\ declaration.next \in Nexts
    BY DEF EndClass, Nexts
<1>2. /\ Len(frames) = 1 /\ instances = <<>>
      /\ classes \in Seq(Classes) /\ globals \in [Globals -> Values]
      /\ Len(stack) = (IF classes[c].super = 0 THEN 2 ELSE 3) /\ stack[Len(stack)] = ClassValue(c)
      /\ ClassValue(c).class = c
    BY <1>1, DeclarationAt
<1>3. Peek(Machine, 0) = ClassValue(c)
    BY <1>2, MachineIs DEF Peek
<1>4. PICK n \in {IF classes[c].super = 0 THEN 1 ELSE 2} : Becomes(Pop(Machine, n), -n)
    BY <1>2, <1>3 DEF EndClass
<1>5. classes' = classes /\ globals' = globals /\ declaration' = NoDeclaration
    BY DEF EndClass
<1>6. n \in Nat /\ n < Len(stack)
    BY <1>2, <1>4
<1>7. Settled'
    BY <1>2, <1>4, <1>5, <1>6, DeclarePop
<1>8. GlobalsHold' /\ DeclarationGoes'
    BY <1>5 DEF Inv, GlobalsHold, DeclarationGoes
<1>9. MethodsAreInherited' /\ Chain' /\ classes' \in Seq(Classes) /\ globals' \in [Globals -> Values]
    BY <1>2, <1>5, InheritedStay
<1> QED BY <1>5, <1>7, <1>8, <1>9, InvOfSettled

-----------------------------------------------------------------------------
(* The steps of a declaration that change classes.                         *)

(* MethodsAreInherited for one class and one name.                         *)
Inherited(c, name) ==
    /\ Has(classes[c].methods, name) <=> Declaring(c, name) # {}
    /\ Has(classes[c].methods, name) =>
        \E a \in Declaring(c, name) :
            /\ \A b \in Declaring(c, name) : b <= a
            /\ classes[c].methods[name] = [class |-> a, name |-> name]

LEMMA InheritedAll ==
    MethodsAreInherited <=> \A c \in DOMAIN classes, name \in Names : Inherited(c, name)
BY DEF MethodsAreInherited, Inherited

LEMMA InheritedAllNext ==
    MethodsAreInherited' <=> (\A c \in DOMAIN classes, name \in Names : Inherited(c, name))'
BY DEF MethodsAreInherited, Inherited

(* The classes up to n stay.                                               *)
Same(n) == \A d \in 1 .. n : classes'[d] = classes[d]

LEMMA InheritedKeep ==
    ASSUME classes \in Seq(Classes), Chain, classes' \in Seq(Classes), Chain', MethodsAreInherited,
           NEW n \in Nat, n <= Len(classes), n <= Len(classes'), Same(n),
           NEW c \in 1 .. n, NEW name \in Names
    PROVE  Inherited(c, name)' /\ Ancestors(c)' = Ancestors(c)
<1>1. Ancestors(c)' = Ancestors(c)
    BY AncestorsStay DEF Same
<1>2. c \in DOMAIN classes /\ DOMAIN classes = 1 .. Len(classes) /\ Len(classes) \in Nat
    OBVIOUS
<1>3. \A a \in Ancestors(c) : a \in 1 .. n
    <2>1. \A a \in Ancestors(c) : a <= c /\ a \in DOMAIN classes
        BY <1>2, Above DEF Ancestors
    <2> QED BY <1>2, <2>1
<1>4. Declaring(c, name)' = Declaring(c, name)
    BY <1>1, <1>3 DEF Declaring, Same
<1>5. Inherited(c, name) /\ classes'[c] = classes[c]
    BY <1>2, InheritedAll DEF Same
<1> QED BY <1>1, <1>4, <1>5 DEF Inherited

LEMMA AboveNow ==
    classes \in Seq(Classes) /\ Chain =>
        \A c \in DOMAIN classes :
            /\ c \in Ancestors(c) /\ \A a \in Ancestors(c) : a <= c
            /\ classes[c].super # 0 => Ancestors(c) = {c} \cup Ancestors(classes[c].super)
BY Above

LEMMA AboveNext ==
    (classes \in Seq(Classes) /\ Chain =>
        \A c \in DOMAIN classes :
            /\ c \in Ancestors(c) /\ \A a \in Ancestors(c) : a <= c
            /\ classes[c].super # 0 => Ancestors(c) = {c} \cup Ancestors(classes[c].super))'
BY AboveNow, PTL

LEMMA EmptySettles ==
    ASSUME stack' = <<>>, frames' = <<>>, instances' = <<>>
    PROVE  Settled'
<1>1. Machine' = [ok |-> TRUE, stack |-> <<>>, frames |-> <<>>, instances |-> <<>>]
    BY DEF Machine
<1>2. Machine' \in Machines
    <2>1. <<>> \in Seq(Values) /\ <<>> \in Seq(CallFrames) /\ <<>> \in Seq(Instances)
        OBVIOUS
    <2> QED BY <1>1, <2>1 DEF Machines
<1>3. DOMAIN stack' = {} /\ DOMAIN frames' = {} /\ DOMAIN instances' = {} /\ 1 .. Len(frames') - 1 = {}
    OBVIOUS
<1>4. Objects(Machine)'
    BY <1>1 DEF Objects
<1>5. FramesHold' /\ HeightsMatch' /\ NothingRemains'
    BY <1>3 DEF FramesHold, HeightsMatch, NothingRemains
<1> QED BY <1>2, <1>3, <1>4, <1>5 DEF Settled

(* Between the statements of the script nothing is left of an earlier one. *)
LEMMA StatementHolds ==
    ASSUME Inv, AtStatement
    PROVE  Len(frames) = 1 /\ instances = <<>> /\ declaration = NoDeclaration /\ Len(stack) = 1
<1>1. Running /\ Len(frames) = 1 /\ Temporaries = 0 /\ declaration = NoDeclaration
    BY DEF AtStatement, Running
<1>2. Machine \in Machines /\ Len(stack) \in Nat /\ Base \in 1 .. Len(stack) /\ Temporaries = Len(stack) - Base
    BY <1>1, RunningCommon
<1>3. Base = 1
    <2>1. frames # <<>> /\ Frame = frames[1]
        BY <1>1 DEF Running, Frame
    <2>2. frames[1].method = Script /\ frames[1].slots = 1
        BY <2>1 DEF Inv, FramesHold
    <2> QED BY <2>1, <2>2 DEF Base, Parameters
<1>4. PICK h \in Nat : h = Len(stack)
    BY <1>2
<1>5. h = 1
    BY <1>1, <1>2, <1>3, <1>4
<1>6. instances = <<>>
    BY <1>4, <1>5 DEF Inv, NothingRemains
<1> QED BY <1>1, <1>4, <1>5, <1>6

LEMMA NewClassIs ==
    /\ NewClass \in Classes /\ NewClass.super = 0 /\ NewClass.declares = {}
    /\ \A name \in Names : ~Has(NewClass.methods, name) /\ NewClass.methods[name] = None
BY DEF NewClass, Classes, Tables, Empty, Has

LEMMA ClassKeeps == Inv /\ Class => Inv'
<1> SUFFICES ASSUME Inv, Class
             PROVE  Inv'
    OBVIOUS
<1>1. Len(frames) = 1 /\ instances = <<>> /\ declaration = NoDeclaration /\ Len(stack) = 1
    BY StatementHolds DEF Class
<1>2. PICK n \in Nat : n = Len(classes)
    BY DEF Inv, Types
<1>3. PICK v : v = ClassValue(n + 1)
    OBVIOUS
<1>4. /\ classes \in Seq(Classes) /\ DOMAIN classes = 1 .. n /\ globals \in [Globals -> Values]
      /\ Chain /\ MethodsAreInherited
    BY <1>2 DEF Inv, Types
<1>5. classes' = Append(classes, NewClass) /\ Becomes(Push(Machine, v), 1) /\ globals' = globals
    BY <1>2, <1>3 DEF Class
<1>6. PICK x \in Globals : declaration' = [next |-> "define", name |-> x]
    BY DEF Class
<1>7. /\ classes' \in Seq(Classes) /\ Len(classes') = n + 1 /\ DOMAIN classes' = 1 .. n + 1
      /\ classes'[n + 1] = NewClass /\ Same(n)
    BY <1>2, <1>4, <1>5, NewClassIs DEF Same
<1>8. v \in Values /\ v.kind = "class" /\ v.class = n + 1 /\ Plain(v, Len(classes'))
    BY <1>3, <1>7, MadeValues DEF Plain
<1>9. Len(classes) <= Len(classes')
    BY <1>2, <1>7
<1>10. Settled' /\ Len(frames') = 1 /\ instances' = <<>> /\ Len(stack') = 2 /\ stack'[2] = v
    BY <1>1, <1>4, <1>5, <1>7, <1>8, <1>9, DeclarePush
<1>11. /\ declaration' # NoDeclaration /\ declaration'.next = "define" /\ declaration'.name = x
       /\ declaration' \in {NoDeclaration} \cup [next : Nexts, name : Globals]
    BY <1>6, DeclarationNext DEF Nexts
<1>12. Chain'
    <2>1. ASSUME NEW d \in DOMAIN classes'
          PROVE  classes'[d].super < d
        <3>1. CASE d = n + 1
            BY <1>7, <3>1, NewClassIs
        <3>2. CASE d # n + 1
            <4>1. d \in DOMAIN classes /\ classes'[d] = classes[d]
                BY <1>4, <1>7, <3>2 DEF Same
            <4> QED BY <1>4, <4>1 DEF Chain
        <3> QED BY <3>1, <3>2
    <2> QED BY <2>1 DEF Chain
<1>13. MethodsAreInherited'
    <2>1. ASSUME NEW d \in DOMAIN classes', NEW name \in Names
          PROVE  Inherited(d, name)'
        <3>1. CASE d = n + 1
            <4>1. (Closed({d}) /\ d \in {d} /\ {d} \in SUBSET DOMAIN classes)'
                BY <1>7, <3>1, NewClassIs DEF Closed
            <4>2. \A a \in Ancestors(d)' : a = d
                BY <4>1 DEF Ancestors
            <4>3. Declaring(d, name)' = {}
                BY <1>7, <3>1, <4>2, NewClassIs DEF Declaring
            <4>4. ~Has(classes'[d].methods, name)
                BY <1>7, <3>1, NewClassIs
            <4> QED BY <4>3, <4>4 DEF Inherited
        <3>2. CASE d # n + 1
            <4>1. d \in 1 .. n /\ n <= Len(classes) /\ n <= Len(classes')
                BY <1>2, <1>7, <3>2
            <4> QED BY <1>4, <1>7, <1>12, <4>1, InheritedKeep
        <3> QED BY <3>1, <3>2
    <2> QED BY <2>1, InheritedAllNext
<1>14. GlobalsHold'
    <2>1. ASSUME NEW y \in Globals
          PROVE  /\ globals[y].kind \in {"class", "native", "closure"}
                 /\ globals[y].kind = "class" => globals[y].class \in 1 .. n
        BY <1>4 DEF Inv, GlobalsHold
    <2>2. 1 .. n \subseteq 1 .. n + 1 /\ n + 1 \notin 1 .. n
        OBVIOUS
    <2> QED BY <1>5, <1>7, <2>1, <2>2 DEF GlobalsHold
<1>15. DeclarationGoes'
    <2>1. n + 1 > 0
        OBVIOUS
    <2> QED BY <1>3, <1>7, <1>10, <1>11, <2>1 DEF DeclarationGoes
<1>16. globals' \in [Globals -> Values]
    BY <1>4, <1>5
<1> QED BY <1>7, <1>10, <1>11, <1>12, <1>13, <1>14, <1>15, <1>16, InvOfSettled

(* One class, the last, is changed.                                        *)
LEMMA LastChanges ==
    ASSUME NEW n \in Nat, n = Len(classes), n > 0, classes \in Seq(Classes),
           NEW r \in Classes, classes' = [classes EXCEPT ![n] = r]
    PROVE  /\ classes' \in Seq(Classes) /\ Len(classes') = n /\ DOMAIN classes' = 1 .. n
           /\ classes'[n] = r /\ Same(n - 1) /\ n - 1 \in Nat /\ n - 1 <= Len(classes) /\ n - 1 <= Len(classes')
<1>1. n \in DOMAIN classes /\ DOMAIN classes = 1 .. n
    OBVIOUS
<1>2. classes' \in Seq(Classes) /\ Len(classes') = n /\ DOMAIN classes' = 1 .. n /\ classes'[n] = r
      /\ \A d \in 1 .. n : d # n => classes'[d] = classes[d]
    BY <1>1
<1>3. \A d \in 1 .. n - 1 : d \in 1 .. n /\ d # n
    OBVIOUS
<1> QED BY <1>2, <1>3 DEF Same

LEMMA ChainKeeps ==
    ASSUME NEW n \in Nat, n = Len(classes), n > 0, classes \in Seq(Classes), Chain,
           DOMAIN classes' = 1 .. n, Same(n - 1), classes'[n].super < n
    PROVE  Chain'
<1>1. ASSUME NEW d \in 1 .. n, d # n
      PROVE  classes'[d].super < d
    <2>1. d \in 1 .. n - 1 /\ d \in DOMAIN classes
        BY <1>1
    <2> QED BY <2>1 DEF Chain, Same
<1> QED BY <1>1 DEF Chain

LEMMA InheritKeeps == Inv /\ Inherit => Inv'
<1> SUFFICES ASSUME Inv, Inherit
             PROVE  Inv'
    OBVIOUS
<1> DEFINE x == declaration.name
<1>0. PICK n : n = Len(classes)
    OBVIOUS
<1>1. declaration.next = "inherit" /\ declaration.next \in Nexts
    BY DEF Inherit, Nexts
<1>2. /\ x \in Globals /\ Len(frames) = 1 /\ instances = <<>> /\ declaration \in [next : Nexts, name : Globals]
      /\ classes \in Seq(Classes) /\ globals \in [Globals -> Values] /\ Chain /\ MethodsAreInherited
      /\ n > 0 /\ globals[x] = ClassValue(n) /\ classes[n] = NewClass
      /\ n \in Nat /\ DOMAIN classes = 1 .. n /\ declaration # NoDeclaration
      /\ Len(stack) = 3 /\ stack[3] = ClassValue(n) /\ (stack[2].kind = "class" => stack[2].class < n)
      /\ ClassValue(n).class = n
    BY <1>0, <1>1, DeclarationAt
<1>3. Machine.ok /\ Machine.stack = stack /\ Machine \in Machines
    BY MachineIs DEF Inv, Types
<1>4. PICK v : v = stack[2]
    OBVIOUS
<1>5. Peek(Machine, 0) = ClassValue(n) /\ Peek(Machine, 1) = v
    <2>1. 3 - 0 = 3 /\ 3 - 1 = 2
        OBVIOUS
    <2> QED BY <1>2, <1>3, <1>4, <2>1 DEF Peek
<1>6. v.kind = "class" => v.class \in 1 .. n - 1
    <2>1. Plain(v, n)
        BY <1>0, <1>2, <1>4, DeclarationHolds
    <2> QED BY <1>2, <1>4, <2>1 DEF Plain
<1>7. ASSUME v.kind # "class"
      PROVE  Inv'
    <2>1. Declare(Failure(Machine), 0, "none") /\ classes' = classes /\ globals' = globals
        BY <1>5, <1>7 DEF Inherit
    <2>2. ~Failure(Machine).ok /\ Failure(Machine).stack = <<>>
        BY <1>3, Failing
    <2>3. stack' = <<>> /\ frames' = <<>> /\ instances' = <<>> /\ declaration' = NoDeclaration
        BY <2>1, <2>2 DEF Declare, Becomes, Reached
    <2>4. Settled'
        BY <2>3, EmptySettles
    <2>5. GlobalsHold' /\ DeclarationGoes'
        BY <2>1, <2>3 DEF Inv, GlobalsHold, DeclarationGoes
    <2>6. MethodsAreInherited' /\ Chain' /\ classes' \in Seq(Classes) /\ globals' \in [Globals -> Values]
        BY <1>2, <2>1, InheritedStay
    <2> QED BY <2>3, <2>4, <2>5, <2>6, InvOfSettled
<1>8. ASSUME v.kind = "class"
      PROVE  Inv'
    <2>0. PICK s \in 1 .. n - 1 : s = v.class
        BY <1>6, <1>8
    <2>1. PICK r : r = [NewClass EXCEPT !.methods = WithAll(@, classes[s].methods), !.super = s]
        OBVIOUS
    <2>2. /\ classes' = [classes EXCEPT ![n].methods = WithAll(@, classes[s].methods), ![n].super = s]
          /\ Declare(Pop(Machine, 1), -1, "reload") /\ globals' = globals
        BY <1>2, <1>5, <1>8, <2>0 DEF Inherit
    <2>3. classes' = [classes EXCEPT ![n] = r]
        BY <1>2, <2>1, <2>2
    <2>4. s \in DOMAIN classes /\ classes[s] \in Classes /\ s \in Nat /\ s # 0 /\ s < n
        BY <1>2, <2>0
    <2>5. r \in Classes /\ r.super = s /\ r.declares = {} /\ r.methods = classes[s].methods
        <3>1. PICK t : t = classes[s].methods
            OBVIOUS
        <3>2. t \in Tables(Methods)
            BY <2>4, <3>1 DEF Classes
        <3>3. WithAll(Empty, t) = t
            <4>1. t = [y \in Names |-> t[y]]
                BY <3>2 DEF Tables
            <4>2. \A y \in Names : (IF Has(t, y) THEN t[y] ELSE Empty[y]) = t[y]
                BY DEF Has, Empty
            <4> QED BY <4>1, <4>2 DEF WithAll
        <3>4. r = [methods |-> t, super |-> s, declares |-> {}]
            BY <2>1, <3>1, <3>3 DEF NewClass
        <3> QED BY <2>4, <3>1, <3>2, <3>4 DEF Classes
    <2>6. /\ classes' \in Seq(Classes) /\ Len(classes') = n /\ DOMAIN classes' = 1 .. n
          /\ classes'[n] = r /\ Same(n - 1) /\ n - 1 \in Nat /\ n - 1 <= Len(classes) /\ n - 1 <= Len(classes')
        BY <1>0, <1>2, <2>3, <2>5, LastChanges
    <2>7. Chain'
        BY <1>0, <1>2, <2>4, <2>5, <2>6, ChainKeeps
    <2>8. Pop(Machine, 1).ok
        <3>1. PICK h \in Nat : h = Len(Machine.stack) /\ h = 3
            BY <1>2, <1>3
        <3>2. 1 \in 0 .. h
            BY <3>1
        <3>3. 1 \in 0 .. Len(Machine.stack)
            BY <3>1, <3>2
        <3> QED BY <1>3, <3>3, Popped
    <2>9. Becomes(Pop(Machine, 1), -1) /\ declaration' = [declaration EXCEPT !.next = "reload"]
        BY <2>2, <2>8 DEF Declare
    <2>10. declaration' = [next |-> "reload", name |-> x]
        BY <1>2, <2>9
    <2> HIDE DEF x
    <2>11. /\ declaration' # NoDeclaration /\ declaration'.next = "reload" /\ declaration'.name = x
           /\ declaration' \in {NoDeclaration} \cup [next : Nexts, name : Globals]
        BY <1>2, <2>10, DeclarationNext DEF Nexts
    <2>12. Settled' /\ Len(frames') = 1 /\ instances' = <<>> /\ Len(stack') = 2
        <3>1. 1 \in Nat /\ 1 < Len(stack) /\ Len(stack) - 1 = 2 /\ Len(classes) <= Len(classes')
            BY <1>0, <1>2, <2>6
        <3> QED BY <1>2, <2>6, <2>9, <3>1, DeclarePop
    <2>13. ASSUME NEW d \in DOMAIN classes', NEW name \in Names
           PROVE  Inherited(d, name)'
        <3>1. ASSUME NEW e \in 1 .. n - 1
              PROVE  Inherited(e, name)'
            BY <1>2, <2>6, <2>7, InheritedKeep
        <3>2. CASE d # n
            <4>1. d \in 1 .. n - 1
                BY <1>2, <2>6, <3>2
            <4> QED BY <3>1, <4>1
        <3>3. CASE d = n
            <4>1. Inherited(s, name)'
                BY <3>1
            <4>2. classes'[s] = classes[s]
                BY <2>6 DEF Same
            <4>3. Ancestors(n)' = {n} \cup Ancestors(s)'
                <5>1. n \in DOMAIN classes' /\ classes'[n].super # 0 /\ classes'[n].super = s
                    BY <1>2, <2>4, <2>5, <2>6
                <5> QED BY <2>6, <2>7, <5>1, AboveNext
            <4>4. Declaring(n, name)' = Declaring(s, name)'
                BY <2>5, <2>6, <4>3 DEF Declaring
            <4> QED BY <2>5, <2>6, <3>3, <4>1, <4>2, <4>4 DEF Inherited
        <3> QED BY <3>2, <3>3
    <2>14. MethodsAreInherited'
        BY <2>13, InheritedAllNext
    <2>15. GlobalsHold'
        <3>1. globals' = globals /\ Len(classes') = Len(classes) /\ DOMAIN classes' = DOMAIN classes
              /\ declaration'.name = declaration.name /\ declaration'.next # "define"
            BY <1>0, <1>2, <2>2, <2>6, <2>11 DEF x
        <3>2. GlobalsHold
            BY DEF Inv
        <3>3. declaration # NoDeclaration
            BY <1>2
        <3> QED BY ONLY <3>1, <3>2, <3>3 DEF GlobalsHold
    <2>16. DeclarationGoes'
        BY <1>2, <2>2, <2>4, <2>5, <2>6, <2>11, <2>12 DEF DeclarationGoes
    <2> QED BY <1>2, <2>2, <2>6, <2>7, <2>11, <2>12, <2>14, <2>15, <2>16, InvOfSettled
<1> QED BY <1>7, <1>8

LEMMA MethodKeeps == Inv /\ Method => Inv'
<1> SUFFICES ASSUME Inv, Method
             PROVE  Inv'
    OBVIOUS
<1>0. PICK n : n = Len(classes)
    OBVIOUS
<1>1. declaration.next = "methods" /\ declaration.next \in Nexts
    BY DEF Method, Nexts
<1>2. /\ Len(frames) = 1 /\ instances = <<>>
      /\ classes \in Seq(Classes) /\ globals \in [Globals -> Values] /\ Chain /\ MethodsAreInherited
      /\ n > 0 /\ n \in Nat /\ DOMAIN classes = 1 .. n /\ declaration \in [next : Nexts, name : Globals]
      /\ stack[Len(stack)] = ClassValue(n) /\ ClassValue(n).class = n
    BY <1>0, <1>1, DeclarationAt
<1>3. /\ Machine \in Machines /\ Machine.stack = stack /\ Len(stack) \in Nat
      /\ \A i \in DOMAIN stack : Plain(stack[i], n)
    BY <1>0, <1>2, DeclarationHolds, MachineIs
<1>4. Peek(Machine, 0) = ClassValue(n)
    <2>1. Len(stack) - 0 = Len(stack)
        BY <1>3
    <2> QED BY <1>2, <1>3, <2>1 DEF Peek
<1>5. PICK name \in Names :
        classes' = [classes EXCEPT
            ![n].methods = With(@, name, [class |-> n, name |-> name]),
            ![n].declares = @ \cup {name}]
    BY <1>2, <1>4 DEF Method
<1>6. UNCHANGED <<stack, frames, instances, globals, declaration>>
    BY DEF Method
<1>7. PICK t : t = With(classes[n].methods, name, [class |-> n, name |-> name])
    OBVIOUS
<1>8. PICK r : r = [classes[n] EXCEPT !.methods = t, !.declares = @ \cup {name}]
    OBVIOUS
<1>9. classes' = [classes EXCEPT ![n] = r]
    BY <1>2, <1>5, <1>7, <1>8
<1>10. /\ t \in Tables(Methods) /\ t[name] = [class |-> n, name |-> name]
       /\ \A y \in Names : y # name => t[y] = classes[n].methods[y]
    <2>1. classes[n].methods \in Tables(Methods)
        <3>1. classes[n] \in Classes
            BY <1>2
        <3> QED BY <3>1 DEF Classes
    <2>2. [class |-> n, name |-> name] \in Methods
        BY <1>2 DEF Methods
    <2> QED BY <1>7, <2>1, <2>2 DEF With, Tables
<1>11. /\ r \in Classes /\ r.methods = t /\ r.super = classes[n].super
       /\ r.declares = classes[n].declares \cup {name}
    <2>1. classes[n] \in Classes
        BY <1>2
    <2> QED BY <1>8, <1>10, <2>1 DEF Classes
<1>12. /\ classes' \in Seq(Classes) /\ Len(classes') = n /\ DOMAIN classes' = 1 .. n
       /\ classes'[n] = r /\ Same(n - 1) /\ n - 1 \in Nat /\ n - 1 <= Len(classes) /\ n - 1 <= Len(classes')
    BY <1>0, <1>2, <1>9, <1>11, LastChanges
<1>13. Chain'
    <2>1. classes[n].super < n
        BY <1>2 DEF Chain
    <2> QED BY <1>0, <1>2, <1>11, <1>12, <2>1, ChainKeeps
<1>14. \A d \in 1 .. n : classes'[d].super = classes[d].super
    <2>1. ASSUME NEW d \in 1 .. n, d # n
          PROVE  classes'[d] = classes[d]
        <3>1. d \in 1 .. n - 1
            BY <1>2, <2>1
        <3> QED BY <1>12, <3>1 DEF Same
    <2> QED BY <1>11, <1>12, <2>1
<1>15. Ancestors(n)' = Ancestors(n) /\ n \in Ancestors(n) /\ \A a \in Ancestors(n) : a <= n /\ a \in 1 .. n
    <2>1. n \in 1 .. n /\ n <= Len(classes) /\ n <= Len(classes') /\ n \in DOMAIN classes
        BY <1>0, <1>2, <1>12
    <2>2. Ancestors(n)' = Ancestors(n)
        BY <1>2, <1>12, <1>13, <1>14, <2>1, AncestorsStay
    <2>3. n \in Ancestors(n) /\ \A a \in Ancestors(n) : a <= n
        BY <1>2, <2>1, Above
    <2>4. \A a \in Ancestors(n) : a \in DOMAIN classes
        BY DEF Ancestors
    <2> QED BY <1>2, <2>2, <2>3, <2>4
<1>16. ASSUME NEW d \in DOMAIN classes', NEW y \in Names
       PROVE  Inherited(d, y)'
    <2>1. CASE d # n
        <3>1. d \in 1 .. n - 1
            BY <1>2, <1>12, <2>1
        <3> QED BY <1>2, <1>12, <1>13, <3>1, InheritedKeep
    <2>2. CASE d = n /\ y = name
        <3>1. n \in Declaring(n, y)'
            BY <1>11, <1>12, <1>15, <2>2 DEF Declaring
        <3>2. \A a \in Declaring(n, y)' : a <= n
            BY <1>15 DEF Declaring
        <3>3. classes'[n].methods[y] = [class |-> n, name |-> y]
            BY <1>10, <1>11, <1>12, <2>2
        <3>4. Has(classes'[n].methods, y)
            BY <3>3 DEF Has, None
        <3> QED BY <2>2, <3>1, <3>2, <3>3, <3>4 DEF Inherited
    <2>3. CASE d = n /\ y # name
        <3>1. ASSUME NEW a \in Ancestors(n)
              PROVE  y \in classes'[a].declares <=> y \in classes[a].declares
            <4>1. CASE a = n
                BY <1>11, <1>12, <2>3, <4>1
            <4>2. CASE a # n
                <5>1. a \in 1 .. n - 1
                    BY <1>2, <1>15, <4>2
                <5> QED BY <1>12, <5>1 DEF Same
            <4> QED BY <4>1, <4>2
        <3>2. Declaring(n, y)' = Declaring(n, y)
            BY <1>15, <3>1 DEF Declaring
        <3>3. classes'[n].methods[y] = classes[n].methods[y]
            BY <1>10, <1>11, <1>12, <2>3
        <3>4. Inherited(n, y)
            <4>1. n \in DOMAIN classes
                BY <1>2
            <4> QED BY <1>2, <4>1, InheritedAll
        <3> QED BY <2>3, <3>2, <3>3, <3>4 DEF Inherited, Has
    <2> QED BY <2>1, <2>2, <2>3
<1>17. MethodsAreInherited'
    BY <1>16, InheritedAllNext
<1>18. GlobalsHold'
    BY <1>0, <1>6, <1>12, <1>2 DEF Inv, GlobalsHold
<1>19. DeclarationGoes'
    <2>1. classes'[n].super = classes[n].super
        BY <1>11, <1>12
    <2> QED BY <1>0, <1>1, <1>6, <1>12, <2>1 DEF Inv, DeclarationGoes
<1>20. Settled'
    <2>1. Machine' = Machine
        BY <1>6 DEF Machine
    <2>2. (\A i \in DOMAIN stack : Sound(stack[i], Machine))'
        BY <1>3, <1>6, <1>12 DEF Plain, Sound, Exists
    <2>3. Objects(Machine)'
        <3>1. DOMAIN instances' = {} /\ Machine'.instances = instances'
            BY <1>2, <1>6, <2>1, MachineIs
        <3> QED BY <3>1 DEF Objects
    <2>4. FramesHold'
        <3>1. DOMAIN frames = {1} /\ frames[1].method = Script
            BY <1>2, DeclarationHolds
        <3>2. Script.class = 0
            BY DEF Script
        <3>3. FrameHolds(frames[1], Machine)
            BY <3>1 DEF Inv, FramesHold
        <3>4. FrameHolds(frames[1], Machine)'
            BY <1>6, <2>1, <3>1, <3>2, <3>3 DEF FrameHolds
        <3>5. FramesHold
            BY DEF Inv
        <3> QED BY <1>6, <3>1, <3>4, <3>5 DEF FramesHold
    <2>5. HeightsMatch' /\ NothingRemains'
        BY <1>6 DEF Inv, HeightsMatch, NothingRemains, Frame
    <2> QED BY <1>3, <2>1, <2>2, <2>3, <2>4, <2>5 DEF Settled
<1>21. /\ globals' \in [Globals -> Values]
       /\ declaration' \in {NoDeclaration} \cup [next : Nexts, name : Globals]
    BY <1>2, <1>6
<1> QED BY <1>12, <1>13, <1>17, <1>18, <1>19, <1>20, <1>21, InvOfSettled

-----------------------------------------------------------------------------
(* The invariant.                                                          *)

LEMMA InitInv == Init => Inv
<1> SUFFICES ASSUME Init
             PROVE  Inv
    OBVIOUS
<1>1. /\ stack = <<>> /\ frames = <<>> /\ instances = <<>> /\ classes = <<NewClass>>
      /\ globals = [x \in Globals |-> IF x = OBJECT THEN ClassValue(1) ELSE Native]
      /\ declaration = NoDeclaration
    BY DEF Init
<1>2. /\ classes \in Seq(Classes) /\ Len(classes) = 1 /\ DOMAIN classes = {1} /\ classes[1] = NewClass
    BY <1>1, NewClassIs
<1>3. ClassValue(1) \in Values /\ ClassValue(1).kind = "class" /\ ClassValue(1).class = 1
    BY MadeValues
<1>4. Native \in Values /\ Native.kind = "native"
    BY DEF Values, Native
<1>5. globals \in [Globals -> Values] /\ \A x \in Globals : globals[x] \in {ClassValue(1), Native}
    BY <1>1, <1>3, <1>4
<1>6. MachineHolds(Machine)
    <2>1. Machine = [ok |-> TRUE, stack |-> <<>>, frames |-> <<>>, instances |-> <<>>]
        BY <1>1 DEF Machine
    <2>2. <<>> \in Seq(Values) /\ <<>> \in Seq(CallFrames) /\ <<>> \in Seq(Instances)
        OBVIOUS
    <2>3. Machine \in Machines
        BY <2>1, <2>2 DEF Machines
    <2> QED BY <2>1, <2>3, EmptyHolds
<1>7. Types
    BY <1>1, <1>2, <1>5, <1>6 DEF Types, MachineHolds
<1>8. (\A i \in DOMAIN stack : Sound(stack[i], Machine)) /\ Objects(Machine)
    BY <1>6, MachineIs DEF MachineHolds
<1>9. FramesHold /\ HeightsMatch /\ NothingRemains
    <2>1. DOMAIN frames = {} /\ 1 .. Len(frames) - 1 = {}
        BY <1>1
    <2> QED BY <1>1, <2>1 DEF FramesHold, HeightsMatch, NothingRemains
<1>10. Chain
    BY <1>2, NewClassIs DEF Chain
<1>11. MethodsAreInherited
    <2>1. ASSUME NEW name \in Names
          PROVE  Inherited(1, name)
        <3>1. Declaring(1, name) = {}
            BY <1>2, NewClassIs DEF Declaring, Ancestors
        <3> QED BY <1>2, <3>1, NewClassIs DEF Inherited
    <2> QED BY <1>2, <2>1, InheritedAll
<1>12. GlobalsHold
    BY <1>1, <1>2, <1>3, <1>4, <1>5 DEF GlobalsHold
<1>13. DeclarationGoes
    BY <1>1 DEF DeclarationGoes
<1> QED BY <1>7, <1>8, <1>9, <1>10, <1>11, <1>12, <1>13 DEF Inv

LEMMA HandledKeeps ==
    ASSUME Inv, Handled
    PROVE  Inv' /\ (frames' = <<>> \/ Len(frames') >= Len(frames))
<1>1. PICK m : \E e \in Int : Outcome(m, e) /\ Execute(m, e)
    BY DEF Handled
<1>2. PICK e \in Int : Outcome(m, e) /\ Execute(m, e)
    BY <1>1
<1> QED BY <1>2, ExecuteKeeps

LEMMA StutterKeeps == Inv /\ UNCHANGED vars => Inv'
<1> SUFFICES ASSUME Inv, UNCHANGED vars
             PROVE  Inv'
    OBVIOUS
<1>1. UNCHANGED <<stack, frames, classes, instances, globals, declaration>>
    BY DEF vars
<1>2. Machine' = Machine
    BY <1>1 DEF Machine
<1>3. Types'
    BY <1>1, <1>2 DEF Inv, Types
<1>4. (\A i \in DOMAIN stack : Sound(stack[i], Machine))' /\ Objects(Machine)'
    BY <1>1, <1>2, ClassesStay DEF Inv, Objects
<1>5. FramesHold'
    <2>1. (\A f \in DOMAIN frames : FrameHolds(frames[f], Machine))'
        BY <1>1, <1>2, ClassesStay DEF Inv, FramesHold, FrameHolds
    <2> QED BY <1>1, <2>1 DEF Inv, FramesHold
<1>6. HeightsMatch' /\ NothingRemains' /\ GlobalsHold' /\ DeclarationGoes'
    BY <1>1 DEF Inv, HeightsMatch, NothingRemains, Frame, GlobalsHold, DeclarationGoes
<1>7. MethodsAreInherited' /\ Chain'
    BY <1>1, InheritedStay
<1> QED BY <1>3, <1>4, <1>5, <1>6, <1>7 DEF Inv

(* What a step of the program's own code is, a return apart.               *)
Handlers ==
    \/ PopValue \/ GetGlobal \/ GetLocal
    \/ GetProperty \/ SetProperty \/ GetSuper
    \/ Call \/ Invoke \/ SuperInvoke

LEMMA AllHandled == Inv /\ Handlers => Handled
BY PopValueHandled, GetGlobalHandled, GetLocalHandled, GetPropertyHandled, SetPropertyHandled,
   GetSuperHandled, CallHandled, InvokeHandled, SuperInvokeHandled DEF Handlers

LEMMA NextInv == Inv /\ [Next]_vars => Inv'
<1> SUFFICES ASSUME Inv, [Next]_vars
             PROVE  Inv'
    OBVIOUS
<1>1. CASE Handlers
    BY <1>1, AllHandled, HandledKeeps
<1>2. CASE Return
    BY <1>2, ReturnKeeps
<1>3. CASE StartLine
    BY <1>3, StartLineKeeps
<1>4. CASE DeclareFunction
    BY <1>4, DeclareFunctionKeeps
<1>5. CASE Class
    BY <1>5, ClassKeeps
<1>6. CASE DefineClass
    BY <1>6, DefineClassKeeps
<1>7. CASE GetSuperclass
    BY <1>7, GetSuperclassKeeps
<1>8. CASE GetClass
    BY <1>8, GetClassKeeps
<1>9. CASE Inherit
    BY <1>9, InheritKeeps
<1>10. CASE Method
    BY <1>10, MethodKeeps
<1>11. CASE EndClass
    BY <1>11, EndClassKeeps
<1>12. CASE UNCHANGED vars
    BY <1>12, StutterKeeps
<1> QED BY <1>1, <1>2, <1>3, <1>4, <1>5, <1>6, <1>7, <1>8, <1>9, <1>10, <1>11, <1>12 DEF Next, Handlers

(* The inductive invariant of calls, classes and their declarations, which *)
(* the handlers of vm.cc keep (lines 81-217, 342-388, 468-580).            *)
THEOREM InvHolds == Spec => []Inv
BY InitInv, NextInv, PTL DEF Spec

LEMMA InvTypeOK == Inv => TypeOK
<1> SUFFICES ASSUME Inv
             PROVE  TypeOK
    OBVIOUS
<1>1. ASSUME NEW v \in Range(stack) \cup Range(globals)
      PROVE  Exists(v, Machine)
    <2>1. CASE v \in Range(stack)
        BY <2>1 DEF Inv, Sound, Range
    <2>2. CASE v \in Range(globals)
        <3>1. PICK x \in Globals : v = globals[x]
            BY <2>2 DEF Inv, Types, Range
        <3> QED BY <3>1 DEF Inv, GlobalsHold, Exists
    <2> QED BY <2>1, <2>2
<1>2. ASSUME NEW i \in DOMAIN instances
      PROVE  /\ instances[i].class \in DOMAIN classes
             /\ \A v \in Range(instances[i].fields) : Exists(v, Machine)
    <2>1. instances[i] \in Instances /\ i \in DOMAIN Machine.instances /\ Machine.instances = instances
        <3>1. instances \in Seq(Instances)
            BY MachineIs, Stacks DEF Inv, Types
        <3> QED BY <3>1, MachineIs
    <2>2. DOMAIN instances[i].fields = Names
        BY <2>1 DEF Instances, Tables
    <2> QED BY <2>1, <2>2 DEF Inv, Objects, Sound, Range
<1> QED BY <1>1, <1>2 DEF Inv, Types, TypeOK, Chain

(* Every variable has its type, and no value names a class or an instance  *)
(* that is not there, whatever failed or was redefined (vm.cc:81-217).     *)
THEOREM TypeOKAlways == Spec => []TypeOK
BY InvHolds, InvTypeOK, PTL

(* The methods that INHERIT copies and METHOD adds (vm.cc) are those of    *)
(* the nearest class above that declares them.                             *)
THEOREM MethodsAreInheritedAlways == Spec => []MethodsAreInherited
<1>1. Inv => MethodsAreInherited
    BY DEF Inv
<1> QED BY <1>1, InvHolds, PTL

(* A frame's locals are on the stack where the compiler reckons them to be *)
(* (vm.cc, call and OpCode::RETURN).                                       *)
THEOREM HeightsMatchAlways == Spec => []HeightsMatch
<1>1. Inv => HeightsMatch
    BY DEF Inv
<1> QED BY <1>1, InvHolds, PTL

LEMMA InvThisBelongs == Inv => ThisBelongs
<1> SUFFICES ASSUME Inv
             PROVE  ThisBelongs
    OBVIOUS
<1>1. ASSUME NEW f \in Range(frames)
      PROVE  f.method.class # 0 => Receives(stack[f.slots], f.method, Machine)
    BY MachineIs DEF Inv, FramesHold, FrameHolds, Range
<1>2. ASSUME NEW v \in Range(stack)
      PROVE  v.kind = "bound" => Receives(v.receiver, v.method, Machine)
    BY DEF Inv, Sound, Range
<1>3. ASSUME NEW i \in Range(instances), NEW v \in Range(i.fields)
      PROVE  v.kind = "bound" => Receives(v.receiver, v.method, Machine)
    <2>1. PICK j \in DOMAIN instances : i = instances[j]
        BY DEF Range
    <2>2. instances[j] \in Instances /\ Machine.instances = instances
        <3>1. instances \in Seq(Instances)
            BY MachineIs, Stacks DEF Inv, Types
        <3> QED BY <3>1, MachineIs
    <2>3. DOMAIN instances[j].fields = Names
        BY <2>2 DEF Instances, Tables
    <2>4. PICK x \in Names : v = instances[j].fields[x]
        BY <2>1, <2>3 DEF Range
    <2> QED BY <2>1, <2>2, <2>4 DEF Inv, Objects, Sound
<1> QED BY <1>1, <1>2, <1>3 DEF ThisBelongs

(* A method runs with a `this' of its class, or of one below it, and what  *)
(* is bound to a method is of its class (vm.cc, callValue and invoke).     *)
THEOREM ThisBelongsAlways == Spec => []ThisBelongs
BY InvHolds, InvThisBelongs, PTL

-----------------------------------------------------------------------------
(* INVOKE is GET_PROPERTY and CALL.                                        *)

LEMMA SameFailure ==
    ASSUME NEW m \in Machines, NEW k \in Machines, k.instances = m.instances
    PROVE  Failure(k) = Failure(m)
BY DEF Failure, Machines

LEMMA PutTwice ==
    ASSUME NEW m \in Machines, NEW n \in 0 .. Len(m.stack) - 1, NEW v \in Values
    PROVE  Put(Put(m, n, v), n, Peek(m, n)) = m
<1>1. m.stack \in Seq(Values) /\ Len(m.stack) \in Nat /\ DOMAIN m.stack = 1 .. Len(m.stack)
    BY Stacks
<1>2. Peek(m, n) \in Values /\ Peek(m, n) = m.stack[Len(m.stack) - n] /\ Len(m.stack) - n \in 1 .. Len(m.stack)
    BY Seen
<1>3. PICK p : p = Put(m, n, v)
    OBVIOUS
<1>4. /\ p \in Machines /\ Len(p.stack) = Len(m.stack) /\ p.ok = m.ok
      /\ \A i \in 1 .. Len(m.stack) : i # Len(m.stack) - n => p.stack[i] = m.stack[i]
      /\ p.frames = m.frames /\ p.instances = m.instances
    BY <1>3, PutDown
<1>5. PICK q : q = Put(p, n, Peek(m, n))
    OBVIOUS
<1>6. n \in 0 .. Len(p.stack) - 1
    BY <1>4
<1>7. /\ q \in Machines /\ Len(q.stack) = Len(p.stack) /\ q.ok = p.ok
      /\ q.stack[Len(p.stack) - n] = Peek(m, n)
      /\ \A i \in 1 .. Len(p.stack) : i # Len(p.stack) - n => q.stack[i] = p.stack[i]
      /\ q.frames = p.frames /\ q.instances = p.instances
    BY <1>2, <1>4, <1>5, <1>6, PutDown
<1>8. q.stack \in Seq(Values)
    BY <1>7, Stacks
<1>9. Len(q.stack) = Len(m.stack) /\ \A i \in 1 .. Len(m.stack) : q.stack[i] = m.stack[i]
    BY <1>2, <1>4, <1>7
<1>10. q.stack = m.stack
    BY <1>1, <1>8, <1>9, SeqEqual
<1>11. q = m
    BY <1>4, <1>7, <1>10 DEF Machines
<1> QED BY <1>3, <1>5, <1>11

(* What is seen of the machine before the arguments were pushed.           *)
LEMMA BeforeArguments ==
    ASSUME NEW m \in Machines, m.ok, NEW n \in 0 .. Len(m.stack) - 1
    PROVE  /\ Pop(m, n) \in Machines /\ Pop(m, n).ok /\ Pop(m, n).instances = m.instances
           /\ Peek(Pop(m, n), 0) = Peek(m, n) /\ Peek(m, n) \in Values
           /\ Failure(Pop(m, n)) = Failure(m)
           /\ Pop(Pop(m, n), 1) \in Machines /\ Pop(Pop(m, n), 1).ok
<1>1. PICK h \in Nat : h = Len(m.stack)
    BY Stacks
<1>2. n \in 0 .. h /\ h - n \in 1 .. h - n /\ h - n \in Nat /\ 1 \in 0 .. h - n /\ 0 \in 0 .. (h - n) - 1
      /\ (h - n) - 0 = h - n
    BY <1>1
<1>3. PICK k : k = Pop(m, n)
    OBVIOUS
<1>4. /\ k \in Machines /\ Len(k.stack) = h - n /\ k.ok /\ k.instances = m.instances
      /\ \A i \in 1 .. h - n : k.stack[i] = m.stack[i]
    BY <1>1, <1>2, <1>3, Popped
<1>5. Peek(k, 0) = k.stack[h - n] /\ Peek(m, n) = m.stack[h - n] /\ Peek(m, n) \in Values
    <2>1. 0 \in 0 .. Len(k.stack) - 1
        BY <1>2, <1>4
    <2>2. Peek(k, 0) = k.stack[Len(k.stack) - 0]
        BY <1>4, <2>1, Seen
    <2> QED BY <1>1, <1>2, <1>4, <2>2, Seen
<1>6. Failure(k) = Failure(m)
    BY <1>4, SameFailure
<1>7. Pop(k, 1) \in Machines /\ Pop(k, 1).ok
    <2>1. 1 \in 0 .. Len(k.stack)
        BY <1>2, <1>4
    <2> QED BY <1>4, <2>1, Popped
<1> QED BY <1>2, <1>3, <1>4, <1>5, <1>6, <1>7

LEMMA BindAndCall ==
    ASSUME classes \in Seq(Classes), MethodsAreInherited,
           NEW m \in Machines, m.ok, NEW n \in 0 .. Len(m.stack) - 1,
           Peek(m, n).kind = "instance", NEW c \in DOMAIN classes, NEW name \in Names
    PROVE  AfterInvokeFromClass(m, c, name, n) = Sequence(m, AfterBindMethod(Pop(m, n), c, name), n)
<1> DEFINE f == classes[c].methods[name]
           b == Bound(Peek(m, n), f)
           k == Pop(m, n)
<1>1. /\ k \in Machines /\ k.ok /\ Peek(k, 0) = Peek(m, n) /\ Peek(m, n) \in Values
      /\ Failure(k) = Failure(m) /\ Pop(k, 1) \in Machines /\ Pop(k, 1).ok
    BY BeforeArguments
<1>2. CASE Has(classes[c].methods, name)
    <2>1. f \in Methods /\ Peek(m, n) \in InstanceValues
        BY <1>1, <1>2, Found, Kinds
    <2>2. b \in Values /\ b.kind = "bound" /\ b.receiver = Peek(m, n) /\ b.method = f
        BY <2>1, MadeValues
    <2>3. AfterBindMethod(k, c, name) = Push(Pop(k, 1), b)
        BY <1>1, <1>2 DEF AfterBindMethod
    <2>4. AfterInvokeFromClass(m, c, name, n) = AfterCall(m, f, n)
        BY <1>2 DEF AfterInvokeFromClass
    <2> HIDE DEF b, f, k
    <2>5. Push(Pop(k, 1), b).ok /\ Peek(Push(Pop(k, 1), b), 0) = b
        BY <1>1, <2>2, Pushed, PushedAndPopped
    <2>6. Sequence(m, Push(Pop(k, 1), b), n) = AfterCallValue(Put(m, n, b), b, n)
        BY <2>5 DEF Sequence
    <2>7. AfterCallValue(Put(m, n, b), b, n) = AfterCall(Put(Put(m, n, b), n, Peek(m, n)), f, n)
        BY <2>2 DEF AfterCallValue
    <2>8. Put(Put(m, n, b), n, Peek(m, n)) = m
        BY <2>2, PutTwice
    <2> QED BY <2>3, <2>4, <2>6, <2>7, <2>8 DEF k
<1>3. CASE ~Has(classes[c].methods, name)
    <2>1. AfterInvokeFromClass(m, c, name, n) = Failure(m) /\ AfterBindMethod(k, c, name) = Failure(k)
        BY <1>3 DEF AfterInvokeFromClass, AfterBindMethod
    <2>2. ~Failure(m).ok
        BY Failing
    <2>3. Sequence(m, Failure(m), n) = Failure(m)
        BY <2>2 DEF Sequence
    <2> QED BY <1>1, <2>1, <2>3
<1> QED BY <1>2, <1>3

LEMMA GetAndCall ==
    ASSUME Inv, NEW n \in 0 .. Len(stack) - 1, NEW name \in Names
    PROVE  AfterInvoke(Machine, name, n) = Sequence(Machine, AfterGetProperty(Pop(Machine, n), name), n)
<1>0. /\ Machine \in Machines /\ Machine.ok /\ n \in 0 .. Len(Machine.stack) - 1
      /\ Machine.instances = instances
    BY MachineIs DEF Inv, Types
<1>1. PICK m : m = Machine
    OBVIOUS
<1>2. PICK v : v = Peek(m, n)
    OBVIOUS
<1>3. PICK k : k = Pop(m, n)
    OBVIOUS
<1>4. /\ m \in Machines /\ m.ok /\ n \in 0 .. Len(m.stack) - 1
      /\ k \in Machines /\ k.ok /\ k.instances = m.instances /\ Peek(k, 0) = v /\ v \in Values
      /\ Failure(k) = Failure(m) /\ Pop(k, 1) \in Machines /\ Pop(k, 1).ok
    BY <1>0, <1>1, <1>2, <1>3, BeforeArguments
<1>5. CASE v.kind # "instance"
    <2>1. AfterInvoke(m, name, n) = Failure(m) /\ AfterGetProperty(k, name) = Failure(m)
        BY <1>2, <1>4, <1>5 DEF AfterInvoke, AfterGetProperty
    <2>2. ~Failure(m).ok
        BY <1>4, Failing
    <2>3. Sequence(m, Failure(m), n) = Failure(m)
        BY <2>2 DEF Sequence
    <2> QED BY <1>1, <1>3, <2>1, <2>3
<1>6. CASE v.kind = "instance"
    <2>1. PICK i : i = m.instances[v.instance]
        OBVIOUS
    <2>2. v.instance \in DOMAIN instances /\ i = instances[v.instance]
        <3>1. v = stack[Len(stack) - n] /\ Len(stack) - n \in DOMAIN stack
            <4>1. Machine.stack = stack
                BY MachineIs
            <4>2. v = Machine.stack[Len(Machine.stack) - n] /\ Len(Machine.stack) - n \in 1 .. Len(Machine.stack)
                BY <1>0, <1>1, <1>2, Seen
            <4>3. DOMAIN Machine.stack = 1 .. Len(Machine.stack)
                BY <1>0, Stacks
            <4> QED BY <4>1, <4>2, <4>3
        <3>2. Sound(v, Machine)
            BY <3>1 DEF Inv
        <3> QED BY <1>0, <1>1, <1>6, <2>1, <3>2 DEF Sound, Exists
    <2>3. i \in Instances /\ i.class \in DOMAIN classes
        <3>1. instances \in Seq(Instances)
            BY <1>0, Stacks
        <3> QED BY <1>0, <2>2, <3>1 DEF Inv, Objects
    <2>4. CASE Has(i.fields, name)
        <3>1. PICK w : w = i.fields[name]
            OBVIOUS
        <3>2. w \in Values
            BY <2>3, <2>4, <3>1 DEF Instances, Tables, Has
        <3>3. AfterInvoke(m, name, n) = AfterCallValue(Put(m, n, w), w, n)
            BY <1>2, <1>6, <2>1, <2>4, <3>1 DEF AfterInvoke
        <3>4. AfterGetProperty(k, name) = Push(Pop(k, 1), w)
            BY <1>4, <1>6, <2>1, <2>4, <3>1 DEF AfterGetProperty
        <3>5. Push(Pop(k, 1), w).ok /\ Peek(Push(Pop(k, 1), w), 0) = w
            BY <1>4, <3>2, Pushed, PushedAndPopped
        <3>6. Sequence(m, Push(Pop(k, 1), w), n) = AfterCallValue(Put(m, n, w), w, n)
            BY <3>5 DEF Sequence
        <3> QED BY <1>1, <1>3, <3>3, <3>4, <3>6
    <2>5. CASE ~Has(i.fields, name)
        <3>1. AfterInvoke(m, name, n) = AfterInvokeFromClass(m, i.class, name, n)
            BY <1>2, <1>6, <2>1, <2>5 DEF AfterInvoke
        <3>2. AfterGetProperty(k, name) = AfterBindMethod(k, i.class, name)
            BY <1>4, <1>6, <2>1, <2>5 DEF AfterGetProperty
        <3>3. AfterInvokeFromClass(m, i.class, name, n) = Sequence(m, AfterBindMethod(k, i.class, name), n)
            <4>1. classes \in Seq(Classes) /\ MethodsAreInherited
                BY DEF Inv, Types
            <4> QED BY <1>2, <1>3, <1>4, <1>6, <2>3, <4>1, BindAndCall
        <3> QED BY <1>1, <1>3, <3>1, <3>2, <3>3
    <2> QED BY <2>4, <2>5
<1> QED BY <1>5, <1>6

LEMMA SuperGetAndCall ==
    ASSUME Inv, MaySuper, NEW n \in 0 .. Len(stack) - 1, Peek(Machine, n) = This, NEW name \in Names
    PROVE  AfterSuperInvoke(WithSuper(Machine), name, n) =
             Sequence(Machine, AfterGetSuper(WithSuper(Pop(Machine, n)), name), n)
<1>0. Machine \in Machines /\ Machine.ok /\ n \in 0 .. Len(Machine.stack) - 1
    BY MachineIs DEF Inv, Types
<1>1. Pop(Machine, n) \in Machines
    BY <1>0, BeforeArguments
<1>2. PICK c : c = classes[Frame.method.class].super
    OBVIOUS
<1>3. /\ c \in DOMAIN classes /\ This.kind = "instance"
      /\ \A m \in Machines : Pop(WithSuper(m), 1) = m /\ Peek(WithSuper(m), 0).class = c
    BY <1>2, SuperHolds
<1>4. /\ AfterSuperInvoke(WithSuper(Machine), name, n) = AfterInvokeFromClass(Machine, c, name, n)
      /\ AfterGetSuper(WithSuper(Pop(Machine, n)), name) = AfterBindMethod(Pop(Machine, n), c, name)
    BY <1>0, <1>1, <1>3 DEF AfterSuperInvoke, AfterGetSuper
<1>5. classes \in Seq(Classes) /\ MethodsAreInherited
    BY DEF Inv, Types
<1>6. AfterInvokeFromClass(Machine, c, name, n) = Sequence(Machine, AfterBindMethod(Pop(Machine, n), c, name), n)
    BY <1>0, <1>3, <1>5, BindAndCall
<1> QED BY <1>4, <1>6

LEMMA InvInvokes == Inv => InvokeIsGetAndCall
<1> SUFFICES ASSUME Inv, Running, NEW n \in Arguments, NEW name \in Names
             PROVE  /\ AfterInvoke(Machine, name, n) =
                        Sequence(Machine, AfterGetProperty(Pop(Machine, n), name), n)
                    /\ MaySuper /\ Peek(Machine, n) = This =>
                        AfterSuperInvoke(WithSuper(Machine), name, n) =
                            Sequence(Machine, AfterGetSuper(WithSuper(Pop(Machine, n)), name), n)
    BY DEF InvokeIsGetAndCall
<1>1. n \in 0 .. Len(stack) - 1
    BY RunningCommon DEF Arguments
<1> QED BY <1>1, GetAndCall, SuperGetAndCall

(* INVOKE and SUPER_INVOKE, which the compiler emits in place of the two   *)
(* instructions (compiler.cc), do what those do: find a field before a     *)
(* method, call what they find, and fail alike (vm.cc, invoke).            *)
THEOREM InvokeIsGetAndCallAlways == Spec => []InvokeIsGetAndCall
BY InvHolds, InvInvokes, PTL

-----------------------------------------------------------------------------
(* Initializers.                                                           *)

(* No step but a return leaves one frame less.                             *)
LEMMA OnlyReturnsLeave ==
    ASSUME Inv, Next, ~Return, Len(frames) > 1
    PROVE  frames' # Front(frames)
<1>1. frames \in Seq(CallFrames)
    BY Stacks, MachineIs DEF Inv, Types
<1>2. PICK L \in Nat : L = Len(frames)
    BY <1>1
<1>3. Len(Front(frames)) = L - 1 /\ L > 1
    BY <1>1, <1>2, FrontIs
<1>4. CASE Handlers
    <2>1. frames' = <<>> \/ Len(frames') >= L
        BY <1>2, <1>4, AllHandled, HandledKeeps
    <2>2. Len(<<>>) = 0 /\ L - 1 # 0 /\ ~(L - 1 >= L)
        BY <1>3
    <2> QED BY <1>3, <2>1, <2>2
<1>5. CASE StartLine
    <2>1. Len(frames) = 0
        BY <1>5 DEF StartLine
    <2> QED BY <1>2, <1>3, <2>1
<1>6. CASE DeclareFunction \/ Class
    <2>1. Len(frames) = 1
        BY <1>6 DEF DeclareFunction, Class, AtStatement
    <2> QED BY <1>2, <1>3, <2>1
<1>7. CASE DefineClass \/ GetSuperclass \/ GetClass \/ Inherit \/ Method \/ EndClass
    <2>1. declaration.next \in Nexts
        BY <1>7 DEF DefineClass, GetSuperclass, GetClass, Inherit, Method, EndClass, Nexts
    <2>2. Len(frames) = 1
        BY <2>1, DeclarationAt
    <2> QED BY <1>2, <1>3, <2>2
<1> QED BY <1>4, <1>5, <1>6, <1>7 DEF Next, Handlers

LEMMA ReturnYields ==
    ASSUME Inv, Return, Len(frames) > 1, Frame.made # 0
    PROVE  Peek([stack |-> stack'], 0) = Instance(Frame.made)
<1>1. PICK v \in ReturnValues : stack' = Append(SubSeq(stack, 1, Frame.slots - 1), v)
    <2>1. PICK L : L = Len(frames)
        OBVIOUS
    <2>2. \E v \in ReturnValues :
            stack' = IF L = 1 THEN <<>> ELSE Append(SubSeq(stack, 1, Frame.slots - 1), v)
        BY <2>1 DEF Return
    <2>3. L # 1
        BY <2>1
    <2> QED BY <2>2, <2>3
<1>2. Running /\ frames # <<>>
    BY DEF Return, Running
<1>3. /\ Frame.slots \in 1 .. Len(stack) /\ Len(stack) \in Nat /\ stack \in Seq(Values)
      /\ FrameHolds(Frame, Machine)
    BY <1>2, RunningHolds, RunningCommon, Stacks
<1>4. IsInitializer(Frame.method) /\ stack[Frame.slots] = Instance(Frame.made)
    BY <1>3, MachineIs DEF FrameHolds
<1>5. v = Instance(Frame.made)
    BY <1>1, <1>4 DEF ReturnValues, This
<1>6. v \in Values
    BY <1>1, <1>2, ReturnValuesSound
<1>7. PICK s \in Seq(Values) : s = SubSeq(stack, 1, Frame.slots - 1)
    <2>1. SubSeq(stack, 1, Frame.slots - 1) \in Seq(Values)
        BY <1>3
    <2> QED BY <2>1
<1>8. stack'[Len(stack')] = v /\ Len(stack') \in Nat
    BY <1>1, <1>6, <1>7
<1>9. Len(stack') - 0 = Len(stack')
    BY <1>8
<1> QED BY <1>5, <1>8, <1>9 DEF Peek

(* The call of a class yields the instance that it made, whatever its      *)
(* initializer does (codegen.cc:45 emitReturn, vm.cc:523 RETURN).          *)
THEOREM ConstructorsYieldTheirInstanceAlways == Spec => ConstructorsYieldTheirInstance
<1>1. ASSUME Inv, [Next]_vars
      PROVE  [Len(frames) > 1 /\ frames' = Front(frames) /\ Frame.made # 0 =>
                Peek([stack |-> stack'], 0) = Instance(Frame.made)]_vars
    <2>1. CASE UNCHANGED vars
        BY <2>1
    <2>2. CASE Return
        BY <1>1, <2>2, ReturnYields
    <2>3. CASE Next /\ ~Return
        BY <1>1, <2>3, OnlyReturnsLeave
    <2> QED BY <1>1, <2>1, <2>2, <2>3
<1> QED BY <1>1, InvHolds, PTL DEF Spec, ConstructorsYieldTheirInstance
=============================================================================
