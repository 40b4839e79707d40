-------------------------- MODULE CallbackPumpProofs --------------------------
(***************************************************************************)
(* What the pump promises, for any number of threads, alarms and callbacks *)
(* and however the pump nests.                                             *)
(*                                                                         *)
(* The invariant has two halves.  The shape of one stack says what frame   *)
(* can be on top of what other.  The guards relate the stacks of all       *)
(* fibers to the counters that the code keeps: the loop of the alarms,     *)
(* that of the callbacks and the retrace are on one stack at most, and no  *)
(* other fiber than the executing one keeps the scheduler disabled.        *)
(***************************************************************************)
EXTENDS CallbackPump, SequenceTheorems, FiniteSetTheorems, WellFoundedInduction, TLAPS

Has(s, op) == \E i \in DOMAIN s : s[i].op = op

\* The callbacks on a stack.
Calls(s) == {c \in Callback : \E i \in DOMAIN s : s[i].op = "Callback" /\ s[i].arg = c}

\* The frames in which no fiber is left: the scheduler is disabled under them.
Interrupt == {"Handler", "Deferred"}
Interrupted(s) == \E op \in Interrupt : Has(s, op)

Shape(s) ==
  /\ s \in Seq(Frame)
  /\ \A i \in DOMAIN s :
       /\ s[i].op \in {"Deferred", "Idle"} => i = Len(s)
       /\ s[i].op = "Handler" => i + 1 \in DOMAIN s /\ s[i + 1].op = "Alarms"
       /\ s[i].op = "Callback" => i + 1 \in DOMAIN s /\ s[i + 1].op = "Callbacks"
       /\ s[i].op = "Callbacks" => i + 1 \in DOMAIN s /\ s[i + 1].op = "Finish"
  /\ \A i, j \in DOMAIN s : i < j =>
       (s[i].op \in {"Alarms", "Callbacks", "Retrace"} => s[j].op # s[i].op)

\* What may be put on a stack.
Fits(op, s) ==
  /\ op \in {"Deferred", "Idle"} => s = << >>
  /\ op = "Handler" => s # << >> /\ Head(s).op = "Alarms"
  /\ op = "Callback" => s # << >> /\ Head(s).op = "Callbacks"
  /\ op = "Callbacks" => s # << >> /\ Head(s).op = "Finish"
  /\ op \in {"Alarms", "Callbacks", "Retrace"} => ~ Has(s, op)

\* A loop is on one stack at most, and its guard is held then.
Guarded(op, depth) ==
  \A f \in Thread : Has(stack[f], op) =>
    depth # 0 /\ \A g \in Thread : Has(stack[g], op) => g = f

RetraceDepth == IF retracing THEN 1 ELSE 0

\* The scheduler is disabled once by each of the frames that disable it.
Disables(s) ==
  (IF Has(s, "Handler") THEN 1 ELSE 0) + (IF Has(s, "Deferred") THEN 1 ELSE 0)

StackInv ==
  /\ \A f \in Thread : Shape(stack[f])
  /\ Guarded("Alarms", alarmDepth)
  /\ Guarded("Callbacks", drainDepth)
  /\ Guarded("Retrace", RetraceDepth)
  /\ disable = Disables(stack[exec])
  /\ \A f \in Thread \ {exec} : ~ Interrupted(stack[f])

\* The first alarm of the queue is the next to fire.
Sorted(queue) == \A i, j \in DOMAIN queue : i <= j => queue[i].fire <= queue[j].fire

\* Unless it idles, the running thread is the one that executes.
Executes == running # Null => running = exec /\ state[exec] = "running"

IInv == TypeOK /\ StackInv /\ Executes /\ Sorted(armed)

-----------------------------------------------------------------------------
(* Stacks.                                                                 *)

LEMMA FrameTypes ==
  ASSUME NEW op, NEW arg,
         \/ op \in {"Alarms", "Callbacks", "Finish"} /\ arg \in Nat
         \/ op = "Callback" /\ arg \in Callback
         \/ op \in {"Idle", "Pump", "Complete", "Handler", "Retrace", "Deferred"} /\ arg = Null
  PROVE  [op |-> op, arg |-> arg] \in Frame
BY DEF Frame

\* A frame is put on a stack.
LEMMA Push ==
  ASSUME NEW s, Shape(s), NEW op, NEW arg, [op |-> op, arg |-> arg] \in Frame, Fits(op, s)
  PROVE  /\ Shape(Do(op, arg) \o s)
         /\ Do(op, arg) \o s # << >>
         /\ Head(Do(op, arg) \o s) = [op |-> op, arg |-> arg]
         /\ Tail(Do(op, arg) \o s) = s
<1> DEFINE f == [op |-> op, arg |-> arg]
           t == Do(op, arg) \o s
<1>1. s \in Seq(Frame) /\ Len(s) \in Nat /\ DOMAIN s = 1 .. Len(s)
  BY LenProperties DEF Shape
<1>2. Do(op, arg) = << f >> /\ << f >> \in Seq(Frame) /\ Len(<< f >>) = 1 /\ << f >>[1] = f
  BY DEF Do
<1>3. /\ t \in Seq(Frame) /\ Len(t) = Len(s) + 1
      /\ \A i \in 1 .. Len(s) + 1 : t[i] = IF i = 1 THEN f ELSE s[i - 1]
  BY <1>1, <1>2, ConcatProperties
<1>4. DOMAIN t = 1 .. Len(s) + 1
  BY <1>1, <1>3, LenProperties
<1>5. f.op = op /\ f.arg = arg
  OBVIOUS
<1> HIDE DEF f, t
<1>6. t[1] = f /\ \A i \in 1 .. Len(s) : t[i + 1] = s[i]
  BY <1>1, <1>3
<1>7. \A i \in DOMAIN t : i = 1 \/ (i - 1 \in DOMAIN s /\ t[i] = s[i - 1])
  BY <1>1, <1>3, <1>4
<1>8. t # << >> /\ Head(t) = f
  BY <1>1, <1>3, <1>6, EmptySeq
<1>9. Tail(t) = s
  <2>1. /\ Tail(t) \in Seq(Frame) /\ Len(Tail(t)) = Len(s)
        /\ \A i \in 1 .. Len(s) : Tail(t)[i] = s[i]
    BY <1>1, <1>3, <1>6, <1>8, HeadTailProperties
  <2> QED
    BY <1>1, <2>1, SeqEqual
<1>10. s # << >> => Head(s) = s[1] /\ 1 \in DOMAIN s
  BY <1>1, EmptySeq
<1>11. ASSUME NEW i \in DOMAIN t
       PROVE  /\ t[i].op \in {"Deferred", "Idle"} => i = Len(t)
              /\ t[i].op = "Handler" => i + 1 \in DOMAIN t /\ t[i + 1].op = "Alarms"
              /\ t[i].op = "Callback" => i + 1 \in DOMAIN t /\ t[i + 1].op = "Callbacks"
              /\ t[i].op = "Callbacks" => i + 1 \in DOMAIN t /\ t[i + 1].op = "Finish"
  <2>1. CASE i = 1
    BY <1>1, <1>3, <1>4, <1>5, <1>6, <1>10, <2>1 DEF Fits
  <2>2. CASE i # 1
    <3>1. i - 1 \in DOMAIN s /\ t[i] = s[i - 1]
      BY <1>7, <2>2
    <3>2. i \in DOMAIN s => t[i + 1] = s[i] /\ i + 1 \in DOMAIN t
      BY <1>1, <1>4, <1>6
    <3> QED
      BY <1>1, <1>3, <3>1, <3>2 DEF Shape
  <2> QED
    BY <2>1, <2>2
<1>12. ASSUME NEW i \in DOMAIN t, NEW j \in DOMAIN t, i < j
       PROVE  t[i].op \in {"Alarms", "Callbacks", "Retrace"} => t[j].op # t[i].op
  <2>1. j - 1 \in DOMAIN s /\ t[j] = s[j - 1]
    BY <1>4, <1>7, <1>12
  <2>2. CASE i = 1
    BY <1>5, <1>6, <2>1, <2>2 DEF Fits, Has
  <2>3. CASE i # 1
    <3>1. i - 1 \in DOMAIN s /\ t[i] = s[i - 1] /\ i - 1 < j - 1
      BY <1>4, <1>7, <1>12, <2>3
    <3> QED
      BY <2>1, <3>1 DEF Shape
  <2> QED
    BY <2>2, <2>3
<1>13. Shape(t)
  BY <1>3, <1>11, <1>12 DEF Shape
<1> QED
  BY <1>8, <1>9, <1>13 DEF f, t

\* What is on a stack that is not empty.
LEMMA Pop ==
  ASSUME NEW s, Shape(s), s # << >>
  PROVE  /\ Shape(Tail(s))
         /\ Head(s) \in Frame
         /\ Fits(Head(s).op, Tail(s))
<1> DEFINE t == Tail(s)
<1>1. s \in Seq(Frame) /\ Len(s) \in Nat \ {0} /\ DOMAIN s = 1 .. Len(s)
  BY LenProperties, EmptySeq DEF Shape
<1>2. /\ Head(s) = s[1] /\ Head(s) \in Frame
      /\ t \in Seq(Frame) /\ Len(t) = Len(s) - 1
      /\ \A i \in 1 .. Len(s) - 1 : t[i] = s[i + 1]
  BY <1>1, HeadTailProperties
<1>3. DOMAIN t = 1 .. Len(s) - 1
  BY <1>1, <1>2, LenProperties
<1> HIDE DEF t
<1>4. \A i \in DOMAIN t : i + 1 \in DOMAIN s /\ t[i] = s[i + 1] /\ 1 < i + 1
  BY <1>1, <1>2, <1>3
<1>5. Shape(t)
  <2>1. ASSUME NEW i \in DOMAIN t
        PROVE  /\ t[i].op \in {"Deferred", "Idle"} => i = Len(t)
               /\ t[i].op = "Handler" => i + 1 \in DOMAIN t /\ t[i + 1].op = "Alarms"
               /\ t[i].op = "Callback" => i + 1 \in DOMAIN t /\ t[i + 1].op = "Callbacks"
               /\ t[i].op = "Callbacks" => i + 1 \in DOMAIN t /\ t[i + 1].op = "Finish"
    <3>1. (i + 1) + 1 \in DOMAIN s => i + 1 \in DOMAIN t /\ t[i + 1] = s[(i + 1) + 1]
      BY <1>1, <1>2, <1>3
    <3>2. i + 1 = Len(s) => i = Len(t)
      BY <1>1, <1>2, <1>3
    <3> QED
      BY <1>4, <3>1, <3>2 DEF Shape
  <2>2. ASSUME NEW i \in DOMAIN t, NEW j \in DOMAIN t, i < j
        PROVE  t[i].op \in {"Alarms", "Callbacks", "Retrace"} => t[j].op # t[i].op
    <3>1. i + 1 < j + 1
      BY <1>3, <2>2
    <3> QED
      BY <1>4, <3>1 DEF Shape
  <2> QED
    BY <1>2, <2>1, <2>2 DEF Shape
<1>6. t # << >> => Head(t) = s[2]
  BY <1>1, <1>2, EmptySeq
<1>7. 2 \in DOMAIN s => t # << >>
  BY <1>1, <1>2, <1>3, EmptySeq
<1>8. 1 = Len(s) => t = << >>
  BY <1>1, <1>2, EmptySeq
<1>9. \A op : Has(t, op) => \E j \in DOMAIN s : 1 < j /\ s[j].op = op
  BY <1>4 DEF Has
<1>10. Fits(Head(s).op, t)
  <2>1. 1 \in DOMAIN s /\ 1 + 1 = 2
    BY <1>1
  <2>2. /\ s[1].op \in {"Deferred", "Idle"} => t = << >>
        /\ s[1].op = "Handler" => t # << >> /\ Head(t).op = "Alarms"
        /\ s[1].op = "Callback" => t # << >> /\ Head(t).op = "Callbacks"
        /\ s[1].op = "Callbacks" => t # << >> /\ Head(t).op = "Finish"
    BY <2>1, <1>6, <1>7, <1>8 DEF Shape
  <2>3. s[1].op \in {"Alarms", "Callbacks", "Retrace"} => ~ Has(t, s[1].op)
    BY <2>1, <1>9 DEF Shape
  <2> QED
    BY <1>2, <2>2, <2>3 DEF Fits
<1> QED
  BY <1>2, <1>5, <1>10 DEF t

\* What a stack has is on its top or below it.
LEMMA HasTop ==
  ASSUME NEW s \in Seq(Frame), s # << >>
  PROVE  /\ \A op : Has(s, op) <=> Head(s).op = op \/ Has(Tail(s), op)
         /\ Calls(s) = Calls(Tail(s)) \cup
              {c \in Callback : Head(s).op = "Callback" /\ Head(s).arg = c}
<1>1. Len(s) \in Nat \ {0} /\ DOMAIN s = 1 .. Len(s) /\ Head(s) = s[1]
  BY LenProperties, EmptySeq
<1>2. /\ Tail(s) \in Seq(Frame) /\ Len(Tail(s)) = Len(s) - 1
      /\ \A i \in 1 .. Len(s) - 1 : Tail(s)[i] = s[i + 1]
  BY <1>1, HeadTailProperties
<1>3. DOMAIN Tail(s) = 1 .. Len(s) - 1
  BY <1>1, <1>2, LenProperties
<1>4. \A i \in DOMAIN s : i = 1 \/ (i - 1 \in DOMAIN Tail(s) /\ s[i] = Tail(s)[i - 1])
  BY <1>1, <1>2, <1>3
<1>5. \A i \in DOMAIN Tail(s) : i + 1 \in DOMAIN s /\ Tail(s)[i] = s[i + 1]
  BY <1>1, <1>2, <1>3
<1>6. 1 \in DOMAIN s
  BY <1>1
<1>7. \A op : Has(s, op) <=> Head(s).op = op \/ Has(Tail(s), op)
  BY <1>1, <1>4, <1>5, <1>6, Zenon DEF Has
<1>8. Calls(Tail(s)) \subseteq Calls(s)
  BY <1>5 DEF Calls
<1>9. {c \in Callback : Head(s).op = "Callback" /\ Head(s).arg = c} \subseteq Calls(s)
  BY <1>1, <1>6 DEF Calls
<1>10. Calls(s) \subseteq Calls(Tail(s)) \cup
         {c \in Callback : Head(s).op = "Callback" /\ Head(s).arg = c}
  BY <1>1, <1>4 DEF Calls
<1> QED
  BY <1>7, <1>8, <1>9, <1>10

LEMMA HasNothing ==
  /\ \A op : ~ Has(<< >>, op)
  /\ Calls(<< >>) = {}
  /\ Shape(<< >>)
  /\ ~ Interrupted(<< >>)
BY DEF Has, Calls, Shape, Interrupted
\* A frame on top of a stack.
LEMMA OnTop ==
  ASSUME NEW s, Shape(s), NEW op, NEW arg, [op |-> op, arg |-> arg] \in Frame, Fits(op, s)
  PROVE  /\ Shape(Do(op, arg) \o s)
         /\ Do(op, arg) \o s # << >>
         /\ Head(Do(op, arg) \o s).op = op
         /\ \A p : Has(Do(op, arg) \o s, p) <=> op = p \/ Has(s, p)
         /\ Calls(Do(op, arg) \o s) =
              Calls(s) \cup {c \in Callback : op = "Callback" /\ arg = c}
<1> DEFINE t == Do(op, arg) \o s
<1>1. /\ Shape(t) /\ t # << >> /\ Tail(t) = s
      /\ Head(t) = [op |-> op, arg |-> arg]
  BY Push
<1>2. t \in Seq(Frame)
  BY <1>1 DEF Shape
<1> HIDE DEF t
<1>3. /\ \A p : Has(t, p) <=> op = p \/ Has(s, p)
      /\ Calls(t) = Calls(s) \cup {c \in Callback : op = "Callback" /\ arg = c}
  <2>1. Head(t).op = op /\ Head(t).arg = arg
    BY <1>1
  <2>2. /\ \A p : Has(t, p) <=> Head(t).op = p \/ Has(Tail(t), p)
        /\ Calls(t) = Calls(Tail(t)) \cup
                        {c \in Callback : Head(t).op = "Callback" /\ Head(t).arg = c}
    BY <1>1, <1>2, HasTop
  <2> QED
    BY <1>1, <2>1, <2>2
<1> QED
  BY <1>1, <1>3 DEF t

\* A frame is a stack of one.
LEMMA DoType ==
  ASSUME NEW op, NEW arg, [op |-> op, arg |-> arg] \in Frame
  PROVE  Do(op, arg) \in Seq(Frame)
BY DEF Do

\* Handlers and callbacks are run by their loops.
LEMMA RunByLoop ==
  ASSUME NEW s, Shape(s)
  PROVE  /\ Has(s, "Handler") => Has(s, "Alarms")
         /\ Has(s, "Callback") => Has(s, "Callbacks")
         /\ ~ Has(s, "Callback") => Calls(s) = {}
BY DEF Shape, Has, Calls

-----------------------------------------------------------------------------
(* Steps of the executing fiber.                                           *)

\* The executing fiber goes on with the frames s, under Idle if it has nothing to
\* do; if another fiber goes on, the scheduler is not disabled under them.
Moved(s) ==
  /\ \E t : /\ Shape(t)
            /\ stack' = [stack EXCEPT ![exec] = t]
            /\ \A op : op # "Idle" => (Has(t, op) <=> Has(s, op))
            /\ Calls(t) = Calls(s)
  /\ exec' \in Thread
  /\ exec' # exec => ~ Interrupted(s)

\* The guard of a loop is taken and released with the loop.
LoopMoves(op, s, depth, next) ==
  /\ Has(s, op) => next # 0 /\ (Has(stack[exec], op) \/ depth = 0)
  /\ ~ Has(s, op) => next = depth \/ Has(stack[exec], op)

LEMMA ShapeOfStacks ==
  ASSUME IInv
  PROVE  exec \in Thread /\ \A f \in Thread : Shape(stack[f]) /\ stack[f] \in Seq(Frame)
BY DEF IInv, TypeOK, StackInv, Shape

\* One loop.
LEMMA GuardStep ==
  ASSUME IInv, NEW op, op # "Idle", NEW depth, NEW next, NEW s,
         Guarded(op, depth), Moved(s), LoopMoves(op, s, depth, next)
  PROVE  \A f \in Thread : Has(stack'[f], op) =>
           next # 0 /\ \A g \in Thread : Has(stack'[g], op) => g = f
<1>1. /\ \A f \in Thread : f # exec => stack'[f] = stack[f]
      /\ Has(stack'[exec], op) <=> Has(s, op)
      /\ exec \in Thread
  BY ShapeOfStacks DEF Moved, IInv, TypeOK
<1> QED
  BY <1>1 DEF Guarded, LoopMoves

\* The invariant of the stacks follows from what the frames of one fiber become.
LEMMA StackStep ==
  ASSUME IInv, NEW s, Moved(s),
         LoopMoves("Alarms", s, alarmDepth, alarmDepth'),
         LoopMoves("Callbacks", s, drainDepth, drainDepth'),
         LoopMoves("Retrace", s, RetraceDepth, RetraceDepth'),
         disable' = Disables(s)
  PROVE  /\ StackInv'
         /\ stack' \in [Thread -> Seq(Frame)]
         /\ disable' \in Nat
<1>1. PICK t : /\ Shape(t)
               /\ stack' = [stack EXCEPT ![exec] = t]
               /\ \A op : op # "Idle" => (Has(t, op) <=> Has(s, op))
  BY DEF Moved
<1>2. exec \in Thread /\ exec' \in Thread /\ stack \in [Thread -> Seq(Frame)]
  BY DEF Moved, IInv, TypeOK
<1>3. stack'[exec] = t /\ \A f \in Thread \ {exec} : stack'[f] = stack[f]
  BY <1>1, <1>2
<1>4. Interrupted(t) <=> Interrupted(s)
  BY <1>1 DEF Interrupted, Interrupt
<1>5. \A f \in Thread : Shape(stack'[f])
  BY <1>1, <1>3, ShapeOfStacks
<1>6. Guarded("Alarms", alarmDepth)'
  BY GuardStep DEF Guarded, IInv, StackInv
<1>7. Guarded("Callbacks", drainDepth)'
  BY GuardStep DEF Guarded, IInv, StackInv
<1>8. Guarded("Retrace", RetraceDepth)'
  BY GuardStep DEF Guarded, IInv, StackInv
<1>9. \A f \in Thread \ {exec} : ~ Interrupted(stack'[f])
  BY <1>3 DEF IInv, StackInv
<1>10. ASSUME NEW u, ~ Interrupted(u)
       PROVE  Disables(u) = 0
  BY <1>10 DEF Interrupted, Interrupt, Disables
<1>11. StackInv'
  <2>1. CASE exec' = exec
    <3>1. Disables(stack'[exec']) = Disables(s)
      BY <1>1, <1>3, <2>1 DEF Disables
    <3> QED
      BY <1>5, <1>6, <1>7, <1>8, <1>9, <2>1, <3>1 DEF StackInv
  <2>2. CASE exec' # exec
    <3>1. ~ Interrupted(s) /\ ~ Interrupted(t)
      BY <1>4, <2>2 DEF Moved
    <3>2. \A f \in Thread : ~ Interrupted(stack'[f])
      BY <1>3, <1>9, <3>1
    <3>3. disable' = Disables(stack'[exec'])
      BY <1>2, <1>10, <3>1, <3>2
    <3> QED
      BY <1>5, <1>6, <1>7, <1>8, <3>2, <3>3 DEF StackInv
  <2> QED
    BY <2>1, <2>2
<1>12. stack' \in [Thread -> Seq(Frame)]
  BY <1>1, <1>2 DEF Shape
<1>13. disable' \in Nat
  BY DEF Disables
<1> QED
  BY <1>11, <1>12, <1>13

\* What is being called back changes with the frames of one fiber.
LEMMA ServiceStep ==
  ASSUME IInv, NEW s, Moved(s)
  PROVE  /\ InService = {c \in Callback : c \in Calls(stack[exec]) \/
                           \E f \in Thread \ {exec} : c \in Calls(stack[f])}
         /\ InService' = {c \in Callback : c \in Calls(s) \/
                            \E f \in Thread \ {exec} : c \in Calls(stack[f])}
<1>1. /\ \A f \in Thread \ {exec} : stack'[f] = stack[f]
      /\ Calls(stack'[exec]) = Calls(s)
      /\ exec \in Thread
  BY DEF Moved, IInv, TypeOK
<1>2. InService = {c \in Callback : \E f \in Thread : c \in Calls(stack[f])}
  BY DEF InService, Calls
<1>3. InService' = {c \in Callback : \E f \in Thread : c \in Calls(stack'[f])}
  BY DEF InService, Calls
<1> QED
  BY <1>1, <1>2, <1>3
\* A loop that is neither entered nor left.
LEMMA SameLoop ==
  ASSUME IInv, NEW op, NEW depth, Guarded(op, depth), NEW s,
         Has(s, op) <=> Has(stack[exec], op)
  PROVE  LoopMoves(op, s, depth, depth)
BY ShapeOfStacks DEF Guarded, LoopMoves

LEMMA SameRetrace ==
  ASSUME IInv, NEW s, Has(s, "Retrace") <=> Has(stack[exec], "Retrace"), UNCHANGED retracing
  PROVE  LoopMoves("Retrace", s, RetraceDepth, RetraceDepth')
<1>1. RetraceDepth' = RetraceDepth
  BY DEF RetraceDepth
<1> QED
  BY <1>1, SameLoop DEF IInv, StackInv

\* The executing fiber goes on.
LEMMA GoOn ==
  ASSUME IInv, NEW s, Shape(s), stack' = [stack EXCEPT ![exec] = s], exec' = exec
  PROVE  Moved(s)
BY ShapeOfStacks DEF Moved

LEMMA GoOnAsBefore ==
  ASSUME IInv, stack' = stack, exec' = exec
  PROVE  Moved(stack[exec])
<1>1. stack' = [stack EXCEPT ![exec] = stack[exec]]
  BY DEF IInv, TypeOK
<1> QED
  BY <1>1, ShapeOfStacks, GoOn

\* What is on top of the stack of the executing fiber.
LEMMA OfTop ==
  ASSUME IInv, stack[exec] # << >>
  PROVE  /\ Shape(Rest)
         /\ Head(stack[exec]) \in Frame
         /\ Fits(Head(stack[exec]).op, Rest)
         /\ \A op : Has(stack[exec], op) <=> Head(stack[exec]).op = op \/ Has(Rest, op)
         /\ Calls(stack[exec]) = Calls(Rest) \cup
              {c \in Callback : Head(stack[exec]).op = "Callback" /\ Arg = c}
BY ShapeOfStacks, Pop, HasTop DEF Rest, Arg

States == [Thread -> {"ready", "running", "waiting"}]

SchedType ==
  /\ state \in States /\ running \in Thread \cup {Null} /\ resched \in BOOLEAN
  /\ running # Null => running = exec /\ state[exec] = "running"

LEMMA SwitchStep ==
  ASSUME IInv, NEW st \in States, NEW s, Shape(s), ~ Interrupted(s), SwitchAway(st, s)
  PROVE  Moved(s) /\ SchedType'
<1>1. PICK t \in ReadyIn(st) : /\ state' = [st EXCEPT ![t] = "running"]
                               /\ running' = t /\ exec' = t /\ resched' = FALSE
                               /\ stack' = [stack EXCEPT ![exec] = s]
  BY DEF SwitchAway, GoesOn
<1>2. t \in Thread
  BY DEF ReadyIn
<1> QED
  BY <1>1, <1>2 DEF Moved, SchedType, States, Executes

\* SelectThread switches only when the scheduler is not disabled, and nobody is
\* ready only if the running thread has gone to sleep.
LEMMA SelectStep ==
  ASSUME IInv, NEW st \in States, NEW s, Shape(s),
         s = << >> \/ (running # Null => st[running] = "running"),
         disable' = Disables(s), SelectThread(st, s)
  PROVE  Moved(s) /\ SchedType'
<1> DEFINE left == IF st[running] = "running" THEN [st EXCEPT ![running] = "ready"] ELSE st
<1>1. left \in States
  BY DEF States
<1>2. disable' = 0 => ~ Interrupted(s)
  BY DEF Disables, Interrupted, Interrupt
<1>3. s = << >> => disable' = 0
  BY HasNothing DEF Disables
<1>4. \/ /\ Stays(st, s) /\ resched' = (resched \/ st # state)
         /\ disable' # 0 \/ running = Null \/ KeepsRunning(st)
      \/ disable' = 0 /\ SwitchAway(left, s)
      \/ /\ disable' = 0 /\ running # Null /\ ReadyIn(left) = {}
         /\ state' = left /\ running' = Null /\ resched' = TRUE /\ exec' = exec
         /\ stack' = [stack EXCEPT ![exec] = Do("Idle", Null) \o s]
  BY Zenon DEF SelectThread, GoesOn
<1>5. CASE /\ Stays(st, s) /\ resched' = (resched \/ st # state)
           /\ disable' # 0 \/ running = Null \/ KeepsRunning(st)
  <2>1. Moved(s)
    BY <1>5, GoOn DEF Stays, GoesOn
  <2>2. running # Null => st[running] = "running"
    BY <1>3, <1>5 DEF KeepsRunning
  <2> QED
    BY <1>5, <2>1, <2>2 DEF Stays, SchedType, States, IInv, TypeOK, Executes
<1>6. CASE disable' = 0 /\ SwitchAway(left, s)
  <2> HIDE DEF left
  <2> QED
    BY <1>1, <1>2, <1>6, SwitchStep
<1>7. CASE /\ disable' = 0 /\ running # Null /\ ReadyIn(left) = {}
           /\ state' = left /\ running' = Null /\ resched' = TRUE /\ exec' = exec
           /\ stack' = [stack EXCEPT ![exec] = Do("Idle", Null) \o s]
  <2> DEFINE t == Do("Idle", Null) \o s
  <2>1. st[running] # "running"
    BY <1>7 DEF ReadyIn, States, IInv, TypeOK
  <2>2. Fits("Idle", s) /\ [op |-> "Idle", arg |-> Null] \in Frame
    BY <1>7, <2>1, FrameTypes DEF Fits
  <2>3. /\ Shape(t)
        /\ \A op : Has(t, op) <=> op = "Idle" \/ Has(s, op)
        /\ Calls(t) = Calls(s) \cup {c \in Callback : "Idle" = "Callback" /\ Null = c}
    BY <2>2, OnTop
  <2> HIDE DEF t
  <2>4. Calls(t) = Calls(s)
    BY <2>3
  <2>5. Moved(s)
    BY <1>7, <2>3, <2>4, ShapeOfStacks DEF Moved, t
  <2> QED
    BY <1>1, <1>7, <2>5 DEF SchedType, Executes
<1> QED
  BY <1>4, <1>5, <1>6, <1>7

LEMMA WokenType ==
  ASSUME IInv, NEW W \in SUBSET Waiting
  PROVE  /\ Woken(W) \in States
         /\ running # Null => Woken(W)[running] = "running"
BY DEF Woken, Waiting, States, IInv, TypeOK, Executes

\* The reschedule at the end of a handler and of the pump.
LEMMA DeferredRescheduleStep ==
  ASSUME IInv, NEW s, Shape(s), disable' = Disables(s), RunDeferredReschedule(s)
  PROVE  Moved(s) /\ SchedType'
<1>1. state \in States /\ (running # Null => state[running] = "running")
  BY DEF IInv, TypeOK, States, Executes
<1>2. CASE resched /\ ~ retracing
  BY <1>1, <1>2, SelectStep DEF RunDeferredReschedule
<1>3. CASE ~ (resched /\ ~ retracing)
  <2>1. Stays(state, s) /\ UNCHANGED resched
    BY <1>3 DEF RunDeferredReschedule
  <2> QED
    BY <1>1, <2>1, GoOn DEF Stays, GoesOn, SchedType, States, IInv, TypeOK, Executes
<1> QED
  BY <1>2, <1>3

\* What a step has to keep.
LEMMA Assembled ==
  ASSUME IInv, NEW s, Moved(s),
         LoopMoves("Alarms", s, alarmDepth, alarmDepth'),
         LoopMoves("Callbacks", s, drainDepth, drainDepth'),
         LoopMoves("Retrace", s, RetraceDepth, RetraceDepth'),
         disable' = Disables(s),
         SchedType',
         retracing' \in BOOLEAN, alarmDepth' \in Nat, drainDepth' \in Nat, now' \in Nat,
         armed' \in Seq([alarm : Alarm, fire : Nat]), Sorted(armed'),
         pending' \in Seq(Callback)
  PROVE  IInv'
<1>1. StackInv' /\ stack' \in [Thread -> Seq(Frame)] /\ disable' \in Nat
  BY StackStep
<1>2. exec' \in Thread
  BY DEF Moved
<1>3. Sorted(armed)'
  BY DEF Sorted
<1> QED
  BY <1>1, <1>2, <1>3 DEF IInv, TypeOK, SchedType, States, Executes

\* A step that leaves the callbacks of the stack alone.
LEMMA SameService ==
  ASSUME IInv, NEW s, Moved(s), Calls(s) = Calls(stack[exec])
  PROVE  InService' = InService
BY ServiceStep
-----------------------------------------------------------------------------
(* The alarm queue.                                                        *)

Queued == [alarm : Alarm, fire : Nat]

\* A set of naturals that is not empty has a least element.
LEMMA LeastElement ==
  ASSUME NEW S \in SUBSET Nat, S # {}
  PROVE  \E x \in S : \A y \in S : x <= y
<1>1. PICK x \in S : \A y \in S : ~ (<< y, x >> \in OpToRel(<, Nat))
  BY NatLessThanWellFounded, WFMin
<1>2. ASSUME NEW y \in S, y < x
      PROVE  << y, x >> \in OpToRel(<, Nat)
  <2>1. << y, x >> \in Nat \X Nat
    OBVIOUS
  <2> QED
    BY <1>2, <2>1 DEF OpToRel
<1>3. \A y \in S : ~ (y < x)
  BY <1>1, <1>2, Zenon
<1> QED
  BY <1>3

LEMMA FireTypes ==
  ASSUME NEW queue \in Seq(Queued)
  PROVE  \A i \in 1 .. Len(queue) : queue[i] \in Queued /\ queue[i].fire \in Nat
<1>1. \A i \in 1 .. Len(queue) : queue[i] \in Queued
  BY ElementOfSeq
<1> QED
  BY <1>1 DEF Queued

\* The alarms that an alarm is inserted behind are the first ones.
LEMMA EarlierAreFirst ==
  ASSUME NEW queue \in Seq(Queued), NEW e \in Queued, Sorted(queue)
  PROVE  \E k \in 0 .. Len(queue) :
           /\ Cardinality({i \in DOMAIN queue : \A j \in 1 .. i : queue[j].fire <= e.fire}) = k
           /\ \A i \in DOMAIN queue : i <= k => queue[i].fire <= e.fire
           /\ \A i \in DOMAIN queue : k < i => e.fire < queue[i].fire
<1> DEFINE n == Len(queue)
           earlier == {i \in DOMAIN queue : \A j \in 1 .. i : queue[j].fire <= e.fire}
           later == {i \in 1 .. n + 1 : i = n + 1 \/ e.fire < queue[i].fire}
<1>1. n \in Nat /\ DOMAIN queue = 1 .. n
  BY LenProperties
<1>2. \A i \in 1 .. n : queue[i].fire \in Nat
  BY FireTypes
<1>3. e.fire \in Nat
  BY DEF Queued
<1>4. PICK m \in later : \A i \in later : m <= i
  <2>1. later \in SUBSET Nat /\ n + 1 \in later
    BY <1>1
  <2> HIDE DEF later
  <2> QED
    BY <2>1, LeastElement
<1>5. m - 1 \in 0 .. n /\ m \in 1 .. n + 1
  BY <1>1, <1>4
<1>6. \A i \in 1 .. n : i < m => queue[i].fire <= e.fire
  BY <1>1, <1>2, <1>3, <1>4
<1>7. \A i \in 1 .. n : m <= i => e.fire < queue[i].fire
  <2> SUFFICES ASSUME NEW i \in 1 .. n, m <= i
               PROVE  e.fire < queue[i].fire
    OBVIOUS
  <2>1. m \in 1 .. n /\ e.fire < queue[m].fire
    BY <1>1, <1>4
  <2>2. queue[m].fire <= queue[i].fire
    BY <1>1, <2>1 DEF Sorted
  <2> QED
    BY <1>2, <1>3, <2>1, <2>2
<1>8. earlier = 1 .. m - 1
  <2>1. earlier \subseteq 1 .. m - 1
    <3> SUFFICES ASSUME NEW i \in earlier
                 PROVE  i \in 1 .. m - 1
      OBVIOUS
    <3>1. i \in 1 .. n /\ queue[i].fire <= e.fire
      BY <1>1
    <3> QED
      BY <1>1, <1>2, <1>3, <1>5, <1>7, <3>1
  <2>2. 1 .. m - 1 \subseteq earlier
    BY <1>1, <1>5, <1>6
  <2> QED
    BY <2>1, <2>2
<1>9. Cardinality(1 .. m - 1) = m - 1
  BY <1>5, FS_Interval
<1> HIDE DEF earlier, later
<1>10. Cardinality(earlier) = m - 1
  BY <1>8, <1>9
<1>11. /\ \A i \in DOMAIN queue : i <= m - 1 => queue[i].fire <= e.fire
       /\ \A i \in DOMAIN queue : m - 1 < i => e.fire < queue[i].fire
  BY <1>1, <1>5, <1>6, <1>7
<1> QED
  BY <1>5, <1>10, <1>11 DEF earlier

\* An element is put into a sequence.
LEMMA InsertedAt ==
  ASSUME NEW T, NEW s \in Seq(T), NEW e \in T, NEW k \in 0 .. Len(s)
  PROVE  /\ InsertAt(s, k + 1, e) \in Seq(T)
         /\ Len(InsertAt(s, k + 1, e)) = Len(s) + 1
         /\ \A i \in 1 .. Len(s) + 1 : InsertAt(s, k + 1, e)[i] =
              IF i <= k THEN s[i] ELSE IF i = k + 1 THEN e ELSE s[i - 1]
<1> DEFINE u == SubSeq(s, 1, k)
           v == SubSeq(s, k + 1, Len(s))
           w == u \o << e >>
<1>1. u \in Seq(T) /\ Len(u) = k /\ \A i \in 1 .. k : u[i] = s[i]
  BY SubSeqProperties
<1>2. /\ v \in Seq(T) /\ Len(v) = Len(s) - k
      /\ \A i \in 1 .. Len(s) - k : v[i] = s[k + i]
  BY SubSeqProperties
<1>3. InsertAt(s, k + 1, e) = w \o v
  <2>1. (k + 1) - 1 = k
    OBVIOUS
  <2> QED
    BY <2>1 DEF InsertAt
<1> HIDE DEF u, v
<1>4. << e >> \in Seq(T) /\ Len(<< e >>) = 1 /\ << e >>[1] = e
  OBVIOUS
<1>5. /\ w \in Seq(T) /\ Len(w) = k + 1
      /\ \A i \in 1 .. k + 1 : w[i] = IF i <= k THEN s[i] ELSE e
  BY <1>1, <1>4, ConcatProperties
<1> HIDE DEF w
<1>6. /\ w \o v \in Seq(T) /\ Len(w \o v) = Len(s) + 1
      /\ \A i \in 1 .. Len(s) + 1 : (w \o v)[i] = IF i <= k + 1 THEN w[i] ELSE v[i - (k + 1)]
  <2>1. /\ w \o v \in Seq(T) /\ Len(w \o v) = Len(w) + Len(v)
        /\ \A i \in 1 .. Len(w) + Len(v) :
             (w \o v)[i] = IF i <= Len(w) THEN w[i] ELSE v[i - Len(w)]
    BY <1>2, <1>5, ConcatProperties
  <2>2. Len(w) + Len(v) = Len(s) + 1
    BY <1>2, <1>5
  <2> QED
    BY <1>5, <2>1, <2>2
<1>7. \A i \in 1 .. Len(s) + 1 : k + 1 < i => v[i - (k + 1)] = s[i - 1]
  BY <1>2
<1> DEFINE r == w \o v
<1>8. /\ r \in Seq(T) /\ Len(r) = Len(s) + 1
      /\ \A i \in 1 .. Len(s) + 1 : r[i] = IF i <= k + 1 THEN w[i] ELSE v[i - (k + 1)]
  BY <1>6
<1>9. InsertAt(s, k + 1, e) = r
  BY <1>3
<1> HIDE DEF r
<1>10. \A i \in 1 .. Len(s) + 1 :
        r[i] = IF i <= k THEN s[i] ELSE IF i = k + 1 THEN e ELSE s[i - 1]
  BY <1>5, <1>7, <1>8
<1> QED
  BY <1>8, <1>9, <1>10

LEMMA InsertAlarmSorted ==
  ASSUME NEW queue \in Seq(Queued), NEW e \in Queued, Sorted(queue)
  PROVE  InsertAlarm(queue, e) \in Seq(Queued) /\ Sorted(InsertAlarm(queue, e))
<1>1. PICK k \in 0 .. Len(queue) :
        /\ Cardinality({i \in DOMAIN queue : \A j \in 1 .. i : queue[j].fire <= e.fire}) = k
        /\ \A i \in DOMAIN queue : i <= k => queue[i].fire <= e.fire
        /\ \A i \in DOMAIN queue : k < i => e.fire < queue[i].fire
  BY EarlierAreFirst
<1> DEFINE r == InsertAt(queue, k + 1, e)
<1>2. InsertAlarm(queue, e) = r
  BY <1>1 DEF InsertAlarm
<1>3. /\ r \in Seq(Queued) /\ Len(r) = Len(queue) + 1
      /\ \A i \in 1 .. Len(queue) + 1 :
           r[i] = IF i <= k THEN queue[i] ELSE IF i = k + 1 THEN e ELSE queue[i - 1]
  BY InsertedAt
<1> HIDE DEF r
<1>4. DOMAIN r = 1 .. Len(queue) + 1 /\ DOMAIN queue = 1 .. Len(queue) /\ Len(queue) \in Nat
  BY <1>3, LenProperties
<1>5. e.fire \in Nat /\ \A i \in DOMAIN queue : queue[i].fire \in Nat
  BY <1>4, FireTypes DEF Queued
<1>6. ASSUME NEW i \in DOMAIN r, NEW j \in DOMAIN r, i <= j
      PROVE  r[i].fire <= r[j].fire
  <2>1. CASE j <= k
    <3>1. r[i] = queue[i] /\ r[j] = queue[j] /\ i \in DOMAIN queue /\ j \in DOMAIN queue
      BY <1>3, <1>4, <1>6, <2>1
    <3> QED
      BY <1>6, <3>1 DEF Sorted
  <2>2. CASE j = k + 1
    <3>1. r[j] = e
      BY <1>3, <1>4, <2>2
    <3>2. r[i] = e \/ (i \in DOMAIN queue /\ i <= k /\ r[i] = queue[i])
      BY <1>3, <1>4, <1>6, <2>2
    <3> QED
      BY <1>1, <1>5, <3>1, <3>2
  <2>3. CASE k + 1 < j
    <3>1. r[j] = queue[j - 1] /\ j - 1 \in DOMAIN queue /\ k < j - 1
      BY <1>3, <1>4, <2>3
    <3>2. CASE i <= k
      <4>1. r[i] = queue[i] /\ i \in DOMAIN queue /\ i <= j - 1
        BY <1>3, <1>4, <2>3, <3>2
      <4> QED
        BY <3>1, <4>1 DEF Sorted
    <3>3. CASE i = k + 1
      <4>1. r[i] = e
        BY <1>3, <1>4, <3>3
      <4> QED
        BY <1>1, <1>5, <3>1, <4>1
    <3>4. CASE k + 1 < i
      <4>1. r[i] = queue[i - 1] /\ i - 1 \in DOMAIN queue /\ i - 1 <= j - 1
        BY <1>3, <1>4, <1>6, <3>4
      <4> QED
        BY <3>1, <4>1 DEF Sorted
    <3> QED
      BY <1>4, <3>2, <3>3, <3>4
  <2> QED
    BY <1>4, <2>1, <2>2, <2>3
<1> QED
  BY <1>2, <1>3, <1>6 DEF Sorted

\* Taking an alarm away leaves the order of the others alone.
LEMMA RemoveAlarmSorted ==
  ASSUME NEW queue \in Seq(Queued), NEW k \in DOMAIN queue, Sorted(queue)
  PROVE  RemoveAt(queue, k) \in Seq(Queued) /\ Sorted(RemoveAt(queue, k))
<1> DEFINE u == SubSeq(queue, 1, k - 1)
           v == SubSeq(queue, k + 1, Len(queue))
           r == u \o v
<1>1. Len(queue) \in Nat /\ DOMAIN queue = 1 .. Len(queue)
      /\ \A i \in 1 .. Len(queue) : queue[i] \in Queued
  BY LenProperties, ElementOfSeq
<1>2. u \in Seq(Queued) /\ Len(u) = k - 1 /\ \A i \in 1 .. k - 1 : u[i] = queue[i]
  BY <1>1, SubSeqProperties
<1>3. /\ v \in Seq(Queued) /\ Len(v) = Len(queue) - k
      /\ \A i \in 1 .. Len(queue) - k : v[i] = queue[k + i]
  BY <1>1, SubSeqProperties
<1> HIDE DEF u, v
<1>4. /\ r \in Seq(Queued) /\ Len(r) = Len(queue) - 1
      /\ \A i \in 1 .. Len(queue) - 1 : r[i] = IF i < k THEN queue[i] ELSE queue[i + 1]
  <2>1. /\ r \in Seq(Queued) /\ Len(r) = Len(u) + Len(v)
        /\ \A i \in 1 .. Len(u) + Len(v) : r[i] = IF i <= Len(u) THEN u[i] ELSE v[i - Len(u)]
    BY <1>2, <1>3, ConcatProperties
  <2> HIDE DEF r
  <2>2. Len(u) + Len(v) = Len(queue) - 1
    BY <1>1, <1>2, <1>3
  <2>3. \A i \in 1 .. Len(queue) - 1 : r[i] = IF i <= k - 1 THEN u[i] ELSE v[i - (k - 1)]
    BY <1>2, <2>1, <2>2
  <2>4. \A i \in 1 .. Len(queue) - 1 : i < k => r[i] = queue[i]
    BY <1>1, <1>2, <2>3
  <2>5. \A i \in 1 .. Len(queue) - 1 : ~ (i < k) => r[i] = queue[i + 1]
    <3> SUFFICES ASSUME NEW i \in 1 .. Len(queue) - 1, ~ (i < k)
                 PROVE  r[i] = queue[i + 1]
      OBVIOUS
    <3> DEFINE m == i - (k - 1)
    <3>1. m \in 1 .. Len(queue) - k /\ k + m = i + 1
      BY <1>1
    <3>2. r[i] = v[m]
      BY <1>1, <2>3
    <3> HIDE DEF m
    <3>3. v[m] = queue[k + m]
      BY <1>3, <3>1
    <3> QED
      BY <3>1, <3>2, <3>3
  <2> QED
    BY <2>1, <2>2, <2>4, <2>5
<1>5. RemoveAt(queue, k) = r
  BY DEF RemoveAt, u, v
<1> HIDE DEF r
<1>6. DOMAIN r = 1 .. Len(queue) - 1
  BY <1>1, <1>4, LenProperties
<1>7. \A i \in DOMAIN r : \E m \in DOMAIN queue : r[i] = queue[m] /\ m = IF i < k THEN i ELSE i + 1
  BY <1>1, <1>4, <1>6
<1>8. ASSUME NEW i \in DOMAIN r, NEW j \in DOMAIN r, i <= j
      PROVE  r[i].fire <= r[j].fire
  <2>1. PICK m \in DOMAIN queue : r[i] = queue[m] /\ m = IF i < k THEN i ELSE i + 1
    BY <1>7
  <2>2. PICK n \in DOMAIN queue : r[j] = queue[n] /\ n = IF j < k THEN j ELSE j + 1
    BY <1>7
  <2>3. m <= n
    BY <1>1, <1>6, <1>8, <2>1, <2>2
  <2> QED
    BY <2>1, <2>2, <2>3 DEF Sorted
<1> QED
  BY <1>4, <1>5, <1>8 DEF Sorted

LEMMA TailSorted ==
  ASSUME NEW queue \in Seq(Queued), queue # << >>, Sorted(queue)
  PROVE  Tail(queue) \in Seq(Queued) /\ Sorted(Tail(queue))
<1>1. Len(queue) \in Nat \ {0} /\ DOMAIN queue = 1 .. Len(queue)
  BY LenProperties, EmptySeq
<1>2. /\ Tail(queue) \in Seq(Queued) /\ Len(Tail(queue)) = Len(queue) - 1
      /\ \A i \in 1 .. Len(queue) - 1 : Tail(queue)[i] = queue[i + 1]
  BY <1>1, HeadTailProperties
<1>3. DOMAIN Tail(queue) = 1 .. Len(queue) - 1
  BY <1>1, <1>2, LenProperties
<1> QED
  BY <1>1, <1>2, <1>3 DEF Sorted

\* A periodic alarm fires again at a time of its own.
LEMMA HeadFiredSorted ==
  ASSUME IInv, HeadIsDue
  PROVE  HeadFired \in Seq(Queued) /\ Sorted(HeadFired)
<1> DEFINE e == Head(armed)
<1>1. armed \in Seq(Queued) /\ armed # << >> /\ Sorted(armed) /\ now \in Nat
  BY DEF IInv, TypeOK, Queued, HeadIsDue
<1>2. e \in Queued /\ e.fire <= now
  BY <1>1, HeadTailProperties DEF HeadIsDue
<1>3. Tail(armed) \in Seq(Queued) /\ Sorted(Tail(armed))
  BY <1>1, TailSorted
<1> HIDE DEF e
<1>4. e.alarm \in Alarm /\ e.fire \in Nat /\ Delay[e.alarm] \in Nat \ {0}
  BY <1>2, PumpConstants DEF Queued
<1>5. NextTime(e) \in Nat
  <2>1. now - e.fire \in Nat
    BY <1>1, <1>2, <1>4
  <2>2. \A a \in Nat : \A d \in Nat \ {0} : a \div d \in Nat
    OBVIOUS
  <2>3. \A x, y \in Nat : x * y \in Nat
    OBVIOUS
  <2>4. (now - e.fire) \div Delay[e.alarm] \in Nat
    BY <1>4, <2>1, <2>2
  <2>5. Delay[e.alarm] * ((now - e.fire) \div Delay[e.alarm] + 1) \in Nat
    BY <1>4, <2>3, <2>4
  <2> QED
    BY <1>4, <2>5 DEF NextTime
<1>6. Entry(e.alarm, NextTime(e)) \in Queued
  BY <1>4, <1>5 DEF Entry, Queued
<1> QED
  BY <1>3, <1>6, InsertAlarmSorted DEF HeadFired, e
-----------------------------------------------------------------------------
(* The steps of guest code.                                                *)

\* Nothing is delivered and nothing is queued.
Quiet == InService' = InService /\ UNCHANGED pending

\* What a step does not touch is as it was.
LEMMA Known ==
  ASSUME IInv
  PROVE  /\ SchedType /\ disable = Disables(stack[exec]) /\ disable \in Nat
         /\ retracing \in BOOLEAN /\ alarmDepth \in Nat /\ drainDepth \in Nat
         /\ now \in Nat /\ armed \in Seq(Queued) /\ Sorted(armed)
         /\ pending \in Seq(Callback)
         /\ Guarded("Alarms", alarmDepth) /\ Guarded("Callbacks", drainDepth)
         /\ Guarded("Retrace", RetraceDepth)
BY DEF IInv, TypeOK, StackInv, Executes, SchedType, States, Queued

\* The guards stay as they are and so do the frames that they are about.
LEMMA PlainStep ==
  ASSUME IInv, NEW s, Moved(s), \A op : op # "Idle" => (Has(s, op) <=> Has(stack[exec], op)),
         UNCHANGED << disable, retracing, alarmDepth, drainDepth >>,
         SchedType', now' \in Nat, armed' \in Seq(Queued), Sorted(armed'),
         pending' \in Seq(Callback)
  PROVE  IInv'
<1>1. /\ LoopMoves("Alarms", s, alarmDepth, alarmDepth')
      /\ LoopMoves("Callbacks", s, drainDepth, drainDepth')
  BY Known, SameLoop
<1>2. Disables(s) = Disables(stack[exec])
  BY DEF Disables
<1>3. /\ LoopMoves("Retrace", s, RetraceDepth, RetraceDepth')
      /\ disable' = Disables(s)
      /\ retracing' \in BOOLEAN /\ alarmDepth' \in Nat /\ drainDepth' \in Nat
  BY <1>2, Known, SameRetrace
<1> QED
  BY <1>1, <1>3, Assembled DEF Queued

LEMMA WakeupStep ==
  ASSUME IInv, OSWakeupThread
  PROVE  IInv' /\ Quiet
<1>1. PICK t \in Waiting : IF retracing
                           THEN Stays(Woken({t}), stack[exec]) /\ resched' = TRUE
                           ELSE SelectThread(Woken({t}), stack[exec])
  BY DEF OSWakeupThread
<1>2. UNCHANGED << disable, retracing, alarmDepth, drainDepth, now, armed, pending >>
  BY DEF OSWakeupThread, guardVars, alarmVars
<1>3. Moved(stack[exec]) /\ SchedType'
  <2>1. CASE retracing
    <3>1. /\ state' = Woken({t}) /\ stack' = [stack EXCEPT ![exec] = stack[exec]]
          /\ running' = running /\ exec' = exec /\ resched' = TRUE
      BY <1>1, <2>1 DEF Stays, GoesOn
    <3> QED
      BY <3>1, Known, WokenType, GoOn, ShapeOfStacks DEF SchedType, Executes
  <2>2. CASE ~ retracing
    <3>1. disable' = Disables(stack[exec])
      BY <1>2, Known
    <3> QED
      BY <1>1, <2>2, <3>1, WokenType, SelectStep, ShapeOfStacks
  <2> QED
    BY <2>1, <2>2
<1> QED
  BY <1>2, <1>3, Known, PlainStep, SameService DEF Quiet

LEMMA ResumeStep ==
  ASSUME IInv, OSResumeThread
  PROVE  IInv' /\ Quiet
<1>1. PICK st \in {state} \cup {Woken({t}) : t \in Waiting} : SelectThread(st, stack[exec])
  BY DEF OSResumeThread
<1>2. UNCHANGED << disable, retracing, alarmDepth, drainDepth, now, armed, pending >>
  BY DEF OSResumeThread, guardVars, alarmVars
<1>3. st \in States /\ (running # Null => st[running] = "running")
  BY <1>1, Known, WokenType DEF SchedType, Executes
<1>4. disable' = Disables(stack[exec])
  BY <1>2, Known
<1>5. Moved(stack[exec]) /\ SchedType'
  BY <1>1, <1>3, <1>4, SelectStep, ShapeOfStacks
<1> QED
  BY <1>2, <1>5, Known, PlainStep, SameService DEF Quiet

LEMMA SleepStep ==
  ASSUME IInv, OSSleepThread
  PROVE  IInv' /\ Quiet
<1>1. /\ stack[exec] = << >>
      /\ SelectThread([state EXCEPT ![exec] = "waiting"], stack[exec])
      /\ UNCHANGED << disable, retracing, alarmDepth, drainDepth, now, armed, pending >>
  BY DEF OSSleepThread, InThread, guardVars, alarmVars
<1>2. [state EXCEPT ![exec] = "waiting"] \in States
  BY Known DEF SchedType, States
<1>3. disable' = Disables(stack[exec])
  BY <1>1, Known
<1>4. Moved(stack[exec]) /\ SchedType'
  BY <1>1, <1>2, <1>3, SelectStep, ShapeOfStacks
<1> QED
  BY <1>1, <1>4, Known, PlainStep, SameService DEF Quiet

\* Time, and what guest code does without the pump.
LEMMA SameFramesStep ==
  ASSUME IInv, UNCHANGED << stack, state, running, exec, resched >>,
         UNCHANGED << disable, retracing, alarmDepth, drainDepth >>,
         now' \in Nat, armed' \in Seq(Queued), Sorted(armed'), pending' \in Seq(Callback)
  PROVE  IInv' /\ InService' = InService
<1>1. Moved(stack[exec])
  BY GoOnAsBefore
<1>2. SchedType'
  BY Known DEF SchedType, Executes
<1> QED
  BY <1>1, <1>2, PlainStep, SameService

LEMMA TickStep ==
  ASSUME IInv, Tick
  PROVE  IInv' /\ Quiet
<1>1. now' \in Nat /\ UNCHANGED << schedVars, guardVars, stack, armed, pending >>
  BY Known DEF Tick
<1> QED
  BY <1>1, Known, SameFramesStep DEF schedVars, guardVars, Quiet

LEMMA SetAlarmStep ==
  ASSUME IInv, OSSetAlarm
  PROVE  IInv' /\ Quiet
<1>1. PICK al \in Alarm : armed' = InsertAlarm(armed, Entry(al, now + Delay[al]))
  BY DEF OSSetAlarm
<1>2. Entry(al, now + Delay[al]) \in Queued
  BY Known, PumpConstants DEF Entry, Queued
<1>3. armed' \in Seq(Queued) /\ Sorted(armed')
  BY <1>1, <1>2, Known, InsertAlarmSorted
<1>4. UNCHANGED << schedVars, guardVars, stack, now, pending >>
  BY DEF OSSetAlarm
<1> QED
  BY <1>3, <1>4, Known, SameFramesStep DEF schedVars, guardVars, Quiet

LEMMA CancelAlarmStep ==
  ASSUME IInv, OSCancelAlarm
  PROVE  IInv' /\ Quiet
<1>1. PICK i \in DOMAIN armed : armed' = RemoveAt(armed, i)
  BY DEF OSCancelAlarm
<1>2. armed' \in Seq(Queued) /\ Sorted(armed')
  BY <1>1, Known, RemoveAlarmSorted
<1>3. UNCHANGED << schedVars, guardVars, stack, now, pending >>
  BY DEF OSCancelAlarm
<1> QED
  BY <1>2, <1>3, Known, SameFramesStep DEF schedVars, guardVars, Quiet

\* A call completes: its callback is queued.
LEMMA InvokeStep ==
  ASSUME IInv, InvokeNandCallback
  PROVE  IInv' /\ InService' = InService /\ \E c \in Callback : pending' = Append(pending, c)
<1>1. PICK c \in Callback : pending' = Append(pending, c)
  BY DEF InvokeNandCallback, Outstanding
<1>2. pending' \in Seq(Callback)
  BY <1>1, Known
<1>3. UNCHANGED << schedVars, guardVars, stack, now, armed >>
  BY DEF InvokeNandCallback, alarmVars
<1> QED
  BY <1>1, <1>2, <1>3, Known, SameFramesStep DEF schedVars, guardVars

-----------------------------------------------------------------------------
(* The steps that enter the pump.                                          *)

\* The alarm loop is entered over the frames s.
LEMMA EnterAlarms ==
  ASSUME IInv, alarmDepth = 0, alarmDepth' = alarmDepth + 1, NEW s, Shape(s),
         \A op : op # "Pump" => (Has(s, op) <=> Has(stack[exec], op)),
         Calls(s) = Calls(stack[exec]),
         stack' = [stack EXCEPT ![exec] = Do("Alarms", MaxToProcess) \o s],
         UNCHANGED << schedVars, disable, retracing, drainDepth, alarmVars, pending >>
  PROVE  IInv' /\ Quiet
<1> DEFINE t == Do("Alarms", MaxToProcess) \o s
<1>1. ~ Has(s, "Alarms")
  BY Known, ShapeOfStacks DEF Guarded
<1>2. [op |-> "Alarms", arg |-> MaxToProcess] \in Frame /\ Fits("Alarms", s)
  BY <1>1, FrameTypes, PumpConstants DEF Fits
<1>3. /\ Shape(t)
      /\ \A p : Has(t, p) <=> "Alarms" = p \/ Has(s, p)
      /\ Calls(t) = Calls(s) \cup {c \in Callback : "Alarms" = "Callback" /\ MaxToProcess = c}
  BY <1>2, OnTop
<1> HIDE DEF t
<1>4. Calls(t) = Calls(stack[exec])
  BY <1>3
<1>5. Moved(t) /\ InService' = InService
  BY <1>3, <1>4, GoOn, SameService DEF schedVars, t
<1>6. LoopMoves("Alarms", t, alarmDepth, alarmDepth')
  BY <1>3 DEF LoopMoves
<1>7. LoopMoves("Callbacks", t, drainDepth, drainDepth')
  BY <1>3, Known, SameLoop
<1>8. /\ Disables(t) = Disables(stack[exec])
      /\ LoopMoves("Retrace", t, RetraceDepth, RetraceDepth')
  BY <1>3, Known, SameRetrace DEF Disables
<1>9. /\ SchedType' /\ retracing' \in BOOLEAN /\ alarmDepth' \in Nat /\ drainDepth' \in Nat
      /\ now' \in Nat /\ armed' \in Seq(Queued) /\ Sorted(armed') /\ pending' \in Seq(Callback)
      /\ disable' = Disables(t)
  BY <1>8, Known DEF schedVars, alarmVars, SchedType
<1> QED
  BY <1>5, <1>6, <1>7, <1>8, <1>9, Assembled DEF Queued, Quiet

LEMMA ProcessAlarmQueueStep ==
  ASSUME IInv, ProcessAlarmQueue
  PROVE  IInv' /\ Quiet
BY EnterAlarms, ShapeOfStacks DEF ProcessAlarmQueue, GoesOn

LEMMA DeferredAlarmsStep ==
  ASSUME IInv, ProcessAlarmsDeferred
  PROVE  IInv' /\ Quiet
<1> DEFINE d == Do("Deferred", Null) \o stack[exec]
           t == Do("Pump", Null) \o d
<1>1. stack[exec] = << >> /\ disable' = disable + 1
      /\ UNCHANGED << schedVars, retracing, alarmDepth, drainDepth, alarmVars, pending >>
  BY DEF ProcessAlarmsDeferred, InThread
<1>2. /\ [op |-> "Deferred", arg |-> Null] \in Frame /\ Fits("Deferred", stack[exec])
      /\ [op |-> "Pump", arg |-> Null] \in Frame
  BY <1>1, FrameTypes DEF Fits
<1>3. stack' = [stack EXCEPT ![exec] = t]
  <2>1. d = Do("Deferred", Null)
    BY ConcatEmptySeq, <1>1, <1>2 DEF Do
  <2> QED
    BY <2>1 DEF ProcessAlarmsDeferred, GoesOn
<1>4. /\ Shape(d)
      /\ \A p : Has(d, p) <=> "Deferred" = p \/ Has(stack[exec], p)
      /\ Calls(d) = Calls(stack[exec]) \cup {c \in Callback : "Deferred" = "Callback" /\ Null = c}
  BY <1>2, OnTop, ShapeOfStacks
<1> HIDE DEF d
<1>5. /\ Shape(t)
      /\ \A p : Has(t, p) <=> "Pump" = p \/ Has(d, p)
      /\ Calls(t) = Calls(d) \cup {c \in Callback : "Pump" = "Callback" /\ Null = c}
  BY <1>2, <1>4, OnTop DEF Fits
<1> HIDE DEF t
<1>6. Calls(t) = Calls(stack[exec])
  BY <1>1, <1>4, <1>5
<1>7. \A p : Has(t, p) <=> p \in {"Pump", "Deferred"}
  BY <1>1, <1>4, <1>5, HasNothing
<1>8. Moved(t) /\ InService' = InService
  BY <1>1, <1>3, <1>5, <1>6, GoOn, SameService DEF schedVars
<1>9. LoopMoves("Alarms", t, alarmDepth, alarmDepth')
  BY <1>1, <1>7, Known, SameLoop, HasNothing
<1>10. LoopMoves("Callbacks", t, drainDepth, drainDepth')
  BY <1>1, <1>7, Known, SameLoop, HasNothing
<1>11. /\ Disables(t) = 1 /\ Disables(stack[exec]) = 0
       /\ LoopMoves("Retrace", t, RetraceDepth, RetraceDepth')
  BY <1>1, <1>7, HasNothing, SameRetrace DEF Disables
<1>12. /\ SchedType' /\ retracing' \in BOOLEAN /\ alarmDepth' \in Nat /\ drainDepth' \in Nat
       /\ now' \in Nat /\ armed' \in Seq(Queued) /\ Sorted(armed') /\ pending' \in Seq(Callback)
       /\ disable' = Disables(t)
  BY <1>1, <1>11, Known DEF schedVars, alarmVars, SchedType
<1> QED
  BY <1>1, <1>8, <1>9, <1>10, <1>11, <1>12, Assembled DEF Queued, Quiet

LEMMA PumpStep ==
  ASSUME IInv, Pump
  PROVE  IInv' /\ Quiet
<1>1. stack[exec] # << >> /\ Head(stack[exec]).op = "Pump"
  BY DEF Pump, At
<1>2. /\ Shape(Rest)
      /\ \A op : op # "Pump" => (Has(Rest, op) <=> Has(stack[exec], op))
      /\ Calls(Rest) = Calls(stack[exec])
  BY <1>1, OfTop
<1>3. CASE alarmDepth = 0
  <2>1. /\ alarmDepth' = alarmDepth + 1
        /\ stack' = [stack EXCEPT ![exec] = Do("Alarms", MaxToProcess) \o Rest]
        /\ UNCHANGED << schedVars, disable, retracing, drainDepth, alarmVars, pending >>
    BY <1>3 DEF Pump, GoesOn
  <2> QED
    BY <1>2, <1>3, <2>1, EnterAlarms
<1>4. CASE alarmDepth # 0
  <2>1. /\ stack' = [stack EXCEPT ![exec] = Rest]
        /\ UNCHANGED << schedVars, disable, retracing, alarmDepth, drainDepth, alarmVars, pending >>
    BY <1>4 DEF Pump, GoesOn
  <2>2. Moved(Rest) /\ InService' = InService
    BY <1>2, <2>1, GoOn, SameService DEF schedVars
  <2>3. /\ LoopMoves("Alarms", Rest, alarmDepth, alarmDepth')
        /\ LoopMoves("Callbacks", Rest, drainDepth, drainDepth')
    BY <1>2, <2>1, Known, SameLoop
  <2>4. /\ Disables(Rest) = Disables(stack[exec])
        /\ LoopMoves("Retrace", Rest, RetraceDepth, RetraceDepth')
    BY <1>2, <2>1, Known, SameRetrace DEF Disables
  <2>5. /\ SchedType' /\ retracing' \in BOOLEAN /\ alarmDepth' \in Nat /\ drainDepth' \in Nat
        /\ now' \in Nat /\ armed' \in Seq(Queued) /\ Sorted(armed') /\ pending' \in Seq(Callback)
        /\ disable' = Disables(Rest)
    BY <2>1, <2>4, Known DEF schedVars, alarmVars, SchedType
  <2> QED
    BY <2>1, <2>2, <2>3, <2>4, <2>5, Assembled DEF Queued, Quiet
<1> QED
  BY <1>3, <1>4
-----------------------------------------------------------------------------
(* The loop of the alarms.                                                 *)

\* A loop has no other frame of its own under it.
LEMMA UnderLoop ==
  ASSUME NEW s, Shape(s), s # << >>
  PROVE  /\ Head(s).op = "Alarms" => ~ Has(s, "Handler")
         /\ Head(s).op = "Callbacks" => ~ Has(s, "Callback") /\ Calls(s) = {}
<1>1. s \in Seq(Frame)
  BY DEF Shape
<1>2. /\ Shape(Tail(s)) /\ Fits(Head(s).op, Tail(s))
      /\ \A op : Has(s, op) <=> Head(s).op = op \/ Has(Tail(s), op)
  BY <1>1, Pop, HasTop
<1>3. Head(s).op = "Alarms" => ~ Has(s, "Handler")
  BY <1>2, RunByLoop DEF Fits
<1>4. Head(s).op = "Callbacks" => ~ Has(s, "Callback")
  BY <1>2, RunByLoop DEF Fits
<1> QED
  BY <1>3, <1>4, RunByLoop

LEMMA FireAlarmStep ==
  ASSUME IInv, FireAlarm
  PROVE  IInv' /\ Quiet
<1> DEFINE u == Do("Alarms", Arg - 1) \o Rest
           t == Do("Handler", Null) \o u
<1>1. /\ stack[exec] # << >> /\ Head(stack[exec]).op = "Alarms" /\ Arg > 0 /\ HeadIsDue
      /\ armed' = HeadFired /\ disable' = disable + 1
      /\ stack' = [stack EXCEPT ![exec] = Do("Handler", Null) \o Do("Alarms", Arg - 1) \o Rest]
      /\ UNCHANGED << schedVars, retracing, alarmDepth, drainDepth, now, pending >>
  BY DEF FireAlarm, At, GoesOn
<1>2. /\ Shape(Rest) /\ Rest \in Seq(Frame) /\ Fits("Alarms", Rest)
      /\ \A op : Has(stack[exec], op) <=> "Alarms" = op \/ Has(Rest, op)
      /\ Calls(Rest) = Calls(stack[exec])
      /\ ~ Has(stack[exec], "Handler")
  BY <1>1, OfTop, UnderLoop, ShapeOfStacks DEF Shape
<1>3. Arg - 1 \in Nat
  BY <1>1, OfTop DEF Frame, Arg
<1>4. [op |-> "Alarms", arg |-> Arg - 1] \in Frame /\ [op |-> "Handler", arg |-> Null] \in Frame
  BY <1>3, FrameTypes
<1>5. /\ Shape(u) /\ u # << >> /\ Head(u).op = "Alarms"
      /\ \A p : Has(u, p) <=> "Alarms" = p \/ Has(Rest, p)
      /\ Calls(u) = Calls(Rest) \cup {c \in Callback : "Alarms" = "Callback" /\ Arg - 1 = c}
  BY <1>2, <1>4, OnTop
<1>6. stack' = [stack EXCEPT ![exec] = t]
  <2>1. Do("Handler", Null) \in Seq(Frame) /\ Do("Alarms", Arg - 1) \in Seq(Frame)
    BY <1>4, DoType
  <2>2. Do("Handler", Null) \o Do("Alarms", Arg - 1) \o Rest = t
    BY <1>2, <2>1, ConcatAssociative
  <2> HIDE DEF t
  <2> QED
    BY <1>1, <2>2
<1> HIDE DEF u
<1>7. /\ Shape(t)
      /\ \A p : Has(t, p) <=> "Handler" = p \/ Has(u, p)
      /\ Calls(t) = Calls(u) \cup {c \in Callback : "Handler" = "Callback" /\ Null = c}
  <2>1. Fits("Handler", u)
    BY <1>5 DEF Fits
  <2> QED
    BY <1>4, <1>5, <2>1, OnTop
<1> HIDE DEF t
<1>8. Calls(t) = Calls(stack[exec])
  BY <1>2, <1>5, <1>7
<1>9. \A p : Has(t, p) <=> "Handler" = p \/ Has(stack[exec], p)
  BY <1>2, <1>5, <1>7
<1>10. Moved(t) /\ InService' = InService
  BY <1>1, <1>6, <1>7, <1>8, GoOn, SameService DEF schedVars
<1>11. /\ LoopMoves("Alarms", t, alarmDepth, alarmDepth')
       /\ LoopMoves("Callbacks", t, drainDepth, drainDepth')
  BY <1>1, <1>9, Known, SameLoop
<1>12. /\ Disables(t) = Disables(stack[exec]) + 1
       /\ LoopMoves("Retrace", t, RetraceDepth, RetraceDepth')
  BY <1>1, <1>2, <1>9, Known, SameRetrace DEF Disables
<1>13. /\ SchedType' /\ retracing' \in BOOLEAN /\ alarmDepth' \in Nat /\ drainDepth' \in Nat
       /\ now' \in Nat /\ armed' \in Seq(Queued) /\ Sorted(armed') /\ pending' \in Seq(Callback)
       /\ disable' = Disables(t)
  BY <1>1, <1>12, Known, HeadFiredSorted DEF schedVars, SchedType
<1> QED
  BY <1>1, <1>10, <1>11, <1>12, <1>13, Assembled DEF Queued, Quiet

LEMMA HandlerReturnsStep ==
  ASSUME IInv, HandlerReturns
  PROVE  IInv' /\ Quiet
<1>1. /\ stack[exec] # << >> /\ Head(stack[exec]).op = "Handler"
      /\ disable' = disable - 1 /\ RunDeferredReschedule(Rest)
      /\ UNCHANGED << retracing, alarmDepth, drainDepth, alarmVars, pending >>
  BY DEF HandlerReturns, At
<1>2. /\ Shape(Rest) /\ Fits("Handler", Rest)
      /\ \A op : Has(stack[exec], op) <=> "Handler" = op \/ Has(Rest, op)
      /\ Calls(Rest) = Calls(stack[exec])
  BY <1>1, OfTop
<1>3. ~ Has(Rest, "Handler")
  BY <1>2, UnderLoop DEF Fits
<1>4. /\ disable' = Disables(Rest)
      /\ LoopMoves("Retrace", Rest, RetraceDepth, RetraceDepth')
  BY <1>1, <1>2, <1>3, Known, SameRetrace DEF Disables
<1>5. Moved(Rest) /\ SchedType'
  BY <1>1, <1>2, <1>4, DeferredRescheduleStep
<1>6. /\ LoopMoves("Alarms", Rest, alarmDepth, alarmDepth')
      /\ LoopMoves("Callbacks", Rest, drainDepth, drainDepth')
  BY <1>1, <1>2, Known, SameLoop
<1>7. /\ retracing' \in BOOLEAN /\ alarmDepth' \in Nat /\ drainDepth' \in Nat
      /\ now' \in Nat /\ armed' \in Seq(Queued) /\ Sorted(armed') /\ pending' \in Seq(Callback)
  BY <1>1, Known DEF alarmVars
<1> QED
  BY <1>1, <1>2, <1>4, <1>5, <1>6, <1>7, Assembled, SameService DEF Queued, Quiet

LEMMA LeaveAlarmsStep ==
  ASSUME IInv, LeaveAlarms
  PROVE  IInv' /\ Quiet
<1> DEFINE t == Do("Complete", Null) \o Rest
<1>1. /\ stack[exec] # << >> /\ Head(stack[exec]).op = "Alarms"
      /\ alarmDepth' = alarmDepth - 1
      /\ stack' = [stack EXCEPT ![exec] = t]
      /\ UNCHANGED << schedVars, disable, retracing, drainDepth, alarmVars, pending >>
  BY DEF LeaveAlarms, At, GoesOn
<1>2. /\ Shape(Rest) /\ Fits("Alarms", Rest)
      /\ \A op : Has(stack[exec], op) <=> "Alarms" = op \/ Has(Rest, op)
      /\ Calls(Rest) = Calls(stack[exec])
  BY <1>1, OfTop
<1>3. /\ Shape(t)
      /\ \A p : Has(t, p) <=> "Complete" = p \/ Has(Rest, p)
      /\ Calls(t) = Calls(Rest) \cup {c \in Callback : "Complete" = "Callback" /\ Null = c}
  <2>1. [op |-> "Complete", arg |-> Null] \in Frame
    BY FrameTypes
  <2>2. Fits("Complete", Rest)
    BY DEF Fits
  <2> QED
    BY <1>2, <2>1, <2>2, OnTop
<1> HIDE DEF t
<1>4. Calls(t) = Calls(stack[exec])
  BY <1>2, <1>3
<1>5. Moved(t) /\ InService' = InService
  BY <1>1, <1>3, <1>4, GoOn, SameService DEF schedVars
<1>6. LoopMoves("Alarms", t, alarmDepth, alarmDepth')
  BY <1>2, <1>3 DEF LoopMoves, Fits
<1>7. LoopMoves("Callbacks", t, drainDepth, drainDepth')
  BY <1>1, <1>2, <1>3, Known, SameLoop
<1>8. /\ Disables(t) = Disables(stack[exec])
      /\ LoopMoves("Retrace", t, RetraceDepth, RetraceDepth')
  BY <1>1, <1>2, <1>3, Known, SameRetrace DEF Disables
<1>9. alarmDepth # 0
  BY <1>2, Known, ShapeOfStacks DEF Guarded
<1>10. /\ SchedType' /\ retracing' \in BOOLEAN /\ alarmDepth' \in Nat /\ drainDepth' \in Nat
       /\ now' \in Nat /\ armed' \in Seq(Queued) /\ Sorted(armed') /\ pending' \in Seq(Callback)
       /\ disable' = Disables(t)
  BY <1>1, <1>8, <1>9, Known DEF schedVars, alarmVars, SchedType
<1> QED
  BY <1>1, <1>5, <1>6, <1>7, <1>8, <1>10, Assembled DEF Queued, Quiet

-----------------------------------------------------------------------------
(* The loop of the callbacks.                                              *)

\* The completions of network operations, and the loop if it is not entered yet.
LEMMA CompletionsStep ==
  ASSUME IInv, ProcessCompletions
  PROVE  /\ IInv' /\ InService' = InService
         /\ UNCHANGED pending \/ \E c \in Callback : pending' = Append(pending, c)
<1>1. PICK W \in SUBSET Waiting, cs \in {<< >>} \cup {<< c >> : c \in Outstanding} :
        /\ state' = Woken(W)
        /\ resched' = (resched \/ W # {})
        /\ pending' = pending \o cs
        /\ LET finish == Do("Finish", IF W # {} \/ cs # << >> THEN 1 ELSE 0) \o Rest
           IN  GoesOn(IF MayDrain THEN Do("Callbacks", MaxCallbacks) \o finish ELSE finish)
  BY Zenon DEF ProcessCompletions
<1>2. /\ stack[exec] # << >> /\ Head(stack[exec]).op = "Complete"
      /\ drainDepth' = IF drainDepth = 0 THEN drainDepth + 1 ELSE drainDepth
      /\ UNCHANGED << running, exec, disable, retracing, alarmDepth, now, armed >>
  BY DEF ProcessCompletions, At, MayDrain, alarmVars
<1>3. /\ Shape(Rest)
      /\ \A op : op # "Complete" => (Has(stack[exec], op) <=> Has(Rest, op))
      /\ Calls(Rest) = Calls(stack[exec])
  BY <1>2, OfTop
<1> DEFINE n == IF W # {} \/ cs # << >> THEN 1 ELSE 0
           u == Do("Finish", n) \o Rest
           t == IF drainDepth = 0 THEN Do("Callbacks", MaxCallbacks) \o u ELSE u
<1>4. stack' = [stack EXCEPT ![exec] = t]
  BY <1>1 DEF GoesOn, MayDrain
<1>5. n \in Nat /\ MaxCallbacks \in Nat
  BY PumpConstants
<1> HIDE DEF n
<1>6. [op |-> "Finish", arg |-> n] \in Frame /\ [op |-> "Callbacks", arg |-> MaxCallbacks] \in Frame
  BY <1>5, FrameTypes
<1>7. /\ Shape(u) /\ u # << >> /\ Head(u).op = "Finish"
      /\ \A p : Has(u, p) <=> "Finish" = p \/ Has(Rest, p)
      /\ Calls(u) = Calls(Rest) \cup {c \in Callback : "Finish" = "Callback" /\ n = c}
  BY <1>3, <1>6, OnTop DEF Fits
<1> HIDE DEF u
<1>8. Calls(u) = Calls(stack[exec])
  BY <1>3, <1>7
<1>9. /\ Shape(t) /\ Calls(t) = Calls(stack[exec])
      /\ \A p : Has(t, p) <=> (drainDepth = 0 /\ "Callbacks" = p) \/ Has(u, p)
  <2>1. CASE drainDepth = 0
    <3>1. ~ Has(u, "Callbacks")
      BY <1>3, <1>7, <2>1, Known, ShapeOfStacks DEF Guarded
    <3>2. Fits("Callbacks", u)
      BY <1>7, <3>1 DEF Fits
    <3> DEFINE v == Do("Callbacks", MaxCallbacks) \o u
    <3>3. /\ Shape(v)
          /\ \A p : Has(v, p) <=> "Callbacks" = p \/ Has(u, p)
          /\ Calls(v) = Calls(u) \cup
                          {c \in Callback : "Callbacks" = "Callback" /\ MaxCallbacks = c}
      BY <1>6, <1>7, <3>2, OnTop
    <3>4. t = v
      BY <2>1
    <3> HIDE DEF v, t
    <3>5. Calls(v) = Calls(u)
      BY <3>3
    <3> QED
      BY <1>8, <2>1, <3>3, <3>4, <3>5
  <2>2. CASE drainDepth # 0
    BY <1>7, <1>8, <2>2
  <2> QED
    BY <2>1, <2>2
<1> HIDE DEF t
<1>10. Moved(t) /\ InService' = InService
  BY <1>2, <1>4, <1>9, GoOn, SameService
<1>11. \A p : p \notin {"Callbacks", "Finish", "Complete"} => (Has(t, p) <=> Has(stack[exec], p))
  BY <1>3, <1>7, <1>9
<1>12. LoopMoves("Alarms", t, alarmDepth, alarmDepth')
  BY <1>2, <1>11, Known, SameLoop
<1>13. LoopMoves("Callbacks", t, drainDepth, drainDepth')
  <2>1. CASE drainDepth = 0
    BY <1>2, <1>9, <2>1 DEF LoopMoves
  <2>2. CASE drainDepth # 0
    BY <1>2, <1>3, <1>7, <1>9, <2>2, Known, SameLoop
  <2> QED
    BY <2>1, <2>2
<1>14. /\ Disables(t) = Disables(stack[exec])
       /\ LoopMoves("Retrace", t, RetraceDepth, RetraceDepth')
  BY <1>2, <1>11, Known, SameRetrace DEF Disables
<1>15. SchedType'
  BY <1>1, <1>2, Known, WokenType DEF SchedType
<1>16. UNCHANGED pending \/ \E c \in Callback : pending' = Append(pending, c)
  <2>1. CASE cs = << >>
    BY <1>1, <2>1, Known, ConcatEmptySeq
  <2>2. CASE cs # << >>
    <3>1. PICK c \in Callback : cs = << c >>
      BY <2>2 DEF Outstanding
    <3>2. pending \o << c >> = Append(pending, c)
      BY Known
    <3> QED
      BY <1>1, <3>1, <3>2
  <2> QED
    BY <2>1, <2>2
<1>17. pending' \in Seq(Callback)
  <2>1. pending \in Seq(Callback)
    BY Known
  <2> QED
    BY <1>16, <2>1
<1>18. /\ retracing' \in BOOLEAN /\ alarmDepth' \in Nat /\ drainDepth' \in Nat
       /\ now' \in Nat /\ armed' \in Seq(Queued) /\ Sorted(armed')
       /\ disable' = Disables(t)
  BY <1>2, <1>14, Known
<1> QED
  BY <1>10, <1>12, <1>13, <1>14, <1>15, <1>16, <1>17, <1>18, Assembled DEF Queued

\* A callback is delivered when no other executes.
LEMMA DispatchStep ==
  ASSUME IInv, DispatchNandCallback
  PROVE  /\ IInv'
         /\ InService = {} /\ InService' = {Head(pending)}
         /\ pending # << >> /\ pending' = Tail(pending) /\ Head(pending) \in Callback
<1> DEFINE below == Tail(Rest)
           u == Do("Finish", 1) \o below
           v == Do("Callbacks", Arg - 1) \o u
           t == Do("Callback", Head(pending)) \o v
<1>1. /\ stack[exec] # << >> /\ Head(stack[exec]).op = "Callbacks" /\ Arg > 0
      /\ pending # << >> /\ pending' = Tail(pending)
      /\ stack' = [stack EXCEPT ![exec] =
                     Do("Callback", Head(pending)) \o Do("Callbacks", Arg - 1)
                       \o Do("Finish", 1) \o Tail(Rest)]
      /\ UNCHANGED << schedVars, guardVars, alarmVars >>
  BY DEF DispatchNandCallback, At, GoesOn
<1>2. /\ Shape(Rest) /\ Fits("Callbacks", Rest)
      /\ \A op : Has(stack[exec], op) <=> "Callbacks" = op \/ Has(Rest, op)
      /\ Calls(stack[exec]) = {}
  BY <1>1, OfTop, UnderLoop, ShapeOfStacks
<1>3. Rest # << >> /\ Head(Rest).op = "Finish" /\ Rest \in Seq(Frame) /\ ~ Has(Rest, "Callbacks")
  BY <1>2 DEF Fits, Shape
<1>4. /\ Shape(below) /\ below \in Seq(Frame)
      /\ \A op : Has(Rest, op) <=> "Finish" = op \/ Has(below, op)
  BY <1>2, <1>3, Pop, HasTop DEF Shape
<1>5. Head(pending) \in Callback /\ Tail(pending) \in Seq(Callback)
  BY <1>1, Known, HeadTailProperties
<1>6. Arg - 1 \in Nat
  BY <1>1, OfTop DEF Frame, Arg
<1>7. /\ [op |-> "Finish", arg |-> 1] \in Frame
      /\ [op |-> "Callbacks", arg |-> Arg - 1] \in Frame
      /\ [op |-> "Callback", arg |-> Head(pending)] \in Frame
  BY <1>5, <1>6, FrameTypes
<1> HIDE DEF below
<1>8. /\ Shape(u) /\ u # << >> /\ Head(u).op = "Finish"
      /\ \A p : Has(u, p) <=> "Finish" = p \/ Has(below, p)
  BY <1>4, <1>7, OnTop DEF Fits
<1>9. stack' = [stack EXCEPT ![exec] = t]
  <2>1. /\ Do("Callback", Head(pending)) \in Seq(Frame)
        /\ Do("Callbacks", Arg - 1) \in Seq(Frame)
        /\ Do("Finish", 1) \in Seq(Frame)
    BY <1>7, DoType
  <2> DEFINE x == Do("Callback", Head(pending))
             y == Do("Callbacks", Arg - 1)
             z == Do("Finish", 1)
             w == x \o y
             k == z \o below
  <2>2. stack' = [stack EXCEPT ![exec] = (w \o z) \o below]
    BY <1>1 DEF below
  <2>3. t = x \o (y \o k)
    OBVIOUS
  <2>4. x \in Seq(Frame) /\ y \in Seq(Frame) /\ z \in Seq(Frame)
    BY <2>1
  <2> HIDE DEF x, y, z, t
  <2>5. w \in Seq(Frame) /\ k \in Seq(Frame)
    BY <1>4, <2>4
  <2> HIDE DEF w, k
  <2>6. (w \o z) \o below = w \o k
    BY <1>4, <2>4, <2>5, ConcatAssociative, SMTT(30) DEF k
  <2>7. w \o k = x \o (y \o k)
    BY <2>4, <2>5, ConcatAssociative, SMTT(30) DEF w
  <2> QED
    BY <2>2, <2>3, <2>6, <2>7
<1> HIDE DEF u
<1>10. /\ Shape(v) /\ v # << >> /\ Head(v).op = "Callbacks"
       /\ \A p : Has(v, p) <=> "Callbacks" = p \/ Has(u, p)
  <2>1. Fits("Callbacks", u)
    BY <1>3, <1>4, <1>8 DEF Fits
  <2> QED
    BY <1>7, <1>8, <2>1, OnTop
<1>11. Calls(v) = {}
  BY <1>10, UnderLoop
<1> HIDE DEF v
<1>12. /\ Shape(t)
       /\ \A p : Has(t, p) <=> "Callback" = p \/ Has(v, p)
       /\ Calls(t) = Calls(v) \cup {c \in Callback : "Callback" = "Callback" /\ Head(pending) = c}
  <2>1. Fits("Callback", v)
    BY <1>10 DEF Fits
  <2> QED
    BY <1>7, <1>10, <2>1, OnTop
<1> HIDE DEF t
<1>13. Calls(t) = {Head(pending)}
  BY <1>5, <1>11, <1>12
<1>14. \A p : Has(t, p) <=> "Callback" = p \/ Has(stack[exec], p)
  BY <1>2, <1>4, <1>8, <1>10, <1>12
<1>15. Moved(t)
  BY <1>1, <1>9, <1>12, GoOn DEF schedVars
<1>16. /\ LoopMoves("Alarms", t, alarmDepth, alarmDepth')
       /\ LoopMoves("Callbacks", t, drainDepth, drainDepth')
  BY <1>1, <1>14, Known, SameLoop DEF guardVars
<1>17. /\ Disables(t) = Disables(stack[exec])
       /\ LoopMoves("Retrace", t, RetraceDepth, RetraceDepth')
  BY <1>1, <1>14, Known, SameRetrace DEF Disables, guardVars
<1>18. /\ SchedType' /\ retracing' \in BOOLEAN /\ alarmDepth' \in Nat /\ drainDepth' \in Nat
       /\ now' \in Nat /\ armed' \in Seq(Queued) /\ Sorted(armed') /\ pending' \in Seq(Callback)
       /\ disable' = Disables(t)
  BY <1>1, <1>5, <1>17, Known DEF schedVars, alarmVars, guardVars, SchedType
<1>19. \A f \in Thread \ {exec} : Calls(stack[f]) = {}
  BY <1>2, Known, ShapeOfStacks, RunByLoop DEF Guarded
<1>20. InService = {} /\ InService' = {Head(pending)}
  BY <1>2, <1>5, <1>13, <1>15, <1>19, ServiceStep
<1> QED
  BY <1>1, <1>5, <1>15, <1>16, <1>17, <1>18, <1>20, Assembled DEF Queued

LEMMA CallbackReturnsStep ==
  ASSUME IInv, CallbackReturns
  PROVE  /\ IInv' /\ UNCHANGED pending
         /\ InService' = {} /\ \E c \in Callback : InService = {c}
<1>1. /\ stack[exec] # << >> /\ Head(stack[exec]).op = "Callback"
      /\ stack' = [stack EXCEPT ![exec] = Rest]
      /\ UNCHANGED << schedVars, guardVars, alarmVars, pending >>
  BY DEF CallbackReturns, At, GoesOn
<1>2. /\ Shape(Rest) /\ Fits("Callback", Rest)
      /\ \A op : Has(stack[exec], op) <=> "Callback" = op \/ Has(Rest, op)
      /\ Calls(stack[exec]) = Calls(Rest) \cup
           {c \in Callback : Head(stack[exec]).op = "Callback" /\ Arg = c}
  BY <1>1, OfTop
<1>3. Rest # << >> /\ Head(Rest).op = "Callbacks" /\ Calls(Rest) = {}
  BY <1>2, UnderLoop DEF Fits
<1>4. Arg \in Callback
  BY <1>1, OfTop DEF Frame, Arg
<1>5. Calls(stack[exec]) = {Arg}
  BY <1>1, <1>2, <1>3, <1>4
<1>6. Has(Rest, "Callbacks")
  BY <1>2, <1>3, HasTop DEF Shape
<1>7. \A f \in Thread \ {exec} : Calls(stack[f]) = {}
  BY <1>2, <1>6, Known, ShapeOfStacks, RunByLoop DEF Guarded
<1>8. Moved(Rest)
  BY <1>1, <1>2, GoOn DEF schedVars
<1>9. InService = {Arg} /\ InService' = {}
  BY <1>3, <1>4, <1>5, <1>7, <1>8, ServiceStep
<1>10. /\ LoopMoves("Alarms", Rest, alarmDepth, alarmDepth')
       /\ LoopMoves("Callbacks", Rest, drainDepth, drainDepth')
  BY <1>1, <1>2, Known, SameLoop DEF guardVars
<1>11. /\ Disables(Rest) = Disables(stack[exec])
       /\ LoopMoves("Retrace", Rest, RetraceDepth, RetraceDepth')
  BY <1>1, <1>2, Known, SameRetrace DEF Disables, guardVars
<1>12. /\ SchedType' /\ retracing' \in BOOLEAN /\ alarmDepth' \in Nat /\ drainDepth' \in Nat
       /\ now' \in Nat /\ armed' \in Seq(Queued) /\ Sorted(armed') /\ pending' \in Seq(Callback)
       /\ disable' = Disables(Rest)
  BY <1>1, <1>11, Known DEF schedVars, alarmVars, guardVars, SchedType
<1> QED
  BY <1>1, <1>4, <1>8, <1>9, <1>10, <1>11, <1>12, Assembled DEF Queued

LEMMA LeaveCallbacksStep ==
  ASSUME IInv, LeaveCallbacks
  PROVE  IInv' /\ Quiet
<1>1. /\ stack[exec] # << >> /\ Head(stack[exec]).op = "Callbacks"
      /\ drainDepth' = drainDepth - 1
      /\ stack' = [stack EXCEPT ![exec] = Rest]
      /\ UNCHANGED << schedVars, disable, retracing, alarmDepth, alarmVars, pending >>
  BY DEF LeaveCallbacks, At, GoesOn
<1>2. /\ Shape(Rest) /\ Fits("Callbacks", Rest)
      /\ \A op : Has(stack[exec], op) <=> "Callbacks" = op \/ Has(Rest, op)
      /\ Calls(Rest) = Calls(stack[exec])
  BY <1>1, OfTop
<1>3. Moved(Rest) /\ InService' = InService
  BY <1>1, <1>2, GoOn, SameService DEF schedVars
<1>4. LoopMoves("Callbacks", Rest, drainDepth, drainDepth')
  BY <1>2 DEF LoopMoves, Fits
<1>5. LoopMoves("Alarms", Rest, alarmDepth, alarmDepth')
  BY <1>1, <1>2, Known, SameLoop
<1>6. /\ Disables(Rest) = Disables(stack[exec])
      /\ LoopMoves("Retrace", Rest, RetraceDepth, RetraceDepth')
  BY <1>1, <1>2, Known, SameRetrace DEF Disables
<1>7. drainDepth # 0
  BY <1>2, Known, ShapeOfStacks DEF Guarded
<1>8. /\ SchedType' /\ retracing' \in BOOLEAN /\ alarmDepth' \in Nat /\ drainDepth' \in Nat
      /\ now' \in Nat /\ armed' \in Seq(Queued) /\ Sorted(armed') /\ pending' \in Seq(Callback)
      /\ disable' = Disables(Rest)
  BY <1>1, <1>6, <1>7, Known DEF schedVars, alarmVars, SchedType
<1> QED
  BY <1>1, <1>3, <1>4, <1>5, <1>6, <1>8, Assembled DEF Queued, Quiet
LEMMA FinishStep ==
  ASSUME IInv, Finish
  PROVE  IInv' /\ Quiet
<1>1. /\ stack[exec] # << >> /\ Head(stack[exec]).op = "Finish"
      /\ RunDeferredReschedule(Rest) \/ (Stays(state, Rest) /\ UNCHANGED resched)
      /\ UNCHANGED << disable, retracing, alarmDepth, drainDepth, alarmVars, pending >>
  BY DEF Finish, At, guardVars
<1>2. /\ Shape(Rest)
      /\ \A op : op # "Finish" => (Has(Rest, op) <=> Has(stack[exec], op))
      /\ Calls(Rest) = Calls(stack[exec])
  BY <1>1, OfTop
<1>3. /\ disable' = Disables(Rest)
      /\ LoopMoves("Retrace", Rest, RetraceDepth, RetraceDepth')
  BY <1>1, <1>2, Known, SameRetrace DEF Disables
<1>4. Moved(Rest) /\ SchedType'
  <2>1. CASE RunDeferredReschedule(Rest)
    BY <1>2, <1>3, <2>1, DeferredRescheduleStep
  <2>2. CASE Stays(state, Rest) /\ UNCHANGED resched
    BY <1>2, <2>2, GoOn, Known DEF Stays, GoesOn, SchedType
  <2> QED
    BY <1>1, <2>1, <2>2
<1>5. /\ LoopMoves("Alarms", Rest, alarmDepth, alarmDepth')
      /\ LoopMoves("Callbacks", Rest, drainDepth, drainDepth')
  BY <1>1, <1>2, Known, SameLoop
<1>6. /\ retracing' \in BOOLEAN /\ alarmDepth' \in Nat /\ drainDepth' \in Nat
      /\ now' \in Nat /\ armed' \in Seq(Queued) /\ Sorted(armed') /\ pending' \in Seq(Callback)
  BY <1>1, Known DEF alarmVars
<1> QED
  BY <1>1, <1>2, <1>3, <1>4, <1>5, <1>6, Assembled, SameService DEF Queued, Quiet

\* What is deferred is at the bottom of the stack.
LEMMA DeferredReturnsStep ==
  ASSUME IInv, DeferredReturns
  PROVE  IInv' /\ Quiet
<1>1. /\ stack[exec] # << >> /\ Head(stack[exec]).op = "Deferred"
      /\ disable' = disable - 1
      /\ stack' = [stack EXCEPT ![exec] = Rest]
      /\ UNCHANGED << schedVars, retracing, alarmDepth, drainDepth, alarmVars, pending >>
  BY DEF DeferredReturns, At, GoesOn
<1>2. /\ Shape(Rest) /\ Rest = << >>
      /\ \A op : Has(stack[exec], op) <=> "Deferred" = op \/ Has(Rest, op)
      /\ Calls(Rest) = Calls(stack[exec])
  BY <1>1, OfTop DEF Fits
<1>3. \A op : ~ Has(Rest, op)
  BY <1>2, HasNothing
<1>4. /\ disable' = Disables(Rest)
      /\ LoopMoves("Retrace", Rest, RetraceDepth, RetraceDepth')
  BY <1>1, <1>2, <1>3, Known, SameRetrace DEF Disables
<1>5. Moved(Rest) /\ InService' = InService
  BY <1>1, <1>2, GoOn, SameService DEF schedVars
<1>6. /\ LoopMoves("Alarms", Rest, alarmDepth, alarmDepth')
      /\ LoopMoves("Callbacks", Rest, drainDepth, drainDepth')
  BY <1>1, <1>2, Known, SameLoop
<1>7. /\ SchedType' /\ retracing' \in BOOLEAN /\ alarmDepth' \in Nat /\ drainDepth' \in Nat
      /\ now' \in Nat /\ armed' \in Seq(Queued) /\ Sorted(armed') /\ pending' \in Seq(Callback)
  BY <1>1, Known DEF schedVars, alarmVars, SchedType
<1> QED
  BY <1>1, <1>4, <1>5, <1>6, <1>7, Assembled DEF Queued, Quiet

-----------------------------------------------------------------------------
(* Retraces and the idle loop.                                             *)

\* A retrace begins over the frames s.
LEMMA AdvanceStep ==
  ASSUME IInv, NEW s, Shape(s), AdvanceRetrace(s),
         \A op : op \notin {"Deferred", "Pump"} => (Has(s, op) <=> Has(stack[exec], op)),
         Calls(s) = Calls(stack[exec]),
         disable' = Disables(s)
  PROVE  IInv' /\ Quiet
<1> DEFINE t == Do("Retrace", Null) \o s
<1>1. PICK W \in SUBSET Waiting : state' = Woken(W) /\ resched' = (resched \/ W # {})
  BY DEF AdvanceRetrace
<1>2. /\ ~ retracing /\ retracing' = TRUE
      /\ stack' = [stack EXCEPT ![exec] = t]
      /\ UNCHANGED << running, exec, alarmDepth, drainDepth, alarmVars, pending >>
  BY DEF AdvanceRetrace, GoesOn
<1>3. ~ Has(s, "Retrace") /\ RetraceDepth = 0 /\ RetraceDepth' = 1
  BY <1>2, Known, ShapeOfStacks DEF Guarded, RetraceDepth
<1>4. /\ Shape(t)
      /\ \A p : Has(t, p) <=> "Retrace" = p \/ Has(s, p)
      /\ Calls(t) = Calls(s) \cup {c \in Callback : "Retrace" = "Callback" /\ Null = c}
  <2>1. Fits("Retrace", s) /\ [op |-> "Retrace", arg |-> Null] \in Frame
    BY <1>3, FrameTypes DEF Fits
  <2> QED
    BY <2>1, OnTop
<1> HIDE DEF t
<1>5. Calls(t) = Calls(stack[exec])
  BY <1>4
<1>6. Moved(t) /\ InService' = InService
  BY <1>2, <1>4, <1>5, GoOn, SameService
<1>7. /\ LoopMoves("Alarms", t, alarmDepth, alarmDepth')
      /\ LoopMoves("Callbacks", t, drainDepth, drainDepth')
  BY <1>2, <1>4, Known, SameLoop
<1>8. Disables(t) = Disables(s)
  BY <1>4 DEF Disables
<1>9. SchedType'
  BY <1>1, <1>2, Known, WokenType DEF SchedType
<1>10. /\ retracing' \in BOOLEAN /\ alarmDepth' \in Nat /\ drainDepth' \in Nat
       /\ now' \in Nat /\ armed' \in Seq(Queued) /\ Sorted(armed') /\ pending' \in Seq(Callback)
       /\ disable' = Disables(t)
  BY <1>2, <1>8, Known DEF alarmVars
<1>11. LoopMoves("Retrace", t, RetraceDepth, RetraceDepth')
  BY <1>3, <1>4 DEF LoopMoves
<1> QED
  BY <1>2, <1>6, <1>7, <1>9, <1>10, <1>11, Assembled DEF Queued, Quiet

LEMMA PollStep ==
  ASSUME IInv, PollRetrace
  PROVE  IInv' /\ Quiet
<1>1. AdvanceRetrace(stack[exec]) /\ disable' = Disables(stack[exec])
  BY Known DEF PollRetrace
<1> QED
  BY <1>1, AdvanceStep, ShapeOfStacks

LEMMA DeferredRetracesStep ==
  ASSUME IInv, ProcessRetracesDeferred
  PROVE  IInv' /\ Quiet
<1> DEFINE d == Do("Deferred", Null) \o stack[exec]
<1>1. stack[exec] = << >> /\ disable' = disable + 1
  BY DEF ProcessRetracesDeferred, InThread
<1>2. [op |-> "Deferred", arg |-> Null] \in Frame /\ Fits("Deferred", stack[exec])
  BY <1>1, FrameTypes DEF Fits
<1>3. d = Do("Deferred", Null)
  BY <1>1, <1>2, DoType, ConcatEmptySeq
<1>4. /\ Shape(d)
      /\ \A p : Has(d, p) <=> "Deferred" = p \/ Has(stack[exec], p)
      /\ Calls(d) = Calls(stack[exec]) \cup
                      {c \in Callback : "Deferred" = "Callback" /\ Null = c}
  BY <1>2, OnTop, ShapeOfStacks
<1>5. AdvanceRetrace(d)
  BY <1>3 DEF ProcessRetracesDeferred
<1> HIDE DEF d
<1>6. Calls(d) = Calls(stack[exec])
  BY <1>4
<1>7. disable' = Disables(d)
  BY <1>1, <1>4, Known, HasNothing DEF Disables
<1> QED
  BY <1>4, <1>5, <1>6, <1>7, AdvanceStep

LEMMA RetraceReturnsStep ==
  ASSUME IInv, RetraceReturns
  PROVE  IInv' /\ Quiet
<1>1. /\ stack[exec] # << >> /\ Head(stack[exec]).op = "Retrace"
      /\ retracing' = FALSE
      /\ stack' = [stack EXCEPT ![exec] = Rest]
      /\ UNCHANGED << schedVars, disable, alarmDepth, drainDepth, alarmVars, pending >>
  BY DEF RetraceReturns, At, GoesOn
<1>2. /\ Shape(Rest) /\ ~ Has(Rest, "Retrace")
      /\ \A op : Has(stack[exec], op) <=> "Retrace" = op \/ Has(Rest, op)
      /\ Calls(Rest) = Calls(stack[exec])
  BY <1>1, OfTop DEF Fits
<1>3. disable' = Disables(Rest)
  BY <1>1, <1>2, Known DEF Disables
<1>4. Moved(Rest) /\ InService' = InService
  BY <1>1, <1>2, GoOn, SameService DEF schedVars
<1>5. /\ LoopMoves("Alarms", Rest, alarmDepth, alarmDepth')
      /\ LoopMoves("Callbacks", Rest, drainDepth, drainDepth')
  BY <1>1, <1>2, Known, SameLoop
<1>6. LoopMoves("Retrace", Rest, RetraceDepth, RetraceDepth')
  BY <1>2 DEF LoopMoves
<1>7. /\ SchedType' /\ retracing' \in BOOLEAN /\ alarmDepth' \in Nat /\ drainDepth' \in Nat
      /\ now' \in Nat /\ armed' \in Seq(Queued) /\ Sorted(armed') /\ pending' \in Seq(Callback)
  BY <1>1, Known DEF schedVars, alarmVars, SchedType
<1> QED
  BY <1>1, <1>2, <1>3, <1>4, <1>5, <1>7, <1>6, Assembled DEF Queued, Quiet

LEMMA IdleRoundStep ==
  ASSUME IInv, IdleRound
  PROVE  IInv' /\ Quiet
<1> DEFINE t == Do("Pump", Null) \o stack[exec]
<1>1. /\ \/ AdvanceRetrace(t)
         \/ /\ stack' = [stack EXCEPT ![exec] = t]
            /\ UNCHANGED << schedVars, retracing, alarmDepth, drainDepth, alarmVars, pending >>
      /\ UNCHANGED disable
  BY DEF IdleRound, GoesOn
<1>2. [op |-> "Pump", arg |-> Null] \in Frame /\ Fits("Pump", stack[exec])
  BY FrameTypes DEF Fits
<1>3. /\ Shape(t)
      /\ \A p : Has(t, p) <=> "Pump" = p \/ Has(stack[exec], p)
      /\ Calls(t) = Calls(stack[exec]) \cup {c \in Callback : "Pump" = "Callback" /\ Null = c}
  BY <1>2, OnTop, ShapeOfStacks
<1> HIDE DEF t
<1>4. Calls(t) = Calls(stack[exec])
  BY <1>3
<1>5. disable' = Disables(t)
  BY <1>1, <1>3, Known DEF Disables
<1>6. CASE AdvanceRetrace(t)
  BY <1>3, <1>4, <1>5, <1>6, AdvanceStep
<1>7. CASE /\ stack' = [stack EXCEPT ![exec] = t]
           /\ UNCHANGED << schedVars, retracing, alarmDepth, drainDepth, alarmVars, pending >>
  <2>1. Moved(t) /\ InService' = InService
    BY <1>3, <1>4, <1>7, GoOn, SameService DEF schedVars
  <2>2. /\ LoopMoves("Alarms", t, alarmDepth, alarmDepth')
        /\ LoopMoves("Callbacks", t, drainDepth, drainDepth')
    BY <1>3, <1>7, Known, SameLoop
  <2>3. /\ SchedType' /\ retracing' \in BOOLEAN /\ alarmDepth' \in Nat /\ drainDepth' \in Nat
        /\ now' \in Nat /\ armed' \in Seq(Queued) /\ Sorted(armed')
        /\ pending' \in Seq(Callback)
        /\ LoopMoves("Retrace", t, RetraceDepth, RetraceDepth')
    BY <1>3, <1>7, Known, SameRetrace DEF schedVars, alarmVars, SchedType
  <2> QED
    BY <1>5, <1>7, <2>1, <2>2, <2>3, Assembled DEF Queued, Quiet
<1> QED
  BY <1>1, <1>6, <1>7

LEMMA LeaveIdleStep ==
  ASSUME IInv, LeaveIdleLoop
  PROVE  IInv' /\ Quiet
<1>1. /\ stack[exec] # << >> /\ Head(stack[exec]).op = "Idle"
      /\ SwitchAway(state, Rest)
      /\ UNCHANGED << guardVars, alarmVars, pending >>
  BY DEF LeaveIdleLoop, At
<1>2. /\ Shape(Rest) /\ Rest = << >>
      /\ \A op : op # "Idle" => (Has(Rest, op) <=> Has(stack[exec], op))
      /\ Calls(Rest) = Calls(stack[exec])
  BY <1>1, OfTop DEF Fits
<1>3. Moved(Rest) /\ SchedType'
  BY <1>1, <1>2, Known, HasNothing, SwitchStep DEF SchedType
<1> QED
  BY <1>1, <1>2, <1>3, Known, PlainStep, SameService DEF guardVars, alarmVars, Quiet

-----------------------------------------------------------------------------
(* Every step.                                                             *)

LEMMA InitInvariant ==
  ASSUME Init
  PROVE  IInv /\ InService = {} /\ pending = << >>
<1>1. \A t \in Thread : stack[t] = << >>
  BY DEF Init
<1>2. TypeOK
  <2>1. /\ stack \in [Thread -> Seq(Frame)]
        /\ armed \in Seq([alarm : Alarm, fire : Nat])
        /\ pending \in Seq(Callback)
    BY EmptySeq DEF Init
  <2>2. state \in [Thread -> {"ready", "running", "waiting"}]
    BY DEF Init
  <2> QED
    BY <2>1, <2>2, PumpConstants DEF Init, TypeOK
<1>3. \A t \in Thread : Shape(stack[t]) /\ ~ Interrupted(stack[t]) /\ \A op : ~ Has(stack[t], op)
  BY <1>1, HasNothing
<1>4. StackInv
  BY <1>2, <1>3 DEF TypeOK, StackInv, Guarded, Disables, Init
<1>5. Sorted(armed) /\ Executes
  BY PumpConstants DEF Init, Sorted, Executes
<1>6. InService = {}
  BY <1>1 DEF InService
<1> QED
  BY <1>2, <1>4, <1>5, <1>6 DEF IInv, Init

\* The callbacks queue up, are delivered one at a time, and return.
Delivers ==
  \/ Quiet
  \/ InService' = InService /\ \E c \in Callback : pending' = Append(pending, c)
  \/ /\ InService = {} /\ InService' = {Head(pending)}
     /\ pending # << >> /\ pending' = Tail(pending) /\ Head(pending) \in Callback
  \/ UNCHANGED pending /\ InService' = {} /\ \E c \in Callback : InService = {c}

LEMMA NextInvariant ==
  ASSUME IInv, [Next]_vars
  PROVE  IInv' /\ Delivers
<1>1. CASE UNCHANGED vars
  BY <1>1, Known, SameFramesStep DEF vars, schedVars, guardVars, alarmVars, Delivers, Quiet
<1>2. CASE Tick
  BY <1>2, TickStep DEF Delivers
<1>3. CASE GuestStep
  BY <1>3, WakeupStep, ResumeStep, SleepStep, SetAlarmStep, CancelAlarmStep, InvokeStep,
     ProcessAlarmQueueStep, DeferredAlarmsStep, PollStep, DeferredRetracesStep
  DEF GuestStep, Delivers
<1>4. CASE HostStep
  BY <1>4, PumpStep, FireAlarmStep, LeaveAlarmsStep, CompletionsStep, DispatchStep,
     LeaveCallbacksStep, FinishStep, DeferredReturnsStep, IdleRoundStep, LeaveIdleStep
  DEF HostStep, Delivers, Quiet
<1>5. CASE GuestReturns
  BY <1>5, HandlerReturnsStep, CallbackReturnsStep, RetraceReturnsStep DEF GuestReturns, Delivers
<1> QED
  BY <1>1, <1>2, <1>3, <1>4, <1>5 DEF Next

\* A fiber that is left while some fiber is in a retrace has gone to sleep or
\* idles, or is left by a resumption.
LEMMA LeftInRetrace ==
  ASSUME IInv, Next, exec' # exec
  PROVE  \/ ~ retracing /\ UNCHANGED retracing
         \/ stack' = [stack EXCEPT ![exec] = << >>]
         \/ OSResumeThread
<1>1. CASE OSWakeupThread
  BY <1>1 DEF OSWakeupThread, guardVars, Stays
<1>2. CASE OSSleepThread
  BY <1>2 DEF OSSleepThread, SelectThread, SwitchAway, Stays, GoesOn
<1>3. CASE HandlerReturns
  BY <1>3 DEF HandlerReturns, RunDeferredReschedule, Stays
<1>4. CASE Finish
  BY <1>4 DEF Finish, guardVars, RunDeferredReschedule, Stays
<1>5. CASE LeaveIdleLoop
  <2>1. stack[exec] # << >> /\ Head(stack[exec]).op = "Idle" /\ GoesOn(Rest)
    BY <1>5 DEF LeaveIdleLoop, At, SwitchAway
  <2>2. Rest = << >>
    BY <2>1, OfTop DEF Fits
  <2> QED
    BY <2>1, <2>2 DEF GoesOn
<1>6. CASE \/ Tick \/ OSSetAlarm \/ OSCancelAlarm \/ InvokeNandCallback
           \/ ProcessAlarmQueue \/ ProcessAlarmsDeferred \/ PollRetrace
           \/ ProcessRetracesDeferred
  BY <1>6 DEF Tick, OSSetAlarm, OSCancelAlarm, InvokeNandCallback, ProcessAlarmQueue,
     ProcessAlarmsDeferred, PollRetrace, ProcessRetracesDeferred, AdvanceRetrace, schedVars
<1>7. CASE \/ Pump \/ FireAlarm \/ LeaveAlarms \/ ProcessCompletions
           \/ DispatchNandCallback \/ LeaveCallbacks \/ DeferredReturns \/ IdleRound
           \/ CallbackReturns \/ RetraceReturns
  BY <1>7 DEF Pump, FireAlarm, LeaveAlarms, ProcessCompletions, DispatchNandCallback,
     LeaveCallbacks, DeferredReturns, IdleRound, CallbackReturns, RetraceReturns,
     AdvanceRetrace, schedVars
<1> QED
  BY <1>1, <1>2, <1>3, <1>4, <1>5, <1>6, <1>7 DEF Next, GuestStep, HostStep, GuestReturns

LEMMA InvariantHolds == Spec => []IInv
<1>1. Init => IInv
  BY InitInvariant
<1>2. IInv /\ [Next]_vars => IInv'
  BY NextInvariant
<1> QED
  BY <1>1, <1>2, PTL DEF Spec

\* A step of the pump is one of the server.
LEMMA StepIsServed ==
  ASSUME IInv, [Next]_vars
  PROVE  [Server!Next]_<< pending, Serving >>
<1>1. \A c \in Callback : c # Null /\ (CHOOSE d \in {c} : TRUE) = c
  BY PumpConstants
<1>2. CASE Quiet
  BY <1>2 DEF Quiet, Serving
<1>3. CASE InService' = InService /\ \E c \in Callback : pending' = Append(pending, c)
  <2>1. Serving' = Serving
    BY <1>3 DEF Serving
  <2> QED
    BY <1>3, <2>1 DEF Server!Next, Server!Complete
<1>4. CASE /\ InService = {} /\ InService' = {Head(pending)}
           /\ pending # << >> /\ pending' = Tail(pending) /\ Head(pending) \in Callback
  <2>1. Serving = Null /\ Serving' = Head(pending)
    BY <1>1, <1>4 DEF Serving
  <2> QED
    BY <1>4, <2>1 DEF Server!Next, Server!Begin
<1>5. CASE UNCHANGED pending /\ InService' = {} /\ \E c \in Callback : InService = {c}
  <2>1. Serving # Null /\ Serving' = Null
    BY <1>1, <1>5 DEF Serving
  <2> QED
    BY <1>5, <2>1 DEF Server!Next, Server!End
<1> QED
  BY <1>2, <1>3, <1>4, <1>5, NextInvariant DEF Delivers

-----------------------------------------------------------------------------
(* The theorems.                                                           *)

\* The guards and the stacks that they guard have their types: no guard is
\* released more often than it was taken.
THEOREM PumpTypesHold == Spec => []TypeOK
<1>1. IInv => TypeOK
  BY DEF IInv
<1> QED
  BY <1>1, InvariantHolds, PTL

\* Alarm handlers and what the graphics code pumps run to their end on the fiber
\* they began on, although handlers pump and are rescheduled; so do retraces,
\* although callbacks under them wake threads, unless one resumes a thread.
THEOREM InterruptsAreNotLeft == Spec => InterruptsRunToEnd
<1>1. IInv /\ [Next]_vars =>
        [exec' # exec => /\ ~ LeftIn({"Handler", "Deferred"})
                         /\ LeftIn({"Retrace"}) => OSResumeThread]_vars
  <2> SUFFICES ASSUME IInv, Next, exec' # exec
               PROVE  /\ ~ LeftIn({"Handler", "Deferred"})
                      /\ LeftIn({"Retrace"}) => OSResumeThread
    BY DEF vars, schedVars
  <2>1. IInv' /\ exec \in Thread /\ stack \in [Thread -> Seq(Frame)]
    BY NextInvariant DEF IInv, TypeOK
  <2>2. ~ LeftIn({"Handler", "Deferred"})
    BY <2>1 DEF IInv, StackInv, LeftIn, Interrupted, Interrupt, Has
  <2>3. ASSUME LeftIn({"Retrace"})
        PROVE  OSResumeThread
    <3>1. Has(stack'[exec], "Retrace")
      BY <2>3 DEF LeftIn, Has
    <3>2. retracing'
      BY <2>1, <3>1 DEF IInv, StackInv, Guarded, RetraceDepth
    <3>3. stack' # [stack EXCEPT ![exec] = << >>]
      BY <2>1, <3>1, HasNothing
    <3> QED
      BY <3>2, <3>3, LeftInRetrace
  <2> QED
    BY <2>2, <2>3
<1> QED
  BY <1>1, InvariantHolds, PTL DEF Spec, InterruptsRunToEnd

\* The pump, with its guards, its nesting and its switches of fibers, implements
\* a server that delivers the completion callbacks in order and one at a time.
THEOREM PumpIsServer == Spec => ImplementsServer
<1>1. Init => Server!Init
  BY InitInvariant DEF Server!Init, Serving
<1>2. IInv /\ [Next]_vars => [Server!Next]_<< pending, Serving >>
  BY StepIsServed
<1> QED
  BY <1>1, <1>2, InvariantHolds, PTL DEF Spec, ImplementsServer, Server!Spec, Server!vars

\* The alarm that fires is due, and no alarm of the queue is due before it.
THEOREM AlarmsFireInOrder == Spec => AlarmsInOrder
<1>1. IInv /\ [Next]_vars =>
        [FireAlarm => \A e \in ToSet(armed) :
           Head(armed).fire <= now /\ Head(armed).fire <= e.fire]_vars
  <2> SUFFICES ASSUME IInv, FireAlarm, NEW e \in ToSet(armed)
               PROVE  Head(armed).fire <= now /\ Head(armed).fire <= e.fire
    OBVIOUS
  <2>1. HeadIsDue
    BY DEF FireAlarm
  <2>2. armed \in Seq(Queued) /\ Sorted(armed)
    BY Known
  <2>3. Head(armed) = armed[1] /\ DOMAIN armed = 1 .. Len(armed) /\ Len(armed) \in Nat
    BY <2>1, <2>2, LenProperties, EmptySeq DEF HeadIsDue
  <2>4. PICK i \in DOMAIN armed : e = armed[i]
    BY DEF ToSet
  <2> QED
    BY <2>1, <2>2, <2>3, <2>4 DEF HeadIsDue, Sorted
<1> QED
  BY <1>1, InvariantHolds, PTL DEF Spec, AlarmsInOrder
=============================================================================
