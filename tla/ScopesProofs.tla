----------------------------- MODULE ScopesProofs -----------------------------
(***************************************************************************)
(* Proofs about Scopes, for every workflow: the types, that no extension   *)
(* scope runs inside another one, the bounds on attempts and on what       *)
(* starts late, whose exit leaves a body out, that the variables of a      *)
(* loop stay for its body, and that the main scope is walked as Walk says. *)
(***************************************************************************)
EXTENDS Scopes, SequenceTheorems, TLAPS

Signals == {"run", "ok"} \cup Errors

\* What holds of every call, at any depth.
Sound(f) ==
    /\ f.at = "scope" => f.of \in Scope /\ f.n \in 1 .. Len(In[f.of]) + 1
    /\ f.at # "scope" => f.of \in Task
    /\ f.at = "for" => f.of \in For
    /\ f.at \in {"try", "wait", "handler"} => f.of \in Try /\ f.n <= Limit[f.of]
    /\ f.at \in {"before", "after"} => f.n >= 1

Frame == {f \in Call : Sound(f)}

\* What holds of a call that has called another one.
Waiting(f) ==
    /\ f.at = "scope" => f.n <= Len(In[f.of])
    /\ f.at \in {"before", "after"} => f.exts # {}

StackInv ==
    /\ stack \in Seq(Frame)
    /\ signal \in Signals
    /\ applies \in {"on", "off"}
    /\ \A k \in 1 .. Len(stack) : k > 1 \/ signal # "run" => Waiting(stack[k])

\* An extension scope switches the extensions off, and was entered for a task
\* which is inside no other one.
ExtInv ==
    /\ \A k \in 1 .. Len(stack) : Extending(k) => applies = "off"
    /\ \A j, k \in 1 .. Len(stack) : j < k /\ stack[j].exts # {} => ~ Extending(k)

Inv == StackInv /\ ExtInv

-----------------------------------------------------------------------------
(* The shapes of a step.                                                   *)

Leaves == Returned("before") \/ Returned("after")

\* The switch moves only when an extension scope is left.
Switched == applies' = applies \/ (Leaves /\ applies' \in {"on", "off"})

ReturnShape ==
    /\ stack # <<>> /\ Switched
    /\ stack' = Tail(stack) /\ signal' \in Signals \ {"run"}

BecomeShape ==
    /\ stack # <<>> /\ Switched
    /\ \E f \in Frame :
          /\ Become(f)
          /\ f.exts = Top.exts \/ f.exts = {} \/ (applies = "on" /\ ~ Leaves)

InvokeShape ==
    /\ stack # <<>>
    /\ \E f, g \in Frame :
          /\ Invoke(f, g)
          /\ Waiting(f) /\ f.exts = Top.exts /\ g.exts = {}
          /\ \/ f.at \in {"before", "after"} /\ applies' = "off"
             \/ f.at \notin {"before", "after"} /\ applies' = applies

CutShape ==
    /\ \E k \in 1 .. Len(stack) : stack' = SubSeq(stack, k + 1, Len(stack))
    /\ signal' \in Signals \ {"run"}
    /\ applies' = applies

KeepShape == stack' = stack /\ signal' = signal /\ applies' = applies

StepShape == ReturnShape \/ BecomeShape \/ InvokeShape \/ CutShape \/ KeepShape

-----------------------------------------------------------------------------
(* Calls.                                                                  *)

\* A new call has no extensions yet.
LEMMA CallingType ==
    ASSUME NEW at \in Ats, NEW of \in Scope \cup Task, NEW n \in Nat
    PROVE  /\ Calling(at, of, n) \in Call
           /\ Calling(at, of, n).at = at
           /\ Calling(at, of, n).of = of
           /\ Calling(at, of, n).n = n
           /\ Calling(at, of, n).exts = {}
BY DEF Calling, Call

\* A call that goes on: exec_scope's index, exec_task's steps, the attempts.
Moved(f, at, n, exts) == [f EXCEPT !.at = at, !.n = n, !.exts = exts]

LEMMA MovedType ==
    ASSUME NEW f \in Call, NEW at \in Ats, NEW n \in Nat, NEW exts \in SUBSET Extension
    PROVE  /\ Moved(f, at, n, exts) \in Call
           /\ Moved(f, at, n, exts).at = at
           /\ Moved(f, at, n, exts).of = f.of
           /\ Moved(f, at, n, exts).n = n
           /\ Moved(f, at, n, exts).exts = exts
<1> DEFINE g1 == [f EXCEPT !.at = at]
           g2 == [g1 EXCEPT !.n = n]
           g3 == [g2 EXCEPT !.exts = exts]
<1>1. g1 \in Call /\ g1.at = at /\ g1.of = f.of BY DEF Call
<1>2. g2 \in Call /\ g2.at = at /\ g2.of = f.of /\ g2.n = n
  <2> HIDE DEF g1
  <2> QED BY <1>1 DEF Call
<1>3. g3 \in Call /\ g3.at = at /\ g3.of = f.of /\ g3.n = n /\ g3.exts = exts
  <2> HIDE DEF g2
  <2> QED BY <1>2 DEF Call
<1>4. Moved(f, at, n, exts) = g3 BY DEF Call, Moved
<1> QED BY <1>3, <1>4

\* The fields of a call, and what moves when some of them do.
LEMMA FieldTypes ==
    ASSUME NEW f \in Call
    PROVE  /\ f.at \in Ats /\ f.of \in Scope \cup Task /\ f.n \in Nat
           /\ f.exts \in SUBSET Extension /\ f.was \in {"on", "off"}
           /\ \A at \in Ats : [f EXCEPT !.at = at] = Moved(f, at, f.n, f.exts)
           /\ \A n \in Nat : [f EXCEPT !.n = n] = Moved(f, f.at, n, f.exts)
           /\ \A at \in Ats, n \in Nat : [f EXCEPT !.at = at, !.n = n] = Moved(f, at, n, f.exts)
BY DEF Call, Moved

\* The innermost call.
LEMMA TopType ==
    ASSUME StackInv, stack # <<>>
    PROVE  /\ Top \in Call /\ Sound(Top)
           /\ Top = stack[1] /\ 1 \in 1 .. Len(stack)
           /\ signal # "run" => Waiting(Top)
<1>1. stack \in Seq(Frame) BY DEF StackInv
<1>2. Head(stack) \in Frame BY <1>1, HeadTailProperties
<1>3. Len(stack) \in Nat \ {0} BY <1>1, EmptySeq
<1>4. Head(stack) = stack[1] BY <1>1
<1> QED BY <1>2, <1>3, <1>4 DEF Top, Frame, StackInv

-----------------------------------------------------------------------------
(* Every step has a shape.                                                 *)

\* Whatever returns a signal and leaves the switch alone.
LEMMA ReturnIs ==
    ASSUME stack # <<>>, NEW s \in Signals \ {"run"}, Return(s), applies' = applies
    PROVE  ReturnShape
BY DEF ReturnShape, Return, Switched

\* The call goes on, with or without its extensions.
LEMMA BecomeIs ==
    ASSUME StackInv, stack # <<>>, NEW at \in Ats, NEW n \in Nat,
           Sound(Moved(Top, at, n, Top.exts)),
           Become(Moved(Top, at, n, Top.exts)), Switched
    PROVE  BecomeShape
<1>1. Top \in Call BY TopType
<1>2. Top.exts \in SUBSET Extension BY <1>1, FieldTypes
<1>3. Moved(Top, at, n, Top.exts) \in Call /\ Moved(Top, at, n, Top.exts).exts = Top.exts
  BY <1>1, <1>2, MovedType
<1>4. Moved(Top, at, n, Top.exts) \in Frame BY <1>3 DEF Frame
<1> QED BY <1>3, <1>4 DEF BecomeShape

\* A scope, a loop or a try is called by a call that is no extension's.
LEMMA InvokeIs ==
    ASSUME StackInv, stack # <<>>, NEW f \in Frame, Waiting(f), f.exts = Top.exts,
           f.at \notin {"before", "after"},
           NEW at \in Ats, NEW of \in Scope \cup Task, NEW n \in Nat,
           Sound(Calling(at, of, n)),
           Invoke(f, Calling(at, of, n)), applies' = applies
    PROVE  InvokeShape
<1>1. Calling(at, of, n) \in Frame /\ Calling(at, of, n).exts = {}
  BY CallingType DEF Frame
<1> QED BY <1>1 DEF InvokeShape

\* A scope starts in front of its first task.
LEMMA NewScope ==
    ASSUME NEW s \in Scope
    PROVE  /\ "scope" \in Ats /\ s \in Scope \cup Task /\ 1 \in Nat
           /\ Sound(Calling("scope", s, 1))
<1>1. In[s] \in Seq(Task) BY ProgramAssumption
<1>2. Len(In[s]) \in Nat BY <1>1
<1>3. "scope" \in Ats BY DEF Ats
<1> QED BY <1>2, <1>3, CallingType DEF Sound

\* A call goes on at another place.
LEMMA MovesTo ==
    ASSUME StackInv, stack # <<>>, NEW at \in Ats, NEW n \in Nat,
           Sound(Moved(Top, at, n, Top.exts)),
           Become([Top EXCEPT !.at = at, !.n = n]), Switched
    PROVE  BecomeShape
<1>1. [Top EXCEPT !.at = at, !.n = n] = Moved(Top, at, n, Top.exts) BY TopType, FieldTypes
<1> QED BY <1>1, BecomeIs

\* A call goes on where it is.
LEMMA Counts ==
    ASSUME StackInv, stack # <<>>, NEW n \in Nat,
           Sound(Moved(Top, Top.at, n, Top.exts)),
           Become([Top EXCEPT !.n = n]), Switched
    PROVE  BecomeShape
<1>1. Top \in Call /\ Top.at \in Ats BY TopType, FieldTypes
<1>2. [Top EXCEPT !.n = n] = Moved(Top, Top.at, n, Top.exts) BY <1>1, FieldTypes
<1> QED BY <1>1, <1>2, BecomeIs

\* run_extension_scope keeps the switch.
LEMMA KeepsType ==
    ASSUME NEW f \in Call, NEW was \in {"on", "off"}
    PROVE  /\ [f EXCEPT !.was = was] \in Call
           /\ [f EXCEPT !.was = was].at = f.at
           /\ [f EXCEPT !.was = was].of = f.of
           /\ [f EXCEPT !.was = was].n = f.n
           /\ [f EXCEPT !.was = was].exts = f.exts
BY DEF Call

\* exec_scope.
LEMMA ScopingShape ==
    ASSUME StackInv, Scoping
    PROVE  StepShape
<1> USE DEF StepShape
<1>1. stack # <<>> BY DEF Scoping, ObserveCancel, LeaveScope, StartTask, Continue, Goto, Exit, End, Runs, Returned
<1>2. /\ Top \in Call /\ Sound(Top) /\ (signal # "run" => Waiting(Top))
      /\ Top.at \in Ats /\ Top.n \in Nat /\ Top.exts \in SUBSET Extension
  BY <1>1, TopType, FieldTypes
<1>3. Top.at = "scope" BY DEF Scoping, ObserveCancel, LeaveScope, StartTask, Continue, Goto, Exit, End, Runs, Returned
<1>4. Top.of \in Scope BY <1>2, <1>3 DEF Sound
<1>5. In[Top.of] \in Seq(Task) BY <1>4, ProgramAssumption
<1>6. Len(In[Top.of]) \in Nat BY <1>5
<1>7. ASSUME NEW n \in 1 .. Len(In[Top.of]) + 1, Become([Top EXCEPT !.n = n]), applies' = applies
      PROVE  BecomeShape
  <2>1. [Top EXCEPT !.n = n] = Moved(Top, Top.at, n, Top.exts)
    <3>1. n \in Nat BY <1>6
    <3> QED BY <1>2, <3>1, FieldTypes
  <2>2. Sound(Moved(Top, Top.at, n, Top.exts))
    BY <1>2, <1>3, <1>4, <1>6, MovedType DEF Sound
  <2> QED BY <1>1, <1>2, <1>6, <1>7, <2>1, <2>2, BecomeIs DEF Switched
<1>8. CASE ObserveCancel BY <1>1, <1>8, ReturnIs DEF ObserveCancel, flags, Signals, Errors
<1>9. CASE LeaveScope BY <1>1, <1>9, ReturnIs DEF LeaveScope, flags, Signals
<1>10. CASE StartTask
  <2>1. Top.n <= Len(In[Top.of]) /\ Invoke(Top, Calling("task", Current, 0)) /\ applies' = applies
    BY <1>10 DEF StartTask, flags
  <2>2. Current \in Task BY <1>2, <1>3, <1>5, <1>6, <2>1 DEF Current, Sound
  <2>3. Top \in Frame /\ Waiting(Top) BY <1>2, <1>3, <2>1 DEF Frame, Waiting
  <2>4. "task" \in Ats BY DEF Ats
  <2>5. Sound(Calling("task", Current, 0)) BY <2>2, <2>4, CallingType DEF Sound
  <2> QED BY <1>1, <1>3, <2>1, <2>2, <2>3, <2>4, <2>5, InvokeIs
<1>11. CASE Continue
  <2>1. Top.n + 1 \in 1 .. Len(In[Top.of]) + 1
    BY <1>2, <1>3, <1>6, <1>11 DEF Continue, Waiting
  <2> QED BY <1>7, <1>11, <2>1 DEF Continue, flags
<1>12. CASE Goto
  <2>1. PICK t \in Then[Current] \cap Task :
          \/ \E i \in 1 .. Len(In[Top.of]) :
                /\ In[Top.of][i] = t
                /\ Become([Top EXCEPT !.n = i])
          \/ /\ \A i \in 1 .. Len(In[Top.of]) : In[Top.of][i] # t
             /\ Return("fault")
    BY <1>12 DEF Goto
  <2>2. applies' = applies BY <1>12 DEF Goto, flags
  <2>3. CASE Return("fault") BY <1>1, <2>2, <2>3, ReturnIs DEF Signals, Errors
  <2>4. CASE \E i \in 1 .. Len(In[Top.of]) : Become([Top EXCEPT !.n = i])
    <3>1. PICK i \in 1 .. Len(In[Top.of]) : Become([Top EXCEPT !.n = i]) BY <2>4
    <3>2. i \in 1 .. Len(In[Top.of]) + 1 BY <1>6
    <3> QED BY <1>7, <2>2, <3>1, <3>2
  <2> QED BY <2>1, <2>3, <2>4
<1>13. CASE Exit BY <1>1, <1>13, ReturnIs DEF Exit, Signals
<1>14. CASE End BY <1>1, <1>14, ReturnIs DEF End, Signals
<1> QED BY <1>8, <1>9, <1>10, <1>11, <1>12, <1>13, <1>14 DEF Scoping

\* exec_task and run_extension_scope.
LEMMA TaskingShape ==
    ASSUME StackInv, Tasking
    PROVE  StepShape
<1> USE DEF StepShape
<1>1. stack # <<>>
  BY DEF Tasking, Skip, Refuse, Select, EnterExtension, PassExtension, LeaveExtension,
         Dispatch, BodyDone, FinishTask, Runs, Returned
<1>2. /\ Top \in Call /\ Sound(Top) /\ (signal # "run" => Waiting(Top))
      /\ Top.at \in Ats /\ Top.n \in Nat /\ Top.exts \in SUBSET Extension
      /\ Top.was \in {"on", "off"}
  BY <1>1, TopType, FieldTypes
<1>3. Top.at \in {"task", "before", "body", "after"}
  BY DEF Tasking, Skip, Refuse, Select, EnterExtension, PassExtension, LeaveExtension,
         Dispatch, BodyDone, FinishTask, Runs, Returned
<1>4. Top.of \in Task BY <1>2, <1>3 DEF Sound
<1>5. Extends[Top.of] \in Seq(Extension) BY <1>4, ProgramAssumption
<1>6. Len(Extends[Top.of]) \in Nat BY <1>5
<1>7. ASSUME NEW at \in {"before", "body", "after"}, NEW n \in Nat, NEW exts \in SUBSET Extension,
             at # "body" => n >= 1
      PROVE  at \in Ats /\ Sound(Moved(Top, at, n, exts)) /\ Moved(Top, at, n, exts) \in Frame
  <2>1. at \in Ats BY DEF Ats
  <2> QED BY <1>2, <1>4, <1>7, <2>1, MovedType DEF Sound, Frame
<1>after. "after" \in Ats /\ Sound(Moved(Top, "after", 1, Top.exts)) BY <1>2, <1>7
<1>8. CASE Skip BY <1>1, <1>8, ReturnIs DEF Skip, flags, Signals
<1>9. CASE Refuse BY <1>1, <1>9, ReturnIs DEF Refuse, flags, Signals, Errors
<1>10. CASE Select
  <2>1. PICK exts \in Applicable(Top.of) :
          Become([Top EXCEPT !.at = "before", !.n = 1, !.exts = exts])
    BY <1>10 DEF Select
  <2>2. exts \in SUBSET Extension /\ (applies = "off" => exts = {})
    <3>1. {Extends[Top.of][i] : i \in 1 .. Len(Extends[Top.of])} \subseteq Extension
      BY <1>5
    <3> QED BY <2>1, <3>1 DEF Applicable
  <2>3. Become(Moved(Top, "before", 1, exts)) BY <2>1 DEF Moved
  <2>4. Moved(Top, "before", 1, exts) \in Frame BY <1>7, <2>2
  <2>5. Moved(Top, "before", 1, exts).exts = exts
    <3>1. "before" \in Ats BY DEF Ats
    <3> QED BY <1>2, <2>2, <3>1, MovedType
  <2>6. applies' = applies /\ ~ Leaves
    BY <1>10 DEF Select, flags, Leaves, Runs, Returned
  <2>7. exts = {} \/ applies = "on" BY <2>2 DEF StackInv
  <2> QED BY <1>1, <2>3, <2>4, <2>5, <2>6, <2>7 DEF BecomeShape, Switched
<1>11. CASE EnterExtension
  <2> DEFINE f == [Top EXCEPT !.was = applies]
             g == Calling("scope", ScopeOf(Top), 1)
  <2>1. Invoke(f, g) /\ applies' = "off" /\ Extended(Top) BY <1>11 DEF EnterExtension
  <2>2. Top.at \in {"before", "after"} BY <1>11 DEF EnterExtension, Runs
  <2>3. applies \in {"on", "off"} BY DEF StackInv
  <2>4. /\ f \in Call /\ f.at = Top.at /\ f.of = Top.of /\ f.n = Top.n /\ f.exts = Top.exts
    BY <1>2, <2>3, KeepsType
  <2>5. Top.n \in 1 .. Len(Extends[Top.of]) /\ Top.exts # {}
    BY <1>2, <1>6, <2>1, <2>2 DEF Extended, Passed, Sound
  <2>6. Extends[Top.of][Top.n] \in Extension BY <1>5, <2>5
  <2>7. ScopeOf(Top) \in Scope BY <2>6, ProgramAssumption DEF ScopeOf
  <2>8. g \in Frame /\ g.exts = {} BY <2>7, NewScope, CallingType DEF Frame
  <2>9. f \in Frame /\ Waiting(f)
    <3> HIDE DEF f
    <3>1. f \in Frame BY <1>2, <2>4 DEF Frame, Sound
    <3>2. Waiting(f) BY <2>2, <2>4, <2>5 DEF Waiting
    <3> QED BY <3>1, <3>2
  <2> HIDE DEF f, g
  <2> QED BY <1>1, <2>1, <2>2, <2>4, <2>8, <2>9 DEF InvokeShape
<1>12. CASE PassExtension
  <2>1. /\ Become([Top EXCEPT !.n = Top.n + 1]) /\ applies' = applies
        /\ Top.at \in {"before", "after"}
    BY <1>12 DEF PassExtension, flags, Runs
  <2>2. Top.n + 1 \in Nat /\ Top.n + 1 >= 1 BY <1>2
  <2> QED BY <1>1, <1>2, <1>7, <2>1, <2>2, Counts DEF Switched
<1>13. CASE LeaveExtension
  <2>1. Switched BY <1>2, <1>13 DEF LeaveExtension, Switched, Leaves
  <2>2. signal \in Signals /\ Top.at \in {"before", "after"}
    BY <1>13 DEF StackInv, LeaveExtension, Returned
  <2>3. CASE signal \in Errors
    <3>1. Return(signal) BY <1>13, <2>3 DEF LeaveExtension
    <3> QED BY <1>1, <2>1, <2>3, <3>1 DEF Return, ReturnShape, Signals, Errors
  <2>4. CASE Become([Top EXCEPT !.at = "after", !.n = 1])
    BY <1>1, <1>after, <2>1, <2>4, MovesTo
  <2>5. CASE Become([Top EXCEPT !.n = Top.n + 1])
    <3>1. Top.n + 1 \in Nat /\ Top.n + 1 >= 1 BY <1>2
    <3> QED BY <1>1, <1>2, <1>7, <2>1, <2>2, <2>5, <3>1, Counts
  <2> QED BY <1>13, <2>3, <2>4, <2>5 DEF LeaveExtension
<1>14. CASE Dispatch
  <2> DEFINE t == Top.of
             f == [Top EXCEPT !.at = "body", !.n = 0]
  <2>1. applies' = applies BY <1>14 DEF Dispatch, flags
  <2>2. "body" \in Ats /\ "for" \in Ats /\ "try" \in Ats BY DEF Ats
  <2>3. f = Moved(Top, "body", 0, Top.exts) BY <1>2, <2>2, FieldTypes
  <2>4. f \in Frame /\ f.exts = Top.exts /\ f.at = "body"
    BY <1>2, <1>7, <2>2, <2>3, MovedType
  <2>5. Waiting(f) BY <2>4 DEF Waiting
  <2>6. CASE t \in Do
    <3>1. Body[t] \in Scope BY <2>6, ProgramAssumption DEF Composite
    <3>2. Invoke(f, Calling("scope", Body[t], 1)) BY <1>14, <2>6 DEF Dispatch
    <3> HIDE DEF f
    <3> QED BY <1>1, <2>1, <2>4, <2>5, <3>1, <3>2, NewScope, InvokeIs
  <2>7. CASE t \notin Do /\ t \in For
    <3>1. Invoke(f, Calling("for", t, 0)) BY <1>14, <2>7 DEF Dispatch
    <3>2. Sound(Calling("for", t, 0)) BY <1>4, <2>2, <2>7, CallingType DEF Sound
    <3> HIDE DEF f
    <3> QED BY <1>1, <1>4, <2>1, <2>2, <2>4, <2>5, <3>1, <3>2, InvokeIs
  <2>8. CASE t \notin Do /\ t \notin For /\ t \in Try
    <3>1. Invoke(f, Calling("try", t, 0)) BY <1>14, <2>8 DEF Dispatch
    <3>2. Limit[t] \in Nat BY <2>8, DataAssumption
    <3>3. Sound(Calling("try", t, 0)) BY <1>4, <2>2, <2>8, <3>2, CallingType DEF Sound
    <3> HIDE DEF f
    <3> QED BY <1>1, <1>4, <2>1, <2>2, <2>4, <2>5, <3>1, <3>3, InvokeIs
  <2>9. CASE t \notin Do /\ t \notin For /\ t \notin Try
    <3>1. Become(f) BY <1>14, <2>9 DEF Dispatch
    <3> QED BY <1>1, <2>1, <2>4, <3>1 DEF BecomeShape, Switched
  <2> QED BY <2>6, <2>7, <2>8, <2>9
<1>15. CASE BodyDone
  <2>1. Become([Top EXCEPT !.at = "after", !.n = 1]) /\ applies' = applies
    BY <1>15 DEF BodyDone, flags
  <2>2. Switched BY <2>1 DEF Switched
  <2> QED BY <1>1, <1>after, <2>1, <2>2, MovesTo
<1>16. CASE FinishTask BY <1>1, <1>16, ReturnIs DEF FinishTask, flags, Signals
<1> QED BY <1>8, <1>9, <1>10, <1>11, <1>12, <1>13, <1>14, <1>15, <1>16 DEF Tasking

\* task_for.
LEMMA LoopingShape ==
    ASSUME StackInv, Looping
    PROVE  StepShape
<1> USE DEF StepShape
<1>1. stack # <<>> BY DEF Looping, Iterate, FailLoop, LeaveLoop, NextItem, Runs, Returned
<1>2. Top.at = "for" BY DEF Looping, Iterate, FailLoop, LeaveLoop, NextItem, Runs, Returned
<1>3. Top \in Call /\ Sound(Top) /\ Top.n \in Nat /\ Top.exts \in SUBSET Extension
  BY <1>1, TopType, FieldTypes
<1>4. Top.of \in For /\ Top.of \in Task BY <1>2, <1>3 DEF Sound
<1>5. applies' = applies
  BY DEF Looping, Iterate, FailLoop, LeaveLoop, NextItem, flags
<1>6. CASE Iterate
  <2>1. Invoke(Top, Calling("scope", Body[Top.of], 1)) BY <1>6 DEF Iterate
  <2>2. Body[Top.of] \in Scope BY <1>4, ProgramAssumption DEF Composite
  <2>3. Top \in Frame /\ Waiting(Top) BY <1>2, <1>3 DEF Frame, Waiting
  <2> QED BY <1>1, <1>2, <1>5, <2>1, <2>2, <2>3, NewScope, InvokeIs
<1>7. CASE FailLoop
  <2>1. Return("fault") \/ Return("cancelled") BY <1>7 DEF FailLoop
  <2> QED BY <1>1, <1>5, <2>1, ReturnIs DEF Signals, Errors
<1>8. CASE LeaveLoop
  <2>1. Return("ok") BY <1>8 DEF LeaveLoop
  <2> QED BY <1>1, <1>5, <2>1, ReturnIs DEF Signals
<1>9. CASE NextItem
  <2>1. Become([Top EXCEPT !.n = Top.n + 1]) BY <1>9 DEF NextItem
  <2>2. Top.n + 1 \in Nat BY <1>3
  <2>3. Top.at \in Ats BY <1>2 DEF Ats
  <2>4. Sound(Moved(Top, Top.at, Top.n + 1, Top.exts))
    BY <1>2, <1>3, <1>4, <2>2, <2>3, MovedType DEF Sound
  <2> QED BY <1>1, <1>5, <2>1, <2>2, <2>4, Counts DEF Switched
<1> QED BY <1>6, <1>7, <1>8, <1>9 DEF Looping

\* task_try and wait_with_cancel.
LEMMA TryingShape ==
    ASSUME StackInv, Trying \/ Wait
    PROVE  StepShape
<1> USE DEF StepShape
<1>1. stack # <<>>
  BY DEF Trying, Attempt, Succeed, Uncaught, Catches, Retry, Handle, Handled, Wait, Runs, Returned
<1>2. Top.at \in {"try", "wait", "handler"}
  BY DEF Trying, Attempt, Succeed, Uncaught, Catches, Retry, Handle, Handled, Wait, Runs, Returned
<1>3. Top \in Call /\ Sound(Top) /\ Top.n \in Nat /\ Top.exts \in SUBSET Extension
  BY <1>1, TopType, FieldTypes
<1>4. Top.of \in Try /\ Top.of \in Task /\ Top.n <= Limit[Top.of]
  BY <1>2, <1>3 DEF Sound
<1>5. applies' = applies
  BY DEF Trying, Attempt, Succeed, Uncaught, Retry, Handle, Handled, Wait, flags
<1>6. ASSUME NEW at \in {"try", "wait", "handler"}, NEW n \in Nat, n <= Limit[Top.of]
      PROVE  at \in Ats /\ Sound(Moved(Top, at, n, Top.exts)) /\ Waiting(Moved(Top, at, n, Top.exts))
             /\ Moved(Top, at, n, Top.exts) \in Frame /\ Moved(Top, at, n, Top.exts).exts = Top.exts
             /\ Moved(Top, at, n, Top.exts).at = at
  <2>1. at \in Ats BY DEF Ats
  <2> QED BY <1>3, <1>4, <1>6, <2>1, MovedType DEF Sound, Frame, Waiting
<1>7. Body[Top.of] \in Scope BY <1>4, ProgramAssumption DEF Composite
<1>8. CASE Attempt
  <2>1. CASE cancelled
    <3>1. Return("cancelled") BY <1>8, <2>1 DEF Attempt
    <3> QED BY <1>1, <1>5, <3>1, ReturnIs DEF Signals, Errors
  <2>2. CASE ~ cancelled
    <3>1. Invoke(Top, Calling("scope", Body[Top.of], 1)) BY <1>8, <2>2 DEF Attempt
    <3>2. Top \in Frame /\ Waiting(Top) BY <1>2, <1>3 DEF Frame, Waiting
    <3> QED BY <1>1, <1>2, <1>5, <1>7, <3>1, <3>2, NewScope, InvokeIs
  <2> QED BY <2>1, <2>2
<1>9. CASE Succeed
  <2>1. Return("ok") BY <1>9 DEF Succeed
  <2> QED BY <1>1, <1>5, <2>1, ReturnIs DEF Signals
<1>10. CASE Uncaught
  <2>1. signal \in Errors /\ (Return(signal) \/ Return("fault")) BY <1>10 DEF Uncaught
  <2>2. signal \in Signals \ {"run"} /\ "fault" \in Signals \ {"run"}
    BY <2>1 DEF Signals, Errors
  <2> QED BY <1>1, <1>5, <2>1, <2>2, ReturnIs
<1>11. CASE Retry
  <2>1. Become([Top EXCEPT !.at = "wait", !.n = Top.n + 1]) /\ Top.n < Limit[Top.of]
    BY <1>11 DEF Retry
  <2>2. Limit[Top.of] \in Nat BY <1>4, DataAssumption
  <2>3. Top.n + 1 \in Nat /\ Top.n + 1 <= Limit[Top.of] BY <1>3, <2>1, <2>2
  <2>4. Switched BY <1>5 DEF Switched
  <2>5. "wait" \in Ats /\ Sound(Moved(Top, "wait", Top.n + 1, Top.exts)) BY <1>6, <2>3
  <2> QED BY <1>1, <2>1, <2>3, <2>4, <2>5, MovesTo
<1>12. CASE Handle
  <2>1. CASE Handler[Top.of] = NoHandler
    <3>1. Return("ok") BY <1>12, <2>1 DEF Handle
    <3> QED BY <1>1, <1>5, <3>1, ReturnIs DEF Signals
  <2>2. CASE Handler[Top.of] # NoHandler
    <3>1. Invoke([Top EXCEPT !.at = "handler"], Calling("scope", Handler[Top.of], 1))
      BY <1>12, <2>2 DEF Handle
    <3>2. Handler[Top.of] \in Scope BY <1>4, <2>2, ProgramAssumption
    <3>3. "handler" \in Ats BY DEF Ats
    <3>4. [Top EXCEPT !.at = "handler"] = Moved(Top, "handler", Top.n, Top.exts)
      BY <1>3, <3>3, FieldTypes
    <3>5. /\ Moved(Top, "handler", Top.n, Top.exts) \in Frame
          /\ Waiting(Moved(Top, "handler", Top.n, Top.exts))
          /\ Moved(Top, "handler", Top.n, Top.exts).exts = Top.exts
          /\ Moved(Top, "handler", Top.n, Top.exts).at = "handler"
      BY <1>3, <1>4, <1>6
    <3> QED BY <1>1, <1>5, <3>1, <3>2, <3>4, <3>5, NewScope, InvokeIs
  <2> QED BY <2>1, <2>2
<1>13. CASE Handled
  <2>1. Return(signal) /\ signal # "run" BY <1>13 DEF Handled, Returned
  <2>2. signal \in Signals \ {"run"} BY <2>1 DEF StackInv
  <2> QED BY <1>1, <1>5, <2>1, <2>2, ReturnIs
<1>14. CASE Wait
  <2>1. Become([Top EXCEPT !.at = "try"]) \/ Return("cancelled") BY <1>14 DEF Wait
  <2>2. CASE Return("cancelled") BY <1>1, <1>5, <2>2, ReturnIs DEF Signals, Errors
  <2>3. CASE Become([Top EXCEPT !.at = "try"])
    <3>1. "try" \in Ats /\ Sound(Moved(Top, "try", Top.n, Top.exts)) BY <1>3, <1>4, <1>6
    <3>2. [Top EXCEPT !.at = "try"] = Moved(Top, "try", Top.n, Top.exts)
      BY <1>3, <3>1, FieldTypes
    <3>3. Switched BY <1>5 DEF Switched
    <3> QED BY <1>1, <1>3, <2>3, <3>1, <3>2, <3>3, BecomeIs
  <2> QED BY <2>1, <2>2, <2>3
<1> QED BY <1>8, <1>9, <1>10, <1>11, <1>12, <1>13, <1>14 DEF Trying

\* Every step.
LEMMA StepHasShape ==
    ASSUME StackInv, [Next]_vars
    PROVE  StepShape
<1>1. CASE Raising
  <2>1. PICK at \in {"scope", "body", "for"} : Propagate(at) BY <1>1 DEF Raising
  <2>2. stack # <<>> /\ signal \in Errors /\ Return(signal) /\ applies' = applies
    BY <2>1 DEF Propagate, Returned, flags
  <2>3. signal \in Signals \ {"run"} BY <2>2 DEF Signals, Errors
  <2> QED BY <2>2, <2>3, ReturnIs DEF StepShape
<1>2. CASE FinishBody
  <2>1. stack # <<>> /\ Top.at = "body" /\ applies' = applies
    BY <1>2 DEF FinishBody, Runs, flags
  <2>2. Top \in Call /\ Sound(Top) /\ Top.exts \in SUBSET Extension
    BY <2>1, TopType, FieldTypes
  <2>3. \/ Become([Top EXCEPT !.at = "after", !.n = 1])
        \/ Return("fault") \/ Return("cancelled")
    BY <1>2 DEF FinishBody
  <2>4. CASE Return("fault") \/ Return("cancelled")
    BY <2>1, <2>4, ReturnIs DEF StepShape, Signals, Errors
  <2>5. CASE Become([Top EXCEPT !.at = "after", !.n = 1])
    <3>1. "after" \in Ats BY DEF Ats
    <3>2. Sound(Moved(Top, "after", 1, Top.exts)) BY <2>1, <2>2, <3>1, MovedType DEF Sound
    <3>3. Switched BY <2>1 DEF Switched
    <3> QED BY <2>1, <2>5, <3>1, <3>2, <3>3, MovesTo DEF StepShape
  <2> QED BY <2>3, <2>4, <2>5
<1>3. CASE Timeout
  <2>1. PICK k \in 2 .. Len(stack) : stack' = SubSeq(stack, k + 1, Len(stack))
    BY <1>3 DEF Timeout
  <2>2. Len(stack) \in Nat BY DEF StackInv
  <2>3. signal' \in Signals \ {"run"} /\ applies' = applies
    BY <1>3 DEF Timeout, Signals, Errors, flags
  <2> QED BY <2>1, <2>2, <2>3 DEF StepShape, CutShape
<1>4. CASE Cancel BY <1>4 DEF Cancel, StepShape, KeepShape
<1>5. CASE UNCHANGED vars BY <1>5 DEF vars, StepShape, KeepShape
<1> QED BY <1>1, <1>2, <1>3, <1>4, <1>5, ScopingShape, TaskingShape, LoopingShape, TryingShape
        DEF Next, Polled

-----------------------------------------------------------------------------
(* The invariant over the shapes.                                          *)

\* What the shapes do to the stack.
LEMMA Stacks ==
    ASSUME StackInv, stack # <<>>
    PROVE  /\ Len(stack) \in Nat \ {0}
           /\ Tail(stack) \in Seq(Frame) /\ Len(Tail(stack)) = Len(stack) - 1
           /\ \A i \in 1 .. Len(stack) - 1 : Tail(stack)[i] = stack[i + 1]
           /\ \A f \in Frame :
                 /\ <<f>> \o Tail(stack) \in Seq(Frame)
                 /\ Len(<<f>> \o Tail(stack)) = Len(stack)
                 /\ (<<f>> \o Tail(stack))[1] = f
                 /\ \A i \in 2 .. Len(stack) : (<<f>> \o Tail(stack))[i] = stack[i]
           /\ \A f, g \in Frame :
                 /\ <<g, f>> \o Tail(stack) \in Seq(Frame)
                 /\ Len(<<g, f>> \o Tail(stack)) = Len(stack) + 1
                 /\ (<<g, f>> \o Tail(stack))[1] = g
                 /\ (<<g, f>> \o Tail(stack))[2] = f
                 /\ \A i \in 3 .. Len(stack) + 1 : (<<g, f>> \o Tail(stack))[i] = stack[i - 1]
<1>1. stack \in Seq(Frame) BY DEF StackInv
<1>2. Len(stack) \in Nat \ {0} BY <1>1, EmptySeq
<1>3. /\ Tail(stack) \in Seq(Frame) /\ Len(Tail(stack)) = Len(stack) - 1
      /\ \A i \in 1 .. Len(Tail(stack)) : Tail(stack)[i] = stack[i + 1]
  BY <1>1, HeadTailProperties
<1>4. ASSUME NEW f \in Frame
      PROVE  /\ <<f>> \o Tail(stack) \in Seq(Frame)
             /\ Len(<<f>> \o Tail(stack)) = Len(stack)
             /\ (<<f>> \o Tail(stack))[1] = f
             /\ \A i \in 2 .. Len(stack) : (<<f>> \o Tail(stack))[i] = stack[i]
  <2> DEFINE t == Tail(stack)
  <2>1. <<f>> \in Seq(Frame) /\ Len(<<f>>) = 1 /\ <<f>>[1] = f BY <1>4
  <2> HIDE DEF t
  <2>2. t \in Seq(Frame) /\ Len(t) = Len(stack) - 1 BY <1>3 DEF t
  <2>3. /\ <<f>> \o t \in Seq(Frame)
        /\ Len(<<f>> \o t) = 1 + Len(t)
        /\ \A i \in 1 .. 1 + Len(t) : (<<f>> \o t)[i] = IF i <= 1 THEN <<f>>[i] ELSE t[i - 1]
    BY <2>1, <2>2, ConcatProperties
  <2>4. \A i \in 2 .. Len(stack) : t[i - 1] = stack[i] BY <1>2, <1>3 DEF t
  <2>5. Len(<<f>> \o t) = Len(stack) BY <1>2, <2>2, <2>3
  <2>6. (<<f>> \o t)[1] = f BY <1>2, <2>1, <2>2, <2>3
  <2>7. \A i \in 2 .. Len(stack) : (<<f>> \o t)[i] = stack[i] BY <1>2, <2>2, <2>3, <2>4
  <2> QED BY <2>3, <2>5, <2>6, <2>7 DEF t
<1>5. ASSUME NEW f \in Frame, NEW g \in Frame
      PROVE  /\ <<g, f>> \o Tail(stack) \in Seq(Frame)
             /\ Len(<<g, f>> \o Tail(stack)) = Len(stack) + 1
             /\ (<<g, f>> \o Tail(stack))[1] = g
             /\ (<<g, f>> \o Tail(stack))[2] = f
             /\ \A i \in 3 .. Len(stack) + 1 : (<<g, f>> \o Tail(stack))[i] = stack[i - 1]
  <2> DEFINE t == Tail(stack)
  <2>1. <<g, f>> \in Seq(Frame) /\ Len(<<g, f>>) = 2 /\ <<g, f>>[1] = g /\ <<g, f>>[2] = f
    BY <1>5
  <2> HIDE DEF t
  <2>2. t \in Seq(Frame) /\ Len(t) = Len(stack) - 1 BY <1>3 DEF t
  <2>3. /\ <<g, f>> \o t \in Seq(Frame)
        /\ Len(<<g, f>> \o t) = 2 + Len(t)
        /\ \A i \in 1 .. 2 + Len(t) : (<<g, f>> \o t)[i] = IF i <= 2 THEN <<g, f>>[i] ELSE t[i - 2]
    BY <2>1, <2>2, ConcatProperties
  <2>4. \A i \in 3 .. Len(stack) + 1 : t[i - 2] = stack[i - 1]
    <3>1. ASSUME NEW i \in 3 .. Len(stack) + 1 PROVE t[i - 2] = stack[i - 1]
      <4>1. i - 2 \in 1 .. Len(t) /\ (i - 2) + 1 = i - 1 BY <1>2, <2>2
      <4> QED BY <1>3, <4>1 DEF t
    <3> QED BY <3>1
  <2>5. Len(<<g, f>> \o t) = Len(stack) + 1 BY <1>2, <2>2, <2>3
  <2>6. (<<g, f>> \o t)[1] = g /\ (<<g, f>> \o t)[2] = f BY <1>2, <2>1, <2>2, <2>3
  <2>7. \A i \in 3 .. Len(stack) + 1 : (<<g, f>> \o t)[i] = stack[i - 1]
    BY <1>2, <2>2, <2>3, <2>4
  <2> QED BY <2>3, <2>5, <2>6, <2>7 DEF t
<1> QED BY <1>2, <1>3, <1>4, <1>5

\* What a timeout leaves of the stack.
LEMMA CutStacks ==
    ASSUME StackInv, NEW k \in 1 .. Len(stack)
    PROVE  /\ SubSeq(stack, k + 1, Len(stack)) \in Seq(Frame)
           /\ Len(SubSeq(stack, k + 1, Len(stack))) = Len(stack) - k
           /\ \A i \in 1 .. Len(stack) - k : SubSeq(stack, k + 1, Len(stack))[i] = stack[i + k]
<1>1. stack \in Seq(Frame) /\ Len(stack) \in Nat BY DEF StackInv
<1>2. \A i \in k + 1 .. Len(stack) : stack[i] \in Frame BY <1>1
<1>3. k + 1 \in Int /\ Len(stack) \in Int BY <1>1
<1> DEFINE t == SubSeq(stack, k + 1, Len(stack))
<1>4. /\ t \in Seq(Frame)
      /\ Len(t) = IF k + 1 <= Len(stack) THEN Len(stack) - (k + 1) + 1 ELSE 0
      /\ \A i \in 1 .. Len(stack) - (k + 1) + 1 : t[i] = stack[(k + 1) + i - 1]
  BY <1>2, <1>3, SubSeqProperties
<1> HIDE DEF t
<1>5. Len(t) = Len(stack) - k BY <1>1, <1>4
<1>6. ASSUME NEW i \in 1 .. Len(stack) - k PROVE t[i] = stack[i + k]
  <2>1. i \in 1 .. Len(stack) - (k + 1) + 1 /\ (k + 1) + i - 1 = i + k BY <1>1
  <2> QED BY <1>4, <2>1
<1> QED BY <1>4, <1>5, <1>6 DEF t

\* The switch moves only where no extension scope is left.
LEMMA LeavesAlone ==
    ASSUME Inv, Leaves
    PROVE  \A k \in 2 .. Len(stack) : ~ Extending(k)
<1>1. stack # <<>> /\ signal # "run" /\ Top.at \in {"before", "after"}
  BY DEF Leaves, Returned
<1>2. stack[1].exts # {} /\ 1 \in 1 .. Len(stack)
  BY <1>1, TopType DEF Inv, Waiting
<1> QED BY <1>2 DEF Inv, ExtInv

\* The invariant is inductive.
LEMMA ShapeInv ==
    ASSUME Inv, StepShape
    PROVE  Inv'
<1> USE DEF Inv
<1>1. Len(stack) \in Nat BY DEF StackInv
<1>2. applies' \in {"on", "off"}
  BY DEF StackInv, StepShape, ReturnShape, BecomeShape, InvokeShape, CutShape, KeepShape, Switched, Become
<1>3. ASSUME NEW n \in 1 .. Len(stack), Len(stack') = Len(stack) - n, stack' \in Seq(Frame),
             \A i \in 1 .. Len(stack) - n : stack'[i] = stack[i + n],
             signal' \in Signals \ {"run"},
             applies' = applies \/ \A k \in 2 .. Len(stack) : ~ Extending(k)
      PROVE  Inv'
  <2>1. ASSUME NEW i \in 1 .. Len(stack')
        PROVE  /\ i + n \in 1 .. Len(stack) /\ i + n > 1
               /\ stack'[i] = stack[i + n]
    BY <1>1, <1>3
  <2>2. \A i \in 1 .. Len(stack') : Waiting(stack'[i])
    BY <2>1 DEF StackInv
  <2>3. StackInv' BY <1>2, <1>3, <2>2 DEF StackInv, Waiting
  <2>4. ASSUME NEW i \in 1 .. Len(stack'), Extending(i)'
        PROVE  Extending(i + n)
    BY <2>1, <2>4 DEF Extending
  <2>5. \A i \in 1 .. Len(stack') : Extending(i)' => applies' = "off"
    <3>1. ASSUME NEW i \in 1 .. Len(stack'), Extending(i)' PROVE applies' = "off"
      <4>1. Extending(i + n) /\ i + n \in 2 .. Len(stack) BY <1>1, <2>1, <2>4, <3>1
      <4> QED BY <1>1, <1>3, <4>1 DEF ExtInv
    <3> QED BY <3>1
  <2>6. ASSUME NEW j \in 1 .. Len(stack'), NEW k \in 1 .. Len(stack'), j < k, stack'[j].exts # {}
        PROVE  ~ Extending(k)'
    <3>1. j + n < k + n /\ stack[j + n].exts # {} BY <1>1, <2>1, <2>6
    <3>2. ~ Extending(k + n) BY <2>1, <3>1 DEF ExtInv
    <3> QED BY <2>4, <3>2
  <2> QED BY <2>3, <2>5, <2>6 DEF ExtInv
<1>4. CASE ReturnShape
  <2>1. stack # <<>> /\ stack' = Tail(stack) /\ signal' \in Signals \ {"run"} /\ Switched
    BY <1>4 DEF ReturnShape
  <2>2. 1 \in 1 .. Len(stack) BY <2>1, Stacks
  <2>3. applies' = applies \/ \A k \in 2 .. Len(stack) : ~ Extending(k)
    BY <2>1, LeavesAlone DEF Switched
  <2> QED BY <1>3, <2>1, <2>2, <2>3, Stacks
<1>5. CASE CutShape
  <2>1. PICK k \in 1 .. Len(stack) : stack' = SubSeq(stack, k + 1, Len(stack))
    BY <1>5 DEF CutShape
  <2>2. signal' \in Signals \ {"run"} /\ applies' = applies BY <1>5 DEF CutShape
  <2> QED BY <1>3, <2>1, <2>2, CutStacks
<1>6. CASE BecomeShape
  <2>1. stack # <<>> /\ Switched BY <1>6 DEF BecomeShape
  <2>2. PICK f \in Frame : /\ Become(f)
                           /\ f.exts = Top.exts \/ f.exts = {} \/ (applies = "on" /\ ~ Leaves)
    BY <1>6 DEF BecomeShape
  <2>3. /\ stack' \in Seq(Frame) /\ Len(stack') = Len(stack) /\ signal' = "run"
        /\ stack'[1] = f /\ \A i \in 2 .. Len(stack) : stack'[i] = stack[i]
    BY <2>1, <2>2, Stacks DEF Become
  <2>4. ASSUME NEW k \in 1 .. Len(stack'), Extending(k)'
        PROVE  k \in 2 .. Len(stack) /\ Extending(k)
    BY <1>1, <2>3, <2>4 DEF Extending
  <2>5. StackInv'
    <3>1. \A k \in 1 .. Len(stack') : k > 1 => Waiting(stack'[k])
      BY <1>1, <2>3 DEF StackInv
    <3> QED BY <1>2, <2>3, <3>1 DEF StackInv, Waiting, Signals
  <2>6. \A k \in 1 .. Len(stack') : Extending(k)' => applies' = "off"
    <3>1. ASSUME NEW k \in 1 .. Len(stack'), Extending(k)' PROVE applies' = "off"
      <4>1. k \in 2 .. Len(stack) /\ Extending(k) BY <2>4, <3>1
      <4>2. applies' = applies BY <2>1, <4>1, LeavesAlone DEF Switched
      <4>3. k \in 1 .. Len(stack) BY <1>1, <4>1
      <4> QED BY <4>1, <4>2, <4>3 DEF ExtInv
    <3> QED BY <3>1
  <2>7. ASSUME NEW j \in 1 .. Len(stack'), NEW k \in 1 .. Len(stack'), j < k,
               stack'[j].exts # {}, Extending(k)'
        PROVE  FALSE
    <3>1. k \in 2 .. Len(stack) /\ k \in 1 .. Len(stack) /\ Extending(k) BY <1>1, <2>3, <2>4, <2>7
    <3>2. CASE j = 1
      <4>1. Top = stack[1] /\ 1 \in 1 .. Len(stack) BY <2>1, TopType
      <4>2. f.exts # {} BY <2>3, <2>7, <3>2
      <4>3. CASE f.exts = Top.exts BY <2>7, <3>1, <3>2, <4>1, <4>2, <4>3 DEF ExtInv
      <4>4. CASE applies = "on" BY <3>1, <4>4 DEF ExtInv
      <4> QED BY <2>2, <4>2, <4>3, <4>4
    <3>3. CASE j # 1
      <4>1. j \in 2 .. Len(stack) /\ j \in 1 .. Len(stack) BY <1>1, <2>3, <3>3
      <4>2. stack[j].exts # {} BY <2>3, <2>7, <4>1
      <4> QED BY <2>7, <3>1, <4>1, <4>2 DEF ExtInv
    <3> QED BY <3>2, <3>3
  <2> QED BY <2>5, <2>6, <2>7 DEF ExtInv
<1>7. CASE InvokeShape
  <2>1. stack # <<>> BY <1>7 DEF InvokeShape
  <2>2. PICK f \in Frame, g \in Frame :
          /\ Invoke(f, g)
          /\ Waiting(f) /\ f.exts = Top.exts /\ g.exts = {}
          /\ \/ f.at \in {"before", "after"} /\ applies' = "off"
             \/ f.at \notin {"before", "after"} /\ applies' = applies
    BY <1>7 DEF InvokeShape
  <2>3. /\ stack' \in Seq(Frame) /\ Len(stack') = Len(stack) + 1 /\ signal' = "run"
        /\ stack'[1] = g /\ stack'[2] = f
        /\ \A i \in 3 .. Len(stack) + 1 : stack'[i] = stack[i - 1]
    BY <2>1, <2>2, Stacks DEF Invoke
  <2>4. ASSUME NEW k \in 3 .. Len(stack) + 1
        PROVE  /\ k - 1 \in 1 .. Len(stack) /\ k - 1 > 1 /\ stack'[k] = stack[k - 1]
               /\ Extending(k)' => Extending(k - 1)
    <3>1. k - 1 \in 1 .. Len(stack) /\ k - 1 > 1 /\ stack'[k] = stack[k - 1] BY <1>1, <2>3
    <3> QED BY <3>1 DEF Extending
  <2>5. \A k \in 1 .. Len(stack') : k = 1 \/ k = 2 \/ k \in 3 .. Len(stack) + 1
    BY <1>1, <2>3
  <2>6. ~ Extending(1)' BY <2>3 DEF Extending
  <2>7. StackInv'
    <3>1. ASSUME NEW k \in 1 .. Len(stack'), k > 1 PROVE Waiting(stack'[k])
      <4>1. CASE k = 2 BY <2>2, <2>3, <4>1
      <4>2. CASE k \in 3 .. Len(stack) + 1 BY <2>4, <4>2 DEF StackInv
      <4> QED BY <2>5, <3>1, <4>1, <4>2
    <3> QED BY <1>2, <2>3, <3>1 DEF StackInv, Waiting, Signals
  <2>8. ASSUME NEW k \in 1 .. Len(stack'), Extending(k)' PROVE applies' = "off"
    <3>1. CASE k = 2 BY <2>2, <2>3, <2>8, <3>1 DEF Extending
    <3>2. CASE k \in 3 .. Len(stack) + 1
      <4>1. applies = "off" BY <2>4, <2>8, <3>2 DEF ExtInv
      <4> QED BY <2>2, <4>1
    <3> QED BY <2>5, <2>6, <2>8, <3>1, <3>2
  <2>9. ASSUME NEW j \in 1 .. Len(stack'), NEW k \in 1 .. Len(stack'), j < k,
               stack'[j].exts # {}, Extending(k)'
        PROVE  FALSE
    <3>1. j # 1 BY <2>2, <2>3, <2>9
    <3>2. k \in 3 .. Len(stack) + 1 BY <1>1, <2>3, <2>9, <3>1
    <3>3. k - 1 \in 1 .. Len(stack) /\ Extending(k - 1) BY <2>4, <2>9, <3>2
    <3>4. CASE j = 2
      <4>1. Top = stack[1] /\ 1 \in 1 .. Len(stack) BY <2>1, TopType
      <4>2. stack[1].exts # {} BY <2>2, <2>3, <2>9, <3>4, <4>1
      <4>3. 1 < k - 1 BY <1>1, <3>2
      <4> QED BY <3>3, <4>1, <4>2, <4>3 DEF ExtInv
    <3>5. CASE j \in 3 .. Len(stack) + 1
      <4>1. j - 1 \in 1 .. Len(stack) /\ stack[j - 1].exts # {} BY <2>4, <2>9, <3>5
      <4>2. j - 1 < k - 1 BY <1>1, <2>9, <3>2, <3>5
      <4> QED BY <3>3, <4>1, <4>2 DEF ExtInv
    <3> QED BY <2>5, <3>1, <3>4, <3>5
  <2> QED BY <2>7, <2>8, <2>9 DEF ExtInv
<1>8. CASE KeepShape
  BY <1>8 DEF KeepShape, StackInv, ExtInv, Extending, Waiting
<1> QED BY <1>4, <1>5, <1>6, <1>7, <1>8 DEF StepShape

\* The start.
LEMMA InitInv == Init => Inv
<1> SUFFICES ASSUME Init PROVE Inv
  OBVIOUS
<1> DEFINE f == Calling("scope", Main, 1)
<1>1. f \in Frame /\ f.exts = {}
  BY IdentityAssumption, NewScope, CallingType DEF Frame
<1> HIDE DEF f
<1>2. stack = <<f>> /\ signal = "run" /\ applies = "on" BY DEF Init, f
<1>3. stack \in Seq(Frame) /\ Len(stack) = 1 /\ stack[1] = f BY <1>1, <1>2
<1>4. \A k \in 1 .. Len(stack) : k = 1 BY <1>3
<1> QED BY <1>1, <1>2, <1>3, <1>4 DEF Inv, StackInv, ExtInv, Extending, Signals

\* The invariant.
LEMMA Invariance == Spec => []Inv
<1>1. Init => Inv BY InitInv
<1>2. Inv /\ [Next]_vars => Inv' BY StepHasShape, ShapeInv DEF Inv
<1> QED BY <1>1, <1>2, PTL DEF Spec

-----------------------------------------------------------------------------
(* The theorems.                                                           *)

\* No extension scope runs inside another one (run_extension_scope), for every
\* workflow, whatever fails, is retried, dropped or cancelled.
THEOREM NeverInside == Spec => []NeverExtended
<1>1. Inv => NeverExtended
  <2> SUFFICES ASSUME Inv, NEW j \in 1 .. Len(stack), NEW k \in 1 .. Len(stack),
                      Extending(j), Extending(k), j # k
               PROVE  FALSE
    BY DEF NeverExtended
  <2>1. \A i \in 1 .. Len(stack) : Extending(i) => stack[i].exts # {}
    BY DEF Inv, StackInv, Extending, Waiting
  <2>2. j < k \/ k < j BY DEF Inv, StackInv
  <2> QED BY <2>1, <2>2 DEF Inv, ExtInv
<1> QED BY <1>1, Invariance, PTL

\* A try makes no more attempts than its retry allows, per visit (task_try).
THEOREM AttemptsLimited == Spec => []AttemptsBounded
<1>1. Inv => AttemptsBounded
  BY DEF Inv, StackInv, AttemptsBounded, Frame, Sound
<1> QED BY <1>1, Invariance, PTL

\* The variables beside the stack.
FlagsType ==
    /\ ended \in BOOLEAN /\ exited \in BOOLEAN /\ cancelled \in BOOLEAN /\ leaving \in BOOLEAN
    /\ names \subseteq Name
    /\ late \in 0 .. MaxLate

\* The flags keep their types.
LEMMA FlagsInductive ==
    ASSUME Inv, FlagsType, [Next]_vars
    PROVE  FlagsType'
<1> USE DEF FlagsType, flags, history
<1>1. ASSUME stack # <<>>, Top.at \in {"for", "try", "wait", "handler"}
      PROVE  Sets[Top.of] \subseteq Name
  <2>1. Top.of \in For \cup Try BY <1>1, TopType DEF Inv, Sound
  <2> QED BY <2>1, DataAssumption
<1>2. CASE Scoping
  BY <1>2 DEF Scoping, ObserveCancel, LeaveScope, StartTask, Continue, Goto, Exit, End
<1>3. CASE Tasking
  <2>1. CASE Dispatch BY <2>1 DEF Dispatch, MaxLate
  <2> QED BY <1>3, <2>1 DEF Tasking, Skip, Refuse, Select, EnterExtension, PassExtension,
                            LeaveExtension, BodyDone, FinishTask
<1>4. CASE Looping
  <2>1. Sets[Top.of] \subseteq Name
    BY <1>1, <1>4 DEF Looping, Iterate, FailLoop, LeaveLoop, NextItem, Runs, Returned
  <2> QED BY <1>4, <2>1 DEF Looping, Iterate, FailLoop, LeaveLoop, NextItem
<1>5. CASE Trying
  <2>1. Sets[Top.of] \subseteq Name
    BY <1>1, <1>5 DEF Trying, Attempt, Succeed, Uncaught, Catches, Retry, Handle, Handled, Runs, Returned
  <2> QED BY <1>5, <2>1 DEF Trying, Attempt, Succeed, Uncaught, Retry, Handle, Handled
<1>6. CASE Raising BY <1>6 DEF Raising, Propagate
<1>7. CASE FinishBody BY <1>7 DEF FinishBody
<1>8. CASE Wait BY <1>8 DEF Wait
<1>9. CASE Timeout BY <1>9 DEF Timeout
<1>10. CASE Cancel BY <1>10 DEF Cancel
<1>11. CASE UNCHANGED vars BY <1>11 DEF vars
<1> QED BY <1>2, <1>3, <1>4, <1>5, <1>6, <1>7, <1>8, <1>9, <1>10, <1>11 DEF Next, Polled

\* Every variable keeps its type, and no index leaves its scope, for every
\* workflow (exec_scope, exec_task, task_for, task_try).
THEOREM ScopeTypes == Spec => []TypeOK
<1>1. Init => FlagsType
  <2>1. 0 \in 0 .. MaxLate BY DEF MaxLate
  <2> QED BY <2>1, Zenon DEF Init, FlagsType
<1>2. Inv /\ FlagsType /\ [Next]_vars => FlagsType' BY FlagsInductive
<1>3. Inv /\ FlagsType => TypeOK
  <2> SUFFICES ASSUME Inv, FlagsType PROVE TypeOK
    OBVIOUS
  <2>1. stack \in Seq(Frame) BY DEF Inv, StackInv
  <2>2. stack \in Seq(Call) BY <2>1, SeqMonotonic DEF Frame
  <2>3. \A k \in 1 .. Len(stack) : stack[k] \in Frame BY <2>1
  <2> QED BY <2>2, <2>3 DEF TypeOK, FlagsType, Inv, StackInv, Frame, Sound, Signals
<1> QED BY <1>1, <1>2, <1>3, Invariance, PTL DEF Spec

-----------------------------------------------------------------------------
(* What the steps do to the nesting of the calls.                          *)

\* task_for and task_try, which run inside the body of their exec_task.
Waits == {"for", "try", "wait", "handler"}

\* The calls above number n return, or are dropped; "ok" is returned by a scope
\* that saw no cancellation, or met an exit or an end.
Dropping(n) ==
    /\ Len(stack') = Len(stack) - n
    /\ \A i \in 1 .. Len(stack) - n : stack'[i] = stack[i + n]
    /\ signal' # "run"
    /\ signal' = "ok" => n = 1 /\ (stack[1].at = "scope" => ~ cancelled \/ exited' \/ ended')
DropEdge == \E n \in 1 .. Len(stack) : Dropping(n)

\* The innermost call goes on; one step before its body it does so on its way
\* there, or behind an extension's scope that did not leave with an exit.
StepEdge ==
    /\ stack # <<>> /\ Len(stack') = Len(stack) /\ signal' = "run"
    /\ \A i \in 2 .. Len(stack) : stack'[i] = stack[i]
    /\ stack'[1].of = stack[1].of
    /\ stack'[1].at \in Waits <=> stack[1].at \in Waits
    /\ stack'[1].at = "scope" <=> stack[1].at = "scope"
    /\ stack'[1].at # "task"
    /\ stack'[1].at = "before" =>
         Runs("task") \/ Runs("before") \/ (Returned("before") /\ signal = "ok" /\ ~ exited)

\* What calls what.
ExtensionEdge(f, g, h) ==
    /\ signal = "run" /\ f.at \in {"before", "after"} /\ h.at = f.at /\ g.at = "scope"
    /\ \E e \in Extension : g.of = Before[e] \/ g.of = After[e]
TaskEdge(f, g, h) ==
    /\ f.at = "scope" /\ h.at = "scope" /\ g.at = "task" /\ ~ ended /\ ~ cancelled
    /\ f.of \in Scope /\ \E i \in 1 .. Len(In[f.of]) : g.of = In[f.of][i]
BodyEdge(f, g, h) ==
    /\ \/ f.at = "before" /\ h.at = "body"
       \/ f.at \in {"for", "try"} /\ h.at = f.at /\ (f.at = "for" => Sets[f.of] \subseteq names')
    /\ g.at = "scope" /\ f.of \in Composite /\ g.of = Body[f.of]
LoopEdge(f, g, h) ==
    f.at = "before" /\ h.at = "body" /\ g.at \in {"for", "try"} /\ g.of = f.of
HandlerEdge(f, g, h) ==
    /\ f.at = "try" /\ h.at = "handler" /\ g.at = "scope"
    /\ f.of \in Try /\ Handler[f.of] # NoHandler /\ g.of = Handler[f.of]

CallEdge ==
    /\ stack # <<>> /\ Len(stack') = Len(stack) + 1 /\ signal' = "run"
    /\ \A i \in 3 .. Len(stack) + 1 : stack'[i] = stack[i - 1]
    /\ stack'[2].of = stack[1].of
    /\ \/ ExtensionEdge(stack[1], stack'[1], stack'[2])
       \/ TaskEdge(stack[1], stack'[1], stack'[2])
       \/ BodyEdge(stack[1], stack'[1], stack'[2])
       \/ LoopEdge(stack[1], stack'[1], stack'[2])
       \/ HandlerEdge(stack[1], stack'[1], stack'[2])

KeepEdge == UNCHANGED <<stack, signal, exited>>

Edge == DropEdge \/ StepEdge \/ CallEdge \/ KeepEdge

\* The calls after a step, whatever the new ones are.
LEMMA Heads ==
    ASSUME StackInv, stack # <<>>, NEW f, NEW g
    PROVE  /\ Len(stack) \in Nat \ {0}
           /\ Len(Tail(stack)) = Len(stack) - 1
           /\ \A i \in 1 .. Len(stack) - 1 : Tail(stack)[i] = stack[i + 1]
           /\ Len(<<f>> \o Tail(stack)) = Len(stack)
           /\ (<<f>> \o Tail(stack))[1] = f
           /\ \A i \in 2 .. Len(stack) : (<<f>> \o Tail(stack))[i] = stack[i]
           /\ Len(<<g, f>> \o Tail(stack)) = Len(stack) + 1
           /\ (<<g, f>> \o Tail(stack))[1] = g
           /\ (<<g, f>> \o Tail(stack))[2] = f
           /\ \A i \in 3 .. Len(stack) + 1 : (<<g, f>> \o Tail(stack))[i] = stack[i - 1]
<1> DEFINE S == Frame \cup {f, g}
           t == Tail(stack)
<1>1. /\ Len(stack) \in Nat \ {0} /\ t \in Seq(Frame) /\ Len(t) = Len(stack) - 1
      /\ \A i \in 1 .. Len(stack) - 1 : t[i] = stack[i + 1]
  BY Stacks
<1>2. f \in S /\ g \in S OBVIOUS
<1>3. t \in Seq(S)
  <2> Frame \subseteq S OBVIOUS
  <2> HIDE DEF S, t
  <2> QED BY <1>1, SeqMonotonic
<1> HIDE DEF S, t
<1>4. <<f>> \in Seq(S) /\ Len(<<f>>) = 1 /\ <<f>>[1] = f BY <1>2
<1>5. <<g, f>> \in Seq(S) /\ Len(<<g, f>>) = 2 /\ <<g, f>>[1] = g /\ <<g, f>>[2] = f BY <1>2
<1>6. /\ Len(<<f>> \o t) = 1 + Len(t)
      /\ \A i \in 1 .. 1 + Len(t) : (<<f>> \o t)[i] = IF i <= 1 THEN <<f>>[i] ELSE t[i - 1]
  BY <1>3, <1>4, ConcatProperties
<1>7. /\ Len(<<g, f>> \o t) = 2 + Len(t)
      /\ \A i \in 1 .. 2 + Len(t) : (<<g, f>> \o t)[i] = IF i <= 2 THEN <<g, f>>[i] ELSE t[i - 2]
  BY <1>3, <1>5, ConcatProperties
<1>8. Len(<<f>> \o t) = Len(stack) /\ (<<f>> \o t)[1] = f BY <1>1, <1>4, <1>6
<1>9. Len(<<g, f>> \o t) = Len(stack) + 1 /\ (<<g, f>> \o t)[1] = g /\ (<<g, f>> \o t)[2] = f
  BY <1>1, <1>5, <1>7
<1>10. ASSUME NEW i \in 2 .. Len(stack) PROVE (<<f>> \o t)[i] = stack[i]
  <2>1. i - 1 \in 1 .. Len(stack) - 1 /\ (i - 1) + 1 = i BY <1>1
  <2>2. t[i - 1] = stack[i] BY <1>1, <2>1
  <2> QED BY <1>1, <1>6, <2>2
<1>11. ASSUME NEW i \in 3 .. Len(stack) + 1 PROVE (<<g, f>> \o t)[i] = stack[i - 1]
  <2>1. i - 2 \in 1 .. Len(stack) - 1 /\ (i - 2) + 1 = i - 1 BY <1>1
  <2>2. t[i - 2] = stack[i - 1] BY <1>1, <2>1
  <2> QED BY <1>1, <1>7, <2>2
<1> QED BY <1>1, <1>8, <1>9, <1>10, <1>11 DEF t

\* A call that returns.
LEMMA ReturnEdge ==
    ASSUME StackInv, stack # <<>>, NEW s, s # "run", Return(s),
           s = "ok" => (Top.at = "scope" => ~ cancelled \/ exited' \/ ended')
    PROVE  Edge
<1>1. 1 \in 1 .. Len(stack) /\ Top = stack[1] BY TopType
<1>2. Len(stack') = Len(stack) - 1 /\ \A i \in 1 .. Len(stack) - 1 : stack'[i] = stack[i + 1]
  BY Heads DEF Return
<1>3. signal' # "run" /\ (signal' = "ok" => (stack[1].at = "scope" => ~ cancelled \/ exited' \/ ended'))
  BY <1>1 DEF Return
<1>4. Dropping(1) BY <1>2, <1>3 DEF Dropping
<1> QED BY <1>1, <1>4 DEF Edge, DropEdge

\* A call that goes on.
LEMMA BecomeEdge ==
    ASSUME StackInv, stack # <<>>, NEW f, Become(f),
           f.of = Top.of, f.at \in Waits <=> Top.at \in Waits,
           f.at = "scope" <=> Top.at = "scope", f.at # "task",
           f.at = "before" =>
             Runs("task") \/ Runs("before") \/ (Returned("before") /\ signal = "ok" /\ ~ exited)
    PROVE  Edge
<1>1. Top = stack[1] BY TopType
<1>2. Len(stack') = Len(stack) /\ stack'[1] = f /\ \A i \in 2 .. Len(stack) : stack'[i] = stack[i]
  BY Heads DEF Become
<1>3. signal' = "run" BY DEF Become
<1> QED BY <1>1, <1>2, <1>3 DEF Edge, StepEdge

\* A call that calls.
LEMMA InvokeEdge ==
    ASSUME StackInv, stack # <<>>, NEW f, NEW g, Invoke(f, g), f.of = Top.of,
           \/ ExtensionEdge(Top, g, f) \/ TaskEdge(Top, g, f) \/ BodyEdge(Top, g, f)
           \/ LoopEdge(Top, g, f) \/ HandlerEdge(Top, g, f)
    PROVE  Edge
<1>1. Top = stack[1] BY TopType
<1>2. /\ Len(stack') = Len(stack) + 1 /\ stack'[1] = g /\ stack'[2] = f
      /\ \A i \in 3 .. Len(stack) + 1 : stack'[i] = stack[i - 1]
  BY Heads DEF Invoke
<1>3. signal' = "run" BY DEF Invoke
<1> QED BY <1>1, <1>2, <1>3 DEF Edge, CallEdge

\* The fields of a call that moves.
LEMMA MovedFields ==
    ASSUME NEW f \in Call
    PROVE  /\ \A n : [f EXCEPT !.n = n].at = f.at /\ [f EXCEPT !.n = n].of = f.of
           /\ \A at, n : [f EXCEPT !.at = at, !.n = n].at = at /\ [f EXCEPT !.at = at, !.n = n].of = f.of
           /\ \A at : [f EXCEPT !.at = at].at = at /\ [f EXCEPT !.at = at].of = f.of
           /\ \A at, n, exts : /\ [f EXCEPT !.at = at, !.n = n, !.exts = exts].at = at
                               /\ [f EXCEPT !.at = at, !.n = n, !.exts = exts].of = f.of
BY DEF Call

\* The fields of a new call.
LEMMA CallingFields ==
    ASSUME NEW at, NEW of, NEW n
    PROVE  Calling(at, of, n).at = at /\ Calling(at, of, n).of = of
BY DEF Calling

\* exec_scope.
LEMMA ScopingEdge ==
    ASSUME StackInv, Scoping
    PROVE  Edge
<1>1. stack # <<>> /\ Top.at = "scope"
  BY DEF Scoping, ObserveCancel, LeaveScope, StartTask, Continue, Goto, Exit, End, Runs, Returned
<1>2. Top \in Call /\ Sound(Top) BY <1>1, TopType
<1>3. ASSUME NEW n, Become([Top EXCEPT !.n = n]) PROVE Edge
  BY <1>1, <1>2, <1>3, MovedFields, BecomeEdge
<1>4. CASE ObserveCancel BY <1>1, <1>4, ReturnEdge DEF ObserveCancel
<1>5. CASE LeaveScope BY <1>1, <1>5, ReturnEdge DEF LeaveScope
<1>6. CASE StartTask
  <2>1. /\ ~ cancelled /\ ~ ended /\ Top.n <= Len(In[Top.of])
        /\ Invoke(Top, Calling("task", Current, 0))
    BY <1>6 DEF StartTask
  <2>2. Top.of \in Scope /\ Top.n \in 1 .. Len(In[Top.of]) + 1 BY <1>1, <1>2 DEF Sound
  <2>3. In[Top.of] \in Seq(Task) BY <2>2, ProgramAssumption
  <2>4. Top.n \in 1 .. Len(In[Top.of]) BY <2>1, <2>2, <2>3
  <2>5. TaskEdge(Top, Calling("task", Current, 0), Top)
    BY <1>1, <2>1, <2>2, <2>4, CallingFields DEF TaskEdge, Current
  <2> QED BY <1>1, <2>1, <2>5, InvokeEdge
<1>7. CASE Continue BY <1>3, <1>7 DEF Continue
<1>8. CASE Goto
  <2>1. \/ \E i \in 1 .. Len(In[Top.of]) : Become([Top EXCEPT !.n = i])
        \/ Return("fault")
    BY <1>8 DEF Goto
  <2> QED BY <1>1, <1>3, <2>1, ReturnEdge
<1>9. CASE Exit BY <1>1, <1>9, ReturnEdge DEF Exit
<1>10. CASE End BY <1>1, <1>10, ReturnEdge DEF End
<1> QED BY <1>4, <1>5, <1>6, <1>7, <1>8, <1>9, <1>10 DEF Scoping

\* exec_task and run_extension_scope.
LEMMA TaskingEdge ==
    ASSUME StackInv, Tasking
    PROVE  Edge
<1>1. stack # <<>> /\ Top.at \in {"task", "before", "body", "after"}
  BY DEF Tasking, Skip, Refuse, Select, EnterExtension, PassExtension, LeaveExtension,
         Dispatch, BodyDone, FinishTask, Runs, Returned
<1>2. Top \in Call /\ Sound(Top) BY <1>1, TopType
<1>3. Top.of \in Task BY <1>1, <1>2 DEF Sound
<1>4. Extends[Top.of] \in Seq(Extension) BY <1>3, ProgramAssumption
<1>5. ASSUME Become([Top EXCEPT !.at = "after", !.n = 1]) PROVE Edge
  <2> DEFINE f == [Top EXCEPT !.at = "after", !.n = 1]
  <2>1. f.at = "after" /\ f.of = Top.of BY <1>2, MovedFields
  <2>2. Become(f) BY <1>5
  <2> HIDE DEF f
  <2> QED BY <1>1, <2>1, <2>2, BecomeEdge DEF Waits
<1>6. ASSUME Become([Top EXCEPT !.n = Top.n + 1]), Top.at \in {"before", "after"},
             Top.at = "before" => Runs("before") \/ (Returned("before") /\ signal = "ok" /\ ~ exited)
      PROVE Edge
  <2> DEFINE f == [Top EXCEPT !.n = Top.n + 1]
  <2>1. f.at = Top.at /\ f.of = Top.of BY <1>2, MovedFields
  <2>2. Become(f) BY <1>6
  <2> HIDE DEF f
  <2> QED BY <1>1, <1>6, <2>1, <2>2, BecomeEdge DEF Waits
<1>7. CASE Skip BY <1>1, <1>7, ReturnEdge DEF Skip, Runs
<1>8. CASE Refuse BY <1>1, <1>8, ReturnEdge DEF Refuse
<1>9. CASE Select
  <2>1. PICK exts : Become([Top EXCEPT !.at = "before", !.n = 1, !.exts = exts])
    BY <1>9 DEF Select
  <2>2. Runs("task") BY <1>9 DEF Select
  <2> DEFINE f == [Top EXCEPT !.at = "before", !.n = 1, !.exts = exts]
  <2>3. f.at = "before" /\ f.of = Top.of BY <1>2, MovedFields
  <2>4. Become(f) BY <2>1
  <2> HIDE DEF f
  <2> QED BY <1>1, <2>2, <2>3, <2>4, BecomeEdge DEF Waits, Runs
<1>10. CASE EnterExtension
  <2> DEFINE f == [Top EXCEPT !.was = applies]
             g == Calling("scope", ScopeOf(Top), 1)
  <2>1. /\ Invoke(f, g) /\ Extended(Top) /\ signal = "run" /\ Top.at \in {"before", "after"}
    BY <1>10 DEF EnterExtension, Runs
  <2>2. f.at = Top.at /\ f.of = Top.of BY <1>2 DEF Call
  <2>3. g.at = "scope" /\ g.of = ScopeOf(Top) BY CallingFields
  <2>4. Top.n \in 1 .. Len(Extends[Top.of])
    <3>1. Top.n \in Nat /\ Top.n >= 1 BY <1>2, <2>1, FieldTypes DEF Sound
    <3>2. ~ (Top.n > Len(Extends[Top.of])) BY <2>1 DEF Extended, Passed
    <3> QED BY <1>4, <3>1, <3>2
  <2>5. Extends[Top.of][Top.n] \in Extension BY <1>4, <2>4
  <2>6. g.of = Before[Extends[Top.of][Top.n]] \/ g.of = After[Extends[Top.of][Top.n]]
    BY <2>3 DEF ScopeOf
  <2> HIDE DEF f, g
  <2>7. ExtensionEdge(Top, g, f) BY <2>1, <2>2, <2>3, <2>5, <2>6 DEF ExtensionEdge
  <2> QED BY <1>1, <2>1, <2>2, <2>7, InvokeEdge
<1>11. CASE PassExtension BY <1>6, <1>11 DEF PassExtension, Runs
<1>12. CASE LeaveExtension
  <2>1. Top.at \in {"before", "after"} /\ signal # "run" /\ stack # <<>>
    BY <1>12 DEF LeaveExtension, Returned
  <2>2. CASE signal \in Errors BY <1>1, <1>12, <2>1, <2>2, ReturnEdge DEF LeaveExtension, Errors
  <2>3. CASE signal \notin Errors
    <3>1. signal = "ok" BY <2>1, <2>3 DEF StackInv, Signals
    <3>2. CASE Top.at = "before" /\ exited BY <1>5, <1>12, <2>3, <3>2 DEF LeaveExtension
    <3>3. CASE ~ (Top.at = "before" /\ exited)
      <4>1. Become([Top EXCEPT !.n = Top.n + 1]) BY <1>12, <2>3, <3>3 DEF LeaveExtension
      <4> QED BY <1>6, <2>1, <3>1, <3>3, <4>1 DEF Returned
    <3> QED BY <3>2, <3>3
  <2> QED BY <2>2, <2>3
<1>13. CASE Dispatch
  <2> DEFINE t == Top.of
             f == [Top EXCEPT !.at = "body", !.n = 0]
  <2>1. Top.at = "before" BY <1>13 DEF Dispatch, Runs
  <2>2. f.at = "body" /\ f.of = Top.of BY <1>2, MovedFields
  <2>3. CASE t \in Do
    <3>1. Invoke(f, Calling("scope", Body[t], 1)) BY <1>13, <2>3 DEF Dispatch
    <3> HIDE DEF f
    <3>2. BodyEdge(Top, Calling("scope", Body[t], 1), f)
      BY <2>1, <2>2, <2>3, CallingFields DEF BodyEdge, Composite
    <3> QED BY <1>1, <2>2, <3>1, <3>2, InvokeEdge
  <2>4. CASE t \notin Do /\ t \in For
    <3>1. Invoke(f, Calling("for", t, 0)) BY <1>13, <2>4 DEF Dispatch
    <3> HIDE DEF f
    <3>2. LoopEdge(Top, Calling("for", t, 0), f) BY <2>1, <2>2, CallingFields DEF LoopEdge
    <3> QED BY <1>1, <2>2, <3>1, <3>2, InvokeEdge
  <2>5. CASE t \notin Do /\ t \notin For /\ t \in Try
    <3>1. Invoke(f, Calling("try", t, 0)) BY <1>13, <2>5 DEF Dispatch
    <3> HIDE DEF f
    <3>2. LoopEdge(Top, Calling("try", t, 0), f) BY <2>1, <2>2, CallingFields DEF LoopEdge
    <3> QED BY <1>1, <2>2, <3>1, <3>2, InvokeEdge
  <2>6. CASE t \notin Do /\ t \notin For /\ t \notin Try
    <3>1. Become(f) BY <1>13, <2>6 DEF Dispatch
    <3> QED BY <1>1, <2>1, <2>2, <3>1, BecomeEdge DEF Waits
  <2> QED BY <2>3, <2>4, <2>5, <2>6
<1>14. CASE BodyDone BY <1>5, <1>14 DEF BodyDone
<1>15. CASE FinishTask BY <1>1, <1>15, ReturnEdge DEF FinishTask, Runs
<1> QED BY <1>7, <1>8, <1>9, <1>10, <1>11, <1>12, <1>13, <1>14, <1>15 DEF Tasking

\* task_for, task_try and wait_with_cancel.
LEMMA WaitingEdge ==
    ASSUME StackInv, Looping \/ Trying \/ Wait
    PROVE  Edge
<1>1. stack # <<>> /\ Top.at \in Waits
  BY DEF Looping, Iterate, FailLoop, LeaveLoop, NextItem, Trying, Attempt, Succeed, Uncaught, Catches,
         Retry, Handle, Handled, Wait, Runs, Returned, Waits
<1>2. Top \in Call /\ Sound(Top) BY <1>1, TopType
<1>3. Top.at # "scope" BY <1>1 DEF Waits
<1>4. ASSUME NEW s, s # "run", Return(s) PROVE Edge BY <1>1, <1>3, <1>4, ReturnEdge
<1>5. ASSUME NEW f, Become(f), f.of = Top.of, f.at \in Waits PROVE Edge
  BY <1>1, <1>3, <1>5, BecomeEdge DEF Waits
<1>6. CASE Iterate
  <2>1. /\ Invoke(Top, Calling("scope", Body[Top.of], 1)) /\ Top.at = "for"
        /\ Sets[Top.of] \subseteq names'
    BY <1>6 DEF Iterate, Runs
  <2>2. Top.of \in Composite BY <1>2, <2>1 DEF Sound, Composite
  <2>3. BodyEdge(Top, Calling("scope", Body[Top.of], 1), Top)
    BY <2>1, <2>2, CallingFields DEF BodyEdge
  <2> QED BY <1>1, <2>1, <2>3, InvokeEdge
<1>7. CASE FailLoop BY <1>4, <1>7 DEF FailLoop
<1>8. CASE LeaveLoop BY <1>4, <1>8 DEF LeaveLoop
<1>9. CASE NextItem
  <2>1. Become([Top EXCEPT !.n = Top.n + 1]) BY <1>9 DEF NextItem
  <2> DEFINE f == [Top EXCEPT !.n = Top.n + 1]
  <2>2. f.at = Top.at /\ f.of = Top.of BY <1>2, MovedFields
  <2>3. Become(f) BY <2>1
  <2> HIDE DEF f
  <2> QED BY <1>1, <1>5, <2>2, <2>3
<1>10. CASE Attempt
  <2>1. CASE cancelled BY <1>4, <1>10, <2>1 DEF Attempt
  <2>2. CASE ~ cancelled
    <3>1. Invoke(Top, Calling("scope", Body[Top.of], 1)) /\ Top.at = "try"
      BY <1>10, <2>2 DEF Attempt, Runs
    <3>2. Top.of \in Composite BY <1>2, <3>1 DEF Sound, Composite
    <3>3. BodyEdge(Top, Calling("scope", Body[Top.of], 1), Top)
      BY <3>1, <3>2, CallingFields DEF BodyEdge
    <3> QED BY <1>1, <3>1, <3>3, InvokeEdge
  <2> QED BY <2>1, <2>2
<1>11. CASE Succeed BY <1>4, <1>11 DEF Succeed
<1>12. CASE Uncaught
  <2>1. Return(signal) \/ Return("fault") BY <1>12 DEF Uncaught
  <2>2. signal # "run" BY <1>12 DEF Uncaught, Returned
  <2> QED BY <1>4, <2>1, <2>2
<1>13. CASE Retry
  <2>1. Become([Top EXCEPT !.at = "wait", !.n = Top.n + 1]) BY <1>13 DEF Retry
  <2> DEFINE f == [Top EXCEPT !.at = "wait", !.n = Top.n + 1]
  <2>2. f.at = "wait" /\ f.of = Top.of BY <1>2, MovedFields
  <2>3. Become(f) BY <2>1
  <2> HIDE DEF f
  <2> QED BY <1>5, <2>2, <2>3 DEF Waits
<1>14. CASE Handle
  <2>1. CASE Handler[Top.of] = NoHandler BY <1>4, <1>14, <2>1 DEF Handle
  <2>2. CASE Handler[Top.of] # NoHandler
    <3> DEFINE f == [Top EXCEPT !.at = "handler"]
    <3>1. Invoke(f, Calling("scope", Handler[Top.of], 1)) /\ Top.at = "try"
      BY <1>14, <2>2 DEF Handle, Catches, Returned
    <3>2. f.at = "handler" /\ f.of = Top.of BY <1>2, MovedFields
    <3>3. Top.of \in Try BY <1>2, <3>1 DEF Sound
    <3> HIDE DEF f
    <3>4. HandlerEdge(Top, Calling("scope", Handler[Top.of], 1), f)
      BY <2>2, <3>1, <3>2, <3>3, CallingFields DEF HandlerEdge
    <3> QED BY <1>1, <3>1, <3>2, <3>4, InvokeEdge
  <2> QED BY <2>1, <2>2
<1>15. CASE Handled BY <1>4, <1>15 DEF Handled, Returned
<1>16. CASE Wait
  <2>1. Become([Top EXCEPT !.at = "try"]) \/ Return("cancelled") BY <1>16 DEF Wait
  <2>2. CASE Become([Top EXCEPT !.at = "try"])
    <3> DEFINE f == [Top EXCEPT !.at = "try"]
    <3>1. f.at = "try" /\ f.of = Top.of BY <1>2, MovedFields
    <3>2. Become(f) BY <2>2
    <3> HIDE DEF f
    <3> QED BY <1>5, <3>1, <3>2 DEF Waits
  <2> QED BY <1>4, <2>1, <2>2
<1> QED BY <1>6, <1>7, <1>8, <1>9, <1>10, <1>11, <1>12, <1>13, <1>14, <1>15, <1>16 DEF Looping, Trying

\* Every step.
LEMMA StepHasEdge ==
    ASSUME StackInv, [Next]_vars
    PROVE  Edge
<1>1. CASE Raising
  <2>1. PICK at \in {"scope", "body", "for"} : Propagate(at) BY <1>1 DEF Raising
  <2>2. stack # <<>> /\ signal \in Errors /\ Return(signal) BY <2>1 DEF Propagate, Returned
  <2> QED BY <2>2, ReturnEdge DEF Errors
<1>2. CASE FinishBody
  <2>1. stack # <<>> /\ Top.at = "body" BY <1>2 DEF FinishBody, Runs
  <2>2. Top \in Call BY <2>1, TopType
  <2>3. \/ Become([Top EXCEPT !.at = "after", !.n = 1])
        \/ Return("fault") \/ Return("cancelled")
    BY <1>2 DEF FinishBody
  <2>4. CASE Become([Top EXCEPT !.at = "after", !.n = 1])
    <3> DEFINE f == [Top EXCEPT !.at = "after", !.n = 1]
    <3>1. f.at = "after" /\ f.of = Top.of BY <2>2, MovedFields
    <3>2. Become(f) BY <2>4
    <3> HIDE DEF f
    <3> QED BY <2>1, <3>1, <3>2, BecomeEdge DEF Waits
  <2> QED BY <2>1, <2>3, <2>4, ReturnEdge
<1>3. CASE Timeout
  <2>1. PICK k \in 2 .. Len(stack) : stack' = SubSeq(stack, k + 1, Len(stack))
    BY <1>3 DEF Timeout
  <2>2. Len(stack) \in Nat BY DEF StackInv
  <2>3. k \in 1 .. Len(stack) BY <2>1, <2>2
  <2>4. Len(stack') = Len(stack) - k /\ \A i \in 1 .. Len(stack) - k : stack'[i] = stack[i + k]
    BY <2>1, <2>3, CutStacks
  <2>5. signal' = "timeout" BY <1>3 DEF Timeout
  <2>6. Dropping(k) BY <2>4, <2>5 DEF Dropping
  <2> QED BY <2>3, <2>6 DEF Edge, DropEdge
<1>4. CASE Cancel BY <1>4 DEF Cancel, Edge, KeepEdge
<1>5. CASE UNCHANGED vars BY <1>5 DEF vars, Edge, KeepEdge
<1> QED BY <1>1, <1>2, <1>3, <1>4, <1>5, ScopingEdge, TaskingEdge, WaitingEdge DEF Next, Polled

-----------------------------------------------------------------------------
(* What starts late.                                                       *)

\* The number of a truth.
One(b) == IF b THEN 1 ELSE 0

\* A task is on its way to its body, at the top of the stack ...
Ahead == stack # <<>> /\ signal = "run" /\ Top.at \in {"task", "before"}

\* ... or below an extension's scope.
Held == \E k \in 1 .. Len(stack) : stack[k].at = "before" /\ Extending(k)

\* What has started late, and what may still: behind an `end` one task; behind a
\* cancellation one that is on its way, and the one of the extension only if the
\* extension's scope left with an `end` (an exit leaves its body out).
LateInv ==
    /\ ~ ended /\ ~ cancelled => late = 0
    /\ ended /\ ~ cancelled => late + One(Ahead) + One(Held) <= 1
    /\ ~ ended /\ cancelled =>
         /\ late + One(Ahead) <= 1
         /\ Returned("before") /\ signal = "ok" /\ late # 0 => exited
    /\ ended /\ cancelled => late + One(Ahead) + One(Held) <= 2

\* Only a scope is called by an extension.
CallerInv ==
    \A k \in 1 .. Len(stack) - 1 : stack[k + 1].at \in {"before", "after"} => stack[k].at = "scope"

\* The flags that count, and the count.
Dispatching == /\ Ahead /\ ~ Ahead' /\ (Held' => Held) /\ signal' = "run" /\ late' = late + 1
               /\ ended \/ cancelled
               /\ ended' = ended /\ cancelled' = cancelled
Ending      == ended' = TRUE /\ signal' # "run" /\ late' = late /\ cancelled' = cancelled
Cancelling  == ~ cancelled /\ cancelled' = TRUE /\ late' = late /\ ended' = ended
               /\ UNCHANGED <<stack, signal, exited>>
Counting    == late' = late /\ ended' = ended /\ cancelled' = cancelled
CountEdge   == Dispatching \/ Ending \/ Cancelling \/ Counting

\* The innermost call, once more.
LEMMA Innermost ==
    ASSUME StackInv
    PROVE  /\ Len(stack) \in Nat
           /\ stack # <<>> <=> Len(stack) > 0
           /\ stack # <<>> => Top = stack[1]
<1>1. stack \in Seq(Frame) BY DEF StackInv
<1> QED BY <1>1 DEF Top

\* Every step counts in one of these ways.
LEMMA StepCounts ==
    ASSUME Inv, FlagsType, [Next]_vars
    PROVE  CountEdge
<1> USE DEF CountEdge
<1>1. CASE Dispatch
  <2>1. /\ stack # <<>> /\ signal = "run" /\ Top.at = "before"
        /\ ended' = ended /\ cancelled' = cancelled
    BY <1>1 DEF Dispatch, Runs, flags
  <2>2. late' = late \/ (late' = late + 1 /\ (ended \/ cancelled)) BY <1>1 DEF Dispatch
  <2>3. StackInv /\ Top \in Call BY <2>1, TopType DEF Inv
  <2> DEFINE t == Top.of
             f == [Top EXCEPT !.at = "body", !.n = 0]
  <2>4. f.at = "body" BY <2>3, MovedFields
  <2>5. \/ Invoke(f, Calling("scope", Body[t], 1)) \/ Invoke(f, Calling("for", t, 0))
        \/ Invoke(f, Calling("try", t, 0)) \/ Become(f)
    BY <1>1 DEF Dispatch
  <2> HIDE DEF f
  <2>6. signal' = "run" BY <2>5 DEF Invoke, Become
  <2>7. Len(stack') > 0 /\ stack'[1].at \notin {"task", "before"}
    BY <2>1, <2>3, <2>4, <2>5, Heads, CallingFields DEF Invoke, Become
  <2>8. Inv' BY StepHasShape, ShapeInv DEF Inv
  <2>9. stack' # <<>> => Top' = stack'[1]
    <3>1. stack' \in Seq(Frame) BY <2>8 DEF Inv, StackInv
    <3>2. stack' # <<>> => Head(stack') = stack'[1] BY <3>1
    <3> QED BY <3>2 DEF Top
  <2>10. ~ Ahead' BY <2>7, <2>9 DEF Ahead
  <2>11. Ahead BY <2>1 DEF Ahead
  <2>12. Held' => Held
    <3>1. Len(stack) \in Nat BY <2>3, Innermost
    <3>2. CASE Become(f)
      <4>1. /\ Len(stack') = Len(stack) /\ stack'[1].at = "body"
            /\ \A i \in 2 .. Len(stack) : stack'[i] = stack[i]
        BY <2>1, <2>3, <2>4, <3>2, Heads DEF Become
      <4>2. ASSUME NEW k \in 1 .. Len(stack'), stack'[k].at = "before" PROVE Held
        <5>1. k \in 2 .. Len(stack) /\ k \in 1 .. Len(stack) /\ k > 1 BY <3>1, <4>1, <4>2
        <5>2. stack[k].at = "before" BY <4>1, <4>2, <5>1
        <5> QED BY <5>1, <5>2 DEF Held, Extending
      <4> QED BY <4>2 DEF Held
    <3>3. CASE \E g : Invoke(f, g) /\ g.at # "before"
      <4>1. PICK g : Invoke(f, g) /\ g.at # "before" BY <3>3
      <4>2. /\ Len(stack') = Len(stack) + 1 /\ stack'[1].at # "before" /\ stack'[2].at = "body"
            /\ \A i \in 3 .. Len(stack) + 1 : stack'[i] = stack[i - 1]
        BY <2>1, <2>3, <2>4, <4>1, Heads DEF Invoke
      <4>3. ASSUME NEW k \in 1 .. Len(stack'), stack'[k].at = "before" PROVE Held
        <5>1. k \in 3 .. Len(stack) + 1 /\ k - 1 \in 1 .. Len(stack) /\ k - 1 > 1
          BY <3>1, <4>2, <4>3
        <5>2. stack[k - 1].at = "before" BY <4>2, <4>3, <5>1
        <5> QED BY <5>1, <5>2 DEF Held, Extending
      <4> QED BY <4>3 DEF Held
    <3> QED BY <2>5, <3>2, <3>3, CallingFields
  <2> QED BY <2>1, <2>2, <2>6, <2>10, <2>11, <2>12 DEF Dispatching, Counting
<1>2. CASE End BY <1>2 DEF End, Return, Ending, history
<1>3. CASE Cancel BY <1>3 DEF Cancel, Cancelling, history
<1>4. CASE ~ Dispatch /\ ~ End /\ ~ Cancel
  <2>1. ended' = ended /\ cancelled' = cancelled /\ late' = late
    <3> USE DEF flags, history
    <3>1. CASE Scoping BY <1>4, <3>1 DEF Scoping, ObserveCancel, LeaveScope, StartTask, Continue, Goto, Exit
    <3>2. CASE Tasking
      BY <1>4, <3>2 DEF Tasking, Skip, Refuse, Select, EnterExtension, PassExtension, LeaveExtension,
                        BodyDone, FinishTask
    <3>3. CASE Looping BY <3>3 DEF Looping, Iterate, FailLoop, LeaveLoop, NextItem
    <3>4. CASE Trying BY <3>4 DEF Trying, Attempt, Succeed, Uncaught, Retry, Handle, Handled
    <3>5. CASE Raising BY <3>5 DEF Raising, Propagate
    <3>6. CASE FinishBody BY <3>6 DEF FinishBody
    <3>7. CASE Wait BY <3>7 DEF Wait
    <3>8. CASE Timeout BY <3>8 DEF Timeout
    <3>9. CASE UNCHANGED vars BY <3>9 DEF vars
    <3> QED BY <1>4, <3>1, <3>2, <3>3, <3>4, <3>5, <3>6, <3>7, <3>8, <3>9 DEF Next, Polled
  <2> QED BY <2>1 DEF Counting
<1> QED BY <1>1, <1>2, <1>3, <1>4

\* Only a scope is called by an extension, and stays one.
LEMMA CallerInductive ==
    ASSUME StackInv, CallerInv, Edge
    PROVE  CallerInv'
<1>1. Len(stack) \in Nat BY Innermost
<1> SUFFICES ASSUME NEW k \in 1 .. Len(stack') - 1, stack'[k + 1].at \in {"before", "after"}
             PROVE  stack'[k].at = "scope"
  BY DEF CallerInv
<1>2. CASE DropEdge
  <2>1. PICK n \in 1 .. Len(stack) : Dropping(n) BY <1>2 DEF DropEdge
  <2>2. k + n \in 1 .. Len(stack) - 1 /\ (k + n) + 1 = (k + 1) + n
        /\ k \in 1 .. Len(stack) - n /\ k + 1 \in 1 .. Len(stack) - n
    BY <1>1, <2>1 DEF Dropping
  <2>3. stack'[k] = stack[k + n] /\ stack'[k + 1] = stack[(k + n) + 1] BY <2>1, <2>2 DEF Dropping
  <2> QED BY <2>2, <2>3 DEF CallerInv
<1>3. CASE StepEdge
  <2>1. k \in 1 .. Len(stack) - 1 /\ k + 1 \in 2 .. Len(stack) BY <1>1, <1>3 DEF StepEdge
  <2>2. stack'[k + 1] = stack[k + 1] BY <1>3, <2>1 DEF StepEdge
  <2>3. stack[k].at = "scope" BY <2>1, <2>2 DEF CallerInv
  <2>4. k = 1 \/ k \in 2 .. Len(stack) BY <2>1
  <2> QED BY <1>3, <2>3, <2>4 DEF StepEdge
<1>4. CASE CallEdge
  <2>1. CASE k = 1
    BY <1>4, <2>1 DEF CallEdge, ExtensionEdge, TaskEdge, BodyEdge, LoopEdge, HandlerEdge
  <2>2. CASE k = 2
    <3>1. 1 \in 1 .. Len(stack) - 1 /\ 3 \in 3 .. Len(stack) + 1 BY <1>1, <1>4, <2>2 DEF CallEdge
    <3>2. stack'[3] = stack[2] BY <1>4, <3>1 DEF CallEdge
    <3>3. stack[1].at = "scope" BY <2>2, <3>1, <3>2 DEF CallerInv
    <3> QED BY <1>4, <2>2, <3>3 DEF CallEdge, ExtensionEdge, TaskEdge, BodyEdge, LoopEdge, HandlerEdge
  <2>3. CASE k > 2
    <3>1. k \in 3 .. Len(stack) + 1 /\ k + 1 \in 3 .. Len(stack) + 1
          /\ k - 1 \in 1 .. Len(stack) - 1 /\ (k - 1) + 1 = (k + 1) - 1
      BY <1>1, <1>4, <2>3 DEF CallEdge
    <3>2. stack'[k] = stack[k - 1] /\ stack'[k + 1] = stack[(k - 1) + 1] BY <1>4, <3>1 DEF CallEdge
    <3> QED BY <3>1, <3>2 DEF CallerInv
  <2> QED BY <1>1, <2>1, <2>2, <2>3
<1>5. CASE KeepEdge BY <1>5 DEF KeepEdge, CallerInv
<1> QED BY <1>2, <1>3, <1>4, <1>5 DEF Edge

\* The four ways on, around a body that may start late.
Quiet   == ~ Ahead' /\ (Held' => Held)
Onward  == Ahead' /\ Ahead /\ (Held' => Held)
Entered == Ahead /\ ~ Ahead'
Left    == /\ Ahead' /\ Held /\ ~ Held'
           /\ Returned("before") /\ signal = "ok" /\ ~ exited
Started == ~ ended /\ ~ cancelled

LEMMA StepMoves ==
    ASSUME Inv, Inv', Edge
    PROVE  Quiet \/ Onward \/ Entered \/ Left \/ Started
<1> USE DEF Inv
<1>1. Len(stack) \in Nat /\ (stack # <<>> <=> Len(stack) > 0) /\ (stack # <<>> => Top = stack[1])
  BY Innermost
<1>2. Len(stack') \in Nat /\ (stack' # <<>> <=> Len(stack') > 0) /\ (stack' # <<>> => Top' = stack'[1])
  <2>1. stack' \in Seq(Frame) BY DEF StackInv
  <2> QED BY <2>1 DEF Top
<1>3. CASE DropEdge
  <2>1. PICK n \in 1 .. Len(stack) : Dropping(n) BY <1>3 DEF DropEdge
  <2>2. ~ Ahead' BY <2>1 DEF Dropping, Ahead
  <2>3. Held' => Held
    <3>1. ASSUME NEW k \in 1 .. Len(stack'), stack'[k].at = "before" PROVE Held
      <4>1. k \in 1 .. Len(stack) - n /\ k + n \in 1 .. Len(stack) /\ k + n > 1
        BY <1>1, <2>1 DEF Dropping
      <4>2. stack[k + n].at = "before" BY <2>1, <3>1, <4>1 DEF Dropping
      <4> QED BY <4>1, <4>2 DEF Held, Extending
    <3> QED BY <3>1 DEF Held
  <2> QED BY <2>2, <2>3 DEF Quiet
<1>4. CASE StepEdge
  <2>1. Held' => \E k \in 2 .. Len(stack) : stack[k].at = "before" /\ Extending(k)
    <3>1. ASSUME NEW k \in 1 .. Len(stack'), stack'[k].at = "before", Extending(k)'
          PROVE \E i \in 2 .. Len(stack) : stack[i].at = "before" /\ Extending(i)
      <4>1. k \in 2 .. Len(stack) BY <1>1, <1>4, <3>1 DEF StepEdge, Extending
      <4>2. stack[k].at = "before" /\ k > 1 BY <1>1, <1>4, <3>1, <4>1 DEF StepEdge
      <4> QED BY <4>1, <4>2 DEF Extending
    <3> QED BY <3>1 DEF Held
  <2>2. Held' => Held BY <1>1, <2>1 DEF Held
  <2>3. CASE ~ Ahead' BY <2>2, <2>3 DEF Quiet
  <2>4. CASE Ahead'
    <3>1. stack'[1].at = "before" BY <1>2, <1>4, <2>4 DEF Ahead, StepEdge
    <3>2. CASE Runs("task") \/ Runs("before") BY <2>2, <2>4, <3>2 DEF Onward, Ahead, Runs
    <3>3. CASE Returned("before") /\ signal = "ok" /\ ~ exited
      <4>1. Leaves BY <3>3 DEF Leaves
      <4>2. ~ Held' BY <2>1, <4>1, LeavesAlone
      <4>3. Held
        <5>1. stack[1].at = "before" /\ 1 \in 1 .. Len(stack) /\ signal # "run"
          BY <1>1, <3>3 DEF Returned
        <5> QED BY <5>1 DEF Held, Extending
      <4> QED BY <2>4, <3>3, <4>2, <4>3 DEF Left
    <3> QED BY <1>4, <3>1, <3>2, <3>3 DEF StepEdge
  <2> QED BY <2>3, <2>4
<1>5. CASE CallEdge
  <2>1. CASE TaskEdge(stack[1], stack'[1], stack'[2]) BY <2>1 DEF TaskEdge, Started
  <2>2. CASE ExtensionEdge(stack[1], stack'[1], stack'[2]) /\ stack[1].at = "before"
    <3>1. Ahead BY <1>1, <1>5, <2>2 DEF CallEdge, ExtensionEdge, Ahead
    <3>2. ~ Ahead' BY <1>2, <1>5, <2>2 DEF CallEdge, ExtensionEdge, Ahead
    <3> QED BY <3>1, <3>2 DEF Entered
  <2>3. CASE /\ ~ TaskEdge(stack[1], stack'[1], stack'[2])
             /\ ~ (ExtensionEdge(stack[1], stack'[1], stack'[2]) /\ stack[1].at = "before")
    <3>1. stack'[1].at \notin {"task", "before"} /\ stack'[2].at # "before"
      BY <1>5, <2>3 DEF CallEdge, ExtensionEdge, BodyEdge, LoopEdge, HandlerEdge
    <3>2. ~ Ahead' BY <1>2, <3>1 DEF Ahead
    <3>3. ASSUME NEW k \in 1 .. Len(stack'), stack'[k].at = "before" PROVE Held
      <4>1. k # 1 /\ k # 2 BY <3>1, <3>3
      <4>2. k \in 3 .. Len(stack) + 1 /\ k - 1 \in 1 .. Len(stack) /\ k - 1 > 1
        BY <1>1, <1>5, <4>1 DEF CallEdge
      <4>3. stack[k - 1].at = "before" BY <1>5, <3>3, <4>2 DEF CallEdge
      <4> QED BY <4>2, <4>3 DEF Held, Extending
    <3> QED BY <3>2, <3>3 DEF Quiet, Held
  <2> QED BY <2>1, <2>2, <2>3
<1>6. CASE KeepEdge
  <2>1. UNCHANGED <<stack, signal>> BY <1>6 DEF KeepEdge
  <2>2. (Ahead' <=> Ahead) /\ (Held' <=> Held)
    BY <2>1 DEF Ahead, Held, Extending, Top
  <2> QED BY <2>2 DEF Quiet, Onward
<1> QED BY <1>3, <1>4, <1>5, <1>6 DEF Edge

\* The arithmetic of LateInv: a is Ahead, h is Held.
LEMMA LateSteps ==
    ASSUME NEW a \in BOOLEAN, NEW b \in BOOLEAN, NEW h \in BOOLEAN, NEW i \in BOOLEAN,
           NEW n \in Nat, NEW m, NEW top \in Nat,
           n + One(a) + One(h) <= top
    PROVE  /\ ~ b /\ (i => h) /\ m = n => m + One(b) + One(i) <= top
           /\ b /\ a /\ (i => h) /\ m = n => m + One(b) + One(i) <= top
           /\ a /\ ~ b /\ m = n => m + One(b) + One(i) <= top
           /\ b /\ h /\ ~ i /\ m = n => m + One(b) + One(i) <= top
           /\ a /\ ~ b /\ (i => h) /\ m = n + 1 => m + One(b) + One(i) <= top
BY DEF One

\* Of two, at most two.
LEMMA TwoTruths ==
    ASSUME NEW a \in BOOLEAN, NEW h \in BOOLEAN
    PROVE  One(a) + One(h) <= 2 /\ One(a) \in {0, 1} /\ One(h) \in {0, 1}
           /\ (a => One(a) = 1) /\ (~ a => One(a) = 0)
BY DEF One

\* "ok" comes back to an extension without an exit only from a scope that saw no
\* cancellation, or an end.
LEMMA BackToExtension ==
    ASSUME StackInv, CallerInv, DropEdge, StackInv', Returned("before")', signal' = "ok"
    PROVE  ~ cancelled \/ exited' \/ ended'
<1>1. PICK n \in 1 .. Len(stack) : Dropping(n) BY DEF DropEdge
<1>2. n = 1 BY <1>1 DEF Dropping
<1>3. Len(stack) \in Nat BY Innermost
<1>4. stack' # <<>> /\ Top'.at = "before" BY DEF Returned
<1>5. stack' \in Seq(Frame) BY DEF StackInv
<1>6. Len(stack') > 0 /\ Top' = stack'[1] BY <1>4, <1>5 DEF Top
<1>7. 1 \in 1 .. Len(stack) - 1 /\ stack'[1] = stack[1 + 1] BY <1>1, <1>2, <1>3, <1>6 DEF Dropping
<1>8. stack[1 + 1].at = "before" BY <1>4, <1>6, <1>7
<1>9. stack[1].at = "scope" BY <1>7, <1>8 DEF CallerInv
<1> QED BY <1>1, <1>9 DEF Dropping

LEMMA LateInductive ==
    ASSUME Inv, Inv', FlagsType, FlagsType', CallerInv, LateInv, Edge, CountEdge
    PROVE  LateInv'
<1>1. Ahead \in BOOLEAN /\ Ahead' \in BOOLEAN /\ Held \in BOOLEAN /\ Held' \in BOOLEAN
  BY DEF Ahead, Held
<1>2. late \in Nat /\ late' \in Nat BY DEF FlagsType, MaxLate
<1>3. ended \in BOOLEAN /\ cancelled \in BOOLEAN /\ ended' \in BOOLEAN /\ cancelled' \in BOOLEAN
  BY DEF FlagsType
<1>10. /\ One(Ahead) \in {0, 1} /\ One(Ahead') \in {0, 1}
       /\ (Ahead => One(Ahead) = 1) /\ (~ Ahead => One(Ahead) = 0) /\ (~ Ahead' => One(Ahead') = 0)
  BY <1>1, TwoTruths
<1>4. Quiet \/ Onward \/ Entered \/ Left \/ Started BY StepMoves
<1> DEFINE sum  == late + One(Ahead) + One(Held)
           sum1 == late' + One(Ahead') + One(Held')
<1>5. ASSUME Counting, ~ Started, NEW top \in Nat, sum <= top PROVE sum1 <= top
  <2>1. late' = late BY <1>5 DEF Counting
  <2>2. CASE Quiet BY <1>1, <1>2, <1>5, <2>1, <2>2, LateSteps DEF Quiet
  <2>3. CASE Onward BY <1>1, <1>2, <1>5, <2>1, <2>3, LateSteps DEF Onward
  <2>4. CASE Entered BY <1>1, <1>2, <1>5, <2>1, <2>4, LateSteps DEF Entered
  <2>5. CASE Left BY <1>1, <1>2, <1>5, <2>1, <2>5, LateSteps DEF Left
  <2> QED BY <1>4, <1>5, <2>2, <2>3, <2>4, <2>5
<1>6. CASE Counting
  <2>1. CASE ~ ended /\ ~ cancelled BY <1>6, <2>1 DEF LateInv, Counting
  <2>2. CASE ended /\ ~ cancelled BY <1>5, <1>6, <2>2 DEF LateInv, Counting, Started
  <2>3. CASE ended /\ cancelled BY <1>5, <1>6, <2>3 DEF LateInv, Counting, Started
  <2>4. CASE ~ ended /\ cancelled
    <3>1. /\ late + One(Ahead) <= 1
          /\ Returned("before") /\ signal = "ok" /\ late # 0 => exited
      BY <2>4 DEF LateInv
    <3>2. late' = late /\ ended' = ended /\ cancelled' = cancelled BY <1>6 DEF Counting
    <3>3. late' + One(Ahead') <= 1
      <4>1. CASE Quiet BY <1>2, <1>10, <3>1, <3>2, <4>1 DEF Quiet
      <4>2. CASE Onward
        <5> DEFINE a == One(Ahead)
                   b == One(Ahead')
        <5>1. a = 1 /\ b \in {0, 1} /\ late + a <= 1 /\ late' = late
          BY <1>10, <3>1, <3>2, <4>2 DEF Onward
        <5> HIDE DEF a, b
        <5>2. late' + b <= 1 BY <1>2, <5>1
        <5> QED BY <5>2 DEF b
      <4>3. CASE Entered
        <5> DEFINE a == One(Ahead)
                   b == One(Ahead')
        <5>1. a = 1 /\ b = 0 /\ late + a <= 1 /\ late' = late
          BY <1>10, <3>1, <3>2, <4>3 DEF Entered
        <5> HIDE DEF a, b
        <5>2. late' + b <= 1 BY <1>2, <5>1
        <5> QED BY <5>2 DEF b
      <4>4. CASE Left
        <5>1. late = 0 BY <3>1, <4>4 DEF Left
        <5> QED BY <1>10, <3>2, <5>1
      <4> QED BY <1>4, <2>4, <4>1, <4>2, <4>3, <4>4 DEF Started
    <3>4. Returned("before")' /\ signal' = "ok" /\ late' # 0 => exited'
      <4>1. CASE KeepEdge
        <5>1. Returned("before")' => Returned("before") BY <4>1 DEF KeepEdge, Returned, Top
        <5> QED BY <3>1, <3>2, <4>1, <5>1 DEF KeepEdge
      <4>2. CASE DropEdge BY <2>4, <3>2, <4>2, BackToExtension DEF Inv
      <4>3. CASE StepEdge BY <4>3 DEF StepEdge
      <4>4. CASE CallEdge BY <4>4 DEF CallEdge
      <4> QED BY <4>1, <4>2, <4>3, <4>4 DEF Edge
    <3> QED BY <2>4, <3>2, <3>3, <3>4 DEF LateInv
  <2> QED BY <1>3, <2>1, <2>2, <2>3, <2>4
<1>7. CASE Dispatching
  <2>1. Ahead /\ ~ Ahead' /\ late' = late + 1 /\ signal' = "run" /\ ended' = ended /\ cancelled' = cancelled
    BY <1>7 DEF Dispatching
  <2>2. ended \/ cancelled BY <1>7 DEF Dispatching
  <2>3. Held' => Held BY <1>7 DEF Dispatching
  <2>4. ASSUME NEW top \in Nat, sum <= top PROVE sum1 <= top
    BY <1>1, <1>2, <2>1, <2>3, <2>4, LateSteps
  <2>5. CASE ended BY <1>3, <2>1, <2>4, <2>5 DEF LateInv
  <2>6. CASE ~ ended
    <3>0. late + One(Ahead) <= 1 BY <2>2, <2>6 DEF LateInv
    <3>1. late' + One(Ahead') <= 1
      <4> DEFINE a == One(Ahead)
                 b == One(Ahead')
      <4>1. a = 1 /\ b = 0 /\ late + a <= 1 /\ late' = late + 1 BY <1>10, <2>1, <3>0
      <4> HIDE DEF a, b
      <4>2. late' + b <= 1 BY <1>2, <4>1
      <4> QED BY <4>2 DEF b
    <3> QED BY <2>1, <2>2, <2>6, <3>1 DEF LateInv
  <2> QED BY <1>3, <2>5, <2>6
<1>8. CASE Ending
  <2>1. ended' = TRUE /\ ~ Ahead' /\ late' = late /\ cancelled' = cancelled
    BY <1>8 DEF Ending, Ahead
  <2>2. One(Ahead') = 0 /\ One(Held') \in {0, 1} BY <1>1, <2>1, TwoTruths
  <2>3. CASE ~ ended /\ ~ cancelled BY <2>1, <2>2, <2>3 DEF LateInv
  <2>4. CASE ~ ended /\ cancelled
    <3>1. late <= 1 BY <1>1, <1>2, <2>4, TwoTruths DEF LateInv
    <3> QED BY <1>2, <2>1, <2>2, <2>4, <3>1 DEF LateInv
  <2>5. CASE ended
    <3>1. Counting BY <2>1, <2>5 DEF Counting
    <3> QED BY <1>6, <3>1
  <2> QED BY <1>3, <2>3, <2>4, <2>5
<1>9. CASE Cancelling
  <2>1. ~ cancelled /\ cancelled' = TRUE /\ late' = late /\ ended' = ended
        /\ UNCHANGED <<stack, signal, exited>>
    BY <1>9 DEF Cancelling
  <2>2. (Ahead' <=> Ahead) /\ (Held' <=> Held) BY <2>1 DEF Ahead, Held, Extending, Top
  <2>3. sum1 = sum BY <2>1, <2>2 DEF One
  <2>4. CASE ended
    <3>1. sum <= 1 BY <2>1, <2>4 DEF LateInv
    <3>2. sum1 <= 2 BY <1>1, <1>2, <2>3, <3>1, TwoTruths
    <3> QED BY <2>1, <2>4, <3>2 DEF LateInv
  <2>5. CASE ~ ended
    <3>1. late' = 0 BY <2>1, <2>5 DEF LateInv
    <3> QED BY <1>1, <2>1, <2>5, <3>1, TwoTruths DEF LateInv
  <2> QED BY <1>3, <2>4, <2>5
<1> QED BY <1>6, <1>7, <1>8, <1>9 DEF CountEdge

\* The start.
LEMMA InitLate == Init => FlagsType /\ CallerInv /\ LateInv
<1> SUFFICES ASSUME Init PROVE FlagsType /\ CallerInv /\ LateInv
  OBVIOUS
<1>1. FlagsType
  <2>1. 0 \in 0 .. MaxLate BY DEF MaxLate
  <2> QED BY <2>1, Zenon DEF Init, FlagsType
<1>2. Len(stack) = 1 BY DEF Init
<1>3. CallerInv BY <1>2 DEF CallerInv
<1>4. LateInv BY DEF Init, LateInv
<1> QED BY <1>1, <1>3, <1>4

\* The counts hold throughout.
LEMMA Counted == Spec => [](FlagsType /\ CallerInv /\ LateInv)
<1>1. Inv /\ [Next]_vars => Inv' BY StepHasShape, ShapeInv DEF Inv
<1>2. Inv /\ Inv' /\ FlagsType /\ CallerInv /\ LateInv /\ [Next]_vars => (FlagsType /\ CallerInv /\ LateInv)'
  <2> SUFFICES ASSUME Inv, Inv', FlagsType, CallerInv, LateInv, [Next]_vars
               PROVE  (FlagsType /\ CallerInv /\ LateInv)'
    OBVIOUS
  <2>1. FlagsType' BY FlagsInductive
  <2>2. StackInv BY DEF Inv
  <2>3. Edge BY <2>2, StepHasEdge
  <2>4. CallerInv' BY <2>2, <2>3, CallerInductive
  <2>5. CountEdge BY StepCounts
  <2>6. LateInv' BY <2>1, <2>3, <2>5, LateInductive
  <2> QED BY <2>1, <2>4, <2>6
<1> QED BY <1>1, <1>2, InitLate, Invariance, PTL DEF Spec

\* Behind an `end` at most one task body starts, and behind a cancellation too,
\* for every workflow: whatever the extensions, the retries and the timeouts do
\* (exec_scope, run_extension_scope).
THEOREM LateLimited == Spec => []FewLate
<1>1. FlagsType /\ LateInv => FewLate
  <2> SUFFICES ASSUME FlagsType, LateInv PROVE FewLate
    OBVIOUS
  <2>1. Ahead \in BOOLEAN /\ Held \in BOOLEAN BY DEF Ahead, Held
  <2>2. late \in Nat /\ ended \in BOOLEAN /\ cancelled \in BOOLEAN BY DEF FlagsType, MaxLate
  <2>3. One(Ahead) \in {0, 1} /\ One(Held) \in {0, 1} BY <2>1, TwoTruths
  <2> HIDE DEF Ahead, Held
  <2>4. CASE ended /\ cancelled BY <2>2, <2>3, <2>4 DEF LateInv, FewLate
  <2>5. CASE ~ (ended /\ cancelled) BY <2>2, <2>3, <2>5 DEF LateInv, FewLate
  <2> QED BY <2>4, <2>5
<1> QED BY <1>1, Counted, PTL

-----------------------------------------------------------------------------
(* Exits.                                                                  *)

\* An exit of which a scope knows happened since an extension's scope started.
ExitInv == exited => leaving

LEMMA ExitInductive ==
    ASSUME ExitInv, [Next]_vars
    PROVE  ExitInv'
<1> USE DEF flags, history, ExitInv
<1>1. CASE Scoping BY <1>1 DEF Scoping, ObserveCancel, LeaveScope, StartTask, Continue, Goto, Exit, End
<1>2. CASE Tasking
  BY <1>2 DEF Tasking, Skip, Refuse, Select, EnterExtension, PassExtension, LeaveExtension,
              Dispatch, BodyDone, FinishTask
<1>3. CASE Looping BY <1>3 DEF Looping, Iterate, FailLoop, LeaveLoop, NextItem
<1>4. CASE Trying BY <1>4 DEF Trying, Attempt, Succeed, Uncaught, Retry, Handle, Handled
<1>5. CASE Raising BY <1>5 DEF Raising, Propagate
<1>6. CASE FinishBody BY <1>6 DEF FinishBody
<1>7. CASE Wait BY <1>7 DEF Wait
<1>8. CASE Timeout BY <1>8 DEF Timeout
<1>9. CASE Cancel BY <1>9 DEF Cancel
<1>10. CASE UNCHANGED vars BY <1>10 DEF vars
<1> QED BY <1>1, <1>2, <1>3, <1>4, <1>5, <1>6, <1>7, <1>8, <1>9, <1>10 DEF Next, Polled

\* The exit behind which a task leaves its body out.
OwnExit ==
    (Returned("before") /\ stack' # <<>> /\ stack'[1].at = "after" /\ Len(stack') = Len(stack)) => leaving

LEMMA StepExits ==
    ASSUME StackInv, ExitInv, [Next]_vars
    PROVE  OwnExit
<1> SUFFICES ASSUME Returned("before"), stack'[1].at = "after", Len(stack') = Len(stack)
             PROVE  leaving
  BY DEF OwnExit
<1>1. /\ stack # <<>> /\ Top.at = "before" /\ signal # "run"
      /\ Top \in Call /\ Top = stack[1] /\ Len(stack) \in Nat
  BY TopType, Innermost DEF Returned
<1>2. CASE LeaveExtension
  <2>1. CASE Return(signal) BY <1>1, <2>1, Heads DEF Return
  <2>2. CASE exited BY <2>2 DEF ExitInv
  <2>3. CASE Become([Top EXCEPT !.n = Top.n + 1])
    <3> DEFINE f == [Top EXCEPT !.n = Top.n + 1]
    <3>1. f.at = "before" /\ Become(f) BY <1>1, <2>3, MovedFields
    <3> HIDE DEF f
    <3> QED BY <1>1, <3>1, Heads DEF Become
  <2> QED BY <1>2, <2>1, <2>2, <2>3 DEF LeaveExtension
<1>3. CASE stack' = stack BY <1>1, <1>3
<1>4. ~ Scoping
  BY <1>1 DEF Scoping, ObserveCancel, LeaveScope, StartTask, Continue, Goto, Exit, End, Runs, Returned
<1>5. Tasking => LeaveExtension
  BY <1>1 DEF Tasking, Skip, Refuse, Select, EnterExtension, PassExtension,
              Dispatch, BodyDone, FinishTask, Runs, Returned
<1>6. ~ Looping /\ ~ Trying
  BY <1>1 DEF Looping, Iterate, FailLoop, LeaveLoop, NextItem, Trying, Attempt, Succeed, Uncaught,
              Catches, Retry, Handle, Handled, Runs, Returned
<1>7. ~ Raising /\ ~ FinishBody /\ ~ Wait /\ ~ Timeout
  BY <1>1 DEF Raising, Propagate, FinishBody, Wait, Timeout, Runs, Returned
<1>8. Cancel \/ UNCHANGED vars => stack' = stack BY DEF Cancel, vars
<1> QED BY <1>2, <1>3, <1>4, <1>5, <1>6, <1>7, <1>8 DEF Next, Polled

\* A task's body is left out only for an exit of its own extension's scope
\* (exec_task), for every workflow.
THEOREM ExitsOwn == Spec => ExitIsOwn
<1>1. Init => ExitInv BY DEF Init, ExitInv
<1>2. ExitInv /\ [Next]_vars => ExitInv' BY ExitInductive
<1>3. Inv /\ ExitInv /\ [Next]_vars => [OwnExit]_vars BY StepExits DEF Inv
<1>4. [][OwnExit]_vars => ExitIsOwn BY PTL DEF ExitIsOwn, OwnExit
<1> QED BY <1>1, <1>2, <1>3, <1>4, Invariance, PTL DEF Spec

-----------------------------------------------------------------------------
(* The nesting of the calls, and the variables of the loops.               *)

\* Calls aside are inside an extension's scope, and of two calls in the same
\* part of the definition the inner one is of something nested deeper, or of the
\* loop or try that its exec_task runs.
NestInv(depth, aside) ==
    /\ \A j \in 1 .. Len(stack) : stack[j].of \in aside =>
          \E k \in j + 1 .. Len(stack) : stack[k].at \in {"before", "after"}
    /\ \A j, k \in 1 .. Len(stack) : j < k /\ (stack[j].of \in aside <=> stack[k].of \in aside) =>
          \/ depth[stack[k].of] < depth[stack[j].of]
          \/ /\ k = j + 1 /\ stack[k].at = "body" /\ stack[j].of = stack[k].of
             /\ stack[j].at \in Waits

\* The part of NestInv about one call, and about two.
Covered(aside, j) ==
    stack[j].of \in aside => \E k \in j + 1 .. Len(stack) : stack[k].at \in {"before", "after"}
Deeper(depth, aside, j, k) ==
    (stack[j].of \in aside <=> stack[k].of \in aside) =>
      \/ depth[stack[k].of] < depth[stack[j].of]
      \/ /\ k = j + 1 /\ stack[k].at = "body" /\ stack[j].of = stack[k].of
         /\ stack[j].at \in Waits

\* The depths are numbers.
LEMMA DepthType ==
    ASSUME StackInv, NEW depth, NEW aside, Nested(depth, aside), NEW k \in 1 .. Len(stack)
    PROVE  stack[k].of \in Scope \cup Task /\ depth[stack[k].of] \in Nat
<1>1. stack[k] \in Frame BY DEF StackInv
<1>2. stack[k].of \in Scope \cup Task BY <1>1, FieldTypes DEF Frame
<1> QED BY <1>2 DEF Nested

\* What a call calls is of the call's own loop or try, or nested below it.
LEMMA CallsUnder ==
    ASSUME StackInv, NEW depth, NEW aside, Nested(depth, aside), CallEdge,
           ~ ExtensionEdge(stack[1], stack'[1], stack'[2])
    PROVE  \/ Under(depth, aside, stack[1].of, stack'[1].of)
           \/ LoopEdge(stack[1], stack'[1], stack'[2])
<1>1. CASE TaskEdge(stack[1], stack'[1], stack'[2]) BY <1>1 DEF TaskEdge, Nested
<1>2. CASE BodyEdge(stack[1], stack'[1], stack'[2]) BY <1>2 DEF BodyEdge, Nested
<1>3. CASE HandlerEdge(stack[1], stack'[1], stack'[2]) BY <1>3 DEF HandlerEdge, Nested
<1> QED BY <1>1, <1>2, <1>3 DEF CallEdge

\* Where an extension's scope is entered, no call is aside.
LEMMA NoneAside ==
    ASSUME Inv, Inv', NEW depth, NEW aside, NestInv(depth, aside), CallEdge,
           ExtensionEdge(stack[1], stack'[1], stack'[2])
    PROVE  \A j \in 1 .. Len(stack) : stack[j].of \notin aside
<1>1. Len(stack) \in Nat \ {0} BY Innermost DEF Inv, CallEdge
<1>2. Len(stack') = Len(stack) + 1 /\ stack'[2].at \in {"before", "after"} BY DEF CallEdge, ExtensionEdge
<1>3. ASSUME NEW k \in 2 .. Len(stack), stack[k].at \in {"before", "after"} PROVE FALSE
  <2>1. k + 1 \in 3 .. Len(stack) + 1 /\ (k + 1) - 1 = k /\ k + 1 \in 1 .. Len(stack') /\ 2 \in 1 .. Len(stack')
        /\ 2 < k + 1
    BY <1>1, <1>2
  <2>2. stack'[k + 1] = stack[k] BY <2>1 DEF CallEdge
  <2>3. Extending(k + 1)' BY <1>3, <2>1, <2>2 DEF Extending
  <2>4. stack'[2].exts # {} BY <1>2, <2>1 DEF Inv, StackInv, Waiting
  <2> QED BY <2>1, <2>3, <2>4 DEF Inv, ExtInv
<1>4. ASSUME NEW j \in 1 .. Len(stack), stack[j].of \in aside PROVE FALSE
  <2>1. PICK k \in j + 1 .. Len(stack) : stack[k].at \in {"before", "after"} BY <1>4 DEF NestInv
  <2>2. k \in 2 .. Len(stack) BY <1>1, <2>1
  <2> QED BY <1>3, <2>1, <2>2
<1> QED BY <1>4

\* The nesting is inductive.
LEMMA NestInductive ==
    ASSUME Inv, Inv', NEW depth, NEW aside, Nested(depth, aside), NestInv(depth, aside), Edge
    PROVE  NestInv(depth, aside)'
<1>1. Len(stack) \in Nat /\ (stack # <<>> => Len(stack) > 0) /\ StackInv BY Innermost DEF Inv
<1>2. ASSUME NEW j \in 1 .. Len(stack) PROVE Covered(aside, j) BY DEF NestInv, Covered
<1>3. ASSUME NEW j \in 1 .. Len(stack), NEW k \in 1 .. Len(stack), j < k
      PROVE  Deeper(depth, aside, j, k)
  BY <1>3 DEF NestInv, Deeper
<1>4. SUFFICES ASSUME TRUE
               PROVE  /\ \A j \in 1 .. Len(stack') : Covered(aside, j)'
                      /\ \A j, k \in 1 .. Len(stack') : j < k => Deeper(depth, aside, j, k)'
  BY DEF NestInv, Covered, Deeper
<1>5. CASE DropEdge
  <2>1. PICK n \in 1 .. Len(stack) : Dropping(n) BY <1>5 DEF DropEdge
  <2>2. \A i \in 1 .. Len(stack') : i + n \in 1 .. Len(stack) /\ stack'[i] = stack[i + n]
    BY <1>1, <2>1 DEF Dropping
  <2>3. ASSUME NEW j \in 1 .. Len(stack'), stack'[j].of \in aside
        PROVE  \E k \in j + 1 .. Len(stack') : stack'[k].at \in {"before", "after"}
    <3>1. j + n \in 1 .. Len(stack) /\ stack[j + n].of \in aside BY <2>2, <2>3
    <3>2. PICK k \in j + n + 1 .. Len(stack) : stack[k].at \in {"before", "after"}
      BY <1>2, <3>1 DEF Covered
    <3>3. k - n \in j + 1 .. Len(stack') /\ k - n \in 1 .. Len(stack') /\ (k - n) + n = k
      BY <1>1, <2>1 DEF Dropping
    <3>4. stack'[k - n] = stack[k] BY <2>2, <3>3
    <3> QED BY <3>2, <3>3, <3>4
  <2>4. ASSUME NEW j \in 1 .. Len(stack'), NEW k \in 1 .. Len(stack'), j < k
        PROVE  Deeper(depth, aside, j, k)'
    <3>1. Deeper(depth, aside, j + n, k + n) BY <1>3, <2>2, <2>4
    <3>2. k + n = j + n + 1 => k = j + 1 OBVIOUS
    <3>3. stack'[j] = stack[j + n] /\ stack'[k] = stack[k + n] BY <2>2
    <3> QED BY <3>1, <3>2, <3>3 DEF Deeper
  <2> QED BY <2>3, <2>4 DEF Covered
<1>6. CASE StepEdge
  <2>1. /\ Len(stack') = Len(stack) /\ stack'[1].of = stack[1].of
        /\ stack'[1].at \in Waits <=> stack[1].at \in Waits
        /\ \A i \in 2 .. Len(stack) : stack'[i] = stack[i]
    BY <1>6 DEF StepEdge
  <2>2. \A i \in 1 .. Len(stack') : i \in 1 .. Len(stack) /\ stack'[i].of = stack[i].of
        /\ (stack'[i].at \in Waits <=> stack[i].at \in Waits)
    <3>1. ASSUME NEW i \in 1 .. Len(stack')
          PROVE  i \in 1 .. Len(stack) /\ stack'[i].of = stack[i].of
                 /\ (stack'[i].at \in Waits <=> stack[i].at \in Waits)
      <4>1. i = 1 \/ i \in 2 .. Len(stack) BY <2>1
      <4> QED BY <2>1, <4>1
    <3> QED BY <3>1
  <2>3. ASSUME NEW j \in 1 .. Len(stack'), stack'[j].of \in aside
        PROVE  \E k \in j + 1 .. Len(stack') : stack'[k].at \in {"before", "after"}
    <3>1. PICK k \in j + 1 .. Len(stack) : stack[k].at \in {"before", "after"}
      BY <1>2, <2>2, <2>3 DEF Covered
    <3>2. k \in 2 .. Len(stack) /\ k \in j + 1 .. Len(stack') BY <1>1, <2>1, <3>1
    <3> QED BY <2>1, <3>1, <3>2
  <2>4. ASSUME NEW j \in 1 .. Len(stack'), NEW k \in 1 .. Len(stack'), j < k
        PROVE  Deeper(depth, aside, j, k)'
    <3>1. Deeper(depth, aside, j, k) BY <1>3, <2>2, <2>4
    <3>2. k \in 2 .. Len(stack) BY <2>1, <2>4
    <3>3. stack'[k] = stack[k] BY <2>1, <3>2
    <3> QED BY <2>2, <3>1, <3>3 DEF Deeper
  <2> QED BY <2>3, <2>4 DEF Covered
<1>7. CASE CallEdge
  <2>1. /\ Len(stack) \in Nat \ {0} /\ Len(stack') = Len(stack) + 1 /\ stack'[2].of = stack[1].of
        /\ \A i \in 3 .. Len(stack) + 1 : stack'[i] = stack[i - 1]
    BY <1>1, <1>7 DEF CallEdge
  <2>2. ASSUME NEW i \in 2 .. Len(stack')
        PROVE  i - 1 \in 1 .. Len(stack) /\ stack'[i].of = stack[i - 1].of
               /\ (i > 2 => stack'[i] = stack[i - 1])
    <3>1. i = 2 \/ i \in 3 .. Len(stack) + 1 BY <2>1
    <3> QED BY <2>1, <3>1
  <2>3. ASSUME NEW j \in 2 .. Len(stack'), stack'[j].of \in aside
        PROVE  \E k \in j + 1 .. Len(stack') : stack'[k].at \in {"before", "after"}
    <3>1. PICK k \in (j - 1) + 1 .. Len(stack) : stack[k].at \in {"before", "after"}
      BY <1>2, <2>2, <2>3 DEF Covered
    <3>2. k + 1 \in j + 1 .. Len(stack') /\ k + 1 \in 3 .. Len(stack) + 1 /\ (k + 1) - 1 = k
      BY <2>1, <3>1
    <3>3. stack'[k + 1] = stack[k] BY <2>1, <3>2
    <3> QED BY <3>1, <3>2, <3>3
  <2>4. Covered(aside, 1)'
    <3>1. CASE ExtensionEdge(stack[1], stack'[1], stack'[2])
      <4>1. 2 \in 1 + 1 .. Len(stack') /\ stack'[2].at \in {"before", "after"}
        BY <2>1, <3>1 DEF ExtensionEdge
      <4> QED BY <4>1 DEF Covered
    <3>2. CASE ~ ExtensionEdge(stack[1], stack'[1], stack'[2])
      <4>1. stack'[1].of \in aside <=> stack[1].of \in aside
        BY <1>1, <1>7, <3>2, CallsUnder DEF Under, LoopEdge
      <4>2. ASSUME stack'[1].of \in aside
            PROVE  \E k \in 1 + 1 .. Len(stack') : stack'[k].at \in {"before", "after"}
        <5>1. 2 \in 2 .. Len(stack') /\ stack'[2].of \in aside BY <2>1, <4>1, <4>2
        <5>2. PICK k \in 2 + 1 .. Len(stack') : stack'[k].at \in {"before", "after"} BY <2>3, <5>1
        <5>3. k \in 1 + 1 .. Len(stack') BY <2>1, <5>2
        <5> QED BY <5>2, <5>3
      <4> QED BY <4>2 DEF Covered
    <3> QED BY <3>1, <3>2
  <2>5. ASSUME NEW k \in 2 .. Len(stack') PROVE Deeper(depth, aside, 1, k)'
    <3>1. CASE ExtensionEdge(stack[1], stack'[1], stack'[2])
      <4>1. stack'[1].of \in aside BY <3>1 DEF ExtensionEdge, Nested
      <4>2. stack[k - 1].of \notin aside BY <1>7, <2>2, <3>1, NoneAside
      <4> QED BY <2>2, <4>1, <4>2 DEF Deeper
    <3>2. CASE Under(depth, aside, stack[1].of, stack'[1].of)
      <4>1. /\ depth[stack[1].of] < depth[stack'[1].of]
            /\ (stack[1].of \in aside <=> stack'[1].of \in aside)
        BY <3>2 DEF Under
      <4>2. 1 \in 1 .. Len(stack) /\ 1 \in 1 .. Len(stack') BY <2>1
      <4>3. depth[stack[1].of] \in Nat BY <1>1, <4>2, DepthType
      <4>4. depth[stack'[1].of] \in Nat
        <5>1. stack' \in Seq(Frame) BY DEF Inv, StackInv
        <5>2. stack'[1] \in Frame BY <4>2, <5>1
        <5>3. stack'[1].of \in Scope \cup Task BY <5>2, FieldTypes DEF Frame
        <5> QED BY <5>3 DEF Nested
      <4>5. depth[stack[k - 1].of] \in Nat BY <1>1, <2>2, DepthType
      <4>6. CASE k = 2 BY <2>2, <4>1, <4>6 DEF Deeper
      <4>7. CASE k > 2
        <5>1. 1 < k - 1 /\ k - 1 \in 1 .. Len(stack) BY <2>2, <4>7
        <5>2. Deeper(depth, aside, 1, k - 1) BY <1>3, <4>2, <5>1
        <5>3. stack'[k].of = stack[k - 1].of BY <2>2
        <5>4. (stack[1].of \in aside <=> stack[k - 1].of \in aside)
              => depth[stack[k - 1].of] <= depth[stack[1].of]
          BY <4>3, <4>5, <5>2 DEF Deeper
        <5>5. (stack'[1].of \in aside <=> stack'[k].of \in aside)
              => depth[stack'[k].of] < depth[stack'[1].of]
          BY <4>1, <4>3, <4>4, <4>5, <5>3, <5>4
        <5> QED BY <5>5 DEF Deeper
      <4> QED BY <4>6, <4>7
    <3>3. CASE LoopEdge(stack[1], stack'[1], stack'[2])
      <4>1. /\ stack[1].at = "before" /\ stack'[2].at = "body" /\ stack'[1].at \in Waits
            /\ stack'[1].of = stack[1].of
        BY <3>3 DEF LoopEdge, Waits
      <4>2. CASE k = 2 BY <2>1, <4>1, <4>2 DEF Deeper
      <4>3. CASE k > 2
        <5>1. 1 \in 1 .. Len(stack) /\ 1 < k - 1 /\ k - 1 \in 1 .. Len(stack) BY <2>1, <2>2, <4>3
        <5>2. Deeper(depth, aside, 1, k - 1) BY <1>3, <5>1
        <5>3. stack[1].at \notin Waits BY <4>1 DEF Waits
        <5>4. stack'[k].of = stack[k - 1].of BY <2>2
        <5> QED BY <4>1, <5>2, <5>3, <5>4 DEF Deeper
      <4> QED BY <4>2, <4>3
    <3> QED BY <1>1, <1>7, <3>1, <3>2, <3>3, CallsUnder
  <2>6. ASSUME NEW j \in 2 .. Len(stack'), NEW k \in 2 .. Len(stack'), j < k
        PROVE  Deeper(depth, aside, j, k)'
    <3>1. k > 2 /\ j - 1 < k - 1 /\ (k - 1 = (j - 1) + 1 => k = j + 1) BY <2>6
    <3>2. Deeper(depth, aside, j - 1, k - 1) BY <1>3, <2>2, <3>1
    <3>3. stack'[k] = stack[k - 1] /\ stack'[j].of = stack[j - 1].of BY <2>2, <3>1
    <3>4. stack[j - 1].at \in Waits => stack'[j].at \in Waits
      <4>1. CASE j = 2
        <5>1. stack[1].at \in Waits => stack'[2].at \in Waits
          BY <1>7 DEF CallEdge, ExtensionEdge, TaskEdge, BodyEdge, LoopEdge, HandlerEdge, Waits
        <5> QED BY <4>1, <5>1
      <4>2. CASE j > 2 BY <2>2, <4>2
      <4> QED BY <4>1, <4>2
    <3> QED BY <3>1, <3>2, <3>3, <3>4 DEF Deeper
  <2>7. \A i \in 1 .. Len(stack') : i = 1 \/ i \in 2 .. Len(stack') BY <2>1
  <2>8. ASSUME NEW j \in 1 .. Len(stack') PROVE Covered(aside, j)'
    BY <2>3, <2>4, <2>7 DEF Covered
  <2>9. ASSUME NEW j \in 1 .. Len(stack'), NEW k \in 1 .. Len(stack'), j < k
        PROVE  Deeper(depth, aside, j, k)'
    <3>1. k \in 2 .. Len(stack') BY <2>7, <2>9
    <3> QED BY <2>5, <2>6, <2>7, <2>9, <3>1
  <2> QED BY <2>8, <2>9
<1>8. CASE KeepEdge
  <2>1. stack' = stack BY <1>8 DEF KeepEdge
  <2> QED BY <1>2, <1>3, <2>1 DEF Covered, Deeper
<1> QED BY <1>5, <1>6, <1>7, <1>8 DEF Edge

\* The names, and a loop that leaves.
NameEdge ==
    \/ names \subseteq names'
    \/ /\ stack # <<>> /\ stack[1].at = "for" /\ stack' = Tail(stack)
       /\ names' = names \ Sets[stack[1].of]

LEMMA StepNames ==
    ASSUME StackInv, [Next]_vars
    PROVE  NameEdge
<1> USE DEF NameEdge, flags, history
<1>1. CASE Scoping BY <1>1 DEF Scoping, ObserveCancel, LeaveScope, StartTask, Continue, Goto, Exit, End
<1>2. CASE Tasking
  BY <1>2 DEF Tasking, Skip, Refuse, Select, EnterExtension, PassExtension, LeaveExtension,
              Dispatch, BodyDone, FinishTask
<1>3. CASE Looping
  <2>1. CASE LeaveLoop
    <3>1. stack # <<>> /\ Top.at = "for" BY <2>1 DEF LeaveLoop, Runs, Returned
    <3> QED BY <2>1, <3>1, TopType DEF LeaveLoop, Return
  <2> QED BY <1>3, <2>1 DEF Looping, Iterate, FailLoop, NextItem
<1>4. CASE Trying BY <1>4 DEF Trying, Attempt, Succeed, Uncaught, Retry, Handle, Handled
<1>5. CASE Raising BY <1>5 DEF Raising, Propagate
<1>6. CASE FinishBody BY <1>6 DEF FinishBody
<1>7. CASE Wait BY <1>7 DEF Wait
<1>8. CASE Timeout BY <1>8 DEF Timeout
<1>9. CASE Cancel BY <1>9 DEF Cancel
<1>10. CASE UNCHANGED vars BY <1>10 DEF vars
<1> QED BY <1>1, <1>2, <1>3, <1>4, <1>5, <1>6, <1>7, <1>8, <1>9, <1>10 DEF Next, Polled

\* No call below a loop is of the same loop.
LEMMA OtherLoops ==
    ASSUME StackInv, NEW depth, NEW aside, Nested(depth, aside), NestInv(depth, aside),
           NEW k \in 2 .. Len(stack), stack[k].at = "for"
    PROVE  stack[k].of # stack[1].of
<1>1. Len(stack) \in Nat BY Innermost
<1>2. 1 \in 1 .. Len(stack) /\ k \in 1 .. Len(stack) /\ 1 < k BY <1>1
<1>3. depth[stack[k].of] \in Nat BY <1>2, DepthType
<1> QED BY <1>2, <1>3 DEF NestInv

LEMMA LoopInductive ==
    ASSUME Inv, Inv', NEW depth, NEW aside, Nested(depth, aside), OwnNames,
           NestInv(depth, aside), LoopVariables, Edge, NameEdge
    PROVE  LoopVariables'
<1>1. Len(stack) \in Nat /\ StackInv BY Innermost DEF Inv
<1> SUFFICES ASSUME NEW k \in 2 .. Len(stack'), stack'[k].at = "for"
             PROVE  Sets[stack'[k].of] \subseteq names'
  BY DEF LoopVariables
<1>2. CASE names \subseteq names'
  <2>1. CASE DropEdge
    <3>1. PICK n \in 1 .. Len(stack) : Dropping(n) BY <2>1 DEF DropEdge
    <3>2. k + n \in 2 .. Len(stack) /\ stack'[k] = stack[k + n] BY <1>1, <3>1 DEF Dropping
    <3> QED BY <1>2, <3>2 DEF LoopVariables
  <2>2. CASE StepEdge
    <3>1. k \in 2 .. Len(stack) /\ stack'[k] = stack[k] BY <2>2 DEF StepEdge
    <3> QED BY <1>2, <3>1 DEF LoopVariables
  <2>3. CASE CallEdge
    <3>1. CASE k = 2
      BY <2>3, <3>1 DEF CallEdge, ExtensionEdge, TaskEdge, BodyEdge, LoopEdge, HandlerEdge
    <3>2. CASE k > 2
      <4>1. k \in 3 .. Len(stack) + 1 /\ k - 1 \in 2 .. Len(stack) BY <1>1, <2>3, <3>2 DEF CallEdge
      <4>2. stack'[k] = stack[k - 1] BY <2>3, <4>1 DEF CallEdge
      <4> QED BY <1>2, <4>1, <4>2 DEF LoopVariables
    <3> QED BY <3>1, <3>2
  <2>4. CASE KeepEdge BY <1>2, <2>4 DEF KeepEdge, LoopVariables
  <2> QED BY <2>1, <2>2, <2>3, <2>4 DEF Edge
<1>3. CASE /\ stack # <<>> /\ stack[1].at = "for" /\ stack' = Tail(stack)
           /\ names' = names \ Sets[stack[1].of]
  <2>1. k + 1 \in 2 .. Len(stack) /\ k + 1 \in 1 .. Len(stack) /\ 1 \in 1 .. Len(stack)
        /\ stack'[k] = stack[k + 1]
    <3>1. Len(stack) \in Nat \ {0} /\ Len(stack') = Len(stack) - 1
          /\ \A i \in 1 .. Len(stack) - 1 : stack'[i] = stack[i + 1]
      BY <1>1, <1>3, Stacks
    <3> QED BY <3>1
  <2>2. stack[k + 1].at = "for" BY <2>1
  <2>3. stack[k + 1].of # stack[1].of BY <1>1, <2>1, <2>2, OtherLoops
  <2>4. stack[k + 1].of \in For /\ stack[1].of \in For
    BY <1>1, <1>3, <2>1, <2>2 DEF StackInv, Frame, Sound
  <2>5. Sets[stack[k + 1].of] \cap Sets[stack[1].of] = {} BY <2>3, <2>4 DEF OwnNames
  <2>6. Sets[stack[k + 1].of] \subseteq names BY <2>1, <2>2 DEF LoopVariables
  <2> QED BY <1>3, <2>1, <2>5, <2>6
<1> QED BY <1>2, <1>3 DEF NameEdge

\* The body of a loop sees the loop's variables (task_for), for every workflow
\* whose definition is nested and whose loops have names of their own: whatever
\* fails, is caught, dropped or looped over inside it.
THEOREM VariablesStay ==
    ASSUME NEW depth, NEW aside, Nested(depth, aside), OwnNames
    PROVE  Spec => []LoopVariables
<1>1. Init => NestInv(depth, aside) /\ LoopVariables
  <2> SUFFICES ASSUME Init PROVE NestInv(depth, aside) /\ LoopVariables
    OBVIOUS
  <2>1. Len(stack) = 1 /\ stack[1].of = Main BY CallingFields DEF Init
  <2>2. Main \notin aside BY DEF Nested
  <2> QED BY <2>1, <2>2 DEF NestInv, LoopVariables
<1>2. Inv /\ [Next]_vars => Inv' BY StepHasShape, ShapeInv DEF Inv
<1>3. Inv /\ Inv' /\ NestInv(depth, aside) /\ LoopVariables /\ [Next]_vars
      => NestInv(depth, aside)' /\ LoopVariables'
  <2> SUFFICES ASSUME Inv, Inv', NestInv(depth, aside), LoopVariables, [Next]_vars
               PROVE  NestInv(depth, aside)' /\ LoopVariables'
    OBVIOUS
  <2>1. StackInv BY DEF Inv
  <2>2. Edge /\ NameEdge BY <2>1, StepHasEdge, StepNames
  <2>3. NestInv(depth, aside)' BY <2>2, NestInductive
  <2>4. LoopVariables' BY <2>2, LoopInductive
  <2> QED BY <2>3, <2>4
<1> QED BY <1>1, <1>2, <1>3, Invariance, PTL DEF Spec

-----------------------------------------------------------------------------
(* The main scope is walked as `Walk` says.                                *)

\* The outermost call is exec_scope on the top-level tasks, and a cancellation is
\* returned only behind one.
MainInv ==
    /\ stack # <<>> => stack[Len(stack)].at = "scope" /\ stack[Len(stack)].of = Main
    /\ signal = "cancelled" => cancelled

\* A step other than a timeout's returns, goes on, calls, or keeps the stack.
OneCall ==
    \/ UNCHANGED <<stack, signal>>
    \/ \E s \in Signals \ {"run"} : Return(s) /\ (s = "cancelled" => cancelled \/ signal = "cancelled")
    \/ \E f : Become(f)
    \/ \E f : \E g : Invoke(f, g)

LEMMA StepIsOneCall ==
    ASSUME StackInv, Next, ~ Timeout
    PROVE  OneCall /\ stack # <<>>
<1> USE DEF OneCall, Runs, Returned
<1>0. /\ "ok" \in Signals \ {"run"} /\ Errors \subseteq Signals \ {"run"}
      /\ "fault" \in Errors /\ "cancelled" \in Errors
      /\ signal # "run" => signal \in Signals \ {"run"}
  BY DEF StackInv, Signals, Errors
<1>1. CASE Scoping
  BY <1>0, <1>1 DEF Scoping, ObserveCancel, LeaveScope, StartTask, Continue, Goto, Exit, End
<1>2. CASE Tasking
  <2>1. CASE Dispatch BY <2>1 DEF Dispatch
  <2>2. CASE LeaveExtension BY <1>0, <2>2 DEF LeaveExtension
  <2> QED BY <1>0, <1>2, <2>1, <2>2
          DEF Tasking, Skip, Refuse, Select, EnterExtension, PassExtension, BodyDone, FinishTask
<1>3. CASE Looping
  BY <1>0, <1>3 DEF Looping, Iterate, FailLoop, LeaveLoop, NextItem
<1>4. CASE Trying
  <2>1. CASE Attempt BY <1>0, <2>1 DEF Attempt
  <2>2. CASE Uncaught BY <1>0, <2>2 DEF Uncaught
  <2>3. CASE Handle BY <1>0, <2>3 DEF Handle, Catches
  <2> QED BY <1>0, <1>4, <2>1, <2>2, <2>3 DEF Trying, Succeed, Catches, Retry, Handled
<1>5. CASE Raising BY <1>0, <1>5 DEF Raising, Propagate
<1>6. CASE FinishBody BY <1>0, <1>6 DEF FinishBody
<1>7. CASE Wait BY <1>0, <1>7 DEF Wait
<1>8. CASE Cancel BY <1>8 DEF Cancel
<1> QED BY <1>1, <1>2, <1>3, <1>4, <1>5, <1>6, <1>7, <1>8 DEF Next, Polled

\* A cancellation is one step, and an `end` is for good.
LEMMA FlagsMove ==
    ASSUME Next
    PROVE  /\ Cancel \/ cancelled' = cancelled
           /\ ended' = ended \/ ended' = TRUE
<1> USE DEF flags
<1>1. CASE Scoping
  BY <1>1 DEF Scoping, ObserveCancel, LeaveScope, StartTask, Continue, Goto, Exit, End
<1>2. CASE Tasking
  BY <1>2 DEF Tasking, Skip, Refuse, Select, EnterExtension, PassExtension, LeaveExtension,
              Dispatch, BodyDone, FinishTask
<1>3. CASE Looping BY <1>3 DEF Looping, Iterate, FailLoop, LeaveLoop, NextItem
<1>4. CASE Trying BY <1>4 DEF Trying, Attempt, Succeed, Uncaught, Catches, Retry, Handle, Handled
<1>5. CASE Raising BY <1>5 DEF Raising, Propagate
<1>6. CASE FinishBody BY <1>6 DEF FinishBody
<1>7. CASE Wait BY <1>7 DEF Wait
<1>8. CASE Timeout BY <1>8 DEF Timeout
<1>9. CASE Cancel BY <1>9 DEF Cancel
<1> QED BY <1>1, <1>2, <1>3, <1>4, <1>5, <1>6, <1>7, <1>8, <1>9 DEF Next, Polled

\* A step inside a task of the main scope leaves the main scope's call alone ...
NestedStep ==
    /\ Len(stack') \in Nat \ {0}
    /\ stack'[Len(stack')] = stack[Len(stack)]
    /\ Len(stack') = 1 => signal' # "run"
\* ... unless it is a timeout of that task.
DroppedStep == stack' = <<>> /\ signal' = "timeout"

LEMMA StepInside ==
    ASSUME StackInv, Len(stack) > 1, Next, ~ Cancel
    PROVE  NestedStep \/ DroppedStep
<1>1. Len(stack) \in Nat /\ stack # <<>> BY Innermost
<1>a. Len(stack) \in Nat \ {0} /\ Len(stack) # 1
  <2>1. \A n \in Nat : n > 1 => n \in Nat \ {0} /\ n # 1 OBVIOUS
  <2> QED BY <1>1, <2>1
<1>2. CASE Timeout
  <2>1. PICK k \in 2 .. Len(stack) : stack' = SubSeq(stack, k + 1, Len(stack))
    BY <1>2 DEF Timeout
  <2>2. signal' = "timeout" BY <1>2 DEF Timeout
  <2>3. /\ stack' \in Seq(Frame) /\ Len(stack') = Len(stack) - k
        /\ \A i \in 1 .. Len(stack) - k : stack'[i] = stack[i + k]
    BY <1>1, <2>1, CutStacks
  <2>4. CASE k = Len(stack)
    <3>1. Len(stack') = 0 BY <1>1, <2>3, <2>4
    <3>2. stack' = <<>> BY <2>3, <3>1, EmptySeq
    <3> QED BY <2>2, <3>2 DEF DroppedStep
  <2>5. CASE k # Len(stack)
    <3>1. Len(stack) - k \in Nat \ {0} /\ (Len(stack) - k) + k = Len(stack) BY <1>1, <2>5
    <3>2. stack'[Len(stack')] = stack[Len(stack)] BY <2>3, <3>1
    <3> QED BY <2>2, <2>3, <3>1, <3>2 DEF NestedStep
  <2> QED BY <2>4, <2>5
<1>3. CASE ~ Timeout
  <2>1. OneCall BY <1>3, StepIsOneCall
  <2>2. CASE UNCHANGED <<stack, signal>>
    <3>1. stack' = stack BY <2>2
    <3> QED BY <1>a, <3>1 DEF NestedStep
  <2>3. CASE \E s \in Signals \ {"run"} : Return(s)
    <3>1. stack' = Tail(stack) /\ signal' # "run" BY <2>3 DEF Return
    <3>2. /\ Len(stack') = Len(stack) - 1 /\ Len(stack) - 1 \in Nat \ {0}
          /\ stack'[Len(stack) - 1] = stack[(Len(stack) - 1) + 1]
      BY <1>1, <3>1, Stacks
    <3>3. (Len(stack) - 1) + 1 = Len(stack) BY <1>1
    <3> QED BY <3>1, <3>2, <3>3 DEF NestedStep
  <2>4. CASE \E f : Become(f)
    <3>1. PICK f : Become(f) BY <2>4
    <3>2. Len(stack) \in 2 .. Len(stack) BY <1>1
    <3>3. Len(stack') = Len(stack) /\ stack'[Len(stack)] = stack[Len(stack)]
      BY <1>1, <3>1, <3>2, Heads DEF Become
    <3> QED BY <1>1, <3>3 DEF NestedStep
  <2>5. CASE \E f : \E g : Invoke(f, g)
    <3>1. PICK f : \E g : Invoke(f, g) BY <2>5
    <3>2. PICK g : Invoke(f, g) BY <3>1
    <3>3. Len(stack) + 1 \in 3 .. Len(stack) + 1 /\ (Len(stack) + 1) - 1 = Len(stack) BY <1>1
    <3>4. Len(stack') = Len(stack) + 1 /\ stack'[Len(stack) + 1] = stack[Len(stack)]
      BY <1>1, <3>2, <3>3, Heads DEF Invoke
    <3> QED BY <1>1, <3>4 DEF NestedStep
  <2> QED BY <2>1, <2>2, <2>3, <2>4, <2>5 DEF OneCall
<1> QED BY <1>2, <1>3

\* A step of the innermost call, when that is exec_scope.
LEMMA StepOfScope ==
    ASSUME stack # <<>>, Top.at = "scope", Next
    PROVE  Scoping \/ Propagate("scope") \/ Cancel
<1> USE DEF Runs, Returned
<1>1. ~ Tasking
  BY DEF Tasking, Skip, Refuse, Select, EnterExtension, PassExtension, LeaveExtension,
         Dispatch, BodyDone, FinishTask
<1>2. ~ Looping BY DEF Looping, Iterate, FailLoop, LeaveLoop, NextItem
<1>3. ~ Trying BY DEF Trying, Attempt, Succeed, Uncaught, Catches, Retry, Handle, Handled
<1>4. ~ FinishBody /\ ~ Wait /\ ~ Timeout BY DEF FinishBody, Wait, Timeout
<1>5. Raising => Propagate("scope") BY DEF Raising, Propagate
<1> QED BY <1>1, <1>2, <1>3, <1>4, <1>5 DEF Next, Polled

\* The main scope alone, in front of a task or behind one.
LEMMA Alone ==
    ASSUME StackInv, MainInv, Len(stack) = 1
    PROVE  /\ stack # <<>> /\ Top = stack[1] /\ Top.at = "scope" /\ Top.of = Main
           /\ Top.n \in 1 .. Len(In[Main]) + 1 /\ Len(In[Main]) \in Nat
           /\ signal # "run" => Top.n \in 1 .. Len(In[Main])
           /\ Tail(stack) = <<>>
           /\ Current = In[Main][Top.n]
           /\ \A f : Become(f) => /\ Len(stack') = 1 /\ stack'[1] = f /\ stack' # <<>>
                                  /\ signal' = "run"
           /\ \A f : \A g : Invoke(f, g) =>
                 /\ Len(stack') = 2 /\ stack'[2] = f /\ stack' # <<>> /\ signal' = "run"
<1>1. stack # <<>> /\ Top = stack[1] BY Innermost
<1>2. Top.at = "scope" /\ Top.of = Main BY <1>1 DEF MainInv
<1>3. In[Main] \in Seq(Task) BY IdentityAssumption, ProgramAssumption
<1>4. Len(In[Main]) \in Nat BY <1>3
<1>5. Sound(Top) /\ (signal # "run" => Waiting(Top)) BY <1>1, TopType
<1>6. Top.n \in 1 .. Len(In[Main]) + 1 BY <1>2, <1>5 DEF Sound
<1>7. signal # "run" => Top.n \in 1 .. Len(In[Main]) BY <1>2, <1>4, <1>5, <1>6 DEF Waiting
<1>8. Tail(stack) = <<>>
  <2>1. Tail(stack) \in Seq(Frame) /\ Len(Tail(stack)) = 0 BY <1>1, Stacks
  <2> QED BY <2>1, EmptySeq
<1>9. ASSUME NEW f, Become(f)
      PROVE  Len(stack') = 1 /\ stack'[1] = f /\ stack' # <<>> /\ signal' = "run"
  <2>1. stack' = <<f>> \o Tail(stack) /\ signal' = "run" BY <1>9 DEF Become
  <2>2. Len(stack') = 1 /\ stack'[1] = f BY <1>1, <2>1, Heads
  <2> QED BY <2>1, <2>2
<1>10. ASSUME NEW f, NEW g, Invoke(f, g)
      PROVE  Len(stack') = 2 /\ stack'[2] = f /\ stack' # <<>> /\ signal' = "run"
  <2>1. stack' = <<g, f>> \o Tail(stack) /\ signal' = "run" BY <1>10 DEF Invoke
  <2>2. Len(stack') = 2 /\ stack'[2] = f BY <1>1, <2>1, Heads
  <2> QED BY <2>1, <2>2
<1> QED BY <1>1, <1>2, <1>4, <1>6, <1>7, <1>8, <1>9, <1>10 DEF Current

\* One call or more.
LEMMA Lengths ==
    ASSUME NEW n \in Nat
    PROVE  (n > 1 => n # 1) /\ (n > 0 => n > 1 \/ n = 1)
OBVIOUS

Walked == MainScope!Next \/ UNCHANGED MainScope!vars

\* Inside a task of the main scope.
LEMMA InsideWalked ==
    ASSUME StackInv, MainInv, Len(stack) > 1, Next, ~ Cancel
    PROVE  Walked /\ MainInv'
<1>0. stack # <<>> /\ Len(stack) \in Nat BY Innermost
<1>1. stack # <<>> /\ Len(stack) # 1 BY <1>0, Lengths
<1>2. cancelled' = cancelled /\ (ended' = ended \/ ended' = TRUE) BY FlagsMove
<1>3. signal' = "cancelled" => cancelled
  <2>1. CASE Timeout BY <2>1 DEF Timeout
  <2>2. CASE ~ Timeout BY <2>2, StepIsOneCall DEF OneCall, Return, Become, Invoke, MainInv
  <2> QED BY <2>1, <2>2
<1>4. CASE NestedStep
  <2>1. stack' # <<>> /\ ~ (Len(stack') = 1 /\ signal' = "run") BY <1>4 DEF NestedStep
  <2>2. MainScope!EndInside
    BY <1>1, <1>2, <1>4, <2>1 DEF NestedStep, MainScope!EndInside, MainScope!MayEnd
  <2>3. MainInv' BY <1>1, <1>2, <1>3, <1>4 DEF NestedStep, MainInv
  <2> QED BY <2>2, <2>3 DEF Walked, MainScope!Next
<1>5. CASE DroppedStep
  <2>1. MainScope!Fail("timeout")
    BY <1>1, <1>2, <1>5 DEF DroppedStep, MainScope!Fail, MainScope!MayEnd, MainScope!Return
  <2>2. MainInv' BY <1>5 DEF DroppedStep, MainInv
  <2> QED BY <2>1, <2>2 DEF Walked, MainScope!Next
<1> QED BY <1>4, <1>5, StepInside

\* In front of a task of the main scope, or behind it.
LEMMA AloneWalked ==
    ASSUME StackInv, MainInv, Len(stack) = 1, Scoping \/ Propagate("scope")
    PROVE  Walked /\ MainInv'
<1> USE DEF Walked, MainScope!Next, flags
<1>1. /\ stack # <<>> /\ Top = stack[1] /\ Top.at = "scope" /\ Top.of = Main
      /\ Top.n \in 1 .. Len(In[Main]) + 1 /\ Len(In[Main]) \in Nat
      /\ signal # "run" => Top.n \in 1 .. Len(In[Main])
      /\ Tail(stack) = <<>> /\ Current = In[Main][Top.n]
  BY Alone
<1>2. Top \in Call BY <1>1, TopType
\* The scope returns.
<1>3. ASSUME NEW s, Return(s), s = "cancelled" => cancelled, cancelled' = cancelled
      PROVE  stack' = <<>> /\ signal' = s /\ MainInv'
  BY <1>1, <1>3 DEF Return, MainInv
<1>4. CASE ObserveCancel
  <2>1. Return("cancelled") /\ cancelled /\ cancelled' = cancelled /\ ended' = ended /\ signal = "run"
    BY <1>4 DEF ObserveCancel, Runs
  <2>2. MainScope!ObserveCancel
    BY <1>1, <1>3, <2>1 DEF MainScope!ObserveCancel, MainScope!Return
  <2> QED BY <1>3, <2>1, <2>2
<1>5. CASE LeaveScope
  <2>1. /\ Return("ok") /\ ~ cancelled /\ cancelled' = cancelled /\ ended' = ended /\ signal = "run"
        /\ ended \/ Top.n > Len(In[Main])
    BY <1>1, <1>5 DEF LeaveScope, Runs
  <2>2. MainScope!Leave BY <1>1, <1>3, <2>1 DEF MainScope!Leave, MainScope!Return
  <2> QED BY <1>3, <2>1, <2>2
<1>6. CASE StartTask
  <2>1. /\ Invoke(Top, Calling("task", Current, 0)) /\ ~ cancelled /\ ~ ended /\ signal = "run"
        /\ cancelled' = cancelled /\ ended' = ended /\ Top.n <= Len(In[Main])
    BY <1>1, <1>6 DEF StartTask, Runs
  <2>2. Len(stack') = 2 /\ stack'[2] = Top /\ stack' # <<>> /\ signal' = "run" BY <2>1, Alone
  <2>3. MainScope!Start BY <1>1, <2>1, <2>2 DEF MainScope!Start
  <2>4. MainInv' BY <1>1, <2>2 DEF MainInv
  <2> QED BY <2>3, <2>4
\* The scope goes on at another task.
<1>7. ASSUME NEW n \in 1 .. Len(In[Main]) + 1, Become([Top EXCEPT !.n = n]), n \in MainTo[Top.n],
             signal # "run", cancelled' = cancelled, ended' = ended
      PROVE  Walked /\ MainInv'
  <2> DEFINE f == [Top EXCEPT !.n = n]
  <2>1. f.n = n /\ f.at = "scope" /\ f.of = Main BY <1>1, <1>2 DEF Call
  <2> HIDE DEF f
  <2>2. Become(f) BY <1>7 DEF f
  <2>3. Len(stack') = 1 /\ stack'[1] = f /\ stack' # <<>> /\ signal' = "run" BY <2>2, Alone
  <2>4. MainScope!Proceed BY <1>1, <1>7, <2>1, <2>3 DEF MainScope!Proceed, MainScope!MayEnd
  <2>5. MainInv' BY <2>1, <2>3 DEF MainInv
  <2> QED BY <2>4, <2>5
<1>8. CASE Continue
  <2>1. /\ Become([Top EXCEPT !.n = Top.n + 1]) /\ signal # "run" /\ cancelled' = cancelled
        /\ ended' = ended /\ "continue" \in Then[Current]
    BY <1>8 DEF Continue, Returned
  <2>2. Top.n \in 1 .. Len(In[Main]) /\ Top.n + 1 \in 1 .. Len(In[Main]) + 1 BY <1>1, <2>1
  <2>3. Top.n + 1 \in MainTo[Top.n] BY <1>1, <2>1, <2>2 DEF MainTo
  <2> QED BY <1>7, <2>1, <2>2, <2>3
<1>9. CASE Goto
  <2>1. signal # "run" /\ cancelled' = cancelled /\ ended' = ended BY <1>9 DEF Goto, Returned
  <2>2. PICK t \in Then[Current] \cap Task :
          \/ \E i \in 1 .. Len(In[Top.of]) :
                /\ In[Top.of][i] = t
                /\ Become([Top EXCEPT !.n = i])
          \/ /\ \A i \in 1 .. Len(In[Top.of]) : In[Top.of][i] # t
             /\ Return("fault")
    BY <1>9 DEF Goto
  <2>3. CASE \E i \in 1 .. Len(In[Top.of]) : In[Top.of][i] = t /\ Become([Top EXCEPT !.n = i])
    <3>1. PICK i \in 1 .. Len(In[Main]) : In[Main][i] = t /\ Become([Top EXCEPT !.n = i])
      BY <1>1, <2>3
    <3>2. i \in 1 .. Len(In[Main]) + 1 /\ i <= Len(In[Main]) BY <1>1
    <3>3. i \in MainTo[Top.n] BY <1>1, <2>1, <2>2, <3>1, <3>2 DEF MainTo
    <3> QED BY <1>7, <2>1, <3>1, <3>2, <3>3
  <2>4. CASE Return("fault")
    <3>1. MainScope!Fail("fault")
      BY <1>1, <1>3, <2>1, <2>4 DEF MainScope!Fail, MainScope!MayEnd, MainScope!Return
    <3> QED BY <1>3, <2>1, <2>4, <3>1
  <2> QED BY <2>2, <2>3, <2>4
<1>10. CASE Exit
  <2>1. /\ Return("ok") /\ signal # "run" /\ cancelled' = cancelled /\ ended' = ended
        /\ "exit" \in Then[Current]
    BY <1>10 DEF Exit, Returned
  <2>2. Top.n \in MainWith("exit") BY <1>1, <2>1 DEF MainWith
  <2>3. MainScope!Exit
    BY <1>1, <1>3, <2>1, <2>2 DEF MainScope!Exit, MainScope!MayEnd, MainScope!Return
  <2> QED BY <1>3, <2>1, <2>3
<1>11. CASE End
  <2>1. /\ Return("ok") /\ signal # "run" /\ cancelled' = cancelled /\ ended' = TRUE
        /\ "end" \in Then[Current]
    BY <1>11 DEF End, Returned
  <2>2. Top.n \in MainWith("end") BY <1>1, <2>1 DEF MainWith
  <2>3. MainScope!End BY <1>1, <1>3, <2>1, <2>2 DEF MainScope!End, MainScope!Return
  <2> QED BY <1>3, <2>1, <2>3
<1>12. CASE Propagate("scope")
  <2>1. /\ Return(signal) /\ signal \in {"fault", "timeout", "cancelled"} /\ cancelled' = cancelled
        /\ ended' = ended /\ signal # "run"
    BY <1>12 DEF Propagate, Returned, Errors
  <2>2. signal = "cancelled" => cancelled BY DEF MainInv
  <2>3. MainScope!Fail(signal)
    BY <1>1, <1>3, <2>1, <2>2 DEF MainScope!Fail, MainScope!MayEnd, MainScope!Return
  <2> QED BY <1>3, <2>1, <2>2, <2>3
<1> QED BY <1>4, <1>5, <1>6, <1>8, <1>9, <1>10, <1>11, <1>12 DEF Scoping

\* Every step of the calls is one of the walk, or none.
LEMMA StepWalks ==
    ASSUME StackInv, MainInv, [Next]_vars
    PROVE  Walked /\ MainInv'
<1>1. CASE UNCHANGED vars BY <1>1 DEF vars, Walked, MainScope!vars, MainInv
<1>2. CASE Cancel
  <2>1. MainScope!Cancel BY <1>2 DEF Cancel, MainScope!Cancel
  <2> QED BY <1>2, <2>1 DEF Cancel, Walked, MainScope!Next, MainInv
<1>3. CASE Next /\ ~ Cancel
  <2>1. Len(stack) \in Nat /\ (stack # <<>> <=> Len(stack) > 0) BY Innermost
  <2>2. stack # <<>>
    <3>1. CASE Timeout BY <3>1 DEF Timeout, Runs
    <3>2. CASE ~ Timeout BY <1>3, <3>2, StepIsOneCall
    <3> QED BY <3>1, <3>2
  <2>3. CASE Len(stack) > 1 BY <1>3, <2>3, InsideWalked
  <2>4. CASE Len(stack) = 1
    <3>1. Top.at = "scope" BY <2>4, Alone
    <3> QED BY <1>3, <2>2, <2>4, <3>1, StepOfScope, AloneWalked
  <2>5. Len(stack) > 1 \/ Len(stack) = 1
    <3>1. Len(stack) \in Nat /\ Len(stack) > 0 BY <2>1, <2>2
    <3> QED BY <3>1, Lengths
  <2> QED BY <2>3, <2>4, <2>5
<1> QED BY <1>1, <1>2, <1>3

\* The main scope is walked as if its tasks had no inside (exec_scope), for every
\* workflow: whatever scopes, loops, tries and extensions are nested in them.
THEOREM WalkKept == Spec => RefinesWalk
<1>1. Init => MainScope!Init /\ MainInv
  <2> SUFFICES ASSUME Init PROVE MainScope!Init /\ MainInv
    OBVIOUS
  <2>1. Len(stack) = 1 /\ stack # <<>> /\ stack[1] = Calling("scope", Main, 1) BY DEF Init
  <2>2. Calling("scope", Main, 1).at = "scope" /\ Calling("scope", Main, 1).of = Main
        /\ Calling("scope", Main, 1).n = 1
    BY DEF Calling
  <2>3. MainInv BY <2>1, <2>2 DEF Init, MainInv
  <2>4. MainScope!Init BY <2>1, <2>2 DEF Init, MainScope!Init
  <2> QED BY <2>3, <2>4
<1>2. Inv /\ MainInv /\ [Next]_vars => MainInv' /\ [MainScope!Next]_(MainScope!vars)
  BY StepWalks DEF Inv, Walked
<1> QED BY <1>1, <1>2, Invariance, PTL DEF Spec, RefinesWalk, MainScope!Spec

=============================================================================
