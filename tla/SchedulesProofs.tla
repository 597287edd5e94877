--------------------------- MODULE SchedulesProofs ---------------------------
(* Proofs about Schedules: what a cancelled timer loop may still start.    *)
EXTENDS Schedules, TLAPS

\* A cancellation that returned has stored the flag, for good.
FlagInv == owner \in {"cancelling", "cancelled", "joining", "gone"} => flag = TRUE

\* A timer loop that started an execution behind the cancellation is on its way
\* to its next look at the flag, or over.
Leaving(l) ==
    /\ late[l] <= 1
    /\ late[l] # 0 => flag = TRUE /\ pc[l] \in {"run", "next", "check", "done"}

LateInv == FlagInv /\ \A l \in Timed : Leaving(l)

\* The types of what the proof is about.
LateType == pc \in [Loop -> Pcs] /\ late \in [Loop -> Nat]

\* Both are inductive; the flag decides every step behind it (sleep_or_cancel).
LEMMA LateInductive ==
    /\ Init => LateType /\ LateInv
    /\ LateType /\ LateInv /\ [Next]_vars => LateType' /\ LateInv'
<1> USE LoopAssumption DEF LateType, LateInv, FlagInv, Leaving, Pcs, Timed
<1>1. Init => LateType /\ LateInv BY DEF Init
<1>2. ASSUME LateType, LateInv, [Next]_vars PROVE LateType' /\ LateInv'
  <2>1. ASSUME NEW l \in Loop, Step(l) PROVE LateType' /\ LateInv'
    <3> USE <1>2 DEF Goes, Disarm, Again
    <3>1. CASE Start(l) BY <3>1 DEF Start
    <3>2. CASE NextTime(l) BY <3>2 DEF NextTime
    <3>3. CASE Check(l) BY <3>3 DEF Check
    <3>4. CASE Arm(l) BY <3>4 DEF Arm
    <3>5. CASE Wake(l) BY <3>5 DEF Wake
    <3>6. CASE Receive(l) BY <3>6 DEF Receive
    <3>7. CASE SeeCancel(l) BY <3>7 DEF SeeCancel
    <3>8. CASE Fire(l) BY <3>8 DEF Fire
    <3>9. CASE EndRun(l) BY <3>9 DEF EndRun
    <3> QED BY <2>1, <3>1, <3>2, <3>3, <3>4, <3>5, <3>6, <3>7, <3>8, <3>9 DEF Step
  <2>2. CASE Owner
    BY <1>2, <2>2 DEF Owner, StoreFlag, NotifyWaiters, Join, Joined
  <2>3. CASE \E e \in Event : Publish(e) BY <1>2, <2>3 DEF Publish
  <2>4. CASE UNCHANGED vars BY <1>2, <2>4 DEF vars
  <2> QED BY <1>2, <2>1, <2>2, <2>3, <2>4 DEF Next
<1> QED BY <1>1, <1>2

\* A cancelled timer loop starts one execution more at most (sleep_or_cancel).
THEOREM OneLateAtMost == Spec => []AtMostOneLate
<1>1. LateInv => AtMostOneLate BY DEF LateInv, Leaving, AtMostOneLate
<1> QED BY <1>1, LateInductive, PTL DEF Spec

=============================================================================
