---------------------------- MODULE ForkJoinProofs ----------------------------
(***************************************************************************)
(* Proofs about ForkJoin, for every set of branches: types, what the       *)
(* context may contain, the error of a join, and the quiet after a return. *)
(***************************************************************************)
EXTENDS ForkJoin, FiniteSetTheorems, TLAPS

-----------------------------------------------------------------------------
\* A step of a branch keeps the types (all handlers of exec_task).
LEMMA StepType ==
    ASSUME TypeOK, NEW b \in Branch, Step(b)
    PROVE  TypeOK'
<1> USE BranchAssumption DEF TypeOK, Context, Pcs, Goes, Ends, Enter, Leave
<1>1. CASE Guard(b) BY <1>1 DEF Guard
<1>2. CASE Skip(b) BY <1>2 DEF Skip
<1>3. CASE Fail(b)
  <2>1. CASE Ends(b, "start", "failed") BY <1>3, <2>1 DEF Fail
  <2>2. CASE Ends(b, "body", "failed") BY <1>3, <2>2 DEF Fail
  <2> QED BY <1>3, <2>1, <2>2 DEF Fail
<1>4. CASE LockToRead(b) BY <1>4 DEF LockToRead
<1>5. CASE Read(b) BY <1>5 DEF Read
<1>6. CASE Body(b) BY <1>6 DEF Body
<1>7. CASE LockToReread(b) BY <1>7 DEF LockToReread
<1>8. CASE Reread(b) BY <1>8 DEF Reread
<1>9. CASE RejectExport(b) BY <1>9 DEF RejectExport
<1>10. CASE LockToWrite(b) BY <1>10 DEF LockToWrite
<1>11. CASE Write(b) BY <1>11 DEF Write
<1>12. CASE Drop(b) BY <1>12 DEF Drop
<1> QED BY <1>1, <1>2, <1>3, <1>4, <1>5, <1>6, <1>7, <1>8, <1>9, <1>10, <1>11, <1>12 DEF Step

\* A parent that joins takes a branch (JoinSet::join_next).
LEMMA JoinedType ==
    ASSUME TypeOK, fork.taken < Len(order)
    PROVE  /\ fork.taken \in Nat
           /\ fork.taken + 1 \in 1 .. Len(order)
           /\ Joined \in Branch
<1>1. order \in Seq(Branch) BY DEF TypeOK
<1>2. fork.taken \in Nat BY DEF TypeOK, ForkState
<1>3. fork.taken + 1 \in 1 .. Len(order) BY <1>1, <1>2
<1> QED BY <1>1, <1>2, <1>3 DEF Joined

\* The state of a fork, field by field.
LEMMA ForkStateType ==
    ASSUME NEW f \in ForkState,
           NEW p \in {"joining", "shutdown", "returned", "dropped"},
           NEW t \in Nat, NEW r \in Branch \cup {Null}
    PROVE  [f EXCEPT !.pc = p, !.taken = t, !.result = r] \in ForkState
<1> DEFINE f1 == [f EXCEPT !.pc = p]
           f2 == [f1 EXCEPT !.taken = t]
           f3 == [f2 EXCEPT !.result = r]
<1>1. f1 \in ForkState BY DEF ForkState
<1>2. f2 \in ForkState
  <2> HIDE DEF f1
  <2> QED BY <1>1 DEF ForkState
<1>3. f3 \in ForkState
  <2> HIDE DEF f2
  <2> QED BY <1>2 DEF ForkState
<1>4. [f EXCEPT !.pc = p, !.taken = t, !.result = r] = f3 BY DEF ForkState
<1> QED BY <1>3, <1>4

\* The type invariant is inductive.
LEMMA TypeInductive ==
    /\ Init => TypeOK
    /\ TypeOK /\ [Next]_vars => TypeOK'
<1>2. Init => TypeOK
  BY BranchAssumption DEF Init, TypeOK, Context, Pcs, ForkState
<1>3. ASSUME TypeOK, [Next]_vars PROVE TypeOK'
  <2>1. CASE \E b \in Branch : Step(b) BY <1>3, <2>1, StepType
  <2>2. CASE JoinFirst
    <3>1. Joined \in Branch BY <1>3, <2>2, JoinedType DEF JoinFirst
    <3>2. fork' \in ForkState
      BY <1>3, <2>2, <3>1, ForkStateType DEF JoinFirst, TypeOK
    <3> QED BY <1>3, <2>2, <3>2 DEF TypeOK, JoinFirst
  <2>3. CASE Shutdown BY <1>3, <2>3 DEF TypeOK, Shutdown, ForkState
  <2>4. CASE JoinNext
    <3>1. Joined \in Branch /\ fork.taken \in Nat
      BY <1>3, <2>4, JoinedType DEF JoinNext
    <3> DEFINE p == IF fork.taken + 1 = Cardinality(Branch) THEN "returned" ELSE "joining"
               r == IF fork.result = Null /\ pc[Joined] = "failed"
                    THEN Joined ELSE fork.result
    <3> DEFINE t == fork.taken + 1
    <3>2. p \in {"joining", "shutdown", "returned", "dropped"} /\ t \in Nat BY <3>1
    <3>3. fork \in ForkState /\ r \in Branch \cup {Null}
      BY <1>3, <3>1 DEF TypeOK, ForkState
    <3>4. fork' = [fork EXCEPT !.pc = p, !.taken = t, !.result = r]
      BY <2>4 DEF JoinNext
    <3> HIDE DEF p, t, r
    <3>5. fork' \in ForkState BY <3>1, <3>2, <3>3, <3>4, ForkStateType
    <3> QED BY <1>3, <2>4, <3>5 DEF TypeOK, JoinNext
  <2>5. CASE DropFork BY <1>3, <2>5 DEF TypeOK, DropFork, ForkState
  <2>6. CASE UNCHANGED vars BY <1>3, <2>6 DEF TypeOK, vars
  <2> QED BY <1>3, <2>1, <2>2, <2>3, <2>4, <2>5, <2>6 DEF Next, Parent
<1> QED BY <1>2, <1>3

\* Every variable of a fork keeps its type (task_fork and its branches).
THEOREM ForkTypes == Spec => []TypeOK
BY TypeInductive, PTL DEF Spec

-----------------------------------------------------------------------------
\* What one step of a branch does, whichever step it is: only this branch
\* moves, only while it runs, and it enters `order` as it finishes.
LEMMA StepShape ==
    ASSUME TypeOK, NEW b \in Branch, Step(b)
    PROVE  /\ ~ Gone(b)
           /\ \A c \in Branch \ {b} : pc'[c] = pc[c]
           /\ fork' = fork
           /\ \/ order' = Append(order, b) /\ Finished(b)'
              \/ order' = order /\ ~ Finished(b)'
<1> USE DEF TypeOK, Goes, Ends, Finished, Gone
<1>1. CASE Guard(b) BY <1>1 DEF Guard
<1>2. CASE Skip(b) BY <1>2 DEF Skip
<1>3. CASE Fail(b) BY <1>3 DEF Fail
<1>4. CASE LockToRead(b) BY <1>4 DEF LockToRead
<1>5. CASE Read(b) BY <1>5 DEF Read
<1>6. CASE Body(b) BY <1>6 DEF Body
<1>7. CASE LockToReread(b) BY <1>7 DEF LockToReread
<1>8. CASE Reread(b) BY <1>8 DEF Reread
<1>9. CASE RejectExport(b) BY <1>9 DEF RejectExport
<1>10. CASE LockToWrite(b) BY <1>10 DEF LockToWrite
<1>11. CASE Write(b) BY <1>11 DEF Write
<1>12. CASE Drop(b) BY <1>12 DEF Drop
<1> QED BY <1>1, <1>2, <1>3, <1>4, <1>5, <1>6, <1>7, <1>8, <1>9, <1>10, <1>11, <1>12 DEF Step

\* A step of a branch, of the parent, or none: a branch that is gone stays.
LEMMA GoneStays ==
    ASSUME TypeOK, [Next]_vars, NEW c \in Branch, Gone(c)
    PROVE  pc'[c] = pc[c]
<1>1. CASE \E b \in Branch : Step(b) BY <1>1, StepShape
<1>2. CASE pc' = pc BY <1>2
<1> QED BY <1>1, <1>2 DEF Next, Parent, JoinFirst, Shutdown, JoinNext, DropFork, vars

\* A fork is a join or a race, once and for all (fork.compete of the definition).
LEMMA KindStays ==
    ASSUME TypeOK, [Next]_vars
    PROVE  fork'.kind = fork.kind
<1>1. CASE \E b \in Branch : Step(b) BY <1>1, StepShape
<1>2. CASE Parent \/ DropFork
  BY <1>2 DEF Parent, JoinFirst, Shutdown, JoinNext, DropFork, TypeOK, ForkState
<1>3. CASE fork' = fork BY <1>3
<1> QED BY <1>1, <1>2, <1>3 DEF Next, vars

\* What a branch has read is in the context, and what it will write is that,
\* with its own export: the strengthening of ExportsOfDone.
Exported(p, S) == \A c \in S : p[c] = "done"

ExportInv ==
    /\ Exported(pc, context)
    /\ \A b \in Branch : Exported(pc, seen[b])
    /\ \A b \in Branch : Exported(pc, value[b] \ {b})

\* A set of ended branches is one for ever (a task runs once).
LEMMA ExportedStays ==
    ASSUME TypeOK, [Next]_vars, NEW S \in SUBSET Branch, Exported(pc, S)
    PROVE  Exported(pc', S)
BY GoneStays DEF Exported, Gone

\* ExportInv is inductive: a branch that writes is done, and so are those
\* whose exports it writes.
LEMMA ExportInductive ==
    /\ Init => ExportInv
    /\ TypeOK /\ ExportInv /\ [Next]_vars => ExportInv'
<1>1. Init => ExportInv BY DEF Init, ExportInv, Exported
<1>2. ASSUME TypeOK, ExportInv, [Next]_vars PROVE ExportInv'
  <2>0. TypeOK' BY <1>2, TypeInductive
  <2>1. Exported(pc', context')
    <3>1. CASE UNCHANGED context
      BY <1>2, <3>1, ExportedStays DEF ExportInv, TypeOK, Context, Exported
    <3>2. ASSUME NEW b \in Branch, Write(b) PROVE Exported(pc', context')
      <4>1. value[b] \ {b} \in SUBSET Branch BY <1>2 DEF TypeOK, Context
      <4>2. Exported(pc', value[b] \ {b}) BY <1>2, <4>1, ExportedStays DEF ExportInv, Exported
      <4>3. context' = value[b] /\ pc'[b] = "done"
        BY <1>2, <3>2 DEF Write, Ends, Goes, TypeOK
      <4>4. value' = value BY <3>2 DEF Write
      <4> QED BY <4>2, <4>3, <4>4 DEF Exported
    <3> QED
      BY <1>2, <3>1, <3>2 DEF Next, Step, Parent, Guard, Skip, Fail, LockToRead, Read, Body,
         LockToReread, Reread, RejectExport, LockToWrite, Drop, JoinFirst, Shutdown,
         JoinNext, DropFork, vars
  <2>2. ASSUME NEW b \in Branch PROVE Exported(pc', seen'[b])
    <3>1. seen'[b] = seen[b] \/ seen'[b] = context
      BY <1>2, <2>2 DEF Next, Step, Parent, Guard, Skip, Fail, LockToRead, Read, Body,
         LockToReread, Reread, RejectExport, LockToWrite, Write, Drop, JoinFirst, Shutdown,
         JoinNext, DropFork, vars, TypeOK
    <3>2. Exported(pc, seen'[b]) BY <1>2, <3>1 DEF ExportInv
    <3> QED BY <1>2, <2>0, <3>2, GoneStays DEF Exported, Gone, TypeOK, Context
  <2>3. ASSUME NEW b \in Branch PROVE Exported(pc', value'[b] \ {b})
    <3>1. value'[b] = value[b] \/ value'[b] = context \/ value'[b] = seen[b] \cup {b}
      BY <1>2, <2>3 DEF Next, Step, Parent, Guard, Skip, Fail, LockToRead, Read, Body,
         LockToReread, Reread, RejectExport, LockToWrite, Write, Drop, JoinFirst, Shutdown,
         JoinNext, DropFork, vars, TypeOK
    <3>2. Exported(pc, value'[b] \ {b}) BY <1>2, <3>1 DEF ExportInv, Exported
    <3> QED BY <1>2, <2>0, <3>2, GoneStays DEF Exported, Gone, TypeOK, Context
  <2> QED BY <2>1, <2>2, <2>3 DEF ExportInv, Exported
<1> QED BY <1>1, <1>2

\* Only a task that ran to its end has its export in the context, or in what
\* another branch has read of it (exec_task).
THEOREM ExportsDone == Spec => []ExportsOfDone
<1>1. TypeOK /\ ExportInv => ExportsOfDone BY DEF ExportInv, Exported, ExportsOfDone
<1> QED BY <1>1, TypeInductive, ExportInductive, PTL DEF Spec

-----------------------------------------------------------------------------
\* A sequence without repetition that is as long as a finite set of which it
\* has its elements contains them all (counting the results of a join_next).
LEMMA CoversAll ==
    ASSUME NEW s \in Seq(Branch),
           \A i, j \in 1 .. Len(s) : s[i] = s[j] => i = j,
           Cardinality(Branch) <= Len(s),
           NEW b \in Branch
    PROVE  \E i \in 1 .. Len(s) : s[i] = b
<1> DEFINE D == 1 .. Len(s)
           R == {s[i] : i \in D}
<1>0. Len(s) \in Nat OBVIOUS
<1>1. IsFiniteSet(D) /\ Cardinality(D) = Len(s)
  <2>1. \A n \in Nat : IsFiniteSet(1 .. n) /\ Cardinality(1 .. n) = n
    BY FS_Interval
  <2> QED BY <1>0, <2>1
<1>2. R \subseteq Branch OBVIOUS
<1>3. IsFiniteSet(R) /\ Cardinality(R) <= Cardinality(Branch)
  BY <1>2, BranchAssumption, FS_Subset
<1>4. Cardinality(R) = Cardinality(D)
  <2>1. [i \in D |-> s[i]] \in Bijection(D, R)
    BY DEF Bijection, Injection, Surjection, IsInjective
  <2>2. ExistsBijection(D, R) BY <2>1 DEF ExistsBijection
  <2> HIDE DEF D, R
  <2> QED BY <1>1, <1>3, <2>2, FS_Bijection
<1>5. Cardinality(R) = Cardinality(Branch)
  BY <1>0, <1>1, <1>3, <1>4, BranchAssumption, FS_CardinalityType
<1>6. R = Branch BY <1>2, <1>5, BranchAssumption, FS_Subset
<1> QED BY <1>6

\* The finished branches are in `order`, each once, and the parent takes them
\* from there.
OrderInv ==
    /\ \A i \in 1 .. Len(order) : Finished(order[i])
    /\ \A i, j \in 1 .. Len(order) : order[i] = order[j] => i = j
    /\ fork.taken <= Len(order)

\* OrderInv is inductive (JoinSet).
LEMMA OrderInductive ==
    /\ Init => OrderInv
    /\ TypeOK /\ OrderInv /\ [Next]_vars => OrderInv'
<1>1. Init => OrderInv BY DEF Init, OrderInv
<1>2. ASSUME TypeOK, OrderInv, [Next]_vars PROVE OrderInv'
  <2>0. order \in Seq(Branch) /\ fork.taken \in Nat BY <1>2 DEF TypeOK, ForkState
  <2>1. ASSUME NEW b \in Branch, Step(b) PROVE OrderInv'
    <3> DEFINE Ended(c) == pc'[c] \in {"done", "failed"}
    <3>0. \A i \in 1 .. Len(order) : Ended(order[i])
      BY <1>2, <2>0, GoneStays DEF OrderInv, Finished, Gone
    <3>1. ~ Gone(b) /\ fork' = fork BY <1>2, <2>1, StepShape
    <3>2. CASE order' = order BY <1>2, <3>0, <3>1, <3>2 DEF OrderInv, Finished
    <3>3. CASE order' = Append(order, b) /\ Finished(b)'
      <4>1. Len(order') = Len(order) + 1 /\ order'[Len(order) + 1] = b BY <2>0, <3>3
      <4>2. \A i \in 1 .. Len(order) : order'[i] = order[i] BY <2>0, <3>3
      <4>3. \A i \in 1 .. Len(order) : order[i] # b
        BY <1>2, <3>1 DEF OrderInv, Finished, Gone
      <4>4. \A i \in 1 .. Len(order') : i \in 1 .. Len(order) \/ i = Len(order) + 1
        BY <2>0, <4>1
      <4>5. \A i \in 1 .. Len(order') : Ended(order'[i])
        BY <3>0, <3>3, <4>1, <4>2, <4>4 DEF Finished
      <4>6. \A i, j \in 1 .. Len(order') : order'[i] = order'[j] => i = j
        BY <1>2, <4>1, <4>2, <4>3, <4>4 DEF OrderInv
      <4>7. fork'.taken <= Len(order') BY <1>2, <2>0, <3>1, <4>1 DEF OrderInv
      <4> QED BY <4>5, <4>6, <4>7 DEF OrderInv, Finished
    <3> QED BY <1>2, <2>1, <3>2, <3>3, StepShape
  <2>2. CASE UNCHANGED <<pc, order>> /\ fork'.taken <= Len(order)
    BY <1>2, <2>2 DEF OrderInv, Finished
  <2>3. CASE JoinFirst BY <2>0, <2>2, <2>3 DEF JoinFirst
  <2>4. CASE Shutdown BY <1>2, <2>2, <2>4 DEF Shutdown, OrderInv, TypeOK, ForkState
  <2>5. CASE JoinNext BY <2>0, <2>2, <2>5 DEF JoinNext
  <2>6. CASE DropFork BY <1>2, <2>2, <2>6 DEF DropFork, OrderInv, TypeOK, ForkState
  <2>7. CASE UNCHANGED vars BY <1>2, <2>2, <2>7 DEF vars, OrderInv
  <2> QED BY <1>2, <2>1, <2>3, <2>4, <2>5, <2>6, <2>7 DEF Next, Parent
<1> QED BY <1>1, <1>2

\* What a join has taken so far: no error, or the first one; and all branches
\* when it returns (the loop of task_fork).
JoinInv ==
    fork.kind = "join" =>
        /\ fork.pc # "shutdown"
        /\ fork.pc = "returned" => fork.taken = Cardinality(Branch)
        /\ IF fork.result = Null
           THEN \A i \in 1 .. fork.taken : pc[order[i]] = "done"
           ELSE \E i \in 1 .. fork.taken :
                    /\ order[i] = fork.result
                    /\ pc[order[i]] = "failed"
                    /\ \A j \in 1 .. i - 1 : pc[order[j]] = "done"

\* JoinInv is inductive.
LEMMA JoinInductive ==
    /\ Init => JoinInv
    /\ TypeOK /\ OrderInv /\ JoinInv /\ [Next]_vars => JoinInv'
<1>1. Init => JoinInv BY DEF Init, JoinInv
<1>2. ASSUME TypeOK, OrderInv, JoinInv, [Next]_vars, fork.kind = "join" PROVE JoinInv'
  <2>0. order \in Seq(Branch) /\ fork.taken \in Nat /\ fork.taken <= Len(order)
    BY <1>2 DEF TypeOK, ForkState, OrderInv
  <2>1. ASSUME fork' = fork, \A i \in 1 .. fork.taken : order'[i] = order[i]
        PROVE  JoinInv'
    <3>1. \A i \in 1 .. fork.taken : pc'[order[i]] = pc[order[i]]
      BY <1>2, <2>0, GoneStays DEF OrderInv, Finished, Gone
    <3>2. CASE fork.result = Null BY <1>2, <2>1, <3>1, <3>2 DEF JoinInv
    <3>3. CASE fork.result # Null
      <4>1. PICK i \in 1 .. fork.taken :
                /\ order[i] = fork.result
                /\ pc[order[i]] = "failed"
                /\ \A j \in 1 .. i - 1 : pc[order[j]] = "done"
        BY <1>2, <3>3 DEF JoinInv
      <4>2. \A j \in 1 .. i - 1 : j \in 1 .. fork.taken BY <2>0
      <4>3. /\ order'[i] = fork.result
            /\ pc'[order'[i]] = "failed"
            /\ \A j \in 1 .. i - 1 : pc'[order'[j]] = "done"
        BY <2>1, <3>1, <4>1, <4>2
      <4> QED BY <1>2, <2>1, <3>3, <4>3 DEF JoinInv
    <3> QED BY <3>2, <3>3
  <2>2. ASSUME NEW b \in Branch, Step(b) PROVE JoinInv'
    <3>1. fork' = fork /\ (order' = order \/ order' = Append(order, b))
      BY <1>2, <2>2, StepShape
    <3> QED BY <2>0, <2>1, <3>1
  <2>3. CASE JoinNext
    <3> DEFINE n == fork.taken + 1
    <3>1. /\ fork.taken < Len(order) /\ UNCHANGED <<pc, order>> /\ fork'.taken = n
          /\ fork'.pc \in {"joining", "returned"}
          /\ fork'.pc = "returned" => n = Cardinality(Branch)
          /\ fork'.result = IF fork.result = Null /\ pc[order[n]] = "failed"
                            THEN order[n] ELSE fork.result
      BY <2>3 DEF JoinNext, Joined
    <3>2. order[n] \in Branch /\ Finished(order[n])
      BY <1>2, <2>0, <3>1 DEF OrderInv
    <3>3. order[n] # Null BY <3>2, BranchAssumption
    <3>4. \A i \in 1 .. n : i \in 1 .. fork.taken \/ i = n BY <2>0
    <3>5. n \in 1 .. n /\ n - 1 = fork.taken BY <2>0
    <3>6. CASE fork.result = Null /\ pc[order[n]] = "failed"
      <4>1. \A j \in 1 .. n - 1 : pc[order[j]] = "done"
        BY <1>2, <3>5, <3>6 DEF JoinInv
      <4> HIDE DEF n
      <4> QED BY <1>2, <3>1, <3>3, <3>5, <3>6, <4>1 DEF JoinInv
    <3>7. CASE fork.result = Null /\ pc[order[n]] # "failed"
      <4>1. \A i \in 1 .. n : pc[order[i]] = "done"
        BY <1>2, <3>2, <3>4, <3>7 DEF JoinInv, Finished
      <4> HIDE DEF n
      <4> QED BY <1>2, <3>1, <3>7, <4>1 DEF JoinInv
    <3>8. CASE fork.result # Null
      <4>1. PICK i \in 1 .. fork.taken :
                /\ order[i] = fork.result
                /\ pc[order[i]] = "failed"
                /\ \A j \in 1 .. i - 1 : pc[order[j]] = "done"
        BY <1>2, <3>8 DEF JoinInv
      <4>2. i \in 1 .. n BY <2>0
      <4> HIDE DEF n
      <4> QED BY <1>2, <3>1, <3>8, <4>1, <4>2 DEF JoinInv
    <3> QED BY <3>6, <3>7, <3>8
  <2>4. CASE DropFork BY <1>2, <2>4 DEF DropFork, JoinInv, TypeOK, ForkState
  <2>5. CASE JoinFirst BY <1>2, <2>5 DEF JoinFirst
  <2>6. CASE Shutdown BY <1>2, <2>6 DEF Shutdown, JoinInv
  <2>7. CASE UNCHANGED vars BY <2>1, <2>7 DEF vars
  <2> QED BY <1>2, <2>2, <2>3, <2>4, <2>5, <2>6, <2>7 DEF Next, Parent
<1>3. ASSUME TypeOK, [Next]_vars, fork.kind = "race" PROVE JoinInv'
  BY <1>3, KindStays DEF JoinInv
<1>4. TypeOK => fork.kind \in {"join", "race"} BY DEF TypeOK, ForkState, Kinds
<1> QED BY <1>1, <1>2, <1>3, <1>4

\* A join that returned has all branches in its results.
LEMMA ReturnedAll ==
    ASSUME TypeOK, OrderInv, JoinInv, fork.kind = "join", fork.pc = "returned", NEW b \in Branch
    PROVE  \E i \in 1 .. fork.taken : order[i] = b /\ Finished(b)
<1>1. order \in Seq(Branch) /\ fork.taken \in Nat BY DEF TypeOK, ForkState
<1>2. fork.taken = Cardinality(Branch) /\ fork.taken <= Len(order)
  BY DEF JoinInv, OrderInv
<1>3. PICK i \in 1 .. Len(order) : order[i] = b BY <1>1, <1>2, CoversAll DEF OrderInv
<1>4. Len(order) <= Cardinality(Branch)
  <2> DEFINE D == 1 .. Len(order)
  <2>1. IsFiniteSet(D) /\ Cardinality(D) = Len(order)
    <3>1. \A n \in Nat : IsFiniteSet(1 .. n) /\ Cardinality(1 .. n) = n
      BY FS_Interval
    <3> QED BY <1>1, <3>1
  <2>2. [j \in D |-> order[j]] \in Injection(D, Branch)
    BY <1>1 DEF OrderInv, Injection, IsInjective
  <2> HIDE DEF D
  <2>4. Cardinality(D) <= Cardinality(Branch)
    BY <2>2, BranchAssumption, FS_Injection
  <2> QED BY <2>1, <2>4
<1>5. i \in 1 .. fork.taken BY <1>1, <1>2, <1>3, <1>4
<1>6. Finished(b) BY <1>3 DEF OrderInv
<1> QED BY <1>3, <1>5, <1>6

\* A join waits for all its branches and returns the first error (task_fork).
THEOREM JoinsAll == Spec => []FirstErrorWins
<1>1. ASSUME TypeOK, OrderInv, JoinInv PROVE FirstErrorWins
  <2> SUFFICES ASSUME fork.kind = "join", fork.pc = "returned" PROVE FirstErrorWins
    BY DEF FirstErrorWins
  <2>0. order \in Seq(Branch) /\ fork.taken \in Nat /\ fork.taken <= Len(order)
    BY <1>1 DEF TypeOK, ForkState, OrderInv
  <2>1. \A b \in Branch : \E i \in 1 .. fork.taken : order[i] = b /\ Finished(b)
    BY <1>1, ReturnedAll
  <2>2. CASE fork.result = Null BY <1>1, <2>1, <2>2 DEF JoinInv, FirstErrorWins
  <2>3. CASE fork.result # Null
    <3>1. 1 .. fork.taken \subseteq 1 .. Len(order) BY <2>0
    <3> QED BY <1>1, <2>1, <2>3, <3>1 DEF JoinInv, FirstErrorWins
  <2> QED BY <2>2, <2>3
<1> QED BY <1>1, TypeInductive, OrderInductive, JoinInductive, PTL DEF Spec

-----------------------------------------------------------------------------
\* The losers of a race are gone when it returns (JoinSet::shutdown).
RaceInv == (fork.kind = "race" /\ fork.pc = "returned") => \A b \in Branch : Gone(b)

\* RaceInv is inductive.
LEMMA RaceInductive ==
    /\ Init => RaceInv
    /\ TypeOK /\ RaceInv /\ [Next]_vars => RaceInv'
<1>1. Init => RaceInv BY DEF Init, RaceInv
<1>2. ASSUME TypeOK, RaceInv, [Next]_vars PROVE RaceInv'
  <2>1. ASSUME NEW b \in Branch, Step(b) PROVE RaceInv'
    BY <1>2, <2>1, StepShape DEF RaceInv
  <2>2. CASE JoinFirst BY <2>2 DEF JoinFirst, RaceInv
  <2>3. CASE Shutdown BY <2>3 DEF Shutdown, RaceInv, Gone
  <2>4. CASE JoinNext BY <2>4 DEF JoinNext, RaceInv
  <2>5. CASE DropFork BY <1>2, <2>5 DEF DropFork, RaceInv, TypeOK, ForkState
  <2>6. CASE UNCHANGED vars BY <1>2, <2>6 DEF vars, RaceInv, Gone
  <2> QED BY <1>2, <2>1, <2>2, <2>3, <2>4, <2>5, <2>6 DEF Next, Parent
<1> QED BY <1>1, <1>2

\* Behind its return nothing of a fork writes the context any more.
THEOREM ReturnIsQuiet == Spec => QuietAfterReturn
<1>1. ASSUME TypeOK, OrderInv, JoinInv, RaceInv, [Next]_vars, fork.pc = "returned"
      PROVE  UNCHANGED <<context, pc>>
  <2>1. \A b \in Branch : Gone(b)
    <3>1. CASE fork.kind = "race" BY <1>1, <3>1 DEF RaceInv
    <3>2. CASE fork.kind = "join"
      BY <1>1, <3>2, ReturnedAll DEF Finished, Gone
    <3>3. fork.kind \in {"join", "race"} BY <1>1 DEF TypeOK, ForkState, Kinds
    <3> QED BY <3>1, <3>2, <3>3
  <2>2. \A b \in Branch : ~ Step(b) BY <1>1, <2>1, StepShape
  <2> QED BY <1>1, <2>2 DEF Next, Parent, JoinFirst, Shutdown, JoinNext, DropFork, vars
<1>2. (TypeOK /\ OrderInv /\ JoinInv /\ RaceInv) /\ [Next]_vars
        => [fork.pc = "returned" => UNCHANGED <<context, pc>>]_vars
  BY <1>1
<1> QED BY <1>2, TypeInductive, OrderInductive, JoinInductive, RaceInductive, PTL
        DEF Spec, QuietAfterReturn

=============================================================================
