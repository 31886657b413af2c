-------------------------- MODULE ProcessesProofs --------------------------
(***************************************************************************)
(* Proofs about the programs that MCProcesses checks, each for every value *)
(* of its constants: the pipeline of commands, the System V semaphores,    *)
(* the relay from one FIFO to another, the System V message queue, and the *)
(* parsing of the line that the pipeline is started from.                  *)
(*                                                                         *)
(* The theorems are about the specification of each program by itself; the *)
(* properties have the names under which MCProcesses checks them.          *)
(***************************************************************************)
EXTENDS MCProcesses, TLAPS, FiniteSetTheorems, SequenceTheorems, WellFoundedInduction

(***************************************************************************)
(* Pipeline, for every number of commands, every pipe capacity and every   *)
(* output.                                                                 *)
(***************************************************************************)

\* The child that is alive is the one the parent waits for.
LEMMA AliveIsCurrent ==
  ASSUME IInv, NEW k \in Command, proc[k] \in {"forked", "running"}
  PROVE  k = i /\ pc = "wait"
BY PipelineAssumption
   DEF IInv, TypeOK, PositionOK, Command, PipelineAssumption

\* Every step keeps the types.
LEMMA TypeStep == IInv /\ [Next]_vars => TypeOK'
<1> SUFFICES ASSUME IInv, [Next]_vars  PROVE TypeOK'
  OBVIOUS
<1> USE PipelineAssumption DEF PipelineAssumption, Command, parent
<1>0. TypeOK /\ PositionOK /\ ResultOK
  BY DEF IInv
<1> USE <1>0 DEF TypeOK
<1>1. CASE Fork
  <2>1. i \in Command
    BY <1>1 DEF Fork, PositionOK
  <2>2. stdin' \in [Command -> 0 .. N]
    BY <1>1, <2>1 DEF Fork
  <2>3. proc' \in [Command -> {"none", "forked", "running", "done"}]
    BY <1>1, <2>1 DEF Fork
  <2> QED  BY <1>1, <2>2, <2>3 DEF Fork
<1>2. CASE ForkFails
  BY <1>2, SMTT(30) DEF PositionOK, ForkFails, NextIteration
<1>3. CASE Wait
  BY <1>3 DEF PositionOK, Wait, NextIteration
<1>4. ASSUME NEW k \in Command, Exec(k)  PROVE TypeOK'
  <2>1. PICK n \in 0 .. MaxOut : left' = [left EXCEPT ![k] = n]
    BY <1>4 DEF Exec
  <2> QED  BY <1>4, <2>1, SMTT(30) DEF Exec, OpenResult
<1>5. ASSUME NEW k \in Command, ExecFails(k)  PROVE TypeOK'
  BY <1>5 DEF ExecFails, OpenResult
<1>6. ASSUME NEW k \in Command, Read(k)  PROVE TypeOK'
  <2>1. stdin[k] \in Command /\ pipe[stdin[k]] - 1 \in 0 .. Cap
    BY <1>6 DEF Read
  <2> QED  BY <1>6, <2>1 DEF Read
<1>7. ASSUME NEW k \in Command, Write(k)  PROVE TypeOK'
  <2>1. left[k] - 1 \in 0 .. MaxOut
    BY <1>7 DEF Write
  <2>2. result' \in -1 .. MaxOut
    BY <1>7, SMTT(30) DEF Write, ResultOK
  <2>3. pipe' \in [Command -> 0 .. Cap]
    <3>1. CASE k = 1
      BY <1>7, <3>1 DEF Write
    <3>2. CASE k # 1
      <4>1. pipe[k] + 1 \in 0 .. Cap /\ pipe' = [pipe EXCEPT ![k] = pipe[k] + 1]
        BY <1>7, <3>2 DEF Write
      <4> QED  BY <4>1
    <3> QED  BY <3>1, <3>2
  <2>4. /\ left' = [left EXCEPT ![k] = left[k] - 1]
        /\ UNCHANGED <<pc, i, prevIN, proc, stdin>>
    BY <1>7 DEF Write
  <2>5. left' \in [Command -> 0 .. MaxOut]
    BY <2>1, <2>4
  <2> QED  BY <2>2, <2>3, <2>4, <2>5
<1>8. ASSUME NEW k \in Command, Exit(k)  PROVE TypeOK'
  BY <1>8 DEF Exit
<1>9. CASE UNCHANGED vars
  BY <1>9 DEF vars
<1> QED
  BY <1>1, <1>2, <1>3, <1>4, <1>5, <1>6, <1>7, <1>8, <1>9
     DEF Next, Parent, Child, Returned

\* Every step keeps the commands at the parent's position.
LEMMA PositionStep == IInv /\ [Next]_vars => PositionOK' /\ InputIsNeighbour'
<1> SUFFICES ASSUME IInv, [Next]_vars  PROVE PositionOK' /\ InputIsNeighbour'
  OBVIOUS
<1> USE PipelineAssumption DEF PipelineAssumption, Command, parent
<1>0. TypeOK /\ PositionOK /\ InputIsNeighbour
  BY DEF IInv
<1> USE <1>0 DEF TypeOK, PositionOK, InputIsNeighbour
<1>1. CASE Fork
  <2>1. i \in Command /\ proc[i] = "none"
    BY <1>1 DEF Fork
  <2>2. \A k \in Command : proc'[k] = IF k = i THEN "forked" ELSE proc[k]
    BY <1>1, <2>1 DEF Fork
  <2>3. \A k \in Command :
          stdin'[k] = IF k = i THEN (IF i = N THEN 0 ELSE prevIN) ELSE stdin[k]
    BY <1>1, <2>1 DEF Fork
  <2>4. pc = "fork" /\ pc' = "wait" /\ i' = i /\ prevIN' = prevIN
    BY <1>1 DEF Fork
  <2>5. PositionOK'
    BY <2>1, <2>2, <2>4
  <2>6. \A k \in Command : proc'[k] # "none" => stdin'[k] = IF k = N THEN 0 ELSE k + 1
    BY <2>1, <2>2, <2>3
  <2> QED  BY <2>5, <2>6
<1>2. CASE ForkFails
  BY <1>2 DEF ForkFails, NextIteration
<1>3. CASE Wait
  BY <1>3 DEF Wait, NextIteration
<1>4. ASSUME NEW k \in Command, Child(k)  PROVE PositionOK' /\ InputIsNeighbour'
  <2>1. UNCHANGED <<pc, i, prevIN, stdin>>
    BY <1>4 DEF Child, Exec, ExecFails, Read, Write, Exit
  <2>2. k = i /\ pc = "wait" /\ proc[k] # "none"
    BY <1>4, AliveIsCurrent DEF Child, Exec, ExecFails, Read, Write, Exit
  <2>3. \A m \in Command : m # k => proc'[m] = proc[m]
    BY <1>4 DEF Child, Exec, ExecFails, Read, Write, Exit
  <2>4. proc'[k] # "none"
    BY <1>4 DEF Child, Exec, ExecFails, Read, Write, Exit
  <2> QED  BY <2>1, <2>2, <2>3, <2>4
<1>5. CASE UNCHANGED vars
  BY <1>5 DEF vars
<1> QED  BY <1>1, <1>2, <1>3, <1>4, <1>5 DEF Next, Parent, Returned

\* Every step keeps what the last command has printed within its output.
LEMMA ResultStep == IInv /\ [Next]_vars => ResultOK'
<1> SUFFICES ASSUME IInv, [Next]_vars  PROVE ResultOK'
  OBVIOUS
<1> USE PipelineAssumption DEF PipelineAssumption, Command, parent
<1>0. TypeOK /\ PositionOK /\ ResultOK
  BY DEF IInv
<1> USE <1>0 DEF TypeOK, PositionOK, ResultOK
<1>1. CASE Fork
  <2>1. i \in Command /\ proc[i] = "none"
    BY <1>1 DEF Fork
  <2>2. proc'[1] = IF i = 1 THEN "forked" ELSE proc[1]
    BY <1>1, <2>1 DEF Fork
  <2> QED  BY <1>1, <2>1, <2>2 DEF Fork
<1>2. CASE ForkFails \/ Wait
  BY <1>2 DEF ForkFails, Wait
<1>3. ASSUME NEW k \in Command, Child(k)  PROVE ResultOK'
  <2>1. CASE Exec(k)
    <3>1. PICK n \in 0 .. MaxOut : left' = [left EXCEPT ![k] = n]
      BY <2>1 DEF Exec
    <3> QED  BY <2>1, <3>1 DEF Exec, OpenResult
  <2>2. CASE ExecFails(k)
    BY <2>2 DEF ExecFails, OpenResult
  <2>3. CASE Read(k)
    BY <2>3 DEF Read
  <2>4. CASE Write(k)
    <3>1. proc' = proc /\ left' = [left EXCEPT ![k] = left[k] - 1]
      BY <2>4 DEF Write
    <3>2. CASE k = 1
      <4>1. result' = result + 1 /\ left'[1] = left[1] - 1
        BY <2>4, <3>1, <3>2 DEF Write
      <4> QED  BY <2>4, <3>1, <3>2, <4>1 DEF Write
    <3>3. CASE k # 1
      <4>1. result' = result /\ left'[1] = left[1]
        BY <2>4, <3>1, <3>3 DEF Write
      <4> QED  BY <3>1, <4>1
    <3> QED  BY <3>2, <3>3
  <2>5. CASE Exit(k)
    BY <2>5 DEF Exit
  <2> QED  BY <1>3, <2>1, <2>2, <2>3, <2>4, <2>5 DEF Child
<1>4. CASE UNCHANGED vars
  BY <1>4 DEF vars
<1> QED  BY <1>1, <1>2, <1>3, <1>4 DEF Next, Parent, Returned

\* Every step keeps the invariant.
LEMMA StepInv == IInv /\ [Next]_vars => IInv'
BY TypeStep, PositionStep, ResultStep DEF IInv

\* The parent's position decides which commands may run.
THEOREM Invariance == Spec => []IInv
<1>1. Init => IInv
  BY PipelineAssumption DEF PipelineAssumption, Init, IInv, TypeOK,
                            PositionOK, InputIsNeighbour, ResultOK, Command
<1> QED  BY <1>1, StepInv, PTL DEF Spec

\* No program runs before those to the right of it have ended, so no program
\* waits for another one's output.
THEOREM RightToLeftCorrect == Spec => []RightToLeft
<1>1. IInv => RightToLeft
  BY PipelineAssumption
     DEF PipelineAssumption, IInv, TypeOK, PositionOK, RightToLeft, Command
<1> QED  BY Invariance, <1>1, PTL

\* Every program reads its right neighbour's output, whichever forks failed.
THEOREM InputCorrect == Spec => []InputIsNeighbour
<1>1. IInv => InputIsNeighbour
  BY DEF IInv, InputIsNeighbour
<1> QED  BY Invariance, <1>1, PTL

\* A program whose output does not fit into its pipe blocks for ever, and the
\* parent with it: the reader would be started only afterwards.
THEOREM FullCorrect == Spec => FullForEver
<1>1. IInv /\ [Next]_vars => [\A k \in Command : Full(k) => Full(k)']_vars
  <2> SUFFICES ASSUME IInv, Next, NEW k \in Command, Full(k)
               PROVE  Full(k)'
    BY DEF Full, vars
  <2> USE PipelineAssumption DEF PipelineAssumption, Command, parent
  <2>1. k = i /\ pc = "wait"
    BY AliveIsCurrent DEF Full
  <2>2. \A m \in Command : proc[m] \in {"forked", "running"} => m = k
    BY <2>1, AliveIsCurrent
  <2>3. Parent => Full(k)'
    BY <2>1 DEF Full, Parent, Fork, ForkFails, Wait
  <2>4. ASSUME NEW m \in Command, Child(m)  PROVE Full(k)'
    <3>1. m = k
      BY <2>2, <2>4 DEF Child, Exec, ExecFails, Read, Write, Exit
    <3>2. stdin[k] # k
      <4>1. stdin[k] = IF k = N THEN 0 ELSE k + 1
        BY DEF IInv, InputIsNeighbour, Full
      <4>2. k \in Nat /\ k > 0
        OBVIOUS
      <4> QED  BY ONLY <4>1, <4>2
    <3> QED
      BY <2>4, <3>1, <3>2, SMTT(30)
         DEF Child, Exec, ExecFails, Read, Write, Exit, Full, IInv, TypeOK
  <2>5. Returned => Full(k)'
    BY DEF Returned, vars, Full
  <2> QED  BY <2>3, <2>4, <2>5 DEF Next
<1> QED  BY Invariance, <1>1, PTL DEF Spec, FullForEver

(***************************************************************************)
(* Semaphores, for every finite number of runs of two users and every      *)
(* largest value: what a run that no other one overlaps leaves behind.     *)
(***************************************************************************)

SemTypeOK ==
  /\ sets \in Nat /\ keyed \in 0 .. sets
  /\ sum \in [Sem!SetId -> 0 .. MaxSum]
  /\ owner \in [Sem!SetId -> {"host", "guest", "other"}]
  /\ step \in [Run -> {"start", "get", "rm", "getnew", "op", "done", "killed"}]
  /\ semid \in [Run -> Nat \cup {-1}]

\* The runs that have made their first call of semget(), and their second.
Once == {r \in Run : step[r] \notin {"start", "get"}}
Twice == {r \in Run : step[r] \notin {"start", "get", "rm", "getnew"}}

\* There are no more sets than these calls can have made, and a set that has
\* not been made holds zeros.
SetsOK ==
  /\ sets <= 1 + Cardinality(Once) + Cardinality(Twice)
  /\ \A id \in Sem!SetId : id > sets => sum[id] = 0

\* While the newest run is the only one, the set it got is the one of the key, or
\* it was refused one.  What is there when it gets its second set is another
\* user's, or refuses it.
AloneOK ==
  newest # NoRun /\ alone =>
    /\ newest \in Run /\ Sem!Active \subseteq {newest}
    /\ step[newest] \in {"rm", "op", "done"} =>
         IF semid[newest] = -1 THEN keyed = 0 \/ Sem!Refused(newest)
         ELSE keyed # 0 /\ keyed = semid[newest]
    /\ step[newest] = "getnew" /\ keyed # 0 =>
         Sem!Refused(newest) \/ owner[keyed] # Sem!User(newest)
    /\ step[newest] = "op" /\ semid[newest] # -1 /\ owner[keyed] = Sem!User(newest) =>
         sum[keyed] = 0
    /\ step[newest] = "done" /\ semid[newest] # -1 /\ owner[keyed] = Sem!User(newest) =>
         sum[keyed] = 1

SemInv == SemTypeOK /\ SetsOK /\ AloneOK

\* The numbers of the sets, in terms of the cardinality the lemmas are about.
LEMMA SetIdRange == Sem!SetId = 1 .. 1 + 2 * Cardinality(Run)
BY DEF Sem!SetId, Sem!Cardinality, Cardinality

\* The sets that have been made have their places in sum, and there is one for
\* another set while a run has yet to call semget().
LEMMA Places ==
  ASSUME IsFiniteSet(Run), SemTypeOK, SetsOK
  PROVE  /\ Cardinality(Run) \in Nat
         /\ keyed # 0 => keyed \in Sem!SetId
         /\ \A r \in Run : step[r] \in {"get", "getnew"} => sets + 1 \in Sem!SetId
<1>1. /\ Once \in SUBSET Run /\ Twice \in SUBSET Run
      /\ IsFiniteSet(Once) /\ IsFiniteSet(Twice) /\ Cardinality(Run) \in Nat
      /\ Cardinality(Once) <= Cardinality(Run) /\ Cardinality(Twice) <= Cardinality(Run)
      /\ Cardinality(Once) \in Nat /\ Cardinality(Twice) \in Nat
  <2>1. Once \in SUBSET Run /\ Twice \in SUBSET Run
    BY DEF Once, Twice
  <2> HIDE DEF Once, Twice
  <2> QED  BY <2>1, FS_Subset, FS_CardinalityType
<1>2. keyed # 0 => keyed \in Sem!SetId
  BY <1>1, SetIdRange DEF SemTypeOK, SetsOK
<1>3. ASSUME NEW r \in Run, step[r] \in {"get", "getnew"}
      PROVE  sets + 1 \in Sem!SetId
  <2>1. Twice # Run
    BY <1>3 DEF Twice
  <2>2. Cardinality(Twice) # Cardinality(Run)
    BY <1>1, <2>1, FS_Subset
  <2> QED  BY <1>1, <2>2, SetIdRange DEF SemTypeOK, SetsOK
<1> QED  BY <1>1, <1>2, <1>3

\* A call is counted when it has been made.
LEMMA Counted ==
  ASSUME IsFiniteSet(Run), SemTypeOK, NEW r \in Run, NEW next,
         step' = [step EXCEPT ![r] = next],
         next \in {"get", "rm", "getnew", "op", "done", "killed"},
         next = "get" => step[r] = "start",
         next \in {"rm", "getnew"} => step[r] \in {"get", "rm", "getnew"}
  PROVE  /\ Cardinality(Once) \in Nat /\ Cardinality(Twice) \in Nat
         /\ Cardinality(Once') \in Nat /\ Cardinality(Twice') \in Nat
         /\ Cardinality(Once) <= Cardinality(Once')
         /\ Cardinality(Twice) <= Cardinality(Twice')
         /\ step[r] = "get" /\ next = "rm" => Cardinality(Once') = Cardinality(Once) + 1
         /\ step[r] = "getnew" /\ next = "op" => Cardinality(Twice') = Cardinality(Twice) + 1
<1>1. step'[r] = next /\ \A t \in Run \ {r} : step'[t] = step[t]
  BY DEF SemTypeOK
<1>2. /\ Once \subseteq Once' /\ Twice \subseteq Twice'
      /\ Once' \subseteq Run /\ Twice' \subseteq Run
      /\ step[r] = "get" /\ next = "rm" => r \notin Once /\ Once' = Once \cup {r}
      /\ step[r] = "getnew" /\ next = "op" => r \notin Twice /\ Twice' = Twice \cup {r}
  BY <1>1 DEF Once, Twice
<1>3. PICK once, twice, once1, twice1 :
        once = Once /\ twice = Twice /\ once1 = Once' /\ twice1 = Twice'
  OBVIOUS
<1>4. /\ IsFiniteSet(once1) /\ IsFiniteSet(twice1)
  BY <1>2, <1>3, FS_Subset
<1>5. /\ IsFiniteSet(once) /\ IsFiniteSet(twice)
      /\ Cardinality(once) <= Cardinality(once1) /\ Cardinality(twice) <= Cardinality(twice1)
  BY <1>2, <1>3, <1>4, FS_Subset
<1> QED  BY <1>2, <1>3, <1>4, <1>5, FS_CardinalityType, FS_AddElement

\* What semget() returns: nothing, because it is refused or there is no room, the
\* set of the key, or a new one.
LEMMA GotSet ==
  ASSUME NEW r \in Run, NEW next, Sem!Semget(r, next), keyed \in Nat, sets \in Nat
  PROVE  \E id \in {-1, keyed, sets + 1} :
           /\ semid' = [semid EXCEPT ![r] = id]
           /\ step' = [step EXCEPT ![r] = next]
           /\ UNCHANGED <<sum, refuses, waits, newest, alone>>
           /\ \/ /\ id = -1 /\ (keyed = 0 \/ Sem!Refused(r))
                 /\ UNCHANGED <<sets, keyed, owner>>
              \/ /\ id = keyed /\ keyed # 0 /\ ~Sem!Refused(r)
                 /\ UNCHANGED <<sets, keyed, owner>>
              \/ /\ id = sets + 1 /\ keyed = 0
                 /\ sets' = id /\ keyed' = id
                 /\ owner' = [owner EXCEPT ![id] = Sem!User(r)]
BY DEF Sem!Semget, Sem!NewSet

\* semget()
LEMMA Getting ==
  ASSUME IsFiniteSet(Run), SemInv, NEW r \in Run, Sem!GetOld(r) \/ Sem!GetNew(r)
  PROVE  SemInv'
<1> DEFINE next == IF step[r] = "get" THEN "rm" ELSE "op"
<1>1. /\ step[r] \in {"get", "getnew"} /\ Sem!Semget(r, next)
  BY DEF Sem!GetOld, Sem!GetNew
<1>3. /\ SemTypeOK /\ SetsOK /\ AloneOK /\ sets \in Nat /\ keyed \in Nat
      /\ keyed # 0 => keyed \in Sem!SetId
      /\ sets + 1 \in Sem!SetId /\ sets + 1 > sets
  BY <1>1, Places DEF SemInv, SemTypeOK
<1>2. PICK id \in {-1, keyed, sets + 1} :
        /\ semid' = [semid EXCEPT ![r] = id]
        /\ step' = [step EXCEPT ![r] = next]
        /\ UNCHANGED <<sum, refuses, waits, newest, alone>>
        /\ \/ /\ id = -1 /\ (keyed = 0 \/ Sem!Refused(r))
              /\ UNCHANGED <<sets, keyed, owner>>
           \/ /\ id = keyed /\ keyed # 0 /\ ~Sem!Refused(r)
              /\ UNCHANGED <<sets, keyed, owner>>
           \/ /\ id = sets + 1 /\ keyed = 0
              /\ sets' = id /\ keyed' = id
              /\ owner' = [owner EXCEPT ![id] = Sem!User(r)]
  BY ONLY <1>1, <1>3, GotSet
<1>4. SemTypeOK'
  <2>1. sets' \in Nat /\ keyed' \in 0 .. sets' /\ id \in Nat \cup {-1}
    BY <1>2, <1>3 DEF SemTypeOK
  <2>2. /\ step' \in [Run -> {"start", "get", "rm", "getnew", "op", "done", "killed"}]
        /\ semid' \in [Run -> Nat \cup {-1}]
    BY <1>2, <1>3, <2>1 DEF SemTypeOK
  <2>3. owner' \in [Sem!SetId -> {"host", "guest", "other"}]
    BY <1>2, <1>3 DEF SemTypeOK, Sem!User
  <2> QED  BY <1>2, <1>3, <2>1, <2>2, <2>3 DEF SemTypeOK, Sem!SetId
<1>5. SetsOK'
  <2>1. /\ Cardinality(Once) \in Nat /\ Cardinality(Twice) \in Nat
        /\ Cardinality(Once') \in Nat /\ Cardinality(Twice') \in Nat
        /\ Cardinality(Once) <= Cardinality(Once')
        /\ Cardinality(Twice) <= Cardinality(Twice')
        /\ \/ Cardinality(Once') = Cardinality(Once) + 1
           \/ Cardinality(Twice') = Cardinality(Twice) + 1
    BY <1>1, <1>2, <1>3, Counted
  <2>2. sets' <= 1 + Cardinality(Once') + Cardinality(Twice')
    BY <1>2, <1>3, <2>1 DEF SetsOK
  <2>3. \A n \in Sem!SetId : n > sets' => n > sets
    <3>1. \A n \in Sem!SetId : n \in Int
      BY DEF Sem!SetId
    <3> QED  BY <1>2, <1>3, <3>1
  <2> QED  BY <1>2, <1>3, <2>2, <2>3 DEF SetsOK
<1>6. AloneOK'
  <2> SUFFICES ASSUME newest # NoRun, alone
               PROVE  AloneOK'
    BY <1>2 DEF AloneOK
  <2>1. newest \in Run /\ Sem!Active \subseteq {newest} /\ r = newest
    BY <1>1, <1>3 DEF AloneOK, Sem!Active
  <2>2. step'[r] = next /\ semid'[r] = id /\ next \in {"rm", "op"} /\ UNCHANGED newest
    BY <1>1, <1>2, <1>3 DEF SemTypeOK
  <2>3. Sem!Active' \subseteq {newest}
    BY <1>2, <1>3, <2>1 DEF Sem!Active, SemTypeOK
  <2>4. IF id = -1 THEN keyed' = 0 \/ Sem!Refused(r)'
        ELSE keyed' # 0 /\ keyed' = id
    BY <1>2, <1>3 DEF Sem!Refused, Sem!User
  <2>5. step[r] = "getnew" /\ id # -1 /\ owner'[keyed'] = Sem!User(r) => sum'[keyed'] = 0
    <3>1. sum[sets + 1] = 0
      BY <1>3 DEF SetsOK
    <3>2. step[r] = "getnew" /\ keyed # 0 => Sem!Refused(r) \/ owner[keyed] # Sem!User(r)
      BY <1>3, <2>1 DEF AloneOK
    <3> QED  BY <1>2, <1>3, <3>1, <3>2
  <2>6. next = "op" => step[r] = "getnew"
    BY <1>1
  <2> HIDE DEF next
  <2>7. Sem!User(newest)' = Sem!User(r)
    BY <2>1, <2>2 DEF Sem!User
  <2> QED  BY <2>1, <2>2, <2>3, <2>4, <2>5, <2>6, <2>7, <1>2 DEF AloneOK
<1> QED  BY <1>4, <1>5, <1>6 DEF SemInv

\* The steps that make no set.
LEMMA Others ==
  ASSUME IsFiniteSet(Run), MaxSum \in Nat \ {0}, SemInv, NEW r \in Run,
         Sem!Start(r) \/ Sem!Remove(r) \/ Sem!Semop(r) \/ Sem!Kill(r)
  PROVE  SemInv'
<1>3. /\ SemTypeOK /\ SetsOK /\ AloneOK /\ sets \in Nat
      /\ UNCHANGED <<sets, semid, owner, refuses>>
      /\ keyed # 0 => keyed \in Sem!SetId
  BY Places DEF SemInv, SemTypeOK, Sem!Start, Sem!Remove, Sem!Semop, Sem!Kill
<1>4. SemTypeOK'
  <2>1. sum' \in [Sem!SetId -> 0 .. MaxSum]
    <3>1. CASE Sem!Semop(r) /\ keyed # 0 /\ sum[keyed] < MaxSum
      <4>1. sum[keyed] + 1 \in 0 .. MaxSum
        BY <1>3, <3>1 DEF SemTypeOK
      <4> QED  BY <1>3, <3>1, <4>1 DEF SemTypeOK, Sem!Semop
    <3> QED  BY <1>3, <3>1 DEF SemTypeOK, Sem!Start, Sem!Remove, Sem!Semop, Sem!Kill
  <2>2. step' \in [Run -> {"start", "get", "rm", "getnew", "op", "done", "killed"}]
    BY <1>3 DEF SemTypeOK, Sem!Start, Sem!Remove, Sem!Semop, Sem!Kill
  <2>3. keyed' \in 0 .. sets'
    BY <1>3 DEF SemTypeOK, Sem!Start, Sem!Remove, Sem!Semop, Sem!Kill
  <2> QED  BY <1>3, <2>1, <2>2, <2>3 DEF SemTypeOK, Sem!SetId
<1>5. SetsOK'
  <2>1. /\ Cardinality(Once) \in Nat /\ Cardinality(Twice) \in Nat
        /\ Cardinality(Once') \in Nat /\ Cardinality(Twice') \in Nat
        /\ Cardinality(Once) <= Cardinality(Once')
        /\ Cardinality(Twice) <= Cardinality(Twice')
    <3>1. PICK next \in {"get", "getnew", "done", "killed"} :
            /\ step' = [step EXCEPT ![r] = next]
            /\ next = "get" => step[r] = "start"
            /\ next = "getnew" => step[r] = "rm"
      BY DEF Sem!Start, Sem!Remove, Sem!Semop, Sem!Kill
    <3> QED  BY <1>3, <3>1, Counted
  <2>2. sets' <= 1 + Cardinality(Once') + Cardinality(Twice')
    BY <1>3, <2>1 DEF SetsOK
  <2>3. \A id \in Sem!SetId : id > sets => sum'[id] = sum[id]
    <3>1. \A id \in Sem!SetId : id > sets => id # keyed
      BY <1>3 DEF Sem!SetId, SemTypeOK
    <3> QED  BY <1>3, <3>1 DEF Sem!Start, Sem!Remove, Sem!Semop, Sem!Kill, SemTypeOK
  <2> QED  BY <1>3, <2>2, <2>3 DEF SetsOK
<1>6. AloneOK'
  <2>1. CASE Sem!Start(r)
    BY <1>3, <2>1 DEF Sem!Start, AloneOK, Sem!Active, SemTypeOK
  <2>2. CASE ~Sem!Start(r)
    <3> SUFFICES ASSUME newest # NoRun, alone
                 PROVE  AloneOK'
      BY <2>2 DEF AloneOK, Sem!Remove, Sem!Semop, Sem!Kill
    <3>1. newest \in Run /\ Sem!Active \subseteq {newest} /\ UNCHANGED <<newest, alone>>
      BY <1>3, <2>2 DEF AloneOK, Sem!Remove, Sem!Semop, Sem!Kill
    <3>2. r = newest
      BY <2>2, <3>1 DEF Sem!Active, Sem!Remove, Sem!Semop, Sem!Kill
    <3>3. CASE Sem!Remove(r)
      <4>1. step[r] = "rm" /\ step'[r] = "getnew" /\ Sem!Active' \subseteq {newest}
        BY <1>3, <3>1, <3>3 DEF Sem!Remove, Sem!Active, SemTypeOK
      <4>2. /\ Sem!User(newest)' = Sem!User(r)
            /\ Sem!Refused(newest)' = (keyed' = 1 /\ Sem!User(r) \in refuses)
        BY <1>3, <3>1, <3>2 DEF Sem!User, Sem!Refused
      <4>3. keyed' # 0 => /\ keyed' = keyed
                          /\ \/ keyed # semid[r]
                             \/ owner[keyed] # Sem!User(r)
        BY <3>3 DEF Sem!Remove
      <4>4. IF semid[r] = -1 THEN keyed = 0 \/ Sem!Refused(r) ELSE keyed = semid[r]
        BY <1>3, <3>2, <4>1 DEF AloneOK
      <4>5. keyed' # 0 => Sem!Refused(newest)' \/ owner'[keyed'] # Sem!User(newest)'
        BY <1>3, <4>2, <4>3, <4>4 DEF Sem!Refused
      <4> QED  BY <3>1, <3>2, <4>1, <4>5 DEF AloneOK
    <3>4. CASE Sem!Semop(r)
      <4>1. /\ step[r] = "op" /\ step'[r] = "done" /\ Sem!Active' \subseteq {newest}
            /\ UNCHANGED <<keyed, refuses>>
        BY <1>3, <3>1, <3>4 DEF Sem!Semop, Sem!Active, SemTypeOK
      <4>2. Sem!User(newest)' = Sem!User(r) /\ Sem!Refused(newest)' = Sem!Refused(r)
        BY <3>1, <3>2, <4>1 DEF Sem!User, Sem!Refused
      <4>3. IF semid[r] = -1 THEN keyed = 0 \/ Sem!Refused(r)
            ELSE keyed # 0 /\ keyed = semid[r]
        BY <1>3, <3>2, <4>1 DEF AloneOK
      <4>4. semid[r] # -1 /\ owner[keyed] = Sem!User(r) => sum[keyed] = 0
        BY <1>3, <3>2, <4>1 DEF AloneOK
      <4>5. semid[r] # -1 /\ owner[keyed] = Sem!User(r) => sum'[keyed] = 1
        BY <1>3, <3>4, <4>3, <4>4 DEF Sem!Semop, SemTypeOK
      <4> QED  BY <1>3, <3>1, <3>2, <4>1, <4>2, <4>3, <4>5 DEF AloneOK
    <3>5. CASE Sem!Kill(r)
      BY <1>3, <3>1, <3>2, <3>5 DEF Sem!Kill, AloneOK, Sem!Active, SemTypeOK
    <3> QED  BY <2>2, <3>3, <3>4, <3>5
  <2> QED  BY <2>1, <2>2
<1> QED  BY <1>4, <1>5, <1>6 DEF SemInv

\* The start: a set may be there, with any values.
LEMMA Before ==
  ASSUME IsFiniteSet(Run), MaxSum \in Nat \ {0}, Sem!Init
  PROVE  SemInv
<1>1. Once = {} /\ Twice = {}
  BY DEF Sem!Init, Once, Twice
<1>2. PICK n \in 0 .. MaxSum, u \in {"host", "guest", "other"} :
        /\ sum = [id \in Sem!SetId |-> IF id = 1 THEN n ELSE 0]
        /\ owner = [id \in Sem!SetId |-> u]
  BY DEF Sem!Init
<1>3. SemTypeOK
  BY <1>2 DEF Sem!Init, SemTypeOK
<1>4. \A id \in Sem!SetId : id > sets => sum[id] = 0
  BY <1>2 DEF Sem!Init, Sem!SetId
<1>5. sets <= 1 + Cardinality(Once) + Cardinality(Twice)
  BY <1>1, FS_EmptySet DEF Sem!Init
<1> QED  BY <1>3, <1>4, <1>5 DEF Sem!Init, SemInv, SetsOK, AloneOK

\* What every run and every kill preserves.
THEOREM SemInvariance ==
  IsFiniteSet(Run) /\ MaxSum \in Nat \ {0} => (Sem!Spec => []SemInv)
<1> SUFFICES ASSUME IsFiniteSet(Run), MaxSum \in Nat \ {0} PROVE Sem!Spec => []SemInv
  OBVIOUS
<1>1. Sem!Init => SemInv
  BY Before
<1>2. SemInv /\ [Sem!Next]_(Sem!vars) => SemInv'
  <2>1. SemInv /\ Sem!Next => SemInv'
    BY Getting, Others DEF Sem!Next
  <2>2. SemInv /\ UNCHANGED Sem!vars => SemInv'
    BY DEF Sem!vars, SemInv, SemTypeOK, SetsOK, AloneOK, Once, Twice, Sem!Active,
           Sem!Refused, Sem!User
  <2> QED  BY <2>1, <2>2
<1> QED  BY <1>1, <1>2, PTL DEF Sem!Spec

\* What a run that nobody overlaps leaves behind, however many runs of either user
\* came before it, wherever they were stopped, and whatever else was there: a set
\* of its own user with every semaphore's number in it, another user's set, or, if
\* none could be got, none.
THEOREM AloneCorrect ==
  IsFiniteSet(Run) /\ MaxSum \in Nat \ {0} => (Sem!Spec => []AloneIsRight)
<1> SUFFICES ASSUME IsFiniteSet(Run), MaxSum \in Nat \ {0} PROVE Sem!Spec => []AloneIsRight
  OBVIOUS
<1>1. SemInv => AloneIsRight
  BY DEF SemInv, AloneOK, AloneIsRight, Sem!AloneIsRight
<1> QED  BY SemInvariance, <1>1, PTL

(***************************************************************************)
(* FifoRelay, for every number of words and visits of the reader, every    *)
(* buffer and every FIFO: what comes out was typed, in that order.         *)
(***************************************************************************)

\* Sequences of words are joined in whatever order one likes.
LEMMA ThreeWords ==
  ASSUME NEW a \in Seq(Nat), NEW b \in Seq(Nat), NEW d \in Seq(Nat)
  PROVE  (a \o b) \o d = a \o (b \o d)
BY ConcatAssociative, SMTT(60)

\* Words that follow each other stay in order when they are put together.
LEMMA Joined ==
  ASSUME NEW a \in Seq(Nat), NEW b \in Seq(Nat),
         NEW u \in Int, NEW v \in Int, NEW w \in Int,
         Fifo!Between(u, a, v), Fifo!Between(v, b, w), u <= v, v <= w
  PROVE  a \o b \in Seq(Nat) /\ Fifo!Between(u, a \o b, w)
<1> DEFINE c == a \o b
           m == Len(a)
           n == Len(b)
<1>1. /\ m \in Nat /\ n \in Nat /\ c \in Seq(Nat) /\ Len(c) = m + n
      /\ \A k \in 1 .. m + n : c[k] = IF k <= m THEN a[k] ELSE b[k - m]
  BY ConcatProperties, LenProperties
<1>2. /\ \A k \in 1 .. m : a[k] \in Nat /\ a[k] > u /\ a[k] <= v
      /\ \A j, k \in 1 .. m : j < k => a[j] < a[k]
      /\ \A k \in 1 .. n : b[k] \in Nat /\ b[k] > v /\ b[k] <= w
      /\ \A j, k \in 1 .. n : j < k => b[j] < b[k]
  BY ElementOfSeq DEF Fifo!Between, Fifo!Increasing
<1> HIDE DEF c, m, n
<1>3. ASSUME NEW k \in 1 .. m + n
      PROVE  c[k] > u /\ c[k] <= w /\ (k <= m => c[k] <= v) /\ (k > m => c[k] > v)
  <2>1. CASE k <= m  BY <1>1, <1>2, <2>1
  <2>2. CASE k > m
    <3>1. k - m \in 1 .. n /\ c[k] = b[k - m]
      BY <1>1, <2>2
    <3> QED  BY <1>1, <1>2, <2>2, <3>1
  <2> QED  BY <1>1, <2>1, <2>2
<1>4. ASSUME NEW j \in 1 .. m + n, NEW k \in 1 .. m + n, j < k
      PROVE  c[j] < c[k]
  <2>1. CASE k <= m
    <3>1. j \in 1 .. m /\ k \in 1 .. m /\ c[j] = a[j] /\ c[k] = a[k]
      BY <1>1, <1>4, <2>1
    <3> QED  BY <1>2, <1>4, <3>1
  <2>2. CASE j > m
    <3>1. PICK x, y \in 1 .. n : x = j - m /\ y = k - m
      BY <1>1, <1>4, <2>2
    <3>2. x < y /\ c[j] = b[x] /\ c[k] = b[y]
      BY <1>1, <1>4, <2>2, <3>1
    <3> QED  BY <1>2, <3>2
  <2>3. CASE j <= m /\ k > m
    <3>1. c[j] \in Int /\ c[k] \in Int
      <4>1. \A l \in 1 .. Len(c) : c[l] \in Nat
        BY <1>1, ElementOfSeq
      <4> QED  BY <1>1, <4>1
    <3> QED  BY <1>3, <2>3, <3>1
  <2> QED  BY <1>1, <2>1, <2>2, <2>3
<1> QED  BY <1>1, <1>3, <1>4 DEF Fifo!Between, Fifo!Increasing, c

\* The first n words and the others.
LEMMA Parted ==
  ASSUME NEW a \in Seq(Nat), NEW n \in 1 .. Len(a),
         NEW u \in Int, NEW w \in Int, Fifo!Between(u, a, w)
  PROVE  /\ SubSeq(a, 1, n) \in Seq(Nat) /\ Len(SubSeq(a, 1, n)) = n
         /\ SubSeq(a, n + 1, Len(a)) \in Seq(Nat)
         /\ a[n] \in Nat /\ a[n] > u /\ a[n] <= w
         /\ Fifo!Between(u, SubSeq(a, 1, n), a[n])
         /\ Fifo!Between(a[n], SubSeq(a, n + 1, Len(a)), w)
<1> DEFINE l == Len(a)
           p == SubSeq(a, 1, n)
           r == SubSeq(a, n + 1, l)
<1>1. /\ l \in Nat /\ n \in 1 .. l /\ n \in Nat
      /\ \A k \in 1 .. l : a[k] \in Nat /\ a[k] > u /\ a[k] <= w
      /\ \A j, k \in 1 .. l : j < k => a[j] < a[k]
  BY ElementOfSeq, LenProperties DEF Fifo!Between, Fifo!Increasing
<1> HIDE DEF l
<1>2. /\ p \in Seq(Nat) /\ Len(p) = n /\ \A k \in 1 .. n : p[k] = a[k]
  <2>1. \A k \in 1 .. n : a[k] \in Nat
    BY <1>1
  <2>2. 1 \in Int /\ n \in Int /\ 1 <= n
    BY <1>1
  <2>3. /\ p \in Seq(Nat)
        /\ Len(p) = IF 1 <= n THEN n - 1 + 1 ELSE 0
        /\ \A k \in 1 .. n - 1 + 1 : p[k] = a[1 + k - 1]
    BY <2>1, <2>2, SubSeqProperties
  <2> QED  BY <2>2, <2>3
<1>3. /\ r \in Seq(Nat) /\ Len(r) = l - n
      /\ \A k \in 1 .. l - n : r[k] = a[n + k]
  <2>1. \A k \in n + 1 .. l : a[k] \in Nat
    BY <1>1
  <2>2. n + 1 \in Int /\ l \in Int /\ n \in Int /\ n <= l
    BY <1>1
  <2>3. /\ r \in Seq(Nat)
        /\ Len(r) = IF n + 1 <= l THEN l - (n + 1) + 1 ELSE 0
        /\ \A k \in 1 .. l - (n + 1) + 1 : r[k] = a[n + 1 + k - 1]
    BY <2>1, <2>2, SubSeqProperties
  <2> HIDE DEF p, r
  <2>4. Len(r) = l - n
    BY ONLY <2>2, <2>3
  <2>5. ASSUME NEW k \in 1 .. l - n  PROVE r[k] = a[n + k]
    <3>1. k \in 1 .. l - (n + 1) + 1 /\ n + 1 + k - 1 = n + k
      BY ONLY <2>2, k \in 1 .. l - n
    <3> QED  BY ONLY <2>3, <3>1
  <2> QED  BY ONLY <2>3, <2>4, <2>5
<1> HIDE DEF p, r
<1>4. Fifo!Between(u, p, a[n])
  <2>1. \A k \in 1 .. n : a[k] > u /\ a[k] <= a[n]
    BY <1>1
  <2>2. \A j, k \in 1 .. n : j < k => a[j] < a[k]
    BY <1>1
  <2> QED  BY <1>2, <2>1, <2>2 DEF Fifo!Between, Fifo!Increasing
<1>5. Fifo!Between(a[n], r, w)
  <2>1. \A k \in 1 .. l - n : n + k \in 1 .. l /\ n < n + k
    BY <1>1
  <2>2. \A k \in 1 .. l - n : a[n + k] > a[n] /\ a[n + k] <= w
    BY <1>1, <2>1
  <2>3. \A j, k \in 1 .. l - n : j < k => a[n + j] < a[n + k]
    BY <1>1, <2>1
  <2> QED  BY <1>3, <2>2, <2>3 DEF Fifo!Between, Fifo!Increasing
<1> QED  BY <1>1, <1>2, <1>3, <1>4, <1>5 DEF p, r, l

\* The bounds may be widened, and nothing is in order between any of them.
LEMMA Wider ==
  ASSUME NEW a \in Seq(Nat), NEW u \in Int, NEW v \in Int, NEW w \in Int
  PROVE  /\ Fifo!Between(u, <<>>, w)
         /\ Fifo!Between(u, a, v) /\ v <= w => Fifo!Between(u, a, w)
         /\ Fifo!Between(v, a, w) /\ u <= v => Fifo!Between(u, a, w)
<1>1. \A k \in 1 .. Len(a) : a[k] \in Nat
  BY ElementOfSeq
<1>2. Len(<<>>) = 0
  BY EmptySeq
<1> QED  BY <1>1, <1>2 DEF Fifo!Between, Fifo!Increasing

\* The first part of a sequence that is in order.
LEMMA FirstPart ==
  ASSUME NEW a \in Seq(Nat), NEW b \in Seq(Nat), NEW u \in Int, NEW w \in Int,
         Fifo!Between(u, a \o b, w)
  PROVE  Fifo!Between(u, a, w)
<1>1. /\ Len(a) \in Nat /\ Len(b) \in Nat /\ Len(a \o b) = Len(a) + Len(b)
      /\ \A k \in 1 .. Len(a) + Len(b) :
           (a \o b)[k] = IF k <= Len(a) THEN a[k] ELSE b[k - Len(a)]
  BY ConcatProperties, LenProperties
<1>2. \A k \in 1 .. Len(a) : k \in 1 .. Len(a \o b) /\ (a \o b)[k] = a[k]
  BY <1>1
<1> QED  BY <1>2 DEF Fifo!Between, Fifo!Increasing

\* Taking the first word of one sequence to the end of another.
LEMMA HeadMoved ==
  ASSUME NEW a \in Seq(Nat), NEW b \in Seq(Nat), b # <<>>
  PROVE  /\ Append(a, Head(b)) \in Seq(Nat) /\ Tail(b) \in Seq(Nat)
         /\ Append(a, Head(b)) \o Tail(b) = a \o b
<1>1. Head(b) \in Nat /\ Tail(b) \in Seq(Nat) /\ <<Head(b)>> \in Seq(Nat)
      /\ Len(b) \in Nat /\ Len(b) # 0 /\ Head(b) = b[1]
  BY HeadTailProperties, EmptySeq, LenProperties
<1>2. Append(a, Head(b)) = a \o <<Head(b)>> /\ Append(a, Head(b)) \in Seq(Nat)
  BY <1>1, AppendIsConcat, AppendProperties
<1>3. (a \o <<Head(b)>>) \o Tail(b) = a \o (<<Head(b)>> \o Tail(b))
  BY <1>1, ThreeWords
<1>4. <<Head(b)>> \o Tail(b) = b
  <2>1. 1 \in 1 .. Len(b) /\ Len(b) \in 1 .. Len(b)
    BY <1>1
  <2>2. SubSeq(b, 1, Len(b)) = <<b[1]>> \o SubSeq(b, 1 + 1, Len(b))
    BY <2>1, SubSeqRecursiveFirst
  <2>3. Tail(b) = SubSeq(b, 2, Len(b)) /\ SubSeq(b, 1, Len(b)) = b
    BY TailIsSubSeq, SubSeqFull
  <2> QED  BY <1>1, <2>2, <2>3
<1> QED  BY <1>1, <1>2, <1>3, <1>4

\* What is still to be offered is what write() is given.
LEMMA Offering ==
  ASSUME Fifo!TypeOK, relay = "write"
  PROVE  Fifo!Offered = Fifo!Pending /\ Fifo!Offered \in Seq(Nat)
<1>0. len \in Int /\ len <= Len(buf) /\ buf \in Seq(Nat) /\ 1 \in Int
  BY DEF Fifo!TypeOK
<1>1. CASE len > 0
  <2>1. \A k \in 1 .. len : buf[k] \in Nat
    BY <1>0, ElementOfSeq, LenProperties
  <2>2. SubSeq(buf, 1, len) \in Seq(Nat)
    BY <1>0, <2>1, SubSeqProperties
  <2> QED  BY <1>0, <1>1, <2>2 DEF Fifo!Offered, Fifo!Pending
<1>2. CASE ~(len > 0)
  <2>1. SubSeq(buf, 1, len) = <<>>
    BY <1>0, <1>2, SubSeqEmpty
  <2> QED  BY <1>0, <1>2, <2>1, EmptySeq DEF Fifo!Offered, Fifo!Pending
<1> QED  BY <1>0, <1>1, <1>2

\* Only what the parent has read is pending.
LEMMA PendingIsWords ==
  ASSUME Fifo!TypeOK
  PROVE  Fifo!Pending \in Seq(Nat)
<1>0. len \in Int /\ len <= Len(buf) /\ buf \in Seq(Nat) /\ 1 \in Int
  BY DEF Fifo!TypeOK
<1>1. CASE len > 0
  <2>1. \A k \in 1 .. len : buf[k] \in Nat
    BY <1>0, ElementOfSeq, LenProperties
  <2> QED  BY <1>0, <2>1, SubSeqProperties, EmptySeq DEF Fifo!Pending
<1>2. CASE ~(len > 0)
  BY <1>2, EmptySeq DEF Fifo!Pending
<1> QED  BY <1>1, <1>2

\* read() moves the first words of in.fifo into buf, where they are pending,
\* and leaves what buf held beyond them.
LEMMA FifoRead ==
  ASSUME BufWords \in Nat, Fifo!IInv, Fifo!Read
  PROVE  Fifo!IInv'
<1>0. /\ len \in Int /\ buf \in Seq(Nat) /\ inFifo \in Seq(Nat) /\ outFifo \in Seq(Nat)
      /\ got \in Seq(Nat) /\ typed \in Nat /\ (typist = "write" => typed > 0)
      /\ Fifo!TypeOK /\ Len(buf) \in Nat /\ Fifo!Sent \in Nat
  BY LenProperties DEF Fifo!IInv, Fifo!TypeOK, Fifo!Sent
<1>1. UNCHANGED <<typist, infd, typed, outFifo, visits, reading, got>>
      /\ relay' \in {"read", "open"} /\ relay = "read"
      /\ Fifo!Sent' = Fifo!Sent
  BY DEF Fifo!Read, Fifo!child, Fifo!world, Fifo!Sent
<1>2. PICK w, r \in 0 .. Fifo!Sent :
        /\ w <= r /\ Fifo!Between(0, got \o outFifo, w)
        /\ Fifo!Between(r, inFifo, Fifo!Sent)
  BY DEF Fifo!IInv, Fifo!InOrder
<1>3. CASE atHome /\ inFifo # <<>>
  <2>1. PICK n \in 1 .. BufWords :
          /\ n <= Len(inFifo) /\ len' = n
          /\ buf' = SubSeq(inFifo, 1, n) \o SubSeq(buf, n + 1, Len(buf))
          /\ inFifo' = SubSeq(inFifo, n + 1, Len(inFifo))
    BY <1>3 DEF Fifo!Read
  <2>2. n \in 1 .. Len(inFifo) /\ n \in Nat /\ n > 0 /\ r \in Int /\ Len(inFifo) \in Nat
    BY <1>0, <2>1, LenProperties
  <2> DEFINE top == inFifo[n]
             p == SubSeq(inFifo, 1, n)
             z == SubSeq(buf, n + 1, Len(buf))
  <2>3. /\ p \in Seq(Nat) /\ Len(p) = n
        /\ inFifo' \in Seq(Nat)
        /\ top \in Nat /\ top > r /\ top <= Fifo!Sent
        /\ Fifo!Between(r, p, top)
        /\ Fifo!Between(top, inFifo', Fifo!Sent)
    <3>1. /\ inFifo \in Seq(Nat) /\ n \in 1 .. Len(inFifo) /\ r \in Int
          /\ Fifo!Sent \in Int /\ Fifo!Between(r, inFifo, Fifo!Sent)
      BY <1>0, <1>2, <2>2
    <3>2. /\ p \in Seq(Nat) /\ Len(p) = n
          /\ SubSeq(inFifo, n + 1, Len(inFifo)) \in Seq(Nat)
          /\ top \in Nat /\ top > r /\ top <= Fifo!Sent
          /\ Fifo!Between(r, p, top)
          /\ Fifo!Between(top, SubSeq(inFifo, n + 1, Len(inFifo)), Fifo!Sent)
      BY ONLY <3>1, Parted
    <3> QED  BY <2>1, <3>2
  <2>4. z \in Seq(Nat)
    <3>1. \A k \in n + 1 .. Len(buf) : buf[k] \in Nat
      BY <1>0, <2>2, ElementOfSeq
    <3>2. n + 1 \in Int /\ Len(buf) \in Int
      BY <1>0, <2>2
    <3> QED  BY <3>1, <3>2, SubSeqProperties
  <2> HIDE DEF p, z, top
  <2>5. buf' = p \o z
    BY <2>1 DEF p, z
  <2>6. /\ buf' \in Seq(Nat) /\ Len(buf') = n + Len(z) /\ Len(z) \in Nat
        /\ \A k \in 1 .. n : buf'[k] = p[k]
    <3>1. /\ p \o z \in Seq(Nat) /\ Len(p \o z) = Len(p) + Len(z) /\ Len(z) \in Nat
          /\ \A k \in 1 .. Len(p) + Len(z) :
               (p \o z)[k] = IF k <= Len(p) THEN p[k] ELSE z[k - Len(p)]
      BY <2>3, <2>4, ConcatProperties, LenProperties
    <3> QED  BY <2>2, <2>3, <2>5, <3>1
  <2>7. SubSeq(buf', 1, n) = p
    <3>1. \A k \in 1 .. n : buf'[k] \in Nat
      BY <2>3, <2>6, ElementOfSeq
    <3>2. /\ SubSeq(buf', 1, n) \in Seq(Nat)
          /\ Len(SubSeq(buf', 1, n)) = IF 1 <= n THEN n - 1 + 1 ELSE 0
          /\ \A k \in 1 .. n - 1 + 1 : SubSeq(buf', 1, n)[k] = buf'[1 + k - 1]
      BY <2>2, <3>1, SubSeqProperties
    <3>3. /\ SubSeq(buf', 1, n) \in Seq(Nat) /\ Len(SubSeq(buf', 1, n)) = n
          /\ \A k \in 1 .. n : SubSeq(buf', 1, n)[k] = buf'[k]
      BY <2>2, <3>2
    <3> DEFINE x == SubSeq(buf', 1, n)
    <3> HIDE DEF x
    <3>4. x \in Seq(Nat) /\ Len(x) = Len(p) /\ \A k \in 1 .. Len(x) : x[k] = p[k]
      BY <2>3, <2>6, <3>3 DEF x
    <3>5. x = p
      BY <2>3, <3>4, SeqEqual
    <3> QED  BY <3>5 DEF x
  <2>8. relay' = "open"
    BY <2>1, <2>2 DEF Fifo!Read
  <2>9. Fifo!Pending' = p
    BY <2>1, <2>2, <2>7, <2>8 DEF Fifo!Pending
  <2>10. Fifo!TypeOK'
    <3>1. len' \in Int /\ len' <= Len(buf')
      BY <2>1, <2>2, <2>6
    <3>2. typist \in {"type", "write", "close"}
      BY <1>0 DEF Fifo!TypeOK
    <3> QED  BY <1>0, <1>1, <2>3, <2>6, <3>1, <3>2 DEF Fifo!TypeOK
  <2>11. Fifo!Between(0, (got \o outFifo)', r) /\ top \in 0 .. Fifo!Sent' /\ r \in 0 .. Fifo!Sent'
         /\ r <= top
    <3>1. got \o outFifo \in Seq(Nat) /\ w \in Int
      BY <1>0, <1>2, ConcatProperties
    <3>2. w \in Int /\ r \in Int /\ 0 \in Int /\ w <= r /\ top \in Int
      BY <1>2, <2>2, <2>3
    <3>3. Fifo!Between(0, got \o outFifo, r)
      BY <1>2, <3>1, <3>2, Wider
    <3> QED  BY <1>0, <1>1, <1>2, <2>3, <3>2, <3>3
  <2>12. Fifo!InOrder'
    <3>1. /\ r \in 0 .. Fifo!Sent' /\ top \in 0 .. Fifo!Sent' /\ r <= top
          /\ Fifo!Between(0, got' \o outFifo', r)
          /\ Fifo!Between(r, Fifo!Pending', top)
          /\ Fifo!Between(top, inFifo', Fifo!Sent')
      BY <1>1, <2>3, <2>9, <2>11
    <3> QED  BY <3>1 DEF Fifo!InOrder
  <2> QED  BY <1>0, <1>1, <2>10, <2>12 DEF Fifo!IInv
<1>4. CASE ~(atHome /\ inFifo # <<>>)
  <2>1. UNCHANGED <<buf, inFifo>> /\ len' \in {-1, 0}
    BY <1>4 DEF Fifo!Read
  <2>2. Fifo!Pending' = <<>>
    <3>1. ~(len' > 0)
      BY <2>1
    <3> QED  BY <3>1 DEF Fifo!Pending
  <2>3. Fifo!TypeOK'
    <3>1. len' \in Int /\ len' <= Len(buf')
      BY <1>0, <2>1
    <3>2. typist \in {"type", "write", "close"}
      BY <1>0 DEF Fifo!TypeOK
    <3> QED  BY <1>0, <1>1, <2>1, <3>1, <3>2 DEF Fifo!TypeOK
  <2>4. Fifo!Between(w, <<>>, r)
    <3>1. w \in Int /\ r \in Int /\ <<>> \in Seq(Nat)
      BY <1>0, EmptySeq
    <3> QED  BY <3>1, Wider
  <2>5. Fifo!InOrder'
    <3>1. /\ w \in 0 .. Fifo!Sent' /\ r \in 0 .. Fifo!Sent' /\ w <= r
          /\ Fifo!Between(0, got' \o outFifo', w)
          /\ Fifo!Between(r, inFifo', Fifo!Sent')
      BY <1>1, <1>2, <2>1
    <3>2. Fifo!Between(w, Fifo!Pending', r)
      BY <2>2, <2>4
    <3> QED  BY <3>1, <3>2 DEF Fifo!InOrder
  <2> QED  BY <1>0, <1>1, <2>3, <2>5 DEF Fifo!IInv
<1> QED  BY <1>3, <1>4

\* Losing words, or moving them from one place to the next, keeps the order.
LEMMA FifoQuiet ==
  ASSUME Fifo!IInv, Fifo!TypeOK', typist' = "write" => typed' > 0,
         \/ got' \o outFifo' = got \o outFifo
         \/ got' = got /\ outFifo' = <<>>,
         Fifo!Pending' \in {Fifo!Pending, <<>>},
         UNCHANGED inFifo, Fifo!Sent' = Fifo!Sent
  PROVE  Fifo!IInv'
<1>0. /\ outFifo \in Seq(Nat) /\ got \in Seq(Nat) /\ got \o outFifo \in Seq(Nat)
      /\ Fifo!Sent \in Nat /\ <<>> \in Seq(Nat) /\ got \o <<>> = got
      /\ Fifo!Pending \in Seq(Nat)
  <2>1. outFifo \in Seq(Nat) /\ got \in Seq(Nat) /\ Fifo!TypeOK /\ Fifo!Sent \in Nat
    BY DEF Fifo!IInv, Fifo!TypeOK, Fifo!Sent
  <2> QED  BY <2>1, ConcatProperties, ConcatEmptySeq, EmptySeq, PendingIsWords
<1>1. PICK w, r \in 0 .. Fifo!Sent :
        /\ w <= r /\ Fifo!Between(0, got \o outFifo, w)
        /\ Fifo!Between(w, Fifo!Pending, r) /\ Fifo!Between(r, inFifo, Fifo!Sent)
  BY DEF Fifo!IInv, Fifo!InOrder
<1>2. w \in Int /\ r \in Int /\ 0 \in Int
  BY <1>0
<1>3. Fifo!Between(0, got' \o outFifo', w)
  <2>1. CASE got' \o outFifo' = got \o outFifo
    BY <1>1, <2>1
  <2>2. CASE got' = got /\ outFifo' = <<>>
    <3>1. Fifo!Between(0, got, w)
      BY <1>0, <1>1, <1>2, FirstPart
    <3>2. got' \o outFifo' = got
      BY <1>0, <2>2
    <3> QED  BY <3>1, <3>2
  <2> QED  BY <2>1, <2>2
<1>4. Fifo!Between(w, Fifo!Pending', r)
  <2>1. Fifo!Between(w, <<>>, r)
    BY <1>0, <1>2, Wider
  <2>2. CASE Fifo!Pending' = Fifo!Pending
    BY <1>1, <2>2
  <2>3. CASE Fifo!Pending' = <<>>
    BY <2>1, <2>3
  <2> QED  BY <2>2, <2>3
<1>5. Fifo!Between(r, inFifo', Fifo!Sent')
  BY <1>1
<1>6. w \in 0 .. Fifo!Sent' /\ r \in 0 .. Fifo!Sent' /\ w <= r
  BY <1>1
<1>7. Fifo!InOrder'
  BY <1>3, <1>4, <1>5, <1>6 DEF Fifo!InOrder
<1> QED  BY <1>7 DEF Fifo!IInv

\* write() puts everything that is pending behind what was written, or nothing.
LEMMA FifoWrite ==
  ASSUME Fifo!IInv, Fifo!Write
  PROVE  Fifo!IInv'
<1>0. /\ outFifo \in Seq(Nat) /\ got \in Seq(Nat) /\ Fifo!TypeOK
      /\ got \o outFifo \in Seq(Nat) /\ Fifo!Sent \in Nat /\ relay = "write"
      /\ Fifo!Pending \in Seq(Nat) /\ Fifo!Offered = Fifo!Pending
      /\ outFifo \o <<>> = outFifo
  <2>1. outFifo \in Seq(Nat) /\ got \in Seq(Nat) /\ Fifo!TypeOK /\ Fifo!Sent \in Nat
    BY DEF Fifo!IInv, Fifo!TypeOK, Fifo!Sent
  <2>2. relay = "write"
    BY DEF Fifo!Write
  <2> QED
    BY <2>1, <2>2, ConcatProperties, ConcatEmptySeq, PendingIsWords, Offering
<1>1. /\ UNCHANGED <<len, buf, typist, infd, typed, inFifo, got>> /\ relay' = "close"
      /\ \/ outFifo' = outFifo \o Fifo!Pending
         \/ outFifo' = outFifo
  <2>1. /\ UNCHANGED <<len, buf, typist, infd, typed, inFifo, got>> /\ relay' = "close"
        /\ \/ outFifo' = outFifo \o Fifo!Offered
           \/ outFifo' = outFifo \o <<>>
    BY DEF Fifo!Write, Fifo!child, Fifo!world
  <2> QED  BY <1>0, <2>1
<1>2. Fifo!Pending' = <<>> /\ Fifo!Sent' = Fifo!Sent
  BY <1>1 DEF Fifo!Pending, Fifo!Sent
<1>3. Fifo!TypeOK'
  <2>1. outFifo' \in Seq(Nat)
    BY <1>0, <1>1, ConcatProperties
  <2> QED  BY <1>0, <1>1, <2>1 DEF Fifo!TypeOK
<1>4. typist' = "write" => typed' > 0
  BY <1>1 DEF Fifo!IInv
<1>5. CASE outFifo' = outFifo
  BY <1>1, <1>2, <1>3, <1>4, <1>5, FifoQuiet
<1>6. CASE outFifo' = outFifo \o Fifo!Pending
  <2>1. PICK w, r \in 0 .. Fifo!Sent :
          /\ w <= r /\ Fifo!Between(0, got \o outFifo, w)
          /\ Fifo!Between(w, Fifo!Pending, r) /\ Fifo!Between(r, inFifo, Fifo!Sent)
    BY DEF Fifo!IInv, Fifo!InOrder
  <2>2. w \in Int /\ r \in Int /\ 0 \in Int /\ 0 <= w
    BY <1>0
  <2>3. Fifo!Between(0, (got \o outFifo) \o Fifo!Pending, r)
    <3> DEFINE a == got \o outFifo
               b == Fifo!Pending
    <3>1. /\ a \in Seq(Nat) /\ b \in Seq(Nat) /\ 0 <= w /\ w <= r
          /\ Fifo!Between(0, a, w) /\ Fifo!Between(w, b, r)
      BY <1>0, <2>1, <2>2
    <3> HIDE DEF a, b
    <3>2. Fifo!Between(0, a \o b, r)
      BY ONLY <2>2, <3>1, Joined
    <3> QED  BY <3>2 DEF a, b
  <2>4. got' \o outFifo' = (got \o outFifo) \o Fifo!Pending
    <3> DEFINE a == got
               b == outFifo
               d == Fifo!Pending
    <3>1. /\ a \in Seq(Nat) /\ b \in Seq(Nat) /\ d \in Seq(Nat)
          /\ got' = a /\ outFifo' = b \o d
      BY <1>0, <1>1, <1>6
    <3> HIDE DEF a, b, d
    <3>2. (a \o b) \o d = a \o (b \o d)
      BY ONLY <3>1, ThreeWords
    <3>3. got' \o outFifo' = (a \o b) \o d
      BY ONLY <3>1, <3>2
    <3> QED  BY <3>3 DEF a, b, d
  <2>5. Fifo!Between(r, Fifo!Pending', r)
    <3>1. Fifo!Between(r, <<>>, r)
      BY <1>0, <2>2, Wider
    <3> QED  BY <1>2, <3>1
  <2>6. /\ r \in 0 .. Fifo!Sent' /\ r <= r
        /\ Fifo!Between(0, got' \o outFifo', r)
        /\ Fifo!Between(r, inFifo', Fifo!Sent')
    BY <1>1, <1>2, <2>1, <2>2, <2>3, <2>4
  <2>7. Fifo!InOrder'
    BY <2>5, <2>6 DEF Fifo!InOrder
  <2> QED  BY <1>3, <1>4, <2>7 DEF Fifo!IInv
<1> QED  BY <1>1, <1>5, <1>6

\* The child's write() puts the last word typed behind those before it.
LEMMA FifoSend ==
  ASSUME Fifo!IInv, Fifo!Send
  PROVE  Fifo!IInv'
<1>0. /\ inFifo \in Seq(Nat) /\ Fifo!TypeOK /\ typed \in Nat /\ typed > 0
      /\ Fifo!Sent = typed - 1 /\ typed - 1 \in Nat /\ <<typed>> \in Seq(Nat)
      /\ typist = "write"
  BY DEF Fifo!IInv, Fifo!TypeOK, Fifo!Sent, Fifo!Send
<1>1. /\ UNCHANGED <<relay, len, buf, typed, outFifo, got>> /\ typist' = "close"
      /\ inFifo' \in {inFifo, Append(inFifo, typed)}
  BY DEF Fifo!Send, Fifo!world
<1>2. Fifo!Pending' = Fifo!Pending /\ Fifo!Sent' = typed
  BY <1>1 DEF Fifo!Pending, Fifo!Sent
<1>3. PICK w, r \in 0 .. typed - 1 :
        /\ w <= r /\ Fifo!Between(0, got \o outFifo, w)
        /\ Fifo!Between(w, Fifo!Pending, r) /\ Fifo!Between(r, inFifo, typed - 1)
  BY <1>0 DEF Fifo!IInv, Fifo!InOrder
<1>4. Fifo!Between(r, inFifo', typed) /\ inFifo' \in Seq(Nat)
  <2>0. r \in Int /\ typed - 1 \in Int /\ typed \in Int /\ typed - 1 <= typed /\ r <= typed - 1
    BY <1>0
  <2>1. CASE inFifo' = inFifo
    <3>1. Fifo!Between(r, inFifo, typed)
      BY <1>0, <1>3, <2>0, Wider
    <3> QED  BY <1>0, <2>1, <3>1
  <2>2. CASE inFifo' = Append(inFifo, typed)
    <3>1. Fifo!Between(typed - 1, <<typed>>, typed)
      <4>1. Len(<<typed>>) = 1 /\ <<typed>>[1] = typed
        OBVIOUS
      <4>2. Fifo!Increasing(<<typed>>)
        BY <4>1 DEF Fifo!Increasing
      <4>3. \A k \in 1 .. Len(<<typed>>) : k = 1
        BY <4>1
      <4>4. typed > typed - 1 /\ typed <= typed
        BY <1>0
      <4> QED  BY <4>1, <4>2, <4>3, <4>4 DEF Fifo!Between
    <3>2. inFifo \o <<typed>> \in Seq(Nat) /\ Fifo!Between(r, inFifo \o <<typed>>, typed)
      BY <1>0, <1>3, <2>0, <3>1, Joined
    <3>3. Append(inFifo, typed) = inFifo \o <<typed>>
      BY <1>0, AppendIsConcat
    <3> QED  BY <2>2, <3>2, <3>3
  <2> QED  BY <1>1, <2>1, <2>2
<1>5. w \in 0 .. Fifo!Sent' /\ r \in 0 .. Fifo!Sent'
  BY <1>0, <1>2
<1>6. Fifo!InOrder'
  <2>1. Fifo!Between(0, got' \o outFifo', w) /\ Fifo!Between(w, Fifo!Pending', r)
    BY <1>1, <1>2, <1>3
  <2> QED  BY <1>2, <1>3, <1>4, <1>5, <2>1 DEF Fifo!InOrder
<1>7. Fifo!TypeOK'
  <2>1. relay \in {"start", "read", "open", "write", "close", "killed"}
        /\ len \in Int /\ len <= Len(buf) /\ buf \in Seq(Nat)
        /\ outFifo \in Seq(Nat) /\ got \in Seq(Nat)
    BY <1>0 DEF Fifo!TypeOK
  <2> QED  BY <1>0, <1>1, <1>4, <2>1 DEF Fifo!TypeOK
<1> QED  BY <1>1, <1>6, <1>7 DEF Fifo!IInv

\* The other steps only move words on, or lose them.
LEMMA FifoOthers ==
  ASSUME Fifo!IInv,
         \/ Fifo!OpenIn \/ Fifo!OpenOut \/ Fifo!Killed \/ Fifo!CloseOut
         \/ Fifo!Type \/ Fifo!CloseIn
         \/ Fifo!ReaderOpens \/ Fifo!ReaderTakes \/ Fifo!ReaderCloses
         \/ UNCHANGED Fifo!vars
  PROVE  Fifo!IInv'
<1>0. /\ relay \in {"start", "read", "open", "write", "close", "killed"}
      /\ len \in Int /\ len <= Len(buf) /\ buf \in Seq(Nat)
      /\ typist \in {"type", "write", "close"} /\ typed \in Nat
      /\ inFifo \in Seq(Nat) /\ outFifo \in Seq(Nat) /\ got \in Seq(Nat)
      /\ typist = "write" => typed > 0
      /\ <<>> \in Seq(Nat)
  BY EmptySeq DEF Fifo!IInv, Fifo!TypeOK
<1> USE DEF Fifo!child, Fifo!world
<1>1. UNCHANGED <<len, buf, inFifo>>
  BY DEF Fifo!OpenIn, Fifo!OpenOut, Fifo!Killed, Fifo!CloseOut, Fifo!Type,
         Fifo!CloseIn, Fifo!ReaderOpens, Fifo!ReaderTakes, Fifo!ReaderCloses,
         Fifo!vars
<1>2. /\ relay' \in {"start", "read", "open", "write", "close", "killed"}
      /\ relay' \in {"open", "write"} => relay \in {"open", "write"}
      /\ relay' \notin {"open", "write"} => relay' = relay \/ Fifo!Pending' = <<>>
  BY <1>0, <1>1
     DEF Fifo!OpenIn, Fifo!OpenOut, Fifo!Killed, Fifo!CloseOut, Fifo!Type,
         Fifo!CloseIn, Fifo!ReaderOpens, Fifo!ReaderTakes, Fifo!ReaderCloses,
         Fifo!vars, Fifo!Pending
<1>3. Fifo!Pending' \in {Fifo!Pending, <<>>}
  BY <1>1, <1>2 DEF Fifo!Pending
<1>4. \/ UNCHANGED <<typist, typed>>
      \/ typist = "type" /\ typist' = "write" /\ typed' = typed + 1
      \/ typist = "close" /\ typist' = "type" /\ typed' = typed
  BY DEF Fifo!OpenIn, Fifo!OpenOut, Fifo!Killed, Fifo!CloseOut, Fifo!Type,
         Fifo!CloseIn, Fifo!ReaderOpens, Fifo!ReaderTakes, Fifo!ReaderCloses,
         Fifo!vars
<1>5. /\ typist' \in {"type", "write", "close"} /\ typed' \in Nat
      /\ typist' = "write" => typed' > 0
      /\ Fifo!Sent' = Fifo!Sent
  BY <1>0, <1>4 DEF Fifo!Sent
<1>6. \/ UNCHANGED <<got, outFifo>>
      \/ got' = got /\ outFifo' = <<>>
      \/ outFifo # <<>> /\ got' = Append(got, Head(outFifo)) /\ outFifo' = Tail(outFifo)
  BY DEF Fifo!OpenIn, Fifo!OpenOut, Fifo!Killed, Fifo!CloseOut, Fifo!Type,
         Fifo!CloseIn, Fifo!ReaderOpens, Fifo!ReaderTakes, Fifo!ReaderCloses,
         Fifo!vars
<1>7. /\ got' \in Seq(Nat) /\ outFifo' \in Seq(Nat)
      /\ \/ got' \o outFifo' = got \o outFifo
         \/ got' = got /\ outFifo' = <<>>
  BY <1>0, <1>6, HeadMoved
<1>8. Fifo!TypeOK'
  BY <1>0, <1>1, <1>2, <1>5, <1>7 DEF Fifo!TypeOK
<1> QED  BY <1>1, <1>3, <1>5, <1>7, <1>8, FifoQuiet

\* The order in which words are typed survives every step.
THEOREM FifoInvariance == BufWords \in Nat => (Fifo!Spec => []Fifo!IInv)
<1> SUFFICES ASSUME BufWords \in Nat  PROVE Fifo!Spec => []Fifo!IInv
  OBVIOUS
<1>1. Fifo!Init => Fifo!IInv
  <2> SUFFICES ASSUME Fifo!Init  PROVE Fifo!IInv
    OBVIOUS
  <2>1. /\ relay = "start" /\ len = 0 /\ buf = <<>> /\ typist = "type" /\ typed = 0
        /\ inFifo = <<>> /\ outFifo = <<>> /\ got = <<>>
        /\ <<>> \in Seq(Nat) /\ Len(<<>>) = 0
    BY EmptySeq DEF Fifo!Init
  <2>2. Fifo!TypeOK /\ Fifo!Sent = 0 /\ Fifo!Pending = <<>>
    BY <2>1 DEF Fifo!TypeOK, Fifo!Sent, Fifo!Pending
  <2>3. got \o outFifo = <<>>
    BY <2>1, ConcatEmptySeq
  <2>4. Fifo!Between(0, <<>>, 0)
    BY <2>1 DEF Fifo!Between, Fifo!Increasing
  <2>5. Fifo!InOrder
    BY <2>1, <2>2, <2>3, <2>4 DEF Fifo!InOrder
  <2> QED  BY <2>1, <2>2, <2>5 DEF Fifo!IInv
<1>2. Fifo!IInv /\ [Fifo!Next]_(Fifo!vars) => Fifo!IInv'
  BY FifoRead, FifoWrite, FifoSend, FifoOthers DEF Fifo!Next, Fifo!Relay
<1> QED  BY <1>1, <1>2, PTL DEF Fifo!Spec

\* Only typed words come out of out.fifo, in the order they were typed and none
\* twice, however often the reader comes and goes and whatever is lost between.
THEOREM RelayCorrect == BufWords \in Nat => (Fifo!Spec => []OnlyTypedComesOut)
<1> SUFFICES ASSUME BufWords \in Nat  PROVE Fifo!Spec => []OnlyTypedComesOut
  OBVIOUS
<1>1. Fifo!IInv => OnlyTypedComesOut
  <2> SUFFICES ASSUME Fifo!IInv  PROVE OnlyTypedComesOut
    OBVIOUS
  <2>1. /\ outFifo \in Seq(Nat) /\ got \in Seq(Nat) /\ typed \in Nat
        /\ Fifo!Sent \in Nat /\ Fifo!Sent <= typed
    BY DEF Fifo!IInv, Fifo!TypeOK, Fifo!Sent
  <2>2. PICK w \in 0 .. Fifo!Sent : Fifo!Between(0, got \o outFifo, w)
    BY DEF Fifo!IInv, Fifo!InOrder
  <2>3. w \in Int /\ 0 \in Int /\ w <= typed
    BY <2>1
  <2>4. Fifo!Between(0, got, w)
    BY <2>1, <2>2, <2>3, FirstPart
  <2>5. \A k \in 1 .. Len(got) : got[k] \in Nat
    BY <2>1, ElementOfSeq
  <2>6. \A k \in 1 .. Len(got) : got[k] <= typed
    BY <2>1, <2>3, <2>4, <2>5 DEF Fifo!Between
  <2> QED
    BY <2>2, <2>6 DEF OnlyTypedComesOut, Fifo!OnlyTypedComesOut, Fifo!Between
<1> QED  BY FifoInvariance, <1>1, PTL

(***************************************************************************)
(* MsgQueue, for every number of other senders' messages: nothing passes   *)
(* the child's message.                                                    *)
(***************************************************************************)

\* The child's message is put behind those that are there.
LEMMA ChildSends ==
  ASSUME Msg!IInv, Msg!Msgsnd
  PROVE  Msg!QueueOK' /\ msgs' \in Seq(Nat)
<1>0. /\ msgs \in Seq(Nat) /\ others \in Nat /\ Len(msgs) \in Nat /\ child = "send"
      /\ before = -1 /\ \A k \in 1 .. Len(msgs) : msgs[k] \in 1 .. others
      /\ child' = "ended" /\ UNCHANGED <<others, rcv>>
  BY LenProperties DEF Msg!IInv, Msg!TypeOK, Msg!QueueOK, Msg!Msgsnd
<1>1. CASE Msg!Open
  <2>1. msgs' = Append(msgs, Msg!OfChild) /\ before' = others
    BY <1>1 DEF Msg!Msgsnd
  <2>2. Msg!OfChild \in Nat
    BY DEF Msg!OfChild
  <2>3. /\ msgs' \in Seq(Nat) /\ Len(msgs') = Len(msgs) + 1
        /\ \A k \in 1 .. Len(msgs) : msgs'[k] = msgs[k]
        /\ msgs'[Len(msgs) + 1] = Msg!OfChild
    BY <1>0, <2>1, <2>2, AppendProperties
  <2>4. PICK place \in 1 .. Len(msgs') : place = Len(msgs) + 1
    BY <1>0, <2>3
  <2>5. \A k \in 1 .. place - 1 : msgs'[k] \in 1 .. before'
    BY <1>0, <2>1, <2>3, <2>4
  <2> QED  BY <1>0, <2>1, <2>3, <2>4, <2>5 DEF Msg!QueueOK
<1>2. CASE ~Msg!Open
  <2>1. UNCHANGED <<msgs, before>>
    BY <1>2 DEF Msg!Msgsnd
  <2> QED  BY <1>0, <2>1 DEF Msg!QueueOK
<1> QED  BY <1>1, <1>2

\* Another sender's message, which comes last.
LEMMA OtherSends ==
  ASSUME Msg!IInv, Msg!SendOther
  PROVE  Msg!QueueOK' /\ msgs' \in Seq(Nat)
<1>0. /\ msgs \in Seq(Nat) /\ others \in Nat /\ Len(msgs) \in Nat
      /\ others' = others + 1 /\ others' \in Nat
      /\ msgs' = Append(msgs, others') /\ UNCHANGED <<before, child, rcv>>
      /\ Msg!QueueOK /\ Msg!Open
  BY LenProperties DEF Msg!IInv, Msg!TypeOK, Msg!SendOther
<1>1. /\ msgs' \in Seq(Nat) /\ Len(msgs') = Len(msgs) + 1
      /\ \A k \in 1 .. Len(msgs) : msgs'[k] = msgs[k]
      /\ msgs'[Len(msgs) + 1] = others'
  BY <1>0, AppendProperties
<1>2. before = -1 => \A k \in 1 .. Len(msgs') : msgs'[k] \in 1 .. others'
  BY <1>0, <1>1 DEF Msg!QueueOK
<1>3. ASSUME before >= 0
      PROVE  \E place \in 1 .. Len(msgs') :
               /\ msgs'[place] = Msg!OfChild
               /\ \A k \in 1 .. place - 1 : msgs'[k] \in 1 .. before'
  <2>1. PICK place \in 1 .. Len(msgs) :
          /\ msgs[place] = Msg!OfChild
          /\ \A k \in 1 .. place - 1 : msgs[k] \in 1 .. before
    BY <1>0, <1>3 DEF Msg!QueueOK
  <2>2. place \in 1 .. Len(msgs') /\ \A k \in 1 .. place - 1 : k \in 1 .. Len(msgs)
    BY <1>0, <1>1
  <2> QED  BY <1>0, <1>1, <2>1, <2>2
<1>4. child' = "send" => before' = -1
  BY <1>0 DEF Msg!QueueOK
<1> QED  BY <1>0, <1>1, <1>2, <1>3, <1>4 DEF Msg!QueueOK

\* msgrcv() takes the first message, unless it is the child's.
LEMMA Receives ==
  ASSUME Msg!IInv, Msg!Msgrcv, Head(msgs) # Msg!OfChild
  PROVE  /\ Msg!QueueOK' /\ msgs' \in Seq(Nat)
         /\ Head(msgs) \in Nat
         /\ before = -1 => Head(msgs) \in 1 .. others
         /\ before >= 0 => Head(msgs) \in 1 .. before
<1>0. /\ msgs \in Seq(Nat) /\ others \in Nat /\ Len(msgs) \in Nat
      /\ before \in -1 .. others
      /\ msgs # <<>> /\ msgs' = Tail(msgs) /\ UNCHANGED <<others, before, child>>
      /\ rcv = "receive" /\ Msg!Open /\ Msg!QueueOK
  BY LenProperties
     DEF Msg!IInv, Msg!TypeOK, Msg!Msgrcv, Msg!Accepted, Msg!Open
<1>1. /\ msgs' \in Seq(Nat) /\ Len(msgs') = Len(msgs) - 1 /\ Len(msgs) > 0
      /\ \A k \in 1 .. Len(msgs') : msgs'[k] = msgs[k + 1]
      /\ Head(msgs) = msgs[1] /\ Head(msgs) \in Nat
  BY <1>0, HeadTailProperties, EmptySeq
<1>2. before = -1 =>
        /\ Head(msgs) \in 1 .. others
        /\ \A k \in 1 .. Len(msgs') : msgs'[k] \in 1 .. others
  BY <1>0, <1>1 DEF Msg!QueueOK
<1>3. ASSUME before >= 0
      PROVE  /\ Head(msgs) \in 1 .. before
             /\ \E place \in 1 .. Len(msgs') :
                  /\ msgs'[place] = Msg!OfChild
                  /\ \A k \in 1 .. place - 1 : msgs'[k] \in 1 .. before
  <2>1. PICK place \in 1 .. Len(msgs) :
          /\ msgs[place] = Msg!OfChild
          /\ \A k \in 1 .. place - 1 : msgs[k] \in 1 .. before
    BY <1>0, <1>3 DEF Msg!QueueOK
  <2>2. place # 1
    BY <1>1, <2>1
  <2>3. PICK next \in 1 .. Len(msgs') : place = next + 1
    BY <1>0, <1>1, <2>2
  <2>4. msgs'[next] = Msg!OfChild
    BY <1>1, <2>1, <2>3
  <2>5. \A k \in 1 .. next - 1 : msgs'[k] \in 1 .. before
    <3> TAKE k \in 1 .. next - 1
    <3>1. k \in 1 .. Len(msgs') /\ k + 1 \in 1 .. place - 1
      BY <1>0, <1>1, <2>3
    <3> QED  BY <1>1, <2>1, <3>1
  <2>6. Head(msgs) \in 1 .. before
    <3>1. 1 \in 1 .. place - 1
      BY <1>0, <2>2
    <3> QED  BY <1>1, <2>1, <3>1
  <2> QED  BY <2>4, <2>5, <2>6
<1>4. child' = "send" => before' = -1
  BY <1>0 DEF Msg!QueueOK
<1> QED  BY <1>0, <1>1, <1>2, <1>3, <1>4 DEF Msg!QueueOK

\* What every sender and every call of the parent preserves.
LEMMA MsgStep == Msg!IInv /\ [Msg!Next]_(Msg!vars) => Msg!IInv'
<1> SUFFICES ASSUME Msg!IInv, [Msg!Next]_(Msg!vars)  PROVE Msg!IInv'
  OBVIOUS
<1>0. Msg!TypeOK /\ Msg!QueueOK /\ Msg!BufferOK
  BY DEF Msg!IInv
<1>1. CASE Msg!Msgsnd
  <2>1. Msg!QueueOK' /\ msgs' \in Seq(Nat)
    BY <1>1, ChildSends
  <2>2. /\ UNCHANGED <<others, rcv, mtext, saved>> /\ child' = "ended"
        /\ before' \in {before, others} /\ before = -1
    BY <1>0, <1>1 DEF Msg!Msgsnd, Msg!QueueOK
  <2>3. Msg!TypeOK'
    BY <1>0, <2>1, <2>2 DEF Msg!TypeOK
  <2>4. \A m \in 1 .. others : before' >= 0 => m <= before'
    BY <1>0, <2>2 DEF Msg!TypeOK
  <2>5. Msg!BufferOK'
    BY <1>0, <2>2, <2>4 DEF Msg!BufferOK
  <2> QED  BY <2>1, <2>3, <2>5 DEF Msg!IInv
<1>2. CASE Msg!SendOther
  <2>1. Msg!QueueOK' /\ msgs' \in Seq(Nat)
    BY <1>2, OtherSends
  <2>2. UNCHANGED <<before, child, rcv, mtext, saved>> /\ others' = others + 1
    BY <1>2 DEF Msg!SendOther
  <2>3. Msg!TypeOK'
    BY <1>0, <2>1, <2>2 DEF Msg!TypeOK
  <2>4. \A m \in 1 .. others : m \in 1 .. others'
    BY <1>0, <2>2 DEF Msg!TypeOK
  <2>5. Msg!BufferOK'
    BY <1>0, <2>2, <2>4 DEF Msg!BufferOK
  <2> QED  BY <2>1, <2>3, <2>5 DEF Msg!IInv
<1>3. CASE Msg!Msgrcv
  <2>0. /\ UNCHANGED <<others, before, child, saved>> /\ rcv = "receive"
        /\ rcv' = IF mtext' = <<"empty">> THEN "receive" ELSE "save"
    BY <1>3 DEF Msg!Msgrcv
  <2>1. saved = <<"no">>
    BY <1>0, <2>0 DEF Msg!BufferOK
  <2>2. CASE Head(msgs) # Msg!OfChild
    <3>1. /\ Msg!QueueOK' /\ msgs' \in Seq(Nat)
          /\ before = -1 => Head(msgs) \in 1 .. others
          /\ before >= 0 => Head(msgs) \in 1 .. before
      BY <1>3, <2>2, Receives
    <3>2. mtext' = <<"message", Head(msgs)>>
      BY <1>3, <2>2 DEF Msg!Msgrcv, Msg!Accepted
    <3>3. Head(msgs) \in 1 .. others /\ (before >= 0 => Head(msgs) <= before)
      BY <1>0, <3>1 DEF Msg!TypeOK
    <3>4. Msg!BufferOK'
      <4>1. \E m \in 1 .. others' :
              mtext' = <<"message", m>> /\ (before' >= 0 => m <= before')
        BY <2>0, <3>2, <3>3
      <4> QED  BY <2>0, <2>1, <4>1 DEF Msg!BufferOK
    <3>5. Msg!TypeOK'
      BY <1>0, <2>0, <3>1 DEF Msg!TypeOK
    <3> QED  BY <3>1, <3>4, <3>5 DEF Msg!IInv
  <2>3. CASE Head(msgs) = Msg!OfChild
    <3>1. UNCHANGED <<mtext, msgs>>
      BY <1>3, <2>3 DEF Msg!Msgrcv, Msg!Accepted
    <3>2. Msg!TypeOK'
      BY <1>0, <2>0, <3>1 DEF Msg!TypeOK
    <3>3. Msg!QueueOK'
      BY <1>0, <2>0, <3>1 DEF Msg!QueueOK, Msg!Open
    <3>4. Msg!BufferOK'
      BY <1>0, <2>0, <2>1, <3>1 DEF Msg!BufferOK
    <3> QED  BY <3>2, <3>3, <3>4 DEF Msg!IInv
  <2> QED  BY <2>2, <2>3
<1>4. CASE Msg!Save
  <2>1. UNCHANGED <<msgs, others, before, child, mtext>> /\ saved' = mtext
        /\ rcv = "save" /\ rcv' = "remove"
    BY <1>4 DEF Msg!Save
  <2>2. Msg!TypeOK'
    BY <1>0, <2>1 DEF Msg!TypeOK
  <2>3. Msg!QueueOK'
    BY <1>0, <2>1 DEF Msg!QueueOK, Msg!Open
  <2>4. Msg!BufferOK'
    BY <1>0, <2>1 DEF Msg!BufferOK
  <2> QED  BY <2>2, <2>3, <2>4 DEF Msg!IInv
<1>5. CASE Msg!Remove
  <2>1. UNCHANGED <<others, before, child, mtext, saved>> /\ msgs' = <<>>
        /\ rcv = "remove" /\ rcv' = "returned"
    BY <1>5 DEF Msg!Remove
  <2>2. msgs' \in Seq(Nat) /\ Len(msgs') = 0
    BY <2>1, EmptySeq
  <2>3. Msg!TypeOK'
    BY <1>0, <2>1, <2>2 DEF Msg!TypeOK
  <2>4. Msg!QueueOK'
    BY <1>0, <2>1, <2>2 DEF Msg!QueueOK, Msg!Open
  <2>5. Msg!BufferOK'
    BY <1>0, <2>1 DEF Msg!BufferOK
  <2> QED  BY <2>3, <2>4, <2>5 DEF Msg!IInv
<1>6. CASE UNCHANGED Msg!vars
  BY <1>0, <1>6
     DEF Msg!vars, Msg!IInv, Msg!TypeOK, Msg!QueueOK, Msg!BufferOK, Msg!Open
<1> QED  BY <1>1, <1>2, <1>3, <1>4, <1>5, <1>6 DEF Msg!Next

\* The child's message stays where it is for as long as the queue does.
THEOREM MsgInvariance == MaxOthers \in Nat => (Msg!Spec => []Msg!IInv)
<1> SUFFICES ASSUME MaxOthers \in Nat  PROVE Msg!Spec => []Msg!IInv
  OBVIOUS
<1>1. Msg!Init => Msg!IInv
  <2> SUFFICES ASSUME Msg!Init  PROVE Msg!IInv
    OBVIOUS
  <2>1. /\ others \in Nat /\ before = -1 /\ child \in {"send", "none"}
        /\ rcv = "receive" /\ mtext \in {<<"empty">>, <<"garbage">>}
        /\ saved = <<"no">>
    BY DEF Msg!Init
  <2>2. msgs \in [1 .. others -> Nat] /\ \A k \in 1 .. others : msgs[k] = k
    BY <2>1 DEF Msg!Init
  <2>3. msgs \in Seq(Nat) /\ Len(msgs) = others
    BY <2>1, <2>2, SeqDef, LenProperties
  <2>4. Msg!TypeOK
    BY <2>1, <2>3 DEF Msg!TypeOK
  <2>5. Msg!QueueOK
    BY <2>1, <2>2, <2>3 DEF Msg!QueueOK
  <2>6. Msg!BufferOK
    BY <2>1 DEF Msg!BufferOK
  <2> QED  BY <2>4, <2>5, <2>6 DEF Msg!IInv
<1> QED  BY <1>1, MsgStep, PTL DEF Msg!Spec

\* What the parent saves is never the child's message and never one that was
\* sent after it, for any number of other senders' messages.
THEOREM ChildStopsTheQueue ==
  MaxOthers \in Nat => (Msg!Spec => []NothingPassesTheChild)
<1> SUFFICES ASSUME MaxOthers \in Nat
             PROVE  Msg!Spec => []NothingPassesTheChild
  OBVIOUS
<1>1. Msg!IInv => NothingPassesTheChild
  <2> SUFFICES ASSUME Msg!IInv  PROVE Msg!NothingPassesTheChild
    BY DEF NothingPassesTheChild
  <2>1. others \in Nat /\ Msg!BufferOK
    BY DEF Msg!IInv, Msg!TypeOK
  <2>2. mtext = <<"empty">> => rcv = "receive"
    BY <2>1 DEF Msg!BufferOK
  <2>3. ASSUME saved # <<"no">>, saved # <<"garbage">>
        PROVE  /\ saved[1] = "message" /\ saved[2] # Msg!OfChild
               /\ before >= 0 => saved[2] <= before
    <3>1. PICK m \in 1 .. others :
            saved = <<"message", m>> /\ (before >= 0 => m <= before)
      BY <2>1, <2>3 DEF Msg!BufferOK
    <3>2. saved[1] = "message" /\ saved[2] = m
      BY <3>1
    <3>3. m # Msg!OfChild
      BY DEF Msg!OfChild
    <3> QED  BY <3>1, <3>2, <3>3
  <2> QED  BY <2>2, <2>3 DEF Msg!NothingPassesTheChild
<1> QED  BY MsgInvariance, <1>1, PTL

(***************************************************************************)
(* CommandLine, for every set of letters and every line.  Its folds are    *)
(* functions of the library on sets of indices, which satisfy an equation: *)
(* there is such a function, and its values on the indices up to l are     *)
(* those of a loop that has taken l elements.  Induction is over a set of  *)
(* numbers, so that no operator is a parameter of a lemma.                 *)
(***************************************************************************)

\* What holds of 0, and of l + 1 whenever it holds of l, holds up to n.
LEMMA UpTo ==
  ASSUME NEW n \in Nat, NEW G, 0 \in G, \A l \in 0 .. n - 1 : l \in G => l + 1 \in G
  PROVE  \A l \in 0 .. n : l \in G
<1> DEFINE Bad == {l \in 0 .. n : l \notin G}
<1> SUFFICES ASSUME Bad # {}  PROVE FALSE
  OBVIOUS
<1>1. Bad \in SUBSET Nat
  OBVIOUS
<1>2. PICK x \in Bad : \A y \in Bad : ~ (<<y, x>> \in OpToRel(<, Nat))
  BY <1>1, WFMin, NatLessThanWellFounded
<1>3. \A y \in Bad : ~(y < x)
  BY <1>1, <1>2 DEF OpToRel
<1>4. x - 1 \in 0 .. n - 1 /\ x - 1 \notin Bad
  BY <1>3
<1>5. x - 1 \in G /\ (x - 1) + 1 = x
  BY <1>4
<1> QED  BY <1>4, <1>5

\* The largest of some numbers up to n.
LEMMA Largest ==
  ASSUME NEW n \in Nat, NEW T \in SUBSET (1 .. n), T # {}
  PROVE  /\ Line!Max(T) \in T
         /\ \A y \in T : y <= Line!Max(T)
<1> DEFINE G == {l \in 0 .. n : (\E y \in T : y <= l) => \E x \in T : \A y \in T : y <= l => y <= x}
<1>1. 0 \in G
  OBVIOUS
<1>2. ASSUME NEW l \in 0 .. n - 1, l \in G  PROVE l + 1 \in G
  <2>1. CASE l + 1 \in T
    <3>1. \A y \in T : y <= l + 1 => y <= l + 1
      OBVIOUS
    <3> QED  BY <2>1, <3>1
  <2>2. CASE l + 1 \notin T
    <3>1. \A y \in T : y <= l + 1 <=> y <= l
      BY <2>2
    <3> QED  BY <1>2, <3>1
  <2> QED  BY <2>1, <2>2
<1>3. n \in G
  <2> HIDE DEF G
  <2> QED  BY <1>1, <1>2, UpTo
<1>4. \E x \in T : \A y \in T : x >= y
  <2>1. \A y \in T : y \in Nat /\ y <= n
    OBVIOUS
  <2>2. PICK x \in T : \A y \in T : y <= n => y <= x
    BY <1>3, <2>1
  <2>3. \A y \in T : x >= y
    BY <2>1, <2>2
  <2> QED  BY <2>3
<1>5. Line!Max(T) \in T /\ \A y \in T : Line!Max(T) >= y
  BY <1>4 DEF Line!Max
<1> QED  BY <1>5

\* The indices up to l, and their largest.
LEMMA LargestUpTo ==
  ASSUME NEW n \in Nat, NEW l \in 1 .. n
  PROVE  /\ 1 .. l \in SUBSET (1 .. n) /\ 1 .. l # {}
         /\ Line!Max(1 .. l) = l /\ (1 .. l) \ {l} = 1 .. l - 1
<1>1. PICK T : T = 1 .. l
  OBVIOUS
<1>2. T \in SUBSET (1 .. n) /\ T # {} /\ l \in T
  <2>1. l \in 1 .. l /\ \A y \in 1 .. l : y \in 1 .. n
    OBVIOUS
  <2> QED  BY <1>1, <2>1
<1>3. Line!Max(T) \in T /\ \A y \in T : y <= Line!Max(T)
  BY <1>2, Largest
<1>4. Line!Max(T) = l
  BY <1>1, <1>2, <1>3
<1>5. (1 .. l) \ {l} = 1 .. l - 1
  OBVIOUS
<1> QED  BY <1>1, <1>2, <1>4, <1>5

\* The library defines a fold by a function on the sets of indices that satisfies
\* an equation.
IsFold(g, F, base, n, e) ==
  \A T \in SUBSET (1 .. n) :
    g[T] = IF T = {} THEN base ELSE F[g[T \ {Line!Max(T)}]][e[Line!Max(T)]]

\* There is one, for every step F on the elements of e.
LEMMA FoldExists ==
  ASSUME NEW A, NEW D, NEW F \in [A -> [D -> A]], NEW base \in A,
         NEW n \in Nat, NEW e \in [1 .. n -> D]
  PROVE  \E g \in [SUBSET (1 .. n) -> A] : IsFold(g, F, base, n, e)
<1> DEFINE Solves(g, m) ==
             /\ g \in [SUBSET (1 .. m) -> A]
             /\ \A T \in SUBSET (1 .. m) :
                  g[T] = IF T = {} THEN base
                         ELSE F[g[T \ {Line!Max(T)}]][e[Line!Max(T)]]
           G == {m \in 0 .. n : \E g : Solves(g, m)}
<1>1. 0 \in G
  <2> DEFINE g0 == [T \in SUBSET (1 .. 0) |-> base]
  <2>1. \A T \in SUBSET (1 .. 0) : T = {}
    OBVIOUS
  <2>2. Solves(g0, 0)
    BY <2>1
  <2> HIDE DEF Solves, g0
  <2> QED  BY <2>2
<1>2. ASSUME NEW m \in 0 .. n - 1, m \in G  PROVE m + 1 \in G
  <2>1. PICK g : Solves(g, m)
    BY <1>2
  <2> DEFINE x == m + 1
             f == [T \in SUBSET (1 .. x) |->
                     IF x \in T THEN F[g[T \ {x}]][e[x]] ELSE g[T]]
  <2>2. x \in 1 .. n /\ x \in Nat /\ e[x] \in D /\ x \notin 1 .. m
    OBVIOUS
  <2>3. \A T \in SUBSET (1 .. x) : T \ {x} \in SUBSET (1 .. m)
    OBVIOUS
  <2>4. \A T \in SUBSET (1 .. x) : x \notin T => T \in SUBSET (1 .. m)
    OBVIOUS
  <2>5. /\ g \in [SUBSET (1 .. m) -> A]
        /\ \A T \in SUBSET (1 .. m) :
             g[T] = IF T = {} THEN base
                    ELSE F[g[T \ {Line!Max(T)}]][e[Line!Max(T)]]
    BY <2>1
  <2> HIDE DEF x
  <2>6. f \in [SUBSET (1 .. x) -> A]
    <3>1. ASSUME NEW T \in SUBSET (1 .. x)
          PROVE  (IF x \in T THEN F[g[T \ {x}]][e[x]] ELSE g[T]) \in A
      BY <2>2, <2>3, <2>4, <2>5
    <3> QED  BY <3>1
  <2>7. \A T \in SUBSET (1 .. x) :
          f[T] = IF x \in T THEN F[g[T \ {x}]][e[x]] ELSE g[T]
    OBVIOUS
  <2>8. \A T \in SUBSET (1 .. m) : T \in SUBSET (1 .. x) /\ x \notin T
    BY <2>2 DEF x
  <2> HIDE DEF f
  <2>9. ASSUME NEW T \in SUBSET (1 .. x)
        PROVE  f[T] = IF T = {} THEN base
                      ELSE F[f[T \ {Line!Max(T)}]][e[Line!Max(T)]]
    <3>1. CASE T = {}
      BY <2>5, <2>7, <3>1
    <3>2. CASE T # {} /\ x \in T
      <4>1. Line!Max(T) \in T /\ \A y \in T : y <= Line!Max(T)
        BY <2>2, <3>2, Largest
      <4>2. Line!Max(T) = x
        <5>1. Line!Max(T) \in 1 .. x /\ x <= Line!Max(T)
          BY <3>2, <4>1
        <5> QED  BY <2>2, <5>1
      <4>3. f[T \ {x}] = g[T \ {x}]
        BY <2>3, <2>7, <2>8
      <4> QED  BY <2>7, <3>2, <4>2, <4>3
    <3>3. CASE T # {} /\ x \notin T
      <4>1. T \in SUBSET (1 .. m) /\ T \ {Line!Max(T)} \in SUBSET (1 .. m)
        BY <2>4, <3>3
      <4>2. f[T] = g[T] /\ f[T \ {Line!Max(T)}] = g[T \ {Line!Max(T)}]
        BY <2>7, <2>8, <4>1
      <4> QED  BY <2>5, <3>3, <4>1, <4>2
    <3> QED  BY <3>1, <3>2, <3>3
  <2>10. Solves(f, x)
    BY <2>6, <2>9
  <2> HIDE DEF Solves
  <2>11. m + 1 \in 0 .. n /\ Solves(f, m + 1)
    BY <2>10 DEF x
  <2> QED  BY <2>11
<1>3. n \in G
  <2>1. PICK H : H = G
    OBVIOUS
  <2>2. 0 \in H /\ \A m \in 0 .. n - 1 : m \in H => m + 1 \in H
    BY <1>1, <1>2, <2>1
  <2>3. \A m \in 0 .. n : m \in H
    BY <2>2, UpTo
  <2>4. n \in H
    BY <2>3
  <2> HIDE DEF G
  <2> QED  BY <2>1, <2>4
<1>4. PICK g : Solves(g, n)
  BY <1>3
<1> QED  BY <1>4 DEF IsFold

\* What a function that satisfies the equation with an operator has to do with F.
Agrees(f, A, F, base, n, e) ==
  /\ f[{}] = base
  /\ \A T \in SUBSET (1 .. n) :
       T # {} /\ f[T \ {Line!Max(T)}] \in A
         => f[T] = F[f[T \ {Line!Max(T)}]][e[Line!Max(T)]]

\* A loop over the elements of e, and its final.
IsLoop(h, A, F, base, n, e, final) ==
  /\ h \in [0 .. n -> A] /\ h[0] = base /\ h[n] = final
  /\ \A l \in 1 .. n : h[l] = F[h[l - 1]][e[l]]

\* The values of the fold on the indices up to l are those of a loop.
LEMMA FoldIsLoop ==
  ASSUME NEW A, NEW D, NEW F \in [A -> [D -> A]], NEW base \in A,
         NEW n \in Nat, NEW e \in [1 .. n -> D], NEW f, Agrees(f, A, F, base, n, e)
  PROVE  \E h : IsLoop(h, A, F, base, n, e, f[1 .. n])
<1>0. /\ f[{}] = base
      /\ \A T \in SUBSET (1 .. n) :
           T # {} /\ f[T \ {Line!Max(T)}] \in A
             => f[T] = F[f[T \ {Line!Max(T)}]][e[Line!Max(T)]]
  BY DEF Agrees
<1> DEFINE h == [l \in 0 .. n |-> f[1 .. l]]
<1>1. ASSUME NEW l \in 1 .. n, f[1 .. l - 1] \in A
      PROVE  f[1 .. l] = F[f[1 .. l - 1]][e[l]]
  <2>1. PICK T \in SUBSET (1 .. n) : T = 1 .. l
    BY LargestUpTo
  <2>2. T # {} /\ Line!Max(T) = l /\ T \ {l} = 1 .. l - 1
    BY <2>1, LargestUpTo
  <2>3. f[T] = F[f[T \ {Line!Max(T)}]][e[Line!Max(T)]]
    BY <1>0, <1>1, <2>2
  <2> QED  BY <2>1, <2>2, <2>3
<1>2. \A l \in 0 .. n : f[1 .. l] \in A
  <2> DEFINE G == {l \in 0 .. n : f[1 .. l] \in A}
  <2>1. 0 \in G
    <3>1. 1 .. 0 = {}
      OBVIOUS
    <3> QED  BY <1>0, <3>1
  <2>2. ASSUME NEW l \in 0 .. n - 1, l \in G  PROVE l + 1 \in G
    <3>1. l + 1 \in 1 .. n /\ (l + 1) - 1 = l
      OBVIOUS
    <3>2. f[1 .. l + 1] = F[f[1 .. l]][e[l + 1]]
      BY <1>1, <2>2, <3>1
    <3>3. f[1 .. l] \in A /\ e[l + 1] \in D
      BY <2>2, <3>1
    <3>4. f[1 .. l + 1] \in A
      BY <3>2, <3>3
    <3> QED  BY <3>1, <3>4
  <2>3. \A l \in 0 .. n : l \in G
    <3> HIDE DEF G
    <3> QED  BY <2>1, <2>2, UpTo
  <2> QED  BY <2>3
<1>3. h \in [0 .. n -> A] /\ h[n] = f[1 .. n]
  BY <1>2
<1>4. h[0] = base
  <2>1. 1 .. 0 = {}
    OBVIOUS
  <2> QED  BY <1>0, <2>1
<1>5. ASSUME NEW l \in 1 .. n  PROVE h[l] = F[h[l - 1]][e[l]]
  <2>1. l - 1 \in 0 .. n
    OBVIOUS
  <2> QED  BY <1>1, <1>2, <2>1
<1> HIDE DEF h
<1> QED  BY <1>3, <1>4, <1>5 DEF IsLoop

\* The words collected so far and the current one.
Collected == [res : Seq(Seq(Line!Char)), ss : Seq(Line!Char)]

\* split() goes through the characters one by one.
LEMMA SplitIsLoop ==
  ASSUME NEW t \in Seq(Line!Char)
  PROVE  \E h \in [0 .. Len(t) -> Collected] :
           /\ h[0] = [res |-> <<>>, ss |-> <<>>]
           /\ \A l \in 1 .. Len(t) : h[l] = Line!SplitStep(h[l - 1], t[l])
           /\ Line!Split(t) = Line!PushBack(h[Len(t)])
<1> DEFINE base == [res |-> <<>>, ss |-> <<>>]
           n == Len(t)
           F == [acc \in Collected |-> [c \in Line!Char |-> Line!SplitStep(acc, c)]]
           Is(g) == g = [T \in SUBSET DOMAIN t |->
                           IF T = {} THEN base
                           ELSE Line!SplitStep(g[T \ {Line!Max(T)}], t[Line!Max(T)])]
<1>1. n \in Nat /\ DOMAIN t = 1 .. n /\ t \in [1 .. n -> Line!Char] /\ base \in Collected
  BY EmptySeq DEF Collected
<1>2. Line!FoldLeft(Line!SplitStep, base, t) = (CHOOSE g : Is(g))[1 .. n]
  <2>1. Line!FoldLeft(Line!SplitStep, base, t) = (CHOOSE g : Is(g))[DOMAIN t]
    BY DEF Line!FoldLeft, Line!MapThenFoldSet
  <2> QED  BY <1>1, <2>1
<1>3. F \in [Collected -> [Line!Char -> Collected]]
  <2>1. ASSUME NEW acc \in Collected, NEW c \in Line!Char
        PROVE  Line!SplitStep(acc, c) \in Collected
    <3>1. acc.res \in Seq(Seq(Line!Char)) /\ acc.ss \in Seq(Line!Char)
      BY DEF Collected
    <3>2. Append(acc.ss, c) \in Seq(Line!Char) /\ <<>> \in Seq(Line!Char)
      BY <3>1, AppendProperties, EmptySeq
    <3>3. Line!PushBack(acc) \in Seq(Seq(Line!Char))
      BY <3>1, AppendProperties DEF Line!PushBack
    <3> QED  BY <3>1, <3>2, <3>3 DEF Line!SplitStep, Collected
  <2> QED  BY <2>1
<1>4. \E g : Is(g)
  <2>0. PICK g \in [SUBSET (1 .. n) -> Collected] : IsFold(g, F, base, n, t)
    <3> HIDE DEF F, base, n, Is
    <3> QED  BY <1>1, <1>3, FoldExists
  <2>1. \A T \in SUBSET (1 .. n) :
          g[T] = IF T = {} THEN base ELSE F[g[T \ {Line!Max(T)}]][t[Line!Max(T)]]
    <3> HIDE DEF F, base, n, Is
    <3> QED  BY <2>0 DEF IsFold
  <2>2. ASSUME NEW T \in SUBSET (1 .. n), T # {}
        PROVE  F[g[T \ {Line!Max(T)}]][t[Line!Max(T)]]
                 = Line!SplitStep(g[T \ {Line!Max(T)}], t[Line!Max(T)])
    <3>1. Line!Max(T) \in T
      BY <1>1, <2>2, Largest
    <3>2. g[T \ {Line!Max(T)}] \in Collected /\ t[Line!Max(T)] \in Line!Char
      BY <1>1, <2>1, <3>1
    <3> QED  BY <3>2
  <2>3. g = [T \in SUBSET (1 .. n) |->
               IF T = {} THEN base
               ELSE Line!SplitStep(g[T \ {Line!Max(T)}], t[Line!Max(T)])]
    <3> HIDE DEF F, base
    <3> QED  BY <2>1, <2>2
  <2> QED  BY <1>1, <2>3
<1>5. PICK f : Is(f) /\ f = CHOOSE g : Is(g)
  BY <1>4
<1>6. /\ f[{}] = base
      /\ \A T \in SUBSET (1 .. n) :
           T # {} => f[T] = Line!SplitStep(f[T \ {Line!Max(T)}], t[Line!Max(T)])
  <2> HIDE DEF base
  <2> QED  BY <1>1, <1>5
<1>7. ASSUME NEW T \in SUBSET (1 .. n), T # {}, f[T \ {Line!Max(T)}] \in Collected
      PROVE  f[T] = F[f[T \ {Line!Max(T)}]][t[Line!Max(T)]]
  <2>1. Line!Max(T) \in T
    BY <1>1, <1>7, Largest
  <2>2. t[Line!Max(T)] \in Line!Char
    BY <1>1, <2>1
  <2> QED  BY <1>6, <1>7, <2>2
<1>8. PICK h : IsLoop(h, Collected, F, base, n, t, f[1 .. n])
  <2>1. Agrees(f, Collected, F, base, n, t)
    <3> HIDE DEF F, base, n
    <3> QED  BY <1>6, <1>7 DEF Agrees
  <2> HIDE DEF F, base, n, Is
  <2> QED  BY <1>1, <1>3, <2>1, FoldIsLoop
<1>9. ASSUME NEW l \in 1 .. n  PROVE h[l] = Line!SplitStep(h[l - 1], t[l])
  <2>1. h[l - 1] \in Collected /\ t[l] \in Line!Char
    BY <1>1, <1>8 DEF IsLoop
  <2> QED  BY <1>8, <2>1 DEF IsLoop
<1>10. Line!Split(t) = Line!PushBack(h[n]) /\ h[0] = base /\ h \in [0 .. n -> Collected]
  BY <1>2, <1>5, <1>8 DEF Line!Split, IsLoop
<1> QED  BY <1>9, <1>10

(***************************************************************************)
(* split(): the words it has found are the longest runs of characters that *)
(* end before the one it is reading.                                       *)
(***************************************************************************)

\* B has the bounds of the words that end before position f, in order, and res
\* has the words.
Cuts(B, res, f) ==
  /\ B \in Seq(Line!Bounds) /\ Len(B) = Len(res)
  /\ \A j \in 1 .. Len(B) : B[j][2] < f /\ res[j] = SubSeq(s, B[j][1], B[j][2])
  /\ \A j, m \in 1 .. Len(B) : j < m => B[j][1] < B[m][1]
  /\ \A b \in Line!Bounds : b[2] < f => \E j \in 1 .. Len(B) : B[j] = b

\* The positions f .. l are the end of a word that is still read.
Opens(f, l) ==
  /\ f \in 1 .. l + 1 /\ \A x \in f .. l : s[x] # Line!Space
  /\ f = 1 \/ s[f - 1] = Line!Space

\* What is in bounds.
LEMMA InBounds ==
  ASSUME NEW b
  PROVE  b \in Line!Bounds <=>
           /\ b \in (1 .. Len(s)) \X (1 .. Len(s)) /\ b[1] <= b[2]
           /\ \A x \in b[1] .. b[2] : s[x] # Line!Space
           /\ b[1] = 1 \/ s[b[1] - 1] = Line!Space
           /\ b[2] = Len(s) \/ s[b[2] + 1] = Line!Space
BY DEF Line!Bounds, Line!IsWord

\* A word that ends in an open run starts where the run does.
LEMMA SameStart ==
  ASSUME s \in Seq(Line!Char), NEW l \in 0 .. Len(s), NEW f, Opens(f, l),
         NEW b \in Line!Bounds, b[2] \in f .. l
  PROVE  b = <<f, l>>
<1>1. /\ b \in (1 .. Len(s)) \X (1 .. Len(s)) /\ b[1] <= b[2] /\ b = <<b[1], b[2]>>
      /\ \A x \in b[1] .. b[2] : s[x] # Line!Space
      /\ b[1] = 1 \/ s[b[1] - 1] = Line!Space
      /\ b[2] = Len(s) \/ s[b[2] + 1] = Line!Space
  BY InBounds
<1>2. PICK x, y \in 1 .. Len(s) : x = b[1] /\ y = b[2]
  BY <1>1
<1>3. Len(s) \in Nat /\ f \in 1 .. l + 1 /\ y \in f .. l /\ x <= y
  BY <1>1, <1>2 DEF Opens
<1>4. ASSUME x < f  PROVE FALSE
  <2>1. f - 1 \in x .. y /\ s[f - 1] = Line!Space
    BY <1>2, <1>3, <1>4 DEF Opens
  <2> QED  BY <1>1, <1>2, <2>1
<1>5. ASSUME x > f  PROVE FALSE
  <2>1. x - 1 \in f .. l /\ s[x - 1] = Line!Space
    BY <1>1, <1>2, <1>3, <1>5
  <2> QED  BY <2>1 DEF Opens
<1>6. ASSUME y < l  PROVE FALSE
  <2>1. y + 1 \in f .. l /\ s[y + 1] = Line!Space
    BY <1>1, <1>2, <1>3, <1>6
  <2> QED  BY <2>1 DEF Opens
<1>7. x = f /\ y = l
  BY <1>2, <1>3, <1>4, <1>5, <1>6
<1> QED  BY <1>1, <1>2, <1>7

\* An open run that is over is the next word.
LEMMA NextWord ==
  ASSUME s \in Seq(Line!Char), NEW l \in 0 .. Len(s), NEW f, Opens(f, l), f <= l,
         l = Len(s) \/ s[l + 1] = Line!Space,
         NEW B, NEW res \in Seq(Seq(Line!Char)), Cuts(B, res, f)
  PROVE  Cuts(Append(B, <<f, l>>), Append(res, SubSeq(s, f, l)), l + 1)
<1> DEFINE b == <<f, l>>
           w == SubSeq(s, f, l)
           C == Append(B, b)
           r == Append(res, w)
           m == Len(B)
<1>1. Len(s) \in Nat /\ f \in 1 .. l /\ l \in 1 .. Len(s) /\ b[1] = f /\ b[2] = l
  BY DEF Opens
<1>2. b \in Line!Bounds
  BY <1>1, InBounds DEF Opens
<1>3. /\ B \in Seq(Line!Bounds) /\ m \in Nat /\ Len(res) = m
      /\ \A j \in 1 .. m : B[j] \in Line!Bounds
  BY DEF Cuts
<1>4. /\ C \in Seq(Line!Bounds) /\ Len(C) = m + 1 /\ C[m + 1] = b
      /\ \A j \in 1 .. m : C[j] = B[j]
  <2> HIDE DEF b
  <2> QED  BY <1>2, <1>3, AppendProperties
<1>5. Len(r) = m + 1 /\ r[m + 1] = w /\ \A j \in 1 .. m : r[j] = res[j]
  <2> HIDE DEF w
  <2> QED  BY <1>3
<1>6. \A j \in 1 .. m : /\ B[j][1] \in Nat /\ B[j][2] \in Nat /\ B[j][1] <= B[j][2] /\ B[j][2] < f
                        /\ res[j] = SubSeq(s, B[j][1], B[j][2])
  BY <1>3, InBounds DEF Cuts
<1> HIDE DEF b, w, C, r
<1>7. ASSUME NEW j \in 1 .. m + 1
      PROVE  C[j][2] < l + 1 /\ r[j] = SubSeq(s, C[j][1], C[j][2])
  <2>1. CASE j = m + 1
    BY <1>1, <1>4, <1>5, <2>1 DEF w
  <2>2. CASE j # m + 1
    <3>1. j \in 1 .. m
      BY <1>3, <2>2
    <3>2. C[j] = B[j] /\ r[j] = res[j]
      BY <1>4, <1>5, <3>1
    <3>3. B[j][2] \in Nat /\ B[j][2] < f /\ res[j] = SubSeq(s, B[j][1], B[j][2])
      BY <1>6, <3>1
    <3>4. B[j][2] < l + 1
      BY <1>1, <3>3
    <3> QED  BY <3>2, <3>3, <3>4
  <2> QED  BY <2>1, <2>2
<1>8. ASSUME NEW i1 \in 1 .. m + 1, NEW j \in 1 .. m + 1, i1 < j
      PROVE  C[i1][1] < C[j][1]
  <2>1. i1 \in 1 .. m /\ C[i1] = B[i1]
    BY <1>3, <1>4, <1>8
  <2>2. CASE j = m + 1
    <3>1. B[i1][1] \in Nat /\ B[i1][2] \in Nat /\ B[i1][1] <= B[i1][2] /\ B[i1][2] < f
      BY <1>6, <2>1
    <3>2. C[i1][1] = B[i1][1] /\ C[j][1] = f
      BY <1>1, <1>4, <2>1, <2>2
    <3> QED  BY ONLY <1>1, <3>1, <3>2
  <2>3. CASE j # m + 1
    <3>1. j \in 1 .. m /\ C[j] = B[j]
      BY <1>3, <1>4, <2>3
    <3> QED  BY <1>8, <2>1, <3>1 DEF Cuts
  <2> QED  BY <2>2, <2>3
<1>9. ASSUME NEW c \in Line!Bounds, c[2] < l + 1  PROVE \E j \in 1 .. m + 1 : C[j] = c
  <2>0. c[2] \in Nat
    BY InBounds
  <2>1. CASE c[2] < f
    <3>1. PICK j \in 1 .. m : B[j] = c
      BY <2>1 DEF Cuts
    <3>2. j \in 1 .. m + 1 /\ C[j] = c
      BY <1>3, <1>4, <3>1
    <3> QED  BY <3>2
  <2>2. CASE c[2] >= f
    <3>1. c[2] \in f .. l
      BY <1>1, <1>9, <2>0, <2>2
    <3>2. c = b
      BY <3>1, SameStart DEF b
    <3>3. m + 1 \in 1 .. m + 1
      BY <1>3
    <3> QED  BY <1>4, <3>2, <3>3
  <2> QED  BY <1>1, <2>0, <2>1, <2>2
<1>10. Cuts(C, r, l + 1)
  BY <1>4, <1>5, <1>7, <1>8, <1>9 DEF Cuts
<1> QED  BY <1>10 DEF C, r, b, w

\* split() has the words before the open run in res and the run in ss.
SplitAt(h, l) ==
  \E f, B : /\ Opens(f, l) /\ h[l].ss = SubSeq(s, f, l)
            /\ Cuts(B, h[l].res, f)

LEMMA SplitGoes ==
  ASSUME s \in Seq(Line!Char), NEW h \in [0 .. Len(s) -> Collected],
         NEW l \in 0 .. Len(s) - 1, SplitAt(h, l), h[l + 1] = Line!SplitStep(h[l], s[l + 1])
  PROVE  SplitAt(h, l + 1)
<1>0. PICK f, B : Opens(f, l) /\ h[l].ss = SubSeq(s, f, l) /\ Cuts(B, h[l].res, f)
  BY DEF SplitAt
<1>1. /\ Len(s) \in Nat /\ l \in 0 .. Len(s) /\ l + 1 \in 1 .. Len(s) /\ f \in 1 .. l + 1
      /\ h[l] \in Collected /\ s[l + 1] \in Line!Char
      /\ \A x \in 1 .. Len(s) : s[x] \in Line!Char
  BY <1>0 DEF Opens
<1>2. h[l].res \in Seq(Seq(Line!Char)) /\ h[l].ss \in Seq(Line!Char)
  BY <1>1 DEF Collected
<1>3. CASE s[l + 1] # Line!Space
  <2>1. Opens(f, l + 1)
    <3>1. \A x \in f .. l + 1 : x \in f .. l \/ x = l + 1
      BY <1>1
    <3> QED  BY <1>0, <1>1, <1>3, <3>1 DEF Opens
  <2>2. h[l + 1].res = h[l].res /\ h[l + 1].ss = Append(h[l].ss, s[l + 1])
    BY <1>1, <1>3 DEF Line!SplitStep, Collected
  <2>3. Append(SubSeq(s, f, l), s[l + 1]) = SubSeq(s, f, l + 1)
    <3>1. Append(SubSeq(s, f, l), s[l + 1]) = SubSeq(s, f, l) \o <<s[l + 1]>>
      BY <1>0, <1>1, <1>2, AppendIsConcat
    <3>2. PICK g : g = l + 1
      OBVIOUS
    <3>3. SubSeq(s, f, g) = SubSeq(s, f, g - 1) \o <<s[g]>>
      <4>1. f \in 1 .. Len(s) /\ g \in f .. Len(s)
        BY <1>1, <3>2
      <4> QED  BY <4>1, SubSeqRecursiveSecond
    <3>4. g - 1 = l
      BY <1>1, <3>2
    <3> QED  BY <3>1, <3>2, <3>3, <3>4
  <2> QED  BY <1>0, <2>1, <2>2, <2>3 DEF SplitAt
<1>4. CASE s[l + 1] = Line!Space
  <2>1. Opens(l + 2, l + 1)
    BY <1>1, <1>4 DEF Opens
  <2>2. SubSeq(s, l + 2, l + 1) = <<>>
    BY <1>1, SubSeqEmpty
  <2>3. h[l + 1].res = Line!PushBack(h[l]) /\ h[l + 1].ss = <<>>
    BY <1>4 DEF Line!SplitStep
  <2>4. \E C : Cuts(C, Line!PushBack(h[l]), l + 1)
    <3>1. CASE f = l + 1
      <4>1. h[l].ss = <<>>
        BY <1>0, <1>1, <3>1, SubSeqEmpty
      <4>2. Line!PushBack(h[l]) = h[l].res
        BY <4>1 DEF Line!PushBack
      <4> QED  BY <1>0, <3>1, <4>2
    <3>2. CASE f <= l
      <4>1. h[l].ss # <<>>
        <5>1. \A x \in f .. l : s[x] \in Line!Char
          BY <1>1
        <5>2. Len(SubSeq(s, f, l)) = l - f + 1
          BY <1>1, <3>2, <5>1, SubSeqProperties
        <5>3. Len(<<>>) = 0 /\ l - f + 1 # 0
          BY <1>1, <3>2
        <5> QED  BY <1>0, <5>2, <5>3
      <4>2. Line!PushBack(h[l]) = Append(h[l].res, SubSeq(s, f, l))
        BY <1>0, <4>1 DEF Line!PushBack
      <4>3. Cuts(Append(B, <<f, l>>), Append(h[l].res, SubSeq(s, f, l)), l + 1)
        BY <1>0, <1>1, <1>2, <1>4, <3>2, NextWord
      <4> QED  BY <4>2, <4>3
    <3> QED  BY <1>1, <3>1, <3>2
  <2>5. PICK C : Cuts(C, Line!PushBack(h[l]), l + 1)
    BY <2>4
  <2>6. Cuts(C, Line!PushBack(h[l]), l + 2)
    <3>1. \A b \in Line!Bounds : b[2] \in Nat /\ b[2] # l + 1
      <4>1. ASSUME NEW b \in Line!Bounds  PROVE b[2] \in Nat /\ b[2] # l + 1
        <5>1. /\ b \in (1 .. Len(s)) \X (1 .. Len(s)) /\ b[1] <= b[2]
              /\ \A x \in b[1] .. b[2] : s[x] # Line!Space
          BY InBounds
        <5>2. b[2] \in b[1] .. b[2]
          BY <5>1
        <5> QED  BY <1>4, <5>1, <5>2
      <4> QED  BY <4>1
    <3>2. \A y \in Nat : y # l + 1 => (y < l + 1 <=> y < l + 2)
      BY <1>1
    <3>3. /\ C \in Seq(Line!Bounds) /\ \A j \in 1 .. Len(C) : C[j] \in Line!Bounds
      BY <2>5 DEF Cuts
    <3> QED  BY <2>5, <3>1, <3>2, <3>3 DEF Cuts
  <2> QED  BY <1>1, <2>1, <2>2, <2>3, <2>6 DEF SplitAt
<1> QED  BY <1>3, <1>4

\* split() finds the words of the line, in their order.
LEMMA SplitCuts ==
  ASSUME s \in Seq(Line!Char)
  PROVE  /\ Line!Split(s) \in Seq(Seq(Line!Char))
         /\ \E B : Cuts(B, Line!Split(s), Len(s) + 1)
<1>1. PICK h \in [0 .. Len(s) -> Collected] :
        /\ h[0] = [res |-> <<>>, ss |-> <<>>]
        /\ \A l \in 1 .. Len(s) : h[l] = Line!SplitStep(h[l - 1], s[l])
        /\ Line!Split(s) = Line!PushBack(h[Len(s)])
  BY SplitIsLoop
<1>2. Len(s) \in Nat /\ \A x \in 1 .. Len(s) : s[x] \in Line!Char
  OBVIOUS
<1> DEFINE G == {l \in 0 .. Len(s) : SplitAt(h, l)}
<1>3. 0 \in G
  <2>1. Opens(1, 0)
    BY DEF Opens
  <2>2. SubSeq(s, 1, 0) = <<>>
    BY SubSeqEmpty
  <2>3. Cuts(<<>>, <<>>, 1)
    <3>1. \A b \in Line!Bounds : b[2] \in Nat /\ ~(b[2] < 1)
      BY InBounds
    <3>2. <<>> \in Seq(Line!Bounds) /\ Len(<<>>) = 0
      BY EmptySeq
    <3> QED  BY <3>1, <3>2 DEF Cuts
  <2> QED  BY <1>1, <1>2, <2>1, <2>2, <2>3 DEF SplitAt
<1>4. ASSUME NEW l \in 0 .. Len(s) - 1, l \in G  PROVE l + 1 \in G
  <2>1. l + 1 \in 1 .. Len(s) /\ (l + 1) - 1 = l
    BY <1>2
  <2>2. h[l + 1] = Line!SplitStep(h[l], s[l + 1])
    BY <1>1, <2>1
  <2> QED  BY <1>4, <2>1, <2>2, SplitGoes
<1>5. SplitAt(h, Len(s))
  <2>1. PICK n, H : n = Len(s) /\ H = G
    OBVIOUS
  <2> HIDE DEF G
  <2>2. n \in Nat /\ 0 \in H /\ \A l \in 0 .. n - 1 : l \in H => l + 1 \in H
    BY <1>2, <1>3, <1>4, <2>1
  <2>3. \A l \in 0 .. n : l \in H
    BY ONLY <2>2, UpTo
  <2>4. Len(s) \in G
    BY <2>1, <2>2, <2>3
  <2> QED  BY <2>4 DEF G
<1>6. h[Len(s)].res \in Seq(Seq(Line!Char)) /\ h[Len(s)].ss \in Seq(Line!Char)
  BY <1>2 DEF Collected
<1>7. PICK f, B : /\ Opens(f, Len(s)) /\ h[Len(s)].ss = SubSeq(s, f, Len(s))
                  /\ Cuts(B, h[Len(s)].res, f)
  BY <1>5 DEF SplitAt
<1>8. f \in 1 .. Len(s) + 1
  BY <1>7 DEF Opens
<1>9. CASE f = Len(s) + 1
  <2>1. h[Len(s)].ss = <<>>
    BY <1>2, <1>7, <1>9, SubSeqEmpty
  <2>2. Line!Split(s) = h[Len(s)].res
    BY <1>1, <2>1 DEF Line!PushBack
  <2> QED  BY <1>6, <1>7, <1>9, <2>2
<1>10. CASE f <= Len(s)
  <2>1. h[Len(s)].ss # <<>>
    <3>1. \A x \in f .. Len(s) : s[x] \in Line!Char
      BY <1>2, <1>8
    <3>2. Len(SubSeq(s, f, Len(s))) = Len(s) - f + 1
      BY <1>2, <1>8, <1>10, <3>1, SubSeqProperties
    <3>3. Len(<<>>) = 0 /\ Len(s) - f + 1 # 0
      BY <1>2, <1>8, <1>10
    <3> QED  BY <1>7, <3>2, <3>3
  <2>2. Line!Split(s) = Append(h[Len(s)].res, SubSeq(s, f, Len(s)))
    BY <1>1, <1>7, <2>1 DEF Line!PushBack
  <2>3. Line!Split(s) \in Seq(Seq(Line!Char))
    BY <1>6, <1>7, <2>2, AppendProperties
  <2>4. Len(s) \in 0 .. Len(s)
    BY <1>2
  <2>5. Cuts(Append(B, <<f, Len(s)>>), Append(h[Len(s)].res, SubSeq(s, f, Len(s))), Len(s) + 1)
    BY <1>6, <1>7, <1>10, <2>4, NextWord
  <2> QED  BY <2>2, <2>3, <2>5
<1> QED  BY <1>2, <1>8, <1>9, <1>10

\* Numbering the elements of a set counts them.
LEMMA Numbered ==
  ASSUME NEW S, NEW m \in Nat, NEW f \in [1 .. m -> S],
         \A x, y \in 1 .. m : f[x] = f[y] => x = y,
         \A b \in S : \E x \in 1 .. m : f[x] = b
  PROVE  Line!Cardinality(S) = m /\ Cardinality(S) = m /\ IsFiniteSet(S)
<1>1. f \in Bijection(1 .. m, S)
  <2>1. f \in Injection(1 .. m, S)
    BY DEF Injection, IsInjective
  <2>2. f \in Surjection(1 .. m, S)
    BY DEF Surjection
  <2> QED  BY <2>1, <2>2 DEF Bijection
<1>2. ExistsBijection(1 .. m, S)
  BY <1>1 DEF ExistsBijection
<1>3. Cardinality(S) = m
  BY <1>2, FS_CountingElements
<1>4. IsFiniteSet(S)
  BY <1>2, FS_NatBijection
<1>5. Line!Cardinality(S) = Cardinality(S)
  BY DEF Line!Cardinality, Cardinality
<1> QED  BY <1>3, <1>4, <1>5

\* The definition of the words by their bounds gives what split() gives.
LEMMA CutsAreRuns ==
  ASSUME s \in Seq(Line!Char), NEW B, NEW res \in Seq(Seq(Line!Char)),
         Cuts(B, res, Len(s) + 1)
  PROVE  Line!Runs = res
<1> DEFINE m == Len(B)
<1>1. /\ B \in Seq(Line!Bounds) /\ m \in Nat /\ Len(res) = m /\ B \in [1 .. m -> Line!Bounds]
      /\ \A j \in 1 .. m : B[j] \in Line!Bounds /\ res[j] = SubSeq(s, B[j][1], B[j][2])
      /\ \A x, y \in 1 .. m : x < y => B[x][1] < B[y][1]
  BY DEF Cuts
<1>2. \A b \in Line!Bounds : /\ b[1] \in 1 .. Len(s) /\ b[2] \in 1 .. Len(s) /\ b[1] <= b[2]
                             /\ Len(s) \in Nat
  BY InBounds
<1> HIDE DEF m
<1>3. \A x \in 1 .. m : B[x][1] \in Nat
  BY <1>1, <1>2
<1>4. \A x, y \in 1 .. m : B[x][1] <= B[y][1] <=> x <= y
  <2>1. ASSUME NEW x \in 1 .. m, NEW y \in 1 .. m  PROVE B[x][1] <= B[y][1] <=> x <= y
    <3>1. x \in Nat /\ y \in Nat /\ B[x][1] \in Nat /\ B[y][1] \in Nat
      BY <1>1, <1>3
    <3>2. x < y => B[x][1] < B[y][1]
      BY <1>1
    <3>3. y < x => B[y][1] < B[x][1]
      BY <1>1
    <3>4. x = y => B[x][1] = B[y][1]
      OBVIOUS
    <3> QED  BY <3>1, <3>2, <3>3, <3>4
  <2> QED  BY <2>1
<1>5. \A x, y \in 1 .. m : B[x] = B[y] => x = y
  BY <1>1, <1>3, <1>4
<1>6. \A b \in Line!Bounds : \E x \in 1 .. m : B[x] = b
  <2>1. ASSUME NEW b \in Line!Bounds  PROVE \E x \in 1 .. m : B[x] = b
    <3>1. b[2] < Len(s) + 1
      BY <1>2
    <3> QED  BY <3>1 DEF Cuts, m
  <2> QED  BY <2>1
<1>7. Line!Cardinality(Line!Bounds) = m
  <2>1. PICK S : S = Line!Bounds
    OBVIOUS
  <2>2. m \in Nat /\ B \in [1 .. m -> S] /\ \A b \in S : \E x \in 1 .. m : B[x] = b
    BY <1>1, <1>6, <2>1
  <2>3. Line!Cardinality(S) = m
    BY ONLY <1>5, <2>2, Numbered
  <2> QED  BY <2>1, <2>3
<1>8. ASSUME NEW j \in 1 .. m  PROVE Line!Rank(B[j]) = j
  <2> DEFINE S == {c \in Line!Bounds : c[1] <= B[j][1]}
             f == [x \in 1 .. j |-> B[x]]
  <2>1. j \in Nat /\ \A x \in 1 .. j : x \in 1 .. m /\ x <= j
    BY <1>1
  <2>2. f \in [1 .. j -> S]
    BY <1>1, <1>4, <2>1
  <2>3. \A x, y \in 1 .. j : f[x] = f[y] => x = y
    BY <1>5, <2>1
  <2>4. ASSUME NEW b \in S  PROVE \E x \in 1 .. j : f[x] = b
    <3>1. PICK x \in 1 .. m : B[x] = b
      BY <1>6
    <3>2. x <= j
      BY <1>4, <3>1
    <3>3. x \in 1 .. j
      BY <1>1, <2>1, <3>2
    <3> QED  BY <3>1, <3>3
  <2>5. Line!Rank(B[j]) = Line!Cardinality(S)
    BY DEF Line!Rank
  <2> HIDE DEF S, f
  <2> QED  BY <2>1, <2>2, <2>3, <2>4, <2>5, Numbered
<1>9. ASSUME NEW j \in 1 .. m
      PROVE  (CHOOSE c \in Line!Bounds : Line!Rank(c) = j) = B[j]
  <2>1. B[j] \in Line!Bounds /\ Line!Rank(B[j]) = j
    BY <1>1, <1>8
  <2>2. ASSUME NEW c \in Line!Bounds, Line!Rank(c) = j  PROVE c = B[j]
    <3>1. PICK x \in 1 .. m : B[x] = c
      BY <1>6
    <3>2. Line!Rank(c) = x
      BY <1>8, <3>1
    <3> QED  BY <2>2, <3>1, <3>2
  <2> QED  BY <2>1, <2>2
<1>10. Line!Runs = [j \in 1 .. m |-> SubSeq(s, B[j][1], B[j][2])]
  <2>1. Line!Runs = [j \in 1 .. m |->
                       LET b == CHOOSE c \in Line!Bounds : Line!Rank(c) = j
                       IN  SubSeq(s, b[1], b[2])]
    BY <1>7 DEF Line!Runs
  <2>2. ASSUME NEW j \in 1 .. m
        PROVE  (LET b == CHOOSE c \in Line!Bounds : Line!Rank(c) = j
                IN  SubSeq(s, b[1], b[2])) = SubSeq(s, B[j][1], B[j][2])
    BY <1>9
  <2> QED  BY ONLY <2>1, <2>2
<1>11. res = [j \in 1 .. m |-> res[j]]
  BY <1>1
<1> QED  BY <1>1, <1>10, <1>11

\* The words of the line are those of split(), and none of them is empty.
LEMMA SplitIsRuns ==
  ASSUME s \in Seq(Line!Char)
  PROVE  /\ Line!Split(s) \in Seq(Seq(Line!Char)) /\ Line!Runs = Line!Split(s)
         /\ \A j \in 1 .. Len(Line!Split(s)) : Line!Split(s)[j] # <<>>
<1>1. Line!Split(s) \in Seq(Seq(Line!Char))
  BY SplitCuts
<1>2. PICK B : Cuts(B, Line!Split(s), Len(s) + 1)
  BY SplitCuts
<1>3. Line!Runs = Line!Split(s)
  BY <1>1, <1>2, CutsAreRuns
<1>4. ASSUME NEW j \in 1 .. Len(Line!Split(s))  PROVE Line!Split(s)[j] # <<>>
  <2>1. /\ B[j] \in Line!Bounds /\ Line!Split(s)[j] = SubSeq(s, B[j][1], B[j][2])
    BY <1>2 DEF Cuts
  <2>2. PICK x, y \in 1 .. Len(s) : x = B[j][1] /\ y = B[j][2] /\ x <= y
    BY <2>1, InBounds
  <2>3. \A z \in x .. y : s[z] \in Line!Char
    OBVIOUS
  <2>4. Len(SubSeq(s, x, y)) = y - x + 1
    BY <2>2, <2>3, SubSeqProperties
  <2>5. Len(<<>>) = 0 /\ y - x + 1 # 0
    BY <2>2
  <2> QED  BY <2>1, <2>2, <2>4, <2>5
<1> QED  BY <1>1, <1>3, <1>4

(***************************************************************************)
(* parse() and the commands put together again: both go through the words  *)
(* one by one.                                                             *)
(***************************************************************************)

\* The words of a line, the commands, and the commands of a pipeline.
Words == Seq(Line!Char)
Commands == Seq(Words)
Pipelines == {cs \in Seq(Commands) : cs # <<>>}

\* parse() goes through the words one by one.
LEMMA ParseIsLoop ==
  ASSUME NEW t \in Seq(Words)
  PROVE  \E h \in [0 .. Len(t) -> Pipelines] :
           /\ h[0] = << <<>> >>
           /\ \A l \in 1 .. Len(t) : h[l] = Line!ParseStep(h[l - 1], t[l])
           /\ Line!FoldLeft(Line!ParseStep, << <<>> >>, t)
                = h[Len(t)]
<1> DEFINE base == << <<>> >>
           n == Len(t)
           F == [acc \in Pipelines |-> [c \in Words |-> Line!ParseStep(acc, c)]]
           Is(g) == g = [T \in SUBSET DOMAIN t |->
                           IF T = {} THEN base
                           ELSE Line!ParseStep(g[T \ {Line!Max(T)}], t[Line!Max(T)])]
<1>1. n \in Nat /\ DOMAIN t = 1 .. n /\ t \in [1 .. n -> Words] /\ base \in Pipelines
  <2>1. <<>> \in Commands
    BY EmptySeq DEF Commands
  <2>2. << <<>> >> \in Seq(Commands) /\ << <<>> >> # <<>>
    BY <2>1
  <2> QED  BY <2>2 DEF Pipelines
<1>2. Line!FoldLeft(Line!ParseStep, << <<>> >>, t)
        = (CHOOSE g : Is(g))[1 .. n]
  <2>1. Line!FoldLeft(Line!ParseStep, << <<>> >>, t)
          = (CHOOSE g : Is(g))[DOMAIN t]
    BY DEF Line!FoldLeft, Line!MapThenFoldSet
  <2> QED  BY <1>1, <2>1
<1>3. F \in [Pipelines -> [Words -> Pipelines]]
  <2>1. ASSUME NEW acc \in Pipelines, NEW c \in Words
        PROVE  Line!ParseStep(acc, c) \in Pipelines
    <3>1. acc \in Seq(Commands) /\ Len(acc) \in Nat /\ Len(acc) \in 1 .. Len(acc)
      BY DEF Pipelines
    <3>2. CASE c = <<Line!Bar>>
      <4>1. <<>> \in Commands
        BY EmptySeq DEF Commands
      <4>2. Append(acc, <<>>) \in Seq(Commands) /\ Len(Append(acc, <<>>)) = Len(acc) + 1
        BY <3>1, <4>1, AppendProperties
      <4>3. Append(acc, <<>>) # <<>>
        BY <3>1, <4>2
      <4> QED  BY <3>2, <4>2, <4>3 DEF Line!ParseStep, Pipelines
    <3>3. CASE c # <<Line!Bar>>
      <4>1. acc[Len(acc)] \in Seq(Words)
        BY <3>1 DEF Commands
      <4>2. Append(acc[Len(acc)], c) \in Commands
        BY <4>1, AppendProperties DEF Commands
      <4>3. [acc EXCEPT ![Len(acc)] = Append(@, c)] \in Seq(Commands)
        BY <3>1, <4>2
      <4>4. [acc EXCEPT ![Len(acc)] = Append(@, c)] # <<>>
        BY <3>1, <4>3
      <4> QED  BY <3>3, <4>3, <4>4 DEF Line!ParseStep, Pipelines
    <3> QED  BY <3>2, <3>3
  <2> QED  BY <2>1
<1>4. \E g : Is(g)
  <2>0. PICK g \in [SUBSET (1 .. n) -> Pipelines] : IsFold(g, F, base, n, t)
    <3> HIDE DEF F, base, n, Is
    <3> QED  BY <1>1, <1>3, FoldExists
  <2>1. \A T \in SUBSET (1 .. n) :
          g[T] = IF T = {} THEN base ELSE F[g[T \ {Line!Max(T)}]][t[Line!Max(T)]]
    <3> HIDE DEF F, base, n, Is
    <3> QED  BY <2>0 DEF IsFold
  <2>2. ASSUME NEW T \in SUBSET (1 .. n), T # {}
        PROVE  F[g[T \ {Line!Max(T)}]][t[Line!Max(T)]]
                 = Line!ParseStep(g[T \ {Line!Max(T)}], t[Line!Max(T)])
    <3>1. Line!Max(T) \in T
      BY <1>1, <2>2, Largest
    <3>2. g[T \ {Line!Max(T)}] \in Pipelines /\ t[Line!Max(T)] \in Words
      BY <1>1, <2>1, <3>1
    <3> QED  BY <3>2
  <2>3. g = [T \in SUBSET (1 .. n) |->
               IF T = {} THEN base ELSE Line!ParseStep(g[T \ {Line!Max(T)}], t[Line!Max(T)])]
    <3> HIDE DEF F, base
    <3> QED  BY <2>1, <2>2
  <2> QED  BY <1>1, <2>3
<1>5. PICK f : Is(f) /\ f = CHOOSE g : Is(g)
  BY <1>4
<1>6. /\ f[{}] = base
      /\ \A T \in SUBSET (1 .. n) :
           T # {} => f[T] = Line!ParseStep(f[T \ {Line!Max(T)}], t[Line!Max(T)])
  <2> HIDE DEF base
  <2> QED  BY <1>1, <1>5
<1>7. ASSUME NEW T \in SUBSET (1 .. n), T # {}, f[T \ {Line!Max(T)}] \in Pipelines
      PROVE  f[T] = F[f[T \ {Line!Max(T)}]][t[Line!Max(T)]]
  <2>1. Line!Max(T) \in T
    BY <1>1, <1>7, Largest
  <2>2. t[Line!Max(T)] \in Words
    BY <1>1, <2>1
  <2> QED  BY <1>6, <1>7, <2>2
<1>8. PICK h : IsLoop(h, Pipelines, F, base, n, t, f[1 .. n])
  <2>1. Agrees(f, Pipelines, F, base, n, t)
    <3> HIDE DEF F, base, n
    <3> QED  BY <1>6, <1>7 DEF Agrees
  <2> HIDE DEF F, base, n, Is
  <2> QED  BY <1>1, <1>3, <2>1, FoldIsLoop
<1>9. ASSUME NEW l \in 1 .. n  PROVE h[l] = Line!ParseStep(h[l - 1], t[l])
  <2>1. h[l - 1] \in Pipelines /\ t[l] \in Words
    BY <1>1, <1>8 DEF IsLoop
  <2> QED  BY <1>8, <2>1 DEF IsLoop
<1>10. /\ Line!FoldLeft(Line!ParseStep, << <<>> >>, t) = h[n]
       /\ h[0] = base /\ h \in [0 .. n -> Pipelines]
  BY <1>2, <1>5, <1>8 DEF IsLoop
<1> QED  BY <1>9, <1>10

\* The commands are joined one by one.
LEMMA JoinIsLoop ==
  ASSUME NEW first \in Commands, NEW t \in Seq(Commands)
  PROVE  \E h \in [0 .. Len(t) -> Commands] :
           /\ h[0] = first
           /\ \A l \in 1 .. Len(t) : h[l] = h[l - 1] \o << <<Line!Bar>> >> \o t[l]
           /\ Line!FoldLeft(LAMBDA line, com : line \o << <<Line!Bar>> >> \o com, first, t)
                = h[Len(t)]
<1> DEFINE base == first
           n == Len(t)
           F == [acc \in Commands |-> [c \in Commands |-> acc \o << <<Line!Bar>> >> \o c]]
           Is(g) == g = [T \in SUBSET DOMAIN t |->
                           IF T = {} THEN base
                           ELSE g[T \ {Line!Max(T)}] \o << <<Line!Bar>> >> \o t[Line!Max(T)]]
<1>1. n \in Nat /\ DOMAIN t = 1 .. n /\ t \in [1 .. n -> Commands] /\ base \in Commands
  OBVIOUS
<1>2. Line!FoldLeft(LAMBDA line, com : line \o << <<Line!Bar>> >> \o com, first, t)
        = (CHOOSE g : Is(g))[1 .. n]
  <2>1. Line!FoldLeft(LAMBDA line, com : line \o << <<Line!Bar>> >> \o com, first, t)
          = (CHOOSE g : Is(g))[DOMAIN t]
    BY DEF Line!FoldLeft, Line!MapThenFoldSet
  <2> QED  BY <1>1, <2>1
<1>3. F \in [Commands -> [Commands -> Commands]]
  <2>1. ASSUME NEW acc \in Commands, NEW c \in Commands
        PROVE  acc \o << <<Line!Bar>> >> \o c \in Commands
    <3>1. <<Line!Bar>> \in Words
      BY DEF Words, Line!Char
    <3>2. << <<Line!Bar>> >> \in Seq(Words)
      BY <3>1
    <3> QED  BY <3>2, ConcatProperties DEF Commands
  <2> QED  BY <2>1
<1>4. \E g : Is(g)
  <2>0. PICK g \in [SUBSET (1 .. n) -> Commands] : IsFold(g, F, base, n, t)
    <3> HIDE DEF F, base, n, Is
    <3> QED  BY <1>1, <1>3, FoldExists
  <2>1. \A T \in SUBSET (1 .. n) :
          g[T] = IF T = {} THEN base ELSE F[g[T \ {Line!Max(T)}]][t[Line!Max(T)]]
    <3> HIDE DEF F, base, n, Is
    <3> QED  BY <2>0 DEF IsFold
  <2>2. ASSUME NEW T \in SUBSET (1 .. n), T # {}
        PROVE  F[g[T \ {Line!Max(T)}]][t[Line!Max(T)]]
                 = g[T \ {Line!Max(T)}] \o << <<Line!Bar>> >> \o t[Line!Max(T)]
    <3>1. Line!Max(T) \in T
      BY <1>1, <2>2, Largest
    <3>2. g[T \ {Line!Max(T)}] \in Commands /\ t[Line!Max(T)] \in Commands
      BY <1>1, <2>1, <3>1
    <3> QED  BY <3>2
  <2>3. g = [T \in SUBSET (1 .. n) |->
               IF T = {} THEN base ELSE g[T \ {Line!Max(T)}] \o << <<Line!Bar>> >> \o t[Line!Max(T)]]
    <3> HIDE DEF F, base
    <3> QED  BY <2>1, <2>2
  <2> QED  BY <1>1, <2>3
<1>5. PICK f : Is(f) /\ f = CHOOSE g : Is(g)
  BY <1>4
<1>6. /\ f[{}] = base
      /\ \A T \in SUBSET (1 .. n) :
           T # {} => f[T] = f[T \ {Line!Max(T)}] \o << <<Line!Bar>> >> \o t[Line!Max(T)]
  <2> HIDE DEF base
  <2> QED  BY <1>1, <1>5
<1>7. ASSUME NEW T \in SUBSET (1 .. n), T # {}, f[T \ {Line!Max(T)}] \in Commands
      PROVE  f[T] = F[f[T \ {Line!Max(T)}]][t[Line!Max(T)]]
  <2>1. Line!Max(T) \in T
    BY <1>1, <1>7, Largest
  <2>2. t[Line!Max(T)] \in Commands
    BY <1>1, <2>1
  <2> QED  BY <1>6, <1>7, <2>2
<1>8. PICK h : IsLoop(h, Commands, F, base, n, t, f[1 .. n])
  <2>1. Agrees(f, Commands, F, base, n, t)
    <3> HIDE DEF F, base, n
    <3> QED  BY <1>6, <1>7 DEF Agrees
  <2> HIDE DEF F, base, n, Is
  <2> QED  BY <1>1, <1>3, <2>1, FoldIsLoop
<1>9. ASSUME NEW l \in 1 .. n  PROVE h[l] = h[l - 1] \o << <<Line!Bar>> >> \o t[l]
  <2>1. h[l - 1] \in Commands /\ t[l] \in Commands
    BY <1>1, <1>8 DEF IsLoop
  <2> QED  BY <1>8, <2>1 DEF IsLoop
<1>10. /\ Line!FoldLeft(LAMBDA line, com : line \o << <<Line!Bar>> >> \o com, first, t) = h[n]
       /\ h[0] = base /\ h \in [0 .. n -> Commands]
  BY <1>2, <1>5, <1>8 DEF IsLoop
<1> QED  BY <1>9, <1>10

(***************************************************************************)
(* Where the commands stand in the words, as long as parse() goes through  *)
(* them.                                                                   *)
(***************************************************************************)

Separator == <<Line!Bar>>

\* The first word of command k, when c has the positions of the last words.
From(c, k) == IF k = 1 THEN 1 ELSE c[k - 1] + 2

\* The commands cs stand in the first l words, in order, each but the first one
\* after a bar, and there is no other bar.
Divides(t, cs, c, l) ==
  /\ c \in [1 .. Len(cs) -> 0 .. l] /\ c[Len(cs)] = l
  /\ \A k \in 1 .. Len(cs) : cs[k] = SubSeq(t, From(c, k), c[k])
  /\ \A k, m \in 1 .. Len(cs) : k < m => c[k] < c[m]
  /\ \A k \in 1 .. Len(cs) - 1 : t[c[k] + 1] = Separator
  /\ \A x \in 1 .. l : t[x] = Separator => \E k \in 1 .. Len(cs) - 1 : c[k] + 1 = x

\* One more word of a line.
LEMMA OneMore ==
  ASSUME NEW t \in Seq(Words), NEW l \in 0 .. Len(t) - 1, NEW a \in 1 .. l + 1
  PROVE  Append(SubSeq(t, a, l), t[l + 1]) = SubSeq(t, a, l + 1)
<1>1. /\ Len(t) \in Nat /\ l \in Int /\ a \in Int /\ l + 1 \in a .. Len(t) /\ (l + 1) - 1 = l
      /\ a \in 1 .. Len(t) /\ t[l + 1] \in Words /\ \A x \in a .. l : t[x] \in Words
  OBVIOUS
<1>2. SubSeq(t, a, l) \in Seq(Words)
  BY <1>1, SubSeqProperties
<1>3. Append(SubSeq(t, a, l), t[l + 1]) = SubSeq(t, a, l) \o <<t[l + 1]>>
  BY <1>1, <1>2, AppendIsConcat
<1>4. PICK g : g = l + 1
  OBVIOUS
<1>5. SubSeq(t, a, g) = SubSeq(t, a, g - 1) \o <<t[g]>>
  BY <1>1, <1>4, SubSeqRecursiveSecond
<1> QED  BY <1>1, <1>3, <1>4, <1>5

\* A bar ends a command.
LEMMA BarDivides ==
  ASSUME NEW t \in Seq(Words), NEW l \in 0 .. Len(t) - 1, NEW cs \in Pipelines,
         NEW c, Divides(t, cs, c, l), t[l + 1] = Separator
  PROVE  \E d : Divides(t, Append(cs, <<>>), d, l + 1)
<1> DEFINE n == Len(cs)
           r == Append(cs, <<>>)
           d == [k \in 1 .. n + 1 |-> IF k = n + 1 THEN l + 1 ELSE c[k]]
<1>1. /\ Len(t) \in Nat /\ l \in Nat /\ n \in Nat /\ n >= 1 /\ n \in 1 .. n
      /\ Len(r) = n + 1 /\ r[n + 1] = <<>> /\ \A k \in 1 .. n : r[k] = cs[k]
  <2>1. cs \in Seq(Commands) /\ cs # <<>>
    BY DEF Pipelines
  <2>2. <<>> \in Commands
    BY EmptySeq DEF Commands
  <2> QED  BY <2>1, <2>2, AppendProperties
<1> HIDE DEF n, r
<1>2. /\ c \in [1 .. n -> 0 .. l] /\ c[n] = l
      /\ \A k \in 1 .. n : cs[k] = SubSeq(t, From(c, k), c[k])
      /\ \A k, m \in 1 .. n : k < m => c[k] < c[m]
      /\ \A k \in 1 .. n - 1 : t[c[k] + 1] = Separator
      /\ \A x \in 1 .. l : t[x] = Separator => \E k \in 1 .. n - 1 : c[k] + 1 = x
  BY DEF Divides, n
<1>3. /\ d \in [1 .. n + 1 -> 0 .. l + 1] /\ d[n + 1] = l + 1
      /\ \A k \in 1 .. n : d[k] = c[k] /\ c[k] \in 0 .. l
  BY <1>1, <1>2
<1> HIDE DEF d
<1>4. ASSUME NEW k \in 1 .. n + 1  PROVE r[k] = SubSeq(t, From(d, k), d[k])
  <2>1. CASE k = n + 1
    <3>1. (n + 1) - 1 = n /\ n + 1 # 1
      BY <1>1
    <3>2. d[n] = l
      BY <1>1, <1>2, <1>3
    <3>3. From(d, n + 1) = l + 2
      BY <3>1, <3>2 DEF From
    <3>4. SubSeq(t, l + 2, l + 1) = <<>>
      BY <1>1, SubSeqEmpty
    <3> QED  BY <1>1, <1>3, <2>1, <3>3, <3>4
  <2>2. CASE k # n + 1
    <3>1. k \in 1 .. n /\ (k # 1 => k - 1 \in 1 .. n)
      BY <1>1, <2>2
    <3>2. From(d, k) = From(c, k)
      BY <1>3, <3>1 DEF From
    <3> QED  BY <1>1, <1>2, <1>3, <3>1, <3>2
  <2> QED  BY <2>1, <2>2
<1>5. ASSUME NEW k \in 1 .. n + 1, NEW m \in 1 .. n + 1, k < m  PROVE d[k] < d[m]
  <2>1. k \in 1 .. n
    BY <1>1, <1>5
  <2>2. CASE m = n + 1
    BY <1>1, <1>3, <2>1, <2>2
  <2>3. CASE m # n + 1
    <3>1. m \in 1 .. n
      BY <1>1, <2>3
    <3> QED  BY <1>2, <1>3, <1>5, <2>1, <3>1
  <2> QED  BY <2>2, <2>3
<1>6. ASSUME NEW k \in 1 .. n  PROVE t[d[k] + 1] = Separator
  <2>1. CASE k = n
    BY <1>1, <1>2, <1>3, <2>1
  <2>2. CASE k # n
    <3>1. k \in 1 .. n - 1
      BY <1>1, <2>2
    <3> QED  BY <1>2, <1>3, <3>1
  <2> QED  BY <2>1, <2>2
<1>7. ASSUME NEW x \in 1 .. l + 1, t[x] = Separator  PROVE \E k \in 1 .. n : d[k] + 1 = x
  <2>1. CASE x = l + 1
    BY <1>1, <1>2, <1>3, <2>1
  <2>2. CASE x # l + 1
    <3>1. x \in 1 .. l
      BY <1>1, <2>2
    <3>2. PICK k \in 1 .. n - 1 : c[k] + 1 = x
      BY <1>2, <1>7, <3>1
    <3>3. k \in 1 .. n /\ d[k] = c[k]
      BY <1>1, <1>3
    <3> QED  BY <3>2, <3>3
  <2> QED  BY <2>1, <2>2
<1>8. (n + 1) - 1 = n
  BY <1>1
<1>9. Divides(t, r, d, l + 1)
  BY ONLY <1>1, <1>3, <1>4, <1>5, <1>6, <1>7, <1>8 DEF Divides
<1> QED  BY <1>9 DEF r

\* Any other word is the last one of the last command.
LEMMA WordDivides ==
  ASSUME NEW t \in Seq(Words), NEW l \in 0 .. Len(t) - 1, NEW cs \in Pipelines,
         NEW c, Divides(t, cs, c, l), t[l + 1] # Separator
  PROVE  \E d : Divides(t, [cs EXCEPT ![Len(cs)] = Append(@, t[l + 1])], d, l + 1)
<1> DEFINE n == Len(cs)
           r == [cs EXCEPT ![Len(cs)] = Append(@, t[l + 1])]
           d == [c EXCEPT ![n] = l + 1]
<1>1. /\ Len(t) \in Nat /\ l \in Nat /\ n \in Nat /\ n >= 1 /\ n \in 1 .. n
      /\ Len(r) = n /\ r[n] = Append(cs[n], t[l + 1])
      /\ \A k \in 1 .. n : k # n => r[k] = cs[k]
  <2>1. cs \in Seq(Commands) /\ cs # <<>>
    BY DEF Pipelines
  <2> QED  BY <2>1
<1> HIDE DEF n, r
<1>2. /\ c \in [1 .. n -> 0 .. l] /\ c[n] = l
      /\ \A k \in 1 .. n : cs[k] = SubSeq(t, From(c, k), c[k])
      /\ \A k, m \in 1 .. n : k < m => c[k] < c[m]
      /\ \A k \in 1 .. n - 1 : t[c[k] + 1] = Separator
      /\ \A x \in 1 .. l : t[x] = Separator => \E k \in 1 .. n - 1 : c[k] + 1 = x
  BY DEF Divides, n
<1>3. /\ d \in [1 .. n -> 0 .. l + 1] /\ d[n] = l + 1
      /\ \A k \in 1 .. n : k # n => d[k] = c[k]
      /\ \A k \in 1 .. n : c[k] \in 0 .. l
  BY <1>1, <1>2
<1> HIDE DEF d
<1>4. ASSUME NEW k \in 1 .. n  PROVE r[k] = SubSeq(t, From(d, k), d[k])
  <2>0. /\ k # 1 => k - 1 \in 1 .. n /\ k - 1 # n /\ k - 1 < k
    BY <1>1
  <2>1. From(d, k) = From(c, k)
    BY <1>3, <2>0 DEF From
  <2>2. CASE k = n
    <3>1. From(c, n) \in 1 .. l + 1
      <4>1. CASE n = 1
        BY <1>1, <4>1 DEF From
      <4>2. CASE n # 1
        <5>1. n - 1 \in 1 .. n /\ c[n - 1] < c[n] /\ c[n - 1] \in 0 .. l
          BY <1>1, <1>2, <1>3, <2>0, <2>2, <4>2
        <5>2. From(c, n) = c[n - 1] + 2
          BY <4>2 DEF From
        <5> QED  BY <1>1, <1>2, <5>1, <5>2
      <4> QED  BY <4>1, <4>2
    <3>2. PICK a : a = From(c, n)
      OBVIOUS
    <3>3. Append(SubSeq(t, a, l), t[l + 1]) = SubSeq(t, a, l + 1)
      BY <3>1, <3>2, OneMore
    <3>4. cs[n] = SubSeq(t, a, l)
      BY <1>1, <1>2, <3>2
    <3> QED  BY <1>1, <1>3, <2>1, <2>2, <3>2, <3>3, <3>4
  <2>3. CASE k # n
    BY <1>1, <1>2, <1>3, <2>1, <2>3
  <2> QED  BY <2>2, <2>3
<1>5. ASSUME NEW k \in 1 .. n, NEW m \in 1 .. n, k < m  PROVE d[k] < d[m]
  <2>1. k # n /\ d[k] = c[k] /\ c[k] \in 0 .. l
    BY <1>1, <1>3, <1>5
  <2>2. CASE m = n
    BY <1>1, <1>3, <2>1, <2>2
  <2>3. CASE m # n
    BY <1>2, <1>3, <1>5, <2>1, <2>3
  <2> QED  BY <2>2, <2>3
<1>6. ASSUME NEW k \in 1 .. n - 1  PROVE t[d[k] + 1] = Separator
  <2>1. k \in 1 .. n /\ k # n
    BY <1>1
  <2> QED  BY <1>2, <1>3, <2>1
<1>7. ASSUME NEW x \in 1 .. l + 1, t[x] = Separator  PROVE \E k \in 1 .. n - 1 : d[k] + 1 = x
  <2>1. x \in 1 .. l
    BY <1>1, <1>7
  <2>2. PICK k \in 1 .. n - 1 : c[k] + 1 = x
    BY <1>2, <1>7, <2>1
  <2>3. k \in 1 .. n /\ k # n
    BY <1>1
  <2> QED  BY <1>3, <2>2, <2>3
<1>8. Divides(t, r, d, l + 1)
  BY ONLY <1>1, <1>3, <1>4, <1>5, <1>6, <1>7 DEF Divides
<1> QED  BY <1>8 DEF r

\* parse() divides the words of a line.
LEMMA ParseDivides ==
  ASSUME NEW t \in Seq(Words)
  PROVE  /\ Line!FoldLeft(Line!ParseStep, << <<>> >>, t) \in Pipelines
         /\ \E c : Divides(t, Line!FoldLeft(Line!ParseStep, << <<>> >>, t), c, Len(t))
<1>1. PICK h \in [0 .. Len(t) -> Pipelines] :
        /\ h[0] = << <<>> >>
        /\ \A l \in 1 .. Len(t) : h[l] = Line!ParseStep(h[l - 1], t[l])
        /\ Line!FoldLeft(Line!ParseStep, << <<>> >>, t) = h[Len(t)]
  BY ParseIsLoop
<1>2. Len(t) \in Nat /\ Len(t) \in 0 .. Len(t)
  OBVIOUS
<1> DEFINE G == {l \in 0 .. Len(t) : \E c : Divides(t, h[l], c, l)}
<1>3. 0 \in G
  <2> DEFINE c == [k \in {1} |-> 0]
             cs == << <<>> >>
  <2>1. Len(cs) = 1 /\ cs[1] = <<>> /\ 1 .. 1 = {1} /\ 1 .. 0 = {} /\ 0 .. 0 = {0} /\ 1 - 1 = 0
    OBVIOUS
  <2>2. c \in [{1} -> {0}] /\ c[1] = 0
    OBVIOUS
  <2> HIDE DEF c, cs
  <2>3. SubSeq(t, From(c, 1), c[1]) = <<>>
    BY <2>2, SubSeqEmpty DEF From
  <2>4. Divides(t, cs, c, 0)
    <3>1. c \in [1 .. Len(cs) -> 0 .. 0] /\ c[Len(cs)] = 0
      BY ONLY <2>1, <2>2
    <3>2. \A k \in 1 .. Len(cs) : cs[k] = SubSeq(t, From(c, k), c[k])
      <4>1. \A k \in 1 .. Len(cs) : k = 1
        BY <2>1
      <4> QED  BY ONLY <2>1, <2>3, <4>1
    <3>3. \A k, m \in 1 .. Len(cs) : k < m => c[k] < c[m]
      BY <2>1
    <3>4. \A k \in 1 .. Len(cs) - 1 : t[c[k] + 1] = Separator
      BY <2>1
    <3>5. \A x \in 1 .. 0 : t[x] = Separator => \E k \in 1 .. Len(cs) - 1 : c[k] + 1 = x
      BY <2>1
    <3> QED  BY <3>1, <3>2, <3>3, <3>4, <3>5 DEF Divides
  <2>5. h[0] = cs
    BY <1>1 DEF cs
  <2> QED  BY <1>2, <2>4, <2>5
<1>4. ASSUME NEW l \in 0 .. Len(t) - 1, l \in G  PROVE l + 1 \in G
  <2>1. l + 1 \in 1 .. Len(t) /\ (l + 1) - 1 = l /\ l \in 0 .. Len(t) /\ l + 1 \in 0 .. Len(t)
    BY <1>2
  <2>2. h[l + 1] = Line!ParseStep(h[l], t[l + 1]) /\ h[l] \in Pipelines
    BY <1>1, <2>1
  <2>3. PICK c : Divides(t, h[l], c, l)
    BY <1>4
  <2>4. CASE t[l + 1] = Separator
    <3>1. h[l + 1] = Append(h[l], <<>>)
      BY <2>2, <2>4 DEF Line!ParseStep, Separator
    <3>2. \E d : Divides(t, Append(h[l], <<>>), d, l + 1)
      BY <2>2, <2>3, <2>4, BarDivides
    <3> QED  BY <2>1, <3>1, <3>2
  <2>5. CASE t[l + 1] # Separator
    <3>1. h[l + 1] = [h[l] EXCEPT ![Len(h[l])] = Append(@, t[l + 1])]
      BY <2>2, <2>5 DEF Line!ParseStep, Separator
    <3>2. \E d : Divides(t, [h[l] EXCEPT ![Len(h[l])] = Append(@, t[l + 1])], d, l + 1)
      BY <2>2, <2>3, <2>5, WordDivides
    <3> QED  BY <2>1, <3>1, <3>2
  <2> QED  BY <2>4, <2>5
<1>5. Len(t) \in G
  <2>1. PICK n, H : n = Len(t) /\ H = G
    OBVIOUS
  <2> HIDE DEF G
  <2>2. n \in Nat /\ 0 \in H /\ \A l \in 0 .. n - 1 : l \in H => l + 1 \in H
    BY <1>2, <1>3, <1>4, <2>1
  <2>3. \A l \in 0 .. n : l \in H
    BY ONLY <2>2, UpTo
  <2> QED  BY <2>1, <2>2, <2>3
<1> QED  BY <1>1, <1>2, <1>5

\* The starts of the commands, and where the words are.
LEMMA FromTo ==
  ASSUME NEW t \in Seq(Words), NEW cs \in Pipelines, NEW c, Divides(t, cs, c, Len(t)),
         NEW k \in 1 .. Len(cs)
  PROVE  /\ c[k] \in 0 .. Len(t) /\ From(c, k) \in 1 .. c[k] + 1
         /\ k # 1 => k - 1 \in 1 .. Len(cs) /\ c[k - 1] < c[k] /\ c[k - 1] \in 0 .. Len(t)
<1>1. /\ Len(t) \in Nat /\ Len(cs) \in Nat /\ c \in [1 .. Len(cs) -> 0 .. Len(t)]
      /\ \A x, m \in 1 .. Len(cs) : x < m => c[x] < c[m]
  BY DEF Divides, Pipelines
<1>2. CASE k = 1
  BY <1>1, <1>2 DEF From
<1>3. CASE k # 1
  <2>1. k - 1 \in 1 .. Len(cs) /\ k - 1 < k
    BY <1>1, <1>3
  <2>2. c[k - 1] \in 0 .. Len(t) /\ c[k] \in 0 .. Len(t) /\ c[k - 1] < c[k]
    BY <1>1, <2>1
  <2> QED  BY <1>1, <1>3, <2>1, <2>2 DEF From
<1> QED  BY <1>2, <1>3

\* The commands that stand in the words, joined by bars, are the words.
LEMMA DividesJoins ==
  ASSUME NEW t \in Seq(Words), NEW cs \in Pipelines, NEW c, Divides(t, cs, c, Len(t))
  PROVE  Line!FoldLeft(LAMBDA line, com : line \o << <<Line!Bar>> >> \o com, cs[1], Tail(cs)) = t
<1>1. /\ Len(t) \in Nat /\ Len(cs) \in Nat /\ Len(cs) >= 1 /\ cs \in Seq(Commands) /\ cs # <<>>
      /\ cs[1] \in Commands /\ 1 \in 1 .. Len(cs)
  BY DEF Pipelines
<1>2. /\ Tail(cs) \in Seq(Commands) /\ Len(Tail(cs)) = Len(cs) - 1
      /\ \A k \in 1 .. Len(cs) - 1 : Tail(cs)[k] = cs[k + 1]
  BY <1>1, HeadTailProperties
<1>3. PICK h \in [0 .. Len(Tail(cs)) -> Commands] :
        /\ h[0] = cs[1]
        /\ \A l \in 1 .. Len(Tail(cs)) :
             h[l] = h[l - 1] \o << <<Line!Bar>> >> \o Tail(cs)[l]
        /\ Line!FoldLeft(LAMBDA line, com : line \o << <<Line!Bar>> >> \o com, cs[1], Tail(cs))
             = h[Len(Tail(cs))]
  BY <1>1, <1>2, JoinIsLoop
<1>4. PICK n : n = Len(cs) - 1
  OBVIOUS
<1>5. n \in Nat /\ n + 1 = Len(cs) /\ \A k \in 1 .. n : k + 1 \in 1 .. Len(cs)
  BY <1>1, <1>4
<1> DEFINE G == {l \in 0 .. n : h[l] = SubSeq(t, 1, c[l + 1])}
<1>6. 0 \in G
  <2>1. cs[1] = SubSeq(t, From(c, 1), c[1])
    BY <1>1 DEF Divides
  <2>2. From(c, 1) = 1
    BY DEF From
  <2>3. h[0] = cs[1]
    BY <1>3
  <2>4. 0 \in 0 .. n /\ 0 + 1 = 1
    BY <1>5
  <2>5. h[0] = SubSeq(t, 1, c[0 + 1])
    BY ONLY <2>1, <2>2, <2>3, <2>4
  <2> QED  BY <2>4, <2>5
<1>7. ASSUME NEW l \in 0 .. n - 1, l \in G  PROVE l + 1 \in G
  <2>1. /\ l + 1 \in 1 .. n /\ (l + 1) - 1 = l /\ l + 1 \in 1 .. Len(cs) /\ l + 1 \in 0 .. n
        /\ l + 2 \in 1 .. Len(cs) /\ (l + 2) - 1 = l + 1 /\ (l + 1) + 1 = l + 2 /\ l + 2 # 1
        /\ l + 1 \in 1 .. Len(cs) - 1
    BY <1>5
  <2>2. PICK x, y : x = c[l + 1] /\ y = c[l + 2]
    OBVIOUS
  <2>3. x \in 0 .. Len(t) /\ y \in 0 .. Len(t) /\ x < y /\ From(c, l + 2) = x + 2
    BY <2>1, <2>2, FromTo DEF From
  <2>4. h[l] = SubSeq(t, 1, x)
    BY <1>7, <2>2
  <2>5. Tail(cs)[l + 1] = SubSeq(t, x + 2, y)
    <3>1. Tail(cs)[l + 1] = cs[l + 2]
      BY <1>2, <2>1
    <3>2. cs[l + 2] = SubSeq(t, From(c, l + 2), c[l + 2])
      BY <2>1 DEF Divides
    <3> QED  BY ONLY <2>2, <2>3, <3>1, <3>2
  <2>6. t[x + 1] = Separator
    BY <2>1, <2>2 DEF Divides
  <2>7. h[l + 1] = h[l] \o <<Separator>> \o Tail(cs)[l + 1]
    BY <1>3, <1>4, <1>2, <2>1 DEF Separator
  <2>8. h[l + 1] = SubSeq(t, 1, x) \o <<t[x + 1]>> \o SubSeq(t, x + 2, y)
    BY <2>4, <2>5, <2>6, <2>7
  <2>9. SubSeq(t, 1, x) \o <<t[x + 1]>> = SubSeq(t, 1, x + 1)
    <3>1. PICK g : g = x + 1
      OBVIOUS
    <3>2. 1 \in 1 .. Len(t) /\ g \in 1 .. Len(t) /\ g - 1 = x
      BY <1>1, <2>3, <3>1
    <3>3. SubSeq(t, 1, g) = SubSeq(t, 1, g - 1) \o <<t[g]>>
      BY <3>2, SubSeqRecursiveSecond
    <3> QED  BY <3>1, <3>2, <3>3
  <2>10. SubSeq(t, 1, x + 1) \o SubSeq(t, x + 2, y) = SubSeq(t, 1, y)
    <3>1. PICK g : g = x + 1
      OBVIOUS
    <3>2. /\ 1 \in 1 .. Len(t) + 1 /\ g \in 1 - 1 .. Len(t) /\ y \in g .. Len(t)
          /\ g + 1 = x + 2
      BY <1>1, <2>3, <3>1
    <3>3. SubSeq(t, 1, g) \o SubSeq(t, g + 1, y) = SubSeq(t, 1, y)
      BY ONLY t \in Seq(Words), <3>2, ConcatAdjacentSubSeq
    <3> QED  BY <3>1, <3>2, <3>3
  <2>11. h[l + 1] = SubSeq(t, 1, y)
    BY <2>8, <2>9, <2>10
  <2> QED  BY <2>1, <2>2, <2>11
<1>8. n \in G
  <2>1. PICK H : H = G
    OBVIOUS
  <2> HIDE DEF G
  <2>2. n \in Nat /\ 0 \in H /\ \A l \in 0 .. n - 1 : l \in H => l + 1 \in H
    BY <1>5, <1>6, <1>7, <2>1
  <2>3. \A l \in 0 .. n : l \in H
    BY ONLY <2>2, UpTo
  <2> QED  BY <2>1, <2>2, <2>3
<1>9. h[n] = SubSeq(t, 1, Len(t))
  BY <1>5, <1>8 DEF Divides
<1>10. SubSeq(t, 1, Len(t)) = t
  BY SubSeqFull
<1> QED  BY <1>2, <1>3, <1>4, <1>9, <1>10

\* The gap before, between or after the bars.
IsGap(t, j) == /\ j = 1 \/ t[j - 1] = Separator
               /\ j = Len(t) + 1 \/ t[j] = Separator

\* The empty commands are as many as the gaps.
LEMMA EmptyAreGaps ==
  ASSUME NEW t \in Seq(Words), NEW cs \in Pipelines, NEW c, Divides(t, cs, c, Len(t))
  PROVE  Line!Cardinality({k \in 1 .. Len(cs) : cs[k] = <<>>})
           = Line!Cardinality({j \in 1 .. Len(t) + 1 : IsGap(t, j)})
<1> DEFINE n == Len(cs)
           E == {k \in 1 .. n : cs[k] = <<>>}
           J == {j \in 1 .. Len(t) + 1 : IsGap(t, j)}
           f == [k \in E |-> c[k] + 1]
<1>1. /\ Len(t) \in Nat /\ n \in Nat /\ n \in 1 .. n
      /\ c \in [1 .. n -> 0 .. Len(t)] /\ c[n] = Len(t)
      /\ \A k \in 1 .. n : cs[k] = SubSeq(t, From(c, k), c[k])
      /\ \A k, m \in 1 .. n : k < m => c[k] < c[m]
      /\ \A k \in 1 .. n - 1 : t[c[k] + 1] = Separator
      /\ \A x \in 1 .. Len(t) : t[x] = Separator => \E k \in 1 .. n - 1 : c[k] + 1 = x
  <2>1. cs \in Seq(Commands) /\ cs # <<>>
    BY DEF Pipelines
  <2> QED  BY <2>1 DEF Divides
<1>2. \A k \in 1 .. n : /\ c[k] \in 0 .. Len(t) /\ From(c, k) \in 1 .. c[k] + 1
                        /\ k # 1 => k - 1 \in 1 .. n /\ c[k - 1] < c[k] /\ c[k - 1] \in 0 .. Len(t)
  BY FromTo
<1> HIDE DEF n
<1>3. ASSUME NEW k \in 1 .. n  PROVE cs[k] = <<>> <=> From(c, k) = c[k] + 1
  <2>1. PICK x, y : x = From(c, k) /\ y = c[k]
    OBVIOUS
  <2>2. x \in Int /\ y \in Int /\ x \in 1 .. y + 1 /\ \A z \in x .. y : t[z] \in Words
    BY <1>1, <1>2, <2>1
  <2>3. Len(SubSeq(t, x, y)) = IF x <= y THEN y - x + 1 ELSE 0
    BY ONLY <2>2, SubSeqProperties
  <2>4. y < x => SubSeq(t, x, y) = <<>>
    BY <2>2, SubSeqEmpty
  <2>5. cs[k] = SubSeq(t, x, y) /\ Len(<<>>) = 0
    BY <1>1, <2>1
  <2>6. x = y + 1 <=> y < x
    BY <2>2
  <2>7. x <= y => Len(SubSeq(t, x, y)) # 0
    BY <2>2, <2>3
  <2>8. x <= y \/ y < x
    BY <2>2
  <2> QED  BY <2>1, <2>4, <2>5, <2>6, <2>7, <2>8
<1>4. ASSUME NEW k \in E  PROVE c[k] + 1 \in J
  <2>1. From(c, k) = c[k] + 1 /\ k \in 1 .. n /\ c[k] \in 0 .. Len(t)
    BY <1>2, <1>3
  <2>2. c[k] + 1 \in 1 .. Len(t) + 1 /\ (c[k] + 1) - 1 = c[k]
    <3>1. Len(t) \in Nat /\ c[k] \in 0 .. Len(t)
      BY <1>1, <2>1
    <3> QED  BY ONLY <3>1
  <2>3. c[k] + 1 = 1 \/ t[c[k]] = Separator
    <3>1. CASE k = 1
      BY <2>1, <3>1 DEF From
    <3>2. CASE k # 1
      <4>1. k - 1 \in 1 .. n - 1 /\ c[k - 1] \in 0 .. Len(t) /\ From(c, k) = c[k - 1] + 2
        BY <1>1, <1>2, <2>1, <3>2 DEF From
      <4>2. c[k] = c[k - 1] + 1
        BY <1>1, <2>1, <4>1
      <4> QED  BY <1>1, <4>1, <4>2
    <3> QED  BY <3>1, <3>2
  <2>4. c[k] + 1 = Len(t) + 1 \/ t[c[k] + 1] = Separator
    <3>1. CASE k = n
      BY <1>1, <3>1
    <3>2. CASE k # n
      <4>1. k \in 1 .. n - 1
        BY <1>1, <2>1, <3>2
      <4> QED  BY <1>1, <4>1
    <3> QED  BY <3>1, <3>2
  <2> QED  BY <2>2, <2>3, <2>4 DEF IsGap
<1>5. \A k, m \in 1 .. n : c[k] + 1 = c[m] + 1 => k = m
  <2>1. ASSUME NEW k \in 1 .. n, NEW m \in 1 .. n, c[k] + 1 = c[m] + 1  PROVE k = m
    <3>1. c[k] \in 0 .. Len(t) /\ c[m] \in 0 .. Len(t) /\ k \in Nat /\ m \in Nat
      BY <1>1, <1>2
    <3>2. ~(k < m) /\ ~(m < k)
      BY <1>1, <2>1, <3>1
    <3> QED  BY <3>1, <3>2
  <2> QED  BY <2>1
<1>6. ASSUME NEW j \in J  PROVE \E k \in E : c[k] + 1 = j
  <2>1. /\ j \in 1 .. Len(t) + 1 /\ (j = 1 \/ t[j - 1] = Separator)
        /\ (j = Len(t) + 1 \/ t[j] = Separator)
    BY DEF IsGap
  <2>2. PICK k \in 1 .. n : c[k] + 1 = j
    <3>1. CASE j = Len(t) + 1
      BY <1>1, <3>1
    <3>2. CASE j # Len(t) + 1
      <4>1. j \in 1 .. Len(t) /\ t[j] = Separator
        BY <1>1, <2>1, <3>2
      <4>2. PICK k \in 1 .. n - 1 : c[k] + 1 = j
        BY <1>1, <4>1
      <4>3. k \in 1 .. n
        BY <1>1
      <4> QED  BY <4>2, <4>3
    <3> QED  BY <3>1, <3>2
  <2>3. From(c, k) = c[k] + 1
    <3>1. CASE k = 1
      <4>1. From(c, 1) = 1 /\ c[1] \in 0 .. Len(t)
        BY <1>2, <3>1 DEF From
      <4>2. CASE j = 1
        BY <2>2, <3>1, <4>1, <4>2
      <4>3. CASE j # 1
        <5>1. j - 1 \in 1 .. Len(t) /\ t[j - 1] = Separator
          BY <1>1, <2>1, <4>3
        <5>2. PICK m \in 1 .. n - 1 : c[m] + 1 = j - 1
          BY <1>1, <5>1
        <5>3. m \in 1 .. n /\ c[m] \in 0 .. Len(t) /\ c[m] < c[k]
          BY <1>1, <1>2, <2>2, <4>1, <3>1, <5>2
        <5>4. m # 1 => c[1] < c[m]
          BY <1>1, <3>1, <5>3
        <5> QED  BY <3>1, <4>1, <5>3, <5>4
      <4> QED  BY <4>2, <4>3
    <3>2. CASE k # 1
      <4>1. /\ k - 1 \in 1 .. n /\ c[k - 1] \in 0 .. Len(t) /\ c[k - 1] < c[k]
            /\ c[k] \in 0 .. Len(t) /\ From(c, k) = c[k - 1] + 2
        BY <1>2, <3>2 DEF From
      <4>2. j - 1 \in 1 .. Len(t) /\ t[j - 1] = Separator
        BY <1>1, <2>1, <2>2, <4>1
      <4>3. PICK m \in 1 .. n - 1 : c[m] + 1 = j - 1
        BY <1>1, <4>2
      <4>4. m \in 1 .. n /\ c[m] \in 0 .. Len(t) /\ c[m] + 1 = c[k]
        <5>1. m \in 1 .. n
          BY <1>1
        <5>2. c[m] \in 0 .. Len(t)
          BY <1>2, <5>1
        <5> QED  BY ONLY <2>2, <4>1, <4>3, <5>1, <5>2, Len(t) \in Nat
      <4>5. m = k - 1
        <5>1. ~(m < k - 1)
          BY <1>1, <4>1, <4>4
        <5>2. ~(k - 1 < m)
          <6>1. ASSUME k - 1 < m  PROVE FALSE
            <7>1. k <= m /\ (k < m => c[k] < c[m])
              BY <1>1, <4>4, <6>1
            <7>2. c[k] <= c[m]
              BY <4>4, <4>1, <7>1, k \in Nat, m \in Nat
            <7> QED  BY ONLY <4>1, <4>4, <7>2, Len(t) \in Nat
          <6> QED  BY <6>1
        <5> QED  BY <1>1, <4>1, <4>4, <5>1, <5>2
      <4> QED  BY <4>1, <4>4, <4>5
    <3> QED  BY <3>1, <3>2
  <2>4. k \in E
    BY <1>3, <2>3
  <2> QED  BY <2>2, <2>4
<1>7. f \in Bijection(E, J)
  <2>1. f \in [E -> J] /\ \A k \in E : f[k] = c[k] + 1
    BY <1>4
  <2>2. \A k \in E : k \in 1 .. n
    OBVIOUS
  <2> HIDE DEF f, E, J
  <2>3. f \in Injection(E, J)
    BY <1>5, <2>1, <2>2 DEF Injection, IsInjective
  <2>4. f \in Surjection(E, J)
    BY <1>6, <2>1 DEF Surjection
  <2> QED  BY <2>3, <2>4 DEF Bijection
<1>8. IsFiniteSet(E)
  <2>1. IsFiniteSet(1 .. n)
    BY <1>1, FS_Interval
  <2>2. E \subseteq 1 .. n
    OBVIOUS
  <2> QED  BY <2>1, <2>2, FS_Subset
<1>9. Cardinality(J) = Cardinality(E)
  <2>1. ExistsBijection(E, J)
    BY <1>7 DEF ExistsBijection
  <2> HIDE DEF E, J
  <2> QED  BY <1>8, <2>1, FS_Bijection
<1>10. Line!Cardinality(J) = Cardinality(J) /\ Line!Cardinality(E) = Cardinality(E)
  <2> HIDE DEF E, J
  <2> QED  BY DEF Line!Cardinality, Cardinality
<1> QED  BY <1>9, <1>10 DEF n

\* What parse() makes of the line: where its commands stand in the words.
LEMMA LineDivides ==
  ASSUME s \in Seq(Line!Char)
  PROVE  /\ Line!Runs \in Seq(Words) /\ Line!Parse(s) \in Pipelines
         /\ \A j \in 1 .. Len(Line!Runs) : Line!Runs[j] # <<>>
         /\ \E c : Divides(Line!Runs, Line!Parse(s), c, Len(Line!Runs))
<1>1. PICK t : t = Line!Split(s)
  OBVIOUS
<1>2. t \in Seq(Words) /\ Line!Runs = t /\ \A j \in 1 .. Len(t) : t[j] # <<>>
  BY <1>1, SplitIsRuns DEF Words
<1>3. Line!Parse(s) = Line!FoldLeft(Line!ParseStep, << <<>> >>, t)
  BY <1>1 DEF Line!Parse
<1>4. Line!Parse(s) \in Pipelines /\ \E c : Divides(t, Line!Parse(s), c, Len(t))
  BY <1>2, <1>3, ParseDivides
<1> QED  BY <1>2, <1>4

\* A word takes a character, and a space to its left unless it is the first.
LEMMA FewWords ==
  ASSUME NEW t \in Seq(Line!Char)
  PROVE  /\ Line!Split(t) \in Seq(Words)
         /\ 2 * Len(Line!Split(t)) <= Len(t) + 1
<1>1. PICK h \in [0 .. Len(t) -> Collected] :
        /\ h[0] = [res |-> <<>>, ss |-> <<>>]
        /\ \A l \in 1 .. Len(t) : h[l] = Line!SplitStep(h[l - 1], t[l])
        /\ Line!Split(t) = Line!PushBack(h[Len(t)])
  BY SplitIsLoop
<1>2. PICK n \in Nat : n = Len(t)
  OBVIOUS
<1> DEFINE Few(acc, l) == 2 * Len(acc.res) + (IF acc.ss = <<>> THEN 0 ELSE 1) <= l
           G == {l \in 0 .. n : Few(h[l], l)}
<1>3. ASSUME NEW acc \in Collected
      PROVE  /\ acc.res \in Seq(Words) /\ acc.ss \in Words /\ Len(acc.res) \in Nat
             /\ Line!PushBack(acc) \in Seq(Words)
             /\ Len(Line!PushBack(acc))
                  = Len(acc.res) + (IF acc.ss = <<>> THEN 0 ELSE 1)
  <2>1. acc.res \in Seq(Words) /\ acc.ss \in Words
    BY DEF Collected, Words
  <2>2. PICK a, b : a = acc.res /\ b = acc.ss
    OBVIOUS
  <2>3. a \in Seq(Words) /\ b \in Words
    BY ONLY <2>1, <2>2
  <2>4. /\ Len(a) \in Nat /\ Append(a, b) \in Seq(Words)
        /\ Len(Append(a, b)) = Len(a) + 1
    BY ONLY <2>3, AppendProperties
  <2>5. Line!PushBack(acc) = IF b = <<>> THEN a ELSE Append(a, b)
    BY <2>2 DEF Line!PushBack
  <2>6. Line!PushBack(acc) \in Seq(Words)
    BY ONLY <2>3, <2>4, <2>5
  <2>7. Len(Line!PushBack(acc)) = Len(a) + (IF b = <<>> THEN 0 ELSE 1)
    <3>1. CASE b = <<>>   BY ONLY <2>4, <2>5, <3>1
    <3>2. CASE b # <<>>   BY ONLY <2>4, <2>5, <3>2
    <3> QED  BY ONLY <3>1, <3>2
  <2>8. Len(acc.res) \in Nat
    BY ONLY <2>2, <2>4
  <2> HIDE DEF Few
  <2> QED  BY <2>1, <2>2, <2>6, <2>7, <2>8
<1>4. 0 \in G
  <2>1. h[0].res = <<>> /\ h[0].ss = <<>> /\ Len(<<>>) = 0
    BY <1>1
  <2>2. 2 * Len(h[0].res) = 0
    BY ONLY <2>1
  <2> QED  BY <2>1, <2>2
<1>5. ASSUME NEW l \in 0 .. n - 1, l \in G  PROVE l + 1 \in G
  <2>1. l \in 0 .. n /\ l + 1 \in 1 .. n /\ l + 1 \in 0 .. n /\ l \in Nat
    OBVIOUS
  <2>2. PICK acc, c : acc \in Collected /\ acc = h[l] /\ c = t[l + 1]
    BY <1>1, <1>2, <2>1
  <2>3. h[l + 1] = Line!SplitStep(acc, c)
    BY <1>1, <1>2, <2>1, <2>2
  <2>4. Few(acc, l)
    BY <1>5, <2>2
  <2>5. CASE c = Line!Space
    <3>1. Line!SplitStep(acc, c) = [res |-> Line!PushBack(acc), ss |-> <<>>]
      BY <2>5 DEF Line!SplitStep
    <3>2. PICK a, b, u, v :
            /\ u \in Nat /\ v \in Nat
            /\ a = Line!PushBack(acc) /\ b = acc.ss
            /\ u = Len(acc.res) /\ v = Len(a)
            /\ v = u + (IF b = <<>> THEN 0 ELSE 1)
            /\ 2 * u + (IF b = <<>> THEN 0 ELSE 1) <= l
      <4>1. /\ Len(acc.res) \in Nat /\ Line!PushBack(acc) \in Seq(Words)
            /\ Len(Line!PushBack(acc)) = Len(acc.res) + (IF acc.ss = <<>> THEN 0 ELSE 1)
            /\ 2 * Len(acc.res) + (IF acc.ss = <<>> THEN 0 ELSE 1) <= l
        BY <1>3, <2>2, <2>4
      <4>2. Len(Line!PushBack(acc)) \in Nat
        <5>1. PICK w : w = Line!PushBack(acc)
          OBVIOUS
        <5>2. w \in Seq(Words)
          BY ONLY <4>1, <5>1
        <5>3. Len(w) \in Nat
          BY ONLY <5>2
        <5> QED  BY ONLY <5>1, <5>3
      <4> QED  BY ONLY <4>1, <4>2
    <3>3. 2 * v <= l + 1
      BY ONLY <2>1, <3>2
    <3>4. Few([res |-> a, ss |-> <<>>], l + 1)
      BY ONLY <2>1, <3>2, <3>3
    <3>5. Few([res |-> Line!PushBack(acc), ss |-> <<>>], l + 1)
      BY <3>2, <3>4
    <3> HIDE DEF Few
    <3> QED  BY <2>1, <2>3, <3>1, <3>5
  <2>6. CASE c # Line!Space
    <3>1. Line!SplitStep(acc, c) = [acc EXCEPT !.ss = Append(@, c)]
      BY <2>6 DEF Line!SplitStep
    <3>2. [acc EXCEPT !.ss = Append(@, c)].res = acc.res
      BY DEF Collected
    <3>3. Few([acc EXCEPT !.ss = Append(@, c)], l + 1)
      BY <1>3, <2>1, <2>4, <3>2
    <3> HIDE DEF Few
    <3> QED  BY <2>1, <2>3, <3>1, <3>3
  <2> QED  BY <2>5, <2>6
<1>6. n \in G
  <2>1. PICK H : H = G
    OBVIOUS
  <2>2. 0 \in H /\ \A l \in 0 .. n - 1 : l \in H => l + 1 \in H
    BY <1>4, <1>5, <2>1
  <2>3. \A l \in 0 .. n : l \in H
    BY ONLY <2>2, UpTo, n \in Nat
  <2>4. n \in H
    BY ONLY <2>3, n \in Nat
  <2> QED  BY <2>1, <2>4
<1>7. PICK acc \in Collected : acc = h[n]
  BY <1>1, <1>2
<1>8. Few(acc, n)
  BY <1>6, <1>7
<1>9. PICK w : w = Line!PushBack(acc)
  OBVIOUS
<1>10. w = Line!Split(t) /\ w \in Seq(Words)
  BY <1>1, <1>2, <1>3, <1>7, <1>9
<1>11. 2 * Len(w) <= n + 1
  <2>1. PICK u \in Nat, k \in {0, 1} : u = Len(acc.res) /\ Len(w) = u + k /\ 2 * u + k <= n
    BY <1>3, <1>8, <1>9
  <2> QED  BY ONLY <2>1, n \in Nat
<1> QED  BY <1>2, <1>10, <1>11

\* Every word makes at most one more command.
LEMMA FewCommands ==
  ASSUME NEW t \in Seq(Words)
  PROVE  Len(Line!FoldLeft(Line!ParseStep, << <<>> >>, t)) <= Len(t) + 1
<1>1. PICK h \in [0 .. Len(t) -> Pipelines] :
        /\ h[0] = << <<>> >>
        /\ \A l \in 1 .. Len(t) : h[l] = Line!ParseStep(h[l - 1], t[l])
        /\ Line!FoldLeft(Line!ParseStep, << <<>> >>, t) = h[Len(t)]
  BY ParseIsLoop
<1>2. PICK n \in Nat : n = Len(t)
  OBVIOUS
<1> DEFINE G == {l \in 0 .. n : Len(h[l]) <= l + 1}
<1>3. 0 \in G
  <2>1. Len(<< <<>> >>) = 1
    OBVIOUS
  <2> QED  BY <1>1, <2>1
<1>4. ASSUME NEW l \in 0 .. n - 1, l \in G  PROVE l + 1 \in G
  <2>1. l \in 0 .. n /\ l + 1 \in 1 .. n /\ l + 1 \in 0 .. n /\ l \in Nat
    OBVIOUS
  <2>2. PICK acc, c : acc \in Pipelines /\ acc = h[l] /\ c = t[l + 1]
    BY <1>1, <1>2, <2>1
  <2>3. h[l + 1] = Line!ParseStep(acc, c)
    BY <1>1, <1>2, <2>1, <2>2
  <2>4. acc \in Seq(Commands) /\ Len(acc) \in Nat /\ Len(acc) <= l + 1
    BY <1>4, <2>2 DEF Pipelines
  <2>5. Len(Line!ParseStep(acc, c)) <= Len(acc) + 1
    <3>1. CASE c = <<Line!Bar>>
      <4>1. <<>> \in Commands
        BY EmptySeq DEF Commands
      <4>2. Len(Append(acc, <<>>)) = Len(acc) + 1
        BY ONLY <2>4, <4>1, AppendProperties
      <4> QED  BY <2>4, <3>1, <4>2 DEF Line!ParseStep
    <3>2. CASE c # <<Line!Bar>>
      <4>1. PICK d : d = Append(acc[Len(acc)], c)
        OBVIOUS
      <4>2. Len([acc EXCEPT ![Len(acc)] = d]) = Len(acc)
        BY ONLY <2>4
      <4> QED  BY <2>4, <3>2, <4>1, <4>2 DEF Line!ParseStep
    <3> QED  BY <3>1, <3>2
  <2>6. Len(Line!ParseStep(acc, c)) \in Nat
    <3>1. h[l + 1] \in Pipelines
      BY <1>1, <1>2, <2>1
    <3> QED  BY <2>3, <3>1 DEF Pipelines
  <2> QED  BY <2>1, <2>3, <2>4, <2>5, <2>6
<1>5. n \in G
  <2>1. PICK H : H = G
    OBVIOUS
  <2>2. 0 \in H /\ \A l \in 0 .. n - 1 : l \in H => l + 1 \in H
    BY <1>3, <1>4, <2>1
  <2>3. \A l \in 0 .. n : l \in H
    BY ONLY <2>2, UpTo, n \in Nat
  <2>4. n \in H
    BY ONLY <2>3, n \in Nat
  <2> QED  BY <2>1, <2>4
<1> QED  BY <1>1, <1>2, <1>5

\* The type of the state and of what main() makes of the line.
LEMMA LineTyped ==
  ASSUME s \in Seq(Line!Char)
  PROVE  /\ Line!Coms \in Seq(Seq(Seq(Line!Char))) /\ Line!Coms # <<>>
         /\ 2 * (Len(Line!Coms) - 1) <= Len(s) + 1
<1>1. PICK cs \in Pipelines : cs = Line!Parse(s)
  BY LineDivides
<1>2. cs \in Seq(Seq(Seq(Line!Char))) /\ Len(cs) \in Nat /\ Len(cs) >= 1
  BY DEF Pipelines, Commands, Words
<1>3. Line!Coms = [k \in 1 .. Len(cs) |-> Append(cs[k], <<>>)]
  BY <1>1 DEF Line!Coms, Line!ToCStr, Line!Null
<1>4. ASSUME NEW k \in 1 .. Len(cs)  PROVE Append(cs[k], <<>>) \in Seq(Seq(Line!Char))
  <2>1. cs[k] \in Seq(Seq(Line!Char)) /\ <<>> \in Seq(Line!Char)
    BY <1>2, EmptySeq
  <2> QED  BY <2>1, AppendProperties
<1>5. PICK r : r = [k \in 1 .. Len(cs) |-> Append(cs[k], <<>>)]
  OBVIOUS
<1>6. r \in Seq(Seq(Seq(Line!Char))) /\ Len(r) = Len(cs)
  BY <1>2, <1>4, <1>5
<1>7. r # <<>>
  BY <1>2, <1>6
<1>8. 2 * (Len(cs) - 1) <= Len(s) + 1
  <2>1. PICK t \in Seq(Words) : t = Line!Split(s) /\ 2 * Len(t) <= Len(s) + 1
    BY FewWords
  <2>2. Len(cs) <= Len(t) + 1
    BY <1>1, <2>1, FewCommands DEF Line!Parse
  <2>3. Len(t) \in Nat /\ Len(s) \in Nat
    BY <2>1
  <2> QED  BY <1>2, <2>1, <2>2, <2>3
<1> QED  BY <1>3, <1>5, <1>6, <1>7, <1>8

\* Nothing of the line is lost or moved to another command.
LEMMA LineJoins ==
  ASSUME s \in Seq(Line!Char)
  PROVE  CommandsAreTheLine
<1>1. PICK c : Divides(Line!Runs, Line!Parse(s), c, Len(Line!Runs))
  BY LineDivides
<1>2. PICK t, cs : t = Line!Runs /\ cs = Line!Parse(s)
  OBVIOUS
<1>3. t \in Seq(Words) /\ cs \in Pipelines /\ Divides(t, cs, c, Len(t))
  BY <1>1, <1>2, LineDivides
<1>4. Line!FoldLeft(LAMBDA line, com : line \o << <<Line!Bar>> >> \o com, cs[1], Tail(cs)) = t
  BY <1>3, DividesJoins
<1> QED  BY <1>2, <1>4 DEF CommandsAreTheLine, Line!CommandsAreTheLine

\* A null name for every gap.
LEMMA LineGaps ==
  ASSUME s \in Seq(Line!Char)
  PROVE  NullNameIsGap
<1>1. PICK c : Divides(Line!Runs, Line!Parse(s), c, Len(Line!Runs))
  BY LineDivides
<1>2. PICK t, cs : t = Line!Runs /\ cs = Line!Parse(s)
  OBVIOUS
<1>3. /\ t \in Seq(Words) /\ cs \in Pipelines /\ Divides(t, cs, c, Len(t))
      /\ \A j \in 1 .. Len(t) : t[j] # <<>>
  BY <1>1, <1>2, LineDivides
<1>4. Line!Cardinality({k \in 1 .. Len(cs) : cs[k] = <<>>})
        = Line!Cardinality({j \in 1 .. Len(t) + 1 : IsGap(t, j)})
  BY <1>3, EmptyAreGaps
<1>5. {j \in 1 .. Len(t) + 1 : IsGap(t, j)} = {j \in 1 .. Len(Line!Runs) + 1 : Line!Gap(j)}
  BY <1>2 DEF IsGap, Line!Gap, Separator
<1>6. Line!Coms = [k \in 1 .. Len(cs) |-> Append(cs[k], <<>>)] /\ Len(cs) \in Nat
  BY <1>2, <1>3 DEF Line!Coms, Line!ToCStr, Line!Null, Pipelines
<1>7. Len(Line!Coms) = Len(cs)
  <2>1. PICK r : r = [k \in 1 .. Len(cs) |-> Append(cs[k], <<>>)]
    OBVIOUS
  <2>2. Len(r) = Len(cs)
    BY <1>6, <2>1
  <2> QED  BY <1>6, <2>1, <2>2
<1>8. ASSUME NEW k \in 1 .. Len(cs)  PROVE Line!Coms[k][1] = Line!Null <=> cs[k] = <<>>
  <2>1. Line!Coms[k] = Append(cs[k], <<>>) /\ Line!Null = <<>>
    BY <1>6 DEF Line!Null
  <2>2. cs[k] \in Seq(Words) /\ <<>> \in Words
    BY <1>3, EmptySeq DEF Pipelines, Commands, Words
  <2>3. PICK w : w = cs[k]
    OBVIOUS
  <2>4. w = <<>> => Append(w, <<>>)[1] = <<>>
    OBVIOUS
  <2>5. ASSUME w # <<>>  PROVE Append(w, <<>>)[1] # <<>>
    <3>1. w \in Seq(Words) /\ Len(w) \in Nat /\ 1 \in 1 .. Len(w)
      BY <2>2, <2>3, <2>5
    <3>2. Append(w, <<>>)[1] = w[1]
      BY <2>2, <3>1, AppendProperties
    <3>3. PICK x, y : x = From(c, k) /\ y = c[k]
      OBVIOUS
    <3>4. x \in 1 .. y + 1 /\ y \in 0 .. Len(t) /\ w = SubSeq(t, x, y)
      BY <1>3, <2>3, <3>3, FromTo DEF Divides
    <3>5. x \in Int /\ y \in Int /\ \A z \in x .. y : t[z] \in Words
      BY <1>3, <3>4
    <3>6. Len(w) = (IF x <= y THEN y - x + 1 ELSE 0) /\ \A z \in 1 .. y - x + 1 : w[z] = t[x + z - 1]
      BY ONLY <3>4, <3>5, SubSeqProperties
    <3>7. 1 \in 1 .. y - x + 1 /\ x + 1 - 1 = x /\ x \in 1 .. Len(t)
      BY <1>3, <3>1, <3>4, <3>6
    <3> QED  BY <1>3, <3>2, <3>6, <3>7
  <2> QED  BY <2>1, <2>3, <2>4, <2>5
<1>9. {k \in 1 .. Len(Line!Coms) : Line!Coms[k][1] = Line!Null} = {k \in 1 .. Len(cs) : cs[k] = <<>>}
  BY <1>7, <1>8
<1> QED  BY <1>4, <1>5, <1>9 DEF NullNameIsGap, Line!NullNameIsGap

\* What is read from the terminal: characters, up to MaxLine of them.
LineChars == s \in Seq(Line!Char) /\ (MaxLine \in Nat => Len(s) <= MaxLine)

LEMMA LineStep ==
  Line!Spec => []LineChars
<1>1. Line!Init => LineChars
  BY EmptySeq DEF Line!Init, LineChars
<1>2. LineChars /\ [Line!Getline]_s => LineChars'
  BY DEF LineChars, Line!Getline
<1> QED  BY <1>1, <1>2, PTL DEF Line!Spec

\* The argument vectors are sequences of words; there is always a command to start,
\* also for a line without a word (Pipeline assumes as much of N), and a line of
\* n characters makes at most (n + 3) / 2 of them, however the bars stand.
THEOREM LineTypeCorrect == MaxLine \in Nat => (Line!Spec => []Line!TypeOK)
<1> SUFFICES ASSUME MaxLine \in Nat  PROVE Line!Spec => []Line!TypeOK
  OBVIOUS
<1>1. LineChars => Line!TypeOK
  BY LineTyped DEF LineChars, Line!TypeOK
<1> QED  BY LineStep, <1>1, PTL

\* For every line: joined by bars, the commands of parse() are the words of the
\* line, so that split() and parse() lose no word and move none to another command.
THEOREM CommandsCorrect == Line!Spec => []CommandsAreTheLine
<1>1. LineChars => CommandsAreTheLine
  BY LineJoins DEF LineChars
<1> QED  BY LineStep, <1>1, PTL

\* For every line: to_c_str() gives execvp() a null name for as many commands as
\* the line has gaps, before its first bar, after its last one or between two.
THEOREM GapsCorrect == Line!Spec => []NullNameIsGap
<1>1. LineChars => NullNameIsGap
  BY LineGaps DEF LineChars
<1> QED  BY LineStep, <1>1, PTL
=============================================================================
