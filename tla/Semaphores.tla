----------------------------- MODULE Semaphores -----------------------------
(***************************************************************************)
(* "mqueue, semaphore, shared memory/semaphore/task1.cpp": a run gets the  *)
(* set of 16 semaphores of a key, removes it, gets it again, and adds i to *)
(* semaphore i for all of them in one semop().  No result is checked: what *)
(* fails is printed, and the run goes on with the id it has, or with -1.   *)
(* Runs of the program may overlap, may be those of two users, and may be  *)
(* killed between any two calls.  A set with the same key may have been    *)
(* left by somebody else, who does not touch it while the runs go on.      *)
(*                                                                         *)
(* The kernel is external.  A set is a number, never used again.  All 16   *)
(* values of a set change together: sum[id] is how often i was added to    *)
(* semaphore i.  In the set that is found, it is how near the fullest of   *)
(* its semaphores is to the largest value.  Semaphore 0 of a set made by   *)
(* the program stays 0; in the set that is found it need not be 0, and     *)
(* adding 0 waits until it is.                                             *)
(***************************************************************************)
EXTENDS Integers, FiniteSets

CONSTANTS
  Run,      \* the runs of the program
  Guest,    \* those that another user than the first has started
  NoRun,
  MaxSum    \* how often semop() can add 15: SEMVMX / 15, 2184 times

VARIABLES
  sets,     \* the number of sets ever made
  keyed,    \* the set the key refers to; 0: none
  sum,      \* sum[id]: see above
  owner,    \* owner[id]: who made the set
  refuses,  \* the users for whom semget() of the set found, 1, fails
  waits,    \* semaphore 0 of the set found is not 0
  step,     \* step[r]: the next call of run r
  semid,    \* semid[r]: what semget() returned
  newest,   \* the run started last
  alone     \* no other run was going on while the newest was

vars == <<sets, keyed, sum, owner, refuses, waits, step, semid, newest, alone>>

SetId == 1 .. 1 + 2 * Cardinality(Run)   \* no run makes more than two

User(r) == IF r \in Guest THEN "guest" ELSE "host"

\* The set found has fewer than 16 semaphores (EINVAL), or is not for this user (EACCES).
Refused(r) == keyed = 1 /\ User(r) \in refuses

\* Before the first run, a set may have been left by anybody.
Init ==
  /\ sets = 1
  /\ keyed \in {0, 1}
  /\ \E n \in 0 .. MaxSum, u \in {"host", "guest", "other"} :
       /\ sum = [id \in SetId |-> IF id = 1 THEN n ELSE 0]
       /\ owner = [id \in SetId |-> u]
  /\ refuses \in SUBSET {"host", "guest"}
  /\ waits \in BOOLEAN
  /\ step = [r \in Run |-> "start"]
  /\ semid = [r \in Run |-> 0]
  /\ newest = NoRun /\ alone = TRUE

Active == {r \in Run : step[r] \notin {"start", "done", "killed"}}

Start(r) ==
  /\ step[r] = "start"
  /\ step' = [step EXCEPT ![r] = "get"]
  /\ newest' = r
  /\ alone' = (Active = {})
  /\ UNCHANGED <<sets, keyed, sum, owner, refuses, waits, semid>>

\* The kernel has no room for one more set (ENOSPC), or makes it.
NewSet(r, id) ==
  \/ id = -1 /\ UNCHANGED <<sets, keyed, owner>>
  \/ /\ id = sets + 1
     /\ sets' = id /\ keyed' = id
     /\ owner' = [owner EXCEPT ![id] = User(r)]

\* semget(key, 16, IPC_CREAT | 0777)
Semget(r, next) ==
  /\ \E id \in {-1, keyed, sets + 1} :
       /\ \/ keyed = 0 /\ NewSet(r, id)
          \/ keyed # 0 /\ id = (IF Refused(r) THEN -1 ELSE keyed) /\ UNCHANGED <<sets, keyed, owner>>
       /\ semid' = [semid EXCEPT ![r] = id]
  /\ step' = [step EXCEPT ![r] = next]
  /\ UNCHANGED <<sum, refuses, waits, newest, alone>>

GetOld(r) == step[r] = "get" /\ Semget(r, "rm")

\* Mutant: the set is used as it is found.
KeepSet(r) ==
  /\ step[r] = "rm"
  /\ step' = [step EXCEPT ![r] = "getnew"]
  /\ UNCHANGED <<sets, keyed, sum, owner, refuses, waits, semid, newest, alone>>

\* semctl(IPC_RMID) fails for a set that is gone or that another user made.
Remove(r) ==
  /\ step[r] = "rm"
  /\ keyed' = IF keyed = semid[r] /\ keyed # 0 /\ owner[keyed] = User(r) THEN 0 ELSE keyed
  /\ step' = [step EXCEPT ![r] = "getnew"]
  /\ UNCHANGED <<sets, sum, owner, refuses, waits, semid, newest, alone>>

GetNew(r) == step[r] = "getnew" /\ Semget(r, "op")

\* semop() waits for semaphore 0 of the set found; it fails without a set, when
\* another run has removed it, and when a semaphore would be too large.
Semop(r) ==
  /\ step[r] = "op"
  /\ ~(keyed = 1 /\ semid[r] = 1 /\ waits)
  /\ sum' = IF keyed = semid[r] /\ keyed # 0 /\ sum[keyed] < MaxSum
            THEN [sum EXCEPT ![keyed] = @ + 1] ELSE sum
  /\ step' = [step EXCEPT ![r] = "done"]
  /\ UNCHANGED <<sets, keyed, owner, refuses, waits, semid, newest, alone>>

Kill(r) ==
  /\ r \in Active
  /\ step' = [step EXCEPT ![r] = "killed"]
  /\ UNCHANGED <<sets, keyed, sum, owner, refuses, waits, semid, newest, alone>>

Next == \E r \in Run : Start(r) \/ GetOld(r) \/ Remove(r) \/ GetNew(r) \/ Semop(r) \/ Kill(r)

Spec == Init /\ [][Next]_vars

(***************************************************************************)
(* Properties.                                                             *)
(***************************************************************************)

\* What a run that no other one overlapped leaves behind, whatever earlier runs,
\* overlapping or killed in the middle, or somebody else left.  A set of its own
\* user holds every semaphore's number, once.  Only when another user's set was in
\* the way does the run end with that set, to whose values it may have added; and
\* only when it could not get a set at all does it end without one.
AloneIsRight ==
  newest # NoRun /\ alone /\ step[newest] = "done" =>
    IF semid[newest] = -1
    THEN keyed = 0 \/ Refused(newest)
    ELSE /\ keyed # 0 /\ keyed = semid[newest]
         /\ owner[keyed] = User(newest) => sum[keyed] = 1
=============================================================================
