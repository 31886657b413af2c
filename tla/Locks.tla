------------------------------- MODULE Locks -------------------------------
(***************************************************************************)
(* "threads, syncromization/mutex/task1.cpp": main() creates four threads, *)
(* each creates a helper, and both of a pair take a lock.  A helper that   *)
(* gets it loops for ever, a creator that gets it joins its helper, so     *)
(* whoever comes second waits.  The helper of funcWrite is funcMSpin2      *)
(* (line 94): it takes the spin lock.                                      *)
(*                                                                         *)
(* Assumed of the build: while(true); is kept as a loop.                   *)
(***************************************************************************)
CONSTANTS Mutex, Spin, ReadLock, WriteLock   \* mx, mspin, mread, mwrite

Pair == {Mutex, Spin, ReadLock, WriteLock}

\* A thread is <<pair, role>>.
Thread == Pair \X {"creator", "helper"}

\* Mutants: the helper that was meant; a reader that waits.
HelperOfItsOwn(t) == t[1]
Exclusive(l) == TRUE

\* The lock a thread takes.
LockOf(t) == IF t = <<WriteLock, "helper">> THEN Spin ELSE t[1]

\* Only the read lock is taken by more than one thread.
HeldAlone(l) == l # ReadLock

VARIABLES
  thread,   \* thread[t]: "none", "start", "lock" (in the call), "holds"
  holders   \* holders[l]: the threads that have lock l

vars == <<thread, holders>>

Init ==
  /\ thread = [t \in Thread |-> "none"]
  /\ holders = [l \in Pair |-> {}]

\* pthread_create() by main(), in the order of the pairs or not.
CreateCreator(p) ==
  /\ thread[<<p, "creator">>] = "none"
  /\ thread' = [thread EXCEPT ![<<p, "creator">>] = "start"]
  /\ UNCHANGED holders

CreateHelper(p) ==
  /\ thread[<<p, "creator">>] = "start"
  /\ thread' = [thread EXCEPT ![<<p, "creator">>] = "lock", ![<<p, "helper">>] = "lock"]
  /\ UNCHANGED holders

Lock(t) ==
  /\ thread[t] = "lock"
  /\ HeldAlone(LockOf(t)) => holders[LockOf(t)] = {}
  /\ thread' = [thread EXCEPT ![t] = "holds"]
  /\ holders' = [holders EXCEPT ![LockOf(t)] = @ \cup {t}]

Next ==
  \/ \E p \in Pair : CreateCreator(p) \/ CreateHelper(p)
  \/ \E t \in Thread : Lock(t)

Spec == Init /\ [][Next]_vars

\* Threads run, and a lock that is free is given to a waiting thread.
FairSpec == Spec /\ WF_vars(Next)

(***************************************************************************)
(* Properties.                                                             *)
(***************************************************************************)

WaitingFor(l) == {t \in Thread : thread[t] = "lock" /\ LockOf(t) = l /\ holders[l] # {}}

\* What "the threads wait" comes to in the end, for good and in every
\* interleaving: one at the mutex, two at the spin lock, and none of the four
\* at a read-write lock, for the pair of readers shares its lock and the
\* writer has nobody to wait for.
EndsWithThreeWaiting ==
  <>[](/\ \E t \in Thread : WaitingFor(Mutex) = {t}
       /\ \E t, u \in Thread : t # u /\ WaitingFor(Spin) = {t, u}
       /\ \A t \in Thread : thread[t] = "holds" \/ t \in WaitingFor(Mutex) \cup WaitingFor(Spin))

\* "Two threads that wait for an RW lock (one to read, the other to write)"
\* (line 11) come to be.
ReaderAndWriterWait == <>(WaitingFor(ReadLock) # {} /\ WaitingFor(WriteLock) # {})
=============================================================================
