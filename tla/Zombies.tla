------------------------------ MODULE Zombies ------------------------------
(***************************************************************************)
(* "process, channel, signal/process_creation/test2.cpp": a parent that    *)
(* saves its pid, waits for its child and then sleeps for ever, and a      *)
(* child that saves its pid and sleeps.  Either may be killed at any time, *)
(* and fork() may fail.  The system, with the process that adopts orphans, *)
(* is external.                                                            *)
(***************************************************************************)
VARIABLES
  parent,   \* "fork", "save", "wait", "sleep" or "dead"
  childp    \* the child: "none", "save", "sleep", "zombie" or "gone"

vars == <<parent, childp>>

Init == parent = "fork" /\ childp = "none"

Fork ==
  /\ parent = "fork"
  /\ parent' = "save"
  /\ childp' \in {"save", "none"}

SavePid == parent = "save" /\ parent' = "wait" /\ UNCHANGED childp

\* Mutant: the parent never waits.
OnlySleeps == parent = "wait" /\ parent' = "sleep" /\ UNCHANGED childp

\* wait() returns with the ended child, or at once without one.
Wait ==
  /\ parent = "wait"
  /\ childp \in {"zombie", "none"}
  /\ parent' = "sleep"
  /\ childp' = IF childp = "zombie" THEN "gone" ELSE childp

ChildSaves == childp = "save" /\ childp' = "sleep" /\ UNCHANGED parent

\* SIGTERM has its default action, line 22 changes nothing.
KillChild ==
  /\ childp \in {"save", "sleep"}
  /\ childp' = "zombie"
  /\ UNCHANGED parent

KillParent ==
  /\ parent \notin {"fork", "dead"}
  /\ parent' = "dead"
  /\ UNCHANGED childp

\* An orphan is waited for by the process that adopts it.
Adopted == parent = "dead" /\ childp = "zombie" /\ childp' = "gone" /\ UNCHANGED parent

Next == Fork \/ SavePid \/ Wait \/ ChildSaves \/ KillChild \/ KillParent \/ Adopted

Spec == Init /\ [][Next]_vars

\* The parent and the system run on; nobody owes a signal.
FairSpec == Spec /\ WF_vars(SavePid \/ Wait) /\ WF_vars(Adopted)

(***************************************************************************)
(* Properties.                                                             *)
(***************************************************************************)

\* A killed child does not stay a zombie (lines 34 to 38), whenever it was
\* killed, before the parent came to wait() too, and if the parent was killed
\* as well.
NoZombie == (childp = "zombie") ~> (childp = "gone")
=============================================================================
