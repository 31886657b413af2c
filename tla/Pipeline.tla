------------------------------ MODULE Pipeline ------------------------------
(***************************************************************************)
(* "process, channel, signal/pipes !!!/task2.cpp", main(): the commands of *)
(* one line, each with its output in a pipe that is the input of the next  *)
(* command started.  The loop goes over the commands from the last to the  *)
(* first: the last one reads the terminal, command k reads what command    *)
(* k + 1 wrote, and the first one writes result.out.  The parent waits for *)
(* a command before it starts the one that reads its output.               *)
(*                                                                         *)
(* Command k is coms[k - 1].  The programs that are executed are external: *)
(* they read and write what they like, a byte at a time, and end when they *)
(* have written what they wanted to.  A program that cannot be executed,   *)
(* an empty command among them, ends without output.                       *)
(***************************************************************************)
EXTENDS Integers

CONSTANTS
  N,       \* the number of commands, coms.size()
  Cap,     \* the capacity of a pipe
  MaxOut   \* bound: the number of bytes one command writes

ASSUME PipelineAssumption ==
  N \in Nat \ {0} /\ Cap \in Nat \ {0} /\ MaxOut \in Nat

Command == 1 .. N

VARIABLES
  pc,      \* the parent: "fork", "wait" or "returned"
  i,       \* the command of the current iteration; 0 after the loop
  prevIN,  \* the pipe (named by its writer) of the last iteration; 0: stdin
  proc,    \* proc[k]: the child of command k
  stdin,   \* stdin[k]: the pipe that is its standard input; 0: the terminal
  left,    \* left[k]: bytes it still wants to write
  pipe,    \* pipe[k]: bytes in the pipe that is its standard output
  result   \* bytes in result.out; -1: as it was before

parent == <<pc, i, prevIN>>
vars == <<pc, i, prevIN, proc, stdin, left, pipe, result>>

TypeOK ==
  /\ pc \in {"fork", "wait", "returned"}
  /\ i \in 0 .. N
  /\ prevIN \in 0 .. N
  /\ proc \in [Command -> {"none", "forked", "running", "done"}]
  /\ stdin \in [Command -> 0 .. N]
  /\ left \in [Command -> 0 .. MaxOut]
  /\ pipe \in [Command -> 0 .. Cap]
  /\ result \in -1 .. MaxOut

Init ==
  /\ pc = "fork"
  /\ i = N
  /\ prevIN = 0
  /\ proc = [k \in Command |-> "none"]
  /\ stdin = [k \in Command |-> 0]
  /\ left = [k \in Command |-> 0]
  /\ pipe = [k \in Command |-> 0]
  /\ result = -1

(***************************************************************************)
(* The parent.                                                             *)
(***************************************************************************)

\* The end of an iteration: the pipe just made is the next one's input.
NextIteration ==
  /\ prevIN' = i
  /\ i' = i - 1
  /\ pc' = IF i = 1 THEN "returned" ELSE "fork"

Fork ==
  /\ pc = "fork"
  /\ proc' = [proc EXCEPT ![i] = "forked"]
  /\ stdin' = [stdin EXCEPT ![i] = IF i = N THEN 0 ELSE prevIN]
  /\ pc' = "wait"
  /\ UNCHANGED <<i, prevIN, left, pipe, result>>

\* Mutant: waits for a child that does not exist.
WaitForNobody ==
  /\ pc = "fork"
  /\ pc' = "wait"
  /\ UNCHANGED <<i, prevIN, proc, stdin, left, pipe, result>>

\* fork() returned -1, which is not 0: the parent's branch, where wait() has
\* no child to wait for.
ForkFails ==
  /\ pc = "fork"
  /\ NextIteration
  /\ UNCHANGED <<proc, stdin, left, pipe, result>>

\* Mutants: does not wait; keeps the first pipe as the input of all others.
NoWait ==
  /\ pc = "wait"
  /\ NextIteration
  /\ UNCHANGED <<proc, stdin, left, pipe, result>>
NextKeepsInput ==
  /\ prevIN' = IF prevIN = 0 THEN i ELSE prevIN
  /\ i' = i - 1
  /\ pc' = IF i = 1 THEN "returned" ELSE "fork"
WaitKeepsInput ==
  /\ pc = "wait" /\ proc[i] = "done"
  /\ NextKeepsInput
  /\ UNCHANGED <<proc, stdin, left, pipe, result>>

Wait ==
  /\ pc = "wait" /\ proc[i] = "done"
  /\ NextIteration
  /\ UNCHANGED <<proc, stdin, left, pipe, result>>

Parent == Fork \/ ForkFails \/ Wait

(***************************************************************************)
(* The children.                                                           *)
(***************************************************************************)

\* The first command truncates result.out before it is executed.
OpenResult(k) == result' = IF k = 1 THEN 0 ELSE result

Exec(k) ==
  /\ proc[k] = "forked"
  /\ proc' = [proc EXCEPT ![k] = "running"]
  /\ \E n \in 0 .. MaxOut : left' = [left EXCEPT ![k] = n]
  /\ OpenResult(k)
  /\ UNCHANGED <<parent, stdin, pipe>>

ExecFails(k) ==
  /\ proc[k] = "forked"
  /\ proc' = [proc EXCEPT ![k] = "done"]
  /\ OpenResult(k)
  /\ UNCHANGED <<parent, stdin, left, pipe>>

Read(k) ==
  /\ proc[k] = "running"
  /\ stdin[k] > 0 /\ pipe[stdin[k]] > 0
  /\ pipe' = [pipe EXCEPT ![stdin[k]] = @ - 1]
  /\ UNCHANGED <<parent, proc, stdin, left, result>>

Write(k) ==
  /\ proc[k] = "running" /\ left[k] > 0
  /\ left' = [left EXCEPT ![k] = @ - 1]
  /\ IF k = 1
     THEN result' = result + 1 /\ UNCHANGED pipe
     ELSE /\ pipe[k] < Cap
          /\ pipe' = [pipe EXCEPT ![k] = @ + 1]
          /\ UNCHANGED result
  /\ UNCHANGED <<parent, proc, stdin>>

Exit(k) ==
  /\ proc[k] = "running" /\ left[k] = 0
  /\ proc' = [proc EXCEPT ![k] = "done"]
  /\ UNCHANGED <<parent, stdin, left, pipe, result>>

Child(k) == Exec(k) \/ ExecFails(k) \/ Read(k) \/ Write(k) \/ Exit(k)

\* The program has returned from main().
Returned == pc = "returned" /\ UNCHANGED vars

Next == Parent \/ (\E k \in Command : Child(k)) \/ Returned

Spec == Init /\ [][Next]_vars

\* The parent and every program run until they block; a program with output
\* left goes on writing it, and one without ends.
FairSpec ==
  /\ Spec
  /\ WF_vars(Parent)
  /\ \A k \in Command : WF_vars(Exec(k) \/ ExecFails(k)) /\ WF_vars(Write(k) \/ Exit(k))

(***************************************************************************)
(* Properties.                                                             *)
(***************************************************************************)

\* A command is started only when those to the right of it have ended or could
\* not be started: so the input of every program is complete before it runs,
\* and no program ever waits for another one.
RightToLeft ==
  \A k, m \in Command :
    k < m /\ proc[k] # "none" => proc[m] \in {"none", "done"}

\* Every command but the last reads the output of its right neighbour, also
\* when that neighbour, or any other, could not be started.
InputIsNeighbour ==
  \A k \in Command :
    proc[k] # "none" => stdin[k] = IF k = N THEN 0 ELSE k + 1

\* The inductive invariant: where the parent stands decides which commands may
\* be running and which pipe is the next one's input.
PositionOK ==
  /\ pc = "returned" <=> i = 0
  /\ pc = "wait" => proc[i] # "none"
  /\ prevIN = IF i = N THEN 0 ELSE i + 1
  /\ \A k \in Command :
       /\ k < i \/ (k = i /\ pc = "fork") => proc[k] = "none"
       /\ k > i => proc[k] \in {"none", "done"}
ResultOK ==
  /\ proc[1] \in {"none", "forked"} => left[1] = 0
  /\ proc[1] \in {"running", "done"} => result >= 0 /\ result + left[1] <= MaxOut
IInv == TypeOK /\ PositionOK /\ InputIsNeighbour /\ ResultOK

\* A command whose output does not fit into the pipe.
Full(k) == proc[k] = "running" /\ left[k] > 0 /\ k # 1 /\ pipe[k] = Cap

\* Such a command never goes on: its reader would be started only after it.
FullForEver == [][\A k \in Command : Full(k) => Full(k)']_vars

\* The parent comes to its end, or a command is blocked for ever.
ReturnsOrFull == <>(pc = "returned" \/ \E k \in Command : Full(k))
=============================================================================
