------------------------------ MODULE Signals ------------------------------
(***************************************************************************)
(* "process, channel, signal/process_creation/test.cpp": the process saves *)
(* its pid for others to read, and then ignores SIGTERM and SIGINT.        *)
(* Whoever has read the pid may send either at any time.                   *)
(***************************************************************************)
VARIABLES
  at,       \* "save", "term", "int" (before these calls), "sleep" or "killed"
  pidSaved, \* the pid is in /home/box/pid
  ignored   \* the signals that are ignored

vars == <<at, pidSaved, ignored>>

Init == at = "save" /\ pidSaved = FALSE /\ ignored = {}

SavePid == at = "save" /\ at' = "term" /\ pidSaved' = TRUE /\ UNCHANGED ignored
IgnoreTerm == at = "term" /\ at' = "int" /\ ignored' = ignored \cup {"SIGTERM"} /\ UNCHANGED pidSaved
IgnoreInt == at = "int" /\ at' = "sleep" /\ ignored' = ignored \cup {"SIGINT"} /\ UNCHANGED pidSaved

Signalled ==
  /\ pidSaved /\ at # "killed"
  /\ \E sig \in {"SIGTERM", "SIGINT"} : at' = IF sig \in ignored THEN at ELSE "killed"
  /\ UNCHANGED <<pidSaved, ignored>>

Next == SavePid \/ IgnoreTerm \/ IgnoreInt \/ Signalled

Spec == Init /\ [][Next]_vars

\* "A process (save its PID in /home/box/pid) that withstands the signals
\* SIGTERM and SIGINT" (line 20): neither ends a process whose pid is known.
Unkillable == pidSaved => at # "killed"
=============================================================================
