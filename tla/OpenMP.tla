------------------------------- MODULE OpenMP -------------------------------
(***************************************************************************)
(* "parallel programming/open MP/example.cpp", from the sum in line 22 to  *)
(* the atomic increments in line 78: six parallel regions, one after the   *)
(* other, each with the construct it demonstrates.  A team may be smaller  *)
(* than num_threads() asks for.  Printing is one step, and out keeps what  *)
(* a region has printed, with the numbers of the source.                   *)
(*                                                                         *)
(* The runtime is external: static chunks as libgomp makes them, barriers, *)
(* ordered turns, one lock for critical.  An int wraps, as it does in the  *)
(* builds of the makefile.                                                 *)
(***************************************************************************)
EXTENDS Integers, Sequences, FiniteSets, SequencesExt

CONSTANTS
  Sums,     \* the 10^8 iterations of the sum
  Turns,    \* the 10 iterations of the ordered loop
  MaxTeam,  \* the threads of the machine, when num_threads() is not given
  Word      \* 2^32

VARIABLES
  region,   \* the parallel region main() is in
  team,     \* its number of threads
  at,       \* at[t]: where thread t is in it
  iter,     \* iter[t]: its next iteration
  part,     \* part[t]: its private copy of sum
  total,    \* sum of main()
  single,   \* somebody has entered the single construct
  turn,     \* the iteration whose ordered section is next
  holder,   \* the thread in the critical section; -1: none
  jj,       \* j of main()
  crew,     \* the number of threads that were to increment j so far
  out

vars == <<region, team, at, iter, part, total, single, turn, holder, jj, crew, out>>
data == <<part, total, single, turn, holder, jj>>
frame == <<region, team, crew>>

Team == 0 .. team - 1
Start == [sum |-> "work", barrier |-> "one", single |-> "one", ordered |-> "work",
          critical |-> "enter", atomic |-> "inc", end |-> "done"]
After == [sum |-> "barrier", barrier |-> "single", single |-> "ordered",
          ordered |-> "critical", critical |-> "atomic", atomic |-> "end"]
Asked == [sum |-> 4, barrier |-> 3, single |-> 3, ordered |-> 4, critical |-> 3,
          atomic |-> MaxTeam, end |-> 1]

\* The first iteration of thread t of n, of a loop of all iterations.
Min2(a, b) == IF a < b THEN a ELSE b
Chunk(t, n, all) == t * (all \div n) + Min2(t, all % n)
Finished(t, all) == iter[t] = Chunk(t + 1, team, all)

\* A team of n threads starts region r.
Enter(r, n) ==
  /\ region' = r /\ team' = n
  /\ at' = [t \in 0 .. n - 1 |-> Start[r]]
  /\ iter' = [t \in 0 .. n - 1 |-> Chunk(t, n, IF r = "sum" THEN Sums ELSE Turns)]
  /\ part' = [t \in 0 .. n - 1 |-> 0]
  /\ crew' = crew + (IF r \in {"critical", "atomic"} THEN n ELSE 0)
  /\ out' = <<>>

Init ==
  /\ region = "sum" /\ team \in 1 .. Asked["sum"]
  /\ at = [t \in Team |-> "work"]
  /\ iter = [t \in Team |-> Chunk(t, team, Sums)]
  /\ part = [t \in Team |-> 0]
  /\ total = 0 /\ single = FALSE /\ turn = 0 /\ holder = -1 /\ jj = 0 /\ crew = 0
  /\ out = <<>>

\* The barrier at the end of a region.
NextRegion ==
  /\ region # "end" /\ \A t \in Team : at[t] = "done"
  /\ \E n \in 1 .. Asked[After[region]] : Enter(After[region], n)
  /\ UNCHANGED <<total, single, turn, holder, jj>>

Go(t, place) == at' = [at EXCEPT ![t] = place]
Say(x) == out' = Append(out, x)

\* sum += i, on the copy of the thread, and the reduction of the copies.
Add(t) ==
  /\ region = "sum" /\ at[t] = "work" /\ ~Finished(t, Sums)
  /\ part' = [part EXCEPT ![t] = (@ + iter[t]) % Word]
  /\ iter' = [iter EXCEPT ![t] = @ + 1]
  /\ UNCHANGED <<frame, at, total, single, turn, holder, jj, out>>

\* Mutant: the last copy is the sum.
LastPart(t) == part[t]
Reduced(t) == (total + part[t]) % Word

Reduce(t) ==
  /\ region = "sum" /\ at[t] = "work" /\ Finished(t, Sums)
  /\ total' = Reduced(t)
  /\ Go(t, "done")
  /\ UNCHANGED <<frame, iter, part, single, turn, holder, jj, out>>

\* Prints and goes on, in the barrier region and in the single region.
PrintOne(t) ==
  /\ at[t] = "one" /\ Say(1)
  /\ Go(t, IF region = "barrier" THEN "three" ELSE "single")
  /\ UNCHANGED <<frame, iter, data>>
PrintThree(t) ==
  /\ at[t] = "three" /\ Say(3)
  /\ Go(t, IF region = "barrier" THEN "barrier" ELSE "done")
  /\ UNCHANGED <<frame, iter, data>>

\* Mutant: the barrier is left out.
NoBarrier(t) == TRUE
Passes(t) == \A u \in Team : at[u] \in {"barrier", "two", "done"}

Barrier(t) ==
  /\ at[t] = "barrier" /\ Passes(t)
  /\ Go(t, "two")
  /\ UNCHANGED <<frame, iter, data, out>>
PrintTwo(t) ==
  /\ at[t] = "two" /\ Say(2)
  /\ Go(t, IF region = "barrier" THEN "done" ELSE "master")
  /\ UNCHANGED <<frame, iter, data>>

\* single nowait: the first to come, the others go on at once.
Single(t) ==
  /\ at[t] = "single"
  /\ single' = TRUE
  /\ Go(t, IF single THEN "master" ELSE "two")
  /\ UNCHANGED <<frame, iter, part, total, turn, holder, jj, out>>
Master(t) ==
  /\ at[t] = "master"
  /\ IF t = 0 THEN Say(4) ELSE UNCHANGED out
  /\ Go(t, "three")
  /\ UNCHANGED <<frame, iter, data>>

\* The ordered loop: "cycle1!", and the ordered section when its turn has come.
Cycle1(t) ==
  /\ region = "ordered" /\ at[t] = "work"
  /\ Go(t, IF Finished(t, Turns) THEN "done" ELSE "ordered")
  /\ UNCHANGED <<frame, iter, data, out>>
Cycle2(t) ==
  /\ at[t] = "ordered" /\ turn = iter[t]
  /\ Say(iter[t])
  /\ turn' = turn + 1
  /\ iter' = [iter EXCEPT ![t] = @ + 1]
  /\ Go(t, "work")
  /\ UNCHANGED <<frame, part, total, single, holder, jj>>

Critical(t) ==
  /\ at[t] = "enter" /\ holder = -1
  /\ holder' = t
  /\ Go(t, "inc")
  /\ UNCHANGED <<frame, iter, part, total, single, turn, jj, out>>
Increment(t) ==
  /\ at[t] = "inc"
  /\ jj' = jj + 1
  /\ Go(t, IF region = "critical" THEN "leave" ELSE "done")
  /\ UNCHANGED <<frame, iter, part, total, single, turn, holder, out>>
Leave(t) ==
  /\ at[t] = "leave" /\ Say(jj)
  /\ holder' = -1
  /\ Go(t, "done")
  /\ UNCHANGED <<frame, iter, part, total, single, turn, jj>>

Step(t) ==
  \/ Add(t) \/ Reduce(t)
  \/ PrintOne(t) \/ PrintThree(t) \/ Barrier(t) \/ PrintTwo(t) \/ Single(t) \/ Master(t)
  \/ Cycle1(t) \/ Cycle2(t)
  \/ Critical(t) \/ Increment(t) \/ Leave(t)

Next == NextRegion \/ \E t \in Team : Step(t)

Spec == Init /\ [][Next]_vars

(***************************************************************************)
(* Properties.                                                             *)
(***************************************************************************)

\* However the team was cut and the threads ran, the sum is that of the
\* sequential loop, and j counts the threads of its two regions.
ResultsAreSequential ==
  /\ region # "sum" => total = FoldLeft(LAMBDA s, k : (s + k - 1) % Word, 0, [k \in 1 .. Sums |-> k])
  /\ region = "end" => jj = crew

Count(x) == Cardinality({k \in 1 .. Len(out) : out[k] = x})

\* What a region has printed when all its threads are done, in every
\* interleaving: every 2 after every 1 and 3 of the barrier region; one line
\* of single and one of master; the ordered lines in the order of the loop;
\* the counts of the critical section without a gap or a repetition.
OutputInOrder ==
  (\A t \in Team : at[t] = "done") =>
    CASE region = "barrier" -> \A k, l \in 1 .. Len(out) : k < l /\ out[k] = 2 => out[l] = 2
      [] region = "single" -> Count(2) = 1 /\ Count(4) = 1 /\ Count(1) = team /\ Count(3) = team
      [] region = "ordered" -> out = [k \in 1 .. Turns |-> k - 1]
      [] region = "critical" -> out = [k \in 1 .. team |-> k]
      [] OTHER -> out = <<>>

(***************************************************************************)
(* The inductive invariant of the proofs, one part for every region.       *)
(***************************************************************************)

Places == [sum |-> {"work", "done"},
           barrier |-> {"one", "three", "barrier", "two", "done"},
           single |-> {"one", "single", "two", "master", "three", "done"},
           ordered |-> {"work", "ordered", "done"},
           critical |-> {"enter", "inc", "leave", "done"},
           atomic |-> {"inc", "done"},
           end |-> {"done"}]

TypeOK ==
  /\ region \in {"sum", "barrier", "single", "ordered", "critical", "atomic", "end"}
  /\ team \in Nat \ {0}
  /\ at \in [Team -> Places[region]]
  /\ iter \in [Team -> Nat]
  /\ single \in BOOLEAN /\ turn \in Nat /\ holder \in Team \cup {-1}
  /\ jj \in Nat /\ crew \in Nat /\ out \in Seq(Nat)

\* How many threads are at one of the places.
Num(S) == Cardinality({t \in Team : at[t] \in S})

\* What a region leaves alone still has its first value.
NotYet ==
  /\ region \in {"sum", "barrier"} => ~single
  /\ region \in {"sum", "barrier", "single"} => turn = 0
  /\ region \in {"sum", "barrier", "single", "ordered"} => jj = 0 /\ crew = 0
  /\ region # "critical" => holder = -1
  /\ region \in {"sum", "atomic", "end"} => out = <<>>

\* Nobody is before the barrier when somebody is behind it.
BarrierOK ==
  region = "barrier" =>
    /\ \A t, u \in Team : at[t] \in {"two", "done"} => at[u] \in {"barrier", "two", "done"}
    /\ \A k \in 1 .. Len(out) :
         out[k] = 2 => /\ \A u \in Team : at[u] \in {"barrier", "two", "done"}
                       /\ \A l \in k .. Len(out) : out[l] = 2

\* Somebody is about to print the line of single or has done it.
SingleOK ==
  region = "single" =>
    /\ ~single => \A t \in Team : at[t] \in {"one", "single"}
    /\ Num({"two"}) + Count(2) = IF single THEN 1 ELSE 0
    /\ Count(4) = IF at[0] \in {"three", "done"} THEN 1 ELSE 0
    /\ Num({"one"}) + Count(1) = team
    /\ Count(3) = Num({"done"})

\* Every thread is at the turn, or still at the first of its iterations, or
\* already behind the last.
OrderedOK ==
  region = "ordered" =>
    /\ turn <= Turns /\ out = [k \in 1 .. turn |-> k - 1]
    /\ \A t \in Team :
         LET first == Chunk(t, team, Turns)
             next == Chunk(t + 1, team, Turns)
         IN  /\ iter[t] = IF turn < first THEN first ELSE IF turn > next THEN next ELSE turn
             /\ at[t] = "ordered" => iter[t] # next
             /\ at[t] = "done" => iter[t] = next

\* The lock is held by who is inside, and j counts those who have been.
CriticalOK ==
  region = "critical" =>
    /\ \A t \in Team : holder = t <=> at[t] \in {"inc", "leave"}
    /\ jj = Num({"leave", "done"}) /\ crew = team
    /\ out = [k \in 1 .. Num({"done"}) |-> k]

CountsOK ==
  /\ region = "atomic" => jj + team = crew + Num({"done"})
  /\ region = "end" => jj = crew

\* The sum of the numbers below n, and what a thread that is done has added to
\* the sum of main(): the numbers of its chunk.
Below(n) == (n * (n - 1)) \div 2
Added(t) ==
  IF t \in Team /\ at[t] = "done"
  THEN Below(Chunk(t + 1, team, Sums)) - Below(Chunk(t, team, Sums)) ELSE 0

\* A thread has summed the chunk it was given up to its next iteration, and
\* total is what the threads that are done have added.  num_threads(4).
SumOK ==
  /\ region = "sum" =>
       /\ team <= 4 /\ part \in [Team -> Int]
       /\ \A t \in Team :
            /\ iter[t] \in Chunk(t, team, Sums) .. Chunk(t + 1, team, Sums)
            /\ at[t] = "done" => Finished(t, Sums)
            /\ part[t] = (Below(iter[t]) - Below(Chunk(t, team, Sums))) % Word
       /\ total = (Added(0) + Added(1) + Added(2) + Added(3)) % Word
  /\ region # "sum" => total = Below(Sums) % Word

IInv == TypeOK /\ NotYet /\ BarrierOK /\ SingleOK /\ OrderedOK /\ CriticalOK /\ CountsOK
=============================================================================
