---------------------------- MODULE CommandLine ----------------------------
(***************************************************************************)
(* "process, channel, signal/pipes !!!/task2.cpp", lines 12 to 69: how the *)
(* line of the terminal becomes the argument vectors of the commands that  *)
(* Pipeline starts.  split() cuts the line into words at the spaces,       *)
(* parse() groups the words into commands at the words that are exactly    *)
(* one bar, and to_c_str() ends each command with a null pointer.          *)
(*                                                                         *)
(* A character is a space, a bar or a letter; a word is a sequence of      *)
(* characters, a command a sequence of words.  The line grows by one       *)
(* character a step, so the runs reach every line up to MaxLine.           *)
(***************************************************************************)
EXTENDS Integers, Sequences, FiniteSets, SequencesExt

CONSTANTS
  Letter,   \* the characters that are neither a space nor a bar
  MaxLine   \* bound: the length of the line

Space == " "
Bar == "|"
Char == Letter \cup {Space, Bar}

VARIABLE s   \* what has been read into s so far

Init == s = <<>>

\* getline(): one more character before the end of the line.
Getline ==
  /\ Len(s) < MaxLine
  /\ \E c \in Char : s' = Append(s, c)

Spec == Init /\ [][Getline]_s

(***************************************************************************)
(* split().                                                                *)
(***************************************************************************)

\* The word collected so far, if there is one, goes to the result.
PushBack(acc) == IF acc.ss = <<>> THEN acc.res ELSE Append(acc.res, acc.ss)

\* One iteration of the loop over the characters.
SplitStep(acc, c) ==
  IF c = Space THEN [res |-> PushBack(acc), ss |-> <<>>]
  ELSE [acc EXCEPT !.ss = Append(@, c)]

\* Mutant: the word at the end of the line is forgotten.
SplitForgetsLast(line) == FoldLeft(SplitStep, [res |-> <<>>, ss |-> <<>>], line).res

Split(line) == PushBack(FoldLeft(SplitStep, [res |-> <<>>, ss |-> <<>>], line))

(***************************************************************************)
(* parse().                                                                *)
(***************************************************************************)

\* Mutants: any word that ends in a bar separates; an empty command is reused
\* for the next one.
ParseStepAnyBar(res, el) ==
  IF el[Len(el)] = Bar THEN Append(res, <<>>)
  ELSE [res EXCEPT ![Len(res)] = Append(@, el)]
ParseStepSkipsEmpty(res, el) ==
  IF el = <<Bar>>
  THEN IF res[Len(res)] = <<>> THEN res ELSE Append(res, <<>>)
  ELSE [res EXCEPT ![Len(res)] = Append(@, el)]

ParseStep(res, el) ==
  IF el = <<Bar>> THEN Append(res, <<>>)
  ELSE [res EXCEPT ![Len(res)] = Append(@, el)]

Parse(line) == FoldLeft(ParseStep, << <<>> >>, Split(line))

(***************************************************************************)
(* to_c_str().                                                             *)
(***************************************************************************)

Null == <<>>   \* nullptr; no word is empty

\* Mutant: leaves empty commands out.
ToCStrOfWords(coms) ==
  LET words == SelectSeq(coms, LAMBDA com : com # <<>>)
  IN  [k \in 1 .. Len(words) |-> Append(words[k], Null)]

ToCStr(coms) == [k \in 1 .. Len(coms) |-> Append(coms[k], Null)]

\* The coms of main().
Coms == ToCStr(Parse(s))

(***************************************************************************)
(* Properties.                                                             *)
(***************************************************************************)

\* The lines, the words and the argument vectors are what the types of the
\* program say; there is always a command to start, also for an empty line, and a
\* line holds at most one more than bars with a space between each two.
TypeOK ==
  /\ s \in Seq(Char) /\ Len(s) <= MaxLine
  /\ Coms \in Seq(Seq(Seq(Char))) /\ Coms # <<>>
  /\ 2 * (Len(Coms) - 1) <= Len(s) + 1

\* The words of the line: the longest runs of characters other than spaces, in
\* the order of the line.
IsWord(l, r) ==
  /\ \A k \in l .. r : s[k] # Space
  /\ l = 1 \/ s[l - 1] = Space
  /\ r = Len(s) \/ s[r + 1] = Space
Bounds == {b \in (1 .. Len(s)) \X (1 .. Len(s)) : b[1] <= b[2] /\ IsWord(b[1], b[2])}
Rank(b) == Cardinality({c \in Bounds : c[1] <= b[1]})
Runs ==
  [j \in 1 .. Cardinality(Bounds) |->
     LET b == CHOOSE c \in Bounds : Rank(c) = j IN SubSeq(s, b[1], b[2])]

\* Nothing of the line is lost or moved to another command: the commands,
\* joined by bars, are the words of the line.
CommandsAreTheLine ==
  FoldLeft(LAMBDA line, com : line \o << <<Bar>> >> \o com, Parse(s)[1], Tail(Parse(s)))
    = Runs

\* execvp() is called with a null name exactly for the gaps of the line: a bar
\* at its start or end, two bars in a row, or no word at all.
Gap(j) == /\ j = 1 \/ Runs[j - 1] = <<Bar>>
          /\ j = Len(Runs) + 1 \/ Runs[j] = <<Bar>>
NullNameIsGap ==
  Cardinality({k \in 1 .. Len(Coms) : Coms[k][1] = Null})
    = Cardinality({j \in 1 .. Len(Runs) + 1 : Gap(j)})
=============================================================================
