----------------------------- MODULE Derivative -----------------------------
(***************************************************************************)
(* "containers, pointer, allocators/derivative/main.cpp": derivative()     *)
(* reads a polynomial from left to right, a coefficient and a power in     *)
(* each iteration of its loop, and adds up the coefficients of equal       *)
(* powers.  The polynomial is any sum of a few terms as its syntax has it: *)
(* 5, 2*x, x, 2*x^3, x^3, with either sign; how a number is spelled, and   *)
(* how the result is printed, is left out.                                 *)
(***************************************************************************)
EXTENDS Integers, Sequences, SequencesExt

CONSTANTS
  Numbers,   \* bound: the coefficients that are written out, 0 among them
  Powers,    \* bound: the powers that are written out, 0 among them
  MaxTerms   \* bound: the terms of the polynomial

VARIABLES
  terms,     \* the polynomial
  k,         \* i, counted from 1 in tokens
  p          \* p of derivative(): the sum of the coefficients of each power

\* coef is -1 and power is -1 when no number is written.
Term == [sign : {1, -1}, coef : Numbers, shape : {"const"}, power : {-1}]
        \cup [sign : {1, -1}, coef : Numbers \cup {-1}, shape : {"x"}, power : {-1} \cup Powers]

\* The characters of the text; a number of any length is one token.
X == -1
Hat == -2
Star == -3
Plus == -4
Minus == -5

Text ==
  FoldLeft(LAMBDA text, t :
             text \o (IF t.sign = -1 THEN <<Minus>> ELSE IF text = <<>> THEN <<>> ELSE <<Plus>>)
                  \o (IF t.coef = -1 THEN <<>> ELSE <<t.coef>>)
                  \o (IF t.coef # -1 /\ t.shape = "x" THEN <<Star>> ELSE <<>>)
                  \o (IF t.shape = "x" THEN <<X>> ELSE <<>>)
                  \o (IF t.power # -1 THEN <<Hat, t.power>> ELSE <<>>),
           <<>>, terms)

Is(j, token) == j <= Len(Text) /\ Text[j] = token
IsNumber(j) == j <= Len(Text) /\ Text[j] >= 0

Init ==
  /\ \E n \in 1 .. MaxTerms : terms \in [1 .. n -> Term]
  /\ k = 1
  /\ p = [b \in {} |-> 0]

\* get_num(): a sign, digits, and a '+' behind them, any of which may be
\* absent; a number that is 0 or absent is 1.
GetNum(j) ==
  LET digits == IF Is(j, Minus) THEN j + 1 ELSE j
      end == IF IsNumber(digits) THEN digits + 1 ELSE digits
      mod == IF IsNumber(digits) /\ Text[digits] # 0 THEN Text[digits] ELSE 1
  IN  [num |-> IF Is(j, Minus) THEN -mod ELSE mod,
       i |-> IF Is(end, Plus) THEN end + 1 ELSE end]

\* What follows a coefficient: nothing of interest, or "*x" or "x", alone or
\* with a power.
GetPower(j) ==
  LET x == IF Is(j, Star) THEN j + 2 ELSE j + 1
  IN  IF ~Is(j, Star) /\ ~Is(j, X) THEN [num |-> 0, i |-> j]
      ELSE IF Is(x, Hat) THEN GetNum(x + 1)
      ELSE [num |-> 1, i |-> x]

\* Mutant: an equal power is forgotten.
Replaced(b, a) == a
Summed(b, a) == IF b \in DOMAIN p THEN p[b] + a ELSE a

Iteration ==
  /\ k <= Len(Text)
  /\ LET a == GetNum(k)
         b == GetPower(a.i)
     IN  /\ k' = b.i
         /\ p' = [c \in DOMAIN p \cup {b.num} |->
                    IF c = b.num THEN Summed(b.num, a.num) ELSE p[c]]
  /\ UNCHANGED terms

Spec == Init /\ [][Iteration]_<<terms, k, p>>

(***************************************************************************)
(* Properties.                                                             *)
(***************************************************************************)

\* The coefficient and the power that a term means.
CoefOf(t) == t.sign * (IF t.coef = -1 THEN 1 ELSE t.coef)
PowerOf(t) == IF t.shape = "const" THEN 0 ELSE IF t.power = -1 THEN 1 ELSE t.power

Meant(b) ==
  FoldLeft(LAMBDA sum, t : IF PowerOf(t) = b THEN sum + CoefOf(t) ELSE sum, 0, terms)

\* A number 0, or a constant with "+x" behind it, which is taken for its
\* coefficient.
Misread ==
  \/ \E j \in DOMAIN terms : terms[j].coef = 0 \/ terms[j].power = 0
  \/ \E j \in DOMAIN terms : /\ j > 1 /\ terms[j - 1].shape = "const"
                             /\ terms[j].sign = 1 /\ terms[j].coef = -1

\* The derivative has the coefficient b * Meant(b) for x^(b - 1): however the
\* loop cuts the text, it takes a '+' for a term of its own now and then, what
\* it has added up at its end is right for every power but 0, unless Misread.
DerivativeIsRight ==
  k > Len(Text) /\ ~Misread =>
    \A b \in DOMAIN p \cup Powers \cup {1} :
      b # 0 => (IF b \in DOMAIN p THEN p[b] ELSE 0) = Meant(b)
=============================================================================
