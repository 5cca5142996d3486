----------------------------- MODULE MatrixCalc -----------------------------
(***************************************************************************)
(* The matrix calculator of homework 5 (05/b3b36prg-hw05/main.c): its loop *)
(* reads matrices and signs in turn and computes as it reads.  One step is *)
(* one round of the loop of manage_matrices.                               *)
(***************************************************************************)
EXTENDS Integers, Sequences, FiniteSetsExt

CONSTANTS Matrices,  \* the matrices of the input, as sequences of rows
          MaxTerms   \* bound: matrices of one input

\* A matrix has rows of one length, at least one of them.
ASSUME CalcAssumption ==
    /\ MaxTerms \in Nat
    /\ \A m \in Matrices : /\ m \in Seq(Seq(Int)) /\ m # <<>>
                           /\ \A r \in DOMAIN m : Len(m[r]) = Len(m[1])

VARIABLES m1, m2, sign1,
          calc,  \* "reading", "result", "sizes" (check_sizes fails), "unreadable", "sign error"
          terms  \* the matrices read, each with the sign in front of it

calcVars == <<m1, m2, sign1, calc, terms>>

NoMatrix == <<>>
NoSign == "none"
Rows(m) == Len(m)
Cols(m) == Len(m[1])

\* check_sizes
SizesFit(a, b, sign) == IF sign = "*" THEN Cols(a) = Rows(b) ELSE Rows(a) = Rows(b) /\ Cols(a) = Cols(b)

MatrixSum(a, b, sign) ==
    [r \in 1 .. Rows(a) |-> [c \in 1 .. Cols(a) |-> IF sign = "+" THEN a[r][c] + b[r][c] ELSE a[r][c] - b[r][c]]]

MatrixMultiply(a, b) ==
    [r \in 1 .. Rows(a) |-> [c \in 1 .. Cols(b) |-> MapThenSumSet(LAMBDA k : a[r][k] * b[k][c], 1 .. Cols(a))]]

Calculate(a, b, sign) == IF sign = "*" THEN MatrixMultiply(a, b) ELSE MatrixSum(a, b, sign)

CalcInit ==
    /\ \E m \in Matrices : m1 = m /\ terms = << <<"+", m>> >>
    /\ m2 = NoMatrix /\ sign1 = NoSign /\ calc = "reading"

\* read_matrix2 or load_sign fails, whatever is in hand.
BadInput ==
    /\ calc = "reading"
    /\ calc' \in {"unreadable", "sign error"}
    /\ UNCHANGED <<m1, m2, sign1, terms>>

\* The input ends where the first sign would be.
EndOfOne ==
    /\ calc = "reading" /\ sign1 = NoSign
    /\ calc' = "result"
    /\ UNCHANGED <<m1, m2, sign1, terms>>

SizesDiffer == calc' = "sizes" /\ UNCHANGED <<m1, m2, sign1>>

\* A round that begins with '*'.
TimesRound(m) ==
    /\ calc = "reading" /\ sign1 = NoSign
    /\ terms' = Append(terms, <<"*", m>>)
    /\ IF SizesFit(m1, m, "*") THEN m1' = Calculate(m1, m, "*") /\ UNCHANGED <<m2, sign1, calc>>
       ELSE SizesDiffer

\* The second half of a round with '+' or '-', with m2 and the terms up to it.
AtEnd(sign, second) ==
    IF SizesFit(m1, second, sign)
    THEN m1' = Calculate(m1, second, sign) /\ calc' = "result" /\ m2' = NoMatrix /\ sign1' = NoSign
    ELSE SizesDiffer

BeforeTimes(sign, second, third) ==
    IF SizesFit(second, third, "*")
    THEN m2' = Calculate(second, third, "*") /\ sign1' = sign /\ UNCHANGED <<m1, calc>>
    ELSE SizesDiffer

\* Mutated form: the sign is read over before it is used.
SignOfSumLate(sign, sign2) == sign2

SignOfSum(sign, sign2) == sign

BeforeSum(sign, second, sign2) ==
    IF SizesFit(m1, second, sign)
    THEN m1' = Calculate(m1, second, SignOfSum(sign, sign2)) /\ m2' = NoMatrix /\ sign1' = sign2 /\ UNCHANGED calc
    ELSE SizesDiffer

\* m2 is read unless the last round multiplied into it.
SumRound ==
    /\ calc = "reading"
    /\ \E sign \in IF sign1 = NoSign THEN {"+", "-"} ELSE {sign1},
          second \in IF m2 = NoMatrix THEN Matrices ELSE {m2} :
          LET read == IF m2 = NoMatrix THEN Append(terms, <<sign, second>>) ELSE terms
          IN  \/ AtEnd(sign, second) /\ terms' = read
              \/ \E third \in Matrices : BeforeTimes(sign, second, third) /\ terms' = Append(read, <<"*", third>>)
              \/ \E sign2 \in {"+", "-"} : BeforeSum(sign, second, sign2) /\ terms' = read

\* MaxTerms bounds what is read, not the rounds that read nothing more.
CalcNext ==
    \/ BadInput \/ EndOfOne
    \/ (SumRound \/ \E m \in Matrices : TimesRound(m)) /\ Len(terms') <= MaxTerms

CalcSpec == CalcInit /\ [][CalcNext]_calcVars

-----------------------------------------------------------------------------
\* The value of the input by the rules of arithmetic: each term is the product
\* of its factors, and each element of the result the sum of those of the terms.
TermStarts == {i \in DOMAIN terms : terms[i][1] # "*"}
TermEnd(i) == Min({j \in i .. Len(terms) : j = Len(terms) \/ j + 1 \in TermStarts})
Factors(i) == [k \in 1 .. TermEnd(i) - i + 1 |-> terms[i + k - 1][2]]
ProductOf[fs \in Seq(Seq(Seq(Int)))] ==
    IF Len(fs) <= 1 THEN fs[1] ELSE MatrixMultiply(fs[1], ProductOf[Tail(fs)])
WellSized ==
    /\ \A i \in TermStarts : \A j \in i .. TermEnd(i) - 1 : SizesFit(terms[j][2], terms[j + 1][2], "*")
    /\ \A i \in TermStarts : Rows(terms[i][2]) = Rows(terms[1][2]) /\ Cols(terms[TermEnd(i)][2]) = Cols(terms[TermEnd(1)][2])
Value ==
    [r \in 1 .. Rows(terms[1][2]) |-> [c \in 1 .. Cols(terms[TermEnd(1)][2]) |->
        MapThenSumSet(LAMBDA i : (IF terms[i][1] = "-" THEN -1 ELSE 1) * ProductOf[Factors(i)][r][c], TermStarts)]]

\* However '*' is mixed with '+' and '-', the result printed is the value of the
\* whole input, and the error of sizes is given exactly when two do not fit.
CalcIsArithmetic ==
    /\ calc = "result" => WellSized /\ m1 = Value
    /\ calc = "sizes" => ~WellSized
=============================================================================
