--------------------------- MODULE SmallPrograms ---------------------------
(***************************************************************************)
(* Homeworks 1 to 4, each of which reads an input, computes and prints:    *)
(* the house (01), the prime factors (02), the Caesar cipher (03) and grep *)
(* (04).  A program is an operator from its input to what it prints.       *)
(***************************************************************************)
EXTENDS Integers, Sequences, FiniteSets, FiniteSetsExt

CONSTANTS Inputs,  \* inputs, as records [program |-> ..., ...]
          Sieved   \* N of the prime factors: primes are looked for up to it

\* The sieve has no place for N itself, but writes and reads arr[N]; N = 10^6 is
\* composite, so that place is written 1 before it is read, as if it were there.
ASSUME SievedAssumption == Sieved \in Nat /\ Sieved > 1 /\ \E a, b \in 2 .. Sieved - 1 : Sieved = a * b

\* The codes of the letters, A to Z and a to z.
Letters == (65 .. 90) \cup (97 .. 122)

\* What can be typed in: numbers, words of letters, and any lines.
IsInput(x) ==
    \/ x.program = "house" /\ x.width \in Int /\ x.height \in Int /\ x.fence \in Int
    \/ x.program = "factors" /\ x.num \in Nat \ {0}
    \/ x.program = "caesar" /\ x.string1 \in Seq(Letters) /\ x.string2 \in Seq(Letters)
    \/ x.program = "grep" /\ x.pattern \in Seq(STRING) /\ x.lines \in Seq(Seq(STRING))
ASSUME InputsAssumption == \A x \in Inputs : IsInput(x)

VARIABLES input, ran, printed
progVars == <<input, ran, printed>>

\* 01: checker100 to checker103, in the order of main.
HouseError(w, h, f) ==
    IF w \notin 3 .. 69 \/ h \notin 3 .. 69 THEN 101
    ELSE IF w % 2 = 0 THEN 102
    ELSE IF w = h /\ (f < 1 \/ f >= h) THEN 103
    ELSE 0
Roof(w) ==
    LET mid == (w + 1) \div 2
    IN  [i \in 1 .. (w - 1) \div 2 |->
            [k \in 1 .. mid + i - 1 |-> IF k - 1 \in {mid + i - 2, mid - i} THEN "X" ELSE " "]]
Base(w) == [k \in 1 .. w |-> "X"]
PatternOf(line, j) == IF (line + j) % 2 = 1 THEN "o" ELSE "*"
Wall(w, inside) == [k \in 1 .. w |-> IF k \in {1, w} THEN "X" ELSE inside[k - 1]]
Fence(f, plank) == [k \in 1 .. f |-> IF (k - 1 + (f % 2)) % 2 = 0 THEN plank ELSE "|"]
WallsFence(w, h, f) ==
    [k \in 1 .. h - 2 |->
        LET i == k - 1
            wall == Wall(w, [j \in 0 .. w - 1 |-> PatternOf(i, j)])
        IN  IF i < h - 1 - f THEN wall ELSE wall \o Fence(f, IF i = h - 1 - f THEN "-" ELSE " ")]
House(w, h, f) ==
    IF HouseError(w, h, f) # 0 THEN <<HouseError(w, h, f)>>
    ELSE Roof(w) \o <<Base(w)>> \o
         (IF w = h THEN WallsFence(w, h, f) \o <<Base(w) \o Fence(f, "-")>>
          ELSE [i \in 1 .. h - 2 |-> Wall(w, [j \in 0 .. w - 1 |-> " "])] \o <<Base(w)>>)

\* 02: eratosthenes() up to the square root, then make_prim_array().
Crossed[i \in Nat] ==
    IF i < 2 THEN {0, 1}
    ELSE IF i \in Crossed[i - 1] THEN Crossed[i - 1]
    ELSE Crossed[i - 1] \cup {i * j : j \in i .. Sieved \div i}
Root == CHOOSE r \in 0 .. Sieved : r * r <= Sieved /\ (r + 1) * (r + 1) > Sieved
Prime(p) == p \in 2 .. Sieved /\ p \notin Crossed[Root]

\* Mutated form: a factor is divided out once only.
DivideOnce(p, n) == <<n \div p, 1>>

\* The number without its factors p, and how many they were.
Divide(p, n) ==
    LET next(s) == IF s[1] % p # 0 THEN s ELSE <<s[1] \div p, s[2] + 1>>
        round[k \in Nat] == IF k = 0 THEN <<n, 0>> ELSE next(round[k - 1])
    IN  round[n]

\* prime_factoring(): what is printed is a sequence of factors, each with its
\* power and with whether " x " stands before it.
Try(s, p) ==
    IF ~Prime(p) \/ p > s.num \/ s.num % p # 0 THEN s
    ELSE [num |-> Divide(p, s.num)[1],
          text |-> Append(s.text, [factor |-> p, power |-> Divide(p, s.num)[2], times |-> s.text # <<>>])]
Factoring(n) ==
    LET tried[p \in Nat] == IF p = 0 THEN [num |-> n, text |-> <<>>] ELSE Try(tried[p - 1], p)
        end == tried[Sieved]
    IN  IF end.num # 1 \/ n = 1
        THEN Append(end.text, [factor |-> end.num, power |-> 1, times |-> FALSE]) ELSE end.text

\* 03: shift_letter() on the codes of letters.
ShiftLetter(ch, key) ==
    LET grouped == (IF ch > 90 THEN ch - 6 ELSE ch) + key
        wrapped == IF grouped > 116 THEN grouped - 116 + 64 ELSE grouped
    IN  IF wrapped > 90 THEN wrapped + 6 ELSE wrapped
ShiftArray(text, key) == [i \in DOMAIN text |-> ShiftLetter(text[i], key)]
CountSimilarities(a, b) == Cardinality({i \in DOMAIN a : a[i] = b[i]})
MaxAtIndex(arr) == CHOOSE k \in DOMAIN arr : (\A j \in DOMAIN arr : arr[j] <= arr[k]) /\ (\A j \in DOMAIN arr : j < k => arr[j] < arr[k])
FindKey(s1, s2) == MaxAtIndex([key \in 0 .. 51 |-> CountSimilarities(ShiftArray(s1, key), s2)])
Decode(s1, s2) == IF Len(s1) # Len(s2) THEN <<101>> ELSE ShiftArray(s1, FindKey(s1, s2))

\* 04: find_match() compares from each place whose letter is the first one.
Agree(pattern, line, i) ==
    Max({j \in 0 .. Len(pattern) : i + j - 1 <= Len(line) /\ \A k \in 1 .. j : pattern[k] = line[i + k - 1]})
FindMatch(pattern, line) ==
    pattern = <<>> \/ \E i \in DOMAIN line : pattern[1] = line[i] /\ Agree(pattern, line, i) = Len(pattern)
Grep(pattern, lines) ==
    LET output[k \in 0 .. Len(lines)] ==
            IF k = 0 THEN <<>>
            ELSE IF FindMatch(pattern, lines[k]) THEN Append(output[k - 1], lines[k])
            ELSE output[k - 1]
    IN  output[Len(lines)]

ProgInit == input \in Inputs /\ ran = FALSE /\ printed = <<>>

RunProgram ==
    /\ ~ran /\ ran' = TRUE
    /\ printed' = CASE input.program = "house" -> House(input.width, input.height, input.fence)
                    [] input.program = "factors" -> Factoring(input.num)
                    [] input.program = "caesar" -> Decode(input.string1, input.string2)
                    [] input.program = "grep" -> Grep(input.pattern, input.lines)
    /\ UNCHANGED input

ProgSpec == ProgInit /\ [][RunProgram]_progVars

-----------------------------------------------------------------------------
\* 01: the house is as wide as asked and mirrored about its middle, neighbours
\* inside it differ, and the fence is a square that ends in a post.
HouseStands ==
    LET w == input.width
        h == input.height
        f == input.fence
        at(r, c) == IF r \in DOMAIN printed /\ c \in DOMAIN printed[r] THEN printed[r][c] ELSE " "
        top == (w - 1) \div 2
    IN  IF HouseError(w, h, f) # 0 THEN Len(printed) = 1
        ELSE /\ Len(printed) = top + h
             /\ \A r \in 1 .. top + h, c \in 1 .. w : at(r, c) = "X" <=> at(r, w + 1 - c) = "X"
             /\ \A r \in 2 .. top, c \in 1 .. w : at(r, c) = "X" => at(r - 1, c + 1) = "X" \/ at(r - 1, c - 1) = "X"
             /\ w = h => /\ \A r \in top + 2 .. top + h - 1, c \in 2 .. w - 2 :
                               at(r, c) # at(r, c + 1)
                         /\ {r \in DOMAIN printed : Len(printed[r]) = w + f} = top + h - f + 1 .. top + h
                         /\ \A r \in top + h - f + 1 .. top + h : at(r, w + f) = "|"

\* 02: the product of what is printed is the number, the factors grow, and none
\* is divisible by a smaller number up to N; " x " stands between those up to N.
Power(p, c) ==
    LET power[k \in Nat] == IF k = 0 THEN 1 ELSE p * power[k - 1]
    IN  power[c]
Product(text) ==
    LET product[k \in 0 .. Len(text)] ==
            IF k = 0 THEN 1 ELSE product[k - 1] * Power(text[k].factor, text[k].power)
    IN  product[Len(text)]
Factorised ==
    /\ Product(printed) = input.num
    /\ \A j, k \in DOMAIN printed : j < k => printed[j].factor < printed[k].factor
    /\ \A k \in DOMAIN printed : \A d \in 2 .. Sieved : d < printed[k].factor => printed[k].factor % d # 0
    /\ \A k \in DOMAIN printed : printed[k].factor <= Sieved => (printed[k].times <=> k > 1)

\* 03: the text printed is a rotation of the first string that agrees with the
\* second in as many places as any rotation does, and the least such.
BestRotation ==
    LET index(ch) == IF ch > 90 THEN ch - 71 ELSE ch - 65
        by(k) == [i \in DOMAIN input.string1 |-> CHOOSE ch \in Letters : index(ch) = (index(input.string1[i]) + k) % 52]
        score(k) == CountSimilarities(by(k), input.string2)
    IN  Len(input.string1) = Len(input.string2) =>
            \E k \in 0 .. 51 : printed = by(k) /\ \A j \in 0 .. 51 : IF j < k THEN score(j) < score(k) ELSE score(j) <= score(k)

\* 04: the lines printed are those the pattern occurs in, in their order.
LinesSelected ==
    LET lines == input.lines
        occurs(line) ==
            \E a \in 0 .. Len(line) - Len(input.pattern) :
                \A k \in DOMAIN input.pattern : line[a + k] = input.pattern[k]
    IN  \E at \in [DOMAIN printed -> DOMAIN lines] :
            /\ \A j, k \in DOMAIN printed : j < k => at[j] < at[k]
            /\ \A k \in DOMAIN printed : printed[k] = lines[at[k]]
            /\ \A i \in DOMAIN lines : occurs(lines[i]) <=> \E k \in DOMAIN printed : at[k] = i

\* What the four programs print, for every input, as far as it is right: the
\* house stands, the text is the best rotation, the lines are those with the
\* pattern, and the factors are the number's but for the one left beyond N.
AnswersSound ==
    ran =>
        CASE input.program = "house" -> HouseStands
          [] input.program = "factors" -> Factorised
          [] input.program = "caesar" -> BestRotation
          [] input.program = "grep" -> LinesSelected

\* What 02 prints is the decomposition into primes that its heading announces
\* ("Prvociselny rozklad"), with " x " between every two factors as in the
\* reference outputs ("2 x 7").  Refuted: what is left beyond N is printed
\* without " x ", as in the "case for prime as an input" (main.c:127), 2 *
\* 1000003 as 21000003; and of two primes beyond N the product is printed.
DecompositionPrinted ==
    ran /\ input.program = "factors" =>
        \A k \in DOMAIN printed :
            /\ printed[k].times <=> k > 1
            /\ \A d \in 2 .. printed[k].factor - 1 : printed[k].factor % d # 0
=============================================================================
