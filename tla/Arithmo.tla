------------------------------- MODULE Arithmo -------------------------------
(***************************************************************************)
(* An equation guessed character by character. The page refuses what is no *)
(* true equation; the server grades the rest like a word.                  *)
(***************************************************************************)
EXTENDS GameBoard

CONSTANTS
    Digits,     \* the digits of the keyboard, each with its value
    Operators,  \* of + - * /
    Answer, EQUATION_LENGTH, MAX_ATTEMPTS

ValidChars == DOMAIN Digits \cup Operators \cup {"="}

(* Left to right: a number grows digit by digit, a finished number joins   *)
(* its term, a finished term joins the sum. Values are fractions           *)
(* <<numerator, denominator>>; NoValue is the code's null.                 *)
NoValue == <<0, 0>>

Times(a, b) == <<a[1] * b[1], a[2] * b[2]>>
OneOver(a) == IF a[1] = 0 THEN NoValue ELSE <<a[2], a[1]>>
Plus(a, b) == <<a[1] * b[2] + b[1] * a[2], a[2] * b[2]>>
Negated(a) == <<-a[1], a[2]>>
Equal(a, b) == a[2] # 0 /\ b[2] # 0 /\ a[1] * b[2] = b[1] * a[2]

EvaluateExpression(expr) ==
    LET Digit(m, c) ==
            IF m.number = <<0>> THEN [m EXCEPT !.ok = FALSE]     \* a leading zero
            ELSE [m EXCEPT !.number = <<IF @ = <<>> THEN Digits[c] ELSE 10 * @[1] + Digits[c]>>]
        CloseNumber(m) ==
            IF m.number = <<>> THEN [m EXCEPT !.ok = FALSE]
            ELSE LET n == <<m.number[1], 1>>
                 IN [m EXCEPT !.number = <<>>, !.term = Times(@, IF m.divide THEN OneOver(n) ELSE n)]
        CloseTerm(m) == [CloseNumber(m) EXCEPT !.term = <<1, 1>>,
                            !.sum = Plus(@, IF m.minus THEN Negated(CloseNumber(m).term) ELSE CloseNumber(m).term)]
        Read(m, c) ==
            IF c \in DOMAIN Digits THEN Digit(m, c)
            ELSE IF c \in {"*", "/"} THEN [CloseNumber(m) EXCEPT !.divide = c = "/"]
            ELSE [CloseTerm(m) EXCEPT !.divide = FALSE, !.minus = c = "-"]
        last == CloseTerm(FoldLeft(Read, [ok |-> TRUE, number |-> <<>>, term |-> <<1, 1>>, sum |-> <<0, 1>>,
                                          divide |-> FALSE, minus |-> FALSE], expr))
    IN IF last.ok THEN last.sum ELSE NoValue

IsValidEquation(equation) ==
    \E i \in DOMAIN equation :
        /\ {j \in DOMAIN equation : equation[j] = "="} = {i}
        /\ Equal(EvaluateExpression(SubSeq(equation, 1, i - 1)),
                 EvaluateExpression(SubSeq(equation, i + 1, Len(equation))))

InitialState ==
    [guesses |-> <<>>, currentGuess |-> <<>>, results |-> <<>>, isComplete |-> FALSE, isWon |-> FALSE,
     grading |-> FALSE, keyboardStatus |-> [c \in ValidChars |-> "none"]]

Init == Starts(InitialState)

Finish(s) == [status |-> IF s.isWon THEN "won" ELSE "lost", guesses |-> s.guesses]

AddChar ==
    /\ ~state.isComplete
    /\ Len(state.currentGuess) < EQUATION_LENGTH
    /\ \E c \in ValidChars : Plays([state EXCEPT !.currentGuess = Append(@, c)])
    /\ NoAnswerPending

DeleteChar ==
    /\ ~state.isComplete
    /\ state.currentGuess # <<>>
    /\ Plays([state EXCEPT !.currentGuess = Front(@)])
    /\ NoAnswerPending

SubmitGuess ==
    /\ ~state.isComplete /\ ~state.grading
    /\ Len(state.currentGuess) = EQUATION_LENGTH
    /\ IsValidEquation(state.currentGuess)
    /\ Plays([state EXCEPT !.grading = TRUE])
    /\ asked' = Append(asked, state.currentGuess)

(* The row number is the number of guesses before this one.                *)
ApplyGuess ==
    \E i \in DOMAIN asked :
        LET guess    == asked[i]
            result   == EvaluateGuess(guess, Answer)
            isLast   == Len(state.guesses) >= MAX_ATTEMPTS - 1
            complete == AllCorrect(result) \/ isLast
            next     == [state EXCEPT
                           !.grading = FALSE, !.guesses = Append(@, guess), !.results = Append(@, result),
                           !.currentGuess = <<>>, !.isComplete = complete, !.isWon = AllCorrect(result),
                           !.keyboardStatus =
                               [c \in ValidChars |-> Best({@[c]} \cup ColoursOf(c, <<guess>>, <<result>>))]]
        IN /\ ~state.isComplete
           /\ Shows(next, complete, Finish(next))
           /\ asked' = RemoveAt(asked, i)

GradeFailed ==
    \E i \in DOMAIN asked :
        Plays([state EXCEPT !.grading = FALSE]) /\ asked' = RemoveAt(asked, i)

Next == AddChar \/ DeleteChar \/ SubmitGuess \/ ApplyGuess \/ GradeFailed

------------------------------------------------------------------------------
(* Grammar and value of an expression by its last operator of lowest rank. *)
Value[e \in Seq(ValidChars)] ==
    LET LastOf(ops) == {i \in DOMAIN e : e[i] \in ops /\ \A j \in DOMAIN e : e[j] \in ops => j =< i}
        Split(i) == <<Value[SubSeq(e, 1, i - 1)], Value[SubSeq(e, i + 1, Len(e))]>>
        Defined(s) == s[1] # NoValue /\ s[2] # NoValue
    IN IF LastOf({"+", "-"}) # {}
       THEN LET i == CHOOSE i \in LastOf({"+", "-"}) : TRUE
                s == Split(i)
            IN IF Defined(s) THEN Plus(s[1], IF e[i] = "-" THEN Negated(s[2]) ELSE s[2]) ELSE NoValue
       ELSE IF LastOf({"*", "/"}) # {}
       THEN LET i == CHOOSE i \in LastOf({"*", "/"}) : TRUE
                s == Split(i)
            IN IF Defined(s) /\ (e[i] = "/" => s[2][1] # 0)
               THEN Times(s[1], IF e[i] = "/" THEN OneOver(s[2]) ELSE s[2]) ELSE NoValue
       ELSE IF e = <<>> \/ (Len(e) > 1 /\ Digits[e[1]] = 0) THEN NoValue
       ELSE <<FoldLeft(LAMBDA n, c : 10 * n + Digits[c], 0, e), 1>>

TrueEquation(equation) ==
    /\ Len(equation) = EQUATION_LENGTH
    /\ \E i \in DOMAIN equation :
         /\ equation[i] = "=" /\ \A j \in DOMAIN equation \ {i} : equation[j] # "="
         /\ Equal(Value[SubSeq(equation, 1, i - 1)], Value[SubSeq(equation, i + 1, Len(equation))])

(* What may be sent for grading is exactly what is true.                   *)
Legal ==
    /\ Len(asked) = (IF state.grading THEN 1 ELSE 0)
    /\ Len(state.currentGuess) = EQUATION_LENGTH =>
         (IsValidEquation(state.currentGuess) <=> TrueEquation(state.currentGuess))
    /\ \A i \in DOMAIN state.guesses : TrueEquation(state.guesses[i])

Explained ==
    /\ state.results = [i \in DOMAIN state.guesses |-> EvaluateGuess(state.guesses[i], Answer)]
    /\ state.keyboardStatus = [c \in ValidChars |->
         Best({"none"} \cup ColoursOf(c, state.guesses, state.results))]

Right(finish) ==
    IF finish.status = "won"
    THEN \A i \in DOMAIN finish.guesses : finish.guesses[i] = Answer <=> i = Len(finish.guesses)
    ELSE Len(finish.guesses) = MAX_ATTEMPTS /\ Answer \notin Range(finish.guesses)

Finished ==
    /\ Answer \in Range(state.guesses) => state.isWon
    /\ state.isComplete => ended /\ Last(sent) = Finish(state)
==============================================================================
