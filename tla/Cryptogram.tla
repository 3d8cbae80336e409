------------------------------ MODULE Cryptogram ------------------------------
(***************************************************************************)
(* A substitution cipher decoded letter by letter. A full decoding is sent *)
(* to the server as soon as it is full; a change of the decoding cancels   *)
(* the check in flight. Hints come from the server, one at a time.         *)
(***************************************************************************)
EXTENDS GameBoard

CONSTANTS Solution,    \* the plain letter of each encrypted letter (numbered in A-Z order)
          Alphabet, MAX_HINTS, MaxFinishes

Encrypted == DOMAIN Solution
Blank == "blank"

CreateInitialState(failed) ==
    [guesses |-> [e \in Encrypted |-> Blank], hintsUsed |-> 0, revealedLetters |-> <<>>,
     gameStatus |-> "playing", lastCheckWrong |-> FALSE, gradeFailed |-> failed]

Init == Starts(CreateInitialState(FALSE))

IsFullyFilled(guesses) == Blank \notin Range(guesses)

Finish(s) == [guesses |-> s.guesses, hintsUsed |-> s.hintsUsed]

NoneAsked(kind) == \A i \in DOMAIN asked : asked[i].kind # kind

(* The cleanup of the effect that sent the check in flight.                *)
CheckCancelled == RemoveFirstMatch(asked, LAMBDA r : r.kind = "check")

(* A render with new guesses: a full decoding is sent.                     *)
Decodes(s, requests) ==
    /\ Plays(s)
    /\ asked' = requests \o (IF s.gameStatus = "playing" /\ IsFullyFilled(s.guesses)
                             THEN <<[kind |-> "check", guesses |-> s.guesses]>> ELSE <<>>)

Editable == state.gameStatus = "playing"

(* Another letter that is not revealed loses the guess.                    *)
SetGuess ==
    \E e \in Encrypted \ Range(state.revealedLetters), letter \in Alphabet :
        /\ Editable
        /\ Decodes([state EXCEPT
                      !.guesses = [k \in Encrypted |->
                         IF k = e THEN letter
                         ELSE IF @[k] = letter /\ k \notin Range(state.revealedLetters) THEN Blank ELSE @[k]],
                      !.lastCheckWrong = FALSE], CheckCancelled)

ClearGuess ==
    \E e \in Encrypted \ Range(state.revealedLetters) :
        /\ Editable
        /\ Decodes([state EXCEPT !.guesses[e] = Blank, !.lastCheckWrong = FALSE], CheckCancelled)

(* Any other letter loses a revealed guess.                                *)
Reveal(e) ==
    [state EXCEPT !.guesses = [k \in Encrypted |->
                     IF k = e THEN Solution[e] ELSE IF @[k] = Solution[e] THEN Blank ELSE @[k]],
                  !.revealedLetters = Append(@, e), !.hintsUsed = @ + 1, !.lastCheckWrong = FALSE]

UseHint ==
    /\ Editable /\ state.hintsUsed < MAX_HINTS
    /\ NoneAsked("hint")
    /\ asked' = Append(asked, [kind |-> "hint", guesses |-> state.guesses,
                               revealed |-> Range(state.revealedLetters)])
    /\ UNCHANGED <<state, ended, sent>>

(* The server's hint: the first letter neither revealed nor right.         *)
Hidden(request) ==
    {e \in Encrypted : e \notin request.revealed /\ request.guesses[e] # Solution[e]}

HintAnswered ==
    \E i \in DOMAIN asked :
        /\ asked[i].kind = "hint"
        /\ IF Hidden(asked[i]) # {} /\ Editable /\ state.hintsUsed < MAX_HINTS
           THEN Decodes(Reveal(Min(Hidden(asked[i]))), <<>>)
           ELSE asked' = RemoveAt(asked, i) /\ UNCHANGED <<state, ended, sent>>

Checked ==
    \E i \in DOMAIN asked :
        /\ asked[i].kind = "check"
        /\ Editable /\ asked[i].guesses = state.guesses
        /\ LET solved == asked[i].guesses = Solution
               next == [state EXCEPT !.gameStatus = IF solved THEN "won" ELSE @, !.lastCheckWrong = ~solved]
           IN Shows(next, solved, Finish(next))
        /\ asked' = RemoveAt(asked, i)

(* A check that failed is not repeated before the guesses change.          *)
GradeFailed ==
    \E i \in DOMAIN asked :
        Plays([state EXCEPT !.gradeFailed = TRUE]) /\ asked' = RemoveAt(asked, i)

(* resetBoard also forgets the finish; a hint in flight stays in flight.   *)
StartOver ==
    /\ Len(sent) < MaxFinishes
    /\ state' = CreateInitialState(state.gradeFailed)
    /\ ended' = FALSE /\ asked' = CheckCancelled /\ UNCHANGED sent

Next == SetGuess \/ ClearGuess \/ UseHint \/ HintAnswered \/ Checked \/ GradeFailed \/ StartOver

------------------------------------------------------------------------------
(* Revealed letters are right and stay; two letters share a guess only     *)
(* when one of them was revealed.                                          *)
Legal ==
    /\ IsInjective(state.revealedLetters) /\ Len(state.revealedLetters) = state.hintsUsed
    /\ state.hintsUsed =< MAX_HINTS
    /\ \A e \in Range(state.revealedLetters) : state.guesses[e] = Solution[e]
    /\ \A e, f \in Encrypted :
         e # f /\ state.guesses[e] = state.guesses[f] /\ state.guesses[e] # Blank
            => e \in Range(state.revealedLetters) \/ f \in Range(state.revealedLetters)

(* What is said of the decoding is about the decoding on the screen.       *)
Explained ==
    /\ state.lastCheckWrong => IsFullyFilled(state.guesses) /\ state.guesses # Solution
    /\ \A i \in DOMAIN asked : asked[i].kind = "check" => asked[i].guesses = state.guesses
    /\ Len(asked) =< 2

Right(finish) == finish.guesses = Solution /\ finish.hintsUsed =< MAX_HINTS

(* A right decoding is won, being checked, or could not be checked.        *)
Finished ==
    /\ state.guesses = Solution /\ ~state.gradeFailed /\ NoneAsked("check") => state.gameStatus = "won"
    /\ state.gameStatus = "won" => ended /\ Last(sent) = Finish(state)
==============================================================================
