------------------------------ MODULE WordGuess ------------------------------
(***************************************************************************)
(* One word, guessed letter by letter; the server grades each guess.       *)
(***************************************************************************)
EXTENDS GameBoard

CONSTANTS Letters, Dictionary, Answer, WORD_LENGTH, MAX_GUESSES

CreateInitialState ==
    [grading |-> FALSE, guesses |-> <<>>, evaluations |-> <<>>, currentGuess |-> <<>>,
     keyboardState |-> [l \in Letters |-> "none"], gameStatus |-> "playing"]

Init == Starts(CreateInitialState)

(* Mutant: the last tile decides a key's colour.                           *)
BadUpdateKeyboardState(current, guess, tiles) ==
    FoldLeft(LAMBDA keys, i : [keys EXCEPT ![guess[i]] = tiles[i]], current, [i \in DOMAIN guess |-> i])

(* Tile by tile, a key's colour only goes up: correct, present, absent.    *)
UpdateKeyboardState(current, guess, tiles) ==
    LET Colour(keys, i) ==
            CASE tiles[i] = "correct" -> [keys EXCEPT ![guess[i]] = "correct"]
              [] tiles[i] = "present" /\ keys[guess[i]] # "correct" -> [keys EXCEPT ![guess[i]] = "present"]
              [] tiles[i] = "absent" /\ keys[guess[i]] = "none" -> [keys EXCEPT ![guess[i]] = "absent"]
              [] OTHER -> keys
    IN FoldLeft(Colour, current, [i \in DOMAIN guess |-> i])

Finish(s) == [status |-> s.gameStatus, guesses |-> s.guesses]

AddLetter ==
    /\ state.gameStatus = "playing"
    /\ Len(state.currentGuess) < WORD_LENGTH
    /\ \E l \in Letters : Plays([state EXCEPT !.currentGuess = Append(@, l)])
    /\ NoAnswerPending

DeleteLetter ==
    /\ state.gameStatus = "playing"
    /\ state.currentGuess # <<>>
    /\ Plays([state EXCEPT !.currentGuess = Front(@)])
    /\ NoAnswerPending

TrySubmitGuess ==
    /\ state.gameStatus = "playing" /\ ~state.grading
    /\ Len(state.currentGuess) = WORD_LENGTH
    /\ state.currentGuess \in Dictionary
    /\ Plays([state EXCEPT !.grading = TRUE])
    /\ asked' = Append(asked, state.currentGuess)

ApplyGuess ==
    \E i \in DOMAIN asked :
        LET guess == asked[i]
            tiles == EvaluateGuess(guess, Answer)
            won   == AllCorrect(tiles)
            lost  == ~won /\ Len(state.guesses) + 1 >= MAX_GUESSES
            next  == [state EXCEPT
                        !.grading = FALSE,
                        !.guesses = Append(@, guess),
                        !.evaluations = Append(@, tiles),
                        !.keyboardState = UpdateKeyboardState(@, guess, tiles),
                        !.currentGuess = <<>>,
                        !.gameStatus = IF won THEN "won" ELSE IF lost THEN "lost" ELSE "playing"]
        IN /\ state.gameStatus = "playing"
           /\ Shows(next, won \/ lost, Finish(next))
           /\ asked' = RemoveAt(asked, i)

GradeFailed ==
    \E i \in DOMAIN asked :
        /\ Plays([state EXCEPT !.grading = FALSE])
        /\ asked' = RemoveAt(asked, i)

Next == AddLetter \/ DeleteLetter \/ TrySubmitGuess \/ ApplyGuess \/ GradeFailed

------------------------------------------------------------------------------
(* One request at a time, and every row was in the word list.              *)
Legal ==
    /\ Len(asked) = (IF state.grading THEN 1 ELSE 0)
    /\ \A i \in DOMAIN state.guesses : state.guesses[i] \in Dictionary
    /\ Len(state.guesses) =< MAX_GUESSES

(* The tiles are the grades of the rows, and each key has the best colour  *)
(* its letter ever got.                                                    *)
Explained ==
    /\ state.evaluations = [i \in DOMAIN state.guesses |-> EvaluateGuess(state.guesses[i], Answer)]
    /\ state.keyboardState = [l \in Letters |->
         Best({"none"} \cup ColoursOf(l, state.guesses, state.evaluations))]

Right(finish) ==
    IF finish.status = "won"
    THEN \A i \in DOMAIN finish.guesses : finish.guesses[i] = Answer <=> i = Len(finish.guesses)
    ELSE Len(finish.guesses) = MAX_GUESSES /\ Answer \notin Range(finish.guesses)

Finished ==
    /\ Answer \in Range(state.guesses) => state.gameStatus = "won"
    /\ state.gameStatus # "playing" => ended /\ Last(sent) = Finish(state)
==============================================================================
