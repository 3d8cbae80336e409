------------------------------ MODULE QuadWords ------------------------------
(***************************************************************************)
(* Several words guessed with the same letters, one board for each. Start  *)
(* over is offered at any time, also while a guess is being graded.        *)
(***************************************************************************)
EXTENDS GameBoard

CONSTANTS Letters, Answers, WORD_LENGTH, MAX_GUESSES, MaxAsked

Boards == DOMAIN Answers

CreateInitialState ==
    [grading |-> FALSE, currentGuess |-> <<>>, guessHistory |-> <<>>, gameStatus |-> "playing", replay |-> FALSE,
     boards |-> [b \in Boards |-> [guesses |-> <<>>, results |-> <<>>, solvedOnGuess |-> 0]],
     keyboardStatus |-> [l \in Letters |-> "none"]]

Init == Starts(CreateInitialState)

AllBoardsSolved(boards) == \A b \in Boards : boards[b].solvedOnGuess # 0

(* A key takes the best colour its letter gets on any board and never      *)
(* loses one.                                                              *)
UpdateKeyboardStatus(current, guess, results) ==
    [l \in Letters |-> Best({current[l]} \cup UNION {ColoursOf(l, <<guess>>, <<results[b]>>) : b \in Boards})]

(* A solved board keeps its last result.                                   *)
UpdateBoard(board, guess, result, guessNumber) ==
    IF board.solvedOnGuess # 0 THEN board
    ELSE [guesses |-> Append(board.guesses, guess), results |-> Append(board.results, result),
          solvedOnGuess |-> IF AllCorrect(result) THEN guessNumber ELSE 0]

Typing == state.gameStatus = "playing" /\ ~state.grading

Finish(s) == [status |-> s.gameStatus, guessHistory |-> s.guessHistory,
              solvedBoards |-> [b \in Boards |-> s.boards[b].solvedOnGuess # 0]]

AddLetter ==
    /\ Typing /\ Len(state.currentGuess) < WORD_LENGTH
    /\ \E l \in Letters : Plays([state EXCEPT !.currentGuess = Append(@, l)])
    /\ NoAnswerPending

DeleteLetter ==
    /\ Typing /\ state.currentGuess # <<>>
    /\ Plays([state EXCEPT !.currentGuess = Front(@)])
    /\ NoAnswerPending

(* Any word of the right length: there is no dictionary, here or at the    *)
(* server.                                                                 *)
SubmitGuess ==
    /\ Typing /\ Len(state.currentGuess) = WORD_LENGTH
    /\ Len(asked) < MaxAsked
    /\ Plays([state EXCEPT !.grading = TRUE])
    /\ asked' = Append(asked, state.currentGuess)

Answered(i) == asked' = RemoveAt(asked, i)

ApplyGuess ==
    \E i \in DOMAIN asked :
        LET guess   == asked[i]
            results == [b \in Boards |-> EvaluateGuess(guess, Answers[b])]
            number  == Len(state.guessHistory) + 1
            boards  == [b \in Boards |-> UpdateBoard(state.boards[b], guess, results[b], number)]
            status  == IF AllBoardsSolved(boards) THEN "won"
                       ELSE IF number >= MAX_GUESSES THEN "lost" ELSE "playing"
            next    == [state EXCEPT
                          !.grading = FALSE, !.currentGuess = <<>>, !.boards = boards,
                          !.guessHistory = Append(@, guess), !.gameStatus = status,
                          !.keyboardStatus = UpdateKeyboardStatus(@, guess, results)]
        IN /\ state.gameStatus = "playing"
           /\ Shows(next, status # "playing", Finish(next))
           /\ Answered(i)

ApplyTooLate ==
    /\ state.gameStatus # "playing"
    /\ \E i \in DOMAIN asked : Answered(i)
    /\ UNCHANGED <<state, ended, sent>>

GradeFailed ==
    \E i \in DOMAIN asked : Plays([state EXCEPT !.grading = FALSE]) /\ Answered(i)

StartOver == Replays(CreateInitialState)

Next ==
    \/ AddLetter \/ DeleteLetter \/ SubmitGuess \/ ApplyGuess
    \/ ApplyTooLate \/ GradeFailed \/ StartOver

------------------------------------------------------------------------------
(* The board being graded has its request in flight, whatever other        *)
(* requests an earlier board left behind; no answer adds a row too many or *)
(* one of another length.                                                  *)
Legal ==
    /\ state.grading => asked # <<>>
    /\ Len(state.guessHistory) =< MAX_GUESSES
    /\ \A i \in DOMAIN state.guessHistory : Len(state.guessHistory[i]) = WORD_LENGTH

(* Every board is the history up to its word, and each key has the best    *)
(* colour its letter got on any board.                                     *)
Explained ==
    /\ \A b \in Boards :
         LET board  == state.boards[b]
             solved == {i \in DOMAIN state.guessHistory : state.guessHistory[i] = Answers[b]}
             rows   == SubSeq(state.guessHistory, 1,
                              IF solved = {} THEN Len(state.guessHistory) ELSE Min(solved))
         IN /\ board.guesses = rows
            /\ board.results = [i \in DOMAIN rows |-> EvaluateGuess(rows[i], Answers[b])]
            /\ board.solvedOnGuess = IF solved = {} THEN 0 ELSE Min(solved)
    /\ state.keyboardStatus = [l \in Letters |-> Best({"none"} \cup
         UNION {ColoursOf(l, state.guessHistory,
                          [i \in DOMAIN state.guessHistory |-> EvaluateGuess(state.guessHistory[i], Answers[b])])
                  : b \in Boards})]

Right(finish) ==
    /\ \A b \in Boards : finish.solvedBoards[b] <=> Answers[b] \in Range(finish.guessHistory)
    /\ finish.status = "won" <=> Range(Answers) \subseteq Range(finish.guessHistory)
    /\ finish.status = "lost" => Len(finish.guessHistory) = MAX_GUESSES

(* All words found is a win, and the first board that ends is handed over. *)
Finished ==
    /\ Range(Answers) \subseteq Range(state.guessHistory) => state.gameStatus = "won"
    /\ HandsOverTheFirst(state.gameStatus # "playing", state.replay, Finish(state))
==============================================================================
