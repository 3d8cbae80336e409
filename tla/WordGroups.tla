------------------------------ MODULE WordGroups ------------------------------
(***************************************************************************)
(* Words sorted into hidden categories; the server grades each group and   *)
(* is told which categories are solved. The order of the words on screen   *)
(* (SHUFFLE) is left out.                                                  *)
(***************************************************************************)
EXTENDS GameBoard

CONSTANTS Categories, WORDS_PER_CATEGORY, MAX_MISTAKES   \* Categories: disjoint sets of words

Words == UNION Categories

CreateInitialState ==
    [grading |-> FALSE, selectedWords |-> {}, solvedCategories |-> <<>>, remainingWords |-> Words,
     mistakes |-> 0, gameStatus |-> "playing", guessHistory |-> <<>>, lastGuessWasOneAway |-> FALSE]

Init == Starts(CreateInitialState)

Choosing == state.gameStatus = "playing" /\ ~state.grading

Finish(s) == [status |-> s.gameStatus, foundCategories |-> s.solvedCategories,
              mistakes |-> s.mistakes, attempts |-> Len(s.guessHistory)]

SelectWord ==
    /\ Choosing /\ Cardinality(state.selectedWords) < WORDS_PER_CATEGORY
    /\ \E w \in state.remainingWords \ state.selectedWords :
         Plays([state EXCEPT !.selectedWords = @ \cup {w}, !.lastGuessWasOneAway = FALSE])
    /\ NoAnswerPending

DeselectWord ==
    /\ Choosing
    /\ \E w \in state.selectedWords : Plays([state EXCEPT !.selectedWords = @ \ {w}])
    /\ NoAnswerPending

ClearSelection ==
    /\ ~state.grading
    /\ Plays([state EXCEPT !.selectedWords = {}])
    /\ NoAnswerPending

SubmitGuess ==
    /\ Choosing /\ Cardinality(state.selectedWords) = WORDS_PER_CATEGORY
    /\ IF state.selectedWords \in Range(state.guessHistory)
       THEN /\ Plays([state EXCEPT !.selectedWords = {}, !.lastGuessWasOneAway = FALSE])
            /\ NoAnswerPending
       ELSE /\ Plays([state EXCEPT !.grading = TRUE])
            /\ asked' = Append(asked, [words |-> state.selectedWords, solved |-> Range(state.solvedCategories)])

(* The server's verdict on a group, judged by the unsolved categories.     *)
Grade(request) ==
    [correct |-> request.words \in Categories \ request.solved,
     oneAway |-> /\ request.words \notin Categories \ request.solved
                 /\ \E c \in Categories \ request.solved :
                        Cardinality(c \cap request.words) = WORDS_PER_CATEGORY - 1]

ApplyGuess ==
    \E i \in DOMAIN asked :
        LET guess    == asked[i].words
            grade    == Grade(asked[i])
            solved   == IF grade.correct THEN Append(state.solvedCategories, guess) ELSE state.solvedCategories
            mistakes == IF grade.correct THEN state.mistakes ELSE state.mistakes + 1
            status   == IF grade.correct
                        THEN IF Len(solved) = Cardinality(Categories) THEN "won" ELSE "playing"
                        ELSE IF mistakes >= MAX_MISTAKES THEN "lost" ELSE "playing"
            next     == [state EXCEPT
                           !.grading = FALSE, !.solvedCategories = solved, !.mistakes = mistakes,
                           !.remainingWords = IF grade.correct THEN @ \ guess ELSE @,
                           !.selectedWords = {}, !.guessHistory = Append(@, guess),
                           !.gameStatus = status, !.lastGuessWasOneAway = grade.oneAway]
        IN /\ state.gameStatus = "playing"
           /\ Shows(next, status # "playing", Finish(next))
           /\ asked' = RemoveAt(asked, i)

GradeFailed ==
    \E i \in DOMAIN asked :
        Plays([state EXCEPT !.grading = FALSE]) /\ asked' = RemoveAt(asked, i)

Next == SelectWord \/ DeselectWord \/ ClearSelection \/ SubmitGuess \/ ApplyGuess \/ GradeFailed

------------------------------------------------------------------------------
(* One request at a time; the selection is on the board; a group is never  *)
(* graded twice, so neither found twice nor counted wrong twice.           *)
Legal ==
    /\ Len(asked) = (IF state.grading THEN 1 ELSE 0)
    /\ state.selectedWords \subseteq state.remainingWords
    /\ IsInjective(state.guessHistory)

(* Found groups, words left and mistakes are what the history of guesses   *)
(* says.                                                                   *)
Explained ==
    /\ state.solvedCategories = SelectSeq(state.guessHistory, LAMBDA g : g \in Categories)
    /\ state.remainingWords = Words \ UNION Range(state.solvedCategories)
    /\ state.mistakes = Cardinality({i \in DOMAIN state.guessHistory : state.guessHistory[i] \notin Categories})

Right(finish) ==
    /\ finish.attempts = Len(finish.foundCategories) + finish.mistakes
    /\ Range(finish.foundCategories) \subseteq Categories
    /\ IF finish.status = "won" THEN Range(finish.foundCategories) = Categories /\ finish.mistakes < MAX_MISTAKES
                                ELSE finish.mistakes = MAX_MISTAKES

Finished ==
    /\ Categories = Range(state.solvedCategories) => state.gameStatus = "won"
    /\ state.gameStatus # "playing" => ended /\ Last(sent) = Finish(state)
==============================================================================
