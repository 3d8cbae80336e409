------------------------------ MODULE WordLadder ------------------------------
(***************************************************************************)
(* A word is turned into another, one letter at a time, through words of   *)
(* the dictionary that the page holds.                                     *)
(***************************************************************************)
EXTENDS GameBoard

CONSTANTS
    WordList,              \* the dictionary, of words of every length
    StartWord, EndWord

InitialState == [path |-> <<StartWord>>, currentWord |-> <<>>, isComplete |-> FALSE, error |-> "none"]

Init == Starts(InitialState)

IsOneLetterChange(word1, word2) ==
    Len(word1) = Len(word2) /\ Cardinality({i \in DOMAIN word1 : word1[i] # word2[i]}) = 1

Finish(s) == [path |-> s.path]

Playing == ~state.isComplete

SetInput ==
    /\ Playing
    /\ \E w \in WordList \cup {<<>>, <<"?">>} :
        /\ Len(w) =< Len(StartWord)
        /\ Plays([state EXCEPT !.currentWord = w, !.error = "none"])
    /\ NoAnswerPending

Refusal(word) ==
    CASE word \notin WordList                           -> "notInList"
      [] Len(word) # Len(StartWord)                     -> "wrongLength"
      [] ~IsOneLetterChange(Last(state.path), word)     -> "notOneChange"
      [] Contains(state.path, word)                     -> "alreadyUsed"
      [] OTHER                                          -> "none"

SubmitWord ==
    /\ Playing /\ state.currentWord # <<>>
    /\ LET word == state.currentWord
           next == IF Refusal(word) # "none" THEN [state EXCEPT !.error = Refusal(word)]
                   ELSE [path |-> Append(state.path, word), currentWord |-> <<>>,
                         isComplete |-> word = EndWord, error |-> "none"]
       IN Shows(next, next.isComplete, Finish(next))
    /\ NoAnswerPending

Undo ==
    /\ Playing /\ Len(state.path) > 1
    /\ Plays([state EXCEPT !.path = Front(@), !.error = "none"])
    /\ NoAnswerPending

Next == SetInput \/ SubmitWord \/ Undo

------------------------------------------------------------------------------
IsLadder(path) ==
    /\ Head(path) = StartWord
    /\ \A i \in 2..Len(path) : path[i] \in WordList /\ IsOneLetterChange(path[i - 1], path[i])

(* The rungs are words, one letter apart, and none is used twice.          *)
Legal == IsLadder(state.path) /\ IsInjective(state.path)

(* A refusal on show is about the word on show.                            *)
Explained == state.error # "none" => state.currentWord # <<>> /\ state.error = Refusal(state.currentWord)

Right(finish) == IsLadder(finish.path) /\ Last(finish.path) = EndWord

Finished ==
    /\ Contains(state.path, EndWord) <=> state.isComplete
    /\ state.isComplete => ended /\ Last(sent) = Finish(state)
==============================================================================
