------------------------------- MODULE WordBox -------------------------------
(***************************************************************************)
(* Words are spelled with the letters around a box, never two in a row of  *)
(* one side, each word starting where the last one ended, until every      *)
(* letter is used. The page accepts any word of three letters.             *)
(***************************************************************************)
EXTENDS GameBoard

CONSTANTS
    Side,                  \* Side[letter]: the side of the box it is on
    MinLength,             \* 3
    MaxLength, MaxWords    \* bounds on the words of a run

Letters == DOMAIN Side

CreateInitialState ==
    [words |-> <<>>, currentWord |-> <<>>, usedLetters |-> {}, gameStatus |-> "playing", replay |-> FALSE]

Init == Starts(CreateInitialState)

HasValidSideTransitions(word) == \A i \in 2..Len(word) : Side[word[i - 1]] # Side[word[i]]

StartsWithLastLetter(words, word) == words # <<>> => Last(Last(words)) = Head(word)

GetUsedLetters(words) == UNION {ToSet(words[i]) : i \in DOMAIN words}

Finish(s) == [words |-> s.words]

Playing == state.gameStatus = "playing"

AddLetter ==
    /\ Playing /\ Len(state.currentWord) < MaxLength
    /\ \E l \in Letters :
        LET word == Append(state.currentWord, l)
        IN HasValidSideTransitions(word) /\ Plays([state EXCEPT !.currentWord = word])
    /\ NoAnswerPending

DeleteLetter ==
    /\ Playing /\ state.currentWord # <<>>
    /\ Plays([state EXCEPT !.currentWord = Front(@)])
    /\ NoAnswerPending

SubmitWord ==
    /\ Playing /\ Len(state.words) < MaxWords
    /\ Len(state.currentWord) >= MinLength
    /\ HasValidSideTransitions(state.currentWord)
    /\ StartsWithLastLetter(state.words, state.currentWord)
    /\ LET words == Append(state.words, state.currentWord)
           used  == GetUsedLetters(words)
           next  == [state EXCEPT !.words = words, !.currentWord = <<>>, !.usedLetters = used,
                                  !.gameStatus = IF Letters \subseteq used THEN "won" ELSE "playing"]
       IN Shows(next, next.gameStatus = "won", Finish(next))
    /\ NoAnswerPending

(* Start over is offered after a win too, and the finish ref stays set.    *)
HandleReset == Replays(CreateInitialState)

Next == AddLetter \/ DeleteLetter \/ SubmitWord \/ HandleReset

------------------------------------------------------------------------------
Chained(words) == \A i \in 2..Len(words) : Last(words[i - 1]) = Head(words[i])

(* What is typed or accepted never stays on a side, and the words chain.   *)
Legal ==
    /\ Chained(state.words)
    /\ \A i \in DOMAIN state.words : HasValidSideTransitions(state.words[i])
    /\ HasValidSideTransitions(state.currentWord)

(* A letter shown as used is in an accepted word, and the other way round. *)
Explained ==
    \A l \in Letters : l \in state.usedLetters <=> \E i \in DOMAIN state.words : l \in ToSet(state.words[i])

Right(finish) == Chained(finish.words) /\ Letters \subseteq GetUsedLetters(finish.words)

(* Won with the last letter, and the first win is handed over.             *)
Finished ==
    /\ state.usedLetters = Letters <=> state.gameStatus = "won"
    /\ HandsOverTheFirst(state.gameStatus = "won", state.replay, Finish(state))
==============================================================================
