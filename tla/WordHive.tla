------------------------------ MODULE WordHive ------------------------------
(***************************************************************************)
(* As many words as one can make of a few letters, each with the centre    *)
(* letter; the server says whether a word is in the list. Play goes on     *)
(* after the finish is handed over. The order of the letters is left out.  *)
(***************************************************************************)
EXTENDS GameBoard

CONSTANTS CenterLetter, OuterLetters, WordList, Pangrams, MIN_WORD_LENGTH,
          MaxTyped   \* bound on the letters typed

(* Ranks by percentage of the maximum score, lowest first.                 *)
RANK_THRESHOLDS ==
    << <<"beginner", 0>>, <<"good-start", 2>>, <<"moving-up", 5>>, <<"good", 8>>, <<"solid", 15>>,
       <<"nice", 25>>, <<"great", 40>>, <<"amazing", 50>>, <<"genius", 70>>, <<"queen-bee", 100>> >>

CalculateWordScore(word) ==
    IF Len(word) = MIN_WORD_LENGTH THEN 1
    ELSE Len(word) + (IF word \in Pangrams THEN 7 ELSE 0)

ScoreOf(words) == FoldSet(LAMBDA w, sum : sum + CalculateWordScore(w), 0, words)

MaxScore == ScoreOf(WordList)

GetRankForScore(score) ==
    RANK_THRESHOLDS[Max({r \in DOMAIN RANK_THRESHOLDS : score * 100 >= RANK_THRESHOLDS[r][2] * MaxScore})][1]

(* The number of words is unknown until the first accepted word.           *)
CreateInitialState ==
    [grading |-> FALSE, currentWord |-> <<>>, foundWords |-> <<>>, score |-> 0, totalWords |-> 0,
     gameStatus |-> "playing", rank |-> "beginner"]

Init == Starts(CreateInitialState)

AddLetter ==
    /\ state.gameStatus = "playing" /\ ~state.grading
    /\ Len(state.currentWord) < MaxTyped
    /\ \E l \in OuterLetters \cup {CenterLetter} : Plays([state EXCEPT !.currentWord = Append(@, l)])
    /\ NoAnswerPending

DeleteLetter ==
    /\ state.gameStatus = "playing" /\ ~state.grading
    /\ state.currentWord # <<>>
    /\ Plays([state EXCEPT !.currentWord = Front(@)])
    /\ NoAnswerPending

TrySubmitWord ==
    /\ ~state.grading
    /\ Len(state.currentWord) >= MIN_WORD_LENGTH
    /\ CenterLetter \in Range(state.currentWord)
    /\ state.currentWord \notin Range(state.foundWords)
    /\ Plays([state EXCEPT !.grading = TRUE])
    /\ asked' = Append(asked, state.currentWord)

ApplyWord ==
    \E i \in DOMAIN asked :
        LET word  == asked[i]
            found == Append(state.foundWords, word)
            score == state.score + CalculateWordScore(word)
            total == Cardinality(WordList)
            next  == [state EXCEPT
                        !.grading = FALSE, !.currentWord = <<>>, !.foundWords = found, !.score = score,
                        !.rank = GetRankForScore(score), !.totalWords = total,
                        !.gameStatus = IF Len(found) >= total THEN "won" ELSE "playing"]
        IN /\ word \in WordList
           /\ state.gameStatus = "playing" /\ word \notin Range(state.foundWords)
           /\ Shows(next, next.rank = "genius" \/ next.gameStatus = "won",
                    [status |-> "won", foundWords |-> found])
           /\ asked' = RemoveAt(asked, i)

(* Not in the list, or not graded: the letters stay for the player to edit. *)
RejectWord ==
    \E i \in DOMAIN asked :
        Plays([state EXCEPT !.grading = FALSE]) /\ asked' = RemoveAt(asked, i)

Next == AddLetter \/ DeleteLetter \/ TrySubmitWord \/ ApplyWord \/ RejectWord

------------------------------------------------------------------------------
Legal ==
    /\ Len(asked) = (IF state.grading THEN 1 ELSE 0)
    /\ Range(state.foundWords) \subseteq WordList
    /\ IsInjective(state.foundWords)

Explained ==
    /\ state.score = ScoreOf(Range(state.foundWords))
    /\ state.rank = "queen-bee" <=> Range(state.foundWords) = WordList
    /\ state.gameStatus = "won" <=> Range(state.foundWords) = WordList

Right(finish) ==
    /\ IsInjective(finish.foundWords) /\ Range(finish.foundWords) \subseteq WordList
    /\ 10 * ScoreOf(Range(finish.foundWords)) >= 7 * MaxScore

(* Genius may be jumped over: the last word can lead from below it to the  *)
(* end of the list.                                                        *)
Finished == 10 * state.score >= 7 * MaxScore => ended /\ IsPrefix(Last(sent).foundWords, state.foundWords)
==============================================================================
