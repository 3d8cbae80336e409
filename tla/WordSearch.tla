------------------------------ MODULE WordSearch ------------------------------
(***************************************************************************)
(* Words hidden in a grid of letters are marked by dragging over them, in  *)
(* any of the eight directions and from either end.                        *)
(***************************************************************************)
EXTENDS GameBoard

CONSTANTS
    Size,     \* the grid is Size x Size
    Grid,     \* Grid[<<row, col>>]: the letter there
    Words     \* the words to find, none a reading of another backwards

Positions == (1..Size) \X (1..Size)
NoPosition == <<>>

CreateInitialState ==
    [foundWords |-> <<>>, foundPlacements |-> <<>>, selectionStart |-> NoPosition,
     selectionEnd |-> NoPosition, gameStatus |-> "playing", replay |-> FALSE]

Init == Starts(CreateInitialState)

Abs(n) == Max({n, -n})
Sign(n) == IF n > 0 THEN 1 ELSE IF n < 0 THEN -1 ELSE 0

IsLine(from, to) ==
    \/ from[1] = to[1] \/ from[2] = to[2]
    \/ Abs(to[1] - from[1]) = Abs(to[2] - from[2])

(* Empty when the selection is not a straight line.                        *)
GetWordFromPositions(from, to) ==
    IF ~IsLine(from, to) THEN <<>>
    ELSE [i \in 1..(Max({Abs(to[1] - from[1]), Abs(to[2] - from[2])}) + 1) |->
             Grid[<<from[1] + (i - 1) * Sign(to[1] - from[1]), from[2] + (i - 1) * Sign(to[2] - from[2])>>]]

DirectionOf(from, to) ==
    LET dr == Sign(to[1] - from[1])
        dc == Sign(to[2] - from[2])
    IN CASE dr = 0 -> IF dc < 0 THEN "horizontal-reverse" ELSE "horizontal"
         [] dr # 0 /\ dc = 0 -> IF dr < 0 THEN "vertical-reverse" ELSE "vertical"
         [] dr > 0 /\ dc # 0 -> IF dc > 0 THEN "diagonal-down" ELSE "diagonal-up-reverse"
         [] dr < 0 /\ dc # 0 -> IF dc > 0 THEN "diagonal-up" ELSE "diagonal-down-reverse"

GetDirectionVector(direction) ==
    CASE direction = "horizontal"            -> <<0, 1>>
      [] direction = "vertical"              -> <<1, 0>>
      [] direction = "diagonal-down"         -> <<1, 1>>
      [] direction = "diagonal-up"           -> <<-1, 1>>
      [] direction = "horizontal-reverse"    -> <<0, -1>>
      [] direction = "vertical-reverse"      -> <<-1, 0>>
      [] direction = "diagonal-down-reverse" -> <<-1, -1>>
      [] direction = "diagonal-up-reverse"   -> <<1, -1>>

Finish(s) == [foundWords |-> s.foundWords]

Playing == state.gameStatus = "playing"

StartSelection ==
    /\ Playing
    /\ \E p \in Positions : Plays([state EXCEPT !.selectionStart = p, !.selectionEnd = p])
    /\ NoAnswerPending

UpdateSelection ==
    /\ Playing /\ state.selectionStart # NoPosition
    /\ \E p \in Positions : Plays([state EXCEPT !.selectionEnd = p])
    /\ NoAnswerPending

(* A word read backwards is recorded from its own first letter.            *)
EndSelection ==
    /\ Playing /\ state.selectionStart # NoPosition
    /\ LET from    == state.selectionStart
           to      == state.selectionEnd
           read    == GetWordFromPositions(from, to)
           left    == Words \ ToSet(state.foundWords)
           cleared == [state EXCEPT !.selectionStart = NoPosition, !.selectionEnd = NoPosition]
           Finds(word, start, end) ==
               [cleared EXCEPT
                   !.foundWords = Append(@, word),
                   !.foundPlacements = Append(@, [word |-> word, start |-> start, end |-> end,
                                                  direction |-> DirectionOf(start, end)]),
                   !.gameStatus = IF Len(state.foundWords) + 1 = Cardinality(Words) THEN "won" ELSE "playing"]
           next    == IF read \in left THEN Finds(read, from, to)
                      ELSE IF Reverse(read) \in left THEN Finds(Reverse(read), to, from)
                      ELSE cleared
       IN Shows(next, next.gameStatus = "won", Finish(next))
    /\ NoAnswerPending

(* Start over is offered after a win too, and the finish ref stays set.    *)
HandleReset == Replays(CreateInitialState)

Next == StartSelection \/ UpdateSelection \/ EndSelection \/ HandleReset

------------------------------------------------------------------------------
(* A word is found once, and a selection has both ends or none.            *)
Legal ==
    /\ IsInjective(state.foundWords) /\ ToSet(state.foundWords) \subseteq Words
    /\ state.selectionStart = NoPosition <=> state.selectionEnd = NoPosition

(* Each recorded placement, walked from its start in its direction, spells *)
(* its word and stops at its end.                                          *)
Explained ==
    /\ Len(state.foundPlacements) = Len(state.foundWords)
    /\ \A i \in DOMAIN state.foundPlacements :
        LET placed  == state.foundPlacements[i]
            vector  == GetDirectionVector(placed.direction)
            Step(k) == <<placed.start[1] + k * vector[1], placed.start[2] + k * vector[2]>>
        IN /\ placed.word = state.foundWords[i]
           /\ \A k \in DOMAIN placed.word : placed.word[k] = Grid[Step(k - 1)]
           /\ placed.end = Step(Len(placed.word) - 1)

Right(finish) == ToSet(finish.foundWords) = Words /\ Len(finish.foundWords) = Cardinality(Words)

(* Won with the last word, and the first win is handed over.               *)
Finished ==
    /\ ToSet(state.foundWords) = Words <=> state.gameStatus = "won"
    /\ HandsOverTheFirst(state.gameStatus = "won", state.replay, Finish(state))
==============================================================================
