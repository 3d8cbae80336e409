------------------------------ MODULE NumberPath ------------------------------
(***************************************************************************)
(* A path is drawn by clicking or dragging over the grid, through every    *)
(* cell once, so that each clue is the number of its own step.             *)
(***************************************************************************)
EXTENDS GameBoard

CONSTANTS
    Size,    \* the grid is Size x Size
    Clues    \* Clues[cell]: the number printed there, or 0

Cells == (1..Size) \X (1..Size)

CreateInitialState == [path |-> <<>>, gameStatus |-> "playing"]

Init == Starts(CreateInitialState)

IsOrthogonalNeighbor(a, b) ==
    LET Abs(n) == Max({n, -n}) IN Abs(a[1] - b[1]) + Abs(a[2] - b[2]) = 1

IsPath(path) == \A i \in 2..Len(path) : IsOrthogonalNeighbor(path[i - 1], path[i])

IsSolved(path) ==
    /\ Len(path) = Cardinality(Cells) /\ ToSet(path) = Cells
    /\ IsPath(path)
    /\ \A c \in Cells : Clues[c] # 0 => path[Clues[c]] = c

Finish(s) == [path |-> s.path]

Playing == state.gameStatus = "playing"

WithWinCheck(path) ==
    LET won == IsSolved(path)
        next == [path |-> path, gameStatus |-> IF won THEN "won" ELSE "playing"]
    IN Shows(next, won, Finish(next)) /\ NoAnswerPending

(* The first cell is the one of clue 1.                                    *)
TouchStart ==
    /\ Playing /\ state.path = <<>>
    /\ \E c \in Cells : Clues[c] = 1 /\ WithWinCheck(<<c>>)

(* A cell of the path cuts the path behind it.                             *)
TouchBack ==
    /\ Playing
    /\ \E i \in DOMAIN state.path : WithWinCheck(SubSeq(state.path, 1, i))

TouchNext ==
    /\ Playing /\ state.path # <<>>
    /\ \E c \in Cells \ ToSet(state.path) :
        /\ IsOrthogonalNeighbor(Last(state.path), c)
        /\ Clues[c] \in {0, Len(state.path) + 1}
        /\ WithWinCheck(Append(state.path, c))

Undo ==
    /\ Playing /\ state.path # <<>>
    /\ Plays([state EXCEPT !.path = Front(@)]) /\ NoAnswerPending

HandleReset == Playing /\ StartsOver(CreateInitialState)

Next == TouchStart \/ TouchBack \/ TouchNext \/ Undo \/ HandleReset

------------------------------------------------------------------------------
(* The path never crosses itself, leaves no gap and starts at clue 1.      *)
Legal ==
    /\ IsInjective(state.path) /\ IsPath(state.path)
    /\ state.path # <<>> => Clues[Head(state.path)] = 1

(* Every clue the path went over is at its own step, after any cut.        *)
Explained == \A i \in DOMAIN state.path : Clues[state.path[i]] \in {0, i}

(* A finish is a tour of the grid: one cell per number, and the clue of a  *)
(* number on the cell of that step.                                        *)
Right(finish) ==
    /\ \A c \in Cells : Cardinality({i \in DOMAIN finish.path : finish.path[i] = c}) = 1
    /\ \A i \in DOMAIN finish.path : \A c \in Cells : Clues[c] = i => finish.path[i] = c

Finished ==
    /\ state.gameStatus = "won" <=> IsSolved(state.path)
    /\ state.gameStatus = "won" => ended /\ Last(sent) = Finish(state)
==============================================================================
