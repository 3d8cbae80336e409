-------------------------------- MODULE Queens --------------------------------
(***************************************************************************)
(* One crown in each row, column and region, no two touching. Clicks place *)
(* and take back; the keyboard also clears the selected cell.              *)
(***************************************************************************)
EXTENDS GameBoard

CONSTANTS
    Regions,                \* Regions[row][col]: the region of a cell
    Touched, MaxQueens      \* the cells played in a run, and a bound on the crowns on the board

Size == Len(Regions)
Cells == (1..Size) \X (1..Size)
Nowhere == <<0, 0>>
Region(c) == Regions[c[1]][c[2]]

CreateInitialState == [grid |-> {}, selectedCell |-> Nowhere, isComplete |-> FALSE]

Init == Starts(CreateInitialState)

GetConflicts(grid, c) ==
    {d \in grid \ {c} : \/ d[1] = c[1] \/ d[2] = c[2] \/ Region(d) = Region(c)
                        \/ d[1] - c[1] \in -1..1 /\ d[2] - c[2] \in -1..1}

IsSolved(grid) ==
    /\ Cardinality(grid) = Size
    /\ \A c \in grid : GetConflicts(grid, c) = {}
    /\ {c[1] : c \in grid} = 1..Size /\ {c[2] : c \in grid} = 1..Size
    /\ {Region(c) : c \in grid} = {Region(c) : c \in Cells}

GetConflictingCells == UNION {GetConflicts(state.grid, c) : c \in state.grid}

Finish(s) == [finalGrid |-> s.grid]

ToggleQueen ==
    \E c \in Touched :
        LET grid == SymDiff(state.grid, {c})
            next == [grid |-> grid, selectedCell |-> c, isComplete |-> IsSolved(grid)]
        IN /\ ~state.isComplete
           /\ Cardinality(grid) =< MaxQueens
           /\ Shows(next, next.isComplete, Finish(next))
           /\ NoAnswerPending

(* The board is not judged again after a clear.                            *)
ClearCell ==
    /\ state.selectedCell # Nowhere /\ ~state.isComplete
    /\ Plays([state EXCEPT !.grid = @ \ {state.selectedCell}])
    /\ NoAnswerPending

Neighbours(c) ==
    {<<Max({1, c[1] - 1}), c[2]>>, <<Min({Size, c[1] + 1}), c[2]>>,
     <<c[1], Max({1, c[2] - 1})>>, <<c[1], Min({Size, c[2] + 1})>>}

Move ==
    /\ \E c \in IF state.selectedCell = Nowhere
                THEN {<<Size \div 2 + 1, Size \div 2 + 1>>} ELSE Neighbours(state.selectedCell) :
         Plays([state EXCEPT !.selectedCell = c])
    /\ NoAnswerPending

(* The page's reset also rewinds the session and forgets the finish.       *)
HandleReset ==
    /\ ~state.isComplete
    /\ state' = CreateInitialState /\ ended' = FALSE
    /\ UNCHANGED <<asked, sent>>

Next == ToggleQueen \/ ClearCell \/ Move \/ HandleReset

------------------------------------------------------------------------------
Legal == state.selectedCell \in Cells \cup {Nowhere} /\ state.grid \subseteq Cells

(* A complete board shows no conflict, and a full board without conflicts  *)
(* has a crown in every row, column and region.                            *)
Explained ==
    /\ state.isComplete => GetConflictingCells = {}
    /\ Cardinality(state.grid) = Size /\ GetConflictingCells = {} => IsSolved(state.grid)

Right(finish) ==
    /\ \A i \in 1..Size : /\ Cardinality({c \in finish.finalGrid : c[1] = i}) = 1
                          /\ Cardinality({c \in finish.finalGrid : c[2] = i}) = 1
    /\ \A c \in Cells : Cardinality({d \in finish.finalGrid : Region(d) = Region(c)}) = 1
    /\ \A c, d \in finish.finalGrid : c # d => Max({c[1] - d[1], d[1] - c[1], c[2] - d[2], d[2] - c[2]}) > 1

Finished == state.isComplete => IsSolved(state.grid) /\ ended /\ Last(sent) = Finish(state)
==============================================================================
