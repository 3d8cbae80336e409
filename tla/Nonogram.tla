------------------------------- MODULE Nonogram -------------------------------
(***************************************************************************)
(* A picture from the runs of filled cells in each row and column. The     *)
(* page judges lines by the served clues; it has no solution.              *)
(***************************************************************************)
EXTENDS GameBoard

CONSTANTS RowClues, ColClues   \* sequences of clues; a clue is a sequence of runs, <<0>> if empty

Rows == DOMAIN RowClues
Cols == DOMAIN ColClues
Cells == Rows \X Cols

InitialState ==
    [userGrid |-> [c \in Cells |-> "empty"], isComplete |-> FALSE, fillMode |-> "fill",
     completedRows |-> {}, completedCols |-> {}]

Init == Starts(InitialState)

(* The filled runs of a line, written like a clue.                         *)
LineRuns(filled) ==
    LET Count(runs, i) ==
            IF ~filled[i] THEN runs
            ELSE IF i > 1 /\ filled[i - 1] THEN [runs EXCEPT ![Len(runs)] = @ + 1]
            ELSE Append(runs, 1)
        runs == FoldLeft(Count, <<>>, [i \in DOMAIN filled |-> i])
    IN IF runs = <<>> THEN <<0>> ELSE runs

IsRowClueMet(grid, row) == LineRuns([col \in Cols |-> grid[<<row, col>>] = "filled"]) = RowClues[row]
IsColClueMet(grid, col) == LineRuns([row \in Rows |-> grid[<<row, col>>] = "filled"]) = ColClues[col]
IsGridClueComplete(grid) ==
    (\A row \in Rows : IsRowClueMet(grid, row)) /\ \A col \in Cols : IsColClueMet(grid, col)

Finish(s) == [finalGrid |-> [c \in Cells |-> s.userGrid[c] = "filled"]]

(* Only the lines through the cell are judged again.                       *)
Paints(c, cell) ==
    LET grid == [state.userGrid EXCEPT ![c] = cell]
        next == [state EXCEPT
                   !.userGrid = grid, !.isComplete = IsGridClueComplete(grid),
                   !.completedRows = IF IsRowClueMet(grid, c[1]) THEN @ \cup {c[1]} ELSE @ \ {c[1]},
                   !.completedCols = IF IsColClueMet(grid, c[2]) THEN @ \cup {c[2]} ELSE @ \ {c[2]}]
    IN /\ ~state.isComplete
       /\ Shows(next, next.isComplete, Finish(next))
       /\ NoAnswerPending

Toggled(cell, painted) == IF cell = "empty" THEN painted ELSE IF cell = painted THEN "empty" ELSE cell

Primary == IF state.fillMode = "fill" THEN "filled" ELSE "marked"
Secondary == IF state.fillMode = "fill" THEN "marked" ELSE "filled"

ToggleCell == \E c \in Cells : Paints(c, Toggled(state.userGrid[c], Primary))

(* The right button paints the other way; the page skips a cell it would   *)
(* not change.                                                             *)
SetCell ==
    \E c \in Cells :
        /\ state.userGrid[c] \in {"empty", Secondary}
        /\ Paints(c, Toggled(state.userGrid[c], Secondary))

ToggleMode ==
    /\ ~state.isComplete
    /\ Plays([state EXCEPT !.fillMode = IF @ = "fill" THEN "mark" ELSE "fill"])
    /\ NoAnswerPending

Next == ToggleCell \/ SetCell \/ ToggleMode

------------------------------------------------------------------------------
(* A line shown as done meets its clue. (An empty line that was never      *)
(* touched may meet it unshown.)                                           *)
Legal ==
    /\ \A row \in state.completedRows : IsRowClueMet(state.userGrid, row)
    /\ \A col \in state.completedCols : IsColClueMet(state.userGrid, col)

(* A line with something to fill is shown as done exactly when it is.      *)
Explained ==
    /\ \A row \in Rows : RowClues[row] # <<0>> =>
         (IsRowClueMet(state.userGrid, row) <=> row \in state.completedRows)
    /\ \A col \in Cols : ColClues[col] # <<0>> =>
         (IsColClueMet(state.userGrid, col) <=> col \in state.completedCols)

(* A clue by its meaning: as many maximal runs as the clue says, and each  *)
(* as long.                                                                *)
Meets(filled, clue) ==
    LET starts == {i \in DOMAIN filled : filled[i] /\ (i = 1 \/ ~filled[i - 1])}
        Length(i) == Cardinality({j \in DOMAIN filled : j >= i /\ \A k \in i..j : filled[k]})
    IN IF clue = <<0>> THEN starts = {}
       ELSE /\ Cardinality(starts) = Len(clue)
            /\ \A i \in starts : Length(i) = clue[Cardinality({j \in starts : j =< i})]

Right(finish) ==
    /\ \A row \in Rows : Meets([col \in Cols |-> finish.finalGrid[<<row, col>>]], RowClues[row])
    /\ \A col \in Cols : Meets([row \in Rows |-> finish.finalGrid[<<row, col>>]], ColClues[col])

Finished ==
    /\ IsGridClueComplete(state.userGrid) => state.isComplete
    /\ state.isComplete => ended /\ Last(sent) = Finish(state)
==============================================================================
