-------------------------------- MODULE Sudoku --------------------------------
(***************************************************************************)
(* A sudoku with pencil notes and an undo of single edits. A cell without  *)
(* a value holds 0.                                                        *)
(***************************************************************************)
EXTENDS GameBoard

CONSTANTS
    BOX_SIZE, Puzzle,      \* Puzzle[row][col]: the clue or 0
    Typed,                 \* the cells selected in a run, each with what is typed there
    MaxEdits               \* bound on the edits not undone

GRID_SIZE == BOX_SIZE * BOX_SIZE
Cells == (1..GRID_SIZE) \X (1..GRID_SIZE)
Nowhere == <<0, 0>>

IsGiven(cell) == Puzzle[cell[1]][cell[2]] # 0
Box(cell) == <<(cell[1] - 1) \div BOX_SIZE, (cell[2] - 1) \div BOX_SIZE>>
Peers(cell) == {c \in Cells \ {cell} : c[1] = cell[1] \/ c[2] = cell[2] \/ Box(c) = Box(cell)}

CreateInitialState ==
    [userGrid |-> [c \in Cells |-> [value |-> Puzzle[c[1]][c[2]], notes |-> {}]],
     selectedCell |-> Nowhere, history |-> <<>>, isComplete |-> FALSE, isNotesMode |-> FALSE]

Init == Starts(CreateInitialState)

IsGridSolved(grid) ==
    \A c \in Cells : grid[c].value \in 1..GRID_SIZE /\ \A p \in Peers(c) : grid[p].value # grid[c].value

GetConflictingCells ==
    {c \in Cells : /\ state.userGrid[c].value # 0
                   /\ \E p \in Peers(c) : state.userGrid[p].value = state.userGrid[c].value}

Finish(s) == [finalGrid |-> [c \in Cells |-> s.userGrid[c].value]]

(* SELECT_CELL, and MOVE, which selects a neighbour inside the grid.       *)
SelectCell ==
    \E c \in DOMAIN Typed : Plays([state EXCEPT !.selectedCell = c]) /\ NoAnswerPending

ToggleNotesMode == Plays([state EXCEPT !.isNotesMode = ~@]) /\ NoAnswerPending

Editable == state.selectedCell # Nowhere /\ ~state.isComplete /\ ~IsGiven(state.selectedCell)

(* An edit that changes a cell is recorded with every cell it changed, one *)
(* that changes none leaves the state alone.                               *)
Edits(grid, complete) ==
    LET changed == {c \in Cells : grid[c] # state.userGrid[c]}
        next == [state EXCEPT
                   !.userGrid = grid, !.isComplete = complete,
                   !.history = Append(@, [selectedCell |-> state.selectedCell,
                                          cells |-> [c \in changed |-> state.userGrid[c]]])]
    IN /\ Len(state.history) < MaxEdits
       /\ changed # {}
       /\ Shows(next, complete, Finish(next))
       /\ NoAnswerPending

InputNumber ==
    /\ Editable /\ ~state.isNotesMode
    /\ \E v \in Typed[state.selectedCell] :
         LET here == state.selectedCell
             grid == [c \in Cells |->
                        IF c = here THEN [value |-> v, notes |-> {}]
                        ELSE IF c \in Peers(here) THEN [state.userGrid[c] EXCEPT !.notes = @ \ {v}]
                        ELSE state.userGrid[c]]
         IN Edits(grid, IsGridSolved(grid))

InputNote ==
    /\ Editable /\ state.isNotesMode
    /\ state.userGrid[state.selectedCell].value = 0
    /\ \E v \in Typed[state.selectedCell] :
         Edits([state.userGrid EXCEPT ![state.selectedCell].notes = SymDiff(@, {v})], FALSE)

ClearCell ==
    /\ Editable
    /\ Edits([state.userGrid EXCEPT ![state.selectedCell] = [value |-> 0, notes |-> {}]], FALSE)

(* The grid before an edit, from the grid after it.                        *)
Before(edit, grid) ==
    [c \in Cells |-> IF c \in DOMAIN edit.cells THEN edit.cells[c] ELSE grid[c]]

Undo ==
    /\ ~state.isComplete /\ state.history # <<>>
    /\ LET edit == Last(state.history)
       IN Plays([state EXCEPT !.userGrid = Before(edit, @), !.selectedCell = edit.selectedCell,
                              !.history = Front(@)])
    /\ NoAnswerPending

Next == SelectCell \/ ToggleNotesMode \/ InputNumber \/ InputNote \/ ClearCell \/ Undo

------------------------------------------------------------------------------
Legal ==
    \A c \in Cells : /\ IsGiven(c) => state.userGrid[c] = CreateInitialState.userGrid[c]
                     /\ state.userGrid[c].value # 0 => state.userGrid[c].notes = {}

(* Undoing everything leads back to the puzzle as served, and a board with *)
(* nothing to mend is complete.                                            *)
Explained ==
    /\ FoldRight(Before, state.history, state.userGrid) = CreateInitialState.userGrid
    /\ (GetConflictingCells = {} /\ \A c \in Cells : state.userGrid[c].value # 0) <=> state.isComplete

(* Every row, column and box has every digit, and the clues stand.         *)
Right(finish) ==
    /\ \A i \in 1..GRID_SIZE :
         /\ {finish.finalGrid[<<i, j>>] : j \in 1..GRID_SIZE} = 1..GRID_SIZE
         /\ {finish.finalGrid[<<j, i>>] : j \in 1..GRID_SIZE} = 1..GRID_SIZE
    /\ \A c \in Cells : {finish.finalGrid[d] : d \in {e \in Cells : Box(e) = Box(c)}} = 1..GRID_SIZE
    /\ \A c \in Cells : IsGiven(c) => finish.finalGrid[c] = Puzzle[c[1]][c[2]]

Finished ==
    /\ IsGridSolved(state.userGrid) => state.isComplete
    /\ state.isComplete => ended /\ Last(sent) = Finish(state)
==============================================================================
