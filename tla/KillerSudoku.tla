----------------------------- MODULE KillerSudoku -----------------------------
(***************************************************************************)
(* A sudoku whose cages have sums, with pencil notes and no undo. A cell   *)
(* without a value holds 0.                                                *)
(***************************************************************************)
EXTENDS GameBoard

CONSTANTS
    BOX_SIZE, Puzzle,       \* Puzzle[row][col]: the clue or 0
    Cages,                  \* records [cells, sum]; the cells are a partition of the grid
    Typed, Noted            \* what is typed in the cells selected in a run, and where notes are taken

GRID_SIZE == BOX_SIZE * BOX_SIZE
Cells == (1..GRID_SIZE) \X (1..GRID_SIZE)
Nowhere == <<0, 0>>

IsGiven(cell) == Puzzle[cell[1]][cell[2]] # 0

CreateInitialState ==
    [cells |-> [c \in Cells |-> [value |-> Puzzle[c[1]][c[2]], notes |-> {}]],
     selectedCell |-> Nowhere, notesMode |-> FALSE, gameStatus |-> "playing", replay |-> FALSE]

Init == Starts(CreateInitialState)

Box(cell) == <<(cell[1] - 1) \div BOX_SIZE, (cell[2] - 1) \div BOX_SIZE>>
SameLine(c) == {d \in Cells : c[1] = d[1] \/ c[2] = d[2] \/ Box(c) = Box(d)}
SameCage(c) == UNION {cage.cells : cage \in {k \in Cages : c \in k.cells}}

Clash(cells, c, group) ==
    cells[c].value # 0 /\ \E d \in group \ {c} : cells[d].value = cells[c].value

HasConflict(cells, c) == Clash(cells, c, SameLine(c)) \/ Clash(cells, c, SameCage(c))

CageSum(cells, cage) == FoldSet(LAMBDA c, sum : sum + cells[c].value, 0, cage.cells)

IsSolved(cells) ==
    /\ \A c \in Cells : cells[c].value # 0 /\ ~Clash(cells, c, SameLine(c))
    /\ \A cage \in Cages : CageSum(cells, cage) = cage.sum

Finish(s) == [finalGrid |-> [c \in Cells |-> s.cells[c].value]]

Playing == state.gameStatus = "playing"


Editable == Playing /\ state.selectedCell # Nowhere /\ ~IsGiven(state.selectedCell)

(* A click, or an arrow key to a neighbour inside the grid.                *)
SelectCell ==
    /\ Playing
    /\ \E c \in DOMAIN Typed : Plays([state EXCEPT !.selectedCell = c])
    /\ NoAnswerPending

SetValue ==
    /\ Editable /\ ~state.notesMode
    /\ \E v \in Typed[state.selectedCell] :
         LET cells == [state.cells EXCEPT ![state.selectedCell] = [value |-> v, notes |-> {}]]
             next  == [state EXCEPT !.cells = cells, !.gameStatus = IF IsSolved(cells) THEN "won" ELSE @]
         IN Shows(next, IsSolved(cells), Finish(next))
    /\ NoAnswerPending

(* A note takes the place of the cell's value.                             *)
SetNote ==
    /\ Editable /\ state.notesMode /\ state.selectedCell \in Noted
    /\ \E v \in Typed[state.selectedCell] :
         Plays([state EXCEPT !.cells[state.selectedCell] = [value |-> 0, notes |-> SymDiff(@.notes, {v})]])
    /\ NoAnswerPending

ClearCell ==
    /\ Editable
    /\ Plays([state EXCEPT !.cells[state.selectedCell] = [value |-> 0, notes |-> {}]])
    /\ NoAnswerPending

(* The page's keys work while playing, its button always.                  *)
ToggleNotesMode == Noted # {} /\ Plays([state EXCEPT !.notesMode = ~@]) /\ NoAnswerPending

StartOver == Replays(CreateInitialState)

Next == SelectCell \/ SetValue \/ SetNote \/ ClearCell \/ ToggleNotesMode \/ StartOver

------------------------------------------------------------------------------
Legal ==
    \A c \in Cells : /\ IsGiven(c) => state.cells[c] = CreateInitialState.cells[c]
                     /\ state.cells[c].value # 0 => state.cells[c].notes = {}

(* A won board is full, and what is marked in red on it is in a cage.      *)
Explained ==
    state.gameStatus = "won" => \A c \in Cells : HasConflict(state.cells, c) => Clash(state.cells, c, SameCage(c))

(* What the page checks. That no digit repeats in a cage is not part of it.*)
Right(finish) ==
    /\ \A i \in 1..GRID_SIZE :
         /\ {finish.finalGrid[<<i, j>>] : j \in 1..GRID_SIZE} = 1..GRID_SIZE
         /\ {finish.finalGrid[<<j, i>>] : j \in 1..GRID_SIZE} = 1..GRID_SIZE
    /\ \A c \in Cells : {finish.finalGrid[d] : d \in {e \in Cells : Box(e) = Box(c)}} = 1..GRID_SIZE
    /\ \A cage \in Cages : MapThenSumSet(LAMBDA c : finish.finalGrid[c], cage.cells) = cage.sum
    /\ \A c \in Cells : IsGiven(c) => finish.finalGrid[c] = Puzzle[c[1]][c[2]]

(* A grid solved so is won, and the first one won is handed over.          *)
Finished ==
    /\ IsSolved(state.cells) => state.gameStatus = "won"
    /\ HandsOverTheFirst(state.gameStatus = "won", state.replay, Finish(state))
==============================================================================
