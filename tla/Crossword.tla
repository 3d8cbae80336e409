------------------------------ MODULE Crossword ------------------------------
(***************************************************************************)
(* Letters are typed along the across or down direction. A full grid is    *)
(* handed to the session, whose answer comes from the server: the board is *)
(* complete when the finish is accepted, and goes on when it is not. The   *)
(* page's effect depends on endGame, which is new at every render: a full  *)
(* grid is handed over by any render while no answer is awaited, and so    *)
(* again by the render that follows a failure.                             *)
(***************************************************************************)
EXTENDS GameBoard

CONSTANTS
    GRID_SIZE,
    Black,          \* the black squares
    Letters,
    Clues,          \* the words, each a direction and the tuple of its cells
    MaxFinishes     \* bound on the finishes of a run

LetterCells == ((1..GRID_SIZE) \X (1..GRID_SIZE)) \ Black
Blank == "blank"

FirstCell == CHOOSE c \in LetterCells :
                \A d \in LetterCells : c[1] < d[1] \/ (c[1] = d[1] /\ c[2] =< d[2])

CreateInitialState ==
    [userGrid |-> [c \in LetterCells |-> Blank], selectedCell |-> FirstCell, direction |-> "across",
     isFilled |-> FALSE, solvedClues |-> {}, isComplete |-> FALSE]

Init == Starts(CreateInitialState)

ResolveDirection(requested) ==
    IF \E clue \in Clues : clue.direction = "down" THEN requested ELSE "across"
Turned(direction) == ResolveDirection(IF direction = "across" THEN "down" ELSE "across")

IsClueFilled(userGrid, clue) == \A i \in DOMAIN clue.cells : userGrid[clue.cells[i]] # Blank
IsGridFilled(userGrid) == \A c \in LetterCells : userGrid[c] # Blank

(* The nearest letter cell after (way = 1) or before (-1) a cell along the *)
(* direction, over black squares; the cell itself when there is none.      *)
Neighbour(cell, direction, way) ==
    LET along == IF direction = "across" THEN 2 ELSE 1
        line  == {c \in LetterCells : c[3 - along] = cell[3 - along] /\ way * (c[along] - cell[along]) > 0}
    IN IF line = {} THEN cell
       ELSE CHOOSE c \in line : \A d \in line : way * (d[along] - c[along]) >= 0

Finish(s) == [finalGrid |-> s.userGrid]

(* A render with reducer state s, and the effect after it: the flag is as  *)
(* the last render left it, and after an edit is computed again.           *)
Renders(s) ==
    /\ state' = s
    /\ UNCHANGED ended
    /\ IF asked = <<>> /\ ~s.isComplete /\ (state.isFilled \/ s.isFilled)
       THEN /\ Len(sent) < MaxFinishes
            /\ asked' = <<Finish(s)>> /\ sent' = Append(sent, Finish(s))
       ELSE UNCHANGED <<asked, sent>>

(* The grid changed: what is filled in is computed again.                  *)
Edits(next) ==
    Renders([next EXCEPT !.isFilled = IsGridFilled(next.userGrid),
                         !.solvedClues = {clue \in Clues : IsClueFilled(next.userGrid, clue)}])

InputLetter ==
    /\ ~state.isComplete
    /\ \E l \in Letters :
        Edits([state EXCEPT !.userGrid[state.selectedCell] = l,
                            !.selectedCell = Neighbour(@, state.direction, 1)])

(* An empty cell moves the cursor back and empties the cell before it.     *)
DeleteLetter ==
    /\ ~state.isComplete
    /\ LET here == state.selectedCell
           cell == IF state.userGrid[here] # Blank THEN here ELSE Neighbour(here, state.direction, -1)
       IN /\ state.userGrid[here] # Blank \/ cell # here
          /\ Edits([state EXCEPT !.userGrid[cell] = Blank, !.selectedCell = cell])

(* The cell touched again turns the direction.                             *)
SelectedAt(s, cell) ==
    IF s.selectedCell = cell THEN [s EXCEPT !.direction = Turned(@)] ELSE [s EXCEPT !.selectedCell = cell]

SelectCell == \E c \in LetterCells : Renders(SelectedAt(state, c))

ToggleDirection == Renders([state EXCEPT !.direction = Turned(@)])

ArrowKey ==
    \E requested \in {"across", "down"}, way \in {1, -1} :
        /\ ResolveDirection(requested) = requested
        /\ Renders([state EXCEPT !.direction = requested, !.selectedCell = Neighbour(@, requested, way)])

(* Sets the direction, then selects the first cell as a touch would.       *)
HandleClueClick ==
    \E clue \in Clues :
        Renders(SelectedAt([state EXCEPT !.direction = ResolveDirection(clue.direction)], Head(clue.cells)))

(* endGame's answer. The server accepts the solution, and answers a game   *)
(* finished elsewhere as accepted whatever the grid.                       *)
FinishAccepted ==
    /\ asked # <<>>
    /\ Plays([state EXCEPT !.isComplete = TRUE]) /\ asked' = <<>>

(* Rejected, or not answered at all: the lock is released.                 *)
FinishFailed ==
    /\ asked # <<>>
    /\ Plays(state) /\ asked' = <<>>

(* The render with the error message, unless a key or a touch came first.  *)
ShowError == state.isFilled /\ ~state.isComplete /\ asked = <<>> /\ Renders(state)

Next ==
    \/ InputLetter \/ DeleteLetter \/ SelectCell \/ ToggleDirection \/ ArrowKey \/ HandleClueClick
    \/ FinishAccepted \/ FinishFailed \/ ShowError

------------------------------------------------------------------------------
(* The cursor is on a letter cell, letters are typed, and an across-only   *)
(* board keeps its direction.                                              *)
Legal ==
    /\ state.selectedCell \in LetterCells
    /\ state.userGrid \in [LetterCells -> Letters \cup {Blank}]
    /\ ResolveDirection(state.direction) = state.direction

(* What the clue list shows as filled in is filled in.                     *)
Explained ==
    /\ state.isFilled <=> \A c \in LetterCells : state.userGrid[c] # Blank
    /\ \A clue \in Clues : clue \in state.solvedClues <=>
            \A i \in DOMAIN clue.cells : state.userGrid[clue.cells[i]] # Blank

(* A finish never holds a grid with more than the one hole just made. The  *)
(* page sends 'won' for any letters; which are right the server says.      *)
Right(finish) == Cardinality({c \in LetterCells : finish.finalGrid[c] = Blank}) =< 1

Finished ==
    /\ state.isFilled => sent # <<>>
    /\ asked # <<>> => asked = <<Last(sent)>>
    /\ state.isComplete => sent # <<>> /\ asked = <<>>
==============================================================================
