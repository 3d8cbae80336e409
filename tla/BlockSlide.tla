------------------------------ MODULE BlockSlide ------------------------------
(***************************************************************************)
(* Blocks of any size slide one cell at a time until the target block is   *)
(* at the exit, or the player gives up.                                    *)
(***************************************************************************)
EXTENDS GameBoard

CONSTANTS
    Blocks, Target,          \* the blocks, one of them the target
    Width, Height,           \* of each block
    Start,                   \* Start[b]: the served position <<x, y>> of a block
    GridWidth, GridHeight, ExitX, ExitY,
    MaxMoves                 \* bound on the moves of a run

NoBlock == "none"

CreateInitialState == [blocks |-> Start, moveCount |-> 0, status |-> "playing", selectedBlockId |-> NoBlock]

Init == Starts(CreateInitialState)

Directions == {<<-1, 0>>, <<1, 0>>, <<0, -1>>, <<0, 1>>}
Towards(position, direction) == <<position[1] + direction[1], position[2] + direction[2]>>

InGrid(b, at) ==
    /\ at[1] >= 0 /\ at[1] + Width[b] =< GridWidth
    /\ at[2] >= 0 /\ at[2] + Height[b] =< GridHeight

BlocksOverlap(a, atA, b, atB) ==
    ~ \/ atA[1] + Width[a] =< atB[1]
      \/ atB[1] + Width[b] =< atA[1]
      \/ atA[2] + Height[a] =< atB[2]
      \/ atB[2] + Height[b] =< atA[2]

(* Mutant: only the grid's border stops a block.                           *)
BadCanMove(blocks, b, direction) == InGrid(b, Towards(blocks[b], direction))

CanMove(blocks, b, direction) ==
    LET to == Towards(blocks[b], direction)
    IN InGrid(b, to) /\ \A other \in Blocks \ {b} : ~BlocksOverlap(b, to, other, blocks[other])

IsWin(blocks) == blocks[Target] = <<ExitX, ExitY>>

Finish(s) == [status |-> IF s.status = "won" THEN "won" ELSE "lost", moveCount |-> s.moveCount]

Playing == state.status = "playing"

SelectBlock ==
    /\ Playing
    /\ \E b \in Blocks : Plays([state EXCEPT !.selectedBlockId = IF @ = b THEN NoBlock ELSE b])
    /\ NoAnswerPending

Slides(b, direction, selected) ==
    LET blocks == [state.blocks EXCEPT ![b] = Towards(@, direction)]
        next   == [blocks |-> blocks, moveCount |-> state.moveCount + 1, selectedBlockId |-> selected,
                   status |-> IF IsWin(blocks) THEN "won" ELSE "playing"]
    IN /\ Playing /\ state.moveCount < MaxMoves
       /\ CanMove(state.blocks, b, direction)
       /\ Shows(next, IsWin(blocks), Finish(next))
       /\ NoAnswerPending

Move ==
    /\ state.selectedBlockId # NoBlock
    /\ \E d \in Directions : Slides(state.selectedBlockId, d, state.selectedBlockId)

DragMove ==
    \E b \in Blocks, d \in Directions :
        Slides(b, d, IF IsWin([state.blocks EXCEPT ![b] = Towards(@, d)]) THEN NoBlock ELSE b)

GiveUp ==
    /\ Playing
    /\ LET next == [state EXCEPT !.status = "gave_up"] IN Shows(next, TRUE, Finish(next))
    /\ NoAnswerPending

(* Offered while playing, so no finish is left behind.                     *)
HandleReset == Playing /\ StartsOver(CreateInitialState)

Next == SelectBlock \/ Move \/ DragMove \/ GiveUp \/ HandleReset

Spec == Init /\ [][Next]_boardVars

------------------------------------------------------------------------------
InBounds == \A b \in Blocks : InGrid(b, state.blocks[b])
NoOverlap == \A a, b \in Blocks : a # b => ~BlocksOverlap(a, state.blocks[a], b, state.blocks[b])

(* The blocks stay in the grid and never cover one another.                *)
Legal == InBounds /\ NoOverlap

Distance(b) ==
    LET Abs(n) == Max({n, -n})
    IN Abs(state.blocks[b][1] - Start[b][1]) + Abs(state.blocks[b][2] - Start[b][2])

(* The counter shown and scored cannot be smaller than the way the blocks  *)
(* have gone, and differs from it by moves there and back.                 *)
Explained ==
    LET way == MapThenSumSet(Distance, Blocks)
    IN state.moveCount >= way /\ (state.moveCount - way) % 2 = 0

Right(finish) == finish.status = "won" => finish.moveCount = state.moveCount /\ IsWin(state.blocks)

Finished ==
    /\ IsWin(state.blocks) => state.status = "won"
    /\ state.status # "playing" => ended /\ Last(sent) = Finish(state)
==============================================================================
