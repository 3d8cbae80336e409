------------------------------- MODULE PipPlace -------------------------------
(***************************************************************************)
(* The tiles of a complete double-n set move between the tray and the      *)
(* board, each on two neighbouring cells, until every region's rule holds. *)
(***************************************************************************)
EXTENDS GameBoard

CONSTANTS
    MaxPip, Rows, Cols,
    RegionOf,       \* RegionOf[cell]: the id of its region
    Regions,        \* Regions[id]: its kind, and its value or -1
    MaxPast         \* bound on the undo history of a run

Cells == (1..Rows) \X (1..Cols)
Turned(face) == [pa |-> face.pb, pb |-> face.pa]
SortedPair(tile) == IF tile.pa =< tile.pb THEN <<tile.pa, tile.pb>> ELSE <<tile.pb, tile.pa>>

DoubleSet == {pair \in (0..MaxPip) \X (0..MaxPip) : pair[1] =< pair[2]}

(* The set in its order: the tile at i has i tiles up to it.               *)
InitialTray ==
    LET UpTo(p) == {q \in DoubleSet : q[1] < p[1] \/ (q[1] = p[1] /\ q[2] =< p[2])}
        Pair(i) == CHOOSE p \in DoubleSet : Cardinality(UpTo(p)) = i
    IN [i \in 1..Cardinality(DoubleSet) |-> [pa |-> Pair(i)[1], pb |-> Pair(i)[2]]]

CreateInitialState ==
    [placed |-> <<>>, tray |-> InitialTray, selectedTrayIndex |-> 0, pending |-> <<>>,
     gameStatus |-> "playing", past |-> <<>>]

Init == Starts(CreateInitialState)

OccupyingTile(placed, c) == {i \in DOMAIN placed : c \in {placed[i].a, placed[i].b}}

IsOrthogonalNeighbor(a, b) ==
    LET Abs(n) == Max({n, -n}) IN Abs(a[1] - b[1]) + Abs(a[2] - b[2]) = 1

PipOn(placed, c) ==
    LET tile == placed[CHOOSE i \in OccupyingTile(placed, c) : TRUE]
    IN IF tile.a = c THEN tile.pa ELSE tile.pb

RegionHolds(placed, id) ==
    LET cells  == {c \in Cells : RegionOf[c] = id}
        Pip(c) == PipOn(placed, c)
        pips   == {Pip(c) : c \in cells}
    IN CASE Regions[id].kind = "free"    -> TRUE
         [] Regions[id].kind = "sum"     -> MapThenSumSet(Pip, cells) = Regions[id].value
         [] Regions[id].kind = "equal"   -> Cardinality(pips) = 1 /\ Regions[id].value \in pips \cup {-1}
         [] Regions[id].kind = "unequal" -> Cardinality(pips) = Cardinality(cells)

IsSolved(placed) ==
    /\ Len(placed) = Cardinality(DoubleSet)
    /\ \A c \in Cells : Cardinality(OccupyingTile(placed, c)) = 1
    /\ {SortedPair(placed[i]) : i \in DOMAIN placed} = DoubleSet
    /\ \A id \in DOMAIN Regions : RegionHolds(placed, id)

Finish(s) == [tiles |-> s.placed]

Playing == state.gameStatus = "playing"
Chosen == state.selectedTrayIndex
Past == Append(state.past, [placed |-> state.placed, tray |-> state.tray])

WithWinCheck(placed, tray, selected) ==
    LET won  == IsSolved(placed)
        next == [placed |-> placed, tray |-> tray, selectedTrayIndex |-> selected, pending |-> <<>>,
                 gameStatus |-> IF won THEN "won" ELSE "playing", past |-> Past]
    IN Len(Past) =< MaxPast /\ Shows(next, won, Finish(next)) /\ NoAnswerPending

SelectTray ==
    /\ Playing
    /\ \E i \in DOMAIN state.tray \ {Chosen} :
        Plays([state EXCEPT !.selectedTrayIndex = i, !.pending = <<>>])
    /\ NoAnswerPending

(* The chosen tile turns on a second click, which forgets the pending      *)
(* cell, and with the rotate button, which keeps it.                       *)
Rotate ==
    /\ Playing /\ Chosen # 0
    /\ Len(Past) =< MaxPast
    /\ \E pending \in {<<>>, state.pending} :
        Plays([state EXCEPT !.tray[Chosen] = Turned(@), !.past = Past, !.pending = pending])
    /\ NoAnswerPending

(* A tile of the board goes back to the tray's end and is chosen.          *)
PickUp ==
    /\ Playing
    /\ \E i \in DOMAIN state.placed :
        LET tile == state.placed[i]
        IN WithWinCheck(RemoveAt(state.placed, i),
                        Append(state.tray, [pa |-> tile.pa, pb |-> tile.pb]), Len(state.tray) + 1)

(* A free cell that does not complete a placement becomes the pending one, *)
(* and the pending one touched again is forgotten.                         *)
TouchFree ==
    /\ Playing /\ Chosen # 0
    /\ \E c \in Cells :
        /\ OccupyingTile(state.placed, c) = {}
        /\ state.pending # <<>> => ~IsOrthogonalNeighbor(state.pending, c)
        /\ Plays([state EXCEPT !.pending = IF @ = c THEN <<>> ELSE c])
    /\ NoAnswerPending

Place ==
    /\ Playing /\ Chosen # 0 /\ state.pending # <<>>
    /\ \E c \in Cells :
        /\ OccupyingTile(state.placed, c) = {}
        /\ IsOrthogonalNeighbor(state.pending, c)
        /\ LET face == state.tray[Chosen]
               tile == [a |-> state.pending, b |-> c, pa |-> face.pa, pb |-> face.pb]
           IN WithWinCheck(Append(state.placed, tile), RemoveAt(state.tray, Chosen), 0)

(* Disabled without history.                                               *)
Undo ==
    /\ Playing /\ state.past # <<>>
    /\ LET prev == Last(state.past)
       IN Plays([state EXCEPT !.placed = prev.placed, !.tray = prev.tray, !.selectedTrayIndex = 0,
                              !.pending = <<>>, !.past = Front(@)])
    /\ NoAnswerPending

HandleReset == Playing /\ StartsOver(CreateInitialState)

Next == SelectTray \/ Rotate \/ PickUp \/ TouchFree \/ Place \/ Undo \/ HandleReset

------------------------------------------------------------------------------
(* Tray and board together hold the double set, each tile once; tiles do   *)
(* not overlap, and a placement in progress is on a free cell with a tile  *)
(* of the tray chosen.                                                     *)
Legal ==
    LET tiles == state.placed \o state.tray
    IN /\ Len(tiles) = Cardinality(DoubleSet)
       /\ {SortedPair(tiles[i]) : i \in DOMAIN tiles} = DoubleSet
       /\ \A c \in Cells : Cardinality(OccupyingTile(state.placed, c)) =< 1
       /\ \A i \in DOMAIN state.placed : IsOrthogonalNeighbor(state.placed[i].a, state.placed[i].b)
       /\ Chosen \in DOMAIN state.tray \cup {0}
       /\ state.pending # <<>> => Chosen # 0 /\ OccupyingTile(state.placed, state.pending) = {}

(* The history starts at the untouched board, so that undoing everything   *)
(* leads back to it.                                                       *)
Explained ==
    LET first == IF state.past = <<>> THEN state ELSE Head(state.past)
    IN first.placed = <<>> /\ first.tray = InitialTray

Right(finish) == \A c \in Cells : OccupyingTile(finish.tiles, c) # {} /\ RegionHolds(finish.tiles, RegionOf[c])

Finished ==
    /\ state.gameStatus = "won" <=> IsSolved(state.placed)
    /\ state.gameStatus = "won" => ended /\ Last(sent) = Finish(state)
==============================================================================
