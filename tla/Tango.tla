-------------------------------- MODULE Tango --------------------------------
(***************************************************************************)
(* Suns and moons, as many of each in every row and column, never three in *)
(* a row, no two lines alike.                                              *)
(***************************************************************************)
EXTENDS GameBoard

CONSTANT InitialGrid   \* InitialGrid[row][col]: "sun", "moon" or "none"

Size == Len(InitialGrid)
Cells == (1..Size) \X (1..Size)
Symbols == {"sun", "moon"}

CreateInitialState ==
    [grid |-> [c \in Cells |-> InitialGrid[c[1]][c[2]]], gameStatus |-> "playing",
     replay |-> FALSE]

Init == Starts(CreateInitialState)

Row(r) == {<<r, i>> : i \in 1..Size}
Column(c) == {<<i, c>> : i \in 1..Size}
Lines == {Row(i) : i \in 1..Size} \cup {Column(i) : i \in 1..Size}

CountOf(grid, line, symbol) == Cardinality({c \in line : grid[c] = symbol})

(* The cell is part of three alike side by side.                           *)
HasConsecutiveViolationAt(grid, c) ==
    \E d \in {<<0, 1>>, <<1, 0>>}, k \in 0..2 :
        LET three == {<<c[1] + (i - k) * d[1], c[2] + (i - k) * d[2]>> : i \in 0..2}
        IN three \subseteq Cells /\ \A e \in three : grid[e] = grid[c]

GetConflicts(grid) ==
    {c \in Cells : /\ grid[c] \in Symbols
                   /\ \/ HasConsecutiveViolationAt(grid, c)
                      \/ \E line \in Lines : c \in line /\ \E s \in Symbols : 2 * CountOf(grid, line, s) > Size}

(* Mutant: a full grid without marks wins, equal lines or not.             *)
BadIsSolved(grid) == (\A c \in Cells : grid[c] \in Symbols) /\ GetConflicts(grid) = {}

IsSolved(grid) ==
    /\ \A c \in Cells : grid[c] \in Symbols
    /\ GetConflicts(grid) = {}
    /\ \A line \in Lines, s \in Symbols : 2 * CountOf(grid, line, s) = Size
    /\ IsInjective([r \in 1..Size |-> [i \in 1..Size |-> grid[<<r, i>>]]])
    /\ IsInjective([c \in 1..Size |-> [i \in 1..Size |-> grid[<<i, c>>]]])

Finish(s) == [grid |-> s.grid]

ToggleCell ==
    \E c \in Cells :
        LET turned == CASE state.grid[c] = "none" -> "sun"
                        [] state.grid[c] = "sun"  -> "moon"
                        [] state.grid[c] = "moon" -> "none"
            grid   == [state.grid EXCEPT ![c] = turned]
            next   == [state EXCEPT !.grid = grid, !.gameStatus = IF IsSolved(grid) THEN "won" ELSE "playing"]
        IN /\ state.gameStatus = "playing"
           /\ InitialGrid[c[1]][c[2]] = "none"
           /\ Shows(next, next.gameStatus = "won", Finish(next))
           /\ NoAnswerPending

StartOver == Replays(CreateInitialState)

Next == ToggleCell \/ StartOver

------------------------------------------------------------------------------
Legal == \A c \in Cells : CreateInitialState.grid[c] # "none" => state.grid[c] = CreateInitialState.grid[c]

(* Over-full lines and triples are marked, so a board without a mark can   *)
(* still be finished line by line.                                         *)
Explained ==
    GetConflicts(state.grid) = {} => \A line \in Lines, s \in Symbols : 2 * CountOf(state.grid, line, s) =< Size

Right(finish) ==
    LET Text(line(_)) == [i \in 1..Size |-> finish.grid[line(i)]]
        Lines2 == {Text(LAMBDA i : <<k, i>>) : k \in 1..Size}
        Lines3 == {Text(LAMBDA i : <<i, k>>) : k \in 1..Size}
    IN /\ Cardinality(Lines2) = Size /\ Cardinality(Lines3) = Size
       /\ \A text \in Lines2 \cup Lines3 :
            /\ 2 * Cardinality({i \in 1..Size : text[i] = "sun"}) = Size
            /\ \A i \in 1..(Size - 2) : Cardinality({text[i], text[i + 1], text[i + 2]}) = 2
       /\ \A c \in Cells : CreateInitialState.grid[c] \in {"none", finish.grid[c]}

(* A solved grid is won, and the first one won is handed over.             *)
Finished ==
    /\ IsSolved(state.grid) => state.gameStatus = "won"
    /\ HandsOverTheFirst(state.gameStatus = "won", state.replay, Finish(state))
==============================================================================
