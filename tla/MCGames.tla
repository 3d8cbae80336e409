------------------------------- MODULE MCGames -------------------------------
(***************************************************************************)
(* The nineteen puzzle pages, each with a small puzzle: a behaviour plays  *)
(* one of them.                                                            *)
(***************************************************************************)
EXTENDS Integers, Sequences, FiniteSets, TLC

CONSTANT Played   \* the games of a run

VARIABLES game, state, asked, ended, sent

Guess == INSTANCE WordGuess WITH
    Letters <- {"a", "b"}, WORD_LENGTH <- 3, MAX_GUESSES <- 3,
    Dictionary <- {<<"a", "a", "b">>, <<"a", "b", "a">>, <<"b", "a", "a">>, <<"b", "b", "a">>},
    Answer <- <<"a", "b", "a">>

Quad == INSTANCE QuadWords WITH
    Letters <- {"a", "b"}, WORD_LENGTH <- 2, MAX_GUESSES <- 3, MaxAsked <- 2,
    Answers <- << <<"b", "a">>, <<"a", "b">> >>

Groups == INSTANCE WordGroups WITH
    Categories <- {{1, 2, 3}, {4, 5, 6}}, WORDS_PER_CATEGORY <- 3, MAX_MISTAKES <- 2

Hive == INSTANCE WordHive WITH
    CenterLetter <- "a", OuterLetters <- {"b"}, MIN_WORD_LENGTH <- 2, MaxTyped <- 3,
    WordList <- {<<"a", "a">>, <<"a", "b", "a">>, <<"b", "a", "a">>},
    Pangrams <- {<<"a", "b", "a">>, <<"b", "a", "a">>}

Box == INSTANCE WordBox WITH
    Side <- ("a" :> "top" @@ "b" :> "top" @@ "c" :> "right"),
    MinLength <- 3, MaxLength <- 4, MaxWords <- 2

Ladder == INSTANCE WordLadder WITH
    WordList <- {<<"a", "a", "a">>, <<"a", "a", "b">>, <<"a", "b", "b">>, <<"a", "b", "a">>, <<"b", "b", "b">>, <<"a", "a">>},
    StartWord <- <<"a", "a", "a">>, EndWord <- <<"b", "b", "b">>

Search == INSTANCE WordSearch WITH
    Size <- 3, Words <- {<<"a", "b", "c">>, <<"c", "d">>, <<"e", "d">>},
    Grid <- [p \in (1..3) \X (1..3) |-> << <<"a", "b", "c">>, <<"e", "b", "d">>, <<"d", "e", "c">> >>[p[1]][p[2]]]

Arith == INSTANCE Arithmo WITH
    Digits <- ("0" :> 0 @@ "1" :> 1), Operators <- {"/"}, EQUATION_LENGTH <- 5, MAX_ATTEMPTS <- 2,
    Answer <- <<"0", "/", "1", "=", "0">>

Crypto == INSTANCE Cryptogram WITH
    Solution <- <<"p", "q", "r">>, Alphabet <- {"p", "q", "r"}, MAX_HINTS <- 2, MaxFinishes <- 2

Cross == INSTANCE Crossword WITH
    GRID_SIZE <- 2, Black <- {<<2, 2>>}, Letters <- {"a", "b"}, MaxFinishes <- 2,
    Clues <- {[direction |-> "across", cells |-> << <<1, 1>>, <<1, 2>> >>],
              [direction |-> "down", cells |-> << <<1, 1>>, <<2, 1>> >>]}

Pencil == INSTANCE Sudoku WITH
    BOX_SIZE <- 2, MaxEdits <- 3,
    Puzzle <- << <<0, 0, 3, 4>>, <<3, 4, 1, 2>>, <<2, 0, 4, 3>>, <<4, 3, 2, 1>> >>,
    Typed <- (<<1, 1>> :> {1, 2} @@ <<1, 2>> :> {1, 2} @@ <<3, 2>> :> {1, 2})

Killer == INSTANCE KillerSudoku WITH
    BOX_SIZE <- 2,
    Puzzle <- << <<0, 0, 3, 4>>, <<3, 4, 1, 2>>, <<0, 0, 4, 3>>, <<4, 3, 2, 1>> >>,
    Cages <- {[cells |-> {<<1, 1>>, <<1, 2>>, <<1, 3>>}, sum |-> 6], [cells |-> {<<3, 1>>, <<3, 2>>}, sum |-> 3]},
    Typed <- (<<1, 1>> :> {1, 2} @@ <<1, 2>> :> {1, 2} @@ <<3, 1>> :> {1, 2} @@ <<3, 2>> :> {1, 2}),
    Noted <- {<<1, 1>>, <<1, 2>>}

Picture == INSTANCE Nonogram WITH
    RowClues <- << <<1, 1>>, <<2>> >>, ColClues <- << <<2>>, <<1>>, <<1>> >>

Crowns == INSTANCE Queens WITH
    Regions <- << <<1, 1, 2, 2>>, <<1, 1, 2, 2>>, <<3, 3, 4, 4>>, <<3, 3, 4, 4>> >>,
    Touched <- {<<1, 2>>, <<2, 4>>, <<3, 1>>, <<4, 3>>, <<1, 3>>, <<2, 1>>, <<1, 1>>}, MaxQueens <- 5

Suns == INSTANCE Tango WITH
    InitialGrid <- << <<"moon", "moon", "sun", "sun">>, <<"none", "none", "moon", "none">>,
                      <<"none", "moon", "sun", "none">>, <<"sun", "sun", "none", "none">> >>

Slide == INSTANCE BlockSlide WITH
    Blocks <- {"red", "car", "van"}, Target <- "red", GridWidth <- 3, GridHeight <- 3, ExitX <- 1, ExitY <- 1,
    Width <- ("red" :> 2 @@ "car" :> 1 @@ "van" :> 1), Height <- ("red" :> 1 @@ "car" :> 2 @@ "van" :> 1),
    Start <- ("red" :> <<0, 1>> @@ "car" :> <<2, 0>> @@ "van" :> <<0, 0>>), MaxMoves <- 5

Tour == INSTANCE NumberPath WITH
    Size <- 3, Clues <- [c \in (1..3) \X (1..3) |-> IF c = <<1, 1>> THEN 1 ELSE IF c = <<1, 3>> THEN 3 ELSE 0]

Match == INSTANCE PatternMatch WITH
    Cards <- 1..6, MaxMistakes <- 1,
    Faces <- << <<1, 1>>, <<1, 2>>, <<1, 3>>, <<2, 1>>, <<2, 2>>, <<2, 3>> >>

Spots == INSTANCE PipPlace WITH
    MaxPip <- 1, Rows <- 2, Cols <- 3, MaxPast <- 3,
    RegionOf <- [c \in (1..2) \X (1..3) |-> IF c[2] = 1 THEN 1 ELSE IF c = <<1, 2>> THEN 4 ELSE c[1] + 1],
    Regions <- << [kind |-> "equal", value |-> 0], [kind |-> "sum", value |-> 1],
                  [kind |-> "unequal", value |-> -1], [kind |-> "free", value |-> -1] >>

Init ==
    /\ game \in Played
    /\ game = "word-guess" => Guess!Init
    /\ game = "quad-words" => Quad!Init
    /\ game = "word-groups" => Groups!Init
    /\ game = "word-hive" => Hive!Init
    /\ game = "word-box" => Box!Init
    /\ game = "word-ladder" => Ladder!Init
    /\ game = "word-search" => Search!Init
    /\ game = "arithmo" => Arith!Init
    /\ game = "cryptogram" => Crypto!Init
    /\ game = "crossword" => Cross!Init
    /\ game = "sudoku" => Pencil!Init
    /\ game = "killer-sudoku" => Killer!Init
    /\ game = "nonogram" => Picture!Init
    /\ game = "queens" => Crowns!Init
    /\ game = "tango" => Suns!Init
    /\ game = "block-slide" => Slide!Init
    /\ game = "number-path" => Tour!Init
    /\ game = "pattern-match" => Match!Init
    /\ game = "pip-place" => Spots!Init

Next ==
    /\ UNCHANGED game
    /\ \/ game = "word-guess" /\ Guess!Next
       \/ game = "quad-words" /\ Quad!Next
       \/ game = "word-groups" /\ Groups!Next
       \/ game = "word-hive" /\ Hive!Next
       \/ game = "word-box" /\ Box!Next
       \/ game = "word-ladder" /\ Ladder!Next
       \/ game = "word-search" /\ Search!Next
       \/ game = "arithmo" /\ Arith!Next
       \/ game = "cryptogram" /\ Crypto!Next
       \/ game = "crossword" /\ Cross!Next
       \/ game = "sudoku" /\ Pencil!Next
       \/ game = "killer-sudoku" /\ Killer!Next
       \/ game = "nonogram" /\ Picture!Next
       \/ game = "queens" /\ Crowns!Next
       \/ game = "tango" /\ Suns!Next
       \/ game = "block-slide" /\ Slide!Next
       \/ game = "number-path" /\ Tour!Next
       \/ game = "pattern-match" /\ Match!Next
       \/ game = "pip-place" /\ Spots!Next

Spec == Init /\ [][Next]_<<game, state, asked, ended, sent>>

(* No sequence of touches brings a board into a position its rules forbid: *)
(* blocks or tiles over one another, a path that crosses itself, a changed *)
(* clue, a card in two sets, words that do not chain, more rows of guesses *)
(* than allowed. Each game's Legal says it of its board.                   *)
BoardIsLegal ==
    /\ game = "word-guess" => Guess!Legal
    /\ game = "quad-words" => Quad!Legal
    /\ game = "word-groups" => Groups!Legal
    /\ game = "word-hive" => Hive!Legal
    /\ game = "word-box" => Box!Legal
    /\ game = "word-ladder" => Ladder!Legal
    /\ game = "word-search" => Search!Legal
    /\ game = "arithmo" => Arith!Legal
    /\ game = "cryptogram" => Crypto!Legal
    /\ game = "crossword" => Cross!Legal
    /\ game = "sudoku" => Pencil!Legal
    /\ game = "killer-sudoku" => Killer!Legal
    /\ game = "nonogram" => Picture!Legal
    /\ game = "queens" => Crowns!Legal
    /\ game = "tango" => Suns!Legal
    /\ game = "block-slide" => Slide!Legal
    /\ game = "number-path" => Tour!Legal
    /\ game = "pattern-match" => Match!Legal
    /\ game = "pip-place" => Spots!Legal

(* What a page derives and keeps (keyboard colours, conflict marks, solved *)
(* lines and clues, counters, placements, the undo history) agrees with    *)
(* what can be said from the board itself, after every order of edits,     *)
(* undos, answers and resets. Each game's Explained says it.               *)
BoardIsExplained ==
    /\ game = "word-guess" => Guess!Explained
    /\ game = "quad-words" => Quad!Explained
    /\ game = "word-groups" => Groups!Explained
    /\ game = "word-hive" => Hive!Explained
    /\ game = "word-box" => Box!Explained
    /\ game = "word-ladder" => Ladder!Explained
    /\ game = "word-search" => Search!Explained
    /\ game = "arithmo" => Arith!Explained
    /\ game = "cryptogram" => Crypto!Explained
    /\ game = "crossword" => Cross!Explained
    /\ game = "sudoku" => Pencil!Explained
    /\ game = "killer-sudoku" => Killer!Explained
    /\ game = "nonogram" => Picture!Explained
    /\ game = "queens" => Crowns!Explained
    /\ game = "tango" => Suns!Explained
    /\ game = "block-slide" => Slide!Explained
    /\ game = "number-path" => Tour!Explained
    /\ game = "pattern-match" => Match!Explained
    /\ game = "pip-place" => Spots!Explained

(* Whatever is handed over as won passes the check its page makes, judged  *)
(* from the data of the finish alone, and a lost finish does not. Each     *)
(* game's Right says it; killer sudoku's does not look for a digit twice   *)
(* in a cage, and a crossword, which only the server can check, is sent as *)
(* won with any letters and at most one hole.                              *)
FinishIsRight ==
    \A i \in DOMAIN sent :
        /\ game = "word-guess" => Guess!Right(sent[i])
        /\ game = "quad-words" => Quad!Right(sent[i])
        /\ game = "word-groups" => Groups!Right(sent[i])
        /\ game = "word-hive" => Hive!Right(sent[i])
        /\ game = "word-box" => Box!Right(sent[i])
        /\ game = "word-ladder" => Ladder!Right(sent[i])
        /\ game = "word-search" => Search!Right(sent[i])
        /\ game = "arithmo" => Arith!Right(sent[i])
        /\ game = "cryptogram" => Crypto!Right(sent[i])
        /\ game = "crossword" => Cross!Right(sent[i])
        /\ game = "sudoku" => Pencil!Right(sent[i])
        /\ game = "killer-sudoku" => Killer!Right(sent[i])
        /\ game = "nonogram" => Picture!Right(sent[i])
        /\ game = "queens" => Crowns!Right(sent[i])
        /\ game = "tango" => Suns!Right(sent[i])
        /\ game = "block-slide" => Slide!Right(sent[i])
        /\ game = "number-path" => Tour!Right(sent[i])
        /\ game = "pattern-match" => Match!Right(sent[i])
        /\ game = "pip-place" => Spots!Right(sent[i])

==============================================================================
