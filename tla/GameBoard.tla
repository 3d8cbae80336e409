------------------------------ MODULE GameBoard ------------------------------
(***************************************************************************)
(* What every puzzle page of the web app has: the reducer's state, the     *)
(* grading requests in flight, the ref that keeps a finish from being      *)
(* handed over twice, and the finishes handed to useGameSession's endGame. *)
(* Each game is a module that EXTENDS this one and has one action for each *)
(* reducer case its page dispatches.                                       *)
(***************************************************************************)
EXTENDS Integers, Sequences, FiniteSets, SequencesExt, FiniteSetsExt

VARIABLES
    state,   \* the reducer's state
    asked,   \* PuzzleService.CheckGuess calls without an answer yet
    ended,   \* gameEndedRef
    sent     \* the data of each endGame call, in order

boardVars == <<state, asked, ended, sent>>

Starts(s) == state = s /\ asked = <<>> /\ ended = FALSE /\ sent = <<>>

(* A render with reducer state s: when the game is over and no finish was  *)
(* handed over, the page's effect calls endGame once.                      *)
Shows(s, over, data) ==
    /\ state' = s
    /\ IF over /\ ~ended THEN ended' = TRUE /\ sent' = Append(sent, data)
                         ELSE UNCHANGED <<ended, sent>>

(* A render of a board that is not over.                                   *)
Plays(s) == state' = s /\ UNCHANGED <<ended, sent>>

(* Start over: the session and the board are rewound together. Requests in *)
(* flight are not cancelled, and these pages leave their finish ref alone. *)
StartsOver(s) == Plays(s) /\ UNCHANGED asked

(* Five of the pages offer it after the end too. Their state has a history *)
(* field, replay: an earlier board set the ref.                            *)
Replays(s) == StartsOver([s EXCEPT !.replay = ended])

(* What these pages hand over: nothing until a board ends, then the data   *)
(* on show, and nothing of the boards played after it.                     *)
HandsOverTheFirst(over, replay, data) ==
    /\ ended <=> (over \/ replay)
    /\ Len(sent) = IF ended THEN 1 ELSE 0
    /\ over /\ ~replay => sent = <<data>>

NoAnswerPending == UNCHANGED asked

(* The order of tile statuses that updateKeyboardState and getBestStatus   *)
(* follow; "none" is a key not pressed yet.                                *)
Rank(status) == CHOOSE r \in 0..3 : <<"none", "absent", "present", "correct">>[r + 1] = status
Best(statuses) == CHOOSE s \in statuses : \A t \in statuses : Rank(t) =< Rank(s)

(* The server's grade of a guess: a letter is present when it is among the *)
(* answer's letters that no other tile has used.                           *)
EvaluateGuess(guess, answer) ==
    [i \in DOMAIN guess |->
        IF guess[i] = answer[i] THEN "correct"
        ELSE IF Cardinality({j \in 1..i : guess[j] = guess[i] /\ guess[j] # answer[j]})
                =< Cardinality({j \in DOMAIN answer : answer[j] = guess[i] /\ guess[j] # answer[j]})
             THEN "present" ELSE "absent"]

(* Every colour a letter got in rows of guesses.                           *)
ColoursOf(letter, rows, grades) ==
    UNION {{grades[i][j] : j \in {k \in DOMAIN rows[i] : rows[i][k] = letter}} : i \in DOMAIN rows}

AllCorrect(tiles) == \A i \in DOMAIN tiles : tiles[i] = "correct"
==============================================================================
