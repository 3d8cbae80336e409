------------------------------ MODULE PlaySession ------------------------------
(***************************************************************************)
(* The end of a board on a puzzle page: useGameSession's endGame, the save *)
(* hook with its own lock, the mutation that is retried once, the server's *)
(* one-finish-a-day guard, start over, and a sign-in or sign-out while a   *)
(* save is in flight. The board itself is abstracted to whether its finish *)
(* is good. Every page records: a page of the archive has its day, and is  *)
(* not open to guests.                                                     *)
(***************************************************************************)
EXTENDS Integers

CONSTANTS
    Users, Guest,     \* who the browser may be signed in as, and nobody
    Calls,            \* endGame calls that can be in flight
    MaxGeneration     \* bound on the boards of a run

ASSUME SessionAssumption == MaxGeneration \in Nat \ {0}

VARIABLES
    accept,       \* requireServerAccept, the page's policy
    who,          \* user?.id
    savedRef,     \* useGameSession's lock: this board's finish was handed over
    generation,   \* generationRef, bumped by every start over
    saveLock,     \* useSaveGameResult's lock
    calls,        \* the endGame calls in flight
    strays,       \* requests given up by the client that may still arrive
    ledger,       \* who has a recorded finish of this ritual
    score,        \* the board whose score is shown, or 0
    timer,        \* the board whose result is about to be shown, or 0
    ready,        \* the board whose result was shown, or 0
    modal,        \* showResultModal
    guestMark     \* the browser's guest store has this game as finished

vars == <<accept, who, savedRef, generation, saveLock, calls, strays, ledger, score, timer, ready, modal, guestMark>>
clientRefs == <<savedRef, generation, saveLock>>
screen == <<score, timer, ready, modal>>

Free == [pc |-> "free", board |-> 0, good |-> FALSE, guest |-> FALSE, retried |-> FALSE,
         as |-> Guest, answer |-> "none"]
InFlight(c) == calls[c].pc # "free"

Init ==
    /\ accept \in BOOLEAN
    /\ who \in Users \cup {Guest}
    /\ savedRef = FALSE /\ generation = 1 /\ saveLock = FALSE
    /\ calls = [c \in Calls |-> Free]
    /\ strays = {} /\ ledger = {}
    /\ score = 0 /\ timer = 0 /\ ready = 0 /\ modal = FALSE
    /\ guestMark = FALSE

(* Mutant: endGame does not look at its own lock.                          *)
BadMayEnd(c) == ~InFlight(c)

(* endGame goes on only on a board whose finish was not handed over.       *)
MayEnd(c) == ~savedRef /\ ~InFlight(c)

(* The board is over. A page that does not wait celebrates at once; the    *)
(* save goes out unless another holds the save lock.                       *)
EndGame(c) ==
    /\ MayEnd(c)
    /\ savedRef' = TRUE
    /\ timer' = IF accept THEN timer ELSE generation
    /\ saveLock' = TRUE
    /\ \E good \in BOOLEAN :
        calls' = [calls EXCEPT ![c] =
            [pc     |-> IF saveLock THEN "answered" ELSE "sent",
             answer |-> IF saveLock THEN "Already saved" ELSE "none",
             board  |-> generation, good |-> good, guest |-> who = Guest, retried |-> FALSE, as |-> who]]
    /\ UNCHANGED <<accept, who, generation, strays, ledger, score, ready, modal, guestMark>>

(* The server's guard of one finish a day for each player.                 *)
Verdict(as, good) ==
    IF as \in ledger THEN "already_played" ELSE IF good THEN "accepted" ELSE "invalid"
LedgerAfter(as, good) == IF good THEN ledger \cup {as} ELSE ledger

SubmitGuess(c) ==
    /\ calls[c].pc = "sent"
    /\ calls' = [calls EXCEPT ![c].pc = "answered", ![c].answer = Verdict(calls[c].as, calls[c].good)]
    /\ ledger' = LedgerAfter(calls[c].as, calls[c].good)
    /\ UNCHANGED <<accept, who, clientRefs, strays, screen, guestMark>>

(* A request that timed out may reach the server after all.                *)
SubmitStray ==
    /\ \E r \in strays :
        /\ strays' = strays \ {r}
        /\ ledger' = LedgerAfter(r.as, r.good)
    /\ UNCHANGED <<accept, who, clientRefs, calls, screen, guestMark>>

(* The first attempt fails, before or after the server handled it: the     *)
(* mutation sends it again, as whoever is signed in by then.               *)
Retry(c) ==
    /\ calls[c].pc = "sent" \/ (calls[c].pc = "answered" /\ calls[c].answer # "Already saved")
    /\ ~calls[c].retried
    /\ calls' = [calls EXCEPT ![c].pc = "sent", ![c].answer = "none", ![c].retried = TRUE, ![c].as = who]
    /\ \/ strays' = strays
       \/ calls[c].pc = "sent" /\ strays' = strays \cup {[as |-> calls[c].as, good |-> calls[c].good]}
    /\ UNCHANGED <<accept, who, clientRefs, ledger, screen, guestMark>>

(* Mutant: a finish that comes back after a start over is still shown.     *)
BadResume(c, answer) ==
    LET success == answer \in {"accepted", "already_played"}
    IN /\ saveLock' = IF success \/ answer = "Already saved" THEN saveLock ELSE FALSE
       /\ score' = IF answer = "accepted" THEN calls[c].board ELSE score
       /\ savedRef' = IF accept /\ ~success THEN FALSE ELSE savedRef
       /\ timer' = IF success /\ accept THEN calls[c].board ELSE timer
       /\ guestMark' = (guestMark \/ ((success \/ ~accept) /\ calls[c].guest))
       /\ calls' = [calls EXCEPT ![c] = Free]
       /\ UNCHANGED <<accept, who, generation, ledger, ready, modal>>

(* Mutant: an answer of any kind counts as accepted.                       *)
AnyResume(c, answer) ==
    LET current == calls[c].board = generation
    IN /\ saveLock' = IF answer \in {"accepted", "already_played", "Already saved"} THEN saveLock ELSE FALSE
       /\ score' = IF answer = "accepted" /\ current THEN generation ELSE score
       /\ timer' = IF current /\ accept THEN generation ELSE timer
       /\ guestMark' = (guestMark \/ (current /\ calls[c].guest))
       /\ calls' = [calls EXCEPT ![c] = Free]
       /\ UNCHANGED <<accept, who, savedRef, generation, ledger, ready, modal>>

(* Mutant: a rejected finish keeps the board locked.                       *)
LockedResume(c, answer) ==
    LET success == answer \in {"accepted", "already_played"}
        current == calls[c].board = generation
        counts  == current /\ (success \/ ~accept)
    IN /\ saveLock' = IF success \/ answer = "Already saved" THEN saveLock ELSE FALSE
       /\ score' = IF answer = "accepted" /\ current THEN generation ELSE score
       /\ timer' = IF counts /\ accept THEN generation ELSE timer
       /\ guestMark' = (guestMark \/ (counts /\ calls[c].guest))
       /\ calls' = [calls EXCEPT ![c] = Free]
       /\ UNCHANGED <<accept, who, savedRef, generation, ledger, ready, modal>>

(* What endGame and saveResult do with the outcome, up to their return.    *)
Resume(c, answer) ==
    LET success == answer \in {"accepted", "already_played"}
        current == calls[c].board = generation
        counts  == current /\ (success \/ ~accept)
    IN /\ saveLock' = IF success \/ answer = "Already saved" THEN saveLock ELSE FALSE
       /\ score' = IF answer = "accepted" /\ current THEN generation ELSE score
       /\ savedRef' = IF current /\ accept /\ ~success THEN FALSE ELSE savedRef
       /\ timer' = IF counts /\ accept THEN generation ELSE timer
       /\ guestMark' = (guestMark \/ (counts /\ calls[c].guest))
       /\ calls' = [calls EXCEPT ![c] = Free]
       /\ UNCHANGED <<accept, who, generation, ledger, ready, modal>>

Answered(c) ==
    /\ calls[c].pc = "answered"
    /\ Resume(c, calls[c].answer) /\ UNCHANGED strays

(* The second attempt fails too: saveResult answers success: false.        *)
Failed(c) ==
    /\ calls[c].pc = "sent" \/ (calls[c].pc = "answered" /\ calls[c].answer # "Already saved")
    /\ calls[c].retried
    /\ Resume(c, "failed")
    /\ \/ strays' = strays
       \/ calls[c].pc = "sent" /\ strays' = strays \cup {[as |-> calls[c].as, good |-> calls[c].good]}

(* The timer of celebrate.                                                 *)
ShowResult ==
    /\ timer # 0
    /\ ready' = timer /\ modal' = TRUE /\ timer' = 0
    /\ UNCHANGED <<accept, who, clientRefs, calls, strays, ledger, score, guestMark>>

(* The modal is closed, and reopened with the result button.               *)
ToggleModal ==
    /\ ready # 0
    /\ modal' = ~modal
    /\ UNCHANGED <<accept, who, clientRefs, calls, strays, ledger, score, timer, ready, guestMark>>

(* Mutant: the save hook is not reset with the session.                    *)
BadStartOver ==
    /\ generation < MaxGeneration
    /\ savedRef' = FALSE /\ generation' = generation + 1
    /\ timer' = 0 /\ ready' = 0 /\ modal' = FALSE /\ score' = 0
    /\ UNCHANGED <<accept, who, saveLock, calls, strays, ledger, guestMark>>

StartOver ==
    /\ generation < MaxGeneration
    /\ savedRef' = FALSE /\ generation' = generation + 1
    /\ saveLock' = FALSE
    /\ timer' = 0 /\ ready' = 0 /\ modal' = FALSE /\ score' = 0
    /\ UNCHANGED <<accept, who, calls, strays, ledger, guestMark>>

(* A sign-in or sign-out releases the save lock, in flight or not.         *)
SwitchUser ==
    /\ \E u \in (Users \cup {Guest}) \ {who} : who' = u
    /\ saveLock' = FALSE
    /\ UNCHANGED <<accept, savedRef, generation, calls, strays, ledger, screen, guestMark>>

Next ==
    \/ \E c \in Calls : EndGame(c) \/ SubmitGuess(c) \/ Retry(c) \/ Answered(c) \/ Failed(c)
    \/ SubmitStray \/ ShowResult \/ ToggleModal \/ StartOver \/ SwitchUser

Spec == Init /\ [][Next]_vars

(* A request ends: it is answered or times out. The timer fires.           *)
Ends(c) == Answered(c) \/ Retry(c) \/ Failed(c)
FairSpec == Spec /\ WF_vars(ShowResult) /\ \A c \in Calls : WF_vars(Ends(c))

------------------------------------------------------------------------------
Outcomes == {"none", "accepted", "already_played", "invalid", "Already saved"}
Boards == 1..MaxGeneration
CallType == [pc : {"free", "sent", "answered"}, board : Boards \cup {0}, good : BOOLEAN,
             guest : BOOLEAN, retried : BOOLEAN, as : Users \cup {Guest}, answer : Outcomes]

(* Every variable is in its range: the lines of the type invariant.        *)
TypeOK ==
    /\ accept \in BOOLEAN
    /\ who \in Users \cup {Guest}
    /\ savedRef \in BOOLEAN /\ saveLock \in BOOLEAN /\ modal \in BOOLEAN /\ guestMark \in BOOLEAN
    /\ generation \in Boards
    /\ calls \in [Calls -> CallType]
    /\ strays \subseteq [as : Users \cup {Guest}, good : BOOLEAN]
    /\ ledger \subseteq Users \cup {Guest}
    /\ score \in Boards \cup {0} /\ timer \in Boards \cup {0} /\ ready \in Boards \cup {0}

(* A board that may be handed over is never refused by the save hook with  *)
(* 'Already saved': whichever of answers, failures, sign-ins and start     *)
(* overs came last, the hook's lock is free when endGame's is.             *)
LocksAgree == ~savedRef => ~saveLock

(* A finish in flight over a start over leaves no score, no celebration    *)
(* and no result on the next board.                                        *)
ShownIsOfThisBoard == {score, timer, ready} \subseteq {0, generation}

(* On a page that waits for the server, nothing is celebrated, shown or    *)
(* kept in the guest store unless a finish of the ritual was recorded,     *)
(* also when the answer came from a retry after the first one was lost.    *)
AcceptedBeforeShown == accept /\ (timer # 0 \/ ready # 0 \/ guestMark) => ledger # {}

(* One board has at most one save in flight, although a start over and a   *)
(* sign-in both release the save lock under a save that is still running.  *)
OneSavePerBoard ==
    \A c, d \in Calls : InFlight(c) /\ InFlight(d) /\ calls[c].board = calls[d].board => c = d

(* A board that waits and has neither a save in flight nor a result can be *)
(* handed over: a rejection, a lost answer or a stale one never locks it.  *)
RejectedPlaysOn ==
    accept /\ timer = 0 /\ ready = 0 /\ (\A c \in Calls : InFlight(c) => calls[c].board # generation)
        => ~savedRef

(* The page keeps the promise: results only after the books, every finish  *)
(* answered, a clean new board.                                            *)
Promise == INSTANCE FinishPromise WITH
    phase    <- IF timer # 0 \/ ready # 0 THEN "shown" ELSE IF savedRef THEN "checking" ELSE "playing",
    recorded <- ledger # {}

PromiseKept == Promise!FairSpec
==============================================================================
