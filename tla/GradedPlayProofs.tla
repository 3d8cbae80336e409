--------------------------- MODULE GradedPlayProofs ---------------------------
(***************************************************************************)
(* Play that waits for the server, late answers and refusals included. For *)
(* any users, any number of calls in flight and any number of boards:      *)
(* PlaySession's type invariant, its five safety invariants, and that its  *)
(* every step is one FinishPromise allows (that the promise is kept in     *)
(* time is checked by TLC). For boards of any size: the puzzle pages whose *)
(* guesses the server grades. The names of their instances are those of    *)
(* MCGames.                                                                *)
(***************************************************************************)
EXTENDS PlaySession, GameBoard, TLAPS, FiniteSetTheorems, WellFoundedInduction

------------------------------------------------------------------------------
(* The session of a board, see PlaySession.                                *)

(* The lock of the save hook never turns a call away.                      *)
NoneRefused == \A c \in Calls : calls[c].answer # "Already saved"

(* A call in flight is of a board played so far.                           *)
CallsOfBoards == \A c \in Calls : InFlight(c) => calls[c].board \in 1..generation

(* While this board's finish is in flight, endGame is locked, and a page   *)
(* that waits shows nothing.                                               *)
HeldWhileSaving ==
    \A c \in Calls : InFlight(c) /\ calls[c].board = generation =>
        savedRef /\ (accept => timer = 0 /\ ready = 0)

(* A good answer comes after the books.                                    *)
AnswersAreBooked == \A c \in Calls : calls[c].answer \in {"accepted", "already_played"} => ledger # {}

(* A board still played shows nothing of a result.                         *)
CleanWhilePlaying == ~savedRef => timer = 0 /\ ready = 0

SessionInv ==
    /\ LocksAgree /\ ShownIsOfThisBoard /\ AcceptedBeforeShown /\ OneSavePerBoard /\ RejectedPlaysOn
    /\ NoneRefused /\ CallsOfBoards /\ HeldWhileSaving /\ AnswersAreBooked /\ CleanWhilePlaying
------------------------------------------------------------------------------
LEMMA FreeType == Free \in CallType
  BY DEF Free, CallType, Outcomes

LEMMA TypeInit == Init => TypeOK
<1> SUFFICES ASSUME Init PROVE TypeOK
  OBVIOUS
<1>1. calls \in [Calls -> CallType]
  BY FreeType DEF Init
<1>2. generation \in Boards /\ {score, timer, ready} \subseteq Boards \cup {0}
  BY SessionAssumption DEF SessionAssumption, Init, Boards
<1>3. {savedRef, saveLock, modal, guestMark, accept} \subseteq BOOLEAN
  BY DEF Init
<1> QED
  BY <1>1, <1>2, <1>3 DEF Init, TypeOK

LEMMA TypeStep == TypeOK /\ [Next]_vars => TypeOK'
<1> SUFFICES ASSUME TypeOK, [Next]_vars PROVE TypeOK'
  OBVIOUS
<1> USE SessionAssumption DEF SessionAssumption, TypeOK, clientRefs, screen
<1>1. ASSUME NEW c \in Calls, EndGame(c) PROVE TypeOK'
  <2>1. PICK good \in BOOLEAN : calls' = [calls EXCEPT ![c] =
            [pc     |-> IF saveLock THEN "answered" ELSE "sent",
             answer |-> IF saveLock THEN "Already saved" ELSE "none",
             board  |-> generation, good |-> good, guest |-> who = Guest, retried |-> FALSE, as |-> who]]
    BY <1>1 DEF EndGame, MayEnd
  <2>2. calls'[c] \in CallType
    BY <2>1 DEF CallType, Boards, Outcomes
  <2>3. calls' \in [Calls -> CallType]
    BY <2>1, <2>2
  <2> QED
    BY <1>1, <2>3 DEF EndGame
<1>2. ASSUME NEW c \in Calls, SubmitGuess(c) PROVE TypeOK'
  <2>1. Verdict(calls[c].as, calls[c].good) \in Outcomes
    BY DEF Verdict, Outcomes
  <2>2. calls' = [calls EXCEPT ![c] =
                    [calls[c] EXCEPT !.pc = "answered", !.answer = Verdict(calls[c].as, calls[c].good)]]
    BY <1>2 DEF SubmitGuess
  <2>3. [calls[c] EXCEPT !.pc = "answered", !.answer = Verdict(calls[c].as, calls[c].good)] \in CallType
    BY <2>1 DEF CallType
  <2>4. calls' \in [Calls -> CallType]
    BY <2>2, <2>3
  <2>5. calls[c].as \in Users \cup {Guest}
    BY DEF CallType
  <2> QED
    BY <1>2, <2>4, <2>5 DEF SubmitGuess, LedgerAfter
<1>3. ASSUME NEW c \in Calls, Retry(c) PROVE TypeOK'
  <2> DEFINE again == [calls[c] EXCEPT !.pc = "sent", !.answer = "none", !.retried = TRUE, !.as = who]
  <2>1. calls' = [calls EXCEPT ![c] = again]
    BY <1>3 DEF Retry
  <2>2. again \in CallType
    BY ZenonT(40) DEF CallType, Outcomes
  <2>3. calls' \in [Calls -> CallType]
    BY <2>1, <2>2
  <2>4. [as |-> calls[c].as, good |-> calls[c].good] \in [as : Users \cup {Guest}, good : BOOLEAN]
    BY DEF CallType
  <2> QED
    BY <1>3, <2>3, <2>4, ZenonT(40) DEF Retry
<1>4. ASSUME NEW c \in Calls, NEW answer, Resume(c, answer), strays' \subseteq [as : Users \cup {Guest}, good : BOOLEAN]
      PROVE TypeOK'
  <2>1. calls' \in [Calls -> CallType]
    BY <1>4, FreeType DEF Resume
  <2> QED
    BY <1>4, <2>1 DEF Resume
<1>5. ASSUME NEW c \in Calls, Answered(c) PROVE TypeOK'
  BY <1>5, <1>4 DEF Answered
<1>6. ASSUME NEW c \in Calls, Failed(c) PROVE TypeOK'
  <2>1. [as |-> calls[c].as, good |-> calls[c].good] \in [as : Users \cup {Guest}, good : BOOLEAN]
    BY DEF CallType
  <2> QED
    BY <1>6, <1>4, <2>1 DEF Failed
<1>7. ASSUME SubmitStray PROVE TypeOK'
  BY <1>7 DEF SubmitStray, LedgerAfter
<1>8. ASSUME ShowResult PROVE TypeOK'
  BY <1>8 DEF ShowResult
<1>9. ASSUME ToggleModal PROVE TypeOK'
  BY <1>9 DEF ToggleModal
<1>10. ASSUME StartOver PROVE TypeOK'
  <2>1. generation + 1 \in Boards
    BY <1>10 DEF StartOver, Boards
  <2> QED
    BY <1>10, <2>1 DEF StartOver
<1>11. ASSUME SwitchUser PROVE TypeOK'
  BY <1>11 DEF SwitchUser
<1>12. ASSUME UNCHANGED vars PROVE TypeOK'
  BY <1>12 DEF vars
<1> QED
  BY <1>1, <1>2, <1>3, <1>5, <1>6, <1>7, <1>8, <1>9, <1>10, <1>11, <1>12 DEF Next

(* Every variable of the session keeps its range, also for calls that were *)
(* retried as somebody else.                                               *)
THEOREM TypeCorrect == Spec => []TypeOK
  BY TypeInit, TypeStep, PTL DEF Spec

------------------------------------------------------------------------------
LEMMA BoardNumber == TypeOK => generation \in Nat /\ generation # 0
  BY SessionAssumption DEF SessionAssumption, TypeOK, Boards

LEMMA InvInit == Init => SessionInv
<1> SUFFICES ASSUME Init PROVE SessionInv
  OBVIOUS
<1>1. \A c \in Calls : calls[c].answer = "none" /\ ~InFlight(c)
  BY DEF Init, InFlight, Free
<1>2. NoneRefused /\ CallsOfBoards /\ HeldWhileSaving /\ AnswersAreBooked /\ OneSavePerBoard
  BY <1>1 DEF NoneRefused, CallsOfBoards, HeldWhileSaving, AnswersAreBooked, OneSavePerBoard
<1>3. LocksAgree /\ ShownIsOfThisBoard /\ AcceptedBeforeShown /\ RejectedPlaysOn /\ CleanWhilePlaying
  BY DEF Init, LocksAgree, ShownIsOfThisBoard, AcceptedBeforeShown, RejectedPlaysOn, CleanWhilePlaying
<1> QED
  BY <1>2, <1>3 DEF SessionInv

(* A finish is handed over when no save of this board is in flight, so the *)
(* new call is its only one.                                               *)
LEMMA EndGameStep == ASSUME TypeOK, SessionInv, NEW c \in Calls, EndGame(c) PROVE SessionInv'
<1> USE DEF SessionInv, clientRefs, screen
<1>1. ~saveLock /\ ~savedRef /\ savedRef' /\ saveLock'
  BY DEF EndGame, MayEnd, LocksAgree
<1>2. PICK good \in BOOLEAN : calls' = [calls EXCEPT ![c] =
        [pc |-> "sent", answer |-> "none", board |-> generation, good |-> good,
         guest |-> who = Guest, retried |-> FALSE, as |-> who]]
  BY <1>1 DEF EndGame
<1>3. /\ InFlight(c)' /\ calls'[c].board = generation /\ calls'[c].answer = "none"
      /\ \A d \in Calls \ {c} : calls'[d] = calls[d]
  BY <1>2 DEF TypeOK, InFlight
<1>4. \A d \in Calls : InFlight(d) => calls[d].board # generation
  BY <1>1 DEF HeldWhileSaving
<1>5. generation \in Nat /\ generation # 0 /\ generation' = generation /\ ledger' = ledger /\ accept' = accept
      /\ ready' = ready /\ score' = score /\ guestMark' = guestMark
  BY BoardNumber DEF EndGame
<1>6. timer' = IF accept THEN timer ELSE generation
  BY DEF EndGame
<1>7. timer = 0 /\ ready = 0
  BY <1>1 DEF CleanWhilePlaying
<1>8. (LocksAgree /\ CleanWhilePlaying)'
  BY <1>1 DEF LocksAgree, CleanWhilePlaying
<1>9. (NoneRefused /\ AnswersAreBooked)'
  BY <1>3, <1>5 DEF NoneRefused, AnswersAreBooked
<1>10. (CallsOfBoards /\ OneSavePerBoard)'
  BY <1>3, <1>4, <1>5 DEF CallsOfBoards, OneSavePerBoard, InFlight
<1>11. HeldWhileSaving'
  BY <1>1, <1>5, <1>6, <1>7 DEF HeldWhileSaving
<1>12. (ShownIsOfThisBoard /\ AcceptedBeforeShown)'
  BY <1>5, <1>6, <1>7 DEF ShownIsOfThisBoard, AcceptedBeforeShown, TypeOK
<1>13. RejectedPlaysOn'
  BY <1>3, <1>5 DEF RejectedPlaysOn
<1> QED
  BY <1>8, <1>9, <1>10, <1>11, <1>12, <1>13

(* The server's answer, a resend and a late request change no board and no *)
(* lock; the books only grow.                                              *)
LEMMA BooksGrow == ASSUME NEW as, NEW good PROVE ledger \subseteq LedgerAfter(as, good)
  BY DEF LedgerAfter

LEMMA OnTheWireStep ==
    ASSUME TypeOK, SessionInv, NEW c \in Calls, calls[c].pc # "free",
           NEW call, call.pc # "free", call.board = calls[c].board, call.answer # "Already saved",
           call.answer \in {"accepted", "already_played"} => ledger' # {},
           calls' = [calls EXCEPT ![c] = call], ledger # {} => ledger' # {},
           UNCHANGED <<accept, clientRefs, screen, guestMark>>
    PROVE  SessionInv'
<1> USE DEF SessionInv, clientRefs, screen
<1>1. /\ \A d \in Calls : InFlight(d)' = InFlight(d) /\ calls'[d].board = calls[d].board
      /\ \A d \in Calls \ {c} : calls'[d] = calls[d]
      /\ calls'[c] = call
  BY DEF TypeOK, InFlight
<1>2. (LocksAgree /\ CleanWhilePlaying /\ ShownIsOfThisBoard /\ AcceptedBeforeShown)'
  BY DEF LocksAgree, CleanWhilePlaying, ShownIsOfThisBoard, AcceptedBeforeShown
<1>3. (NoneRefused /\ AnswersAreBooked)'
  BY <1>1 DEF NoneRefused, AnswersAreBooked
<1>4. (CallsOfBoards /\ OneSavePerBoard /\ HeldWhileSaving /\ RejectedPlaysOn)'
  BY <1>1 DEF CallsOfBoards, OneSavePerBoard, HeldWhileSaving, RejectedPlaysOn
<1> QED
  BY <1>2, <1>3, <1>4

(* The outcome of a call counts for its own board only. Its board has no   *)
(* other save in flight, so releasing endGame's lock is safe.              *)
LEMMA ResumeStep ==
    ASSUME TypeOK, SessionInv, NEW c \in Calls, InFlight(c), NEW answer, Resume(c, answer), answer # "Already saved",
           answer \in {"accepted", "already_played"} => ledger # {}
    PROVE  SessionInv'
<1> USE DEF SessionInv, clientRefs, screen
<1> DEFINE success == answer \in {"accepted", "already_played"}
           current == calls[c].board = generation
<1>1. /\ \A d \in Calls \ {c} : calls'[d] = calls[d] /\ InFlight(d)' = InFlight(d)
      /\ ~InFlight(c)' /\ calls'[c].answer = "none"
  BY DEF TypeOK, Resume, InFlight, Free
<1>2. current => \A d \in Calls \ {c} : InFlight(d) => calls[d].board # generation
  BY DEF OneSavePerBoard
<1>3. /\ saveLock' = IF success THEN saveLock ELSE FALSE
      /\ score' = IF answer = "accepted" /\ current THEN generation ELSE score
      /\ savedRef' = IF current /\ accept /\ ~success THEN FALSE ELSE savedRef
      /\ timer' = IF current /\ success /\ accept THEN generation ELSE timer
      /\ guestMark' = (guestMark \/ (current /\ (success \/ ~accept) /\ calls[c].guest))
      /\ UNCHANGED <<accept, who, generation, ledger, ready, modal>>
  BY DEF Resume
<1>4. current => savedRef /\ (accept => timer = 0 /\ ready = 0)
  BY DEF HeldWhileSaving
<1>5. (NoneRefused /\ CallsOfBoards /\ OneSavePerBoard /\ AnswersAreBooked)'
  BY <1>1, <1>3 DEF NoneRefused, CallsOfBoards, OneSavePerBoard, AnswersAreBooked
<1>6. LocksAgree'
  BY <1>3, <1>4 DEF LocksAgree, TypeOK
<1>7. CleanWhilePlaying'
  BY <1>3, <1>4 DEF CleanWhilePlaying, TypeOK
<1>8. ShownIsOfThisBoard'
  BY <1>3 DEF ShownIsOfThisBoard
<1>9. AcceptedBeforeShown'
  BY <1>3 DEF AcceptedBeforeShown, TypeOK
<1>10. HeldWhileSaving'
  BY <1>1, <1>2, <1>3 DEF HeldWhileSaving, TypeOK
<1>11. RejectedPlaysOn'
  BY <1>1, <1>3, BoardNumber DEF RejectedPlaysOn, TypeOK
<1> QED
  BY <1>5, <1>6, <1>7, <1>8, <1>9, <1>10, <1>11

LEMMA NextBoard == ASSUME NEW n \in Nat PROVE \A b \in 1..n : b # n + 1 /\ b \in 1..(n + 1)
  OBVIOUS

LEMMA InvStep == TypeOK /\ SessionInv /\ [Next]_vars => SessionInv'
<1> SUFFICES ASSUME TypeOK, SessionInv, [Next]_vars PROVE SessionInv'
  OBVIOUS
<1>1. ASSUME NEW c \in Calls, EndGame(c) PROVE SessionInv'
  BY <1>1, EndGameStep
<1>2. ASSUME NEW c \in Calls, SubmitGuess(c) PROVE SessionInv'
  <2> DEFINE verdict == Verdict(calls[c].as, calls[c].good)
             call    == [calls[c] EXCEPT !.pc = "answered", !.answer = verdict]
  <2>1. calls[c] \in CallType /\ calls[c].pc = "sent"
    BY <1>2 DEF TypeOK, SubmitGuess
  <2>2. calls' = [calls EXCEPT ![c] = call] /\ ledger' = LedgerAfter(calls[c].as, calls[c].good)
    BY <1>2 DEF SubmitGuess
  <2>3. call.pc = "answered" /\ call.board = calls[c].board /\ call.answer = verdict
    BY <2>1 DEF CallType
  <2>4. verdict # "Already saved" /\ (verdict \in {"accepted", "already_played"} => ledger' # {})
    BY <2>2 DEF Verdict, LedgerAfter
  <2>5. ledger # {} => ledger' # {}
    BY <2>2 DEF LedgerAfter
  <2> HIDE DEF call, verdict
  <2> QED
    BY <1>2, <2>1, <2>2, <2>3, <2>4, <2>5, OnTheWireStep DEF SubmitGuess
<1>3. ASSUME NEW c \in Calls, Retry(c) PROVE SessionInv'
  <2> DEFINE call == [calls[c] EXCEPT !.pc = "sent", !.answer = "none", !.retried = TRUE, !.as = who]
  <2>1. calls[c] \in CallType /\ calls[c].pc # "free"
    BY <1>3 DEF TypeOK, Retry
  <2>2. calls' = [calls EXCEPT ![c] = call]
    BY <1>3 DEF Retry
  <2>3. call.pc = "sent" /\ call.board = calls[c].board /\ call.answer = "none"
    BY <2>1 DEF CallType
  <2> HIDE DEF call
  <2> QED
    BY <1>3, <2>1, <2>2, <2>3, OnTheWireStep DEF Retry
<1>4. ASSUME NEW c \in Calls, Answered(c) PROVE SessionInv'
  BY <1>4, ResumeStep DEF Answered, SessionInv, NoneRefused, AnswersAreBooked, InFlight
<1>5. ASSUME NEW c \in Calls, Failed(c) PROVE SessionInv'
  BY <1>5, ResumeStep DEF Failed, InFlight
<1> USE DEF SessionInv, LocksAgree, ShownIsOfThisBoard, AcceptedBeforeShown, OneSavePerBoard, RejectedPlaysOn,
            NoneRefused, CallsOfBoards, HeldWhileSaving, AnswersAreBooked, CleanWhilePlaying, InFlight, clientRefs, screen
<1>6. ASSUME SubmitStray PROVE SessionInv'
  BY <1>6, BooksGrow DEF SubmitStray
<1>7. ASSUME ShowResult PROVE SessionInv'
  BY <1>7 DEF ShowResult
<1>8. ASSUME ToggleModal PROVE SessionInv'
  BY <1>8 DEF ToggleModal
<1>9. ASSUME StartOver PROVE SessionInv'
  <2>1. generation \in Nat /\ generation' = generation + 1 /\ calls' = calls
    BY <1>9, BoardNumber DEF StartOver
  <2>2. \A b \in 1..generation : b # generation' /\ b \in 1..generation'
    BY <2>1, NextBoard
  <2>3. (CallsOfBoards /\ HeldWhileSaving /\ OneSavePerBoard /\ NoneRefused /\ AnswersAreBooked)'
    BY <1>9, <2>1, <2>2 DEF StartOver
  <2> QED
    BY <1>9, <2>3 DEF StartOver
<1>10. ASSUME SwitchUser PROVE SessionInv'
  BY <1>10 DEF SwitchUser
<1>11. ASSUME UNCHANGED vars PROVE SessionInv'
  BY <1>11 DEF vars
<1> QED
  BY <1>1, <1>2, <1>3, <1>4, <1>5, <1>6, <1>7, <1>8, <1>9, <1>10, <1>11 DEF Next

LEMMA SessionInvCorrect == Spec => [](TypeOK /\ SessionInv)
<1>1. Init => TypeOK /\ SessionInv
  BY TypeInit, InvInit
<1>2. (TypeOK /\ SessionInv) /\ [Next]_vars => (TypeOK /\ SessionInv)'
  BY TypeStep, InvStep
<1> QED
  BY <1>1, <1>2, PTL DEF Spec

(* use-save-game-result.ts and use-game-session.ts lock a board together:  *)
(* a board that may be handed over is not refused as 'Already saved'.      *)
THEOREM LocksAgreeCorrect == Spec => []LocksAgree
<1>1. SessionInv => LocksAgree
  BY DEF SessionInv
<1> QED
  BY <1>1, SessionInvCorrect, PTL

(* use-game-session.ts: the generation of a finish keeps its score and its *)
(* result off every later board.                                           *)
THEOREM ShownIsOfThisBoardCorrect == Spec => []ShownIsOfThisBoard
<1>1. SessionInv => ShownIsOfThisBoard
  BY DEF SessionInv
<1> QED
  BY <1>1, SessionInvCorrect, PTL

(* use-game-session.ts: with requireServerAccept nothing is celebrated,    *)
(* shown or kept for a guest before a finish of the ritual is recorded.    *)
THEOREM AcceptedBeforeShownCorrect == Spec => []AcceptedBeforeShown
<1>1. SessionInv => AcceptedBeforeShown
  BY DEF SessionInv
<1> QED
  BY <1>1, SessionInvCorrect, PTL

(* use-game-session.ts: savedRef keeps a board to one save in flight.      *)
THEOREM OneSavePerBoardCorrect == Spec => []OneSavePerBoard
<1>1. SessionInv => OneSavePerBoard
  BY DEF SessionInv
<1> QED
  BY <1>1, SessionInvCorrect, PTL

(* use-game-session.ts: a finish that did not count can be handed over     *)
(* again.                                                                  *)
THEOREM RejectedPlaysOnCorrect == Spec => []RejectedPlaysOn
<1>1. SessionInv => RejectedPlaysOn
  BY DEF SessionInv
<1> QED
  BY <1>1, SessionInvCorrect, PTL

------------------------------------------------------------------------------
(* The refinement.                                                         *)
LEMMA PromiseInit == Init => Promise!Init
  BY DEF Init, Promise!Init

(* A finish that returns ends the checking of its board, and of its only.  *)
LEMMA ResumePromise ==
    ASSUME TypeOK, SessionInv, NEW c \in Calls, InFlight(c), NEW answer, Resume(c, answer),
           answer \in {"accepted", "already_played"} => ledger # {}
    PROVE  [Promise!Next]_(Promise!promiseVars)
<1> USE DEF SessionInv
<1> DEFINE success == answer \in {"accepted", "already_played"}
           current == calls[c].board = generation
<1>1. /\ savedRef' = IF current /\ accept /\ ~success THEN FALSE ELSE savedRef
      /\ timer' = IF current /\ success /\ accept THEN generation ELSE timer
      /\ UNCHANGED <<accept, ledger, ready>>
  BY DEF Resume
<1>2. current => savedRef /\ (accept => timer = 0 /\ ready = 0)
  BY DEF HeldWhileSaving
<1>3. CASE current /\ accept /\ success
  BY <1>1, <1>2, <1>3, BoardNumber DEF Promise!Next, Promise!Show
<1>4. CASE current /\ accept /\ ~success
  BY <1>1, <1>2, <1>4 DEF Promise!Next, Promise!Refuse
<1>5. CASE ~(current /\ accept)
  BY <1>1, <1>5 DEF Promise!promiseVars
<1> QED
  BY <1>3, <1>4, <1>5

(* Every step of the page is one that FinishPromise allows, or none of its *)
(* own.                                                                    *)
LEMMA PromiseStep == TypeOK /\ SessionInv /\ [Next]_vars => [Promise!Next]_(Promise!promiseVars)
<1> SUFFICES ASSUME TypeOK, SessionInv, [Next]_vars PROVE [Promise!Next]_(Promise!promiseVars)
  OBVIOUS
<1> USE DEF clientRefs, screen
<1>1. ASSUME NEW c \in Calls, EndGame(c) PROVE [Promise!Next]_(Promise!promiseVars)
  <2>1. ~savedRef /\ savedRef' /\ timer = 0 /\ ready = 0 /\ ready' = 0
    BY <1>1 DEF EndGame, MayEnd, SessionInv, CleanWhilePlaying
  <2> QED
    BY <1>1, <2>1, BoardNumber DEF EndGame, Promise!Next, Promise!Finish, TypeOK
<1>2. ASSUME NEW c \in Calls, SubmitGuess(c) PROVE [Promise!Next]_(Promise!promiseVars)
  BY <1>2, BooksGrow DEF SubmitGuess, Promise!Next, Promise!Record, Promise!promiseVars, LedgerAfter
<1>3. ASSUME NEW c \in Calls, Retry(c) PROVE [Promise!Next]_(Promise!promiseVars)
  BY <1>3 DEF Retry, Promise!promiseVars
<1>4. ASSUME NEW c \in Calls, Answered(c) PROVE [Promise!Next]_(Promise!promiseVars)
  BY <1>4, ResumePromise DEF Answered, InFlight, SessionInv, AnswersAreBooked
<1>5. ASSUME NEW c \in Calls, Failed(c) PROVE [Promise!Next]_(Promise!promiseVars)
  BY <1>5, ResumePromise DEF Failed, InFlight
<1>6. ASSUME SubmitStray PROVE [Promise!Next]_(Promise!promiseVars)
  BY <1>6 DEF SubmitStray, LedgerAfter, Promise!Next, Promise!Record, Promise!promiseVars
<1>7. ASSUME ShowResult PROVE [Promise!Next]_(Promise!promiseVars)
  BY <1>7 DEF ShowResult, Promise!promiseVars
<1>8. ASSUME ToggleModal PROVE [Promise!Next]_(Promise!promiseVars)
  BY <1>8 DEF ToggleModal, Promise!promiseVars
<1>9. ASSUME StartOver PROVE [Promise!Next]_(Promise!promiseVars)
  BY <1>9 DEF StartOver, Promise!Next, Promise!StartOver
<1>10. ASSUME SwitchUser PROVE [Promise!Next]_(Promise!promiseVars)
  BY <1>10 DEF SwitchUser, Promise!promiseVars
<1>11. ASSUME UNCHANGED vars PROVE [Promise!Next]_(Promise!promiseVars)
  BY <1>11 DEF vars, Promise!promiseVars
<1> QED
  BY <1>1, <1>2, <1>3, <1>4, <1>5, <1>6, <1>7, <1>8, <1>9, <1>10, <1>11 DEF Next

(* The page implements the promise, its fairness apart.                    *)
THEOREM ImplementsPromise == Spec => Promise!Spec
<1>1. Init => Promise!Init
  BY PromiseInit
<1>2. TypeOK /\ SessionInv /\ [Next]_vars => [Promise!Next]_(Promise!promiseVars)
  BY PromiseStep
<1> QED
  BY <1>1, <1>2, SessionInvCorrect, PTL DEF Spec, Promise!Spec

------------------------------------------------------------------------------
(* Pages and requests in general.                                          *)

(* The renders of every page, see GameBoard.                               *)
LEMMA Render ==
    ASSUME NEW S, sent \in Seq(S), ended = FALSE, NEW s, NEW over \in BOOLEAN, NEW data,
           over => data \in S, Shows(s, over, data)
    PROVE  /\ state' = s /\ ended' = over /\ sent' \in Seq(S)
           /\ over => sent' # <<>> /\ Last(sent') = data
<1>1. CASE over
  <2>1. state' = s /\ ended' = TRUE /\ sent' = Append(sent, data)
    BY <1>1 DEF Shows
  <2> QED
    BY <1>1, <2>1 DEF Last
<1>2. CASE ~over
  BY <1>2 DEF Shows
<1> QED
  BY <1>1, <1>2

(* HandsOverTheFirst of a board that is over or not, with data on show,    *)
(* after the finishes handed over so far.                                  *)
GivenOnce(over, replay, data, ref, finishes) ==
    /\ ref <=> (over \/ replay)
    /\ Len(finishes) = IF ref THEN 1 ELSE 0
    /\ over /\ ~replay => finishes = <<data>>

(* A render of a page whose finish ref stays set.                          *)
LEMMA RenderAgain ==
    ASSUME NEW S, sent \in Seq(S), NEW replay \in BOOLEAN, ended = replay,
           Len(sent) = IF ended THEN 1 ELSE 0, NEW s, NEW over \in BOOLEAN, NEW data,
           over => data \in S, Shows(s, over, data)
    PROVE  /\ state' = s /\ ended' \in BOOLEAN /\ sent' \in Seq(S)
           /\ GivenOnce(over, replay, data, ended', sent')
<1>2. CASE over /\ ~ended
  <2>1. state' = s /\ ended' = TRUE /\ sent' = Append(sent, data)
    BY <1>2 DEF Shows
  <2>2. sent' = <<data>> /\ sent' \in Seq(S)
    BY <1>2, <2>1
  <2> QED
    BY <1>2, <2>1, <2>2 DEF GivenOnce
<1>3. CASE ~(over /\ ~ended)
  <2>1. state' = s /\ ended' = ended /\ sent' = sent
    BY <1>3 DEF Shows
  <2>2. ended <=> (over \/ replay)
    BY <1>3
  <2> QED
    BY <1>3, <2>1, <2>2 DEF GivenOnce
<1> QED
  BY <1>2, <1>3

(* Well-founded induction on the naturals, as their least-element principle. *)
LEMMA Smallest == ASSUME NEW S \in SUBSET Nat, S # {} PROVE \E x \in S : \A y \in S : x <= y
<1> DEFINE R == {ss \in Nat \X Nat : ss[1] < ss[2]}
<1>1. IsWellFoundedOn(R, Nat)
  BY NatLessThanWellFounded, Zenon DEF OpToRel
<1> HIDE DEF R
<1>2. PICK x \in S : \A y \in S : ~ (<<y, x>> \in R)
  BY <1>1, WFMin
<1>3. \A y \in S : ~ (y < x)
  BY <1>2 DEF R
<1> QED
  BY <1>3

(* Induction on numbers, for a set of numbers.                             *)
LEMMA OneByOne ==
    ASSUME NEW Good \in SUBSET Nat, 0 \in Good, \A n \in Good : n + 1 \in Good PROVE Good = Nat
<1> SUFFICES ASSUME Nat \ Good # {} PROVE FALSE
  OBVIOUS
<1>1. PICK m \in Nat \ Good : \A n \in Nat \ Good : m <= n
  BY Smallest
<1>2. m # 0 /\ m - 1 \in Nat /\ ~(m <= m - 1)
  BY <1>1
<1>3. m - 1 \in Good
  BY <1>1, <1>2
<1>4. (m - 1) + 1 \in Good
  BY <1>3
<1> QED
  BY <1>1, <1>4

(* Induction on the parts of a finite set.                                 *)
LEMMA PartByPart ==
    ASSUME NEW S, IsFiniteSet(S), NEW Good \in SUBSET SUBSET S, {} \in Good,
           \A s \in SUBSET S : s # {} /\ (\A x \in s : s \ {x} \in Good) => s \in Good
    PROVE  Good = SUBSET S
<1> DEFINE Sizes == {n \in Nat : \A s \in SUBSET S : Cardinality(s) = n => s \in Good}
<1>1. \A s \in SUBSET S : IsFiniteSet(s) /\ Cardinality(s) \in Nat /\ (Cardinality(s) = 0 <=> s = {})
  BY FS_Subset, FS_CardinalityType, FS_EmptySet
<1>2. 0 \in Sizes
  BY <1>1
<1>3. ASSUME NEW n \in Sizes PROVE n + 1 \in Sizes
  <2>1. ASSUME NEW s \in SUBSET S, Cardinality(s) = n + 1 PROVE s \in Good
    <3>1. \A x \in s : s \ {x} \in SUBSET S /\ Cardinality(s \ {x}) = Cardinality(s) - 1
      BY <1>1, FS_RemoveElement
    <3>2. n \in Nat /\ Cardinality(s) # 0 /\ Cardinality(s) - 1 = n
      BY <2>1
    <3>3. s # {} /\ \A x \in s : s \ {x} \in Good
      BY <1>1, <3>1, <3>2
    <3> QED
      BY <3>3
  <2> QED
    BY <2>1
<1> HIDE DEF Sizes
<1>4. Sizes = Nat
  <2>1. Sizes \in SUBSET Nat
    BY DEF Sizes
  <2> QED
    BY <1>2, <1>3, <2>1, OneByOne
<1>5. ASSUME NEW s \in SUBSET S PROVE s \in Good
  BY <1>1, <1>4, <1>5 DEF Sizes
<1> QED
  BY <1>5

(* A fold: a function on the parts of a finite set that takes the picked   *)
(* element off.                                                            *)
IsFold(g, S, V, base, step, pick) ==
    /\ g \in [SUBSET S -> V]
    /\ \A s \in SUBSET S : g[s] = IF s = {} THEN base ELSE step[<<pick[s], g[s \ {pick[s]}]>>]

(* It exists.                                                              *)
LEMMA FoldExists ==
    ASSUME NEW S, IsFiniteSet(S), NEW V, NEW base \in V, NEW step \in [S \X V -> V],
           NEW pick, \A s \in SUBSET S : s # {} => pick[s] \in s
    PROVE  \E g : IsFold(g, S, V, base, step, pick)
<1> DEFINE Folds(g, s) == g[s] = IF s = {} THEN base ELSE step[<<pick[s], g[s \ {pick[s]}]>>]
           UpTo(n) == \E g \in [SUBSET S -> V] : \A s \in SUBSET S : Cardinality(s) =< n => Folds(g, s)
           Good == {n \in Nat : UpTo(n)}
<1>1. \A s \in SUBSET S : IsFiniteSet(s) /\ Cardinality(s) \in Nat /\ (Cardinality(s) = 0 <=> s = {})
  BY FS_Subset, FS_CardinalityType, FS_EmptySet
<1>2. \A s \in SUBSET S : s # {} => s \ {pick[s]} \in SUBSET S /\ Cardinality(s \ {pick[s]}) = Cardinality(s) - 1
  BY <1>1, FS_RemoveElement
<1>3. UpTo(0)
  <2> DEFINE g == [s \in SUBSET S |-> base]
  <2>1. g \in [SUBSET S -> V] /\ g[{}] = base
    OBVIOUS
  <2>2. \A s \in SUBSET S : Cardinality(s) =< 0 => s = {}
    BY <1>1
  <2> HIDE DEF g
  <2>3. \A s \in SUBSET S : Cardinality(s) =< 0 => Folds(g, s)
    BY <2>1, <2>2
  <2> HIDE DEF Folds
  <2> QED
    BY <2>1, <2>3
<1>4. ASSUME NEW n \in Nat, UpTo(n) PROVE UpTo(n + 1)
  <2>1. PICK g \in [SUBSET S -> V] : \A s \in SUBSET S : Cardinality(s) =< n => Folds(g, s)
    BY <1>4
  <2> DEFINE h == [s \in SUBSET S |-> IF Cardinality(s) = n + 1 THEN step[<<pick[s], g[s \ {pick[s]}]>>] ELSE g[s]]
  <2>2. ASSUME NEW s \in SUBSET S, s # {} PROVE step[<<pick[s], g[s \ {pick[s]}]>>] \in V
    <3>1. g[s \ {pick[s]}] \in V /\ pick[s] \in S
      BY <1>2, <2>2
    <3> QED
      BY <3>1
  <2>3. h \in [SUBSET S -> V]
    <3>1. \A s \in SUBSET S : Cardinality(s) = n + 1 => s # {}
      BY <1>1
    <3> QED
      BY <2>2, <3>1
  <2>4. \A s \in SUBSET S : h[s] = IF Cardinality(s) = n + 1 THEN step[<<pick[s], g[s \ {pick[s]}]>>] ELSE g[s]
    OBVIOUS
  <2> HIDE DEF h
  <2>5. ASSUME NEW s \in SUBSET S, Cardinality(s) =< n + 1 PROVE Folds(h, s)
    <3>1. CASE s = {}
      <4>1. Cardinality(s) = 0 /\ 0 =< n /\ 0 # n + 1
        BY <1>1, <3>1
      <4>2. g[s] = base /\ h[s] = g[s]
        BY <2>1, <2>4, <3>1, <4>1
      <4> QED
        BY <3>1, <4>2
    <3>2. CASE s # {}
      <4> DEFINE t == s \ {pick[s]}
      <4>1. t \in SUBSET S /\ Cardinality(t) # n + 1
        BY <1>1, <1>2, <3>2, <2>5
      <4>2. h[t] = g[t]
        BY <2>4, <4>1
      <4>3. h[s] = step[<<pick[s], g[t]>>]
        <5>1. CASE Cardinality(s) = n + 1
          BY <2>4, <5>1
        <5>2. CASE Cardinality(s) # n + 1
          <6>1. Cardinality(s) =< n
            BY <1>1, <2>5, <5>2
          <6>2. g[s] = step[<<pick[s], g[t]>>]
            BY <2>1, <3>2, <6>1
          <6> QED
            BY <2>4, <5>2, <6>2
        <5> QED
          BY <5>1, <5>2
      <4> QED
        BY <3>2, <4>2, <4>3
    <3> QED
      BY <3>1, <3>2
  <2> HIDE DEF Folds
  <2> QED
    BY <2>3, <2>5
<1> HIDE DEF UpTo
<1>5. Good = Nat
  <2>1. Good \in SUBSET Nat /\ 0 \in Good /\ \A n \in Good : n + 1 \in Good
    BY <1>3, <1>4
  <2> HIDE DEF Good
  <2> QED
    BY <2>1, OneByOne
<1>6. UpTo(Cardinality(S))
  BY <1>1, <1>5
<1>7. \A s \in SUBSET S : Cardinality(s) =< Cardinality(S)
  BY FS_Subset
<1> HIDE DEF Folds
<1>8. \E g \in [SUBSET S -> V] : \A s \in SUBSET S : Folds(g, s)
  BY <1>6, <1>7 DEF UpTo
<1> QED
  BY <1>8 DEF Folds, IsFold

(* What satisfies a fold's equation stays within its values.               *)
LEMMA FoldStays ==
    ASSUME NEW S, IsFiniteSet(S), NEW V, NEW F, F[{}] \in V,
           \A s \in SUBSET S : s # {} => \E x \in s : F[s \ {x}] \in V => F[s] \in V
    PROVE  \A s \in SUBSET S : F[s] \in V
<1> DEFINE Good == {s \in SUBSET S : F[s] \in V}
<1>1. {} \in Good /\ Good \in SUBSET SUBSET S
  OBVIOUS
<1>2. ASSUME NEW s \in SUBSET S, s # {}, \A x \in s : s \ {x} \in Good PROVE s \in Good
  BY <1>2
<1> HIDE DEF Good
<1>3. Good = SUBSET S
  BY <1>1, <1>2, PartByPart
<1> QED
  BY <1>3 DEF Good

(* F adds up d over the parts of S.                                        *)
Adds(F, S, d) ==
    /\ IsFiniteSet(S) /\ d \in [S -> Int]
    /\ F[{}] = 0 /\ \A s \in SUBSET S : F[s] \in Int
    /\ \A s \in SUBSET S : s # {} => \E x \in s : F[s] = d[x] + F[s \ {x}]

(* In which order does not matter.                                         *)
LEMMA AnyOrder ==
    ASSUME NEW F, NEW S, NEW d, Adds(F, S, d)
    PROVE  \A s \in SUBSET S : \A x \in s : F[s] = d[x] + F[s \ {x}]
<1> DEFINE Good == {s \in SUBSET S : \A x \in s : F[s] = d[x] + F[s \ {x}]}
<1>1. {} \in Good /\ Good \in SUBSET SUBSET S
  OBVIOUS
<1>2. ASSUME NEW s \in SUBSET S, s # {}, \A x \in s : s \ {x} \in Good PROVE s \in Good
  <2>1. PICK p \in s : F[s] = d[p] + F[s \ {p}]
    BY <1>2 DEF Adds
  <2>2. ASSUME NEW x \in s, x # p PROVE F[s] = d[x] + F[s \ {x}]
    <3>1. F[s \ {p}] = d[x] + F[(s \ {p}) \ {x}]
      BY <1>2, <2>2
    <3>2. F[s \ {x}] = d[p] + F[(s \ {x}) \ {p}]
      BY <1>2, <2>2
    <3>3. (s \ {p}) \ {x} = (s \ {x}) \ {p}
      OBVIOUS
    <3>4. d[x] \in Int /\ d[p] \in Int /\ F[(s \ {x}) \ {p}] \in Int
      BY DEF Adds
    <3> HIDE DEF Good
    <3> DEFINE r == F[(s \ {x}) \ {p}]
    <3>5. F[s] = d[p] + (d[x] + r)
      BY <2>1, <3>1, <3>3
    <3>6. F[s \ {x}] = d[p] + r /\ r \in Int
      BY <3>2, <3>4
    <3> QED
      <4> HIDE DEF r
      <4> QED
        BY <3>4, <3>5, <3>6
  <2> QED
    BY <2>1, <2>2
<1> HIDE DEF Good
<1>3. Good = SUBSET S
  <2>1. IsFiniteSet(S)
    BY DEF Adds
  <2> QED
    BY <1>1, <1>2, <2>1, PartByPart
<1> QED
  BY <1>3 DEF Good

(* Sums of the same numbers are the same.                                  *)
LEMMA SumsAgree ==
    ASSUME NEW F, NEW S, NEW d, Adds(F, S, d), NEW G, NEW T, NEW e, Adds(G, T, e),
           NEW U \in SUBSET (S \cap T), \A x \in U : d[x] = e[x]
    PROVE  F[U] = G[U]
<1> DEFINE Good == {s \in SUBSET U : F[s] = G[s]}
<1>1. {} \in Good /\ Good \in SUBSET SUBSET U
  BY DEF Adds
<1>2. ASSUME NEW s \in SUBSET U, s # {}, \A x \in s : s \ {x} \in Good PROVE s \in Good
  <2>1. PICK x \in s : x \in s
    BY <1>2
  <2>2. F[s] = d[x] + F[s \ {x}] /\ G[s] = e[x] + G[s \ {x}]
    BY AnyOrder
  <2> QED
    BY <1>2, <2>2
<1> HIDE DEF Good
<1>3. Good = SUBSET U
  <2>1. IsFiniteSet(U)
    BY FS_Subset DEF Adds
  <2>2. {} \in Good /\ Good \in SUBSET SUBSET U /\ \A s \in SUBSET U : s # {} /\ (\A x \in s : s \ {x} \in Good) => s \in Good
    BY <1>1, <1>2
  <2> QED
    BY <2>1, <2>2, PartByPart
<1> QED
  BY <1>3 DEF Good

(* The sums of the folds of FiniteSetsExt, which choose what to take off.  *)
Chosen(s) == CHOOSE x \in s : TRUE

IsSum(g, S, d) ==
    /\ g \in [SUBSET S -> Int]
    /\ \A s \in SUBSET S : g[s] = IF s = {} THEN 0 ELSE d[Chosen(s)] + g[s \ {Chosen(s)}]

LEMMA SumExists == ASSUME NEW S, IsFiniteSet(S), NEW d \in [S -> Int] PROVE \E g : IsSum(g, S, d)
<1> DEFINE pick == [s \in SUBSET S |-> Chosen(s)]
           step == [p \in S \X Int |-> d[p[1]] + p[2]]
<1>1. \A s \in SUBSET S : pick[s] = Chosen(s) /\ (s # {} => Chosen(s) \in s)
  BY DEF Chosen
<1>2. \A b \in S, n \in Int : step[<<b, n>>] = d[b] + n
  OBVIOUS
<1>3. 0 \in Int /\ step \in [S \X Int -> Int]
  OBVIOUS
<1> HIDE DEF pick, step
<1>4. \A s \in SUBSET S : s # {} => pick[s] \in s
  BY <1>1
<1>5. PICK g : IsFold(g, S, Int, 0, step, pick)
  BY <1>3, <1>4, FoldExists
<1>6. ASSUME NEW s \in SUBSET S, s # {} PROVE g[s] = d[Chosen(s)] + g[s \ {Chosen(s)}]
  <2>1. Chosen(s) \in S /\ g[s \ {Chosen(s)}] \in Int
    BY <1>1, <1>5, <1>6 DEF IsFold
  <2>2. g[s] = step[<<Chosen(s), g[s \ {Chosen(s)}]>>]
    BY <1>1, <1>5, <1>6 DEF IsFold
  <2> QED
    BY <1>2, <2>1, <2>2
<1>7. g \in [SUBSET S -> Int] /\ g[{}] = 0
  BY <1>5 DEF IsFold
<1> QED
  BY <1>6, <1>7 DEF IsSum

LEMMA SumIsBackwards ==
    ASSUME NEW S, IsFiniteSet(S), NEW d \in [S -> Int], NEW F, F[{}] = 0,
           \A s \in SUBSET S : s # {} => F[s] = F[s \ {Chosen(s)}] + d[Chosen(s)]
    PROVE  Adds(F, S, d)
<1>1. \A s \in SUBSET S : s # {} => Chosen(s) \in s
  BY DEF Chosen
<1>2. \A s \in SUBSET S : F[s] \in Int
  <2>1. ASSUME NEW s \in SUBSET S, s # {}, F[s \ {Chosen(s)}] \in Int PROVE F[s] \in Int
    BY <1>1, <2>1
  <2>2. \A s \in SUBSET S : s # {} => \E x \in s : F[s \ {x}] \in Int => F[s] \in Int
    BY <1>1, <2>1
  <2>3. F[{}] \in Int
    OBVIOUS
  <2> QED
    BY <2>2, <2>3, FoldStays, Zenon
<1>3. ASSUME NEW s \in SUBSET S, s # {} PROVE F[s] = d[Chosen(s)] + F[s \ {Chosen(s)}]
  <2>1. Chosen(s) \in S /\ F[s \ {Chosen(s)}] \in Int /\ d[Chosen(s)] \in Int
    BY <1>1, <1>2, <1>3
  <2> QED
    BY <1>3, <2>1
<1> QED
  BY <1>1, <1>2, <1>3 DEF Adds

(* The colours of a key, best first: correct, present, absent, none.       *)
Statuses == {"none", "absent", "present", "correct"}

LEMMA BestOf ==
    ASSUME NEW S \in SUBSET Statuses, S # {}
    PROVE  Best(S) = IF "correct" \in S THEN "correct" ELSE IF "present" \in S THEN "present"
                     ELSE IF "absent" \in S THEN "absent" ELSE "none"
<1>1. /\ Rank("none") = 0 /\ Rank("absent") = 1 /\ Rank("present") = 2 /\ Rank("correct") = 3
  <2> DEFINE T == <<"none", "absent", "present", "correct">>
  <2>1. T[1] = "none" /\ T[2] = "absent" /\ T[3] = "present" /\ T[4] = "correct"
    OBVIOUS
  <2> HIDE DEF T
  <2>2. 0..3 = {0, 1, 2, 3}
    OBVIOUS
  <2>3. \A x : Rank(x) = CHOOSE r \in {0, 1, 2, 3} : T[r + 1] = x
    BY <2>2 DEF Rank, T
  <2>4. \A r \in {0, 1, 2, 3} : T[r + 1] = (CASE r = 0 -> "none" [] r = 1 -> "absent" [] r = 2 -> "present" [] r = 3 -> "correct")
    BY <2>1
  <2> QED
    BY <2>3, <2>4, SMTT(30)
<1> DEFINE best == IF "correct" \in S THEN "correct" ELSE IF "present" \in S THEN "present"
                   ELSE IF "absent" \in S THEN "absent" ELSE "none"
<1>2. best \in S
  BY DEF Statuses
<1>3. \A t \in S : Rank(t) =< Rank(best)
  BY <1>1 DEF Statuses
<1>4. \A s \in S : (\A t \in S : Rank(t) =< Rank(s)) => s = best
  BY <1>1, <1>2 DEF Statuses
<1> HIDE DEF best
<1>5. Best(S) = best
  BY <1>2, <1>3, <1>4 DEF Best
<1> QED
  BY <1>5 DEF best

LEMMA BestMore ==
    ASSUME NEW A \in SUBSET Statuses, NEW B \in SUBSET Statuses, A # {}
    PROVE  Best({Best(A)} \cup B) = Best(A \cup B)
<1> DEFINE a == Best(A)
           D == {a} \cup B
           E == A \cup B
<1>1. a = IF "correct" \in A THEN "correct" ELSE IF "present" \in A THEN "present"
          ELSE IF "absent" \in A THEN "absent" ELSE "none"
  BY BestOf
<1>2. a \in A /\ D \in SUBSET Statuses /\ E \in SUBSET Statuses /\ D # {} /\ E # {}
  BY <1>1 DEF Statuses
<1>3. /\ "correct" \in D <=> "correct" \in E
      /\ "correct" \notin E => ("present" \in D <=> "present" \in E)
      /\ "correct" \notin E /\ "present" \notin E => ("absent" \in D <=> "absent" \in E)
  BY <1>1
<1> HIDE DEF D, E
<1>4. Best(D) = Best(E)
  BY <1>2, <1>3, BestOf
<1> QED
  BY <1>4 DEF D, E

(* A request is answered: the others keep their order.                     *)
LEMMA Removed ==
    ASSUME NEW S, NEW s \in Seq(S), NEW k \in DOMAIN s
    PROVE  /\ RemoveAt(s, k) \in Seq(S) /\ Len(RemoveAt(s, k)) = Len(s) - 1
           /\ DOMAIN RemoveAt(s, k) = 1..(Len(s) - 1)
           /\ \A j \in 1..(Len(s) - 1) : RemoveAt(s, k)[j] = IF j < k THEN s[j] ELSE s[j + 1]
<1> DEFINE a == SubSeq(s, 1, k - 1)
           b == SubSeq(s, k + 1, Len(s))
<1>1. k \in 1..Len(s) /\ Len(s) \in Nat
  OBVIOUS
<1>2. a \in Seq(S) /\ Len(a) = k - 1 /\ \A j \in 1..(k - 1) : a[j] = s[j]
  BY <1>1
<1>3. b \in Seq(S) /\ Len(b) = Len(s) - k /\ \A j \in 1..(Len(s) - k) : b[j] = s[k + j]
  BY <1>1
<1>4. RemoveAt(s, k) = a \o b
  BY DEF RemoveAt
<1> HIDE DEF a, b
<1>5. a \o b \in Seq(S) /\ Len(a \o b) = Len(s) - 1 /\ DOMAIN (a \o b) = 1..(Len(s) - 1)
  BY <1>1, <1>2, <1>3
<1>6. ASSUME NEW j \in 1..(Len(s) - 1) PROVE (a \o b)[j] = IF j < k THEN s[j] ELSE s[j + 1]
  <2>1. CASE j < k
    BY <1>1, <1>2, <1>3, <2>1
  <2>2. CASE ~(j < k)
    <3>1. j \in 1..(Len(a) + Len(b)) /\ ~(j <= Len(a)) /\ Len(a) \in Nat /\ Len(b) \in Nat
      BY <1>1, <1>2, <1>3, <2>2
    <3>2. (a \o b)[j] = b[j - Len(a)]
      <4>1. a \in Seq(S) /\ b \in Seq(S)
        BY <1>2, <1>3
      <4> QED
        BY <3>1, <4>1
    <3>3. j - Len(a) = j - k + 1 /\ j - k + 1 \in 1..(Len(s) - k) /\ k + (j - k + 1) = j + 1
      BY <1>1, <1>2, <2>2
    <3> QED
      BY <1>3, <2>2, <3>2, <3>3
  <2> QED
    BY <2>1, <2>2
<1> QED
  BY <1>4, <1>5, <1>6

(* A sequence of distinct members of a finite set has them all when it is  *)
(* as long as the set is large.                                            *)
LEMMA AllFound ==
    ASSUME NEW C, IsFiniteSet(C), NEW S, NEW found \in Seq(S), IsInjective(found), Range(found) \subseteq C
    PROVE  Len(found) = Cardinality(C) <=> Range(found) = C
<1> DEFINE D == 1..Len(found)
<1>1. DOMAIN found = D /\ Len(found) \in Nat
  OBVIOUS
<1>2. IsFiniteSet(D) /\ Cardinality(D) = Len(found)
  BY <1>1, FS_Interval
<1> HIDE DEF D
<1>3. found \in [D -> C]
  BY <1>1 DEF Range
<1>4. found \in Injection(D, C)
  BY <1>1, <1>3 DEF Injection, IsInjective
<1>5. Cardinality(D) = Cardinality(C) <=> found \in Surjection(D, C)
  BY <1>2, <1>4, FS_Injection
<1>6. found \in Surjection(D, C) <=> Range(found) = C
  BY <1>1, <1>3 DEF Surjection, Range
<1> QED
  BY <1>2, <1>5, <1>6

LEMMA AppendedRange ==
    ASSUME NEW S, NEW h \in Seq(S), NEW g \in S
    PROVE  /\ Append(h, g) \in Seq(S) /\ Len(Append(h, g)) = Len(h) + 1
           /\ Range(Append(h, g)) = Range(h) \cup {g}
           /\ IsInjective(h) /\ g \notin Range(h) => IsInjective(Append(h, g))
<1> DEFINE q == Append(h, g)
<1>1. q \in Seq(S) /\ Len(q) = Len(h) + 1 /\ DOMAIN q = 1..(Len(h) + 1) /\ q[Len(h) + 1] = g
      /\ Len(h) \in Nat /\ DOMAIN h = 1..Len(h) /\ \A i \in 1..Len(h) : q[i] = h[i]
  OBVIOUS
<1> HIDE DEF q
<1>2. Range(q) = Range(h) \cup {g}
  BY <1>1 DEF Range
<1>3. IsInjective(h) /\ g \notin Range(h) => IsInjective(q)
  BY <1>1 DEF Range, IsInjective
<1> QED
  BY <1>1, <1>2, <1>3 DEF q

------------------------------------------------------------------------------
(* Word Guess.                                                             *)
CONSTANTS Letters, Dictionary, Answer, WORD_LENGTH, MAX_GUESSES
Guess == INSTANCE WordGuess

Guessed == {w \in Dictionary \cap Seq(Letters) : Len(w) = WORD_LENGTH}

GuessPuzzle ==
    /\ WORD_LENGTH \in Nat \ {0} /\ MAX_GUESSES \in Nat \ {0}
    /\ Answer \in Seq(Letters) /\ Len(Answer) = WORD_LENGTH

GuessFields == {"grading", "guesses", "evaluations", "currentGuess", "keyboardState", "gameStatus"}

GuessFinishes == {f \in [status : {"won", "lost"}, guesses : Seq(Guessed)] : Guess!Right(f)}

Grades(guesses) == [i \in DOMAIN guesses |-> EvaluateGuess(guesses[i], Answer)]

(* The rows, when the game is on, won or lost.                             *)
RowsOf(guesses, status) ==
    /\ guesses \in Seq(Guessed) /\ status \in {"playing", "won", "lost"}
    /\ status = "playing" => Len(guesses) < MAX_GUESSES
    /\ status = "won" => /\ guesses # <<>> /\ Len(guesses) =< MAX_GUESSES
                         /\ \A i \in DOMAIN guesses : guesses[i] = Answer <=> i = Len(guesses)
    /\ status = "lost" => Len(guesses) = MAX_GUESSES
    /\ status # "won" => \A i \in DOMAIN guesses : guesses[i] # Answer

(* One request at a time, for a word of the list.                          *)
GuessAsked(grading, requests) ==
    /\ grading \in BOOLEAN
    /\ requests \in Seq(Guessed) /\ Len(requests) = IF grading THEN 1 ELSE 0

(* The colour of a key after one more tile.                                *)
Coloured(keys, guess, tiles, i) ==
    CASE tiles[i] = "correct" -> [keys EXCEPT ![guess[i]] = "correct"]
      [] tiles[i] = "present" /\ keys[guess[i]] # "correct" -> [keys EXCEPT ![guess[i]] = "present"]
      [] tiles[i] = "absent" /\ keys[guess[i]] = "none" -> [keys EXCEPT ![guess[i]] = "absent"]
      [] OTHER -> keys

Better(a, b) == Best({a} \cup {b})

KeyMaps == [Letters -> Statuses]
Tiles(n) == [1..n -> Statuses \ {"none"}]

LEMMA ColouredIs ==
    ASSUME NEW n \in Nat, NEW guess \in [1..n -> Letters], NEW tiles \in Tiles(n), NEW keys \in KeyMaps, NEW i \in 1..n
    PROVE  /\ Coloured(keys, guess, tiles, i) \in KeyMaps
           /\ \A l \in Letters : Coloured(keys, guess, tiles, i)[l] =
                IF l = guess[i] THEN Better(keys[l], tiles[i]) ELSE keys[l]
<1> DEFINE old == keys[guess[i]]
           t == tiles[i]
           best == Best({old} \cup {t})
<1>1. guess[i] \in Letters /\ old \in Statuses /\ t \in Statuses \ {"none"} /\ {old} \cup {t} \in SUBSET Statuses
  BY DEF KeyMaps, Tiles
<1>2. best = IF "correct" \in {old} \cup {t} THEN "correct" ELSE IF "present" \in {old} \cup {t} THEN "present"
             ELSE IF "absent" \in {old} \cup {t} THEN "absent" ELSE "none"
  BY <1>1, BestOf
<1>3. best = CASE t = "correct" -> "correct"
               [] t = "present" /\ old # "correct" -> "present"
               [] t = "absent" /\ old = "none" -> "absent"
               [] OTHER -> old
  BY <1>1, <1>2 DEF Statuses
<1>4. best \in Statuses
  BY <1>1, <1>2 DEF Statuses
<1>5. Coloured(keys, guess, tiles, i) = [keys EXCEPT ![guess[i]] = best]
  <2>1. keys = [keys EXCEPT ![guess[i]] = old]
    BY DEF KeyMaps
  <2> HIDE DEF best
  <2> QED
    BY <1>3, <2>1 DEF Coloured
<1> HIDE DEF best, old, t
<1>6. Coloured(keys, guess, tiles, i) \in KeyMaps
  BY <1>4, <1>5 DEF KeyMaps
<1>7. \A l \in Letters : Coloured(keys, guess, tiles, i)[l] = IF l = guess[i] THEN best ELSE keys[l]
  BY <1>5 DEF KeyMaps
<1>8. \A l \in Letters : l = guess[i] => best = Better(keys[l], tiles[i])
  BY DEF best, old, t, Better
<1> QED
  BY <1>6, <1>7, <1>8

LEMMA GreatestOf ==
    ASSUME NEW n \in Nat, NEW s \in SUBSET (1..n), s # {}
    PROVE  Guess!Max(s) \in s /\ \A x \in s : Guess!Max(s) >= x
<1> DEFINE T == {m \in Nat : \E x \in s : m = n - x}
<1>1. T \in SUBSET Nat /\ T # {}
  <2>1. PICK x \in s : x \in 1..n
    OBVIOUS
  <2>2. n - x \in Nat
    BY <2>1
  <2>3. n - x \in T
    BY <2>1, <2>2
  <2> QED
    BY <2>3
<1>2. PICK m \in T : \A y \in T : m =< y
  BY <1>1, Smallest
<1>3. PICK x \in s : m = n - x
  BY <1>2
<1>4. \A y \in s : x >= y
  <2> SUFFICES ASSUME NEW y \in s PROVE x >= y
    OBVIOUS
  <2>1. n - y \in T /\ y \in Nat /\ x \in Nat
    OBVIOUS
  <2> QED
    BY <1>2, <1>3, <2>1
<1>5. Guess!Max(s) = CHOOSE z \in s : \A y \in s : z >= y
  BY DEF Guess!Max
<1> HIDE DEF T
<1> QED
  BY <1>4, <1>5

(* The page's fold over the tiles of a row, tile after tile.               *)
LEMMA TileByTile ==
    ASSUME NEW n \in Nat, NEW guess \in [1..n -> Letters], NEW tiles \in Tiles(n), NEW keys \in KeyMaps
    PROVE  \E R : /\ R[0] = keys /\ \A k \in 1..n : R[k] = Coloured(R[k - 1], guess, tiles, k)
                  /\ Guess!UpdateKeyboardState(keys, guess, tiles) = R[n]
<1> DEFINE D == 1..n
           last == [s \in SUBSET D |-> Guess!Max(s)]
           colour == [p \in D \X KeyMaps |-> Coloured(p[2], guess, tiles, p[1])]
           Is(g) == g = [s \in SUBSET D |->
                           IF s = {} THEN keys
                           ELSE Coloured(g[s \ {Guess!Max(s)}], guess, tiles, [i \in D |-> i][Guess!Max(s)])]
           F == CHOOSE g : Is(g)
<1>0. DOMAIN guess = D
  OBVIOUS
<1>1. Guess!UpdateKeyboardState(keys, guess, tiles) = F[D]
  BY <1>0 DEF Guess!UpdateKeyboardState, Guess!FoldLeft, Guess!MapThenFoldSet, Coloured
<1>2. IsFiniteSet(D)
  BY FS_Interval
<1>3. \A s \in SUBSET D : last[s] = Guess!Max(s) /\ (s # {} => last[s] \in s)
  BY GreatestOf
<1>4. colour \in [D \X KeyMaps -> KeyMaps] /\ \A i \in D, m \in KeyMaps : colour[<<i, m>>] = Coloured(m, guess, tiles, i)
  BY ColouredIs
<1> HIDE DEF last, colour, D
<1>5. PICK g : IsFold(g, D, KeyMaps, keys, colour, last)
  <2>1. \A s \in SUBSET D : s # {} => last[s] \in s
    BY <1>3
  <2> QED
    BY <1>2, <1>4, <2>1, FoldExists
<1>6. Is(g)
  <2>1. ASSUME NEW s \in SUBSET D, s # {}
        PROVE  g[s] = Coloured(g[s \ {Guess!Max(s)}], guess, tiles, [i \in D |-> i][Guess!Max(s)])
    <3>1. Guess!Max(s) \in D /\ g[s \ {Guess!Max(s)}] \in KeyMaps
      BY <1>3, <1>5, <2>1 DEF IsFold
    <3>2. g[s] = colour[<<Guess!Max(s), g[s \ {Guess!Max(s)}]>>]
      BY <1>3, <1>5, <2>1 DEF IsFold
    <3>3. g[s] = Coloured(g[s \ {Guess!Max(s)}], guess, tiles, Guess!Max(s))
      BY <1>4, <3>1, <3>2
    <3>4. [i \in D |-> i][Guess!Max(s)] = Guess!Max(s)
      BY <3>1
    <3> QED
      BY <3>3, <3>4
  <2>2. g \in [SUBSET D -> KeyMaps] /\ g[{}] = keys
    BY <1>5 DEF IsFold
  <2> QED
    BY <2>1, <2>2
<1>7. Is(F)
  BY <1>6
<1> HIDE DEF F
<1>8. F[{}] = keys
  BY <1>7
<1>9. ASSUME NEW s \in SUBSET D, s # {} PROVE F[s] = Coloured(F[s \ {Guess!Max(s)}], guess, tiles, Guess!Max(s))
  <2>1. F[s] = Coloured(F[s \ {Guess!Max(s)}], guess, tiles, [i \in D |-> i][Guess!Max(s)])
    BY <1>7, <1>9
  <2>2. [i \in D |-> i][Guess!Max(s)] = Guess!Max(s)
    BY <1>3, <1>9
  <2> QED
    BY <2>1, <2>2
<1> HIDE DEF Is
<1> DEFINE R == [k \in 0..n |-> F[1..k]]
<1>10. ASSUME NEW k \in 1..n PROVE R[k] = Coloured(R[k - 1], guess, tiles, k)
  <2> DEFINE s == 1..k
  <2>1. s \in SUBSET D /\ k \in s /\ (\A x \in s : x =< k) /\ s \ {k} = 1..(k - 1) /\ k - 1 \in 0..n /\ k \in 0..n
    BY DEF D
  <2> HIDE DEF s
  <2>2. Guess!Max(s) \in s /\ Guess!Max(s) >= k
    BY <2>1, GreatestOf DEF D
  <2>3. Guess!Max(s) = k
    BY <2>1, <2>2 DEF s
  <2>4. F[s] = Coloured(F[1..(k - 1)], guess, tiles, k)
    BY <1>9, <2>1, <2>3
  <2> QED
    BY <2>1, <2>4 DEF s
<1>11. R[0] = keys /\ R[n] = F[D]
  <2>1. 1..0 = {} /\ 0 \in 0..n /\ n \in 0..n
    OBVIOUS
  <2> QED
    BY <1>8, <2>1 DEF D
<1> HIDE DEF R
<1> QED
  BY <1>1, <1>10, <1>11

(* Each key ends with the best of its old colour and the tiles of its      *)
(* letter.                                                                 *)
LEMMA BestOfRow ==
    ASSUME NEW n \in Nat, NEW guess \in [1..n -> Letters], NEW tiles \in Tiles(n), NEW keys \in KeyMaps
    PROVE  Guess!UpdateKeyboardState(keys, guess, tiles) =
             [l \in Letters |-> Best({keys[l]} \cup {tiles[j] : j \in {k \in 1..n : guess[k] = l}})]
<1> DEFINE Of(l, k) == {tiles[j] : j \in {m \in 1..k : guess[m] = l}}
           Upto(k) == [l \in Letters |-> Best({keys[l]} \cup Of(l, k))]
<1>1. PICK R : /\ R[0] = keys /\ \A k \in 1..n : R[k] = Coloured(R[k - 1], guess, tiles, k)
               /\ Guess!UpdateKeyboardState(keys, guess, tiles) = R[n]
  BY TileByTile
<1>2. \A l, k : k \in 0..n => Of(l, k) \in SUBSET Statuses
  BY DEF Tiles
<1>c. \A i \in 1..n, m \in KeyMaps :
          /\ Coloured(m, guess, tiles, i) \in KeyMaps
          /\ \A l \in Letters : Coloured(m, guess, tiles, i)[l] = IF l = guess[i] THEN Better(m[l], tiles[i]) ELSE m[l]
  BY ColouredIs
<1> DEFINE Good == {k \in Nat : k =< n => R[k] \in KeyMaps /\ R[k] = Upto(k)}
<1>3. 0 \in Good
  <2>1. \A l \in Letters : Of(l, 0) = {}
    OBVIOUS
  <2>2. ASSUME NEW l \in Letters PROVE Best({keys[l]} \cup Of(l, 0)) = keys[l]
    <3>1. {keys[l]} \in SUBSET Statuses /\ {keys[l]} \cup Of(l, 0) = {keys[l]} /\ {keys[l]} # {}
      BY <2>1 DEF KeyMaps
    <3>2. Best({keys[l]}) = keys[l]
      BY <3>1, BestOf DEF Statuses
    <3> QED
      BY <3>1, <3>2
  <2> HIDE DEF Of
  <2>3. Upto(0) = keys
    BY <2>2 DEF KeyMaps
  <2> QED
    BY <1>1, <2>3
<1>4. ASSUME NEW k \in Good PROVE k + 1 \in Good
  <2> SUFFICES ASSUME k + 1 =< n PROVE R[k + 1] \in KeyMaps /\ R[k + 1] = Upto(k + 1)
    OBVIOUS
  <2>1. k \in 0..n /\ k + 1 \in 1..n /\ (k + 1) - 1 = k /\ k + 1 \in 0..n
    OBVIOUS
  <2>2. R[k] \in KeyMaps /\ \A l \in Letters : R[k][l] = Best({keys[l]} \cup Of(l, k))
    BY <2>1
  <2>3. R[k + 1] = Coloured(R[k], guess, tiles, k + 1)
    BY <1>1, <2>1
  <2>c. /\ R[k + 1] \in KeyMaps
        /\ \A l \in Letters : R[k + 1][l] = IF l = guess[k + 1] THEN Better(R[k][l], tiles[k + 1]) ELSE R[k][l]
    BY <1>c, <2>1, <2>2, <2>3
  <2>4. ASSUME NEW l \in Letters PROVE R[k + 1][l] = Best({keys[l]} \cup Of(l, k + 1))
    <3> DEFINE A == {keys[l]} \cup Of(l, k)
    <3>1. A \in SUBSET Statuses /\ A # {}
      BY <1>2, <2>1 DEF KeyMaps
    <3>2. CASE l = guess[k + 1]
      <4>1. Of(l, k + 1) = Of(l, k) \cup {tiles[k + 1]}
        BY <2>1, <3>2
      <4>2. {tiles[k + 1]} \in SUBSET Statuses
        BY <2>1 DEF Tiles
      <4>3. R[k + 1][l] = Best({R[k][l]} \cup {tiles[k + 1]})
        BY <2>c, <3>2 DEF Better
      <4>4. {keys[l]} \cup Of(l, k + 1) = A \cup {tiles[k + 1]}
        BY <4>1
      <4> HIDE DEF A
      <4>5. Best({Best(A)} \cup {tiles[k + 1]}) = Best(A \cup {tiles[k + 1]})
        BY <3>1, <4>2, BestMore
      <4>6. R[k][l] = Best(A)
        BY <2>2 DEF A
      <4> HIDE DEF Of
      <4> QED
        BY <4>3, <4>4, <4>5, <4>6
    <3>3. CASE l # guess[k + 1]
      <4>1. Of(l, k + 1) = Of(l, k)
        BY <2>1, <3>3
      <4>2. R[k + 1][l] = R[k][l]
        BY <2>c, <3>3
      <4> HIDE DEF Of
      <4> QED
        BY <2>2, <4>1, <4>2
    <3> QED
      BY <3>2, <3>3
  <2>5. R[k + 1] \in KeyMaps
    BY <2>c
  <2> HIDE DEF Of
  <2>6. R[k + 1] = Upto(k + 1)
    BY <2>4, <2>5 DEF KeyMaps
  <2> QED
    BY <2>5, <2>6
<1> HIDE DEF Good
<1>5. n \in Good
  <2>1. Good \in SUBSET Nat
    BY DEF Good
  <2> QED
    BY <1>3, <1>4, <2>1, OneByOne
<1>6. R[n] = Upto(n)
  BY <1>5 DEF Good
<1> QED
  BY <1>1, <1>6

(* The keyboard of rows of guesses.                                        *)
KeyColours(l, guesses) == ColoursOf(l, guesses, Grades(guesses))
KeysOf(guesses) == [l \in Letters |-> Best({"none"} \cup KeyColours(l, guesses))]

LEMMA NoKeys == KeysOf(<<>>) = [l \in Letters |-> "none"]
<1>1. \A l : KeyColours(l, <<>>) = {}
  BY DEF KeyColours, ColoursOf
<1>2. Best({"none"}) = "none"
  <2>1. {"none"} \in SUBSET Statuses /\ {"none"} # {}
    BY DEF Statuses
  <2> QED
    BY <2>1, BestOf
<1>3. \A l : {"none"} \cup KeyColours(l, <<>>) = {"none"}
  BY <1>1
<1> QED
  BY <1>2, <1>3 DEF KeysOf

(* A further row: what the page makes of the keyboard it shows.            *)
LEMMA RowColours ==
    ASSUME GuessPuzzle, NEW h \in Seq(Guessed), NEW w \in Guessed
    PROVE  Guess!UpdateKeyboardState(KeysOf(h), w, EvaluateGuess(w, Answer)) = KeysOf(Append(h, w))
<1> DEFINE more == Append(h, w)
           n == Len(h) + 1
           tiles == EvaluateGuess(w, Answer)
           Of(row, l) == {EvaluateGuess(row, Answer)[j] : j \in {k \in DOMAIN row : row[k] = l}}
<1>1. /\ DOMAIN more = 1..n /\ DOMAIN h = 1..Len(h) /\ n \in Nat /\ Len(h) \in Nat /\ more[n] = w
      /\ \A i \in 1..Len(h) : more[i] = h[i]
  OBVIOUS
<1>2. w \in [1..WORD_LENGTH -> Letters] /\ WORD_LENGTH \in Nat /\ DOMAIN w = 1..WORD_LENGTH
  BY DEF Guessed, GuessPuzzle
<1>3. tiles \in Tiles(WORD_LENGTH)
  BY <1>2 DEF EvaluateGuess, Tiles, Statuses
<1>4. \A row, l : Of(row, l) \in SUBSET Statuses
  BY DEF EvaluateGuess, Statuses
<1>5. \A rows, l : KeyColours(l, rows) = UNION {Of(rows[i], l) : i \in DOMAIN rows}
  BY DEF KeyColours, ColoursOf, Grades
<1>6. \A l : Of(w, l) = {tiles[j] : j \in {k \in 1..WORD_LENGTH : w[k] = l}}
  BY <1>2
<1> HIDE DEF more, n, Of, tiles
<1>7. ASSUME NEW l
      PROVE  KeyColours(l, more) = KeyColours(l, h) \cup Of(w, l) /\ KeyColours(l, h) \in SUBSET Statuses
  <2>1. \A i \in DOMAIN more : (i = n /\ more[i] = w) \/ (i \in DOMAIN h /\ more[i] = h[i])
    BY <1>1 DEF n
  <2>2. n \in DOMAIN more /\ \A i \in DOMAIN h : i \in DOMAIN more
    BY <1>1 DEF n
  <2>3. ASSUME NEW x \in KeyColours(l, more) PROVE x \in KeyColours(l, h) \cup Of(w, l)
    BY <1>5, <2>1
  <2>4. ASSUME NEW x \in Of(w, l) PROVE x \in KeyColours(l, more)
    BY <1>1, <1>5, <2>2
  <2>5. ASSUME NEW x \in KeyColours(l, h) PROVE x \in KeyColours(l, more)
    BY <1>1, <1>5, <2>2
  <2>6. KeyColours(l, h) \in SUBSET Statuses
    BY <1>4, <1>5
  <2> QED
    BY <2>3, <2>4, <2>5, <2>6
<1>8. ASSUME NEW l \in Letters PROVE KeysOf(h)[l] \in Statuses /\ KeysOf(more)[l] = Best({KeysOf(h)[l]} \cup Of(w, l))
  <2> DEFINE A == {"none"} \cup KeyColours(l, h)
             B == Of(w, l)
  <2>1. A \in SUBSET Statuses /\ A # {} /\ B \in SUBSET Statuses
    BY <1>4, <1>7 DEF Statuses
  <2>2. A \cup B = {"none"} \cup KeyColours(l, more)
    BY <1>7
  <2>3. KeysOf(h)[l] = Best(A) /\ KeysOf(more)[l] = Best(A \cup B)
    BY <2>2 DEF KeysOf
  <2> HIDE DEF A, B
  <2>4. Best({Best(A)} \cup B) = Best(A \cup B)
    BY <2>1, BestMore
  <2>5. Best(A) \in Statuses
    BY <2>1, BestOf DEF Statuses
  <2> QED
    BY <2>3, <2>4, <2>5 DEF B
<1>9. KeysOf(h) \in KeyMaps
  BY <1>8 DEF KeyMaps, KeysOf
<1>10. Guess!UpdateKeyboardState(KeysOf(h), w, tiles) =
         [l \in Letters |-> Best({KeysOf(h)[l]} \cup {tiles[j] : j \in {k \in 1..WORD_LENGTH : w[k] = l}})]
  BY <1>2, <1>3, <1>9, BestOfRow
<1>11. Guess!UpdateKeyboardState(KeysOf(h), w, tiles) = [l \in Letters |-> Best({KeysOf(h)[l]} \cup Of(w, l))]
  BY <1>6, <1>10
<1>12. KeysOf(more) = [l \in Letters |-> KeysOf(more)[l]]
  BY DEF KeysOf
<1> QED
  BY <1>8, <1>11, <1>12 DEF more, tiles

GuessBoard(s, requests, over, finishes) ==
    /\ DOMAIN s = GuessFields
    /\ RowsOf(s.guesses, s.gameStatus) /\ s.evaluations = Grades(s.guesses)
    /\ s.keyboardState = KeysOf(s.guesses) /\ s.currentGuess \in Seq(Letters)
    /\ GuessAsked(s.grading, requests)
    /\ over = (s.gameStatus # "playing")
    /\ finishes \in Seq(GuessFinishes)
    /\ over => finishes # <<>> /\ Last(finishes) = [status |-> s.gameStatus, guesses |-> s.guesses]

GuessInv == GuessBoard(state, asked, ended, sent)

(* Every tile is green for the answer, and for no other word.              *)
LEMMA OnlyTheAnswer ==
    ASSUME GuessPuzzle, NEW w \in Guessed
    PROVE  Guess!AllCorrect(Guess!EvaluateGuess(w, Answer)) <=> w = Answer
<1>1. DOMAIN w = 1..WORD_LENGTH /\ DOMAIN Answer = 1..WORD_LENGTH /\ w \in Seq(Letters) /\ Answer \in Seq(Letters)
      /\ Len(w) = WORD_LENGTH /\ Len(Answer) = WORD_LENGTH
  BY DEF Guessed, GuessPuzzle
<1> DEFINE tiles == Guess!EvaluateGuess(w, Answer)
<1>2. DOMAIN tiles = 1..WORD_LENGTH /\ \A i \in 1..WORD_LENGTH : tiles[i] = "correct" <=> w[i] = Answer[i]
  BY <1>1 DEF Guess!EvaluateGuess
<1> HIDE DEF tiles
<1>3. Guess!AllCorrect(tiles) <=> \A i \in 1..WORD_LENGTH : w[i] = Answer[i]
  BY <1>2 DEF Guess!AllCorrect
<1>4. (\A i \in 1..WORD_LENGTH : w[i] = Answer[i]) <=> w = Answer
  BY <1>1
<1> QED
  BY <1>3, <1>4 DEF tiles

LEMMA RowMore ==
    ASSUME GuessPuzzle, NEW guesses, RowsOf(guesses, "playing"), NEW w \in Guessed
    PROVE  LET more == Append(guesses, w)
               status == IF w = Answer THEN "won" ELSE IF Len(guesses) + 1 >= MAX_GUESSES THEN "lost" ELSE "playing"
           IN  /\ RowsOf(more, status)
               /\ Grades(more) = Append(Grades(guesses), EvaluateGuess(w, Answer))
               /\ status # "playing" => [status |-> status, guesses |-> more] \in GuessFinishes
<1> DEFINE more == Append(guesses, w)
           status == IF w = Answer THEN "won" ELSE IF Len(guesses) + 1 >= MAX_GUESSES THEN "lost" ELSE "playing"
<1>1. /\ guesses \in Seq(Guessed) /\ Len(guesses) \in Nat /\ Len(guesses) < MAX_GUESSES
      /\ DOMAIN guesses = 1..Len(guesses) /\ \A i \in 1..Len(guesses) : guesses[i] # Answer
  BY DEF RowsOf
<1>2. /\ more \in Seq(Guessed) /\ Len(more) = Len(guesses) + 1 /\ DOMAIN more = 1..(Len(guesses) + 1)
      /\ more[Len(guesses) + 1] = w /\ \A i \in 1..Len(guesses) : more[i] = guesses[i]
  BY <1>1
<1>3. MAX_GUESSES \in Nat
  BY DEF GuessPuzzle
<1>4. status \in {"playing", "won", "lost"}
  OBVIOUS
<1>5. status = "won" <=> w = Answer
  OBVIOUS
<1>6. status = "lost" => Len(guesses) + 1 = MAX_GUESSES
  BY <1>1, <1>3
<1>7. status = "playing" => Len(guesses) + 1 < MAX_GUESSES
  BY <1>1, <1>3
<1> HIDE DEF more, status
<1>8. RowsOf(more, status)
  <2>1. status = "won" => \A i \in DOMAIN more : more[i] = Answer <=> i = Len(more)
    BY <1>1, <1>2, <1>5
  <2>2. status # "won" => \A i \in DOMAIN more : more[i] # Answer
    BY <1>1, <1>2, <1>5
  <2>3. more # <<>> /\ Len(more) =< MAX_GUESSES
    BY <1>1, <1>2, <1>3
  <2> QED
    BY <1>2, <1>4, <1>6, <1>7, <2>1, <2>2, <2>3 DEF RowsOf
<1>9. Grades(more) = Append(Grades(guesses), EvaluateGuess(w, Answer))
  <2>1. Grades(guesses) \in Seq({EvaluateGuess(v, Answer) : v \in Guessed}) /\ Len(Grades(guesses)) = Len(guesses)
    BY <1>1 DEF Grades
  <2> QED
    BY <1>1, <1>2, <2>1 DEF Grades
<1>10. status # "playing" => [status |-> status, guesses |-> more] \in GuessFinishes
  <2> SUFFICES ASSUME status # "playing" PROVE Guess!Right([status |-> status, guesses |-> more])
    BY <1>2, <1>4 DEF GuessFinishes
  <2>1. status = "lost" => Answer \notin Guess!Range(more)
    BY <1>8 DEF RowsOf, Guess!Range
  <2> QED
    BY <1>4, <1>8, <2>1 DEF RowsOf, Guess!Right
<1> QED
  BY <1>8, <1>9, <1>10 DEF more, status

LEMMA SameGrade == ASSUME NEW w PROVE Guess!EvaluateGuess(w, Answer) = EvaluateGuess(w, Answer)
<1>1. \A S : Guess!Cardinality(S) = Cardinality(S)
  BY DEF Guess!Cardinality, Cardinality
<1> QED
  BY <1>1 DEF Guess!EvaluateGuess, EvaluateGuess

(* One request in flight: when it is answered there is none.               *)
LEMMA GradeAnswered ==
    ASSUME NEW S, NEW requests \in Seq(S), Len(requests) =< 1, NEW i \in DOMAIN requests
    PROVE  i = 1 /\ Len(requests) = 1 /\ requests[i] \in S /\ RemoveAt(requests, i) = <<>>
<1>0. Len(requests) \in Nat /\ DOMAIN requests = 1..Len(requests)
  OBVIOUS
<1>1. Len(requests) = 1 /\ i = 1
  BY <1>0
<1>2. SubSeq(requests, 1, 0) = <<>> /\ SubSeq(requests, 2, 1) = <<>>
  OBVIOUS
<1>3. RemoveAt(requests, 1) = <<>> \o <<>>
  BY <1>1, <1>2 DEF RemoveAt
<1> QED
  BY <1>1, <1>3

LEMMA GuessStep == GuessPuzzle /\ GuessInv /\ [Guess!Next]_boardVars => GuessInv'
<1> SUFFICES ASSUME GuessPuzzle, GuessInv, [Guess!Next]_boardVars PROVE GuessBoard(state', asked', ended', sent')
  BY DEF GuessInv
<1>0. /\ DOMAIN state = GuessFields /\ RowsOf(state.guesses, state.gameStatus)
      /\ state.evaluations = Grades(state.guesses) /\ state.keyboardState = KeysOf(state.guesses)
      /\ state.currentGuess \in Seq(Letters)
      /\ GuessAsked(state.grading, asked) /\ ended = (state.gameStatus # "playing")
      /\ sent \in Seq(GuessFinishes)
  BY DEF GuessInv, GuessBoard
(* The rows stay, and what is typed or asked may change. *)
<1>k. ASSUME NEW next, DOMAIN next = GuessFields, next.guesses = state.guesses, next.evaluations = state.evaluations,
             next.keyboardState = state.keyboardState, next.gameStatus = state.gameStatus, next.currentGuess \in Seq(Letters),
             Guess!Plays(next), GuessAsked(next.grading, asked')
      PROVE  GuessBoard(state', asked', ended', sent')
  <2>1. state' = next /\ UNCHANGED <<ended, sent>>
    BY <1>k DEF Guess!Plays
  <2>2. GuessBoard(next, asked', ended, sent)
    BY <1>k DEF GuessInv, GuessBoard
  <2> QED
    BY <2>1, <2>2
<1>t. ASSUME NEW w \in Seq(Letters), Guess!Plays([state EXCEPT !.currentGuess = w]), UNCHANGED asked
      PROVE  GuessBoard(state', asked', ended', sent')
  <2> DEFINE next == [state EXCEPT !.currentGuess = w]
  <2>1. /\ DOMAIN next = GuessFields /\ next.guesses = state.guesses /\ next.evaluations = state.evaluations
        /\ next.keyboardState = state.keyboardState /\ next.gameStatus = state.gameStatus /\ next.currentGuess = w /\ next.grading = state.grading
    BY <1>0 DEF GuessFields
  <2>2. Guess!Plays(next)
    BY <1>t
  <2> HIDE DEF next
  <2>3. GuessAsked(next.grading, asked')
    BY <1>0, <1>t, <2>1
  <2> QED
    BY <1>k, <2>1, <2>2, <2>3
<1>f. ASSUME NEW grading, Guess!Plays([state EXCEPT !.grading = grading]), GuessAsked(grading, asked')
      PROVE  GuessBoard(state', asked', ended', sent')
  <2> DEFINE next == [state EXCEPT !.grading = grading]
  <2>1. /\ DOMAIN next = GuessFields /\ next.guesses = state.guesses /\ next.evaluations = state.evaluations
        /\ next.keyboardState = state.keyboardState /\ next.gameStatus = state.gameStatus /\ next.currentGuess = state.currentGuess /\ next.grading = grading
    BY <1>0 DEF GuessFields
  <2>2. Guess!Plays(next)
    BY <1>f
  <2> HIDE DEF next
  <2> QED
    BY <1>0, <1>f, <1>k, <2>1, <2>2
<1>a. asked \in Seq(Guessed) /\ Len(asked) =< 1 /\ (~state.grading => asked = <<>>)
  BY <1>0 DEF GuessAsked
<1>1. CASE Guess!AddLetter
  <2>1. PICK l \in Letters : Guess!Plays([state EXCEPT !.currentGuess = Append(@, l)])
    BY <1>1 DEF Guess!AddLetter
  <2>2. Append(state.currentGuess, l) \in Seq(Letters) /\ UNCHANGED asked
    BY <1>0, <1>1 DEF Guess!AddLetter, Guess!NoAnswerPending
  <2> QED
    BY <1>t, <2>1, <2>2
<1>2. CASE Guess!DeleteLetter
  <2> DEFINE w == SubSeq(state.currentGuess, 1, Len(state.currentGuess) - 1)
  <2>1. state.currentGuess # <<>> /\ Guess!Plays([state EXCEPT !.currentGuess = w]) /\ UNCHANGED asked
    BY <1>2 DEF Guess!DeleteLetter, Guess!Front, Guess!NoAnswerPending
  <2>2. w \in Seq(Letters)
    BY <1>0, <2>1
  <2> HIDE DEF w
  <2> QED
    BY <1>t, <2>1, <2>2
<1>3. CASE Guess!TrySubmitGuess
  <2>1. /\ ~state.grading /\ state.currentGuess \in Guessed
        /\ Guess!Plays([state EXCEPT !.grading = TRUE]) /\ asked' = Append(asked, state.currentGuess)
    BY <1>0, <1>3 DEF Guess!TrySubmitGuess, Guessed
  <2>2. GuessAsked(TRUE, asked')
    BY <1>a, <2>1 DEF GuessAsked
  <2> QED
    BY <1>f, <2>1, <2>2
<1>4. CASE Guess!GradeFailed
  <2>1. PICK i \in DOMAIN asked : Guess!Plays([state EXCEPT !.grading = FALSE]) /\ asked' = RemoveAt(asked, i)
    BY <1>4 DEF Guess!GradeFailed, Guess!RemoveAt, RemoveAt
  <2>2. asked' = <<>>
    BY <1>a, <2>1, GradeAnswered
  <2>3. GuessAsked(FALSE, asked')
    BY <2>2 DEF GuessAsked
  <2> QED
    BY <1>f, <2>1, <2>3
<1>5. CASE Guess!ApplyGuess
  <2>1. PICK i \in DOMAIN asked :
          LET guess == asked[i]
              tiles == Guess!EvaluateGuess(guess, Answer)
              won   == Guess!AllCorrect(tiles)
              lost  == ~won /\ Len(state.guesses) + 1 >= MAX_GUESSES
              next  == [state EXCEPT
                          !.grading = FALSE,
                          !.guesses = Append(@, guess),
                          !.evaluations = Append(@, tiles),
                          !.keyboardState = Guess!UpdateKeyboardState(@, guess, tiles),
                          !.currentGuess = <<>>,
                          !.gameStatus = IF won THEN "won" ELSE IF lost THEN "lost" ELSE "playing"]
          IN /\ state.gameStatus = "playing"
             /\ Shows(next, won \/ lost, [status |-> next.gameStatus, guesses |-> next.guesses])
             /\ asked' = RemoveAt(asked, i)
    BY <1>5 DEF Guess!ApplyGuess, Guess!RemoveAt, RemoveAt, Guess!Finish, Guess!Shows, Shows
  <2> DEFINE guess == asked[i]
             tiles == Guess!EvaluateGuess(guess, Answer)
             more == Append(state.guesses, guess)
             status == IF guess = Answer THEN "won" ELSE IF Len(state.guesses) + 1 >= MAX_GUESSES THEN "lost" ELSE "playing"
             won   == Guess!AllCorrect(tiles)
             lost  == ~won /\ Len(state.guesses) + 1 >= MAX_GUESSES
             kb == Guess!UpdateKeyboardState(state.keyboardState, guess, tiles)
             next  == [state EXCEPT
                          !.grading = FALSE,
                          !.guesses = Append(@, guess),
                          !.evaluations = Append(@, tiles),
                          !.keyboardState = Guess!UpdateKeyboardState(@, guess, tiles),
                          !.currentGuess = <<>>,
                          !.gameStatus = IF won THEN "won" ELSE IF lost THEN "lost" ELSE "playing"]
             data == [status |-> next.gameStatus, guesses |-> next.guesses]
  <2>2. guess \in Guessed /\ asked' = <<>>
    BY <1>a, <2>1, GradeAnswered
  <2>3. state.gameStatus = "playing" /\ Shows(next, won \/ lost, data) /\ ended = FALSE
    BY <1>0, <2>1
  <2>4. won <=> guess = Answer
    BY <2>2, OnlyTheAnswer
  <2>5. tiles = EvaluateGuess(guess, Answer)
    BY SameGrade
  <2>6. /\ RowsOf(more, status)
        /\ Grades(more) = Append(Grades(state.guesses), EvaluateGuess(guess, Answer))
        /\ status # "playing" => [status |-> status, guesses |-> more] \in GuessFinishes
    BY <1>0, <2>2, <2>3, RowMore
  <2>7. DOMAIN next = GuessFields /\ next.grading = FALSE /\ next.guesses = more
        /\ next.evaluations = Append(state.evaluations, tiles) /\ next.currentGuess = <<>>
        /\ next.keyboardState = Guess!UpdateKeyboardState(state.keyboardState, guess, tiles)
        /\ next.gameStatus = IF won THEN "won" ELSE IF lost THEN "lost" ELSE "playing"
    BY <1>0 DEF GuessFields
  <2> HIDE DEF next
  <2>8. next.gameStatus = status
    BY <2>4, <2>7
  <2>9. (won \/ lost) <=> status # "playing"
    BY <2>4
  <2>10. data = [status |-> status, guesses |-> more]
    BY <2>7, <2>8
  <2> DEFINE over == status # "playing"
  <2>11. Shows(next, over, data) /\ over \in BOOLEAN /\ (over => data \in GuessFinishes)
    BY <2>3, <2>6, <2>9, <2>10 DEF Shows
  <2>k. next.keyboardState = KeysOf(more)
    <3>1. state.guesses \in Seq(Guessed)
      BY <1>0 DEF RowsOf
    <3> QED
      BY <1>0, <2>2, <2>5, <2>7, <3>1, RowColours
  <2> HIDE DEF data, guess, tiles, more, status, over
  <2>12. /\ state' = next /\ ended' = over /\ sent' \in Seq(GuessFinishes)
         /\ over => sent' # <<>> /\ Last(sent') = data
    BY <1>0, <2>3, <2>11, Render, ZenonT(40)
  <2>13. next.evaluations = Grades(more)
    BY <1>0, <2>5, <2>6, <2>7
  <2>14. GuessAsked(FALSE, <<>>) /\ <<>> \in Seq(Letters)
    BY DEF GuessAsked
  <2>15. GuessBoard(next, <<>>, over, sent')
    BY <2>6, <2>7, <2>8, <2>10, <2>12, <2>13, <2>14, <2>k DEF GuessBoard, over
  <2> QED
    BY <2>2, <2>12, <2>15
<1>6. CASE UNCHANGED boardVars
  BY <1>6 DEF boardVars, GuessInv
<1> QED
  BY <1>1, <1>2, <1>3, <1>4, <1>5, <1>6 DEF Guess!Next

(* word-guess-game.tsx: with any list and answer, and whatever is typed    *)
(* while a row is being graded, each row is a word of the list and has its *)
(* own grades, and each key the best colour its letter ever got; the game  *)
(* is won with the answer as its last row and no earlier, or lost with     *)
(* every row used; that is what is handed over.                            *)
THEOREM WordGuessCorrect ==
    ASSUME GuessPuzzle
    PROVE  Guess!Init /\ [][Guess!Next]_boardVars =>
               [](/\ Guess!Legal /\ Guess!Explained /\ Guess!Finished
                  /\ \A i \in DOMAIN sent : Guess!Right(sent[i]))
<1>1. Guess!Init => GuessInv
  <2> SUFFICES ASSUME Guess!Init PROVE GuessBoard(state, asked, ended, sent)
    BY DEF GuessInv
  <2> DEFINE first == [grading |-> FALSE, guesses |-> <<>>, evaluations |-> <<>>, currentGuess |-> <<>>,
                       keyboardState |-> [l \in Letters |-> "none"], gameStatus |-> "playing"]
  <2>1. state = first /\ asked = <<>> /\ ended = FALSE /\ sent = <<>>
    BY DEF Guess!Init, Guess!Starts, Guess!CreateInitialState
  <2>2. DOMAIN first = GuessFields /\ first.guesses = <<>> /\ first.evaluations = <<>> /\ first.currentGuess = <<>>
        /\ first.grading = FALSE /\ first.gameStatus = "playing"
    BY DEF GuessFields
  <2> HIDE DEF first
  <2>k. first.keyboardState = KeysOf(<<>>)
    BY NoKeys DEF first
  <2>3. RowsOf(<<>>, "playing") /\ Grades(<<>>) = <<>> /\ GuessAsked(FALSE, <<>>)
    BY DEF RowsOf, Grades, GuessAsked, GuessPuzzle
  <2>4. <<>> \in Seq(Letters) /\ <<>> \in Seq(GuessFinishes)
    OBVIOUS
  <2> QED
    BY <2>1, <2>2, <2>3, <2>4, <2>k DEF GuessBoard
<1>2. GuessInv /\ [Guess!Next]_boardVars => GuessInv'
  BY GuessStep
<1>3. GuessInv => /\ Guess!Legal /\ Guess!Explained /\ Guess!Finished
                  /\ \A i \in DOMAIN sent : Guess!Right(sent[i])
  <2> SUFFICES ASSUME GuessInv
               PROVE  /\ Guess!Legal /\ Guess!Explained /\ Guess!Finished
                      /\ \A i \in DOMAIN sent : Guess!Right(sent[i])
    OBVIOUS
  <2>1. RowsOf(state.guesses, state.gameStatus) /\ GuessAsked(state.grading, asked)
    BY DEF GuessInv, GuessBoard
  <2>2. Guess!Legal
    <3>1. Len(state.guesses) =< MAX_GUESSES
      BY <2>1 DEF RowsOf, GuessPuzzle
    <3>2. \A i \in DOMAIN state.guesses : state.guesses[i] \in Dictionary
      BY <2>1 DEF RowsOf, Guessed
    <3> QED
      BY <2>1, <3>1, <3>2 DEF Guess!Legal, GuessAsked
  <2>3. Guess!Finished
    <3>1. Answer \in Guess!Range(state.guesses) => state.gameStatus = "won"
      BY <2>1 DEF RowsOf, Guess!Range
    <3>2. state.gameStatus # "playing" => ended /\ Guess!Last(sent) = Guess!Finish(state)
      BY DEF GuessInv, GuessBoard, Guess!Finish, Guess!Last, Last
    <3> QED
      BY <3>1, <3>2 DEF Guess!Finished
  <2>4. Guess!Explained
    <3>1. state.evaluations = Grades(state.guesses) /\ state.keyboardState = KeysOf(state.guesses)
      BY DEF GuessInv, GuessBoard
    <3>2. Grades(state.guesses) = [i \in DOMAIN state.guesses |-> Guess!EvaluateGuess(state.guesses[i], Answer)]
      BY SameGrade DEF Grades
    <3>3. \A S : Guess!Best(S) = Best(S)
      BY DEF Guess!Best, Guess!Rank, Best, Rank
    <3>4. \A l : Guess!ColoursOf(l, state.guesses, state.evaluations) = KeyColours(l, state.guesses)
      BY <3>1 DEF Guess!ColoursOf, ColoursOf, KeyColours
    <3>5. KeysOf(state.guesses) = [l \in Letters |->
            Guess!Best({"none"} \cup Guess!ColoursOf(l, state.guesses, state.evaluations))]
      BY <3>3, <3>4 DEF KeysOf
    <3> QED
      BY <3>1, <3>2, <3>5 DEF Guess!Explained
  <2>5. \A i \in DOMAIN sent : Guess!Right(sent[i])
    BY DEF GuessInv, GuessBoard, GuessFinishes
  <2> QED
    BY <2>2, <2>3, <2>4, <2>5
<1> QED
  BY <1>1, <1>2, <1>3, PTL

------------------------------------------------------------------------------
(* Word Groups.                                                            *)
CONSTANTS Categories, WORDS_PER_CATEGORY, MAX_MISTAKES
Groups == INSTANCE WordGroups

GroupsPuzzle ==
    /\ IsFiniteSet(Categories) /\ Categories # {}
    /\ MAX_MISTAKES \in Nat \ {0}

GroupsFields == {"grading", "selectedWords", "solvedCategories", "remainingWords", "mistakes", "gameStatus",
                 "guessHistory", "lastGuessWasOneAway"}

Selections == SUBSET Groups!Words

GroupsFinishes ==
    {f \in [status : {"won", "lost"}, foundCategories : Seq(Selections), mistakes : Nat, attempts : Nat] :
        Groups!Right(f)}

Wrong(history) == {i \in DOMAIN history : history[i] \notin Categories}

(* The groups found are in the order they were guessed in.                 *)
InOrder(solved, history) ==
    \A i, j \in DOMAIN solved : \A a, b \in DOMAIN history :
        i < j /\ solved[i] = history[a] /\ solved[j] = history[b] => a < b

(* What was guessed, found and missed.                                     *)
Guesses(history, solved, mistakes) ==
    /\ history \in Seq(Selections) /\ IsInjective(history)
    /\ solved \in Seq(Selections) /\ IsInjective(solved)
    /\ Range(solved) = Range(history) \cap Categories /\ InOrder(solved, history)
    /\ mistakes \in Nat /\ mistakes = Cardinality(Wrong(history))
    /\ Len(history) = Len(solved) + mistakes

GroupsStatus(status, solved, mistakes) ==
    CASE status = "playing" -> Len(solved) # Cardinality(Categories) /\ mistakes < MAX_MISTAKES
      [] status = "won"     -> Len(solved) = Cardinality(Categories) /\ mistakes < MAX_MISTAKES
      [] status = "lost"    -> Len(solved) # Cardinality(Categories) /\ mistakes = MAX_MISTAKES
      [] OTHER              -> FALSE

(* One request at a time, about a group that was not judged yet.           *)
GroupsAsked(grading, requests, history, solved) ==
    /\ grading \in BOOLEAN
    /\ requests \in Seq([words : Selections, solved : SUBSET Selections])
    /\ Len(requests) = IF grading THEN 1 ELSE 0
    /\ \A i \in DOMAIN requests : requests[i].words \notin Range(history) /\ requests[i].solved = Range(solved)

GroupsHanded(s) ==
    [status |-> s.gameStatus, foundCategories |-> s.solvedCategories,
     mistakes |-> s.mistakes, attempts |-> Len(s.guessHistory)]

GroupsBoard(s, requests, over, finishes) ==
    /\ DOMAIN s = GroupsFields
    /\ Guesses(s.guessHistory, s.solvedCategories, s.mistakes)
    /\ GroupsStatus(s.gameStatus, s.solvedCategories, s.mistakes)
    /\ GroupsAsked(s.grading, requests, s.guessHistory, s.solvedCategories)
    /\ s.remainingWords = Groups!Words \ UNION Range(s.solvedCategories)
    /\ s.selectedWords \subseteq s.remainingWords
    /\ over = (s.gameStatus # "playing")
    /\ finishes \in Seq(GroupsFinishes)
    /\ over => finishes # <<>> /\ Last(finishes) = GroupsHanded(s)

GroupsInv == GroupsBoard(state, asked, ended, sent)

LEMMA WrongMore ==
    ASSUME NEW h \in Seq(Selections), NEW g \in Selections
    PROVE  /\ Cardinality(Wrong(h)) \in Nat
           /\ Cardinality(Wrong(Append(h, g))) = Cardinality(Wrong(h)) + IF g \in Categories THEN 0 ELSE 1
<1> DEFINE q == Append(h, g)
           n == Len(h) + 1
<1>1. DOMAIN q = 1..n /\ q[n] = g /\ n \in Nat /\ n \notin DOMAIN h
      /\ Len(h) \in Nat /\ DOMAIN h = 1..Len(h) /\ 1..n = 1..Len(h) \cup {n} /\ \A i \in 1..Len(h) : q[i] = h[i]
  OBVIOUS
<1> HIDE DEF q, n
<1>2. IsFiniteSet(1..Len(h))
  BY <1>1, FS_Interval
<1>3. IsFiniteSet(Wrong(h)) /\ n \notin Wrong(h)
  BY <1>1, <1>2, FS_Subset DEF Wrong
<1>4. Cardinality(Wrong(h)) \in Nat
  BY <1>3, FS_CardinalityType
<1>5. CASE g \in Categories
  <2>1. Wrong(q) = Wrong(h)
    BY <1>1, <1>5 DEF Wrong
  <2> QED
    BY <1>4, <1>5, <2>1 DEF q
<1>6. CASE g \notin Categories
  <2>1. Wrong(q) = Wrong(h) \cup {n}
    BY <1>1, <1>6 DEF Wrong
  <2>2. Cardinality(Wrong(q)) = Cardinality(Wrong(h)) + 1
    BY <1>3, <2>1, FS_AddElement
  <2> QED
    BY <1>4, <1>6, <2>2 DEF q
<1> QED
  BY <1>5, <1>6

LEMMA OrderKept ==
    ASSUME NEW S, NEW history \in Seq(S), NEW solved \in Seq(S), Range(solved) \subseteq Range(history),
           InOrder(solved, history), NEW g \in S, g \notin Range(history)
    PROVE  InOrder(solved, Append(history, g)) /\ InOrder(Append(solved, g), Append(history, g))
<1> DEFINE more == Append(history, g)
           found == Append(solved, g)
           m == Len(history)
           n == Len(solved)
<1>1. /\ m \in Nat /\ DOMAIN history = 1..m /\ DOMAIN more = 1..(m + 1) /\ more[m + 1] = g
      /\ \A a \in 1..m : more[a] = history[a]
      /\ n \in Nat /\ DOMAIN solved = 1..n /\ DOMAIN found = 1..(n + 1) /\ found[n + 1] = g
      /\ \A i \in 1..n : found[i] = solved[i]
  OBVIOUS
<1> HIDE DEF more, found, m, n
<1>2. \A i \in 1..n : solved[i] # g
  BY <1>1 DEF Range
<1>3. \A a \in 1..m : history[a] # g
  BY <1>1 DEF Range
<1>4. ASSUME NEW i \in 1..n, NEW a \in 1..(m + 1), solved[i] = more[a] PROVE a \in 1..m /\ more[a] = history[a]
  BY <1>1, <1>2, <1>4
<1>5. ASSUME NEW i \in 1..n, NEW j \in 1..n, NEW a \in 1..(m + 1), NEW b \in 1..(m + 1),
             i < j, solved[i] = more[a], solved[j] = more[b]
      PROVE  a < b
  <2>1. a \in 1..m /\ b \in 1..m /\ solved[i] = history[a] /\ solved[j] = history[b]
    BY <1>4, <1>5
  <2> QED
    BY <1>1, <1>5, <2>1 DEF InOrder
<1>6. ASSUME NEW i \in 1..(n + 1), NEW j \in 1..(n + 1), NEW a \in 1..(m + 1), NEW b \in 1..(m + 1),
             i < j, found[i] = more[a], found[j] = more[b]
      PROVE  a < b
  <2>1. i \in 1..n /\ found[i] = solved[i] /\ a \in 1..m
    BY <1>1, <1>4, <1>6
  <2>2. CASE j = n + 1
    <3>1. b = m + 1
      BY <1>1, <1>3, <1>6, <2>2
    <3> QED
      BY <1>1, <2>1, <3>1
  <2>3. CASE j \in 1..n
    <3>1. found[j] = solved[j]
      BY <1>1, <2>3
    <3> QED
      BY <1>5, <1>6, <2>1, <2>3, <3>1
  <2> QED
    BY <1>1, <2>2, <2>3
<1>7. InOrder(solved, more)
  BY <1>1, <1>5 DEF InOrder
<1>8. InOrder(found, more)
  BY <1>1, <1>6 DEF InOrder
<1> QED
  BY <1>7, <1>8 DEF more, found

(* A group that is judged for the first time.                              *)
LEMMA GroupJudged ==
    ASSUME GroupsPuzzle, NEW history, NEW solved, NEW mistakes, Guesses(history, solved, mistakes),
           GroupsStatus("playing", solved, mistakes), NEW g \in Selections, g \notin Range(history)
    PROVE  LET found == IF g \in Categories THEN Append(solved, g) ELSE solved
               missed == IF g \in Categories THEN mistakes ELSE mistakes + 1
               status == IF g \in Categories
                         THEN IF Len(found) = Cardinality(Categories) THEN "won" ELSE "playing"
                         ELSE IF missed >= MAX_MISTAKES THEN "lost" ELSE "playing"
           IN  /\ Guesses(Append(history, g), found, missed)
               /\ GroupsStatus(status, found, missed)
               /\ status # "playing" =>
                    [status |-> status, foundCategories |-> found, mistakes |-> missed,
                     attempts |-> Len(Append(history, g))] \in GroupsFinishes
<1> DEFINE found == IF g \in Categories THEN Append(solved, g) ELSE solved
           missed == IF g \in Categories THEN mistakes ELSE mistakes + 1
           status == IF g \in Categories
                     THEN IF Len(found) = Cardinality(Categories) THEN "won" ELSE "playing"
                     ELSE IF missed >= MAX_MISTAKES THEN "lost" ELSE "playing"
           more == Append(history, g)
<1>1. /\ history \in Seq(Selections) /\ IsInjective(history) /\ solved \in Seq(Selections) /\ IsInjective(solved)
      /\ Range(solved) = Range(history) \cap Categories /\ mistakes \in Nat
      /\ mistakes = Cardinality(Wrong(history)) /\ Len(history) = Len(solved) + mistakes
      /\ Len(solved) \in Nat /\ InOrder(solved, history)
  BY DEF Guesses
<1>2. /\ more \in Seq(Selections) /\ Len(more) = Len(history) + 1 /\ IsInjective(more)
      /\ Range(more) = Range(history) \cup {g}
  BY <1>1, AppendedRange
<1>3. found \in Seq(Selections) /\ IsInjective(found) /\ Range(found) = Range(more) \cap Categories
      /\ Len(found) = Len(solved) + IF g \in Categories THEN 1 ELSE 0
  <2>1. CASE g \in Categories
    <3>1. g \notin Range(solved)
      BY <1>1
    <3>2. /\ Append(solved, g) \in Seq(Selections) /\ Len(Append(solved, g)) = Len(solved) + 1
          /\ IsInjective(Append(solved, g)) /\ Range(Append(solved, g)) = Range(solved) \cup {g}
      BY <1>1, <3>1, AppendedRange
    <3> QED
      BY <1>1, <1>2, <2>1, <3>2
  <2>2. CASE g \notin Categories
    BY <1>1, <1>2, <2>2
  <2> QED
    BY <2>1, <2>2
<1>4. missed \in Nat /\ missed = Cardinality(Wrong(more))
  BY <1>1, WrongMore
<1>5. Len(more) = Len(found) + missed
  BY <1>1, <1>2, <1>3
<1>o. InOrder(found, more)
  <2>1. Range(solved) \subseteq Range(history)
    BY <1>1
  <2> QED
    BY <1>1, <2>1, OrderKept
<1>6. Guesses(more, found, missed)
  BY <1>2, <1>3, <1>4, <1>5, <1>o DEF Guesses
<1>7. Len(solved) # Cardinality(Categories) /\ mistakes < MAX_MISTAKES /\ MAX_MISTAKES \in Nat
  BY DEF GroupsStatus, GroupsPuzzle
<1>8. GroupsStatus(status, found, missed)
  <2>1. CASE g \in Categories
    BY <1>7, <2>1 DEF GroupsStatus
  <2>2. CASE g \notin Categories
    BY <1>1, <1>7, <2>2 DEF GroupsStatus
  <2> QED
    BY <2>1, <2>2
<1>9. status \in {"won", "lost", "playing"}
  OBVIOUS
<1> HIDE DEF found, missed, status, more
<1>10. ASSUME status # "playing"
       PROVE  [status |-> status, foundCategories |-> found, mistakes |-> missed, attempts |-> Len(more)] \in GroupsFinishes
  <2> DEFINE f == [status |-> status, foundCategories |-> found, mistakes |-> missed, attempts |-> Len(more)]
  <2>1. f \in [status : {"won", "lost"}, foundCategories : Seq(Selections), mistakes : Nat, attempts : Nat]
    BY <1>2, <1>3, <1>4, <1>9, <1>10
  <2>2. Range(found) \subseteq Categories /\ Groups!Range(found) = Range(found)
    BY <1>3 DEF Range, Groups!Range
  <2>3. status = "won" => Len(found) = Cardinality(Categories) /\ missed < MAX_MISTAKES
    BY <1>8 DEF GroupsStatus
  <2>4. status # "won" => missed = MAX_MISTAKES
    BY <1>8, <1>9, <1>10 DEF GroupsStatus
  <2>5. status = "won" => Range(found) = Categories
    BY <1>3, <2>2, <2>3, AllFound DEF GroupsPuzzle
  <2>6. Groups!Right(f)
    BY <1>5, <2>2, <2>3, <2>4, <2>5 DEF Groups!Right
  <2> QED
    BY <2>1, <2>6 DEF GroupsFinishes
<1> QED
  BY <1>6, <1>8, <1>10 DEF found, missed, status, more

LEMMA AppendFirst == ASSUME NEW r PROVE Append(<<>>, r) = <<r>>
OBVIOUS

LEMMA GroupsStep == GroupsPuzzle /\ GroupsInv /\ [Groups!Next]_boardVars => GroupsInv'
<1> SUFFICES ASSUME GroupsPuzzle, GroupsInv, [Groups!Next]_boardVars PROVE GroupsBoard(state', asked', ended', sent')
  BY DEF GroupsInv
<1>0. /\ DOMAIN state = GroupsFields
      /\ Guesses(state.guessHistory, state.solvedCategories, state.mistakes)
      /\ GroupsStatus(state.gameStatus, state.solvedCategories, state.mistakes)
      /\ GroupsAsked(state.grading, asked, state.guessHistory, state.solvedCategories)
      /\ state.remainingWords = Groups!Words \ UNION Range(state.solvedCategories)
      /\ state.selectedWords \subseteq state.remainingWords
      /\ ended = (state.gameStatus # "playing") /\ sent \in Seq(GroupsFinishes)
  BY DEF GroupsInv, GroupsBoard
(* The guesses stay, and what is selected or asked may change. *)
<1>k. ASSUME NEW next, DOMAIN next = GroupsFields, next.guessHistory = state.guessHistory,
             next.solvedCategories = state.solvedCategories, next.mistakes = state.mistakes,
             next.gameStatus = state.gameStatus, next.remainingWords = state.remainingWords,
             next.selectedWords \subseteq state.remainingWords, Groups!Plays(next),
             GroupsAsked(next.grading, asked', state.guessHistory, state.solvedCategories)
      PROVE  GroupsBoard(state', asked', ended', sent')
  <2>1. state' = next /\ UNCHANGED <<ended, sent>>
    BY <1>k DEF Groups!Plays
  <2>2. GroupsHanded(next) = GroupsHanded(state)
    BY <1>k DEF GroupsHanded
  <2>3. GroupsBoard(next, asked', ended, sent)
    BY <1>k, <2>2 DEF GroupsInv, GroupsBoard
  <2> QED
    BY <2>1, <2>3
<1>s. ASSUME NEW chosen, chosen \subseteq state.remainingWords, NEW oneAway,
             Groups!Plays([state EXCEPT !.selectedWords = chosen, !.lastGuessWasOneAway = oneAway]), UNCHANGED asked
      PROVE  GroupsBoard(state', asked', ended', sent')
  <2> DEFINE next == [state EXCEPT !.selectedWords = chosen, !.lastGuessWasOneAway = oneAway]
  <2>1. /\ DOMAIN next = GroupsFields /\ next.guessHistory = state.guessHistory
        /\ next.solvedCategories = state.solvedCategories /\ next.mistakes = state.mistakes
        /\ next.gameStatus = state.gameStatus /\ next.remainingWords = state.remainingWords
        /\ next.selectedWords = chosen /\ next.grading = state.grading
    BY <1>0 DEF GroupsFields
  <2>2. Groups!Plays(next)
    BY <1>s
  <2> HIDE DEF next
  <2>3. GroupsAsked(next.grading, asked', state.guessHistory, state.solvedCategories)
    BY <1>0, <1>s, <2>1
  <2> QED
    BY <1>k, <1>s, <2>1, <2>2, <2>3
<1>c. ASSUME NEW chosen, chosen \subseteq state.remainingWords,
             Groups!Plays([state EXCEPT !.selectedWords = chosen]), UNCHANGED asked
      PROVE  GroupsBoard(state', asked', ended', sent')
  <2> DEFINE next == [state EXCEPT !.selectedWords = chosen]
  <2>1. /\ DOMAIN next = GroupsFields /\ next.guessHistory = state.guessHistory
        /\ next.solvedCategories = state.solvedCategories /\ next.mistakes = state.mistakes
        /\ next.gameStatus = state.gameStatus /\ next.remainingWords = state.remainingWords
        /\ next.selectedWords = chosen /\ next.grading = state.grading
    BY <1>0 DEF GroupsFields
  <2>2. Groups!Plays(next)
    BY <1>c
  <2> HIDE DEF next
  <2>3. GroupsAsked(next.grading, asked', state.guessHistory, state.solvedCategories)
    BY <1>0, <1>c, <2>1
  <2> QED
    BY <1>k, <1>c, <2>1, <2>2, <2>3
<1>f. ASSUME NEW grading, Groups!Plays([state EXCEPT !.grading = grading]),
             GroupsAsked(grading, asked', state.guessHistory, state.solvedCategories)
      PROVE  GroupsBoard(state', asked', ended', sent')
  <2> DEFINE next == [state EXCEPT !.grading = grading]
  <2>1. /\ DOMAIN next = GroupsFields /\ next.guessHistory = state.guessHistory
        /\ next.solvedCategories = state.solvedCategories /\ next.mistakes = state.mistakes
        /\ next.gameStatus = state.gameStatus /\ next.remainingWords = state.remainingWords
        /\ next.selectedWords = state.selectedWords /\ next.grading = grading
    BY <1>0 DEF GroupsFields
  <2>2. Groups!Plays(next)
    BY <1>f
  <2> HIDE DEF next
  <2> QED
    BY <1>0, <1>f, <1>k, <2>1, <2>2
<1> DEFINE Request == [words : Selections, solved : SUBSET Selections]
<1>a. /\ asked \in Seq(Request) /\ Len(asked) =< 1 /\ (~state.grading => asked = <<>>)
      /\ \A i \in DOMAIN asked : asked[i].words \notin Range(state.guessHistory)
                                 /\ asked[i].solved = Range(state.solvedCategories)
  BY <1>0 DEF GroupsAsked
<1>1. CASE Groups!SelectWord
  <2>1. PICK w \in state.remainingWords \ state.selectedWords :
          Groups!Plays([state EXCEPT !.selectedWords = state.selectedWords \cup {w}, !.lastGuessWasOneAway = FALSE])
    BY <1>1 DEF Groups!SelectWord
  <2>2. UNCHANGED asked /\ state.selectedWords \cup {w} \subseteq state.remainingWords
    BY <1>0, <1>1 DEF Groups!SelectWord, Groups!NoAnswerPending
  <2> QED
    BY <1>s, <2>1, <2>2
<1>2. CASE Groups!DeselectWord
  <2>1. PICK w \in state.selectedWords : Groups!Plays([state EXCEPT !.selectedWords = state.selectedWords \ {w}])
    BY <1>2 DEF Groups!DeselectWord
  <2>2. UNCHANGED asked /\ state.selectedWords \ {w} \subseteq state.remainingWords
    BY <1>0, <1>2 DEF Groups!DeselectWord, Groups!NoAnswerPending
  <2> QED
    BY <1>c, <2>1, <2>2
<1>3. CASE Groups!ClearSelection
  <2>1. Groups!Plays([state EXCEPT !.selectedWords = {}]) /\ UNCHANGED asked /\ {} \subseteq state.remainingWords
    BY <1>3 DEF Groups!ClearSelection, Groups!NoAnswerPending
  <2> QED
    BY <1>c, <2>1
<1>4. CASE Groups!SubmitGuess
  <2>0. ~state.grading
    BY <1>4 DEF Groups!SubmitGuess, Groups!Choosing
  <2>1. CASE state.selectedWords \in Groups!Range(state.guessHistory)
    <3>1. Groups!Plays([state EXCEPT !.selectedWords = {}, !.lastGuessWasOneAway = FALSE]) /\ UNCHANGED asked
      BY <1>4, <2>1 DEF Groups!SubmitGuess, Groups!NoAnswerPending
    <3>2. {} \subseteq state.remainingWords
      OBVIOUS
    <3> QED
      BY <1>s, <3>1, <3>2
  <2>2. CASE state.selectedWords \notin Groups!Range(state.guessHistory)
    <3> DEFINE request == [words |-> state.selectedWords, solved |-> Range(state.solvedCategories)]
    <3>1. Groups!Plays([state EXCEPT !.grading = TRUE]) /\ asked' = Append(asked, request)
      BY <1>4, <2>2 DEF Groups!SubmitGuess, Groups!Range, Range
    <3>2. state.selectedWords \in Selections /\ state.selectedWords \notin Range(state.guessHistory)
      BY <1>0, <2>2 DEF Selections, Groups!Range, Range
    <3>3. Range(state.solvedCategories) \subseteq Selections
      BY <1>0 DEF Guesses, Range
    <3>4. request \in Request /\ request.words = state.selectedWords /\ request.solved = Range(state.solvedCategories)
      BY <3>2, <3>3
    <3> HIDE DEF request, Request
    <3>5. asked' = <<request>>
      <4>1. asked = <<>>
        BY <1>a, <2>0
      <4> QED
        BY <3>1, <4>1, AppendFirst
    <3>6. GroupsAsked(TRUE, asked', state.guessHistory, state.solvedCategories)
      BY <3>2, <3>4, <3>5 DEF GroupsAsked, Request
    <3> QED
      BY <1>f, <3>1, <3>6
  <2> QED
    BY <2>1, <2>2
<1>5. CASE Groups!GradeFailed
  <2>1. PICK i \in DOMAIN asked : Groups!Plays([state EXCEPT !.grading = FALSE]) /\ asked' = RemoveAt(asked, i)
    BY <1>5 DEF Groups!GradeFailed, Groups!RemoveAt, RemoveAt
  <2>2. asked' = <<>>
    BY <1>a, <2>1, GradeAnswered
  <2>3. GroupsAsked(FALSE, asked', state.guessHistory, state.solvedCategories)
    BY <2>2 DEF GroupsAsked
  <2> QED
    BY <1>f, <2>1, <2>3
<1>6. CASE Groups!ApplyGuess
  <2>1. PICK i \in DOMAIN asked :
          LET guess    == asked[i].words
              grade    == Groups!Grade(asked[i])
              solved   == IF grade.correct THEN Append(state.solvedCategories, guess) ELSE state.solvedCategories
              mistakes == IF grade.correct THEN state.mistakes ELSE state.mistakes + 1
              status   == IF grade.correct
                          THEN IF Len(solved) = Groups!Cardinality(Categories) THEN "won" ELSE "playing"
                          ELSE IF mistakes >= MAX_MISTAKES THEN "lost" ELSE "playing"
              next     == [state EXCEPT
                             !.grading = FALSE, !.solvedCategories = solved, !.mistakes = mistakes,
                             !.remainingWords = IF grade.correct THEN @ \ guess ELSE @,
                             !.selectedWords = {}, !.guessHistory = Append(@, guess),
                             !.gameStatus = status, !.lastGuessWasOneAway = grade.oneAway]
          IN /\ state.gameStatus = "playing"
             /\ Shows(next, status # "playing", GroupsHanded(next))
             /\ asked' = RemoveAt(asked, i)
    BY <1>6 DEF Groups!ApplyGuess, Groups!RemoveAt, RemoveAt, Groups!Finish, GroupsHanded, Groups!Shows, Shows
  <2> DEFINE guess == asked[i].words
             correct == Groups!Grade(asked[i]).correct
             oneAway == Groups!Grade(asked[i]).oneAway
             solved == IF correct THEN Append(state.solvedCategories, guess) ELSE state.solvedCategories
             mistakes == IF correct THEN state.mistakes ELSE state.mistakes + 1
             status == IF correct
                       THEN IF Len(solved) = Groups!Cardinality(Categories) THEN "won" ELSE "playing"
                       ELSE IF mistakes >= MAX_MISTAKES THEN "lost" ELSE "playing"
             found == IF guess \in Categories THEN Append(state.solvedCategories, guess) ELSE state.solvedCategories
             missed == IF guess \in Categories THEN state.mistakes ELSE state.mistakes + 1
             outcome == IF guess \in Categories
                        THEN IF Len(found) = Cardinality(Categories) THEN "won" ELSE "playing"
                        ELSE IF missed >= MAX_MISTAKES THEN "lost" ELSE "playing"
             more == Append(state.guessHistory, guess)
             next == [state EXCEPT
                        !.grading = FALSE, !.solvedCategories = solved, !.mistakes = mistakes,
                        !.remainingWords = IF correct THEN @ \ guess ELSE @,
                        !.selectedWords = {}, !.guessHistory = Append(@, guess),
                        !.gameStatus = status, !.lastGuessWasOneAway = oneAway]
             data == GroupsHanded(next)
  <2>2. guess \in Selections /\ guess \notin Range(state.guessHistory) /\ asked' = <<>>
    <3>1. i \in DOMAIN asked /\ asked' = RemoveAt(asked, i)
      BY <2>1
    <3>2. asked[i] \in Request /\ RemoveAt(asked, i) = <<>>
      BY <1>a, <3>1, GradeAnswered
    <3> QED
      BY <1>a, <3>1, <3>2
  <2>3. state.gameStatus = "playing" /\ Shows(next, status # "playing", data)
    BY <2>1
  <2>4. correct <=> guess \in Categories
    <3>1. Groups!Grade(asked[i]).correct = (guess \in Categories \ asked[i].solved)
      BY DEF Groups!Grade
    <3>2. guess \notin Range(state.solvedCategories)
      BY <1>0, <2>2 DEF Guesses
    <3> QED
      BY <1>a, <3>1, <3>2
  <2>5. Groups!Cardinality(Categories) = Cardinality(Categories)
    BY DEF Groups!Cardinality, Cardinality
  <2>6. /\ Guesses(more, found, missed) /\ GroupsStatus(outcome, found, missed)
        /\ outcome # "playing" => [status |-> outcome, foundCategories |-> found, mistakes |-> missed,
                                   attempts |-> Len(more)] \in GroupsFinishes
    BY <1>0, <2>2, <2>3, GroupJudged, SMTT(30)
  <2>7. /\ DOMAIN next = GroupsFields /\ next.grading = FALSE /\ next.solvedCategories = solved
        /\ next.mistakes = mistakes /\ next.selectedWords = {} /\ next.guessHistory = more
        /\ next.remainingWords = IF correct THEN state.remainingWords \ guess ELSE state.remainingWords
        /\ next.gameStatus = status
    BY <1>0 DEF GroupsFields
  <2> HIDE DEF next, correct
  <2>8. solved = found /\ mistakes = missed
    BY <2>4
  <2>9. status = outcome
    BY <2>4, <2>5, <2>8
  <2>10. data = [status |-> outcome, foundCategories |-> found, mistakes |-> missed, attempts |-> Len(more)]
    BY <2>7, <2>8, <2>9 DEF GroupsHanded
  <2>11. next.remainingWords = Groups!Words \ UNION Range(found)
    <3>1. CASE guess \in Categories
      <4>1. state.solvedCategories \in Seq(Selections)
        BY <1>0 DEF Guesses
      <4>2. Range(found) = Range(state.solvedCategories) \cup {guess}
        BY <2>2, <3>1, <4>1, AppendedRange
      <4>3. next.remainingWords = state.remainingWords \ guess
        BY <2>4, <2>7, <3>1
      <4> QED
        BY <1>0, <4>2, <4>3
    <3>2. CASE guess \notin Categories
      BY <1>0, <2>4, <2>7, <3>2
    <3> QED
      BY <3>1, <3>2
  <2> DEFINE over == outcome # "playing"
  <2>e. ended = FALSE /\ sent \in Seq(GroupsFinishes)
    BY <1>0, <2>3
  <2>12. Shows(next, over, data) /\ over \in BOOLEAN /\ (over => data \in GroupsFinishes)
    BY <2>3, <2>6, <2>9, <2>10
  <2> HIDE DEF data, guess, more, found, missed, outcome, solved, mistakes, status, over
  <2>13. /\ state' = next /\ ended' = over /\ sent' \in Seq(GroupsFinishes)
         /\ over => sent' # <<>> /\ Last(sent') = data
    BY <2>e, <2>12, Render
  <2>14. GroupsAsked(FALSE, <<>>, more, found)
    BY DEF GroupsAsked
  <2>15. GroupsBoard(next, <<>>, over, sent')
    BY <2>6, <2>7, <2>8, <2>9, <2>11, <2>13, <2>14 DEF GroupsBoard, over, data
  <2> QED
    BY <2>2, <2>13, <2>15, SMTT(30)
<1>7. CASE UNCHANGED boardVars
  BY <1>7 DEF boardVars, GroupsInv
<1> QED
  BY <1>1, <1>2, <1>3, <1>4, <1>5, <1>6, <1>7 DEF Groups!Next

(* word-groups-game.tsx: with any groups, and whatever is done while a     *)
(* guess is being graded, no group is judged twice; the found groups are   *)
(* the categories among the guesses, each once and in their order, and the *)
(* words left and the mistakes are what the guesses say; the game is won   *)
(* with every group found or lost with every mistake made, and that is     *)
(* what is handed over.                                                    *)
THEOREM WordGroupsCorrect ==
    ASSUME GroupsPuzzle
    PROVE  Groups!Init /\ [][Groups!Next]_boardVars =>
               [](/\ Groups!Legal /\ Groups!Finished
                  /\ Range(state.solvedCategories) = Range(state.guessHistory) \cap Categories
                  /\ IsInjective(state.solvedCategories) /\ InOrder(state.solvedCategories, state.guessHistory)
                  /\ state.remainingWords = Groups!Words \ UNION Range(state.solvedCategories)
                  /\ state.mistakes = Cardinality(Wrong(state.guessHistory))
                  /\ \A i \in DOMAIN sent : Groups!Right(sent[i]))
<1>1. GroupsPuzzle /\ Groups!Init => GroupsInv
  <2> SUFFICES ASSUME GroupsPuzzle, Groups!Init PROVE GroupsBoard(state, asked, ended, sent)
    BY DEF GroupsInv
  <2> DEFINE first == [grading |-> FALSE, selectedWords |-> {}, solvedCategories |-> <<>>,
                       remainingWords |-> Groups!Words, mistakes |-> 0, gameStatus |-> "playing",
                       guessHistory |-> <<>>, lastGuessWasOneAway |-> FALSE]
  <2>1. state = first /\ asked = <<>> /\ ended = FALSE /\ sent = <<>>
    BY DEF Groups!Init, Groups!Starts, Groups!CreateInitialState
  <2>2. DOMAIN first = GroupsFields /\ first.selectedWords = {} /\ first.solvedCategories = <<>>
        /\ first.remainingWords = Groups!Words /\ first.mistakes = 0 /\ first.gameStatus = "playing"
        /\ first.guessHistory = <<>> /\ first.grading = FALSE
    BY DEF GroupsFields
  <2> HIDE DEF first
  <2>3. Range(<<>>) = {} /\ IsInjective(<<>>)
    BY DEF Range, IsInjective
  <2>4. Guesses(<<>>, <<>>, 0)
    <3>1. Wrong(<<>>) = {}
      BY DEF Wrong
    <3> QED
      BY <2>3, <3>1, FS_EmptySet DEF Guesses, InOrder
  <2>5. GroupsStatus("playing", <<>>, 0)
    <3>1. Cardinality(Categories) # 0 /\ 0 < MAX_MISTAKES
      BY FS_EmptySet DEF GroupsPuzzle
    <3> QED
      BY <3>1 DEF GroupsStatus
  <2>6. GroupsAsked(FALSE, <<>>, <<>>, <<>>) /\ <<>> \in Seq(GroupsFinishes)
    BY DEF GroupsAsked
  <2>7. Groups!Words = Groups!Words \ UNION Range(<<>>)
    BY <2>3
  <2> QED
    BY <2>1, <2>2, <2>4, <2>5, <2>6, <2>7 DEF GroupsBoard
<1>2. GroupsPuzzle /\ GroupsInv /\ [Groups!Next]_boardVars => GroupsInv'
  BY GroupsStep
<1>3. GroupsPuzzle /\ GroupsInv =>
         /\ Groups!Legal /\ Groups!Finished
         /\ Range(state.solvedCategories) = Range(state.guessHistory) \cap Categories
         /\ IsInjective(state.solvedCategories) /\ InOrder(state.solvedCategories, state.guessHistory)
         /\ state.remainingWords = Groups!Words \ UNION Range(state.solvedCategories)
         /\ state.mistakes = Cardinality(Wrong(state.guessHistory))
         /\ \A i \in DOMAIN sent : Groups!Right(sent[i])
  <2> SUFFICES ASSUME GroupsPuzzle, GroupsInv
               PROVE  /\ Groups!Legal /\ Groups!Finished
                      /\ Range(state.solvedCategories) = Range(state.guessHistory) \cap Categories
                      /\ IsInjective(state.solvedCategories) /\ InOrder(state.solvedCategories, state.guessHistory)
                      /\ state.remainingWords = Groups!Words \ UNION Range(state.solvedCategories)
                      /\ state.mistakes = Cardinality(Wrong(state.guessHistory))
                      /\ \A i \in DOMAIN sent : Groups!Right(sent[i])
    OBVIOUS
  <2>1. /\ Guesses(state.guessHistory, state.solvedCategories, state.mistakes)
        /\ GroupsStatus(state.gameStatus, state.solvedCategories, state.mistakes)
        /\ GroupsAsked(state.grading, asked, state.guessHistory, state.solvedCategories)
        /\ state.remainingWords = Groups!Words \ UNION Range(state.solvedCategories)
        /\ state.selectedWords \subseteq state.remainingWords
    BY DEF GroupsInv, GroupsBoard
  <2>2. Groups!Legal
    BY <2>1 DEF Guesses, GroupsAsked, IsInjective, Groups!IsInjective, Groups!Legal
  <2>3. Groups!Finished
    <3>1. ASSUME Categories = Groups!Range(state.solvedCategories) PROVE state.gameStatus = "won"
      <4>1. Range(state.solvedCategories) = Categories
        BY <3>1 DEF Groups!Range, Range
      <4>2. Len(state.solvedCategories) = Cardinality(Categories)
        BY <2>1, <4>1, AllFound DEF Guesses, GroupsPuzzle
      <4> QED
        BY <2>1, <4>2 DEF GroupsStatus
    <3>2. state.gameStatus # "playing" => ended /\ Groups!Last(sent) = Groups!Finish(state)
      BY DEF GroupsInv, GroupsBoard, GroupsHanded, Groups!Finish, Groups!Last, Last
    <3> QED
      BY <3>1, <3>2 DEF Groups!Finished
  <2>4. \A i \in DOMAIN sent : Groups!Right(sent[i])
    BY DEF GroupsInv, GroupsBoard, GroupsFinishes
  <2> QED
    BY <2>1, <2>2, <2>3, <2>4 DEF Guesses
<1> QED
  BY <1>1, <1>2, <1>3, PTL

------------------------------------------------------------------------------
(* Crossword.                                                              *)
CONSTANTS CrossSize, Black, CrossClues, MaxFinishes
Cross == INSTANCE Crossword WITH GRID_SIZE <- CrossSize, Clues <- CrossClues

CrossPuzzle ==
    /\ CrossSize \in Nat /\ Cross!LetterCells # {}
    /\ \A clue \in CrossClues :
         clue.direction \in {"across", "down"} /\ clue.cells # <<>> /\ clue.cells \in Seq(Cross!LetterCells)

CrossGrids == [Cross!LetterCells -> Letters \cup {Cross!Blank}]

CrossFields == {"userGrid", "selectedCell", "direction", "isFilled", "solvedClues", "isComplete"}

CrossFinishes == {f \in [finalGrid : CrossGrids] : Cross!Right(f)}

(* The board between two renders: the flags belong to the letters shown.    *)
CrossShown(s) ==
    /\ s.isFilled = Cross!IsGridFilled(s.userGrid)
    /\ s.solvedClues = {clue \in CrossClues : Cross!IsClueFilled(s.userGrid, clue)}

(* The board itself: what is typed, and where the cursor is.                *)
CrossTyped(s) ==
    /\ DOMAIN s = CrossFields /\ s.userGrid \in CrossGrids
    /\ s.selectedCell \in Cross!LetterCells
    /\ s.direction \in {"across", "down"} /\ Cross!ResolveDirection(s.direction) = s.direction
    /\ s.isComplete \in BOOLEAN

CrossBoard(s, requests, finishes) ==
    /\ CrossTyped(s) /\ CrossShown(s)
    /\ finishes \in Seq(CrossFinishes)
    /\ requests # <<>> => finishes # <<>> /\ requests = <<Last(finishes)>>
    /\ s.isFilled => finishes # <<>>
    /\ s.isComplete => finishes # <<>> /\ requests = <<>>

CrossInv == CrossBoard(state, asked, sent)

LEMMA FirstCellExists == ASSUME CrossPuzzle PROVE Cross!FirstCell \in Cross!LetterCells
<1> DEFINE Key(c) == c[1] * (CrossSize + 1) + c[2]
           Keys == {Key(c) : c \in Cross!LetterCells}
<1>1. \A c \in Cross!LetterCells : c[1] \in 1..CrossSize /\ c[2] \in 1..CrossSize
  BY DEF Cross!LetterCells
<1>2. CrossSize \in Nat /\ Cross!LetterCells # {}
  BY DEF CrossPuzzle
<1>3. \A c \in Cross!LetterCells : Key(c) \in Nat
  BY <1>1, <1>2
<1>4. PICK k \in Keys : \A m \in Keys : k <= m
  BY <1>2, <1>3, Smallest
<1>5. PICK c \in Cross!LetterCells : k = Key(c)
  BY <1>4
<1>6. ASSUME NEW d \in Cross!LetterCells PROVE c[1] < d[1] \/ (c[1] = d[1] /\ c[2] =< d[2])
  <2>1. Key(c) <= Key(d)
    BY <1>4, <1>5
  <2>2. c[1] \in 1..CrossSize /\ c[2] \in 1..CrossSize /\ d[1] \in 1..CrossSize /\ d[2] \in 1..CrossSize
    BY <1>1
  <2>3. ASSUME NEW a \in Nat, NEW b \in Nat, NEW x \in 1..CrossSize, NEW y \in 1..CrossSize,
               a * (CrossSize + 1) + x <= b * (CrossSize + 1) + y, b < a
        PROVE FALSE
    <3>1. (b + 1) * (CrossSize + 1) <= a * (CrossSize + 1)
      BY <1>2, <2>3
    <3> QED
      BY <1>2, <2>3, <3>1
  <2>4. ~ d[1] < c[1]
    BY <2>1, <2>2, <2>3
  <2>5. CASE c[1] = d[1]
    <3>1. c[1] * (CrossSize + 1) = d[1] * (CrossSize + 1) /\ d[1] * (CrossSize + 1) \in Int
      BY <1>2, <2>2, <2>5
    <3> QED
      BY <2>1, <2>2, <2>5, <3>1
  <2> QED
    BY <2>2, <2>4, <2>5
<1> QED
  BY <1>6 DEF Cross!FirstCell

LEMMA NeighbourOnGrid ==
    ASSUME CrossPuzzle, NEW cell \in Cross!LetterCells, NEW direction, NEW way \in {1, -1}
    PROVE  Cross!Neighbour(cell, direction, way) \in Cross!LetterCells
<1> DEFINE along == IF direction = "across" THEN 2 ELSE 1
           line == {c \in Cross!LetterCells : c[3 - along] = cell[3 - along] /\ way * (c[along] - cell[along]) > 0}
           Key(c) == IF way = 1 THEN c[along] ELSE CrossSize - c[along]
           Keys == {Key(c) : c \in line}
<1>1. \A c \in Cross!LetterCells : c[1] \in 1..CrossSize /\ c[2] \in 1..CrossSize
  BY DEF Cross!LetterCells
<1>2. along \in {1, 2} /\ CrossSize \in Nat
  BY DEF CrossPuzzle
<1> HIDE DEF along
<1>3. \A c \in Cross!LetterCells : c[along] \in 1..CrossSize
  BY <1>1, <1>2
<1>4. CASE line = {}
  BY <1>4 DEF Cross!Neighbour, along
<1>5. CASE line # {}
  <2>1. line \subseteq Cross!LetterCells
    OBVIOUS
  <2> HIDE DEF line
  <2>2. Keys \in SUBSET Nat /\ Keys # {}
    BY <1>2, <1>3, <1>5, <2>1
  <2>3. PICK k \in Keys : \A m \in Keys : k <= m
    BY <2>2, Smallest
  <2>4. PICK c \in line : k = Key(c)
    BY <2>3
  <2>5. ASSUME NEW d \in line PROVE way * (d[along] - c[along]) >= 0
    <3>1. Key(c) <= Key(d) /\ c[along] \in Int /\ d[along] \in Int
      BY <1>3, <2>1, <2>3, <2>4
    <3> QED
      BY <1>2, <3>1
  <2>6. (CHOOSE e \in line : \A d \in line : way * (d[along] - e[along]) >= 0) \in line
    BY <2>5
  <2> QED
    BY <1>5, <2>1, <2>6 DEF Cross!Neighbour, along, line
<1> QED
  BY <1>4, <1>5

LEMMA CrossCounts == ASSUME NEW S PROVE Cross!Cardinality(S) = Cardinality(S)
  BY DEF Cross!Cardinality, Cardinality

(* A render that changed at most one cell: what is handed over, by an edit  *)
(* or by a later render of a full grid, has at most that hole.              *)
LEMMA CrossRendered ==
    ASSUME CrossPuzzle, CrossInv, NEW cell \in Cross!LetterCells,
           NEW next, CrossTyped(next), CrossShown(next), next.isComplete = state.isComplete,
           \A c \in Cross!LetterCells \ {cell} : next.userGrid[c] = state.userGrid[c],
           Cross!Renders(next)
    PROVE  CrossInv'
<1> DEFINE data == [finalGrid |-> next.userGrid]
           sends == asked = <<>> /\ ~next.isComplete /\ (state.isFilled \/ next.isFilled)
<1>1. /\ state.isFilled = Cross!IsGridFilled(state.userGrid) /\ sent \in Seq(CrossFinishes)
      /\ asked # <<>> => sent # <<>> /\ asked = <<Last(sent)>>
      /\ state.isFilled => sent # <<>>
      /\ state.isComplete => sent # <<>> /\ asked = <<>>
  BY DEF CrossInv, CrossBoard, CrossShown
<1>2. /\ state' = next
      /\ IF sends THEN asked' = <<data>> /\ sent' = Append(sent, data) ELSE UNCHANGED <<asked, sent>>
  BY DEF Cross!Renders, Cross!Finish
<1>3. next.userGrid \in CrossGrids /\ next.isFilled = Cross!IsGridFilled(next.userGrid)
  BY DEF CrossTyped, CrossShown
<1>4. ASSUME state.isFilled \/ next.isFilled PROVE data \in CrossFinishes
  <2> DEFINE holes == {c \in Cross!LetterCells : next.userGrid[c] = Cross!Blank}
  <2>1. holes \subseteq {cell}
    <3>1. CASE next.isFilled
      BY <1>3, <3>1 DEF Cross!IsGridFilled
    <3>2. CASE state.isFilled
      BY <1>1, <3>2 DEF Cross!IsGridFilled
    <3> QED
      BY <1>4, <3>1, <3>2
  <2>2. holes = {} \/ holes = {cell}
    BY <2>1
  <2> HIDE DEF holes
  <2>3. Cardinality(holes) =< 1
    <3>1. Cardinality({cell}) = 1 /\ Cardinality({}) = 0
      BY FS_EmptySet, FS_Singleton
    <3> QED
      BY <2>2, <3>1
  <2>4. Cross!Right(data)
    BY <2>3, CrossCounts DEF Cross!Right, holes
  <2> QED
    BY <1>3, <2>4 DEF CrossFinishes
<1>5. CASE sends
  <2>1. asked' = <<data>> /\ sent' = Append(sent, data) /\ ~next.isComplete
    BY <1>2, <1>5
  <2>2. data \in CrossFinishes
    BY <1>4, <1>5
  <2> HIDE DEF data
  <2>3. sent' \in Seq(CrossFinishes) /\ sent' # <<>> /\ Last(sent') = data
    BY <1>1, <2>1, <2>2 DEF Last
  <2> QED
    BY <1>2, <2>1, <2>3 DEF CrossInv, CrossBoard
<1>6. CASE ~sends
  <2>1. asked' = asked /\ sent' = sent
    BY <1>2, <1>6
  <2>2. next.isFilled => sent # <<>>
    BY <1>1, <1>6
  <2> QED
    BY <1>1, <1>2, <2>1, <2>2 DEF CrossInv, CrossBoard
<1> QED
  BY <1>5, <1>6

(* An edit of one cell, the flags computed again.                           *)
LEMMA CrossEdited ==
    ASSUME CrossPuzzle, CrossInv, NEW cell \in Cross!LetterCells,
           NEW next, CrossTyped(next), next.isComplete = FALSE, state.isComplete = FALSE,
           \A c \in Cross!LetterCells \ {cell} : next.userGrid[c] = state.userGrid[c],
           Cross!Edits(next)
    PROVE  CrossInv'
<1> DEFINE filled == Cross!IsGridFilled(next.userGrid)
           solved == {clue \in CrossClues : Cross!IsClueFilled(next.userGrid, clue)}
           checked == [next EXCEPT !.isFilled = filled, !.solvedClues = solved]
<1>1. DOMAIN next = CrossFields
  BY DEF CrossTyped
<1>2. /\ DOMAIN checked = CrossFields /\ checked.userGrid = next.userGrid
      /\ checked.selectedCell = next.selectedCell /\ checked.direction = next.direction
      /\ checked.isComplete = FALSE /\ checked.isFilled = filled /\ checked.solvedClues = solved
  BY <1>1 DEF CrossFields
<1>3. Cross!Renders(checked)
  BY DEF Cross!Edits
<1> HIDE DEF checked
<1>4. CrossTyped(checked) /\ CrossShown(checked)
  BY <1>2 DEF CrossTyped, CrossShown
<1>5. checked.isComplete = state.isComplete
  BY <1>2
<1>6. \A c \in Cross!LetterCells \ {cell} : checked.userGrid[c] = state.userGrid[c]
  BY <1>2
<1> QED
  BY <1>3, <1>4, <1>5, <1>6, CrossRendered

(* The cursor moves or turns, or nothing changes: the letters are the same. *)
LEMMA CrossMoved ==
    ASSUME CrossPuzzle, CrossInv, NEW next, CrossTyped(next), next.userGrid = state.userGrid,
           next.isFilled = state.isFilled, next.solvedClues = state.solvedClues,
           next.isComplete = state.isComplete, Cross!Renders(next)
    PROVE  CrossInv'
<1>1. CrossShown(next)
  BY DEF CrossInv, CrossBoard, CrossShown
<1>2. next.selectedCell \in Cross!LetterCells
  BY DEF CrossTyped
<1> QED
  BY <1>1, <1>2, CrossRendered

LEMMA CrossTurns ==
    ASSUME NEW direction \in {"across", "down"}
    PROVE  /\ Cross!ResolveDirection(direction) \in {"across", "down"}
           /\ Cross!ResolveDirection(Cross!ResolveDirection(direction)) = Cross!ResolveDirection(direction)
           /\ Cross!Turned(direction) \in {"across", "down"}
           /\ Cross!ResolveDirection(Cross!Turned(direction)) = Cross!Turned(direction)
  BY DEF Cross!ResolveDirection, Cross!Turned

(* A touch of a cell, on a board whose direction may just have been set.    *)
LEMMA CrossSelected ==
    ASSUME NEW s, CrossTyped(s), NEW cell \in Cross!LetterCells
    PROVE  LET next == Cross!SelectedAt(s, cell)
           IN /\ CrossTyped(next) /\ next.userGrid = s.userGrid /\ next.isFilled = s.isFilled
              /\ next.solvedClues = s.solvedClues /\ next.isComplete = s.isComplete
<1>1. DOMAIN s = CrossFields /\ s.direction \in {"across", "down"}
  BY DEF CrossTyped
<1>2. CASE s.selectedCell = cell
  <2> DEFINE turned == Cross!Turned(s.direction)
             next == [s EXCEPT !.direction = turned]
  <2>1. Cross!SelectedAt(s, cell) = next
    BY <1>2 DEF Cross!SelectedAt
  <2>2. turned \in {"across", "down"} /\ Cross!ResolveDirection(turned) = turned
    BY <1>1, CrossTurns
  <2> HIDE DEF turned
  <2>3. /\ DOMAIN next = CrossFields /\ next.userGrid = s.userGrid /\ next.selectedCell = s.selectedCell
        /\ next.direction = turned /\ next.isFilled = s.isFilled /\ next.solvedClues = s.solvedClues
        /\ next.isComplete = s.isComplete
    BY <1>1 DEF CrossFields
  <2> HIDE DEF next
  <2> QED
    BY <2>1, <2>2, <2>3 DEF CrossTyped
<1>3. CASE s.selectedCell # cell
  <2> DEFINE next == [s EXCEPT !.selectedCell = cell]
  <2>1. Cross!SelectedAt(s, cell) = next
    BY <1>3 DEF Cross!SelectedAt
  <2>2. /\ DOMAIN next = CrossFields /\ next.userGrid = s.userGrid /\ next.selectedCell = cell
        /\ next.direction = s.direction /\ next.isFilled = s.isFilled /\ next.solvedClues = s.solvedClues
        /\ next.isComplete = s.isComplete
    BY <1>1 DEF CrossFields
  <2> HIDE DEF next
  <2> QED
    BY <2>1, <2>2 DEF CrossTyped
<1> QED
  BY <1>2, <1>3

LEMMA CrossStep == CrossPuzzle /\ CrossInv /\ [Cross!Next]_boardVars => CrossInv'
<1> SUFFICES ASSUME CrossPuzzle, CrossInv, [Cross!Next]_boardVars PROVE CrossInv'
  OBVIOUS
<1>0. /\ CrossTyped(state) /\ DOMAIN state = CrossFields /\ state.userGrid \in CrossGrids
      /\ state.selectedCell \in Cross!LetterCells /\ state.direction \in {"across", "down"}
      /\ Cross!ResolveDirection(state.direction) = state.direction /\ state.isComplete \in BOOLEAN
  BY DEF CrossInv, CrossBoard, CrossTyped
<1>1. CASE Cross!InputLetter
  <2> DEFINE here == state.selectedCell
             cell == Cross!Neighbour(here, state.direction, 1)
  <2>1. PICK l \in Letters : Cross!Edits([state EXCEPT !.userGrid[here] = l, !.selectedCell = cell])
    BY <1>1 DEF Cross!InputLetter
  <2>2. state.isComplete = FALSE
    BY <1>0, <1>1 DEF Cross!InputLetter
  <2>3. here \in Cross!LetterCells /\ cell \in Cross!LetterCells
    BY <1>0, NeighbourOnGrid
  <2> HIDE DEF here, cell
  <2> DEFINE next == [state EXCEPT !.userGrid[here] = l, !.selectedCell = cell]
  <2>4. /\ DOMAIN next = CrossFields /\ next.userGrid = [state.userGrid EXCEPT ![here] = l]
        /\ next.selectedCell = cell /\ next.direction = state.direction /\ next.isComplete = FALSE
    BY <1>0, <2>2 DEF CrossFields
  <2>5. Cross!Edits(next)
    BY <2>1
  <2> HIDE DEF next
  <2>6. /\ next.userGrid \in CrossGrids
        /\ \A c \in Cross!LetterCells \ {here} : next.userGrid[c] = state.userGrid[c]
    BY <1>0, <2>3, <2>4 DEF CrossGrids
  <2>7. CrossTyped(next)
    BY <1>0, <2>3, <2>4, <2>6 DEF CrossTyped
  <2> QED
    BY <2>2, <2>3, <2>4, <2>5, <2>6, <2>7, CrossEdited
<1>2. CASE Cross!DeleteLetter
  <2> DEFINE here == state.selectedCell
             cell == IF state.userGrid[here] # Cross!Blank THEN here ELSE Cross!Neighbour(here, state.direction, -1)
  <2>1. Cross!Edits([state EXCEPT !.userGrid[cell] = Cross!Blank, !.selectedCell = cell])
    BY <1>2 DEF Cross!DeleteLetter
  <2>2. state.isComplete = FALSE
    BY <1>0, <1>2 DEF Cross!DeleteLetter
  <2>3. cell \in Cross!LetterCells
    BY <1>0, NeighbourOnGrid
  <2> HIDE DEF cell
  <2> DEFINE next == [state EXCEPT !.userGrid[cell] = Cross!Blank, !.selectedCell = cell]
  <2>4. /\ DOMAIN next = CrossFields /\ next.userGrid = [state.userGrid EXCEPT ![cell] = Cross!Blank]
        /\ next.selectedCell = cell /\ next.direction = state.direction /\ next.isComplete = FALSE
    BY <1>0, <2>2 DEF CrossFields
  <2>5. Cross!Edits(next)
    BY <2>1
  <2> HIDE DEF next
  <2>6. /\ next.userGrid \in CrossGrids
        /\ \A c \in Cross!LetterCells \ {cell} : next.userGrid[c] = state.userGrid[c]
    BY <1>0, <2>3, <2>4 DEF CrossGrids
  <2>7. CrossTyped(next)
    BY <1>0, <2>3, <2>4, <2>6 DEF CrossTyped
  <2> QED
    BY <2>2, <2>3, <2>4, <2>5, <2>6, <2>7, CrossEdited
<1>3. CASE Cross!SelectCell
  <2>1. PICK c \in Cross!LetterCells : Cross!Renders(Cross!SelectedAt(state, c))
    BY <1>3 DEF Cross!SelectCell
  <2> DEFINE next == Cross!SelectedAt(state, c)
  <2>2. /\ CrossTyped(next) /\ next.userGrid = state.userGrid /\ next.isFilled = state.isFilled
        /\ next.solvedClues = state.solvedClues /\ next.isComplete = state.isComplete
    BY <1>0, CrossSelected
  <2> HIDE DEF next
  <2> QED
    BY <2>1, <2>2, CrossMoved DEF next
<1>4. CASE Cross!ToggleDirection
  <2> DEFINE turned == Cross!Turned(state.direction)
             next == [state EXCEPT !.direction = turned]
  <2>1. turned \in {"across", "down"} /\ Cross!ResolveDirection(turned) = turned
    BY <1>0, CrossTurns
  <2>2. Cross!Renders(next)
    BY <1>4 DEF Cross!ToggleDirection
  <2> HIDE DEF turned
  <2>3. /\ DOMAIN next = CrossFields /\ next.userGrid = state.userGrid /\ next.selectedCell = state.selectedCell
        /\ next.direction = turned /\ next.isFilled = state.isFilled /\ next.solvedClues = state.solvedClues
        /\ next.isComplete = state.isComplete
    BY <1>0 DEF CrossFields
  <2> HIDE DEF next
  <2>4. CrossTyped(next)
    BY <1>0, <2>1, <2>3 DEF CrossTyped
  <2> QED
    BY <2>2, <2>3, <2>4, CrossMoved
<1>5. CASE Cross!ArrowKey
  <2>1. PICK requested \in {"across", "down"}, way \in {1, -1} :
          /\ Cross!ResolveDirection(requested) = requested
          /\ Cross!Renders([state EXCEPT !.direction = requested,
                                         !.selectedCell = Cross!Neighbour(state.selectedCell, requested, way)])
    BY <1>5 DEF Cross!ArrowKey
  <2> DEFINE cell == Cross!Neighbour(state.selectedCell, requested, way)
             next == [state EXCEPT !.direction = requested, !.selectedCell = cell]
  <2>2. cell \in Cross!LetterCells
    BY <1>0, NeighbourOnGrid
  <2>3. Cross!Renders(next)
    BY <2>1
  <2> HIDE DEF cell
  <2>4. /\ DOMAIN next = CrossFields /\ next.userGrid = state.userGrid /\ next.selectedCell = cell
        /\ next.direction = requested /\ next.isFilled = state.isFilled /\ next.solvedClues = state.solvedClues
        /\ next.isComplete = state.isComplete
    BY <1>0 DEF CrossFields
  <2> HIDE DEF next
  <2>5. CrossTyped(next)
    BY <1>0, <2>1, <2>2, <2>4 DEF CrossTyped
  <2> QED
    BY <2>3, <2>4, <2>5, CrossMoved
<1>6. CASE Cross!HandleClueClick
  <2>1. PICK clue \in CrossClues :
          Cross!Renders(Cross!SelectedAt([state EXCEPT !.direction = Cross!ResolveDirection(clue.direction)], Cross!Head(clue.cells)))
    BY <1>6 DEF Cross!HandleClueClick
  <2> DEFINE turned == Cross!ResolveDirection(clue.direction)
             cell == Cross!Head(clue.cells)
             s == [state EXCEPT !.direction = turned]
             next == Cross!SelectedAt(s, cell)
  <2>2. turned \in {"across", "down"} /\ Cross!ResolveDirection(turned) = turned
    <3>1. clue.direction \in {"across", "down"}
      BY DEF CrossPuzzle
    <3> QED
      BY <3>1, CrossTurns
  <2>3. cell \in Cross!LetterCells
    BY DEF CrossPuzzle, Cross!Head
  <2>4. Cross!Renders(next)
    BY <2>1
  <2> HIDE DEF turned, cell
  <2>5. /\ DOMAIN s = CrossFields /\ s.userGrid = state.userGrid /\ s.selectedCell = state.selectedCell
        /\ s.direction = turned /\ s.isFilled = state.isFilled /\ s.solvedClues = state.solvedClues
        /\ s.isComplete = state.isComplete
    BY <1>0 DEF CrossFields
  <2> HIDE DEF s
  <2>6. CrossTyped(s)
    BY <1>0, <2>2, <2>5 DEF CrossTyped
  <2>7. /\ CrossTyped(next) /\ next.userGrid = state.userGrid /\ next.isFilled = state.isFilled
        /\ next.solvedClues = state.solvedClues /\ next.isComplete = state.isComplete
    BY <2>3, <2>5, <2>6, CrossSelected
  <2> HIDE DEF next
  <2> QED
    BY <2>4, <2>7, CrossMoved
<1>7. CASE Cross!FinishAccepted
  <2> DEFINE next == [state EXCEPT !.isComplete = TRUE]
  <2>1. state' = next /\ sent' = sent /\ asked # <<>> /\ asked' = <<>>
    BY <1>7 DEF Cross!FinishAccepted, Cross!Plays
  <2>2. /\ DOMAIN next = CrossFields /\ next.userGrid = state.userGrid /\ next.selectedCell = state.selectedCell
        /\ next.direction = state.direction /\ next.isFilled = state.isFilled
        /\ next.solvedClues = state.solvedClues /\ next.isComplete = TRUE
    BY <1>0 DEF CrossFields
  <2> HIDE DEF next
  <2>3. CrossTyped(next) /\ CrossShown(next)
    BY <1>0, <2>2 DEF CrossInv, CrossBoard, CrossTyped, CrossShown
  <2>4. CrossBoard(next, <<>>, sent)
    BY <2>1, <2>2, <2>3 DEF CrossInv, CrossBoard
  <2> QED
    BY <2>1, <2>4 DEF CrossInv
<1>8. CASE Cross!FinishFailed
  <2>1. state' = state /\ sent' = sent /\ asked' = <<>>
    BY <1>8 DEF Cross!FinishFailed, Cross!Plays
  <2> QED
    BY <2>1 DEF CrossInv, CrossBoard
<1>9. CASE Cross!ShowError
  BY <1>0, <1>9, CrossMoved DEF Cross!ShowError
<1>10. CASE UNCHANGED boardVars
  BY <1>10 DEF boardVars, CrossInv
<1> QED
  BY <1>1, <1>2, <1>3, <1>4, <1>5, <1>6, <1>7, <1>8, <1>9, <1>10 DEF Cross!Next

(* crossword-game.tsx: on any grid, with answers that come late or not at  *)
(* all, the cursor stays on letter cells, what is shown as filled in is, a *)
(* full grid has been handed over, and no grid with a second hole ever is. *)
THEOREM CrosswordCorrect ==
    ASSUME CrossPuzzle
    PROVE  Cross!Init /\ [][Cross!Next]_boardVars =>
               [](/\ Cross!Legal /\ Cross!Explained /\ Cross!Finished
                  /\ \A i \in DOMAIN sent : Cross!Right(sent[i]))
<1>1. Cross!Init => CrossInv
  <2> SUFFICES ASSUME Cross!Init PROVE CrossBoard(state, asked, sent)
    BY DEF CrossInv
  <2> DEFINE grid == [c \in Cross!LetterCells |-> Cross!Blank]
             first == [userGrid |-> grid, selectedCell |-> Cross!FirstCell, direction |-> "across",
                       isFilled |-> FALSE, solvedClues |-> {}, isComplete |-> FALSE]
  <2>1. state = first /\ asked = <<>> /\ sent = <<>>
    BY DEF Cross!Init, Cross!Starts, Cross!CreateInitialState
  <2>2. grid \in CrossGrids /\ ~Cross!IsGridFilled(grid)
    BY DEF CrossGrids, CrossPuzzle, Cross!IsGridFilled
  <2>3. ASSUME NEW clue \in CrossClues PROVE ~Cross!IsClueFilled(grid, clue)
    <3>1. 1 \in DOMAIN clue.cells /\ clue.cells[1] \in Cross!LetterCells
      BY DEF CrossPuzzle
    <3> QED
      BY <3>1 DEF Cross!IsClueFilled
  <2> HIDE DEF grid
  <2>4. CrossTyped(first)
    BY <2>2, FirstCellExists DEF CrossTyped, CrossFields, Cross!ResolveDirection
  <2>5. CrossShown(first)
    BY <2>2, <2>3 DEF CrossShown, Cross!IsGridFilled
  <2> QED
    BY <2>1, <2>4, <2>5 DEF CrossBoard
<1>2. CrossInv /\ [Cross!Next]_boardVars => CrossInv'
  BY CrossStep
<1>3. CrossInv => /\ Cross!Legal /\ Cross!Explained /\ Cross!Finished
                  /\ \A i \in DOMAIN sent : Cross!Right(sent[i])
  <2> SUFFICES ASSUME CrossInv PROVE /\ Cross!Legal /\ Cross!Explained /\ Cross!Finished
                                     /\ \A i \in DOMAIN sent : Cross!Right(sent[i])
    OBVIOUS
  <2>1. CrossTyped(state) /\ CrossShown(state)
    BY DEF CrossInv, CrossBoard
  <2>2. Cross!Legal
    BY <2>1 DEF CrossTyped, CrossGrids, Cross!Legal
  <2>3. Cross!Explained
    BY <2>1 DEF CrossShown, Cross!Explained, Cross!IsGridFilled, Cross!IsClueFilled
  <2>4. Cross!Finished
    BY DEF CrossInv, CrossBoard, Cross!Finished, Cross!Last, Last
  <2>5. \A i \in DOMAIN sent : Cross!Right(sent[i])
    BY DEF CrossInv, CrossBoard, CrossFinishes
  <2> QED
    BY <2>2, <2>3, <2>4, <2>5
<1> QED
  BY <1>1, <1>2, <1>3, PTL

------------------------------------------------------------------------------
(* Cryptogram.                                                             *)
CONSTANTS Solution, Alphabet, MAX_HINTS
Crypto == INSTANCE Cryptogram

CryptoPuzzle ==
    /\ Solution \in Seq(Alphabet) /\ Solution # <<>> /\ IsInjective(Solution)
    /\ Crypto!Blank \notin Alphabet
    /\ MAX_HINTS \in Nat

Decodings == [Crypto!Encrypted -> Alphabet \cup {Crypto!Blank}]

CryptoFields == {"guesses", "hintsUsed", "revealedLetters", "gameStatus", "lastCheckWrong", "gradeFailed"}

CryptoFinishes == {f \in [guesses : Decodings, hintsUsed : Nat] : Crypto!Right(f)}

CryptoRequests ==
    [kind : {"check"}, guesses : Decodings]
        \cup [kind : {"hint"}, guesses : Decodings, revealed : SUBSET Crypto!Encrypted]

(* No two requests of a kind; a check is about the decoding on the screen,  *)
(* and a hint was asked with everything that is revealed now.               *)
CryptoAsked(requests, guesses, revealed) ==
    /\ requests \in Seq(CryptoRequests)
    /\ \A i, j \in DOMAIN requests : requests[i].kind = requests[j].kind => i = j
    /\ \A i \in DOMAIN requests :
         /\ requests[i].kind = "check" => requests[i].guesses = guesses /\ Crypto!IsFullyFilled(guesses)
         /\ requests[i].kind = "hint" => revealed \subseteq requests[i].revealed

(* A full decoding that is not being checked was found wrong.               *)
CryptoJudged(s, requests) ==
    /\ s.lastCheckWrong \in BOOLEAN /\ s.gradeFailed \in BOOLEAN
    /\ s.lastCheckWrong => Crypto!IsFullyFilled(s.guesses) /\ s.guesses # Solution
    /\ s.gameStatus = "playing" /\ Crypto!IsFullyFilled(s.guesses) /\ ~s.gradeFailed
          /\ (\A i \in DOMAIN requests : requests[i].kind # "check") => s.lastCheckWrong

(* What the hints showed stays on the board.                                *)
CryptoRevealed(guesses, revealed, hintsUsed) ==
    /\ guesses \in Decodings /\ revealed \in Seq(Crypto!Encrypted)
    /\ IsInjective(revealed) /\ Len(revealed) = hintsUsed /\ hintsUsed =< MAX_HINTS
    /\ \A i \in DOMAIN revealed : guesses[revealed[i]] = Solution[revealed[i]]
    /\ \A e, f \in Crypto!Encrypted :
         e # f /\ guesses[e] = guesses[f] /\ guesses[e] # Crypto!Blank
            => e \in Range(revealed) \/ f \in Range(revealed)

CryptoBoard(s, requests, over, finishes) ==
    /\ DOMAIN s = CryptoFields
    /\ CryptoRevealed(s.guesses, s.revealedLetters, s.hintsUsed)
    /\ CryptoAsked(requests, s.guesses, Range(s.revealedLetters))
    /\ CryptoJudged(s, requests)
    /\ over \in BOOLEAN /\ s.gameStatus = (IF over THEN "won" ELSE "playing")
    /\ finishes \in Seq(CryptoFinishes)
    /\ over => /\ s.guesses = Solution
               /\ finishes # <<>> /\ Last(finishes) = Crypto!Finish(s)

CryptoInv == CryptoBoard(state, asked, ended, sent)

(* Of the requests in flight only a hint outlives a change.                 *)
LEMMA CryptoCancelled ==
    ASSUME NEW guesses, NEW revealed, CryptoAsked(asked, guesses, revealed)
    PROVE  /\ CryptoAsked(Crypto!CheckCancelled, guesses, revealed)
           /\ \A i \in DOMAIN Crypto!CheckCancelled : Crypto!CheckCancelled[i].kind = "hint"
           /\ Len(Crypto!CheckCancelled) \in {0, 1}
<1>1. /\ asked \in Seq(CryptoRequests)
      /\ \A i \in DOMAIN asked : asked[i] \in CryptoRequests /\ asked[i].kind \in {"check", "hint"}
  BY DEF CryptoAsked, CryptoRequests
<1> DEFINE Checks == {i \in 1..Len(asked) : asked[i].kind = "check"}
<1>2. CASE Checks = {}
  <2>1. Crypto!CheckCancelled = asked
    BY <1>2 DEF Crypto!CheckCancelled, Crypto!RemoveFirstMatch
  <2>2. \A i \in DOMAIN asked : asked[i].kind = "hint"
    BY <1>1, <1>2
  <2>3. Len(asked) \in {0, 1}
    <3>1. ASSUME Len(asked) \notin {0, 1} PROVE FALSE
      <4>1. 1 \in DOMAIN asked /\ 2 \in DOMAIN asked
        <5>1. Len(asked) \in Nat /\ DOMAIN asked = 1..Len(asked)
          BY <1>1
        <5> QED
          BY <3>1, <5>1
      <4>2. asked[1].kind = asked[2].kind
        BY <2>2, <4>1
      <4> QED
        BY <4>1, <4>2 DEF CryptoAsked
    <3> QED
      BY <3>1
  <2> QED
    BY <2>1, <2>2, <2>3
<1>3. CASE Checks # {}
  <2> DEFINE k == Min(Checks)
  <2>1. k \in Checks
    <3>1. \E x \in Checks : \A y \in Checks : x =< y
      <4>1. Checks \in SUBSET Nat
        BY <1>1
      <4> QED
        BY <1>3, <4>1, Smallest
    <3> HIDE DEF Checks
    <3> QED
      BY <3>1 DEF Min
  <2>2. Crypto!CheckCancelled = RemoveAt(asked, k)
    BY <1>3 DEF Crypto!CheckCancelled, Crypto!RemoveFirstMatch, Crypto!SelectInSeq, Crypto!RemoveAt, RemoveAt,
                Crypto!Min, Min
  <2> HIDE DEF k
  <2>3. k \in DOMAIN asked /\ asked[k].kind = "check"
    BY <1>1, <2>1
  <2> DEFINE rest == RemoveAt(asked, k)
  <2>4. /\ rest \in Seq(CryptoRequests) /\ DOMAIN rest = 1..(Len(asked) - 1) /\ Len(rest) = Len(asked) - 1
        /\ \A j \in 1..(Len(asked) - 1) : rest[j] = IF j < k THEN asked[j] ELSE asked[j + 1]
    BY <1>1, <2>3, Removed
  <2> HIDE DEF rest
  <2>5. \A j \in DOMAIN rest : \E i \in DOMAIN asked : i # k /\ rest[j] = asked[i] /\ i = (IF j < k THEN j ELSE j + 1)
    BY <1>1, <2>3, <2>4
  <2>6. \A j \in DOMAIN rest : rest[j].kind = "hint"
    BY <1>1, <2>3, <2>5 DEF CryptoAsked
  <2>7. \A i, j \in DOMAIN rest : rest[i].kind = rest[j].kind => i = j
    <3> TAKE i, j \in DOMAIN rest
    <3> HAVE rest[i].kind = rest[j].kind
    <3> DEFINE From(n) == IF n < k THEN n ELSE n + 1
    <3>1. From(i) \in DOMAIN asked /\ rest[i] = asked[From(i)] /\ From(j) \in DOMAIN asked /\ rest[j] = asked[From(j)]
      BY <2>5
    <3>2. From(i) = From(j)
      BY <3>1 DEF CryptoAsked
    <3> QED
      BY <1>1, <2>3, <2>4, <3>2
  <2>8. CryptoAsked(rest, guesses, revealed)
    BY <2>4, <2>5, <2>7 DEF CryptoAsked
  <2>9. Len(rest) \in {0, 1}
    BY <2>4, <2>6, <2>7
  <2> QED
    BY <2>2, <2>6, <2>8, <2>9 DEF rest
<1> QED
  BY <1>2, <1>3

(* New guesses: the old check is gone, and a full decoding is being checked. *)
LEMMA CryptoDecoded ==
    ASSUME CryptoInv, ended = FALSE, NEW next, DOMAIN next = CryptoFields,
           CryptoRevealed(next.guesses, next.revealedLetters, next.hintsUsed),
           next.gameStatus = "playing", next.lastCheckWrong = FALSE, next.gradeFailed \in BOOLEAN,
           NEW requests, requests \in Seq(CryptoRequests), Len(requests) \in {0, 1},
           \A i \in DOMAIN requests :
              requests[i].kind = "hint" /\ Range(next.revealedLetters) \subseteq requests[i].revealed,
           Crypto!Decodes(next, requests)
    PROVE  CryptoInv'
<1> DEFINE full == Crypto!IsFullyFilled(next.guesses)
           check == [kind |-> "check", guesses |-> next.guesses]
<1>1. state' = next /\ ended' = FALSE /\ sent' = sent /\ sent \in Seq(CryptoFinishes)
  BY DEF Crypto!Decodes, Crypto!Plays, CryptoInv, CryptoBoard
<1>2. check \in CryptoRequests /\ check.kind = "check" /\ check.guesses = next.guesses
  BY DEF CryptoRequests, CryptoRevealed
<1>3. full \in BOOLEAN
  BY DEF Crypto!IsFullyFilled
<1>4. asked' = IF full THEN Append(requests, check) ELSE requests
  <2>1. asked' = requests \o (IF full THEN <<check>> ELSE <<>>)
    BY DEF Crypto!Decodes
  <2> HIDE DEF full, check
  <2> QED
    BY <1>3, <2>1
<1> HIDE DEF check
<1>5. CASE full
  <2>1. asked' \in Seq(CryptoRequests) /\ asked' = Append(requests, check)
    BY <1>2, <1>4, <1>5
  <2>2. DOMAIN asked' = 1..(Len(requests) + 1) /\ asked'[Len(requests) + 1] = check
        /\ \A i \in 1..Len(requests) : asked'[i] = requests[i] /\ i \in DOMAIN requests
    BY <2>1
  <2>3. \A i \in DOMAIN asked' : i = Len(requests) + 1 \/ (i = 1 /\ i \in DOMAIN requests /\ asked'[i] = requests[i])
    BY <2>2
  <2>4. \A i, j \in DOMAIN asked' : asked'[i].kind = asked'[j].kind => i = j
    BY <1>2, <2>2, <2>3
  <2>5. CryptoAsked(asked', next.guesses, Range(next.revealedLetters))
    <3>1. \A i \in DOMAIN asked' :
            asked'[i] = check \/ (asked'[i].kind = "hint" /\ Range(next.revealedLetters) \subseteq asked'[i].revealed)
      BY <2>2, <2>3
    <3> QED
      BY <1>2, <1>5, <2>1, <2>4, <3>1 DEF CryptoAsked
  <2>6. CryptoJudged(next, asked')
    <3>1. Len(requests) + 1 \in DOMAIN asked' /\ asked'[Len(requests) + 1].kind = "check"
      BY <1>2, <2>2
    <3> QED
      BY <3>1 DEF CryptoJudged
  <2> QED
    BY <1>1, <2>5, <2>6 DEF CryptoInv, CryptoBoard
<1>6. CASE ~full
  <2>1. asked' = requests
    BY <1>4, <1>6
  <2>2. \A i, j \in DOMAIN requests : i = j
    OBVIOUS
  <2>3. CryptoAsked(requests, next.guesses, Range(next.revealedLetters))
    BY <2>2 DEF CryptoAsked
  <2>4. CryptoJudged(next, requests)
    BY <1>6 DEF CryptoJudged
  <2> QED
    BY <1>1, <2>1, <2>3, <2>4 DEF CryptoInv, CryptoBoard
<1> QED
  BY <1>3, <1>5, <1>6

(* A request is answered, and the board stays as it is but for the flag     *)
(* that a check failed.                                                     *)
LEMMA CryptoAnswered ==
    ASSUME CryptoInv, NEW k \in DOMAIN asked, asked' = RemoveAt(asked, k)
    PROVE  /\ CryptoAsked(asked', state.guesses, Range(state.revealedLetters))
           /\ asked[k].kind # "check" =>
                ((\A i \in DOMAIN asked' : asked'[i].kind # "check") => \A i \in DOMAIN asked : asked[i].kind # "check")
<1>1. asked \in Seq(CryptoRequests) /\ CryptoAsked(asked, state.guesses, Range(state.revealedLetters))
  BY DEF CryptoInv, CryptoBoard, CryptoAsked
<1> DEFINE rest == RemoveAt(asked, k)
           From(n) == IF n < k THEN n ELSE n + 1
<1>2. /\ rest \in Seq(CryptoRequests) /\ DOMAIN rest = 1..(Len(asked) - 1)
      /\ \A j \in 1..(Len(asked) - 1) : rest[j] = IF j < k THEN asked[j] ELSE asked[j + 1]
  BY <1>1, Removed
<1> HIDE DEF rest
<1>3. k \in 1..Len(asked) /\ Len(asked) \in Nat /\ DOMAIN asked = 1..Len(asked)
  BY <1>1
<1>4. \A j \in DOMAIN rest : From(j) \in DOMAIN asked /\ rest[j] = asked[From(j)]
  BY <1>2, <1>3
<1>5. \A i, j \in DOMAIN rest : rest[i].kind = rest[j].kind => i = j
  <2> TAKE i, j \in DOMAIN rest
  <2> HAVE rest[i].kind = rest[j].kind
  <2>1. From(i) = From(j)
    BY <1>1, <1>4 DEF CryptoAsked
  <2> QED
    BY <1>2, <1>3, <2>1
<1>6. CryptoAsked(rest, state.guesses, Range(state.revealedLetters))
  BY <1>1, <1>2, <1>4, <1>5 DEF CryptoAsked
<1>7. ASSUME asked[k].kind # "check", \A i \in DOMAIN rest : rest[i].kind # "check", NEW i \in DOMAIN asked
      PROVE  asked[i].kind # "check"
  <2>1. CASE i = k
    BY <1>7, <2>1
  <2>2. CASE i # k
    <3>1. PICK j \in DOMAIN rest : From(j) = i
      <4>1. CASE i < k
        BY <1>2, <1>3, <4>1
      <4>2. CASE i > k
        <5>1. i - 1 \in DOMAIN rest /\ From(i - 1) = i
          BY <1>2, <1>3, <4>2
        <5> QED
          BY <5>1
      <4> QED
        BY <1>3, <2>2, <4>1, <4>2
    <3> QED
      BY <1>4, <1>7, <3>1
  <2> QED
    BY <2>1, <2>2
<1> QED
  BY <1>6, <1>7 DEF rest

LEMMA CryptoWritten ==
    ASSUME CryptoPuzzle, NEW guesses, NEW revealed, NEW hintsUsed, CryptoRevealed(guesses, revealed, hintsUsed),
           NEW e \in Crypto!Encrypted \ Range(revealed), NEW letter \in Alphabet
    PROVE  CryptoRevealed([k \in Crypto!Encrypted |->
                              IF k = e THEN letter
                              ELSE IF guesses[k] = letter /\ k \notin Range(revealed) THEN Crypto!Blank ELSE guesses[k]],
                          revealed, hintsUsed)
<1> DEFINE next == [k \in Crypto!Encrypted |->
                       IF k = e THEN letter
                       ELSE IF guesses[k] = letter /\ k \notin Range(revealed) THEN Crypto!Blank ELSE guesses[k]]
<1>1. /\ guesses \in Decodings /\ revealed \in Seq(Crypto!Encrypted)
      /\ IsInjective(revealed) /\ Len(revealed) = hintsUsed /\ hintsUsed =< MAX_HINTS
  BY DEF CryptoRevealed
<1>2. next \in Decodings
  BY <1>1 DEF Decodings
<1>3. \A i \in DOMAIN revealed : revealed[i] \in Range(revealed) /\ revealed[i] \in Crypto!Encrypted
  BY <1>1 DEF Range
<1>4. \A i \in DOMAIN revealed : next[revealed[i]] = Solution[revealed[i]]
  BY <1>3 DEF CryptoRevealed
<1>5. ASSUME NEW a \in Crypto!Encrypted, NEW b \in Crypto!Encrypted,
             a # b, next[a] = next[b], next[a] # Crypto!Blank
      PROVE  a \in Range(revealed) \/ b \in Range(revealed)
  BY <1>5 DEF CryptoRevealed
<1> HIDE DEF next
<1>6. CryptoRevealed(next, revealed, hintsUsed)
  BY <1>1, <1>2, <1>4, <1>5 DEF CryptoRevealed
<1> QED
  BY <1>6 DEF next

LEMMA CryptoCleared ==
    ASSUME NEW guesses, NEW revealed, NEW hintsUsed, CryptoRevealed(guesses, revealed, hintsUsed),
           NEW e \in Crypto!Encrypted \ Range(revealed)
    PROVE  CryptoRevealed([guesses EXCEPT ![e] = Crypto!Blank], revealed, hintsUsed)
<1> DEFINE next == [guesses EXCEPT ![e] = Crypto!Blank]
<1>1. /\ guesses \in Decodings /\ revealed \in Seq(Crypto!Encrypted)
      /\ IsInjective(revealed) /\ Len(revealed) = hintsUsed /\ hintsUsed =< MAX_HINTS
  BY DEF CryptoRevealed
<1>2. next \in Decodings /\ next[e] = Crypto!Blank /\ \A k \in Crypto!Encrypted \ {e} : next[k] = guesses[k]
  BY <1>1 DEF Decodings
<1> HIDE DEF next
<1>3. \A i \in DOMAIN revealed : revealed[i] \in Crypto!Encrypted \ {e}
  BY <1>1 DEF Range
<1>4. \A i \in DOMAIN revealed : next[revealed[i]] = Solution[revealed[i]]
  BY <1>2, <1>3 DEF CryptoRevealed
<1>5. ASSUME NEW a \in Crypto!Encrypted, NEW b \in Crypto!Encrypted,
             a # b, next[a] = next[b], next[a] # Crypto!Blank
      PROVE  a \in Range(revealed) \/ b \in Range(revealed)
  BY <1>2, <1>5 DEF CryptoRevealed
<1>6. CryptoRevealed(next, revealed, hintsUsed)
  BY <1>1, <1>2, <1>4, <1>5 DEF CryptoRevealed
<1> QED
  BY <1>6 DEF next

LEMMA CryptoHinted ==
    ASSUME CryptoPuzzle, NEW guesses, NEW revealed, NEW hintsUsed, CryptoRevealed(guesses, revealed, hintsUsed),
           NEW e \in Crypto!Encrypted \ Range(revealed), hintsUsed < MAX_HINTS
    PROVE  CryptoRevealed([k \in Crypto!Encrypted |->
                              IF k = e THEN Solution[e]
                              ELSE IF guesses[k] = Solution[e] THEN Crypto!Blank ELSE guesses[k]],
                          Append(revealed, e), hintsUsed + 1)
<1> DEFINE next == [k \in Crypto!Encrypted |->
                       IF k = e THEN Solution[e] ELSE IF guesses[k] = Solution[e] THEN Crypto!Blank ELSE guesses[k]]
           more == Append(revealed, e)
<1>1. /\ guesses \in Decodings /\ revealed \in Seq(Crypto!Encrypted)
      /\ IsInjective(revealed) /\ Len(revealed) = hintsUsed
  BY DEF CryptoRevealed
<1>2. /\ Solution \in Seq(Alphabet) /\ Crypto!Encrypted = DOMAIN Solution /\ IsInjective(Solution)
      /\ Solution[e] \in Alphabet /\ MAX_HINTS \in Nat
  BY DEF CryptoPuzzle, Crypto!Encrypted
<1>3. next \in Decodings
  BY <1>1, <1>2 DEF Decodings
<1>4. /\ more \in Seq(Crypto!Encrypted) /\ Len(more) = hintsUsed + 1 /\ DOMAIN more = 1..(hintsUsed + 1)
      /\ more[hintsUsed + 1] = e /\ \A i \in 1..hintsUsed : more[i] = revealed[i] /\ i \in DOMAIN revealed
  BY <1>1
<1> HIDE DEF more
<1>5. hintsUsed \in Nat /\ DOMAIN revealed = 1..hintsUsed /\ \A i \in DOMAIN revealed : revealed[i] # e
  BY <1>1 DEF Range
<1>6. IsInjective(more)
  BY <1>1, <1>4, <1>5 DEF IsInjective
<1>7. ASSUME NEW i \in DOMAIN revealed PROVE next[revealed[i]] = Solution[revealed[i]]
  <2>1. revealed[i] \in Crypto!Encrypted /\ revealed[i] # e /\ guesses[revealed[i]] = Solution[revealed[i]]
    BY <1>1, <1>5 DEF CryptoRevealed
  <2>2. Solution[revealed[i]] # Solution[e]
    BY <1>2, <2>1 DEF IsInjective
  <2> QED
    BY <2>1, <2>2
<1>8. \A i \in DOMAIN more : next[more[i]] = Solution[more[i]]
  <2>1. next[e] = Solution[e]
    OBVIOUS
  <2> HIDE DEF next
  <2> QED
    BY <1>4, <1>5, <1>7, <2>1
<1>9. e \in Range(more) /\ Range(revealed) \subseteq Range(more)
  BY <1>4, <1>5 DEF Range
<1>10. ASSUME NEW a \in Crypto!Encrypted, NEW b \in Crypto!Encrypted,
              a # b, next[a] = next[b], next[a] # Crypto!Blank
       PROVE  a \in Range(more) \/ b \in Range(more)
  <2>1. CASE a = e \/ b = e
    BY <1>9, <2>1
  <2>2. CASE a # e /\ b # e
    <3>1. guesses[a] = guesses[b] /\ guesses[a] # Crypto!Blank
      BY <1>10, <2>2
    <3> QED
      BY <1>9, <1>10, <3>1 DEF CryptoRevealed
  <2> QED
    BY <2>1, <2>2
<1> HIDE DEF next
<1>11. hintsUsed + 1 =< MAX_HINTS
  BY <1>2, <1>5
<1>12. CryptoRevealed(next, more, hintsUsed + 1)
  BY <1>3, <1>4, <1>6, <1>8, <1>10, <1>11 DEF CryptoRevealed
<1> QED
  BY <1>12 DEF next, more

LEMMA CryptoEmpty ==
    ASSUME CryptoPuzzle
    PROVE  LET empty == [e \in Crypto!Encrypted |-> Crypto!Blank]
           IN /\ ~Crypto!IsFullyFilled(empty) /\ CryptoRevealed(empty, <<>>, 0)
              /\ CryptoAsked(<<>>, empty, Range(<<>>)) /\ Range(<<>>) = {}
<1> DEFINE empty == [e \in Crypto!Encrypted |-> Crypto!Blank]
<1>1. 1 \in Crypto!Encrypted
  BY DEF CryptoPuzzle, Crypto!Encrypted
<1>2. 1 \in DOMAIN empty /\ empty[1] = Crypto!Blank
  BY <1>1
<1>3. empty \in Decodings
  BY DEF Decodings
<1> HIDE DEF empty
<1>4. ~Crypto!IsFullyFilled(empty)
  BY <1>2 DEF Crypto!IsFullyFilled, Crypto!Range
<1>5. <<>> \in Seq(CryptoRequests) /\ <<>> \in Seq(Crypto!Encrypted) /\ DOMAIN <<>> = {} /\ Len(<<>>) = 0
  OBVIOUS
<1>6. IsInjective(<<>>) /\ Range(<<>>) = {}
  BY <1>5 DEF IsInjective, Range
<1>7. \A e, f \in Crypto!Encrypted : empty[e] = Crypto!Blank
  BY DEF empty
<1>8. CryptoRevealed(empty, <<>>, 0)
  BY <1>3, <1>5, <1>6, <1>7 DEF CryptoRevealed, CryptoPuzzle
<1>9. CryptoAsked(<<>>, empty, Range(<<>>))
  BY <1>5 DEF CryptoAsked
<1> QED
  BY <1>4, <1>6, <1>8, <1>9 DEF empty

LEMMA CryptoStep == CryptoPuzzle /\ CryptoInv /\ [Crypto!Next]_boardVars => CryptoInv'
<1> SUFFICES ASSUME CryptoPuzzle, CryptoInv, [Crypto!Next]_boardVars PROVE CryptoInv'
  OBVIOUS
<1> DEFINE revealed == state.revealedLetters
<1>0. /\ DOMAIN state = CryptoFields /\ CryptoRevealed(state.guesses, revealed, state.hintsUsed)
      /\ CryptoAsked(asked, state.guesses, Range(revealed)) /\ CryptoJudged(state, asked)
      /\ ended \in BOOLEAN /\ state.gameStatus = (IF ended THEN "won" ELSE "playing")
      /\ sent \in Seq(CryptoFinishes) /\ state.gradeFailed \in BOOLEAN /\ state.lastCheckWrong \in BOOLEAN
      /\ state.guesses \in Decodings
      /\ ended => state.guesses = Solution /\ sent # <<>> /\ Last(sent) = Crypto!Finish(state)
      /\ asked \in Seq(CryptoRequests)
  BY DEF CryptoInv, CryptoBoard, CryptoJudged, CryptoRevealed, CryptoAsked
<1> DEFINE rest == Crypto!CheckCancelled
<1>r. /\ rest \in Seq(CryptoRequests) /\ Len(rest) \in {0, 1}
      /\ \A i \in DOMAIN rest : rest[i].kind = "hint" /\ Range(revealed) \subseteq rest[i].revealed
      /\ CryptoAsked(rest, state.guesses, Range(revealed))
  <2>1. /\ CryptoAsked(rest, state.guesses, Range(revealed))
        /\ \A i \in DOMAIN rest : rest[i].kind = "hint"
        /\ Len(rest) \in {0, 1}
    BY <1>0, CryptoCancelled
  <2> HIDE DEF rest
  <2> QED
    BY <2>1 DEF CryptoAsked
<1> HIDE DEF rest
<1>1. CASE Crypto!SetGuess
  <2>1. PICK e \in Crypto!Encrypted \ Crypto!Range(state.revealedLetters), letter \in Alphabet :
          /\ state.gameStatus = "playing"
          /\ Crypto!Decodes([state EXCEPT
               !.guesses = [k \in Crypto!Encrypted |->
                              IF k = e THEN letter
                              ELSE IF state.guesses[k] = letter /\ k \notin Crypto!Range(state.revealedLetters)
                                   THEN Crypto!Blank ELSE state.guesses[k]],
               !.lastCheckWrong = FALSE], Crypto!CheckCancelled)
    BY <1>1 DEF Crypto!SetGuess, Crypto!Editable
  <2> DEFINE guesses == [k \in Crypto!Encrypted |->
                           IF k = e THEN letter
                           ELSE IF state.guesses[k] = letter /\ k \notin Range(revealed)
                                THEN Crypto!Blank ELSE state.guesses[k]]
             next == [state EXCEPT !.guesses = guesses, !.lastCheckWrong = FALSE]
  <2>2. ended = FALSE /\ state.gameStatus = "playing" /\ e \in Crypto!Encrypted \ Range(revealed)
    BY <1>0, <2>1 DEF Crypto!Range, Range
  <2>3. CryptoRevealed(guesses, revealed, state.hintsUsed)
    BY <1>0, <2>2, CryptoWritten
  <2>4. Crypto!Decodes(next, rest)
    BY <2>1 DEF Crypto!Range, Range, rest
  <2> HIDE DEF guesses
  <2>5. /\ DOMAIN next = CryptoFields /\ next.guesses = guesses /\ next.revealedLetters = revealed
        /\ next.hintsUsed = state.hintsUsed /\ next.gameStatus = "playing" /\ next.lastCheckWrong = FALSE
        /\ next.gradeFailed = state.gradeFailed
    BY <1>0, <2>2 DEF CryptoFields
  <2> HIDE DEF next
  <2> QED
    BY <1>0, <1>r, <2>2, <2>3, <2>4, <2>5, CryptoDecoded
<1>2. CASE Crypto!ClearGuess
  <2>1. PICK e \in Crypto!Encrypted \ Crypto!Range(state.revealedLetters) :
          /\ state.gameStatus = "playing"
          /\ Crypto!Decodes([state EXCEPT !.guesses[e] = Crypto!Blank, !.lastCheckWrong = FALSE], Crypto!CheckCancelled)
    BY <1>2 DEF Crypto!ClearGuess, Crypto!Editable
  <2> DEFINE guesses == [state.guesses EXCEPT ![e] = Crypto!Blank]
             next == [state EXCEPT !.guesses[e] = Crypto!Blank, !.lastCheckWrong = FALSE]
  <2>2. ended = FALSE /\ state.gameStatus = "playing" /\ e \in Crypto!Encrypted \ Range(revealed)
    BY <1>0, <2>1 DEF Crypto!Range, Range
  <2>3. CryptoRevealed(guesses, revealed, state.hintsUsed)
    BY <1>0, <2>2, CryptoCleared
  <2>4. Crypto!Decodes(next, rest)
    BY <2>1 DEF rest
  <2>5. /\ DOMAIN next = CryptoFields /\ next.guesses = guesses /\ next.revealedLetters = revealed
        /\ next.hintsUsed = state.hintsUsed /\ next.gameStatus = "playing" /\ next.lastCheckWrong = FALSE
        /\ next.gradeFailed = state.gradeFailed
    BY <1>0, <2>2 DEF CryptoFields
  <2> HIDE DEF next, guesses
  <2> QED
    BY <1>0, <1>r, <2>2, <2>3, <2>4, <2>5, CryptoDecoded
<1>3. CASE Crypto!UseHint
  <2> DEFINE request == [kind |-> "hint", guesses |-> state.guesses, revealed |-> Range(revealed)]
  <2>1. /\ UNCHANGED <<state, ended, sent>> /\ \A i \in DOMAIN asked : asked[i].kind # "hint"
        /\ asked' = Append(asked, request)
    BY <1>3 DEF Crypto!UseHint, Crypto!NoneAsked, Crypto!Range, Range
  <2>2. request \in CryptoRequests /\ request.kind = "hint" /\ request.revealed = Range(revealed)
    BY <1>0 DEF CryptoRequests, CryptoRevealed, Range
  <2> HIDE DEF request
  <2>3. /\ asked' \in Seq(CryptoRequests) /\ DOMAIN asked' = 1..(Len(asked) + 1) /\ asked'[Len(asked) + 1] = request
        /\ \A i \in 1..Len(asked) : asked'[i] = asked[i] /\ i \in DOMAIN asked
    BY <1>0, <2>1, <2>2
  <2>4. \A i \in DOMAIN asked' : (i = Len(asked) + 1 /\ asked'[i] = request) \/ (i \in DOMAIN asked /\ asked'[i] = asked[i])
    BY <1>0, <2>3
  <2>5. \A i, j \in DOMAIN asked' : asked'[i].kind = asked'[j].kind => i = j
    BY <1>0, <2>1, <2>2, <2>4 DEF CryptoAsked
  <2>6. CryptoAsked(asked', state.guesses, Range(revealed))
    BY <1>0, <2>2, <2>3, <2>4, <2>5 DEF CryptoAsked
  <2>7. CryptoJudged(state, asked')
    <3>1. (\A i \in DOMAIN asked' : asked'[i].kind # "check") => \A i \in DOMAIN asked : asked[i].kind # "check"
      BY <1>0, <2>3
    <3> QED
      BY <1>0, <3>1 DEF CryptoJudged
  <2> QED
    BY <1>0, <2>1, <2>6, <2>7 DEF CryptoInv, CryptoBoard
<1>4. CASE Crypto!HintAnswered
  <2>1. PICK i \in DOMAIN asked :
          /\ asked[i].kind = "hint"
          /\ IF Crypto!Hidden(asked[i]) # {} /\ Crypto!Editable /\ state.hintsUsed < MAX_HINTS
             THEN Crypto!Decodes(Crypto!Reveal(Crypto!Min(Crypto!Hidden(asked[i]))), <<>>)
             ELSE asked' = Crypto!RemoveAt(asked, i) /\ UNCHANGED <<state, ended, sent>>
    BY <1>4 DEF Crypto!HintAnswered
  <2>2. CASE Crypto!Hidden(asked[i]) # {} /\ Crypto!Editable /\ state.hintsUsed < MAX_HINTS
    <3> DEFINE hidden == Crypto!Hidden(asked[i])
               e == Crypto!Min(hidden)
               guesses == [k \in Crypto!Encrypted |->
                             IF k = e THEN Solution[e]
                             ELSE IF state.guesses[k] = Solution[e] THEN Crypto!Blank ELSE state.guesses[k]]
               more == Append(revealed, e)
               next == [state EXCEPT !.guesses = guesses, !.revealedLetters = more,
                                     !.hintsUsed = state.hintsUsed + 1, !.lastCheckWrong = FALSE]
    <3>1. e \in hidden
      <4>1. hidden \in SUBSET Nat
        BY DEF CryptoPuzzle, Crypto!Hidden, Crypto!Encrypted
      <4>2. hidden # {}
        BY <2>2
      <4> HIDE DEF hidden
      <4>3. \E x \in hidden : \A y \in hidden : x =< y
        BY <4>1, <4>2, Smallest
      <4> QED
        BY <4>3 DEF Crypto!Min
    <3>2. e \in Crypto!Encrypted \ Range(revealed)
      <4>1. hidden \subseteq Crypto!Encrypted \ asked[i].revealed
        BY DEF Crypto!Hidden
      <4> QED
        BY <1>0, <2>1, <3>1, <4>1 DEF CryptoAsked
    <3>3. ended = FALSE /\ state.gameStatus = "playing"
      BY <1>0, <2>2 DEF Crypto!Editable
    <3>4. Crypto!Decodes(next, <<>>)
      BY <2>1, <2>2 DEF Crypto!Reveal
    <3> HIDE DEF e
    <3>5. CryptoRevealed(guesses, more, state.hintsUsed + 1)
      BY <1>0, <2>2, <3>2, CryptoHinted
    <3> HIDE DEF guesses, more
    <3>6. /\ DOMAIN next = CryptoFields /\ next.guesses = guesses /\ next.revealedLetters = more
          /\ next.hintsUsed = state.hintsUsed + 1 /\ next.gameStatus = "playing" /\ next.lastCheckWrong = FALSE
          /\ next.gradeFailed = state.gradeFailed
      BY <1>0, <3>3 DEF CryptoFields
    <3> HIDE DEF next
    <3>7. <<>> \in Seq(CryptoRequests) /\ Len(<<>>) \in {0, 1} /\ DOMAIN <<>> = {}
      OBVIOUS
    <3> QED
      BY <1>0, <3>3, <3>4, <3>5, <3>6, <3>7, CryptoDecoded
  <2>3. CASE ~(Crypto!Hidden(asked[i]) # {} /\ Crypto!Editable /\ state.hintsUsed < MAX_HINTS)
    <3>1. asked' = RemoveAt(asked, i) /\ UNCHANGED <<state, ended, sent>>
      BY <2>1, <2>3 DEF Crypto!RemoveAt, RemoveAt
    <3>2. /\ CryptoAsked(asked', state.guesses, Range(revealed))
          /\ (\A j \in DOMAIN asked' : asked'[j].kind # "check") => \A j \in DOMAIN asked : asked[j].kind # "check"
      BY <2>1, <3>1, CryptoAnswered
    <3>3. CryptoJudged(state, asked')
      BY <1>0, <3>2 DEF CryptoJudged
    <3> QED
      BY <1>0, <3>1, <3>2, <3>3 DEF CryptoInv, CryptoBoard
  <2> QED
    BY <2>2, <2>3
<1>5. CASE Crypto!Checked
  <2>1. PICK i \in DOMAIN asked :
          /\ asked[i].kind = "check" /\ state.gameStatus = "playing" /\ asked[i].guesses = state.guesses
          /\ LET solved == asked[i].guesses = Solution
                 next == [state EXCEPT !.gameStatus = IF solved THEN "won" ELSE @, !.lastCheckWrong = ~solved]
             IN Crypto!Shows(next, solved, Crypto!Finish(next))
          /\ asked' = Crypto!RemoveAt(asked, i)
    BY <1>5 DEF Crypto!Checked, Crypto!Editable
  <2> DEFINE solved == state.guesses = Solution
             status == IF solved THEN "won" ELSE "playing"
             next == [state EXCEPT !.gameStatus = status, !.lastCheckWrong = ~solved]
             data == [guesses |-> state.guesses, hintsUsed |-> state.hintsUsed]
  <2>2. solved \in BOOLEAN /\ ended = FALSE /\ state.gameStatus = "playing" /\ Crypto!IsFullyFilled(state.guesses)
    BY <1>0, <2>1 DEF CryptoAsked
  <2>3. /\ DOMAIN next = CryptoFields /\ next.guesses = state.guesses /\ next.revealedLetters = revealed
        /\ next.hintsUsed = state.hintsUsed /\ next.gameStatus = status /\ next.lastCheckWrong = ~solved
        /\ next.gradeFailed = state.gradeFailed
    BY <1>0 DEF CryptoFields
  <2>4. Shows(next, solved, Crypto!Finish(next))
    BY <2>1 DEF Crypto!Shows, Shows
  <2> HIDE DEF next
  <2>5. Crypto!Finish(next) = data /\ Shows(next, solved, data)
    BY <2>3, <2>4 DEF Crypto!Finish
  <2>6. solved => data \in CryptoFinishes
    BY <1>0 DEF CryptoFinishes, CryptoRevealed, Crypto!Right
  <2> HIDE DEF solved, data
  <2>7. /\ state' = next /\ ended' = solved /\ sent' \in Seq(CryptoFinishes)
        /\ solved => sent' # <<>> /\ Last(sent') = data
    <3>1. ended = FALSE /\ sent \in Seq(CryptoFinishes) /\ solved \in BOOLEAN
      BY <1>0, <2>2
    <3>2. Shows(next, solved, data)
      BY <2>5
    <3> QED
      BY <2>6, <3>1, <3>2, Render
  <2>8. CryptoAsked(asked', state.guesses, Range(revealed))
    <3>1. asked' = RemoveAt(asked, i)
      BY <2>1 DEF Crypto!RemoveAt, RemoveAt
    <3> QED
      BY <3>1, CryptoAnswered
  <2>9. CryptoJudged(next, asked')
    <3>1. ~solved => next.lastCheckWrong = TRUE /\ state.guesses # Solution
      BY <2>3 DEF solved
    <3>2. solved => next.lastCheckWrong = FALSE /\ next.gameStatus = "won"
      BY <2>3
    <3> QED
      BY <1>0, <2>2, <2>3, <3>1, <3>2 DEF CryptoJudged
  <2>10. solved => state.guesses = Solution
    BY DEF solved
  <2> QED
    BY <1>0, <2>2, <2>3, <2>5, <2>7, <2>8, <2>9, <2>10 DEF CryptoInv, CryptoBoard
<1>6. CASE Crypto!GradeFailed
  <2>1. PICK i \in DOMAIN asked :
          Crypto!Plays([state EXCEPT !.gradeFailed = TRUE]) /\ asked' = Crypto!RemoveAt(asked, i)
    BY <1>6 DEF Crypto!GradeFailed
  <2> DEFINE next == [state EXCEPT !.gradeFailed = TRUE]
  <2>2. state' = next /\ ended' = ended /\ sent' = sent /\ asked' = RemoveAt(asked, i)
    BY <2>1 DEF Crypto!Plays, Crypto!RemoveAt, RemoveAt
  <2>3. /\ DOMAIN next = CryptoFields /\ next.guesses = state.guesses /\ next.revealedLetters = revealed
        /\ next.hintsUsed = state.hintsUsed /\ next.gameStatus = state.gameStatus
        /\ next.lastCheckWrong = state.lastCheckWrong /\ next.gradeFailed = TRUE
    BY <1>0 DEF CryptoFields
  <2> HIDE DEF next
  <2>4. CryptoAsked(asked', state.guesses, Range(revealed))
    BY <2>2, CryptoAnswered
  <2>5. CryptoJudged(next, asked')
    BY <1>0, <2>3 DEF CryptoJudged
  <2>6. Crypto!Finish(next) = Crypto!Finish(state)
    BY <2>3 DEF Crypto!Finish
  <2> QED
    BY <1>0, <2>2, <2>3, <2>4, <2>5, <2>6 DEF CryptoInv, CryptoBoard
<1>7. CASE Crypto!StartOver
  <2> DEFINE guesses == [e \in Crypto!Encrypted |-> Crypto!Blank]
             next == [guesses |-> guesses, hintsUsed |-> 0, revealedLetters |-> <<>>,
                      gameStatus |-> "playing", lastCheckWrong |-> FALSE, gradeFailed |-> state.gradeFailed]
  <2>1. state' = next /\ ended' = FALSE /\ sent' = sent /\ asked' = rest
    BY <1>7 DEF Crypto!StartOver, Crypto!CreateInitialState, rest
  <2>2. /\ ~Crypto!IsFullyFilled(guesses) /\ CryptoRevealed(guesses, <<>>, 0)
        /\ CryptoAsked(<<>>, guesses, Range(<<>>)) /\ Range(<<>>) = {}
    BY CryptoEmpty
  <2>4. /\ DOMAIN next = CryptoFields /\ next.guesses = guesses /\ next.revealedLetters = <<>>
        /\ next.hintsUsed = 0 /\ next.gameStatus = "playing"
        /\ next.lastCheckWrong = FALSE /\ next.gradeFailed = state.gradeFailed
    BY DEF CryptoFields
  <2> HIDE DEF next, guesses
  <2>6. CryptoAsked(rest, guesses, Range(<<>>))
    BY <1>r, <2>2 DEF CryptoAsked
  <2>7. CryptoJudged(next, rest)
    BY <1>0, <2>2, <2>4 DEF CryptoJudged
  <2> QED
    BY <1>0, <2>1, <2>2, <2>4, <2>6, <2>7 DEF CryptoInv, CryptoBoard
<1>8. CASE UNCHANGED boardVars
  BY <1>8 DEF boardVars, CryptoInv
<1> QED
  BY <1>1, <1>2, <1>3, <1>4, <1>5, <1>6, <1>7, <1>8 DEF Crypto!Next

(* use-cryptogram.ts: for any cipher and any number of hints, with checks  *)
(* and hints that come late, after a change or a reset, revealed letters   *)
(* are right and stay, what is said of the decoding is about the one shown,*)
(* and a right decoding is won unless it is, or could not be, checked.     *)
THEOREM CryptogramCorrect ==
    ASSUME CryptoPuzzle
    PROVE  Crypto!Init /\ [][Crypto!Next]_boardVars =>
               [](/\ Crypto!Legal /\ Crypto!Explained /\ Crypto!Finished
                  /\ \A i \in DOMAIN sent : Crypto!Right(sent[i]))
<1>1. Crypto!Init => CryptoInv
  <2> SUFFICES ASSUME Crypto!Init PROVE CryptoBoard(state, asked, ended, sent)
    BY DEF CryptoInv
  <2> DEFINE guesses == [e \in Crypto!Encrypted |-> Crypto!Blank]
             next == [guesses |-> guesses, hintsUsed |-> 0, revealedLetters |-> <<>>,
                      gameStatus |-> "playing", lastCheckWrong |-> FALSE, gradeFailed |-> FALSE]
  <2>1. state = next /\ ended = FALSE /\ sent = <<>> /\ asked = <<>>
    BY DEF Crypto!Init, Crypto!Starts, Crypto!CreateInitialState
  <2>2. /\ ~Crypto!IsFullyFilled(guesses) /\ CryptoRevealed(guesses, <<>>, 0)
        /\ CryptoAsked(<<>>, guesses, Range(<<>>)) /\ Range(<<>>) = {}
    BY CryptoEmpty
  <2>4. /\ DOMAIN next = CryptoFields /\ next.guesses = guesses /\ next.revealedLetters = <<>>
        /\ next.hintsUsed = 0 /\ next.gameStatus = "playing"
        /\ next.lastCheckWrong = FALSE /\ next.gradeFailed = FALSE
    BY DEF CryptoFields
  <2> HIDE DEF next, guesses
  <2>5. CryptoJudged(next, <<>>)
    BY <2>2, <2>4 DEF CryptoJudged
  <2>6. CryptoBoard(next, <<>>, FALSE, <<>>)
    BY <2>2, <2>4, <2>5 DEF CryptoBoard
  <2> QED
    BY <2>1, <2>6
<1>2. CryptoInv /\ [Crypto!Next]_boardVars => CryptoInv'
  BY CryptoStep
<1>3. CryptoInv => /\ Crypto!Legal /\ Crypto!Explained /\ Crypto!Finished
                   /\ \A i \in DOMAIN sent : Crypto!Right(sent[i])
  <2> SUFFICES ASSUME CryptoInv PROVE /\ Crypto!Legal /\ Crypto!Explained /\ Crypto!Finished
                                      /\ \A i \in DOMAIN sent : Crypto!Right(sent[i])
    OBVIOUS
  <2>1. /\ CryptoRevealed(state.guesses, state.revealedLetters, state.hintsUsed)
        /\ CryptoAsked(asked, state.guesses, Range(state.revealedLetters))
        /\ CryptoJudged(state, asked)
        /\ ended \in BOOLEAN /\ state.gameStatus = (IF ended THEN "won" ELSE "playing")
    BY DEF CryptoInv, CryptoBoard
  <2>2. Crypto!Legal
    BY <2>1 DEF CryptoRevealed, Crypto!Legal, Crypto!IsInjective, IsInjective, Crypto!Range, Range
  <2>3. Crypto!Explained
    <3>1. Len(asked) =< 2
      <4>1. asked \in Seq(CryptoRequests) /\ \A i \in DOMAIN asked : asked[i].kind \in {"check", "hint"}
        BY <2>1 DEF CryptoAsked, CryptoRequests
      <4>2. Len(asked) \in Nat /\ DOMAIN asked = 1..Len(asked)
        BY <4>1
      <4>3. ASSUME ~(Len(asked) =< 2) PROVE FALSE
        <5>1. 1 \in DOMAIN asked /\ 2 \in DOMAIN asked /\ 3 \in DOMAIN asked
          BY <4>2, <4>3
        <5> QED
          BY <2>1, <4>1, <5>1 DEF CryptoAsked
      <4> QED
        BY <4>3
    <3> QED
      BY <2>1, <3>1 DEF CryptoJudged, CryptoAsked, Crypto!Explained
  <2>4. Crypto!Finished
    <3>1. state.guesses = Solution => Crypto!IsFullyFilled(state.guesses)
      BY DEF CryptoPuzzle, Crypto!IsFullyFilled, Crypto!Range
    <3>2. ASSUME state.guesses = Solution, ~state.gradeFailed, Crypto!NoneAsked("check")
          PROVE  state.gameStatus = "won"
      BY <2>1, <3>1, <3>2 DEF CryptoJudged, Crypto!NoneAsked
    <3>3. state.gameStatus = "won" => ended /\ Last(sent) = Crypto!Finish(state)
      BY <2>1 DEF CryptoInv, CryptoBoard
    <3> QED
      BY <3>2, <3>3 DEF Crypto!Finished, Crypto!Last, Last
  <2>5. \A i \in DOMAIN sent : Crypto!Right(sent[i])
    BY DEF CryptoInv, CryptoBoard, CryptoFinishes
  <2> QED
    BY <2>2, <2>3, <2>4, <2>5
<1> QED
  BY <1>1, <1>2, <1>3, PTL

------------------------------------------------------------------------------
(* Quad Words.                                                             *)
CONSTANTS Answers, MaxAsked
Quad == INSTANCE QuadWords

QuadWord == {w \in Seq(Letters) : Len(w) = WORD_LENGTH}

QuadPuzzle ==
    /\ WORD_LENGTH \in Nat \ {0} /\ MAX_GUESSES \in Nat \ {0}
    /\ Quad!Boards # {}
    /\ \A b \in Quad!Boards : Answers[b] \in Seq(Letters) /\ Len(Answers[b]) = WORD_LENGTH

QuadFields == {"grading", "currentGuess", "guessHistory", "gameStatus", "boards", "keyboardStatus", "replay"}

QuadFinishes ==
    {f \in [status : {"won", "lost"}, guessHistory : Seq(QuadWord), solvedBoards : [Quad!Boards -> BOOLEAN]] : Quad!Right(f)}

QuadGrades(rows, answer) == [i \in DOMAIN rows |-> Quad!EvaluateGuess(rows[i], answer)]

Hits(history, answer) == {i \in DOMAIN history : history[i] = answer}
FirstHit(history, answer) == IF Hits(history, answer) = {} THEN 0 ELSE Quad!Min(Hits(history, answer))

(* What one board shows of the history.                                    *)
Shown(history, answer) ==
    LET first == FirstHit(history, answer)
        rows  == SubSeq(history, 1, IF first = 0 THEN Len(history) ELSE first)
    IN [guesses |-> rows, results |-> QuadGrades(rows, answer), solvedOnGuess |-> first]

Colours(letter, history) ==
    UNION {Quad!ColoursOf(letter, history, QuadGrades(history, Answers[b])) : b \in Quad!Boards}
Keys(history) == [l \in Letters |-> Quad!Best({"none"} \cup Colours(l, history))]

AllHit(history) == \A b \in Quad!Boards : Hits(history, Answers[b]) # {}

QuadStatus(history) ==
    IF AllHit(history) THEN "won" ELSE IF Len(history) >= MAX_GUESSES THEN "lost" ELSE "playing"

(* The rows, and what the boards, the keys and the status say of them.     *)
QuadRows(history, status, boards, keys) ==
    /\ history \in Seq(QuadWord) /\ Len(history) =< MAX_GUESSES
    /\ status = QuadStatus(history)
    /\ boards = [b \in Quad!Boards |-> Shown(history, Answers[b])]
    /\ keys = Keys(history)

QuadAsked(grading, status, requests) ==
    /\ grading \in BOOLEAN /\ requests \in Seq(QuadWord)
    /\ grading => requests # <<>> /\ status = "playing"

QuadBoard(s, requests, over, finishes) ==
    /\ DOMAIN s = QuadFields /\ s.currentGuess \in Seq(Letters)
    /\ QuadRows(s.guessHistory, s.gameStatus, s.boards, s.keyboardStatus)
    /\ QuadAsked(s.grading, s.gameStatus, requests)
    /\ s.replay \in BOOLEAN /\ over \in BOOLEAN /\ finishes \in Seq(QuadFinishes)
    /\ GivenOnce(s.gameStatus # "playing", s.replay, Quad!Finish(s), over, finishes)

QuadInv == QuadBoard(state, asked, ended, sent)

LEMMA QuadBest == \A S : Quad!Best(S) = Best(S)
  BY DEF Quad!Best, Quad!Rank, Best, Rank

LEMMA GradeColours ==
    ASSUME NEW w, NEW a PROVE \A i \in DOMAIN w : Quad!EvaluateGuess(w, a)[i] \in Statuses
  BY DEF Quad!EvaluateGuess, Statuses

(* A further row adds its own colours.                                     *)
LEMMA ColoursMore ==
    ASSUME NEW h \in Seq(QuadWord), NEW w \in QuadWord, NEW l
    PROVE  /\ Colours(l, h) \in SUBSET Statuses
           /\ Colours(l, Append(h, w)) =
                Colours(l, h) \cup UNION {Quad!ColoursOf(l, <<w>>, <<Quad!EvaluateGuess(w, Answers[b])>>) : b \in Quad!Boards}
<1> DEFINE more == Append(h, w)
           n == Len(h) + 1
           Of(row, a) == {Quad!EvaluateGuess(row, a)[j] : j \in {k \in DOMAIN row : row[k] = l}}
<1>1. /\ DOMAIN more = 1..n /\ DOMAIN h = 1..Len(h) /\ n \in Nat /\ Len(h) \in Nat /\ more[n] = w
      /\ \A i \in 1..Len(h) : more[i] = h[i]
  OBVIOUS
<1> HIDE DEF more, n
<1>2. DOMAIN <<w>> = {1} /\ <<w>>[1] = w
  OBVIOUS
<1>3. \A rows, a : Quad!ColoursOf(l, rows, QuadGrades(rows, a)) = UNION {Of(rows[i], a) : i \in DOMAIN rows}
  BY DEF Quad!ColoursOf, QuadGrades
<1>4. \A a : Quad!ColoursOf(l, <<w>>, <<Quad!EvaluateGuess(w, a)>>) = Of(w, a)
  <2> TAKE a
  <2>1. <<Quad!EvaluateGuess(w, a)>>[1] = Quad!EvaluateGuess(w, a)
    OBVIOUS
  <2> QED
    BY <1>2, <2>1 DEF Quad!ColoursOf
<1>5. \A row, a : Of(row, a) \in SUBSET Statuses
  BY GradeColours
<1> HIDE DEF Of
<1>6. \A rows : Colours(l, rows) = UNION {UNION {Of(rows[i], Answers[b]) : i \in DOMAIN rows} : b \in Quad!Boards}
  BY <1>3 DEF Colours
<1>7. Colours(l, h) \in SUBSET Statuses
  BY <1>5, <1>6
<1>8. \A a : UNION {Of(more[i], a) : i \in DOMAIN more} = (UNION {Of(h[i], a) : i \in DOMAIN h}) \cup Of(w, a)
  <2> TAKE a
  <2>1. \A i \in DOMAIN more : (i = n /\ more[i] = w) \/ (i \in DOMAIN h /\ more[i] = h[i])
    BY <1>1 DEF n
  <2>2. n \in DOMAIN more /\ \A i \in DOMAIN h : i \in DOMAIN more
    BY <1>1 DEF n
  <2>3. ASSUME NEW x \in UNION {Of(more[i], a) : i \in DOMAIN more}
        PROVE  x \in (UNION {Of(h[i], a) : i \in DOMAIN h}) \cup Of(w, a)
    BY <2>1
  <2>4. ASSUME NEW x \in Of(w, a) PROVE x \in UNION {Of(more[i], a) : i \in DOMAIN more}
    BY <1>1, <2>2
  <2>5. ASSUME NEW x \in UNION {Of(h[i], a) : i \in DOMAIN h} PROVE x \in UNION {Of(more[i], a) : i \in DOMAIN more}
    BY <1>1, <2>2
  <2> QED
    BY <2>3, <2>4, <2>5
<1>9. Colours(l, more) = Colours(l, h) \cup UNION {Of(w, Answers[b]) : b \in Quad!Boards}
  <2> DEFINE M(a) == UNION {Of(more[i], a) : i \in DOMAIN more}
             H(a) == UNION {Of(h[i], a) : i \in DOMAIN h}
             W(a) == Of(w, a)
  <2>1. \A a : M(a) = H(a) \cup W(a)
    BY <1>8
  <2>2. Colours(l, more) = UNION {M(Answers[b]) : b \in Quad!Boards} /\ Colours(l, h) = UNION {H(Answers[b]) : b \in Quad!Boards}
    BY <1>6
  <2> HIDE DEF M, H, W
  <2>3. UNION {M(Answers[b]) : b \in Quad!Boards}
          = (UNION {H(Answers[b]) : b \in Quad!Boards}) \cup (UNION {W(Answers[b]) : b \in Quad!Boards})
    BY <2>1
  <2> QED
    BY <2>2, <2>3 DEF W
<1> QED
  BY <1>4, <1>7, <1>9 DEF more

LEMMA KeysMore ==
    ASSUME NEW h \in Seq(QuadWord), NEW w \in QuadWord
    PROVE  Quad!UpdateKeyboardStatus(Keys(h), w, [b \in Quad!Boards |-> Quad!EvaluateGuess(w, Answers[b])]) = Keys(Append(h, w))
<1> DEFINE New(l) == UNION {Quad!ColoursOf(l, <<w>>, <<Quad!EvaluateGuess(w, Answers[b])>>) : b \in Quad!Boards}
<1>1. \A l \in Letters : /\ Colours(l, h) \in SUBSET Statuses /\ Colours(l, Append(h, w)) = Colours(l, h) \cup New(l)
                         /\ Colours(l, Append(h, w)) \in SUBSET Statuses
  <2>1. Append(h, w) \in Seq(QuadWord)
    OBVIOUS
  <2>2. \A l \in Letters : Colours(l, Append(h, w)) \in SUBSET Statuses
    BY <2>1, ColoursMore
  <2> QED
    BY <2>2, ColoursMore
<1>2. Quad!UpdateKeyboardStatus(Keys(h), w, [b \in Quad!Boards |-> Quad!EvaluateGuess(w, Answers[b])])
        = [l \in Letters |-> Quad!Best({Keys(h)[l]} \cup New(l))]
  BY DEF Quad!UpdateKeyboardStatus
<1> HIDE DEF New
<1>3. ASSUME NEW l \in Letters PROVE Quad!Best({Keys(h)[l]} \cup New(l)) = Keys(Append(h, w))[l]
  <2> DEFINE A == {"none"} \cup Colours(l, h)
  <2>1. A \in SUBSET Statuses /\ A # {} /\ New(l) \in SUBSET Statuses
    BY <1>1 DEF Statuses
  <2>2. A \cup New(l) = {"none"} \cup Colours(l, Append(h, w))
    BY <1>1
  <2>3. Keys(h)[l] = Quad!Best(A) /\ Keys(Append(h, w))[l] = Quad!Best(A \cup New(l))
    BY <2>2 DEF Keys
  <2> HIDE DEF A
  <2> QED
    BY <2>1, <2>3, BestMore, QuadBest
<1> QED
  BY <1>2, <1>3 DEF Keys

LEMMA MinIs == ASSUME NEW S \in SUBSET Nat, NEW m \in S, \A y \in S : m =< y PROVE Quad!Min(S) = m
<1>1. \A x \in S : (\A y \in S : x =< y) => x = m
  OBVIOUS
<1> QED
  BY <1>1 DEF Quad!Min

LEMMA HitMore ==
    ASSUME NEW h \in Seq(QuadWord), NEW w \in QuadWord, NEW a
    PROVE  /\ FirstHit(h, a) \in 0..Len(h)
           /\ FirstHit(h, a) = 0 <=> Hits(h, a) = {}
           /\ Hits(h, a) # {} => FirstHit(h, a) \in Hits(h, a)
           /\ FirstHit(Append(h, w), a) = IF FirstHit(h, a) # 0 THEN FirstHit(h, a) ELSE IF w = a THEN Len(h) + 1 ELSE 0
           /\ Hits(Append(h, w), a) = Hits(h, a) \cup (IF w = a THEN {Len(h) + 1} ELSE {})
<1> DEFINE more == Append(h, w)
           n == Len(h) + 1
<1>1. /\ DOMAIN more = 1..n /\ DOMAIN h = 1..Len(h) /\ Len(h) \in Nat /\ more[n] = w
      /\ \A i \in 1..Len(h) : more[i] = h[i]
  OBVIOUS
<1> HIDE DEF more
<1>2. Hits(h, a) \in SUBSET (1..Len(h))
  BY <1>1 DEF Hits
<1>3. Hits(more, a) = Hits(h, a) \cup (IF w = a THEN {n} ELSE {})
  BY <1>1 DEF Hits
<1>4. CASE Hits(h, a) # {}
  <2> DEFINE P == Hits(h, a)
             Q == Hits(more, a)
  <2>1. P \in SUBSET Nat /\ P # {}
    BY <1>1, <1>2, <1>4
  <2>2. PICK m \in P : \A y \in P : m =< y
    <3> HIDE DEF P
    <3> QED
      BY <2>1, Smallest
  <2>3. m \in Nat /\ m \in 1..Len(h) /\ m < n
    BY <1>1, <1>2, <2>2
  <2>4. Q \in SUBSET Nat /\ m \in Q /\ \A y \in Q : m =< y
    BY <1>1, <1>2, <1>3, <2>2, <2>3
  <2> HIDE DEF P, Q
  <2>6. Quad!Min(P) = m /\ Quad!Min(Q) = m
    BY <2>1, <2>2, <2>4, MinIs
  <2>7. FirstHit(h, a) = m /\ FirstHit(more, a) = m
    BY <1>4, <2>4, <2>6 DEF FirstHit, P, Q
  <2> QED
    BY <1>1, <1>3, <1>4, <2>2, <2>3, <2>7 DEF P, more
<1>5. CASE Hits(h, a) = {}
  <2>1. FirstHit(h, a) = 0
    BY <1>5 DEF FirstHit
  <2>2. CASE w = a
    <3>1. Hits(more, a) = {n}
      BY <1>3, <1>5, <2>2
    <3>2. Quad!Min({n}) = n
      BY <1>1 DEF Quad!Min
    <3>3. FirstHit(more, a) = n
      BY <3>1, <3>2 DEF FirstHit
    <3> QED
      BY <1>1, <1>3, <1>5, <2>1, <2>2, <3>3 DEF more
  <2>3. CASE w # a
    <3>1. FirstHit(more, a) = 0
      BY <1>3, <1>5, <2>3 DEF FirstHit
    <3> QED
      BY <1>1, <1>3, <1>5, <2>1, <2>3, <3>1 DEF more
  <2> QED
    BY <2>2, <2>3
<1> QED
  BY <1>4, <1>5

(* Every tile is green for the board's word, and for no other.             *)
LEMMA OnlyTheWord ==
    ASSUME QuadPuzzle, NEW w \in QuadWord, NEW b \in Quad!Boards
    PROVE  Quad!AllCorrect(Quad!EvaluateGuess(w, Answers[b])) <=> w = Answers[b]
<1> DEFINE a == Answers[b]
           tiles == Quad!EvaluateGuess(w, a)
<1>1. /\ DOMAIN w = 1..WORD_LENGTH /\ DOMAIN a = 1..WORD_LENGTH /\ w \in Seq(Letters) /\ a \in Seq(Letters)
      /\ Len(w) = WORD_LENGTH /\ Len(a) = WORD_LENGTH
  BY DEF QuadWord, QuadPuzzle
<1> HIDE DEF a
<1>2. DOMAIN tiles = 1..WORD_LENGTH /\ \A i \in 1..WORD_LENGTH : tiles[i] = "correct" <=> w[i] = a[i]
  BY <1>1 DEF Quad!EvaluateGuess
<1> HIDE DEF tiles
<1>3. Quad!AllCorrect(tiles) <=> \A i \in 1..WORD_LENGTH : w[i] = a[i]
  BY <1>2 DEF Quad!AllCorrect
<1>4. (\A i \in 1..WORD_LENGTH : w[i] = a[i]) <=> w = a
  BY <1>1
<1> QED
  BY <1>3, <1>4 DEF tiles, a

LEMMA ShownMore ==
    ASSUME QuadPuzzle, NEW h \in Seq(QuadWord), NEW w \in QuadWord, NEW b \in Quad!Boards
    PROVE  Quad!UpdateBoard(Shown(h, Answers[b]), w, Quad!EvaluateGuess(w, Answers[b]), Len(h) + 1)
             = Shown(Append(h, w), Answers[b])
<1> DEFINE a == Answers[b]
           more == Append(h, w)
           first == FirstHit(h, a)
           then == FirstHit(more, a)
           grade == Quad!EvaluateGuess(w, a)
<1>1. /\ first \in 0..Len(h) /\ then = IF first # 0 THEN first ELSE IF w = a THEN Len(h) + 1 ELSE 0
  BY HitMore
<1>2. Quad!AllCorrect(grade) <=> w = a
  BY OnlyTheWord
<1>3. /\ more \in Seq(QuadWord) /\ Len(more) = Len(h) + 1 /\ more[Len(h) + 1] = w
      /\ DOMAIN more = 1..(Len(h) + 1) /\ DOMAIN h = 1..Len(h) /\ Len(h) \in Nat
      /\ \A i \in 1..Len(h) : more[i] = h[i]
  OBVIOUS
<1>4. Shown(h, a).solvedOnGuess = first
  BY DEF Shown
<1> HIDE DEF first, then, grade, a
<1>5. CASE first # 0
  <2>1. SubSeq(more, 1, first) = SubSeq(h, 1, first)
    <3>1. first \in 1..Len(h)
      BY <1>1, <1>5
    <3> HIDE DEF more
    <3>2. SubSeq(more, 1, first) = [i \in 1..first |-> more[i]] /\ SubSeq(h, 1, first) = [i \in 1..first |-> h[i]]
      BY <1>3, <3>1
    <3>3. \A i \in 1..first : more[i] = h[i]
      BY <1>3, <3>1
    <3> QED
      BY <3>2, <3>3
  <2>2. then = first
    BY <1>1, <1>5
  <2>3. Shown(more, a) = Shown(h, a)
    BY <1>5, <2>1, <2>2 DEF Shown, first, then
  <2> QED
    BY <1>4, <1>5, <2>3 DEF Quad!UpdateBoard, a
<1>6. CASE first = 0
  <2> DEFINE s == Shown(h, a)
  <2>1. SubSeq(h, 1, Len(h)) = h /\ SubSeq(more, 1, Len(more)) = more
    <3> HIDE DEF more
    <3> QED
      BY <1>3
  <2>2. s = [guesses |-> h, results |-> QuadGrades(h, a), solvedOnGuess |-> 0]
    BY <1>6, <2>1 DEF Shown, first
  <2>3. then = IF w = a THEN Len(h) + 1 ELSE 0
    BY <1>1, <1>6
  <2>4. Shown(more, a) = [guesses |-> more, results |-> QuadGrades(more, a), solvedOnGuess |-> then]
    <3>1. SubSeq(more, 1, IF then = 0 THEN Len(more) ELSE then) = more
      <4> HIDE DEF more
      <4> QED
        BY <1>3, <2>1, <2>3
    <3> QED
      BY <3>1 DEF Shown, then
  <2>5. QuadGrades(more, a) = Append(QuadGrades(h, a), grade)
    <3> HIDE DEF more
    <3>1. QuadGrades(h, a) \in Seq({Quad!EvaluateGuess(v, a) : v \in QuadWord}) /\ Len(QuadGrades(h, a)) = Len(h)
      BY <1>3 DEF QuadGrades
    <3> QED
      BY <1>3, <3>1 DEF QuadGrades, grade
  <2>6. Quad!UpdateBoard(s, w, grade, Len(h) + 1)
          = [guesses |-> Append(s.guesses, w), results |-> Append(s.results, grade),
             solvedOnGuess |-> IF Quad!AllCorrect(grade) THEN Len(h) + 1 ELSE 0]
    BY <1>4, <1>6 DEF Quad!UpdateBoard
  <2> HIDE DEF s
  <2>7. s.guesses = h /\ s.results = QuadGrades(h, a)
    BY <2>2
  <2> QED
    BY <1>2, <2>3, <2>4, <2>5, <2>6, <2>7 DEF s, a, grade
<1> QED
  BY <1>5, <1>6

LEMMA QuadStart ==
    ASSUME QuadPuzzle
    PROVE  \A requests \in Seq(QuadWord), again \in BOOLEAN, finishes \in Seq(QuadFinishes) : \A s :
             /\ Len(finishes) = IF again THEN 1 ELSE 0
             /\ \/ s = Quad!CreateInitialState /\ again = FALSE
                \/ s = [Quad!CreateInitialState EXCEPT !.replay = again]
             => QuadBoard(s, requests, again, finishes)
<1>1. \A a : Hits(<<>>, a) = {}
  BY DEF Hits
<1>2. \A a : FirstHit(<<>>, a) = 0
  BY <1>1 DEF FirstHit
<1>3. \A a : Shown(<<>>, a) = [guesses |-> <<>>, results |-> <<>>, solvedOnGuess |-> 0]
  <2> TAKE a
  <2>1. SubSeq(<<>>, 1, 0) = <<>> /\ QuadGrades(<<>>, a) = <<>> /\ Len(<<>>) = 0
    BY DEF QuadGrades
  <2> QED
    BY <1>2, <2>1 DEF Shown
<1>4. Keys(<<>>) = [l \in Letters |-> "none"]
  <2>1. \A l : Colours(l, <<>>) = {}
    BY DEF Colours, Quad!ColoursOf
  <2>2. \A l : Quad!Best({"none"} \cup Colours(l, <<>>)) = "none"
    <3>1. {"none"} \in SUBSET Statuses /\ {"none"} \cup {} = {"none"}
      BY DEF Statuses
    <3>2. Quad!Best({"none"}) = "none"
      BY <3>1, BestOf, QuadBest
    <3> QED
      BY <2>1, <3>1, <3>2
  <2> QED
    BY <2>2 DEF Keys
<1>5. QuadStatus(<<>>) = "playing"
  BY <1>1 DEF QuadStatus, AllHit, QuadPuzzle
<1>6. <<>> \in Seq(QuadWord) /\ <<>> \in Seq(Letters) /\ Len(<<>>) =< MAX_GUESSES
  BY DEF QuadPuzzle
<1> DEFINE first == [grading |-> FALSE, currentGuess |-> <<>>, guessHistory |-> <<>>, gameStatus |-> "playing",
                     boards |-> [b \in Quad!Boards |-> [guesses |-> <<>>, results |-> <<>>, solvedOnGuess |-> 0]],
                     keyboardStatus |-> [l \in Letters |-> "none"], replay |-> FALSE]
<1>7. Quad!CreateInitialState = first
  BY DEF Quad!CreateInitialState
<1>8. /\ DOMAIN first = QuadFields /\ first.replay = FALSE /\ first.grading = FALSE
      /\ first.currentGuess = <<>> /\ first.guessHistory = <<>> /\ first.gameStatus = "playing"
      /\ first.boards = [b \in Quad!Boards |-> Shown(<<>>, Answers[b])] /\ first.keyboardStatus = Keys(<<>>)
  BY <1>3, <1>4 DEF QuadFields
<1> HIDE DEF first
<1> SUFFICES ASSUME NEW requests \in Seq(QuadWord), NEW again \in BOOLEAN, NEW finishes \in Seq(QuadFinishes),
                    Len(finishes) = IF again THEN 1 ELSE 0, NEW s,
                    (s = first /\ again = FALSE) \/ s = [first EXCEPT !.replay = again]
             PROVE  QuadBoard(s, requests, again, finishes)
  BY <1>7
<1>9. /\ DOMAIN s = QuadFields /\ s.replay = again /\ s.grading = FALSE
      /\ s.currentGuess = <<>> /\ s.guessHistory = <<>> /\ s.gameStatus = "playing"
      /\ s.boards = [b \in Quad!Boards |-> Shown(<<>>, Answers[b])] /\ s.keyboardStatus = Keys(<<>>)
  BY <1>8 DEF QuadFields
<1>10. QuadRows(s.guessHistory, s.gameStatus, s.boards, s.keyboardStatus)
  BY <1>5, <1>6, <1>9 DEF QuadRows
<1>11. QuadAsked(s.grading, s.gameStatus, requests)
  BY <1>9 DEF QuadAsked
<1>12. GivenOnce(s.gameStatus # "playing", s.replay, Quad!Finish(s), again, finishes)
  BY <1>9 DEF GivenOnce
<1> QED
  BY <1>6, <1>9, <1>10, <1>11, <1>12 DEF QuadBoard

LEMMA QuadStep == QuadPuzzle /\ QuadInv /\ [Quad!Next]_boardVars => QuadInv'
<1> SUFFICES ASSUME QuadPuzzle, QuadInv, [Quad!Next]_boardVars PROVE QuadBoard(state', asked', ended', sent')
  BY DEF QuadInv
<1> DEFINE h == state.guessHistory
<1>0. /\ DOMAIN state = QuadFields /\ state.currentGuess \in Seq(Letters)
      /\ QuadRows(h, state.gameStatus, state.boards, state.keyboardStatus)
      /\ QuadAsked(state.grading, state.gameStatus, asked)
      /\ state.replay \in BOOLEAN /\ ended \in BOOLEAN /\ sent \in Seq(QuadFinishes)
      /\ GivenOnce(state.gameStatus # "playing", state.replay, Quad!Finish(state), ended, sent)
  BY DEF QuadInv, QuadBoard
<1>a. /\ asked \in Seq(QuadWord) /\ state.grading \in BOOLEAN
      /\ state.grading => asked # <<>> /\ state.gameStatus = "playing"
  BY <1>0 DEF QuadAsked
<1>h. /\ h \in Seq(QuadWord) /\ Len(h) =< MAX_GUESSES /\ state.gameStatus = QuadStatus(h)
      /\ state.boards = [b \in Quad!Boards |-> Shown(h, Answers[b])] /\ state.keyboardStatus = Keys(h)
  BY <1>0 DEF QuadRows
<1>1. CASE Quad!AddLetter
  <2>1. PICK l \in Letters : Quad!Plays([state EXCEPT !.currentGuess = Append(state.currentGuess, l)])
    BY <1>1 DEF Quad!AddLetter
  <2> DEFINE more == Append(state.currentGuess, l)
             next == [state EXCEPT !.currentGuess = more]
  <2>2. state' = next /\ UNCHANGED <<asked, ended, sent>>
    BY <1>1, <2>1 DEF Quad!AddLetter, Quad!Plays, Quad!NoAnswerPending
  <2>3. more \in Seq(Letters)
    BY <1>0
  <2> HIDE DEF more
  <2>4. /\ DOMAIN next = QuadFields /\ next.currentGuess = more /\ next.grading = state.grading
        /\ next.guessHistory = h /\ next.gameStatus = state.gameStatus /\ next.boards = state.boards
        /\ next.keyboardStatus = state.keyboardStatus /\ next.replay = state.replay
    BY <1>0 DEF QuadFields
  <2> HIDE DEF next
  <2>5. QuadBoard(next, asked, ended, sent)
    BY <1>0, <2>3, <2>4 DEF QuadBoard, Quad!Finish
  <2> QED
    BY <2>2, <2>5
<1>2. CASE Quad!DeleteLetter
  <2> DEFINE less == Quad!Front(state.currentGuess)
             next == [state EXCEPT !.currentGuess = less]
  <2>1. state' = next /\ UNCHANGED <<asked, ended, sent>> /\ state.currentGuess # <<>>
    BY <1>2 DEF Quad!DeleteLetter, Quad!Plays, Quad!NoAnswerPending
  <2>2. less \in Seq(Letters)
    BY <1>0, <2>1 DEF Quad!Front
  <2> HIDE DEF less
  <2>3. /\ DOMAIN next = QuadFields /\ next.currentGuess = less /\ next.grading = state.grading
        /\ next.guessHistory = h /\ next.gameStatus = state.gameStatus /\ next.boards = state.boards
        /\ next.keyboardStatus = state.keyboardStatus /\ next.replay = state.replay
    BY <1>0 DEF QuadFields
  <2> HIDE DEF next
  <2>4. QuadBoard(next, asked, ended, sent)
    BY <1>0, <2>2, <2>3 DEF QuadBoard, Quad!Finish
  <2> QED
    BY <2>1, <2>4
<1>3. CASE Quad!SubmitGuess
  <2> DEFINE next == [state EXCEPT !.grading = TRUE]
             guess == state.currentGuess
  <2>1. /\ state' = next /\ UNCHANGED <<ended, sent>> /\ asked' = Append(asked, guess)
        /\ state.gameStatus = "playing" /\ Len(guess) = WORD_LENGTH
    BY <1>3 DEF Quad!SubmitGuess, Quad!Plays, Quad!Typing
  <2>2. guess \in QuadWord
    BY <1>0, <2>1 DEF QuadWord
  <2>3. /\ DOMAIN next = QuadFields /\ next.currentGuess = guess /\ next.grading = TRUE
        /\ next.guessHistory = h /\ next.gameStatus = state.gameStatus /\ next.boards = state.boards
        /\ next.keyboardStatus = state.keyboardStatus /\ next.replay = state.replay
    BY <1>0 DEF QuadFields
  <2> HIDE DEF next, guess
  <2>4. asked' \in Seq(QuadWord) /\ asked' # <<>>
    BY <1>a, <2>1, <2>2
  <2>5. QuadAsked(TRUE, state.gameStatus, asked')
    BY <2>1, <2>4 DEF QuadAsked
  <2>6. guess \in Seq(Letters)
    BY <1>0 DEF guess
  <2>7. QuadBoard(next, asked', ended, sent)
    BY <1>0, <2>3, <2>5, <2>6 DEF QuadBoard, Quad!Finish
  <2> QED
    BY <2>1, <2>7
<1>4. CASE Quad!ApplyGuess
  <2>1. PICK i \in DOMAIN asked :
          LET guess   == asked[i]
              results == [b \in Quad!Boards |-> Quad!EvaluateGuess(guess, Answers[b])]
              number  == Len(state.guessHistory) + 1
              boards  == [b \in Quad!Boards |-> Quad!UpdateBoard(state.boards[b], guess, results[b], number)]
              status  == IF Quad!AllBoardsSolved(boards) THEN "won"
                         ELSE IF number >= MAX_GUESSES THEN "lost" ELSE "playing"
              next    == [state EXCEPT
                            !.grading = FALSE, !.currentGuess = <<>>, !.boards = boards,
                            !.guessHistory = Append(@, guess), !.gameStatus = status,
                            !.keyboardStatus = Quad!UpdateKeyboardStatus(@, guess, results)]
          IN /\ state.gameStatus = "playing"
             /\ Quad!Shows(next, status # "playing", Quad!Finish(next))
             /\ Quad!Answered(i)
    BY <1>4 DEF Quad!ApplyGuess
  <2> DEFINE w == asked[i]
             more == Append(h, w)
             boards == [b \in Quad!Boards |-> Shown(more, Answers[b])]
             status == QuadStatus(more)
             keys == Keys(more)
             next == [state EXCEPT !.grading = FALSE, !.currentGuess = <<>>, !.boards = boards,
                                   !.guessHistory = more, !.gameStatus = status, !.keyboardStatus = keys]
             hits == [b \in Quad!Boards |-> Hits(more, Answers[b]) # {}]
             data == [status |-> status, guessHistory |-> more, solvedBoards |-> hits]
             over == status # "playing"
  <2>2. w \in QuadWord
    BY <1>a
  <2>3. boards = [b \in Quad!Boards |->
                    Quad!UpdateBoard(state.boards[b], w, Quad!EvaluateGuess(w, Answers[b]), Len(h) + 1)]
    <3>1. ASSUME NEW b \in Quad!Boards
          PROVE  Quad!UpdateBoard(state.boards[b], w, Quad!EvaluateGuess(w, Answers[b]), Len(h) + 1) = Shown(more, Answers[b])
      <4>1. state.boards[b] = Shown(h, Answers[b])
        BY <1>h
      <4> QED
        BY <1>h, <2>2, <4>1, ShownMore
    <3> QED
      BY <3>1
  <2>4. keys = Quad!UpdateKeyboardStatus(state.keyboardStatus, w, [b \in Quad!Boards |-> Quad!EvaluateGuess(w, Answers[b])])
    BY <1>h, <2>2, KeysMore
  <2>5. more \in Seq(QuadWord) /\ Len(more) = Len(h) + 1 /\ Len(h) \in Nat
    BY <1>h, <2>2
  <2>6. \A b \in Quad!Boards : boards[b].solvedOnGuess # 0 <=> Hits(more, Answers[b]) # {}
    <3> TAKE b \in Quad!Boards
    <3>1. boards[b].solvedOnGuess = FirstHit(more, Answers[b])
      BY DEF Shown
    <3>2. FirstHit(more, Answers[b]) = 0 <=> Hits(more, Answers[b]) = {}
      <4> HIDE DEF more
      <4> QED
        BY <2>2, <2>5, HitMore
    <3> QED
      BY <3>1, <3>2
  <2>7. status = IF Quad!AllBoardsSolved(boards) THEN "won" ELSE IF Len(h) + 1 >= MAX_GUESSES THEN "lost" ELSE "playing"
    <3> HIDE DEF boards, more
    <3>1. Quad!AllBoardsSolved(boards) <=> AllHit(more)
      BY <2>6 DEF Quad!AllBoardsSolved, AllHit
    <3> QED
      BY <2>5, <3>1 DEF QuadStatus
  <2>8. /\ state.gameStatus = "playing" /\ Quad!Shows(next, over, Quad!Finish(next))
        /\ asked' = RemoveAt(asked, i)
    <3> DEFINE results == [b \in Quad!Boards |-> Quad!EvaluateGuess(w, Answers[b])]
    <3>1. boards = [b \in Quad!Boards |-> Quad!UpdateBoard(state.boards[b], w, results[b], Len(state.guessHistory) + 1)]
      BY <2>3
    <3> QED
      BY <2>1, <2>4, <2>7, <3>1 DEF Quad!Answered, Quad!RemoveAt, RemoveAt
  <2> HIDE DEF boards, more, status, keys
  <2>9. /\ DOMAIN next = QuadFields /\ next.currentGuess = <<>> /\ next.grading = FALSE
        /\ next.guessHistory = more /\ next.gameStatus = status /\ next.boards = boards
        /\ next.keyboardStatus = keys /\ next.replay = state.replay
    BY <1>0 DEF QuadFields
  <2> HIDE DEF next
  <2>10. Quad!Finish(next) = data
    BY <2>6, <2>9 DEF Quad!Finish
  <2>11. Len(more) =< MAX_GUESSES
    <3>1. ~(Len(h) >= MAX_GUESSES)
      BY <1>h, <2>8 DEF QuadStatus
    <3> QED
      BY <2>5, <3>1 DEF QuadPuzzle
  <2>12. over => data \in QuadFinishes
    <3> SUFFICES ASSUME over PROVE Quad!Right(data)
      <4>1. status \in {"won", "lost", "playing"}
        BY DEF status, QuadStatus
      <4>2. hits \in [Quad!Boards -> BOOLEAN]
        OBVIOUS
      <4> QED
        BY <2>5, <4>1, <4>2 DEF QuadFinishes
    <3>1. \A a : Hits(more, a) # {} <=> a \in Quad!Range(more)
      BY DEF Hits, Quad!Range
    <3>2. AllHit(more) <=> Quad!Range(Answers) \subseteq Quad!Range(more)
      BY <3>1 DEF AllHit, Quad!Range, Quad!Boards
    <3>3. status = "won" <=> AllHit(more)
      BY DEF status, QuadStatus
    <3>4. status = "lost" => Len(more) = MAX_GUESSES
      BY <2>5, <2>11 DEF status, QuadStatus, QuadPuzzle
    <3> QED
      BY <3>1, <3>2, <3>3, <3>4 DEF Quad!Right
  <2>13. /\ state' = next /\ ended' \in BOOLEAN /\ sent' \in Seq(QuadFinishes)
         /\ GivenOnce(over, state.replay, data, ended', sent')
    <3>1. Shows(next, over, data)
      BY <2>8, <2>10 DEF Quad!Shows, Shows
    <3>2. /\ state.replay \in BOOLEAN /\ ended = state.replay
          /\ Len(sent) = (IF ended THEN 1 ELSE 0) /\ sent \in Seq(QuadFinishes)
      BY <1>0, <2>8 DEF GivenOnce
    <3>3. over \in BOOLEAN
      OBVIOUS
    <3> HIDE DEF over, data
    <3> QED
      BY <2>12, <3>1, <3>2, <3>3, RenderAgain
  <2>14. asked' \in Seq(QuadWord)
    BY <1>a, <2>8, Removed
  <2>15. <<>> \in Seq(Letters)
    OBVIOUS
  <2>16. QuadRows(more, status, boards, keys)
    BY <2>5, <2>11 DEF QuadRows, boards, keys, status
  <2>17. QuadAsked(FALSE, status, asked')
    BY <2>14 DEF QuadAsked
  <2>18. GivenOnce(next.gameStatus # "playing", next.replay, Quad!Finish(next), ended', sent')
    BY <2>9, <2>10, <2>13
  <2>19. QuadBoard(next, asked', ended', sent')
    BY <1>0, <2>9, <2>13, <2>15, <2>16, <2>17, <2>18 DEF QuadBoard
  <2> QED
    BY <2>13, <2>19
<1>5. CASE Quad!ApplyTooLate
  <2>1. PICK i \in DOMAIN asked : asked' = RemoveAt(asked, i)
    BY <1>5 DEF Quad!ApplyTooLate, Quad!Answered, Quad!RemoveAt, RemoveAt
  <2>2. UNCHANGED <<state, ended, sent>> /\ state.gameStatus # "playing"
    BY <1>5 DEF Quad!ApplyTooLate
  <2>3. QuadAsked(state.grading, state.gameStatus, asked')
    BY <1>a, <2>1, <2>2, Removed DEF QuadAsked
  <2>4. QuadBoard(state, asked', ended, sent)
    BY <1>0, <2>3 DEF QuadBoard
  <2> QED
    BY <2>2, <2>4
<1>6. CASE Quad!GradeFailed
  <2>1. PICK i \in DOMAIN asked : Quad!Plays([state EXCEPT !.grading = FALSE]) /\ asked' = RemoveAt(asked, i)
    BY <1>6 DEF Quad!GradeFailed, Quad!Answered, Quad!RemoveAt, RemoveAt
  <2> DEFINE next == [state EXCEPT !.grading = FALSE]
  <2>2. state' = next /\ UNCHANGED <<ended, sent>>
    BY <2>1 DEF Quad!Plays
  <2>3. QuadAsked(FALSE, state.gameStatus, asked')
    BY <1>a, <2>1, Removed DEF QuadAsked
  <2>4. /\ DOMAIN next = QuadFields /\ next.currentGuess = state.currentGuess /\ next.grading = FALSE
        /\ next.guessHistory = h /\ next.gameStatus = state.gameStatus /\ next.boards = state.boards
        /\ next.keyboardStatus = state.keyboardStatus /\ next.replay = state.replay
    BY <1>0 DEF QuadFields
  <2> HIDE DEF next
  <2>5. QuadBoard(next, asked', ended, sent)
    BY <1>0, <2>3, <2>4 DEF QuadBoard, Quad!Finish
  <2> QED
    BY <2>2, <2>5
<1>7. CASE Quad!StartOver
  <2> DEFINE next == [Quad!CreateInitialState EXCEPT !.replay = ended]
  <2>1. state' = next /\ UNCHANGED <<asked, ended, sent>>
    BY <1>7 DEF Quad!StartOver, Quad!Replays, Quad!StartsOver, Quad!Plays
  <2>2. Len(sent) = IF ended THEN 1 ELSE 0
    BY <1>0 DEF GivenOnce
  <2>3. QuadBoard(next, asked, ended, sent)
    BY <1>0, <1>a, <2>2, QuadStart
  <2> QED
    BY <2>1, <2>3
<1>8. CASE UNCHANGED boardVars
  BY <1>8 DEF boardVars, QuadInv
<1> QED
  BY <1>1, <1>2, <1>3, <1>4, <1>5, <1>6, <1>7, <1>8 DEF Quad!Next

(* quad-words-game.tsx: any words and lengths, with grades that come after *)
(* a reset or a loss: every board is the history up to its own word, each  *)
(* key has the best colour its letter got on any board, the game is won    *)
(* when the last word is found, the first game that ends since the page    *)
(* was opened, and no other, is handed over, and a finish lists the words  *)
(* that were found.                                                        *)
THEOREM QuadWordsCorrect ==
    ASSUME QuadPuzzle
    PROVE  Quad!Init /\ [][Quad!Next]_boardVars =>
               [](/\ Quad!Legal /\ Quad!Explained /\ Quad!Finished
                  /\ \A i \in DOMAIN sent : Quad!Right(sent[i]))
<1>1. Quad!Init => QuadInv
  <2> SUFFICES ASSUME Quad!Init PROVE QuadInv
    OBVIOUS
  <2>1. state = Quad!CreateInitialState /\ asked = <<>> /\ ended = FALSE /\ sent = <<>>
    BY DEF Quad!Init, Quad!Starts
  <2>2. asked \in Seq(QuadWord) /\ sent \in Seq(QuadFinishes) /\ Len(sent) = IF FALSE THEN 1 ELSE 0
    BY <2>1
  <2>3. QuadBoard(state, asked, FALSE, sent)
    BY <2>1, <2>2, QuadStart
  <2> QED
    BY <2>1, <2>3 DEF QuadInv
<1>2. QuadInv /\ [Quad!Next]_boardVars => QuadInv'
  BY QuadStep
<1>3. QuadInv => /\ Quad!Legal /\ Quad!Explained /\ Quad!Finished
                 /\ \A i \in DOMAIN sent : Quad!Right(sent[i])
  <2> SUFFICES ASSUME QuadInv PROVE /\ Quad!Legal /\ Quad!Explained /\ Quad!Finished
                                    /\ \A i \in DOMAIN sent : Quad!Right(sent[i])
    OBVIOUS
  <2> DEFINE h == state.guessHistory
  <2>1. /\ h \in Seq(QuadWord) /\ state.gameStatus = QuadStatus(h)
        /\ state.boards = [b \in Quad!Boards |-> Shown(h, Answers[b])] /\ state.keyboardStatus = Keys(h)
    BY DEF QuadInv, QuadBoard, QuadRows
  <2>2. Quad!Legal
    <3>1. \A i \in DOMAIN h : Len(h[i]) = WORD_LENGTH
      BY <2>1 DEF QuadWord
    <3> QED
      BY <3>1 DEF QuadInv, QuadBoard, QuadRows, QuadAsked, Quad!Legal
  <2>3. Quad!Explained
    <3>1. ASSUME NEW b \in Quad!Boards
          PROVE  LET board  == state.boards[b]
                     solved == {i \in DOMAIN state.guessHistory : state.guessHistory[i] = Answers[b]}
                     rows   == SubSeq(state.guessHistory, 1,
                                      IF solved = {} THEN Len(state.guessHistory) ELSE Quad!Min(solved))
                 IN /\ board.guesses = rows
                    /\ board.results = [i \in DOMAIN rows |-> Quad!EvaluateGuess(rows[i], Answers[b])]
                    /\ board.solvedOnGuess = IF solved = {} THEN 0 ELSE Quad!Min(solved)
      <4> DEFINE solved == Hits(h, Answers[b])
                 rows == SubSeq(h, 1, IF solved = {} THEN Len(h) ELSE Quad!Min(solved))
      <4>1. solved # {} => Quad!Min(solved) # 0
        <5>1. FirstHit(h, Answers[b]) = 0 <=> solved = {}
          <6>1. CASE solved = {}
            BY <6>1 DEF FirstHit
          <6>2. CASE solved # {}
            <7>1. solved \in SUBSET Nat /\ \A x \in solved : x # 0
              BY <2>1 DEF Hits
            <7> HIDE DEF solved
            <7>2. \E x \in solved : \A y \in solved : x =< y
              BY <6>2, <7>1, Smallest
            <7>3. Quad!Min(solved) \in solved
              BY <7>2 DEF Quad!Min
            <7> QED
              BY <6>2, <7>1, <7>3 DEF FirstHit, solved
          <6> QED
            BY <6>1, <6>2
        <5> QED
          BY <5>1 DEF FirstHit
      <4>2. state.boards[b] = Shown(h, Answers[b])
        BY <2>1
      <4>3. Shown(h, Answers[b]) = [guesses |-> rows, results |-> QuadGrades(rows, Answers[b]),
                                    solvedOnGuess |-> IF solved = {} THEN 0 ELSE Quad!Min(solved)]
        BY <4>1 DEF Shown, FirstHit
      <4> HIDE DEF solved, rows
      <4>4. /\ state.boards[b].guesses = rows /\ state.boards[b].results = QuadGrades(rows, Answers[b])
            /\ state.boards[b].solvedOnGuess = IF solved = {} THEN 0 ELSE Quad!Min(solved)
        BY <4>2, <4>3
      <4> QED
        BY <4>4 DEF Hits, QuadGrades, solved, rows
    <3>2. state.keyboardStatus = [l \in Letters |-> Quad!Best({"none"} \cup
            UNION {Quad!ColoursOf(l, state.guessHistory,
                     [i \in DOMAIN state.guessHistory |-> Quad!EvaluateGuess(state.guessHistory[i], Answers[b])])
                     : b \in Quad!Boards})]
      BY <2>1 DEF Keys, Colours, QuadGrades
    <3> QED
      BY <3>1, <3>2 DEF Quad!Explained
  <2>4. Quad!Finished
    <3>1. Quad!Range(Answers) \subseteq Quad!Range(h) => AllHit(h)
      BY DEF AllHit, Hits, Quad!Range, Quad!Boards
    <3>2. Quad!Range(Answers) \subseteq Quad!Range(state.guessHistory) => state.gameStatus = "won"
      BY <2>1, <3>1 DEF QuadStatus
    <3>3. Quad!HandsOverTheFirst(state.gameStatus # "playing", state.replay, Quad!Finish(state))
      BY DEF QuadInv, QuadBoard, Quad!HandsOverTheFirst, GivenOnce
    <3> QED
      BY <3>2, <3>3 DEF Quad!Finished
  <2>5. \A i \in DOMAIN sent : Quad!Right(sent[i])
    BY DEF QuadInv, QuadBoard, QuadFinishes
  <2> QED
    BY <2>2, <2>3, <2>4, <2>5
<1> QED
  BY <1>1, <1>2, <1>3, PTL

------------------------------------------------------------------------------
(* Word Hive.                                                              *)
CONSTANTS CenterLetter, OuterLetters, WordList, Pangrams, MIN_WORD_LENGTH, MaxTyped
Hive == INSTANCE WordHive

HiveLetters == OuterLetters \cup {CenterLetter}

HivePuzzle == IsFiniteSet(WordList) /\ WordList # {} /\ \A w \in WordList : Len(w) \in Nat \ {0}

(* What each word counts.                                                  *)
HiveWorth(S) == [w \in S |-> Hive!CalculateWordScore(w)]

LEMMA WordsAreWorth ==
    ASSUME HivePuzzle, NEW S \in SUBSET WordList
    PROVE  /\ IsFiniteSet(S) /\ HiveWorth(S) \in [S -> Int]
           /\ \A w \in S : HiveWorth(S)[w] = Hive!CalculateWordScore(w) /\ HiveWorth(S)[w] > 0
<1>1. IsFiniteSet(S)
  BY FS_Subset DEF HivePuzzle
<1>2. ASSUME NEW w \in S PROVE Hive!CalculateWordScore(w) \in Int /\ Hive!CalculateWordScore(w) > 0
  <2>1. Len(w) \in Nat /\ Len(w) > 0
    BY DEF HivePuzzle
  <2> QED
    BY <2>1 DEF Hive!CalculateWordScore
<1> QED
  BY <1>1, <1>2 DEF HiveWorth

(* The score of a set of words is what its words are worth.                *)
LEMMA ScoreAdds ==
    ASSUME HivePuzzle, NEW S \in SUBSET WordList
    PROVE  \E F : Adds(F, S, HiveWorth(S)) /\ Hive!ScoreOf(S) = F[S]
<1> DEFINE Is(g) == g = [s \in SUBSET S |-> IF s = {} THEN 0
                                            ELSE g[s \ {Chosen(s)}] + Hive!CalculateWordScore(Chosen(s))]
           F == CHOOSE g : Is(g)
           d == HiveWorth(S)
<1>1. Hive!ScoreOf(S) = F[S]
  BY DEF Hive!ScoreOf, Hive!FoldSet, Hive!MapThenFoldSet, Chosen
<1>2. IsFiniteSet(S) /\ d \in [S -> Int] /\ \A w \in S : d[w] = Hive!CalculateWordScore(w)
  BY WordsAreWorth
<1> HIDE DEF d
<1>3. \A s \in SUBSET S : s # {} => Chosen(s) \in S /\ d[Chosen(s)] = Hive!CalculateWordScore(Chosen(s))
  BY <1>2 DEF Chosen
<1>4. \E g : Is(g)
  <2>1. PICK g : IsSum(g, S, d)
    BY <1>2, SumExists
  <2>2. g \in [SUBSET S -> Int] /\ \A s \in SUBSET S : g[s] = IF s = {} THEN 0 ELSE d[Chosen(s)] + g[s \ {Chosen(s)}]
    BY <2>1 DEF IsSum
  <2>3. ASSUME NEW s \in SUBSET S
        PROVE  g[s] = IF s = {} THEN 0 ELSE g[s \ {Chosen(s)}] + Hive!CalculateWordScore(Chosen(s))
    <3>1. CASE s = {}
      BY <2>2, <3>1
    <3>2. CASE s # {}
      <4>1. g[s] = d[Chosen(s)] + g[s \ {Chosen(s)}]
        BY <2>2, <3>2
      <4>2. d[Chosen(s)] \in Int /\ d[Chosen(s)] = Hive!CalculateWordScore(Chosen(s)) /\ g[s \ {Chosen(s)}] \in Int
        BY <1>2, <1>3, <2>2, <3>2
      <4>3. d[Chosen(s)] + g[s \ {Chosen(s)}] = g[s \ {Chosen(s)}] + d[Chosen(s)]
        BY <4>2
      <4> QED
        BY <3>2, <4>1, <4>2, <4>3
    <3> QED
      BY <3>1, <3>2
  <2>4. Is(g)
    BY <2>2, <2>3
  <2> QED
    BY <2>4
<1>5. Is(F)
  BY <1>4
<1> HIDE DEF F
<1>6. F[{}] = 0 /\ \A s \in SUBSET S : s # {} => F[s] = F[s \ {Chosen(s)}] + d[Chosen(s)]
  BY <1>3, <1>5
<1> HIDE DEF Is
<1>7. Adds(F, S, d)
  BY <1>2, <1>6, SumIsBackwards
<1> QED
  BY <1>1, <1>7 DEF d

(* A word more counts once.                                                *)
LEMMA ScoreMore ==
    ASSUME HivePuzzle, NEW S \in SUBSET WordList, NEW w \in WordList, w \notin S
    PROVE  Hive!ScoreOf(S \cup {w}) = Hive!ScoreOf(S) + Hive!CalculateWordScore(w)
<1> DEFINE T == S \cup {w}
<1>1. T \in SUBSET WordList /\ w \in T /\ T \ {w} = S /\ S \in SUBSET (T \cap S)
  OBVIOUS
<1> HIDE DEF T
<1>2. PICK F : Adds(F, T, HiveWorth(T)) /\ Hive!ScoreOf(T) = F[T]
  BY <1>1, ScoreAdds
<1>3. PICK G : Adds(G, S, HiveWorth(S)) /\ Hive!ScoreOf(S) = G[S]
  BY ScoreAdds
<1>4. F[T] = HiveWorth(T)[w] + F[S]
  BY <1>1, <1>2, AnyOrder
<1>5. F[S] = G[S]
  <2>1. \A x \in S : HiveWorth(T)[x] = HiveWorth(S)[x]
    BY <1>1, WordsAreWorth
  <2> QED
    BY <1>1, <1>2, <1>3, <2>1, SumsAgree
<1>6. HiveWorth(T)[w] = Hive!CalculateWordScore(w) /\ HiveWorth(T)[w] \in Int
  BY <1>1, WordsAreWorth
<1>7. G[S] \in Int
  BY <1>3 DEF Adds
<1>8. Hive!CalculateWordScore(w) + G[S] = G[S] + Hive!CalculateWordScore(w)
  BY <1>6, <1>7
<1> QED
  BY <1>2, <1>3, <1>4, <1>5, <1>6, <1>8 DEF T

LEMMA NoScore == ASSUME HivePuzzle PROVE Hive!ScoreOf({}) = 0
<1>1. PICK F : Adds(F, {}, HiveWorth({})) /\ Hive!ScoreOf({}) = F[{}]
  BY ScoreAdds
<1> QED
  BY <1>1 DEF Adds

(* Words still to find are worth something.                                *)
LEMMA ScoreLess ==
    ASSUME HivePuzzle, NEW S \in SUBSET WordList, S # WordList
    PROVE  Hive!ScoreOf(S) < Hive!MaxScore
<1> DEFINE T == WordList \ S
           Good == {u \in SUBSET T : Hive!ScoreOf(S \cup u) \in Int /\ (u # {} => Hive!ScoreOf(S) < Hive!ScoreOf(S \cup u))}
<1>1. \A A \in SUBSET WordList : Hive!ScoreOf(A) \in Int
  <2> SUFFICES ASSUME NEW A \in SUBSET WordList PROVE Hive!ScoreOf(A) \in Int
    OBVIOUS
  <2>1. PICK F : Adds(F, A, HiveWorth(A)) /\ Hive!ScoreOf(A) = F[A]
    BY ScoreAdds
  <2> QED
    BY <2>1 DEF Adds
<1>2. {} \in Good /\ Good \in SUBSET SUBSET T
  <2>1. S \cup {} = S
    OBVIOUS
  <2> QED
    BY <1>1, <2>1
<1>3. ASSUME NEW u \in SUBSET T, u # {}, \A x \in u : u \ {x} \in Good PROVE u \in Good
  <2>1. PICK x \in u : x \in WordList /\ x \notin S
    BY <1>3
  <2> DEFINE rest == S \cup (u \ {x})
  <2>2. rest \in SUBSET WordList /\ x \notin rest /\ rest \cup {x} = S \cup u
    BY <2>1
  <2>3. Hive!ScoreOf(rest) \in Int /\ Hive!ScoreOf(S) \in Int /\ Hive!ScoreOf(S) =< Hive!ScoreOf(rest)
    <3>1. u \ {x} \in Good
      BY <1>3, <2>1
    <3>2. CASE u \ {x} = {}
      <4>1. rest = S
        BY <3>2
      <4> QED
        BY <1>1, <4>1
    <3>3. CASE u \ {x} # {}
      <4>1. Hive!ScoreOf(S) < Hive!ScoreOf(rest)
        BY <3>1, <3>3
      <4>2. Hive!ScoreOf(rest) \in Int /\ Hive!ScoreOf(S) \in Int
        BY <1>1, <2>2
      <4> HIDE DEF rest
      <4> QED
        BY <4>1, <4>2
    <3> QED
      BY <3>2, <3>3
  <2> HIDE DEF rest
  <2>4. Hive!CalculateWordScore(x) \in Int /\ Hive!CalculateWordScore(x) > 0
    <3>1. {x} \in SUBSET WordList /\ x \in {x}
      BY <2>1
    <3> QED
      BY <3>1, WordsAreWorth
  <2>5. Hive!ScoreOf(S \cup u) = Hive!ScoreOf(rest) + Hive!CalculateWordScore(x)
    BY <2>1, <2>2, ScoreMore
  <2>6. Hive!ScoreOf(S) < Hive!ScoreOf(S \cup u) /\ Hive!ScoreOf(S \cup u) \in Int
    BY <2>3, <2>4, <2>5
  <2> QED
    BY <2>6
<1>4. IsFiniteSet(T) /\ T # {} /\ S \cup T = WordList
  BY FS_Subset DEF HivePuzzle
<1> HIDE DEF Good
<1>5. Good = SUBSET T
  <2> HIDE DEF T
  <2> QED
    BY <1>2, <1>3, <1>4, PartByPart
<1>6. T \in Good
  BY <1>5
<1> QED
  BY <1>4, <1>6 DEF Good, Hive!MaxScore

LEMMA ScoreBounds ==
    ASSUME HivePuzzle, NEW S \in SUBSET WordList
    PROVE  /\ Hive!ScoreOf(S) \in Nat /\ Hive!MaxScore \in Nat /\ Hive!MaxScore > 0
           /\ Hive!ScoreOf(S) =< Hive!MaxScore
           /\ Hive!ScoreOf(S) >= Hive!MaxScore <=> S = WordList
<1> DEFINE Good == {s \in SUBSET WordList : Hive!ScoreOf(s) \in Nat}
<1>1. {} \in Good /\ Good \in SUBSET SUBSET WordList
  BY NoScore
<1>2. ASSUME NEW u \in SUBSET WordList, u # {}, \A x \in u : u \ {x} \in Good PROVE u \in Good
  <2>1. PICK x \in u : x \in WordList
    BY <1>2
  <2> DEFINE rest == u \ {x}
  <2>2. rest \in SUBSET WordList /\ x \notin rest /\ rest \cup {x} = u /\ Hive!ScoreOf(rest) \in Nat
    BY <1>2, <2>1
  <2> HIDE DEF rest
  <2>3. Hive!CalculateWordScore(x) \in Int /\ Hive!CalculateWordScore(x) > 0
    <3>1. {x} \in SUBSET WordList /\ x \in {x}
      BY <2>1
    <3> QED
      BY <3>1, WordsAreWorth
  <2>4. Hive!ScoreOf(u) = Hive!ScoreOf(rest) + Hive!CalculateWordScore(x)
    BY <2>1, <2>2, ScoreMore
  <2>5. Hive!ScoreOf(u) \in Nat
    BY <2>2, <2>3, <2>4
  <2> QED
    BY <2>5
<1> HIDE DEF Good
<1>3. Good = SUBSET WordList
  <2>1. IsFiniteSet(WordList)
    BY DEF HivePuzzle
  <2> QED
    BY <1>1, <1>2, <2>1, PartByPart
<1>4. \A s \in SUBSET WordList : Hive!ScoreOf(s) \in Nat
  BY <1>3 DEF Good
<1>5. Hive!MaxScore \in Nat
  BY <1>4 DEF Hive!MaxScore
<1>6. Hive!MaxScore > 0
  <2>1. {} \in SUBSET WordList /\ {} # WordList
    BY DEF HivePuzzle
  <2>2. Hive!ScoreOf({}) < Hive!MaxScore
    BY <2>1, ScoreLess
  <2> QED
    BY <1>5, <2>2, NoScore
<1>7. CASE S = WordList
  <2>1. Hive!ScoreOf(S) = Hive!MaxScore
    BY <1>7 DEF Hive!MaxScore
  <2> QED
    BY <1>4, <1>5, <1>6, <1>7, <2>1
<1>8. CASE S # WordList
  <2>1. Hive!ScoreOf(S) < Hive!MaxScore
    BY <1>8, ScoreLess
  <2> QED
    BY <1>4, <1>5, <1>6, <1>8, <2>1
<1> QED
  BY <1>7, <1>8

(* Full marks are the queen bee; seven tenths are a genius, or the queen.  *)
LEMMA RankIs ==
    ASSUME NEW points \in Nat, Hive!MaxScore \in Nat, Hive!MaxScore > 0
    PROVE  /\ Hive!GetRankForScore(points) = "queen-bee" <=> points >= Hive!MaxScore
           /\ Hive!GetRankForScore(points) \in {"genius", "queen-bee"} <=> 10 * points >= 7 * Hive!MaxScore
<1> DEFINE m == Hive!MaxScore
           S == {r \in DOMAIN Hive!RANK_THRESHOLDS : points * 100 >= Hive!RANK_THRESHOLDS[r][2] * m}
           k == Hive!Max(S)
<1>1. DOMAIN Hive!RANK_THRESHOLDS = 1..10
  BY DEF Hive!RANK_THRESHOLDS
<1>2. /\ Hive!RANK_THRESHOLDS[1][2] = 0 /\ Hive!RANK_THRESHOLDS[9][2] = 70 /\ Hive!RANK_THRESHOLDS[10][2] = 100
      /\ Hive!RANK_THRESHOLDS[9][1] = "genius" /\ Hive!RANK_THRESHOLDS[10][1] = "queen-bee"
      /\ \A r \in 1..8 : Hive!RANK_THRESHOLDS[r][1] \notin {"genius", "queen-bee"}
  BY DEF Hive!RANK_THRESHOLDS
<1>3. m \in Nat /\ m > 0
  OBVIOUS
<1> HIDE DEF m
<1>4. /\ S \in SUBSET (1..10) /\ 1 \in S
      /\ 9 \in S <=> points * 100 >= 70 * m
      /\ 10 \in S <=> points * 100 >= 100 * m
  BY <1>1, <1>2, <1>3
<1>5. Hive!GetRankForScore(points) = Hive!RANK_THRESHOLDS[k][1]
  BY DEF Hive!GetRankForScore, m
<1> HIDE DEF S
<1>6. k \in S /\ \A r \in S : k >= r
  BY <1>4, GreatestOf DEF Hive!Max, Guess!Max
<1> HIDE DEF k
<1>7. k = 10 <=> points >= m
  BY <1>3, <1>4, <1>6
<1>8. k \in {9, 10} <=> 10 * points >= 7 * m
  BY <1>3, <1>4, <1>6
<1>9. k \in 1..8 \/ k = 9 \/ k = 10
  BY <1>4, <1>6
<1>10. Hive!RANK_THRESHOLDS[k][1] = "queen-bee" <=> k = 10
  BY <1>2, <1>9
<1>11. Hive!RANK_THRESHOLDS[k][1] \in {"genius", "queen-bee"} <=> k \in {9, 10}
  BY <1>2, <1>9
<1> QED
  BY <1>5, <1>7, <1>8, <1>10, <1>11 DEF m

HiveFound == {found \in Seq(WordList) : IsInjective(found)}
HiveFinishes == [status : {"won"}, foundWords : HiveFound]

(* The words of f are the first of the words found.                        *)
Begins(f, found) == Len(f) =< Len(found) /\ \A j \in 1..Len(f) : f[j] = found[j]

HiveBoard(s, over, finishes) ==
    /\ s \in [grading : BOOLEAN, currentWord : Seq(HiveLetters), foundWords : HiveFound, score : {s.score},
              totalWords : {s.totalWords}, gameStatus : {"playing", "won"}, rank : {s.rank}]
    /\ s.gameStatus = "won" <=> Range(s.foundWords) = WordList
    /\ over \in BOOLEAN /\ (s.gameStatus = "won" => over)
    /\ finishes \in Seq(HiveFinishes) /\ Len(finishes) = IF over THEN 1 ELSE 0
    /\ over => Begins(finishes[1].foundWords, s.foundWords)

HiveAsked(requests, s) ==
    /\ requests \in Seq(Seq(HiveLetters))
    /\ Len(requests) = IF s.grading THEN 1 ELSE 0

HiveScored(s, over, finishes) ==
    /\ s.score = Hive!ScoreOf(Range(s.foundWords))
    /\ s.rank = "queen-bee" <=> Range(s.foundWords) = WordList
    /\ 10 * s.score >= 7 * Hive!MaxScore => over
    /\ over => 10 * Hive!ScoreOf(Range(finishes[1].foundWords)) >= 7 * Hive!MaxScore

HiveInv == HiveBoard(state, ended, sent) /\ HiveAsked(asked, state) /\ HiveScored(state, ended, sent)

LEMMA FewerThan ==
    ASSUME NEW C, IsFiniteSet(C), NEW found \in Seq(C), IsInjective(found)
    PROVE  Len(found) =< Cardinality(C)
<1> DEFINE D == 1..Len(found)
<1>1. DOMAIN found = D /\ Len(found) \in Nat /\ found \in [D -> C]
  OBVIOUS
<1>2. IsFiniteSet(D) /\ Cardinality(D) = Len(found)
  BY <1>1, FS_Interval
<1> HIDE DEF D
<1>3. found \in Injection(D, C)
  BY <1>1 DEF Injection, IsInjective
<1> QED
  BY <1>2, <1>3, FS_Injection

LEMMA HiveFields ==
    ASSUME HiveInv
    PROVE  /\ state \in [grading : BOOLEAN, currentWord : Seq(HiveLetters), foundWords : HiveFound,
                         score : {state.score}, totalWords : {state.totalWords},
                         gameStatus : {"playing", "won"}, rank : {state.rank}]
           /\ state.gameStatus = "won" <=> Range(state.foundWords) = WordList
           /\ ended \in BOOLEAN /\ (state.gameStatus = "won" => ended)
           /\ sent \in Seq(HiveFinishes) /\ Len(sent) = IF ended THEN 1 ELSE 0
           /\ ended => Begins(sent[1].foundWords, state.foundWords)
           /\ asked \in Seq(Seq(HiveLetters)) /\ Len(asked) = IF state.grading THEN 1 ELSE 0
           /\ HiveScored(state, ended, sent)
  BY DEF HiveInv, HiveBoard, HiveAsked

LEMMA BeginsIsPrefix ==
    ASSUME NEW S, NEW f \in Seq(S), NEW found \in Seq(S), Begins(f, found)
    PROVE  Hive!IsPrefix(f, found)
<1> DEFINE a == SubSeq(f, 1, Len(f))
           b == SubSeq(found, 1, Len(f))
<1>1. Len(f) \in Nat /\ Len(found) \in Nat /\ Len(f) =< Len(found) /\ \A j \in 1..Len(f) : f[j] = found[j]
  BY DEF Begins
<1>2. a \in Seq(S) /\ Len(a) = Len(f) /\ \A j \in 1..Len(f) : a[j] = f[j]
  BY <1>1
<1>3. b \in Seq(S) /\ Len(b) = Len(f) /\ \A j \in 1..Len(f) : b[j] = found[j]
  BY <1>1
<1> HIDE DEF a, b
<1>4. a = b
  BY <1>1, <1>2, <1>3
<1> QED
  BY <1>1, <1>4 DEF Hive!IsPrefix, a, b

(* A typed letter, a request or its refusal: the words found stay.         *)
LEMMA HiveTypes ==
    ASSUME HiveInv, NEW s, state' = s, ended' = ended, sent' = sent, HiveAsked(asked', s),
           s \in [grading : BOOLEAN, currentWord : Seq(HiveLetters), foundWords : HiveFound,
                  score : {s.score}, totalWords : {s.totalWords}, gameStatus : {"playing", "won"}, rank : {s.rank}],
           s.foundWords = state.foundWords, s.gameStatus = state.gameStatus,
           s.score = state.score, s.rank = state.rank
    PROVE  HiveInv'
<1>1. HiveBoard(s, ended, sent) /\ HiveScored(s, ended, sent)
  BY HiveFields DEF HiveBoard, HiveScored
<1> QED
  BY <1>1 DEF HiveInv

(* A request answered: it was the only one.                                *)
LEMMA HiveAnswered ==
    ASSUME HiveInv, NEW i \in DOMAIN asked, asked' = Hive!RemoveAt(asked, i)
    PROVE  asked' \in Seq(Seq(HiveLetters)) /\ Len(asked') = 0 /\ state.grading = TRUE
<1>1. asked \in Seq(Seq(HiveLetters)) /\ Len(asked) = (IF state.grading THEN 1 ELSE 0) /\ state.grading \in BOOLEAN
  BY HiveFields
<1>2. state.grading = TRUE /\ Len(asked) = 1
  BY <1>1
<1>3. asked' = RemoveAt(asked, i)
  BY DEF Hive!RemoveAt, RemoveAt
<1>4. asked' \in Seq(Seq(HiveLetters)) /\ Len(asked') = Len(asked) - 1
  BY <1>1, <1>3, Removed
<1> QED
  BY <1>2, <1>4

LEMMA HiveStep == HivePuzzle /\ HiveInv /\ [Hive!Next]_boardVars => HiveInv'
<1> SUFFICES ASSUME HivePuzzle, HiveInv, [Hive!Next]_boardVars PROVE HiveInv'
  OBVIOUS
<1> DEFINE found == state.foundWords
<1>1. /\ state \in [grading : BOOLEAN, currentWord : Seq(HiveLetters), foundWords : HiveFound,
                    score : {state.score}, totalWords : {state.totalWords},
                    gameStatus : {"playing", "won"}, rank : {state.rank}]
      /\ state.gameStatus = "won" <=> Range(found) = WordList
      /\ ended \in BOOLEAN /\ (state.gameStatus = "won" => ended)
      /\ sent \in Seq(HiveFinishes) /\ Len(sent) = IF ended THEN 1 ELSE 0
      /\ ended => Begins(sent[1].foundWords, found)
      /\ asked \in Seq(Seq(HiveLetters)) /\ Len(asked) = IF state.grading THEN 1 ELSE 0
      /\ HiveScored(state, ended, sent)
  BY HiveFields
<1>2. CASE Hive!AddLetter
  <2>1. PICK l \in HiveLetters : state' = [state EXCEPT !.currentWord = Append(@, l)]
    BY <1>2 DEF Hive!AddLetter, Hive!Plays, HiveLetters
  <2>2. ended' = ended /\ sent' = sent /\ asked' = asked
    BY <1>2 DEF Hive!AddLetter, Hive!Plays, Hive!NoAnswerPending
  <2>3. Append(state.currentWord, l) \in Seq(HiveLetters)
    BY <1>1
  <2>4. /\ state' \in [grading : BOOLEAN, currentWord : Seq(HiveLetters), foundWords : HiveFound,
                       score : {state'.score}, totalWords : {state'.totalWords},
                       gameStatus : {"playing", "won"}, rank : {state'.rank}]
        /\ state'.foundWords = found /\ state'.gameStatus = state.gameStatus /\ state'.grading = state.grading
        /\ state'.score = state.score /\ state'.rank = state.rank
    BY <1>1, <2>1, <2>3
  <2>5. HiveAsked(asked', state')
    BY <1>1, <2>2, <2>4 DEF HiveAsked
  <2> QED
    BY <2>2, <2>4, <2>5, HiveTypes
<1>3. CASE Hive!DeleteLetter
  <2>1. state' = [state EXCEPT !.currentWord = Hive!Front(@)] /\ state.currentWord # <<>>
    BY <1>3 DEF Hive!DeleteLetter, Hive!Plays
  <2>2. ended' = ended /\ sent' = sent /\ asked' = asked
    BY <1>3 DEF Hive!DeleteLetter, Hive!Plays, Hive!NoAnswerPending
  <2>3. Hive!Front(state.currentWord) \in Seq(HiveLetters)
    <3>1. state.currentWord \in Seq(HiveLetters)
      BY <1>1
    <3>2. \A w \in Seq(HiveLetters) : w # <<>> => SubSeq(w, 1, Len(w) - 1) \in Seq(HiveLetters)
      OBVIOUS
    <3> QED
      BY <2>1, <3>1, <3>2 DEF Hive!Front
  <2>4. /\ state' \in [grading : BOOLEAN, currentWord : Seq(HiveLetters), foundWords : HiveFound,
                       score : {state'.score}, totalWords : {state'.totalWords},
                       gameStatus : {"playing", "won"}, rank : {state'.rank}]
        /\ state'.foundWords = found /\ state'.gameStatus = state.gameStatus /\ state'.grading = state.grading
        /\ state'.score = state.score /\ state'.rank = state.rank
    BY <1>1, <2>1, <2>3
  <2>5. HiveAsked(asked', state')
    BY <1>1, <2>2, <2>4 DEF HiveAsked
  <2> QED
    BY <2>2, <2>4, <2>5, HiveTypes
<1>4. CASE Hive!TrySubmitWord
  <2>1. /\ ~state.grading /\ state' = [state EXCEPT !.grading = TRUE] /\ ended' = ended /\ sent' = sent
        /\ asked' = Append(asked, state.currentWord)
    BY <1>4 DEF Hive!TrySubmitWord, Hive!Plays
  <2>2. /\ state' \in [grading : BOOLEAN, currentWord : Seq(HiveLetters), foundWords : HiveFound,
                       score : {state'.score}, totalWords : {state'.totalWords},
                       gameStatus : {"playing", "won"}, rank : {state'.rank}]
        /\ state'.foundWords = found /\ state'.gameStatus = state.gameStatus /\ state'.grading = TRUE
        /\ state'.score = state.score /\ state'.rank = state.rank
    BY <1>1, <2>1
  <2>3. asked' \in Seq(Seq(HiveLetters)) /\ Len(asked') = 1
    <3>1. state.currentWord \in Seq(HiveLetters) /\ Len(asked) = 0
      BY <1>1, <2>1
    <3> QED
      BY <1>1, <2>1, <3>1
  <2>4. HiveAsked(asked', state')
    BY <2>2, <2>3 DEF HiveAsked
  <2> QED
    BY <2>1, <2>2, <2>4, HiveTypes
<1>5. CASE Hive!RejectWord
  <2>1. PICK i \in DOMAIN asked : Hive!Plays([state EXCEPT !.grading = FALSE]) /\ asked' = Hive!RemoveAt(asked, i)
    BY <1>5 DEF Hive!RejectWord
  <2>2. state' = [state EXCEPT !.grading = FALSE] /\ ended' = ended /\ sent' = sent
    BY <2>1 DEF Hive!Plays
  <2>3. /\ state' \in [grading : BOOLEAN, currentWord : Seq(HiveLetters), foundWords : HiveFound,
                       score : {state'.score}, totalWords : {state'.totalWords},
                       gameStatus : {"playing", "won"}, rank : {state'.rank}]
        /\ state'.foundWords = found /\ state'.gameStatus = state.gameStatus /\ state'.grading = FALSE
        /\ state'.score = state.score /\ state'.rank = state.rank
    BY <1>1, <2>2
  <2>4. HiveAsked(asked', state')
    BY <2>1, <2>3, HiveAnswered DEF HiveAsked
  <2> QED
    BY <2>2, <2>3, <2>4, HiveTypes
<1>6. CASE Hive!ApplyWord
  <2>1. PICK i \in DOMAIN asked :
          LET word  == asked[i]
              more  == Append(state.foundWords, word)
              points == state.score + Hive!CalculateWordScore(word)
              next  == [state EXCEPT
                          !.grading = FALSE, !.currentWord = <<>>, !.foundWords = more, !.score = points,
                          !.rank = Hive!GetRankForScore(points), !.totalWords = Hive!Cardinality(WordList),
                          !.gameStatus = IF Len(more) >= Hive!Cardinality(WordList) THEN "won" ELSE "playing"]
          IN /\ word \in WordList
             /\ state.gameStatus = "playing" /\ word \notin Hive!Range(state.foundWords)
             /\ Hive!Shows(next, next.rank = "genius" \/ next.gameStatus = "won",
                           [status |-> "won", foundWords |-> more])
             /\ asked' = Hive!RemoveAt(asked, i)
    BY <1>6 DEF Hive!ApplyWord
  <2> DEFINE word == asked[i]
             more == Append(state.foundWords, word)
             points == state.score + Hive!CalculateWordScore(word)
             rank == Hive!GetRankForScore(points)
             total == Hive!Cardinality(WordList)
             status == IF Len(more) >= total THEN "won" ELSE "playing"
             next == [state EXCEPT
                        !.grading = FALSE, !.currentWord = <<>>, !.foundWords = more, !.score = points,
                        !.rank = rank, !.totalWords = total, !.gameStatus = status]
             over == next.rank = "genius" \/ next.gameStatus = "won"
             data == [status |-> "won", foundWords |-> more]
  <2>2. /\ word \in WordList /\ state.gameStatus = "playing" /\ word \notin Range(found)
        /\ Hive!Shows(next, over, data) /\ asked' = Hive!RemoveAt(asked, i)
    BY <2>1 DEF Hive!Range, Range
  <2>3. total = Cardinality(WordList)
    BY DEF Hive!Cardinality, Cardinality
  <2>4. /\ found \in Seq(WordList) /\ IsInjective(found)
        /\ more \in Seq(WordList) /\ Len(more) = Len(found) + 1 /\ IsInjective(more)
    <3>1. found \in Seq(WordList) /\ IsInjective(found)
      BY <1>1 DEF HiveFound
    <3> QED
      BY <2>2, <3>1, AppendedRange
  <2>5. Len(more) >= total <=> Range(more) = WordList
    <3>1. Range(more) \subseteq WordList
      BY <2>4 DEF Range
    <3>2. Len(more) = Cardinality(WordList) <=> Range(more) = WordList
      BY <2>4, <3>1, AllFound DEF HivePuzzle
    <3>3. Len(more) =< Cardinality(WordList)
      BY <2>4, FewerThan DEF HivePuzzle
    <3>4. Cardinality(WordList) \in Nat /\ Len(more) \in Nat
      BY <2>4, FS_CardinalityType DEF HivePuzzle
    <3> HIDE DEF more, total
    <3> QED
      BY <2>3, <3>2, <3>3, <3>4
  <2>6. status = "won" <=> Range(more) = WordList
    <3> HIDE DEF more, total
    <3> QED
      BY <2>5
  <2>7. status \in {"playing", "won"} /\ more \in HiveFound /\ data \in HiveFinishes
    <3>1. more \in HiveFound
      BY <2>4 DEF HiveFound
    <3> HIDE DEF more
    <3> QED
      BY <3>1 DEF HiveFinishes
  <2>p. /\ points = Hive!ScoreOf(Range(more)) /\ points \in Nat /\ Hive!MaxScore \in Nat /\ Hive!MaxScore > 0
        /\ points >= Hive!MaxScore <=> Range(more) = WordList
    <3> DEFINE had == Range(found)
    <3>1. had \in SUBSET WordList /\ word \in WordList /\ word \notin had /\ Range(more) = had \cup {word}
      <4>1. had \subseteq WordList
        BY <2>4 DEF Range
      <4>2. Range(more) = had \cup {word}
        BY <2>2, <2>4, AppendedRange
      <4> QED
        BY <2>2, <4>1, <4>2
    <3>2. state.score = Hive!ScoreOf(had)
      BY <1>1 DEF HiveScored
    <3> HIDE DEF had, more, word
    <3>3. points = Hive!ScoreOf(Range(more))
      BY <3>1, <3>2, ScoreMore
    <3>4. Range(more) \in SUBSET WordList
      BY <3>1
    <3> HIDE DEF points
    <3> QED
      BY <3>3, <3>4, ScoreBounds
  <2>r. /\ rank = "queen-bee" <=> Range(more) = WordList
        /\ rank \in {"genius", "queen-bee"} <=> 10 * points >= 7 * Hive!MaxScore
    <3> HIDE DEF more, points
    <3> QED
      BY <2>p, RankIs
  <2>t. 10 * points >= 7 * Hive!MaxScore <=> rank = "genius" \/ status = "won"
    <3>1. rank \in {"genius", "queen-bee"} <=> rank = "genius" \/ status = "won"
      BY <2>6, <2>r
    <3> QED
      BY <2>r, <3>1
  <2> HIDE DEF status, more, points, rank, total
  <2>8. /\ next \in [grading : BOOLEAN, currentWord : Seq(HiveLetters), foundWords : HiveFound, score : {next.score},
                     totalWords : {next.totalWords}, gameStatus : {"playing", "won"}, rank : {next.rank}]
        /\ next.foundWords = more /\ next.gameStatus = status /\ next.grading = FALSE
        /\ next.score = points /\ next.rank = rank
    <3>1. <<>> \in Seq(HiveLetters)
      OBVIOUS
    <3> QED
      BY <1>1, <2>7, <3>1
  <2>9. over \in BOOLEAN /\ (next.gameStatus = "won" => over) /\ (over <=> 10 * points >= 7 * Hive!MaxScore)
    BY <2>8, <2>t
  <2> HIDE DEF next, over
  <2>10. /\ state' = next /\ ended' = (ended \/ over)
         /\ sent' \in Seq(HiveFinishes) /\ Len(sent') = (IF ended' THEN 1 ELSE 0)
         /\ ended' => /\ Begins(sent'[1].foundWords, more)
                      /\ 10 * Hive!ScoreOf(Range(sent'[1].foundWords)) >= 7 * Hive!MaxScore
    <3>1. CASE ~ended /\ over
      <4>1. state' = next /\ ended' = TRUE /\ sent' = Append(sent, data)
        BY <2>2, <3>1 DEF Hive!Shows
      <4>2. sent = <<>> /\ Len(sent) = 0
        BY <1>1, <3>1
      <4>3. sent' \in Seq(HiveFinishes) /\ Len(sent') = 1 /\ sent'[1] = data
        BY <1>1, <2>7, <4>1, <4>2
      <4>4. Begins(data.foundWords, more) /\ 10 * Hive!ScoreOf(Range(data.foundWords)) >= 7 * Hive!MaxScore
        BY <2>4, <2>9, <2>p, <3>1 DEF Begins
      <4>5. (ended \/ over) = TRUE
        BY <3>1
      <4> QED
        BY <4>1, <4>3, <4>4, <4>5
    <3>2. CASE ended
      <4>1. state' = next /\ ended' = ended /\ sent' = sent
        BY <2>2, <3>2 DEF Hive!Shows
      <4>6. 10 * Hive!ScoreOf(Range(sent[1].foundWords)) >= 7 * Hive!MaxScore
        BY <1>1, <3>2 DEF HiveScored
      <4>2. Begins(sent[1].foundWords, more)
        <5> DEFINE f == sent[1].foundWords
        <5>1. Len(sent) = 1 /\ sent[1] \in HiveFinishes
          BY <1>1, <3>2
        <5>2. f \in Seq(WordList) /\ Begins(f, found)
          BY <1>1, <3>2, <5>1 DEF HiveFinishes, HiveFound
        <5> HIDE DEF f
        <5>3. Begins(f, more)
          BY <2>4, <5>2 DEF Begins, more
        <5> QED
          BY <5>3 DEF f
      <4>3. (ended \/ over) = TRUE /\ ended = TRUE
        BY <1>1, <3>2
      <4> QED
        BY <1>1, <4>1, <4>2, <4>3, <4>6
    <3>3. CASE ~ended /\ ~over
      <4>1. state' = next /\ ended' = ended /\ sent' = sent
        BY <2>2, <3>3 DEF Hive!Shows
      <4>2. ended = FALSE /\ (ended \/ over) = FALSE
        BY <1>1, <3>3
      <4> QED
        BY <1>1, <4>1, <4>2
    <3> QED
      BY <3>1, <3>2, <3>3
  <2>11. ended' \in BOOLEAN /\ (next.gameStatus = "won" => ended')
    BY <1>1, <2>9, <2>10
  <2>12. HiveBoard(next, ended', sent')
    BY <2>6, <2>8, <2>10, <2>11 DEF HiveBoard
  <2>13. HiveAsked(asked', next)
    BY <2>2, <2>8, HiveAnswered DEF HiveAsked
  <2>14. HiveScored(next, ended', sent')
    <3>1. next.score = Hive!ScoreOf(Range(next.foundWords)) /\ (next.rank = "queen-bee" <=> Range(next.foundWords) = WordList)
      BY <2>8, <2>p, <2>r
    <3>2. 10 * next.score >= 7 * Hive!MaxScore => ended'
      BY <2>8, <2>9, <2>10
    <3> QED
      BY <2>10, <3>1, <3>2 DEF HiveScored
  <2> QED
    BY <2>10, <2>12, <2>13, <2>14 DEF HiveInv
<1>7. CASE UNCHANGED boardVars
  <2>1. state' = state /\ asked' = asked /\ ended' = ended /\ sent' = sent
    BY <1>7 DEF boardVars
  <2> QED
    BY <2>1 DEF HiveInv
<1> QED
  BY <1>2, <1>3, <1>4, <1>5, <1>6, <1>7 DEF Hive!Next

(* Word Hive: one request at a time, the words found are words of the list *)
(* and none twice, the score is theirs, the rank is the last one and the   *)
(* game won exactly when all are found; seven tenths of the score hand the *)
(* game over, at most once while play goes on, and what is handed over has *)
(* the first of the words found, which are worth that much.                *)
THEOREM WordHiveCorrect ==
    ASSUME HivePuzzle
    PROVE  Hive!Init /\ [][Hive!Next]_boardVars =>
               [](/\ Hive!Legal /\ Hive!Explained /\ Hive!Finished
                  /\ Len(sent) = IF ended THEN 1 ELSE 0
                  /\ \A i \in DOMAIN sent : Hive!Right(sent[i]) /\ Hive!IsPrefix(sent[i].foundWords, state.foundWords))
<1>1. Hive!Init => HiveInv
  <2> SUFFICES ASSUME Hive!Init PROVE HiveInv
    OBVIOUS
  <2>1. /\ state = [grading |-> FALSE, currentWord |-> <<>>, foundWords |-> <<>>, score |-> 0, totalWords |-> 0,
                    gameStatus |-> "playing", rank |-> "beginner"]
        /\ asked = <<>> /\ ended = FALSE /\ sent = <<>>
    BY DEF Hive!Init, Hive!Starts, Hive!CreateInitialState
  <2>2. <<>> \in Seq(HiveLetters) /\ <<>> \in Seq(HiveFinishes) /\ <<>> \in Seq(Seq(HiveLetters))
    OBVIOUS
  <2>3. <<>> \in HiveFound /\ Range(<<>>) = {} /\ {} # WordList
    BY DEF HiveFound, IsInjective, Range, HivePuzzle
  <2>4. HiveBoard(state, ended, sent)
    BY <2>1, <2>2, <2>3 DEF HiveBoard
  <2>5. HiveAsked(asked, state)
    BY <2>1, <2>2 DEF HiveAsked
  <2>6. HiveScored(state, ended, sent)
    <3>1. Hive!ScoreOf({}) = 0 /\ Hive!MaxScore \in Nat /\ Hive!MaxScore > 0
      BY NoScore, ScoreBounds
    <3>2. ~(10 * state.score >= 7 * Hive!MaxScore)
      BY <2>1, <3>1
    <3> QED
      BY <2>1, <2>3, <3>1, <3>2 DEF HiveScored
  <2> QED
    BY <2>4, <2>5, <2>6 DEF HiveInv
<1>2. HiveInv /\ [Hive!Next]_boardVars => HiveInv'
  BY HiveStep
<1>3. HiveInv => /\ Hive!Legal /\ Hive!Explained /\ Hive!Finished
                 /\ Len(sent) = IF ended THEN 1 ELSE 0
                 /\ \A i \in DOMAIN sent : Hive!Right(sent[i]) /\ Hive!IsPrefix(sent[i].foundWords, state.foundWords)
  <2> SUFFICES ASSUME HiveInv
               PROVE  /\ Hive!Legal /\ Hive!Explained /\ Hive!Finished
                      /\ Len(sent) = IF ended THEN 1 ELSE 0
                      /\ \A i \in DOMAIN sent :
                            Hive!Right(sent[i]) /\ Hive!IsPrefix(sent[i].foundWords, state.foundWords)
    OBVIOUS
  <2>1. /\ state.foundWords \in HiveFound /\ ended \in BOOLEAN
        /\ state.gameStatus = "won" <=> Range(state.foundWords) = WordList
        /\ sent \in Seq(HiveFinishes) /\ Len(sent) = (IF ended THEN 1 ELSE 0)
        /\ ended => Begins(sent[1].foundWords, state.foundWords)
        /\ Len(asked) = IF state.grading THEN 1 ELSE 0
    BY HiveFields
  <2>2. state.foundWords \in Seq(WordList) /\ IsInjective(state.foundWords)
    BY <2>1 DEF HiveFound
  <2>3. Hive!Legal
    BY <2>1, <2>2 DEF Hive!Legal, Hive!Range, Hive!IsInjective, IsInjective
  <2>4. HiveScored(state, ended, sent)
    BY HiveFields
  <2>5. Hive!Explained
    <3>1. Hive!Range(state.foundWords) = Range(state.foundWords)
      BY DEF Hive!Range, Range
    <3> QED
      BY <2>1, <2>4, <3>1 DEF Hive!Explained, HiveScored
  <2>6. ASSUME NEW i \in DOMAIN sent
        PROVE  Hive!Right(sent[i]) /\ Hive!IsPrefix(sent[i].foundWords, state.foundWords)
    <3> DEFINE f == sent[i].foundWords
    <3>1. i = 1 /\ ended
      BY <2>1
    <3>2. f \in HiveFound /\ Begins(f, state.foundWords)
      <4>1. sent[i] \in HiveFinishes /\ sent[i] = sent[1]
        BY <2>1, <3>1, SMTT(30)
      <4>2. f \in HiveFound
        BY <4>1 DEF HiveFinishes
      <4> QED
        BY <2>1, <3>1, <4>1, <4>2
    <3>3. 10 * Hive!ScoreOf(Range(f)) >= 7 * Hive!MaxScore
      BY <2>4, <3>1 DEF HiveScored
    <3>4. Hive!Right(sent[i]) <=> /\ IsInjective(f) /\ Range(f) \subseteq WordList
                                  /\ 10 * Hive!ScoreOf(Range(f)) >= 7 * Hive!MaxScore
      BY DEF Hive!Right, Hive!IsInjective, IsInjective, Hive!Range, Range
    <3> HIDE DEF f
    <3>5. f \in Seq(WordList) /\ IsInjective(f)
      BY <3>2 DEF HiveFound
    <3>6. Range(f) \subseteq WordList
      BY <3>5 DEF Range
    <3>7. Hive!IsPrefix(f, state.foundWords)
      BY <2>2, <3>2, <3>5, BeginsIsPrefix
    <3> QED
      BY <3>3, <3>4, <3>5, <3>6, <3>7 DEF f
  <2>7. Hive!Finished
    <3>1. CASE ended
      <4>1. Len(sent) = 1
        BY <2>1, <3>1
      <4>2. Hive!Last(sent) = sent[1]
        BY <4>1 DEF Hive!Last
      <4>3. Hive!IsPrefix(sent[1].foundWords, state.foundWords)
        BY <2>1, <2>6, <4>1
      <4> QED
        BY <3>1, <4>2, <4>3 DEF Hive!Finished
    <3>2. CASE ~ended
      BY <2>4, <3>2 DEF Hive!Finished, HiveScored
    <3> QED
      BY <3>1, <3>2
  <2> QED
    BY <2>1, <2>3, <2>5, <2>6, <2>7
<1> QED
  BY <1>1, <1>2, <1>3, PTL

------------------------------------------------------------------------------
(* Arithmo.                                                                *)
CONSTANTS Digits, Operators, EQUATION_LENGTH, MAX_ATTEMPTS
Arith == INSTANCE Arithmo

Equations == {w \in Seq(Arith!ValidChars) : Len(w) = EQUATION_LENGTH /\ Arith!IsValidEquation(w)}

ArithPuzzle ==
    /\ EQUATION_LENGTH \in Nat \ {0} /\ MAX_ATTEMPTS \in Nat \ {0}
    /\ Answer \in Seq(Arith!ValidChars) /\ Len(Answer) = EQUATION_LENGTH

(* The page's evaluator, reading once from left to right, agrees with the  *)
(* grammar: TLC evaluates this for what can be typed, and it takes an      *)
(* induction over the length of an expression.                             *)
ReadsTheGrammar ==
    \A w \in Seq(Arith!ValidChars) :
        Len(w) = EQUATION_LENGTH => (Arith!IsValidEquation(w) <=> Arith!TrueEquation(w))

ArithFields == {"guesses", "currentGuess", "results", "isComplete", "isWon", "grading", "keyboardStatus"}

ArithFinishes == {f \in [status : {"won", "lost"}, guesses : Seq(Equations)] : Arith!Right(f)}

ArithGrades(rows) == [i \in DOMAIN rows |-> Arith!EvaluateGuess(rows[i], Answer)]
ArithColours(c, rows) == Arith!ColoursOf(c, rows, ArithGrades(rows))
ArithKeys(rows) == [c \in Arith!ValidChars |-> Arith!Best({"none"} \cup ArithColours(c, rows))]

FurtherKeys(keys, w) ==
    [c \in Arith!ValidChars |->
        Arith!Best({keys[c]} \cup Arith!ColoursOf(c, <<w>>, <<Arith!EvaluateGuess(w, Answer)>>))]

(* The rows while the game is on, and when it is won or lost.              *)
ArithRows(guesses, complete, won) ==
    /\ guesses \in Seq(Equations) /\ complete \in BOOLEAN /\ won \in BOOLEAN
    /\ ~complete => Len(guesses) < MAX_ATTEMPTS /\ ~won
    /\ won => guesses # <<>> /\ \A i \in DOMAIN guesses : guesses[i] = Answer <=> i = Len(guesses)
    /\ ~won => \A i \in DOMAIN guesses : guesses[i] # Answer
    /\ complete /\ ~won => Len(guesses) = MAX_ATTEMPTS

ArithAsked(grading, requests) ==
    /\ grading \in BOOLEAN
    /\ requests \in Seq(Equations) /\ Len(requests) = IF grading THEN 1 ELSE 0

ArithData(guesses, won) == [status |-> IF won THEN "won" ELSE "lost", guesses |-> guesses]

ArithBoard(s, requests, over, finishes) ==
    /\ DOMAIN s = ArithFields
    /\ ArithRows(s.guesses, s.isComplete, s.isWon)
    /\ s.results = ArithGrades(s.guesses) /\ s.keyboardStatus = ArithKeys(s.guesses)
    /\ s.currentGuess \in Seq(Arith!ValidChars)
    /\ ArithAsked(s.grading, requests)
    /\ over = s.isComplete
    /\ finishes \in Seq(ArithFinishes)
    /\ over => finishes # <<>> /\ Last(finishes) = ArithData(s.guesses, s.isWon)

ArithInv == ArithBoard(state, asked, ended, sent)

(* Every tile is green for the answer, and for no other equation.          *)
LEMMA OnlyTheEquation ==
    ASSUME ArithPuzzle, NEW w \in Equations
    PROVE  Arith!AllCorrect(Arith!EvaluateGuess(w, Answer)) <=> w = Answer
<1> DEFINE n == EQUATION_LENGTH
           C == Arith!ValidChars
           tiles == Arith!EvaluateGuess(w, Answer)
<1>1. w \in Seq(C) /\ Len(w) = n /\ Answer \in Seq(C) /\ Len(Answer) = n
  BY DEF Equations, ArithPuzzle
<1> HIDE DEF C
<1>2. DOMAIN w = 1..n /\ DOMAIN Answer = 1..n
  BY <1>1
<1>3. DOMAIN tiles = 1..n /\ \A i \in 1..n : tiles[i] = "correct" <=> w[i] = Answer[i]
  BY <1>2 DEF Arith!EvaluateGuess
<1> HIDE DEF tiles
<1>4. Arith!AllCorrect(tiles) <=> \A i \in 1..n : w[i] = Answer[i]
  BY <1>3 DEF Arith!AllCorrect
<1>5. (\A i \in 1..n : w[i] = Answer[i]) <=> w = Answer
  BY <1>1, <1>2
<1> QED
  BY <1>4, <1>5 DEF tiles

(* A further row adds its own colours to the keyboard's.                   *)
LEMMA ArithKeysMore ==
    ASSUME NEW h \in Seq(Equations), NEW w \in Equations
    PROVE  ArithKeys(Append(h, w)) = FurtherKeys(ArithKeys(h), w)
<1> DEFINE more == Append(h, w)
           n == Len(h) + 1
           Of(row, c) == {Arith!EvaluateGuess(row, Answer)[j] : j \in {k \in DOMAIN row : row[k] = c}}
<1>1. /\ DOMAIN more = 1..n /\ DOMAIN h = 1..Len(h) /\ n \in Nat /\ Len(h) \in Nat /\ more[n] = w
      /\ \A i \in 1..Len(h) : more[i] = h[i]
  OBVIOUS
<1> HIDE DEF more, n
<1>2. DOMAIN <<w>> = {1} /\ <<w>>[1] = w
  OBVIOUS
<1>3. \A rows, c : ArithColours(c, rows) = UNION {Of(rows[i], c) : i \in DOMAIN rows}
  BY DEF Arith!ColoursOf, ArithGrades, ArithColours
<1>4. \A c : Arith!ColoursOf(c, <<w>>, <<Arith!EvaluateGuess(w, Answer)>>) = Of(w, c)
  <2> TAKE c
  <2>1. <<Arith!EvaluateGuess(w, Answer)>>[1] = Arith!EvaluateGuess(w, Answer)
    OBVIOUS
  <2> QED
    BY <1>2, <2>1 DEF Arith!ColoursOf
<1>5. \A row, c : Of(row, c) \in SUBSET Statuses
  BY DEF Arith!EvaluateGuess, Statuses
<1> HIDE DEF Of
<1>6. ASSUME NEW c
      PROVE  ArithColours(c, more) = ArithColours(c, h) \cup Of(w, c) /\ ArithColours(c, h) \in SUBSET Statuses
  <2>1. \A i \in DOMAIN more : (i = n /\ more[i] = w) \/ (i \in DOMAIN h /\ more[i] = h[i])
    BY <1>1 DEF n
  <2>2. n \in DOMAIN more /\ \A i \in DOMAIN h : i \in DOMAIN more
    BY <1>1 DEF n
  <2>3. ASSUME NEW x \in ArithColours(c, more) PROVE x \in ArithColours(c, h) \cup Of(w, c)
    BY <1>3, <2>1
  <2>4. ASSUME NEW x \in Of(w, c) PROVE x \in ArithColours(c, more)
    BY <1>1, <1>3, <2>2
  <2>5. ASSUME NEW x \in ArithColours(c, h) PROVE x \in ArithColours(c, more)
    BY <1>1, <1>3, <2>2
  <2>6. ArithColours(c, h) \in SUBSET Statuses
    BY <1>3, <1>5
  <2> QED
    BY <2>3, <2>4, <2>5, <2>6
<1>7. \A A : Arith!Best(A) = Best(A)
  BY DEF Arith!Best, Best, Arith!Rank, Rank
<1>8. ASSUME NEW c \in Arith!ValidChars PROVE Arith!Best({ArithKeys(h)[c]} \cup Of(w, c)) = ArithKeys(more)[c]
  <2> DEFINE A == {"none"} \cup ArithColours(c, h)
             B == Of(w, c)
  <2>1. A \in SUBSET Statuses /\ A # {} /\ B \in SUBSET Statuses
    BY <1>5, <1>6 DEF Statuses
  <2>2. A \cup B = {"none"} \cup ArithColours(c, more)
    BY <1>6
  <2>3. ArithKeys(h)[c] = Best(A) /\ ArithKeys(more)[c] = Best(A \cup B)
    BY <1>7, <2>2 DEF ArithKeys
  <2> HIDE DEF A, B
  <2>4. Best({Best(A)} \cup B) = Best(A \cup B)
    BY <2>1, BestMore
  <2>5. Arith!Best({ArithKeys(h)[c]} \cup B) = ArithKeys(more)[c]
    BY <1>7, <2>3, <2>4
  <2> QED
    BY <2>5 DEF B
<1>9. ArithKeys(more) = [c \in Arith!ValidChars |-> ArithKeys(more)[c]]
  BY DEF ArithKeys
<1> HIDE DEF more
<1>10. ArithKeys(more) = [c \in Arith!ValidChars |-> Arith!Best({ArithKeys(h)[c]} \cup Of(w, c))]
  BY <1>8, <1>9
<1> QED
  BY <1>4, <1>10 DEF more, FurtherKeys

LEMMA EquationMore ==
    ASSUME ArithPuzzle, NEW guesses, ArithRows(guesses, FALSE, FALSE), NEW w \in Equations,
           NEW won \in BOOLEAN, won <=> w = Answer,
           NEW complete \in BOOLEAN, complete <=> won \/ Len(guesses) >= MAX_ATTEMPTS - 1
    PROVE  LET more == Append(guesses, w)
           IN  /\ ArithRows(more, complete, won)
               /\ ArithGrades(more) = Append(ArithGrades(guesses), Arith!EvaluateGuess(w, Answer))
               /\ complete => ArithData(more, won) \in ArithFinishes
<1> DEFINE more == Append(guesses, w)
<1>1. /\ guesses \in Seq(Equations) /\ Len(guesses) \in Nat /\ Len(guesses) < MAX_ATTEMPTS
      /\ DOMAIN guesses = 1..Len(guesses) /\ \A i \in 1..Len(guesses) : guesses[i] # Answer
  BY DEF ArithRows
<1>2. /\ more \in Seq(Equations) /\ Len(more) = Len(guesses) + 1 /\ DOMAIN more = 1..(Len(guesses) + 1)
      /\ more[Len(guesses) + 1] = w /\ \A i \in 1..Len(guesses) : more[i] = guesses[i] /\ more # <<>>
  BY <1>1
<1>3. MAX_ATTEMPTS \in Nat
  BY DEF ArithPuzzle
<1> HIDE DEF more
<1>4. ArithRows(more, complete, won)
  <2>1. won => \A i \in DOMAIN more : more[i] = Answer <=> i = Len(more)
    BY <1>1, <1>2
  <2>2. ~won => \A i \in DOMAIN more : more[i] # Answer
    BY <1>1, <1>2
  <2>3. ~complete => Len(more) < MAX_ATTEMPTS /\ ~won
    BY <1>1, <1>2, <1>3
  <2>4. complete /\ ~won => Len(more) = MAX_ATTEMPTS
    BY <1>1, <1>2, <1>3
  <2>5. more # <<>>
    BY <1>1, <1>2
  <2> QED
    BY <1>2, <2>1, <2>2, <2>3, <2>4, <2>5 DEF ArithRows
<1>5. ArithGrades(more) = Append(ArithGrades(guesses), Arith!EvaluateGuess(w, Answer))
  <2>1. ArithGrades(guesses) \in Seq({Arith!EvaluateGuess(v, Answer) : v \in Equations})
        /\ Len(ArithGrades(guesses)) = Len(guesses)
    BY <1>1 DEF ArithGrades
  <2> QED
    BY <1>1, <1>2, <2>1 DEF ArithGrades
<1>6. complete => ArithData(more, won) \in ArithFinishes
  <2> SUFFICES ASSUME complete PROVE Arith!Right(ArithData(more, won))
    BY <1>2 DEF ArithFinishes, ArithData
  <2>1. ~won => Answer \notin Arith!Range(more) /\ Len(more) = MAX_ATTEMPTS
    BY <1>4 DEF ArithRows, Arith!Range
  <2>2. won => \A i \in DOMAIN more : more[i] = Answer <=> i = Len(more)
    BY <1>4 DEF ArithRows
  <2> QED
    BY <2>1, <2>2 DEF Arith!Right, ArithData
<1> QED
  BY <1>4, <1>5, <1>6 DEF more

LEMMA ArithKeep ==
    ASSUME NEW s, NEW requests, NEW over, NEW finishes, ArithBoard(s, requests, over, finishes)
    PROVE  /\ DOMAIN s = ArithFields
           /\ ArithRows(s.guesses, s.isComplete, s.isWon)
           /\ s.results = ArithGrades(s.guesses) /\ s.keyboardStatus = ArithKeys(s.guesses)
           /\ s.currentGuess \in Seq(Arith!ValidChars)
           /\ ArithAsked(s.grading, requests)
           /\ over = s.isComplete
           /\ finishes \in Seq(ArithFinishes)
           /\ over => finishes # <<>> /\ Last(finishes) = ArithData(s.guesses, s.isWon)
  BY DEF ArithBoard

(* What is typed or asked changes, and the rows stay.                      *)
LEMMA ArithSameRows ==
    ASSUME ArithInv, NEW next, DOMAIN next = ArithFields, next.guesses = state.guesses,
           next.results = state.results, next.keyboardStatus = state.keyboardStatus,
           next.isComplete = state.isComplete, next.isWon = state.isWon,
           next.currentGuess \in Seq(Arith!ValidChars),
           Arith!Plays(next), ArithAsked(next.grading, asked')
    PROVE  ArithInv'
<1>1. state' = next /\ ended' = ended /\ sent' = sent
  BY DEF Arith!Plays
<1>2. ArithBoard(next, asked', ended, sent)
  BY ArithKeep DEF ArithInv, ArithBoard
<1> QED
  BY <1>1, <1>2 DEF ArithInv

LEMMA ArithTyped ==
    ASSUME ArithInv, NEW w \in Seq(Arith!ValidChars), Arith!Plays([state EXCEPT !.currentGuess = w]), asked' = asked
    PROVE  ArithInv'
<1> DEFINE next == [state EXCEPT !.currentGuess = w]
<1>0. DOMAIN state = ArithFields /\ ArithAsked(state.grading, asked)
  BY ArithKeep DEF ArithInv
<1>1. /\ DOMAIN next = ArithFields /\ next.guesses = state.guesses /\ next.results = state.results
      /\ next.keyboardStatus = state.keyboardStatus /\ next.isComplete = state.isComplete
      /\ next.isWon = state.isWon /\ next.currentGuess = w /\ next.grading = state.grading
  BY <1>0 DEF ArithFields
<1>2. Arith!Plays(next)
  OBVIOUS
<1> HIDE DEF next
<1>3. ArithAsked(next.grading, asked')
  BY <1>0, <1>1
<1> QED
  BY <1>1, <1>2, <1>3, ArithSameRows

LEMMA ArithFlagged ==
    ASSUME ArithInv, NEW grading, Arith!Plays([state EXCEPT !.grading = grading]), ArithAsked(grading, asked')
    PROVE  ArithInv'
<1> DEFINE next == [state EXCEPT !.grading = grading]
<1>0. DOMAIN state = ArithFields /\ state.currentGuess \in Seq(Arith!ValidChars)
  BY ArithKeep DEF ArithInv
<1>1. /\ DOMAIN next = ArithFields /\ next.guesses = state.guesses /\ next.results = state.results
      /\ next.keyboardStatus = state.keyboardStatus /\ next.isComplete = state.isComplete
      /\ next.isWon = state.isWon /\ next.currentGuess = state.currentGuess /\ next.grading = grading
  BY <1>0 DEF ArithFields
<1>2. Arith!Plays(next)
  OBVIOUS
<1> HIDE DEF next
<1> QED
  BY <1>0, <1>1, <1>2, ArithSameRows

LEMMA ArithStep == ArithPuzzle /\ ArithInv /\ [Arith!Next]_boardVars => ArithInv'
<1> SUFFICES ASSUME ArithPuzzle, ArithInv, [Arith!Next]_boardVars PROVE ArithInv'
  OBVIOUS
<1>0. /\ DOMAIN state = ArithFields /\ ArithRows(state.guesses, state.isComplete, state.isWon)
      /\ state.results = ArithGrades(state.guesses) /\ state.keyboardStatus = ArithKeys(state.guesses)
      /\ state.currentGuess \in Seq(Arith!ValidChars)
      /\ ArithAsked(state.grading, asked) /\ ended = state.isComplete /\ sent \in Seq(ArithFinishes)
  BY ArithKeep DEF ArithInv
<1>a. asked \in Seq(Equations) /\ Len(asked) =< 1 /\ (~state.grading => asked = <<>>)
  BY <1>0 DEF ArithAsked
<1>1. CASE Arith!AddChar
  <2>1. PICK c \in Arith!ValidChars : Arith!Plays([state EXCEPT !.currentGuess = Append(@, c)])
    BY <1>1 DEF Arith!AddChar
  <2>2. Append(state.currentGuess, c) \in Seq(Arith!ValidChars) /\ asked' = asked
    BY <1>0, <1>1 DEF Arith!AddChar, Arith!NoAnswerPending
  <2> QED
    BY <2>1, <2>2, ArithTyped
<1>2. CASE Arith!DeleteChar
  <2> DEFINE w == SubSeq(state.currentGuess, 1, Len(state.currentGuess) - 1)
  <2>1. state.currentGuess # <<>> /\ Arith!Plays([state EXCEPT !.currentGuess = w]) /\ asked' = asked
    BY <1>2 DEF Arith!DeleteChar, Arith!Front, Arith!NoAnswerPending
  <2>2. w \in Seq(Arith!ValidChars)
    BY <1>0, <2>1
  <2> HIDE DEF w
  <2> QED
    BY <2>1, <2>2, ArithTyped
<1>3. CASE Arith!SubmitGuess
  <2>1. /\ ~state.grading /\ state.currentGuess \in Equations
        /\ Arith!Plays([state EXCEPT !.grading = TRUE]) /\ asked' = Append(asked, state.currentGuess)
    BY <1>0, <1>3 DEF Arith!SubmitGuess, Equations
  <2>2. ArithAsked(TRUE, asked')
    BY <1>a, <2>1 DEF ArithAsked
  <2> QED
    BY <2>1, <2>2, ArithFlagged
<1>4. CASE Arith!GradeFailed
  <2>1. PICK i \in DOMAIN asked : Arith!Plays([state EXCEPT !.grading = FALSE]) /\ asked' = RemoveAt(asked, i)
    BY <1>4 DEF Arith!GradeFailed, Arith!RemoveAt, RemoveAt
  <2>2. asked' = <<>>
    BY <1>a, <2>1, GradeAnswered
  <2>3. ArithAsked(FALSE, asked')
    BY <2>2 DEF ArithAsked
  <2> QED
    BY <2>1, <2>3, ArithFlagged
<1>5. CASE Arith!ApplyGuess
  <2> DEFINE Result(g) == Arith!EvaluateGuess(g, Answer)
             Won(g) == Arith!AllCorrect(Result(g))
             Complete(g) == Won(g) \/ Len(state.guesses) >= MAX_ATTEMPTS - 1
             After(g) == [state EXCEPT
                           !.grading = FALSE, !.guesses = Append(@, g), !.results = Append(@, Result(g)),
                           !.currentGuess = <<>>, !.isComplete = Complete(g), !.isWon = Won(g),
                           !.keyboardStatus =
                               [c \in Arith!ValidChars |-> Arith!Best({@[c]} \cup Arith!ColoursOf(c, <<g>>, <<Result(g)>>))]]
  <2>1. PICK i \in DOMAIN asked :
          /\ ~state.isComplete
          /\ Shows(After(asked[i]), Complete(asked[i]), Arith!Finish(After(asked[i])))
          /\ asked' = RemoveAt(asked, i)
    BY <1>5, Zenon DEF Arith!ApplyGuess, Arith!RemoveAt, RemoveAt, Arith!Shows, Shows
  <2>2. asked[i] \in Equations /\ asked' = <<>>
    BY <1>a, <2>1, GradeAnswered
  <2> DEFINE guess == asked[i]
             result == Result(guess)
             won == Won(guess)
             complete == Complete(guess)
             next == After(guess)
             more == Append(state.guesses, guess)
             keys == [c \in Arith!ValidChars |->
                        Arith!Best({state.keyboardStatus[c]} \cup Arith!ColoursOf(c, <<guess>>, <<result>>))]
             data == ArithData(more, won)
  <2>3. /\ DOMAIN next = ArithFields /\ next.grading = FALSE /\ next.guesses = more
        /\ next.results = Append(state.results, result) /\ next.currentGuess = <<>>
        /\ next.isComplete = complete /\ next.isWon = won /\ next.keyboardStatus = keys
    BY <1>0 DEF ArithFields
  <2>4. ~state.isComplete /\ Shows(next, complete, Arith!Finish(next))
    BY <2>1
  <2>5. won <=> guess = Answer
    BY <2>2, OnlyTheEquation
  <2>6. won \in BOOLEAN /\ complete \in BOOLEAN
    BY DEF Arith!AllCorrect
  <2>7. complete <=> won \/ Len(state.guesses) >= MAX_ATTEMPTS - 1
    OBVIOUS
  <2>8. keys = FurtherKeys(ArithKeys(state.guesses), guess)
    BY <1>0 DEF FurtherKeys
  <2>9. result = Arith!EvaluateGuess(guess, Answer)
    OBVIOUS
  <2> HIDE DEF next, After, Result, Won, Complete, result, won, complete, guess, keys
  <2>10. guess \in Equations
    BY <2>2 DEF guess
  <2>11. ArithRows(state.guesses, FALSE, FALSE) /\ state.guesses \in Seq(Equations)
    BY <1>0, <2>4 DEF ArithRows
  <2>12. /\ ArithRows(more, complete, won)
         /\ ArithGrades(more) = Append(ArithGrades(state.guesses), result)
         /\ complete => data \in ArithFinishes
    BY <2>5, <2>6, <2>7, <2>9, <2>10, <2>11, EquationMore
  <2>13. keys = ArithKeys(more)
    BY <2>8, <2>10, <2>11, ArithKeysMore
  <2>14. Arith!Finish(next) = data
    BY <2>3 DEF Arith!Finish, ArithData
  <2> HIDE DEF more, data
  <2>15. Shows(next, complete, data) /\ ended = FALSE
    BY <1>0, <2>4, <2>14 DEF ArithRows
  <2>16. /\ state' = next /\ ended' = complete /\ sent' \in Seq(ArithFinishes)
         /\ complete => sent' # <<>> /\ Last(sent') = data
    BY <1>0, <2>6, <2>12, <2>15, Render
  <2>17. next.results = ArithGrades(more) /\ next.keyboardStatus = ArithKeys(more)
    BY <1>0, <2>3, <2>12, <2>13
  <2>18. ArithAsked(FALSE, <<>>) /\ <<>> \in Seq(Arith!ValidChars)
    BY DEF ArithAsked
  <2>19. ArithBoard(next, <<>>, complete, sent')
    BY <2>3, <2>12, <2>16, <2>17, <2>18 DEF ArithBoard, data
  <2> QED
    BY <2>2, <2>16, <2>19, SMTT(30) DEF ArithInv
<1>6. CASE UNCHANGED boardVars
  BY <1>6 DEF boardVars, ArithInv
<1> QED
  BY <1>1, <1>2, <1>3, <1>4, <1>5, <1>6 DEF Arith!Next

(* use-arithmo.ts: with any answer and whatever is typed while a row is    *)
(* being graded, only equations the page accepts are graded, one at a      *)
(* time; each row has its own grades and each key the best colour its      *)
(* character got; the game is won with the answer as its last row and no   *)
(* earlier, or lost with every row used, and that is what is handed over.  *)
(* Where the page's evaluator reads the grammar, every row is a true       *)
(* equation.                                                               *)
THEOREM ArithmoCorrect ==
    ASSUME ArithPuzzle
    PROVE  Arith!Init /\ [][Arith!Next]_boardVars =>
               [](/\ ReadsTheGrammar => Arith!Legal
                  /\ Len(asked) = (IF state.grading THEN 1 ELSE 0)
                  /\ \A i \in DOMAIN state.guesses : Arith!IsValidEquation(state.guesses[i])
                  /\ Arith!Explained /\ Arith!Finished
                  /\ \A i \in DOMAIN sent : Arith!Right(sent[i]))
<1> DEFINE Claim == /\ ReadsTheGrammar => Arith!Legal
                    /\ Len(asked) = (IF state.grading THEN 1 ELSE 0)
                    /\ \A i \in DOMAIN state.guesses : Arith!IsValidEquation(state.guesses[i])
                    /\ Arith!Explained /\ Arith!Finished
                    /\ \A i \in DOMAIN sent : Arith!Right(sent[i])
<1>1. Arith!Init => ArithInv
  <2> SUFFICES ASSUME Arith!Init PROVE ArithInv
    OBVIOUS
  <2> DEFINE first == Arith!InitialState
  <2>1. state = first /\ asked = <<>> /\ ended = FALSE /\ sent = <<>>
    BY DEF Arith!Init, Arith!Starts
  <2>2. /\ DOMAIN first = ArithFields /\ first.guesses = <<>> /\ first.results = <<>> /\ first.currentGuess = <<>>
        /\ first.grading = FALSE /\ first.isComplete = FALSE /\ first.isWon = FALSE
        /\ first.keyboardStatus = [c \in Arith!ValidChars |-> "none"]
    BY DEF ArithFields, Arith!InitialState
  <2> HIDE DEF first
  <2>3. DOMAIN <<>> = {} /\ Len(<<>>) = 0 /\ <<>> \in Seq(Equations)
    OBVIOUS
  <2>4. ArithRows(<<>>, FALSE, FALSE) /\ ArithGrades(<<>>) = <<>> /\ ArithAsked(FALSE, <<>>)
    BY <2>3 DEF ArithRows, ArithGrades, ArithAsked, ArithPuzzle
  <2>5. ArithKeys(<<>>) = [c \in Arith!ValidChars |-> "none"]
    <3>1. \A c : ArithColours(c, <<>>) = {}
      BY <2>3 DEF ArithColours, Arith!ColoursOf
    <3>2. Arith!Best({"none"}) = "none"
      BY DEF Arith!Best, Arith!Rank
    <3> QED
      BY <3>1, <3>2 DEF ArithKeys
  <2>6. <<>> \in Seq(Arith!ValidChars) /\ <<>> \in Seq(ArithFinishes)
    OBVIOUS
  <2> QED
    BY <2>1, <2>2, <2>4, <2>5, <2>6 DEF ArithInv, ArithBoard
<1>2. ArithInv /\ [Arith!Next]_boardVars => ArithInv'
  BY ArithStep
<1>3. ArithInv => Claim
  <2> SUFFICES ASSUME ArithInv PROVE Claim
    OBVIOUS
  <2>1. /\ ArithRows(state.guesses, state.isComplete, state.isWon) /\ ArithAsked(state.grading, asked)
        /\ state.results = ArithGrades(state.guesses) /\ state.keyboardStatus = ArithKeys(state.guesses)
        /\ state.currentGuess \in Seq(Arith!ValidChars)
        /\ ended = state.isComplete /\ sent \in Seq(ArithFinishes)
        /\ ended => sent # <<>> /\ Last(sent) = ArithData(state.guesses, state.isWon)
    BY ArithKeep DEF ArithInv
  <2>2. Len(asked) = (IF state.grading THEN 1 ELSE 0)
    BY <2>1 DEF ArithAsked
  <2>3. \A i \in DOMAIN state.guesses : state.guesses[i] \in Equations
    BY <2>1 DEF ArithRows
  <2>4. \A i \in DOMAIN state.guesses : Arith!IsValidEquation(state.guesses[i])
    BY <2>3 DEF Equations
  <2>5. ReadsTheGrammar => Arith!Legal
    <3> SUFFICES ASSUME ReadsTheGrammar PROVE Arith!Legal
      OBVIOUS
    <3>1. \A i \in DOMAIN state.guesses : Arith!TrueEquation(state.guesses[i])
      BY <2>3 DEF Equations, ReadsTheGrammar
    <3>2. Len(state.currentGuess) = EQUATION_LENGTH =>
            (Arith!IsValidEquation(state.currentGuess) <=> Arith!TrueEquation(state.currentGuess))
      BY <2>1 DEF ReadsTheGrammar
    <3> QED
      BY <2>2, <3>1, <3>2 DEF Arith!Legal
  <2>6. Arith!Explained
    BY <2>1 DEF Arith!Explained, ArithGrades, ArithKeys, ArithColours
  <2>7. Arith!Finished
    <3>1. Answer \in Arith!Range(state.guesses) => state.isWon
      BY <2>1 DEF ArithRows, Arith!Range
    <3>2. state.isComplete => ended /\ Arith!Last(sent) = Arith!Finish(state)
      BY <2>1 DEF ArithData, Arith!Finish, Arith!Last, Last
    <3> QED
      BY <3>1, <3>2 DEF Arith!Finished
  <2>8. \A i \in DOMAIN sent : Arith!Right(sent[i])
    BY <2>1 DEF ArithFinishes
  <2> QED
    BY <2>2, <2>4, <2>5, <2>6, <2>7, <2>8
<1> HIDE DEF Claim
<1>4. ASSUME ArithPuzzle PROVE Arith!Init /\ [][Arith!Next]_boardVars => []Claim
  BY <1>1, <1>2, <1>3, PTL
<1> QED
  BY <1>4 DEF Claim
==============================================================================
