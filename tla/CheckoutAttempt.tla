---------------------------- MODULE CheckoutAttempt ----------------------------
(***************************************************************************)
(* Checkout requests that are retained before Money is asked: attempts.rs  *)
(* with its table, the two calls of the billing service that use it,       *)
(* Money's sessions, and posts whose answer is lost or that arrive late. A *)
(* call is made once, so it names the session id it would choose (a        *)
(* UUIDv7). An erasure deletes a buyer's rows; a sign-in that outlives it  *)
(* in the session cache may still call.                                    *)
(***************************************************************************)
CONSTANTS
    Buyers, Requests,   \* accounts, and the request ids their browsers keep
    Plans,              \* what the body of a request asks for
    Calls,              \* CreateCheckoutAttempt and GetCheckout calls
    None

ASSUME NoneAssumption == None \notin Buyers \cup Requests \cup Plans \cup Calls

VARIABLES
    attempts,   \* checkout_attempts, by user_id and request_id
    newest,     \* the request of a buyer's last inserted row
    sessions,   \* Money's checkout sessions, by the id the api chose
    wire,       \* ids whose post was given up and may still reach Money
    calls,      \* the calls of the billing service
    erased      \* buyers whose account was erased

vars == <<attempts, newest, sessions, wire, calls, erased>>

NoRow == [id |-> None, plan |-> None, state |-> "absent"]
NoSession == [buyer |-> None, plan |-> None]
Unasked == [pc |-> "new", op |-> "get", buyer |-> None, request |-> None, plan |-> None,
            id |-> None, seen |-> "absent", answer |-> "none"]

Row(c) == attempts[<<calls[c].buyer, calls[c].request>>]
Submission(c) == [buyer |-> calls[c].buyer, plan |-> calls[c].plan]

Init ==
    /\ attempts = [k \in Buyers \X Requests |-> NoRow]
    /\ newest = [b \in Buyers |-> None]
    /\ sessions = [c \in Calls |-> NoSession]
    /\ wire = {} /\ erased = {}
    /\ calls = [c \in Calls |-> Unasked]

Goes(c, pc) == calls' = [calls EXCEPT ![c] = [@ EXCEPT !.pc = pc]]
Answers(c, answer) == calls' = [calls EXCEPT ![c] = [@ EXCEPT !.pc = "done", !.answer = answer]]

(* A missing consent, a plan that is not on sale and a buyer who is        *)
(* entitled already end a call before it reaches the table.                *)
CreateCheckoutAttempt(c) ==
    /\ calls[c].pc = "new"
    /\ \E b \in Buyers, r \in Requests, p \in Plans :
        calls' = [calls EXCEPT ![c] = [Unasked EXCEPT
            !.pc = "insert", !.op = "create", !.buyer = b, !.request = r, !.plan = p]]
    /\ UNCHANGED <<attempts, newest, sessions, wire, erased>>

(* Without a request id the call reads the buyer's most recent one.        *)
GetCheckout(c) ==
    /\ calls[c].pc = "new"
    /\ \E b \in Buyers, r \in Requests \cup {None} :
        calls' = [calls EXCEPT ![c] = [Unasked EXCEPT !.pc = "find", !.buyer = b, !.request = r]]
    /\ UNCHANGED <<attempts, newest, sessions, wire, erased>>

Retain(c) ==
    /\ attempts' = [attempts EXCEPT ![<<calls[c].buyer, calls[c].request>>] =
            [id |-> c, plan |-> calls[c].plan, state |-> "pending"]]
    /\ newest' = [newest EXCEPT ![calls[c].buyer] = calls[c].request]
    /\ Goes(c, "post")

(* Mutant: a request that is still pending gives way to a new one.         *)
BadInsert(c) ==
    /\ calls[c].pc = "insert"
    /\ IF Row(c).state \in {"absent", "pending"} THEN Retain(c)
       ELSE Goes(c, "compare") /\ UNCHANGED <<attempts, newest>>
    /\ UNCHANGED <<sessions, wire, erased>>

(* INSERT ... ON CONFLICT DO NOTHING: only the inserter goes on to post.   *)
Insert(c) ==
    /\ calls[c].pc = "insert"
    /\ IF Row(c) = NoRow THEN Retain(c)
       ELSE Goes(c, "compare") /\ UNCHANGED <<attempts, newest>>
    /\ UNCHANGED <<sessions, wire, erased>>

(* The stored body must be the asked one.                                  *)
Compare(c) ==
    /\ calls[c].pc = "compare"
    /\ IF Row(c) = NoRow THEN Answers(c, "unavailable")
       ELSE IF Row(c).plan # calls[c].plan THEN Answers(c, "changed")
       ELSE Goes(c, "find")
    /\ UNCHANGED <<attempts, newest, sessions, wire, erased>>

(* Mutant: an answer that never came counts as a refusal.                  *)
BadPost(c) ==
    /\ calls[c].pc = "post"
    /\ \/ sessions' = [sessions EXCEPT ![c] = Submission(c)] /\ Goes(c, "created") /\ UNCHANGED wire
       \/ Goes(c, "refused") /\ UNCHANGED <<sessions, wire>>
       \/ wire' = wire \cup {c} /\ Goes(c, "refused") /\ UNCHANGED sessions
    /\ UNCHANGED <<attempts, newest, erased>>

(* Money creates the session, or finds the input invalid; anything else    *)
(* leaves open whether it did, does later, or never will.                  *)
Post(c) ==
    /\ calls[c].pc = "post"
    /\ \/ sessions' = [sessions EXCEPT ![c] = Submission(c)] /\ Goes(c, "created") /\ UNCHANGED wire
       \/ Goes(c, "refused") /\ UNCHANGED <<sessions, wire>>
       \/ Answers(c, "unavailable") /\ UNCHANGED <<sessions, wire>>
       \/ sessions' = [sessions EXCEPT ![c] = Submission(c)] /\ Answers(c, "unavailable") /\ UNCHANGED wire
       \/ wire' = wire \cup {c} /\ Answers(c, "unavailable") /\ UNCHANGED sessions
    /\ UNCHANGED <<attempts, newest, erased>>

Land(c) ==
    /\ c \in wire
    /\ wire' = wire \ {c}
    /\ sessions' = [sessions EXCEPT ![c] = Submission(c)]
    /\ UNCHANGED <<attempts, newest, calls, erased>>

(* UPDATE by user and request: no row, no change.                          *)
Mark(c, state) ==
    attempts' = IF Row(c) = NoRow THEN attempts
                ELSE [attempts EXCEPT ![<<calls[c].buyer, calls[c].request>>] = [@ EXCEPT !.state = state]]

MarkRefused(c) ==
    /\ calls[c].pc = "refused"
    /\ Mark(c, "refused") /\ Answers(c, "refused")
    /\ UNCHANGED <<newest, sessions, wire, erased>>

(* Money's answer names the caller as its subject, or it is not shown.     *)
MarkReady(c) ==
    /\ calls[c].pc \in {"created", "found"}
    /\ LET id == IF calls[c].pc = "created" THEN c ELSE calls[c].id
       IN IF sessions[id].buyer = calls[c].buyer
          THEN /\ Mark(c, "ready")
               /\ calls' = [calls EXCEPT ![c] = [@ EXCEPT !.pc = "done", !.answer = "ready", !.id = id]]
          ELSE Answers(c, "unavailable") /\ UNCHANGED attempts
    /\ UNCHANGED <<newest, sessions, wire, erased>>

(* An attempt without a session: create has no url to answer with.         *)
Unfinished(c, answer) == Answers(c, IF calls[c].op = "create" THEN "pending" ELSE answer)

Find(c) ==
    /\ calls[c].pc = "find"
    /\ LET b == calls[c].buyer
           r == IF calls[c].request = None THEN newest[b] ELSE calls[c].request
           row == attempts[<<b, r>>]
       IN IF r = None THEN Unfinished(c, "absent")
          ELSE IF row.state \in {"absent", "refused"} THEN Unfinished(c, row.state)
          ELSE calls' = [calls EXCEPT ![c] =
                    [@ EXCEPT !.pc = "read", !.request = r, !.id = row.id, !.seen = row.state]]
    /\ UNCHANGED <<attempts, newest, sessions, wire, erased>>

Read(c) ==
    /\ calls[c].pc = "read"
    /\ IF sessions[calls[c].id] # NoSession THEN Goes(c, "found")
       ELSE IF calls[c].seen = "pending" THEN Unfinished(c, "pending")
       ELSE Answers(c, "unavailable")
    /\ UNCHANGED <<attempts, newest, sessions, wire, erased>>

(* The process dies, or the database or a read of Money fails.             *)
Fail(c) ==
    /\ calls[c].pc \notin {"new", "done"}
    /\ Answers(c, "unavailable")
    /\ UNCHANGED <<attempts, newest, sessions, wire, erased>>

Erase(b) ==
    /\ b \notin erased
    /\ erased' = erased \cup {b}
    /\ attempts' = [k \in Buyers \X Requests |-> IF k[1] = b THEN NoRow ELSE attempts[k]]
    /\ newest' = [newest EXCEPT ![b] = None]
    /\ UNCHANGED <<sessions, wire, calls>>

Next ==
    \/ \E c \in Calls :
        \/ CreateCheckoutAttempt(c) \/ Insert(c) \/ Compare(c) \/ Post(c) \/ Land(c)
        \/ GetCheckout(c) \/ Find(c) \/ Read(c) \/ MarkReady(c) \/ MarkRefused(c) \/ Fail(c)
    \/ \E b \in Buyers : Erase(b)

Spec == Init /\ [][Next]_vars

------------------------------------------------------------------------------
CallType ==
    [pc : {"new", "insert", "compare", "post", "created", "refused", "find", "read", "found", "done"},
     op : {"create", "get"}, buyer : Buyers \cup {None}, request : Requests \cup {None},
     plan : Plans \cup {None}, id : Calls \cup {None}, seen : {"absent", "pending", "ready"},
     answer : {"none", "ready", "pending", "changed", "refused", "absent", "unavailable"}]

RowType == [id : Calls \cup {None}, plan : Plans \cup {None},
            state : {"absent", "pending", "ready", "refused"}]

TypeOK ==
    /\ attempts \in [Buyers \X Requests -> RowType]
    /\ newest \in [Buyers -> Requests \cup {None}]
    /\ sessions \in [Calls -> [buyer : Buyers \cup {None}, plan : Plans \cup {None}]]
    /\ wire \subseteq Calls /\ erased \subseteq Buyers
    /\ calls \in [Calls -> CallType]

Open(c) == sessions[c] # NoSession \/ c \in wire
Erased(c) == calls[c].buyer \in erased

(* One request of a buyer has at most one checkout session at Money, and   *)
(* the buyer's readback can find it: whatever was lost, late, repeated or  *)
(* cut off, every session open or on its way is the one the row retains.   *)
OnlyTheRetained == \A c \in Calls : Open(c) /\ ~Erased(c) => Row(c).id = c

(* "ready" and "refused" say what is so at Money for good, and a url that  *)
(* was answered is of the caller's own checkout, for the plan asked for.   *)
ToldIsTrue ==
    /\ \A k \in Buyers \X Requests : LET row == attempts[k] IN k[1] \notin erased =>
        /\ row.state = "ready" => sessions[row.id] = [buyer |-> k[1], plan |-> row.plan]
        /\ row.state = "refused" => ~Open(row.id)
    /\ \A c \in Calls : calls[c].answer = "ready" /\ ~Erased(c) =>
        /\ sessions[calls[c].id].buyer = calls[c].buyer
        /\ calls[c].op = "create" => sessions[calls[c].id].plan = calls[c].plan
==============================================================================
