------------------------ MODULE CheckoutAttemptProofs ------------------------
(***************************************************************************)
(* What TLAPS proves of CheckoutAttempt for any buyers, request ids, plans *)
(* and any number of calls: its type invariant, that a request has at most *)
(* one session, and that what is recorded and answered is so at Money.     *)
(***************************************************************************)
EXTENDS CheckoutAttempt, TLAPS

(* Why they hold: a row is immutable but for its state, and names the call *)
(* that inserted it; only that call posts, once.                           *)
Asked == \A c \in Calls :
    /\ calls[c].pc # "new" => calls[c].buyer \in Buyers
    /\ calls[c].pc \in {"insert", "compare", "post", "created", "refused", "read", "found"}
            \/ (calls[c].op = "create" /\ calls[c].pc # "new")
        => calls[c].request \in Requests

RowsNameTheirCall == \A k \in Buyers \X Requests : attempts[k] # NoRow =>
    LET c == attempts[k].id IN
        /\ attempts[k].state # "absent"
        /\ c \in Calls /\ calls[c].op = "create"
        /\ calls[c].pc \in {"post", "created", "refused", "done"}
        /\ <<calls[c].buyer, calls[c].request>> = k
        /\ attempts[k].plan = calls[c].plan

InsertersRetained == \A c \in Calls : ~Erased(c) =>
    (calls[c].pc \in {"post", "created", "refused"} \/ Open(c) => Row(c).id = c)

OpenedByPosters == \A c \in Calls :
    /\ sessions[c] \in {NoSession, Submission(c)}
    /\ sessions[c] # NoSession => calls[c].op = "create" /\ calls[c].pc \in {"created", "done"}
    /\ c \in wire => calls[c].op = "create" /\ calls[c].pc = "done"
    /\ calls[c].pc \in {"insert", "compare", "post", "created", "refused"} => calls[c].op = "create"
    /\ calls[c].pc = "created" => sessions[c] # NoSession

ReadersFollowRows == \A c \in Calls :
    /\ calls[c].pc \in {"read", "found"} => calls[c].id \in Calls
    /\ calls[c].pc \in {"read", "found"} /\ ~Erased(c) => Row(c).id = calls[c].id
    /\ calls[c].pc \in {"find", "read", "found"} /\ calls[c].op = "create" /\ ~Erased(c)
        => Row(c) # NoRow /\ Row(c).plan = calls[c].plan
    /\ calls[c].pc = "found" => sessions[calls[c].id] # NoSession
    /\ calls[c].answer = "ready" => calls[c].pc = "done" /\ calls[c].id \in Calls

RefusedAreOver == \A k \in Buyers \X Requests :
    k[1] \notin erased /\ attempts[k].state = "refused" => calls[attempts[k].id].pc = "done"

Sound ==
    /\ Asked /\ RowsNameTheirCall /\ InsertersRetained /\ OpenedByPosters
    /\ ReadersFollowRows /\ RefusedAreOver /\ ToldIsTrue

\* Inductive; implies OnlyTheRetained and ToldIsTrue.
CheckoutInv == TypeOK /\ Sound

------------------------------------------------------------------------------
LEMMA TypeInit == Init => TypeOK
<1> SUFFICES ASSUME Init PROVE TypeOK
  OBVIOUS
<1>1. NoRow \in RowType /\ Unasked \in CallType
  BY DEF NoRow, RowType, Unasked, CallType
<1> QED
  BY <1>1 DEF Init, TypeOK, NoSession

Outcomes == {"ready", "pending", "changed", "refused", "absent", "unavailable"}

LEMMA AnsweredType == ASSUME NEW u \in CallType, NEW a \in Outcomes
                      PROVE [u EXCEPT !.pc = "done", !.answer = a] \in CallType
  BY DEF CallType, Outcomes

LEMMA ReadyType == ASSUME NEW u \in CallType, NEW id \in Calls \cup {None}
                   PROVE [u EXCEPT !.pc = "done", !.answer = "ready", !.id = id] \in CallType
  BY DEF CallType

LEMMA ReadType == ASSUME NEW u \in CallType, NEW r \in Requests \cup {None}, NEW id \in Calls \cup {None},
                         NEW seen \in {"pending", "ready"}
                  PROVE [u EXCEPT !.pc = "read", !.request = r, !.id = id, !.seen = seen] \in CallType
  BY DEF CallType

LEMMA MarkedType == ASSUME NEW row \in RowType, NEW state \in {"ready", "refused"}
                    PROVE [row EXCEPT !.state = state] \in RowType
  BY DEF RowType

LEMMA TypeStep == TypeOK /\ Asked /\ RowsNameTheirCall /\ [Next]_vars => TypeOK'
<1> SUFFICES ASSUME TypeOK, Asked, RowsNameTheirCall, [Next]_vars PROVE TypeOK'
  OBVIOUS
<1> USE DEF TypeOK
<1>1. ASSUME NEW c \in Calls, CreateCheckoutAttempt(c) PROVE TypeOK'
  <2>1. PICK b \in Buyers, r \in Requests, p \in Plans :
        calls' = [calls EXCEPT ![c] = [Unasked EXCEPT
            !.pc = "insert", !.op = "create", !.buyer = b, !.request = r, !.plan = p]]
    BY <1>1 DEF CreateCheckoutAttempt
  <2>2. calls'[c] \in CallType
    BY <2>1 DEF CallType, Unasked
  <2> QED
    BY <1>1, <2>1, <2>2 DEF CreateCheckoutAttempt
<1>2. ASSUME NEW c \in Calls, GetCheckout(c) PROVE TypeOK'
  <2>1. PICK b \in Buyers, r \in Requests \cup {None} :
        calls' = [calls EXCEPT ![c] = [Unasked EXCEPT !.pc = "find", !.buyer = b, !.request = r]]
    BY <1>2 DEF GetCheckout
  <2>2. calls'[c] \in CallType
    BY <2>1 DEF CallType, Unasked
  <2> QED
    BY <1>2, <2>1, <2>2 DEF GetCheckout
<1>3. ASSUME NEW c \in Calls, NEW pc \in {"post", "compare", "find", "created", "refused", "found"}, Goes(c, pc)
      PROVE calls' \in [Calls -> CallType]
  BY <1>3 DEF Goes, CallType
<1>4. ASSUME NEW c \in Calls,
             NEW a \in Outcomes, Answers(c, a)
      PROVE calls' \in [Calls -> CallType]
  <2> DEFINE v == [calls[c] EXCEPT !.pc = "done", !.answer = a]
  <2>1. v \in CallType
    BY AnsweredType
  <2>2. calls' = [calls EXCEPT ![c] = v]
    BY <1>4 DEF Answers
  <2> HIDE DEF v
  <2> QED
    BY <2>1, <2>2
<1>5. ASSUME NEW c \in Calls, Insert(c) PROVE TypeOK'
  <2>1. CASE Row(c) = NoRow
    <3>1. [id |-> c, plan |-> calls[c].plan, state |-> "pending"] \in RowType
      BY DEF RowType, CallType
    <3>2. calls[c].request \in Requests /\ calls[c].buyer \in Buyers
      BY <1>5 DEF Insert, Asked
    <3> QED
      BY <1>3, <1>5, <2>1, <3>1, <3>2 DEF Insert, Retain
  <2>2. CASE Row(c) # NoRow
    BY <1>3, <1>5, <2>2 DEF Insert
  <2> QED
    BY <2>1, <2>2
<1>6. ASSUME NEW c \in Calls, Compare(c) PROVE TypeOK'
  BY <1>3, <1>4, <1>6 DEF Compare, Outcomes
<1>7. ASSUME NEW c \in Calls PROVE [sessions EXCEPT ![c] = Submission(c)] \in
        [Calls -> [buyer : Buyers \cup {None}, plan : Plans \cup {None}]]
  <2>1. Submission(c) \in [buyer : Buyers \cup {None}, plan : Plans \cup {None}]
    BY DEF Submission, CallType
  <2> QED
    BY <2>1
<1>8. ASSUME NEW c \in Calls, Post(c) PROVE TypeOK'
  BY <1>3, <1>4, <1>7, <1>8 DEF Post, Outcomes
<1>9. ASSUME NEW c \in Calls, Land(c) PROVE TypeOK'
  BY <1>7, <1>9 DEF Land
<1>10. ASSUME NEW c \in Calls, NEW state \in {"ready", "refused"}, Mark(c, state)
       PROVE attempts' \in [Buyers \X Requests -> RowType]
  <2> DEFINE k == <<calls[c].buyer, calls[c].request>>
  <2>1. CASE k \in Buyers \X Requests
    <3> DEFINE v == [attempts[k] EXCEPT !.state = state]
    <3>1. v \in RowType
      BY <2>1, MarkedType
    <3>2. attempts' = attempts \/ attempts' = [attempts EXCEPT ![k] = v]
      BY <1>10 DEF Mark
    <3> HIDE DEF v, k
    <3> QED
      BY <2>1, <3>1, <3>2
  <2>2. CASE k \notin Buyers \X Requests
    <3>1. attempts' = attempts \/ \E v : attempts' = [attempts EXCEPT ![k] = v]
      BY <1>10 DEF Mark
    <3> QED
      BY <2>2, <3>1
  <2> QED
    BY <2>1, <2>2
<1>11. ASSUME NEW c \in Calls, MarkRefused(c) PROVE TypeOK'
  BY <1>4, <1>10, <1>11 DEF MarkRefused, Outcomes
<1>12. ASSUME NEW c \in Calls, MarkReady(c) PROVE TypeOK'
  <2> DEFINE id == IF calls[c].pc = "created" THEN c ELSE calls[c].id
  <2>1. id \in Calls \cup {None}
    BY DEF CallType
  <2>2. CASE sessions[id].buyer = calls[c].buyer
    <3>1. calls' = [calls EXCEPT ![c] = [calls[c] EXCEPT !.pc = "done", !.answer = "ready", !.id = id]]
      BY <1>12, <2>2 DEF MarkReady
    <3>2. calls' \in [Calls -> CallType]
      <4> HIDE DEF id
      <4> DEFINE v == [calls[c] EXCEPT !.pc = "done", !.answer = "ready", !.id = id]
      <4>1. v \in CallType
        BY <2>1, ReadyType
      <4>2. calls' = [calls EXCEPT ![c] = v]
        BY <3>1
      <4> HIDE DEF v
      <4> QED
        BY <4>1, <4>2
    <3> QED
      BY <1>10, <1>12, <2>2, <3>2 DEF MarkReady
  <2>3. CASE sessions[id].buyer # calls[c].buyer
    BY <1>4, <1>12, <2>3 DEF MarkReady, Outcomes
  <2> QED
    BY <2>2, <2>3
<1>13. ASSUME NEW c \in Calls, NEW a \in {"refused", "absent", "pending"}, Unfinished(c, a)
       PROVE calls' \in [Calls -> CallType]
  BY <1>4, <1>13 DEF Unfinished, Outcomes
<1>14. ASSUME NEW c \in Calls, Find(c) PROVE TypeOK'
  <2> DEFINE r == IF calls[c].request = None THEN newest[calls[c].buyer] ELSE calls[c].request
             row == attempts[<<calls[c].buyer, r>>]
  <2>1. calls[c].buyer \in Buyers /\ r \in Requests \cup {None}
    BY <1>14 DEF Find, Asked, CallType
  <2>2. CASE r = None \/ row.state \in {"absent", "refused"}
    BY <1>13, <1>14, <2>2 DEF Find
  <2>3. CASE r # None /\ row.state \notin {"absent", "refused"}
    <3>1. row \in RowType
      BY <2>1, <2>3
    <3>2. row.state \in {"pending", "ready"}
      BY <2>3, <3>1 DEF RowType
    <3>3. calls' = [calls EXCEPT ![c] =
          [calls[c] EXCEPT !.pc = "read", !.request = r, !.id = row.id, !.seen = row.state]]
      BY <1>14, <2>3 DEF Find
    <3>4. calls' \in [Calls -> CallType]
      <4> HIDE DEF r, row
      <4>1. row.id \in Calls \cup {None}
        BY <3>1 DEF RowType
      <4> DEFINE v == [calls[c] EXCEPT !.pc = "read", !.request = r, !.id = row.id, !.seen = row.state]
      <4>2. v \in CallType
        BY <2>1, <3>2, <4>1, ReadType
      <4>3. calls' = [calls EXCEPT ![c] = v]
        BY <3>3
      <4> HIDE DEF v
      <4> QED
        BY <4>2, <4>3
    <3> QED
      BY <1>14, <3>4 DEF Find
  <2> QED
    BY <2>2, <2>3
<1>15. ASSUME NEW c \in Calls, Read(c) PROVE TypeOK'
  BY <1>3, <1>4, <1>13, <1>15 DEF Read, Outcomes
<1>16. ASSUME NEW c \in Calls, Fail(c) PROVE TypeOK'
  BY <1>4, <1>16 DEF Fail, Outcomes
<1>17. ASSUME NEW b \in Buyers, Erase(b) PROVE TypeOK'
  <2>1. NoRow \in RowType
    BY DEF NoRow, RowType
  <2> QED
    BY <1>17, <2>1 DEF Erase
<1>18. CASE UNCHANGED vars
  BY <1>18 DEF vars
<1> QED
  BY <1>1, <1>2, <1>5, <1>6, <1>8, <1>9, <1>11, <1>12, <1>14, <1>15, <1>16, <1>17, <1>18 DEF Next
------------------------------------------------------------------------------
(* What a step does to the calls: c keeps what it asks, the others stand.  *)
Kept(c) ==
    /\ \A d \in Calls \ {c} : calls'[d] = calls[d]
    /\ calls'[c].op = calls[c].op /\ calls'[c].buyer = calls[c].buyer
    /\ calls'[c].request = calls[c].request /\ calls'[c].plan = calls[c].plan

LEMMA GoesEffect == ASSUME TypeOK, NEW c \in Calls, NEW pc, Goes(c, pc)
    PROVE /\ Kept(c) /\ calls'[c].pc = pc
          /\ calls'[c].id = calls[c].id /\ calls'[c].answer = calls[c].answer
  BY DEF TypeOK, CallType, Goes, Kept

LEMMA AnswersEffect == ASSUME TypeOK, NEW c \in Calls, NEW a, Answers(c, a)
    PROVE /\ Kept(c) /\ calls'[c].pc = "done"
          /\ calls'[c].id = calls[c].id /\ calls'[c].answer = a
  BY DEF TypeOK, CallType, Answers, Kept

(* What a mark does to the rows: at most the state of one of them changes. *)
MarkedRow(key, state) ==
    \A k \in Buyers \X Requests :
        /\ attempts'[k].id = attempts[k].id /\ attempts'[k].plan = attempts[k].plan
        /\ attempts'[k].state = IF k = key /\ attempts[k] # NoRow THEN state ELSE attempts[k].state
        /\ attempts'[k] = NoRow <=> attempts[k] = NoRow

LEMMA MarkEffect ==
    ASSUME TypeOK, RowsNameTheirCall, NEW c \in Calls, NEW state \in {"ready", "refused"}, Mark(c, state),
           <<calls[c].buyer, calls[c].request>> \in Buyers \X Requests
    PROVE  MarkedRow(<<calls[c].buyer, calls[c].request>>, state)
<1> DEFINE key == <<calls[c].buyer, calls[c].request>>
<1>1. CASE attempts[key] = NoRow
  BY <1>1 DEF Mark, Row, MarkedRow
<1>2. CASE attempts[key] # NoRow
  <2>1. attempts' = [attempts EXCEPT ![key] = [attempts[key] EXCEPT !.state = state]]
    BY <1>2 DEF Mark, Row
  <2>2. \A k \in (Buyers \X Requests) \ {key} : attempts'[k] = attempts[k]
    BY <2>1 DEF TypeOK
  <2>3. /\ attempts'[key].id = attempts[key].id /\ attempts'[key].plan = attempts[key].plan
        /\ attempts'[key].state = state
    BY <2>1 DEF TypeOK, RowType
  <2>4. attempts'[key] # NoRow
    BY <2>3 DEF NoRow
  <2> QED
    BY <1>2, <2>2, <2>3, <2>4 DEF MarkedRow
<1> QED
  BY <1>1, <1>2

LEMMA MarkedRows ==
    ASSUME NEW key, NEW state, MarkedRow(key, state), NEW c \in Calls,
           <<calls[c].buyer, calls[c].request>> \in Buyers \X Requests,
           calls'[c].buyer = calls[c].buyer, calls'[c].request = calls[c].request
    PROVE  /\ Row(c)'.id = Row(c).id /\ Row(c)'.plan = Row(c).plan
           /\ Row(c)' = NoRow <=> Row(c) = NoRow
  BY DEF MarkedRow, Row

(* A call that ends without a url.                                         *)
LEMMA EndKeeps == ASSUME CheckoutInv, NEW c \in Calls, NEW a \in Outcomes \ {"ready"}, Answers(c, a),
                         calls[c].pc # "new", UNCHANGED <<attempts, newest, sessions, wire, erased>>
                  PROVE  Sound'
<1> USE DEF CheckoutInv, Sound
<1>1. /\ Kept(c) /\ calls'[c].pc = "done"
      /\ calls'[c].id = calls[c].id /\ calls'[c].answer = a
  BY AnswersEffect
<1>2. Asked'
  BY <1>1 DEF Asked, Kept
<1>3. RowsNameTheirCall'
  BY <1>1 DEF RowsNameTheirCall, Kept
<1>4. InsertersRetained'
  BY <1>1 DEF InsertersRetained, Kept, Row, Erased, Open
<1>5. OpenedByPosters'
  BY <1>1 DEF OpenedByPosters, Kept, Submission
<1>6. ReadersFollowRows'
  BY <1>1 DEF ReadersFollowRows, Kept, Row, Erased
<1>7. RefusedAreOver'
  BY <1>1 DEF RefusedAreOver, RowsNameTheirCall, Kept, NoRow
<1>8. ToldIsTrue'
  BY <1>1 DEF ToldIsTrue, ReadersFollowRows, Kept, Erased, Open, Outcomes
<1> QED
  BY <1>2, <1>3, <1>4, <1>5, <1>6, <1>7, <1>8

(* A call that only goes on: the new row, answer or session it relies on   *)
(* is there.                                                               *)
LEMMA GoesKeeps == ASSUME CheckoutInv, NEW c \in Calls, NEW pc, Goes(c, pc),
                          UNCHANGED <<attempts, newest, sessions, wire, erased>>,
                          \/ calls[c].pc = "insert" /\ pc = "compare"
                          \/ calls[c].pc = "compare" /\ pc = "find" /\ Row(c) # NoRow /\ Row(c).plan = calls[c].plan
                          \/ calls[c].pc = "post" /\ pc = "refused"
                          \/ calls[c].pc = "read" /\ pc = "found" /\ sessions[calls[c].id] # NoSession
                   PROVE  Sound'
<1> USE DEF CheckoutInv, Sound
<1>1. /\ Kept(c) /\ calls'[c].pc = pc
      /\ calls'[c].id = calls[c].id /\ calls'[c].answer = calls[c].answer
  BY GoesEffect
<1>2. Asked'
  BY <1>1 DEF Asked, Kept
<1>3. RowsNameTheirCall'
  BY <1>1 DEF RowsNameTheirCall, Kept
<1>4. InsertersRetained'
  BY <1>1 DEF InsertersRetained, Kept, Row, Erased, Open
<1>5. OpenedByPosters'
  BY <1>1 DEF OpenedByPosters, Kept, Submission
<1>6. ReadersFollowRows'
  BY <1>1 DEF ReadersFollowRows, Kept, Row, Erased
<1>7. RefusedAreOver'
  BY <1>1 DEF RefusedAreOver, RowsNameTheirCall, Kept, NoRow
<1>8. ToldIsTrue'
  BY <1>1 DEF ToldIsTrue, ReadersFollowRows, Kept, Erased, Open
<1> QED
  BY <1>2, <1>3, <1>4, <1>5, <1>6, <1>7, <1>8

(* A call that begins is named by no row and no session.                   *)
LEMMA BeginKeeps == ASSUME CheckoutInv, NEW c \in Calls, CreateCheckoutAttempt(c) \/ GetCheckout(c)
                    PROVE  Sound'
<1> USE DEF CheckoutInv, Sound
<1>1. /\ calls[c].pc = "new"
      /\ UNCHANGED <<attempts, newest, sessions, wire, erased>>
      /\ \A d \in Calls \ {c} : calls'[d] = calls[d]
      /\ calls'[c].buyer \in Buyers
      /\ calls'[c].id = None /\ calls'[c].answer = "none"
      /\ \/ calls'[c].pc = "insert" /\ calls'[c].op = "create" /\ calls'[c].request \in Requests
         \/ calls'[c].pc = "find" /\ calls'[c].op = "get"
  <2>1. CASE CreateCheckoutAttempt(c)
    <3>1. PICK b \in Buyers, r \in Requests, p \in Plans :
          calls' = [calls EXCEPT ![c] = [Unasked EXCEPT
              !.pc = "insert", !.op = "create", !.buyer = b, !.request = r, !.plan = p]]
      BY <2>1 DEF CreateCheckoutAttempt
    <3> QED
      BY <2>1, <3>1 DEF CreateCheckoutAttempt, Unasked, TypeOK
  <2>2. CASE GetCheckout(c)
    <3>1. PICK b \in Buyers, r \in Requests \cup {None} :
          calls' = [calls EXCEPT ![c] = [Unasked EXCEPT !.pc = "find", !.buyer = b, !.request = r]]
      BY <2>2 DEF GetCheckout
    <3> QED
      BY <2>2, <3>1 DEF GetCheckout, Unasked, TypeOK
  <2> QED
    BY <2>1, <2>2
<1>2. sessions[c] = NoSession /\ c \notin wire
  BY <1>1 DEF OpenedByPosters
<1>3. Asked'
  BY <1>1 DEF Asked
<1>4. \A k \in Buyers \X Requests : attempts[k] # NoRow => attempts[k].id # c
  BY <1>1 DEF RowsNameTheirCall
<1>5. RowsNameTheirCall'
  BY <1>1, <1>4 DEF RowsNameTheirCall
<1>6. InsertersRetained'
  BY <1>1, <1>2 DEF InsertersRetained, Row, Erased, Open
<1>7. OpenedByPosters'
  BY <1>1, <1>2 DEF OpenedByPosters, Submission
<1>8. ReadersFollowRows'
  BY <1>1 DEF ReadersFollowRows, Row, Erased
<1>9. RefusedAreOver'
  BY <1>1, <1>4 DEF RefusedAreOver, RowsNameTheirCall, NoRow
<1>10. ToldIsTrue'
  BY <1>1 DEF ToldIsTrue, ReadersFollowRows, Erased, Open
<1> QED
  BY <1>3, <1>5, <1>6, <1>7, <1>8, <1>9, <1>10

(* The first insert of a request: nobody else holds, reads or posted it.   *)
LEMMA RetainKeeps == ASSUME CheckoutInv, NEW c \in Calls, calls[c].pc = "insert", Row(c) = NoRow, Retain(c),
                            UNCHANGED <<sessions, wire, erased>>, calls[c].op = "create"
                     PROVE  Sound'
<1> USE NoneAssumption DEF CheckoutInv, Sound
<1> DEFINE key == <<calls[c].buyer, calls[c].request>>
           row == [id |-> c, plan |-> calls[c].plan, state |-> "pending"]
<1>1. /\ Kept(c) /\ calls'[c].pc = "post"
      /\ calls'[c].id = calls[c].id /\ calls'[c].answer = calls[c].answer
  BY GoesEffect DEF Retain
<1>2. key \in Buyers \X Requests
  BY DEF Asked
<1>3. attempts' = [attempts EXCEPT ![key] = row]
  BY DEF Retain
<1>4. attempts[key] = NoRow
  BY DEF Row
<1>5. attempts'[key] = row /\ \A k \in (Buyers \X Requests) \ {key} : attempts'[k] = attempts[k]
  BY <1>2, <1>3 DEF TypeOK
<1>6. NoRow.id \notin Calls
  BY DEF NoRow
<1>7. sessions[c] = NoSession /\ c \notin wire
  BY DEF OpenedByPosters
<1>8. \A k \in Buyers \X Requests : attempts[k] # NoRow => attempts[k].id # c
  BY DEF RowsNameTheirCall
<1> HIDE DEF key
<1>9. Asked'
  BY <1>1 DEF Asked, Kept
<1>10. RowsNameTheirCall'
  BY <1>1, <1>2, <1>5, <1>8 DEF RowsNameTheirCall, Kept, key
<1>11. InsertersRetained'
  <2> SUFFICES ASSUME NEW d \in Calls, ~Erased(d)', calls'[d].pc \in {"post", "created", "refused"} \/ Open(d)'
               PROVE Row(d)'.id = d
    BY DEF InsertersRetained
  <2>1. CASE d = c
    BY <1>1, <1>2, <1>5, <2>1 DEF Row, Kept, key
  <2>2. CASE d # c
    <3>1. Row(d).id = d /\ calls'[d] = calls[d]
      BY <1>1, <2>2 DEF InsertersRetained, Kept, Erased, Open
    <3>2. calls[d].op = "create" /\ calls[d].pc # "new"
      BY <1>1, <2>2 DEF OpenedByPosters, Open, Kept
    <3>3. <<calls[d].buyer, calls[d].request>> \in (Buyers \X Requests) \ {key}
      BY <1>4, <1>6, <3>1, <3>2 DEF Asked, Row
    <3> QED
      BY <1>5, <3>1, <3>3 DEF Row
  <2> QED
    BY <2>1, <2>2
<1>12. OpenedByPosters'
  BY <1>1, <1>7 DEF OpenedByPosters, Kept, Submission
<1>13. ReadersFollowRows'
  <2> SUFFICES ASSUME NEW d \in Calls
               PROVE /\ calls'[d].pc \in {"read", "found"} => calls'[d].id \in Calls
                     /\ calls'[d].pc \in {"read", "found"} /\ ~Erased(d)' => Row(d)'.id = calls'[d].id
                     /\ calls'[d].pc \in {"find", "read", "found"} /\ calls'[d].op = "create" /\ ~Erased(d)'
                        => Row(d)' # NoRow /\ Row(d)'.plan = calls'[d].plan
                     /\ calls'[d].pc = "found" => sessions'[calls'[d].id] # NoSession
                     /\ calls'[d].answer = "ready" => calls'[d].pc = "done" /\ calls'[d].id \in Calls
    BY DEF ReadersFollowRows
  <2>1. CASE d = c
    BY <1>1, <2>1 DEF ReadersFollowRows
  <2>2. CASE d # c
    <3>1. calls'[d] = calls[d]
      BY <1>1, <2>2 DEF Kept
    <3>2. ASSUME ~Erased(d), calls[d].pc \in {"read", "found"} \/ (calls[d].pc = "find" /\ calls[d].op = "create")
          PROVE Row(d)' = Row(d)
      <4>1. Row(d) # NoRow
        BY <1>6, <3>2 DEF ReadersFollowRows
      <4>2. <<calls[d].buyer, calls[d].request>> \in (Buyers \X Requests) \ {key}
        BY <1>4, <3>2, <4>1 DEF Asked, Row
      <4> QED
        BY <1>5, <3>1, <4>2 DEF Row
    <3> QED
      BY <3>1, <3>2 DEF ReadersFollowRows, Erased
  <2> QED
    BY <2>1, <2>2
<1>14. RefusedAreOver'
  BY <1>1, <1>2, <1>5, <1>8 DEF RefusedAreOver, RowsNameTheirCall, Kept, NoRow
<1>15. ToldIsTrue'
  BY <1>1, <1>2, <1>5, <1>7 DEF ToldIsTrue, Kept, Erased, Open
<1> QED
  BY <1>9, <1>10, <1>11, <1>12, <1>13, <1>14, <1>15

(* Only the call that inserted the row posts, and it posts its row.        *)
LEMMA PostKeeps == ASSUME CheckoutInv, NEW c \in Calls, Post(c)
                   PROVE  Sound'
<1> USE NoneAssumption DEF CheckoutInv, Sound
<1>1. UNCHANGED <<attempts, newest, erased>> /\ calls[c].pc = "post" /\ calls[c].op = "create"
  BY DEF Post, OpenedByPosters
<1>2. PICK pc \in {"created", "refused", "done"} :
      /\ Kept(c) /\ calls'[c].pc = pc /\ calls'[c].id = calls[c].id /\ calls'[c].answer # "ready"
      /\ sessions' = sessions \/ sessions' = [sessions EXCEPT ![c] = Submission(c)]
      /\ wire' = wire \/ (wire' = wire \cup {c} /\ pc = "done")
      /\ sessions' # sessions => pc \in {"created", "done"}
      /\ pc = "created" => sessions' = [sessions EXCEPT ![c] = Submission(c)]
      /\ pc = "refused" => sessions' = sessions
  <2>1. CASE Goes(c, "created") /\ sessions' = [sessions EXCEPT ![c] = Submission(c)] /\ UNCHANGED wire
    BY <1>1, <2>1, GoesEffect DEF ReadersFollowRows
  <2>2. CASE Goes(c, "refused") /\ UNCHANGED <<sessions, wire>>
    BY <1>1, <2>2, GoesEffect DEF ReadersFollowRows
  <2>3. CASE /\ Answers(c, "unavailable")
             /\ \/ UNCHANGED <<sessions, wire>>
                \/ sessions' = [sessions EXCEPT ![c] = Submission(c)] /\ UNCHANGED wire
                \/ wire' = wire \cup {c} /\ UNCHANGED sessions
    BY <1>1, <2>3, AnswersEffect
  <2> QED
    BY <2>1, <2>2, <2>3 DEF Post
<1>3. /\ sessions[c] = NoSession /\ c \notin wire
      /\ \A d \in Calls \ {c} : sessions'[d] = sessions[d] /\ (d \in wire' <=> d \in wire)
      /\ sessions'[c] \in {NoSession, Submission(c)}
      /\ pc = "created" => sessions'[c] = Submission(c)
      /\ pc = "refused" => sessions'[c] = NoSession /\ c \notin wire'
  BY <1>1, <1>2 DEF OpenedByPosters, TypeOK
<1>4. Submission(c) # NoSession /\ Submission(c)' = Submission(c)
  BY <1>1, <1>2 DEF Submission, NoSession, Asked, Kept
<1>5. Asked'
  BY <1>1, <1>2 DEF Asked, Kept
<1>6. RowsNameTheirCall'
  BY <1>1, <1>2 DEF RowsNameTheirCall, Kept
<1>7. InsertersRetained'
  BY <1>1, <1>2, <1>3 DEF InsertersRetained, Kept, Row, Erased, Open
<1>8. OpenedByPosters'
  BY <1>1, <1>2, <1>3, <1>4 DEF OpenedByPosters, Kept, Submission
<1>9. ReadersFollowRows'
  BY <1>1, <1>2, <1>3 DEF ReadersFollowRows, Kept, Row, Erased
<1>10. RefusedAreOver'
  BY <1>1, <1>2 DEF RefusedAreOver, RowsNameTheirCall, Kept, NoRow
<1>11. ToldIsTrue'
  <2>1. ASSUME NEW k \in Buyers \X Requests, k[1] \notin erased, attempts[k].state \in {"ready", "refused"}
        PROVE attempts[k].id \in Calls \ {c}
    <3>1. attempts[k].id \in Calls
      BY <2>1 DEF RowsNameTheirCall, NoRow
    <3>2. attempts[k].state = "refused" => attempts[k].id # c
      BY <1>1, <2>1 DEF RefusedAreOver
    <3>3. attempts[k].state = "ready" => attempts[k].id # c
      <4>1. attempts[k].state = "ready" /\ attempts[k].id = c => sessions[c] = [buyer |-> k[1], plan |-> attempts[k].plan]
        BY <2>1 DEF ToldIsTrue
      <4> QED
        BY <1>3, <4>1 DEF NoSession
    <3> QED
      BY <2>1, <3>1, <3>2, <3>3
  <2>2. ASSUME NEW d \in Calls, calls'[d].answer = "ready", ~Erased(d)'
        PROVE d # c /\ calls'[d] = calls[d] /\ calls[d].id # c
    <3>1. d # c /\ calls'[d] = calls[d] /\ ~Erased(d)
      BY <1>1, <1>2, <2>2 DEF Kept, Erased
    <3>2. sessions[calls[d].id].buyer = calls[d].buyer /\ calls[d].buyer \in Buyers
      BY <2>2, <3>1 DEF ToldIsTrue, Asked, ReadersFollowRows
    <3> QED
      BY <1>3, <3>1, <3>2 DEF NoSession
  <2>3. \A d \in Calls : calls'[d].answer = "ready" => calls'[d].id \in Calls
    BY <1>9 DEF ReadersFollowRows
  <2> QED
    BY <1>1, <1>3, <2>1, <2>2, <2>3 DEF ToldIsTrue, Erased, Open
<1> QED
  BY <1>5, <1>6, <1>7, <1>8, <1>9, <1>10, <1>11

(* A post that was given up opens the session its row retains.             *)
LEMMA LandKeeps == ASSUME CheckoutInv, NEW c \in Calls, Land(c)
                   PROVE  Sound'
<1> USE NoneAssumption DEF CheckoutInv, Sound
<1>1. /\ UNCHANGED <<attempts, newest, calls, erased>> /\ c \in wire /\ wire' = wire \ {c}
      /\ sessions'[c] = Submission(c) /\ \A d \in Calls \ {c} : sessions'[d] = sessions[d]
  BY DEF Land, TypeOK
<1>2. Submission(c) # NoSession /\ calls[c].op = "create" /\ calls[c].pc = "done"
  BY <1>1 DEF Submission, NoSession, Asked, OpenedByPosters
<1>3. sessions[c] \in {NoSession, Submission(c)} /\ \A d \in Calls : sessions[d] # NoSession => sessions'[d] = sessions[d]
  BY <1>1 DEF OpenedByPosters
<1>4. \A d \in Calls : Open(d)' <=> Open(d)
  BY <1>1, <1>2 DEF Open
<1>5. Asked'
  BY <1>1 DEF Asked
<1>6. RowsNameTheirCall'
  BY <1>1 DEF RowsNameTheirCall
<1>7. InsertersRetained'
  BY <1>1, <1>4 DEF InsertersRetained, Row, Erased
<1>8. OpenedByPosters'
  BY <1>1, <1>2 DEF OpenedByPosters, Submission
<1>9. ReadersFollowRows'
  BY <1>1, <1>3 DEF ReadersFollowRows, Row, Erased
<1>10. RefusedAreOver'
  BY <1>1 DEF RefusedAreOver
<1>11. ToldIsTrue'
  <2>1. ASSUME NEW k \in Buyers \X Requests, k[1] \notin erased, attempts[k].state \in {"ready", "refused"}
        PROVE /\ attempts[k].id \in Calls
              /\ attempts[k].state = "ready" => sessions[attempts[k].id] # NoSession
    <3>1. attempts[k].id \in Calls
      BY <2>1 DEF RowsNameTheirCall, NoRow
    <3>2. k[1] # None
      BY <2>1
    <3>3. attempts[k].state = "ready" =>
             sessions[attempts[k].id] = [buyer |-> k[1], plan |-> attempts[k].plan]
      BY <2>1 DEF ToldIsTrue
    <3> QED
      BY <3>1, <3>2, <3>3 DEF NoSession
  <2>2. ASSUME NEW d \in Calls, calls[d].answer = "ready", ~Erased(d)
        PROVE calls[d].id \in Calls /\ sessions[calls[d].id] # NoSession
    BY <2>2 DEF ToldIsTrue, Asked, ReadersFollowRows, NoSession
  <2> QED
    BY <1>1, <1>3, <1>4, <2>1, <2>2 DEF ToldIsTrue, Erased
<1> QED
  BY <1>5, <1>6, <1>7, <1>8, <1>9, <1>10, <1>11

(* A mark leaves every call with the row it had.                           *)
MarkingCall(c) ==
    /\ UNCHANGED <<newest, sessions, wire, erased>>
    /\ Kept(c) /\ calls'[c].pc = "done" /\ calls[c].pc \in {"created", "found", "refused"}
    /\ calls'[c].answer = "ready" => calls'[c].id \in Calls

LEMMA MarkedInserters == ASSUME CheckoutInv, NEW c \in Calls, NEW key, NEW state, MarkedRow(key, state), MarkingCall(c)
                         PROVE  InsertersRetained'
<1> USE DEF CheckoutInv, Sound, MarkingCall
<1> SUFFICES ASSUME NEW d \in Calls, ~Erased(d)', calls'[d].pc \in {"post", "created", "refused"} \/ Open(d)'
             PROVE Row(d)'.id = d
  BY DEF InsertersRetained
<1>1. calls'[d].buyer = calls[d].buyer /\ calls'[d].request = calls[d].request
  BY DEF Kept
<1>2. Row(d).id = d
  BY DEF InsertersRetained, Kept, Erased, Open
<1>3. calls[d].op = "create" /\ calls[d].pc # "new"
  BY DEF OpenedByPosters, Open, Kept
<1>4. <<calls[d].buyer, calls[d].request>> \in Buyers \X Requests
  BY <1>3 DEF Asked
<1> QED
  BY <1>1, <1>2, <1>4, MarkedRows

LEMMA MarkedReaders == ASSUME CheckoutInv, NEW c \in Calls, NEW key, NEW state, MarkedRow(key, state), MarkingCall(c)
                       PROVE  ReadersFollowRows'
<1> USE DEF CheckoutInv, Sound, MarkingCall
<1>1. ASSUME NEW d \in Calls, d # c PROVE calls'[d] = calls[d]
  BY <1>1 DEF Kept
<1>2. ASSUME NEW d \in Calls, d # c,
             calls[d].pc \in {"read", "found"} \/ (calls[d].pc = "find" /\ calls[d].op = "create")
      PROVE  Row(d)'.id = Row(d).id /\ Row(d)'.plan = Row(d).plan /\ (Row(d)' = NoRow <=> Row(d) = NoRow)
  <2>1. <<calls[d].buyer, calls[d].request>> \in Buyers \X Requests
    BY <1>2 DEF Asked
  <2> QED
    BY <1>1, <1>2, <2>1, MarkedRows
<1> QED
  BY <1>1, <1>2 DEF ReadersFollowRows, Erased

(* A refusal is recorded on the row of the call that was refused.          *)
LEMMA RefusedKeeps == ASSUME CheckoutInv, NEW c \in Calls, MarkRefused(c)
                      PROVE  Sound'
<1> USE NoneAssumption DEF CheckoutInv, Sound
<1> DEFINE key == <<calls[c].buyer, calls[c].request>>
<1>1. /\ UNCHANGED <<newest, sessions, wire, erased>> /\ calls[c].pc = "refused" /\ calls[c].op = "create"
      /\ Kept(c) /\ calls'[c].pc = "done" /\ calls'[c].id = calls[c].id /\ calls'[c].answer = "refused"
  BY AnswersEffect DEF MarkRefused, OpenedByPosters
<1>2. MarkedRow(key, "refused")
  BY MarkEffect, <1>1 DEF MarkRefused, Asked
<1>3. key \in Buyers \X Requests /\ (~Erased(c) => attempts[key].id = c) /\ ~Open(c)
  BY <1>1 DEF Asked, InsertersRetained, OpenedByPosters, Open, Row
<1> HIDE DEF key
<1>4. Asked'
  BY <1>1 DEF Asked, Kept
<1>5. RowsNameTheirCall'
  BY <1>1, <1>2 DEF RowsNameTheirCall, Kept, MarkedRow
<1>6. InsertersRetained'
  BY <1>1, <1>2, MarkedInserters DEF MarkingCall
<1>7. OpenedByPosters'
  BY <1>1 DEF OpenedByPosters, Kept, Submission
<1>8. ReadersFollowRows'
  BY <1>1, <1>2, MarkedReaders DEF MarkingCall
<1>9. RefusedAreOver'
  BY <1>1, <1>2, <1>3 DEF RefusedAreOver, RowsNameTheirCall, Kept, NoRow, MarkedRow, Erased, key
<1>10. ToldIsTrue'
  BY <1>1, <1>2, <1>3 DEF ToldIsTrue, ReadersFollowRows, Kept, Erased, Open, MarkedRow, key
<1> QED
  BY <1>4, <1>5, <1>6, <1>7, <1>8, <1>9, <1>10

(* "ready" is recorded when Money's session was read or created just now.  *)
LEMMA ReadyKeeps == ASSUME CheckoutInv, NEW c \in Calls, MarkReady(c)
                    PROVE  Sound'
<1> USE NoneAssumption DEF CheckoutInv, Sound
<1> DEFINE key == <<calls[c].buyer, calls[c].request>>
           id == IF calls[c].pc = "created" THEN c ELSE calls[c].id
<1>1. CASE sessions[id].buyer # calls[c].buyer
  BY <1>1, EndKeeps DEF MarkReady, Outcomes
<1>2. CASE sessions[id].buyer = calls[c].buyer
  <2>1. calls[c].pc \in {"created", "found"} /\ calls[c].request \in Requests /\ calls[c].buyer \in Buyers
    BY DEF MarkReady, Asked
  <2>2. id \in Calls /\ sessions[id] = Submission(id)
    BY <2>1 DEF ReadersFollowRows, OpenedByPosters
  <2>3. /\ UNCHANGED <<newest, sessions, wire, erased>> /\ Mark(c, "ready")
        /\ calls' = [calls EXCEPT ![c] = [calls[c] EXCEPT !.pc = "done", !.answer = "ready", !.id = id]]
    BY <1>2 DEF MarkReady
  <2>4. Kept(c) /\ calls'[c].pc = "done" /\ calls'[c].id = id /\ calls'[c].answer = "ready"
    BY <2>3 DEF TypeOK, CallType, Kept
  <2>5. key \in Buyers \X Requests
    BY <2>1
  <2>6. MarkedRow(key, "ready")
    BY <2>3, <2>5, MarkEffect
  <2>7. ~Erased(c) => attempts[key].id = id
    BY <2>1 DEF InsertersRetained, ReadersFollowRows, Row
  <2>8. ~Erased(c) => attempts[key] # NoRow /\ sessions[id] = [buyer |-> key[1], plan |-> attempts[key].plan]
    <3>1. ~Erased(c) => attempts[key] # NoRow
      BY <2>2, <2>7 DEF NoRow
    <3> QED
      BY <2>2, <2>5, <2>7, <3>1 DEF RowsNameTheirCall, Submission
  <2>9. MarkingCall(c)
    BY <2>1, <2>2, <2>3, <2>4 DEF MarkingCall
  <2> HIDE DEF key, id
  <2>10. Asked'
    BY <2>1, <2>3, <2>4 DEF Asked, Kept
  <2>11. RowsNameTheirCall'
    BY <2>1, <2>3, <2>4, <2>6 DEF RowsNameTheirCall, Kept, MarkedRow
  <2>12. InsertersRetained'
    BY <2>6, <2>9, MarkedInserters
  <2>13. OpenedByPosters'
    BY <2>1, <2>3, <2>4 DEF OpenedByPosters, Kept, Submission
  <2>14. ReadersFollowRows'
    BY <2>6, <2>9, MarkedReaders
  <2>15. RefusedAreOver'
    BY <2>1, <2>3, <2>4, <2>6 DEF RefusedAreOver, RowsNameTheirCall, Kept, NoRow, MarkedRow
  <2>16. ToldIsTrue'
    <3>1. ASSUME NEW k \in Buyers \X Requests, k[1] \notin erased, attempts'[k].state = "ready"
          PROVE sessions[attempts'[k].id] = [buyer |-> k[1], plan |-> attempts'[k].plan]
      <4>1. CASE k = key
        BY <2>6, <2>7, <2>8, <3>1, <4>1 DEF MarkedRow, Erased, key
      <4>2. CASE k # key
        BY <2>6, <3>1, <4>2 DEF MarkedRow, ToldIsTrue
      <4> QED
        BY <4>1, <4>2
    <3>2. ASSUME NEW k \in Buyers \X Requests, k[1] \notin erased, attempts'[k].state = "refused"
          PROVE ~Open(attempts'[k].id)
      BY <2>6, <3>2 DEF MarkedRow, ToldIsTrue
    <3>3. ASSUME NEW d \in Calls, calls'[d].answer = "ready", ~Erased(d)'
          PROVE /\ sessions[calls'[d].id].buyer = calls'[d].buyer
                /\ calls'[d].op = "create" => sessions[calls'[d].id].plan = calls'[d].plan
      <4>1. CASE d = c
        <5>1. calls[c].op = "create" /\ ~Erased(c) => attempts[key].plan = calls[c].plan
          BY <2>1, <2>2, <2>5, <2>7, <2>8 DEF ReadersFollowRows, RowsNameTheirCall, Row, key, id
        <5> QED
          BY <1>2, <2>3, <2>4, <2>8, <3>3, <4>1, <5>1 DEF Kept, Erased, id
      <4>2. CASE d # c
        BY <2>3, <2>4, <3>3, <4>2 DEF Kept, ToldIsTrue, Erased
      <4> QED
        BY <4>1, <4>2
    <3> QED
      BY <2>3, <3>1, <3>2, <3>3 DEF ToldIsTrue, Open
  <2> QED
    BY <2>10, <2>11, <2>12, <2>13, <2>14, <2>15, <2>16
<1> QED
  BY <1>1, <1>2

(* A reader follows the row it found.                                      *)
LEMMA FindKeeps == ASSUME CheckoutInv, NEW c \in Calls, Find(c)
                   PROVE  Sound'
<1> USE NoneAssumption DEF CheckoutInv, Sound
<1> DEFINE b == calls[c].buyer
           r == IF calls[c].request = None THEN newest[b] ELSE calls[c].request
           row == attempts[<<b, r>>]
<1>1. calls[c].pc = "find" /\ b \in Buyers /\ r \in Requests \cup {None}
  BY DEF Find, Asked, TypeOK, CallType
<1>2. CASE r = None \/ row.state \in {"absent", "refused"}
  BY <1>1, <1>2, EndKeeps DEF Find, Unfinished, Outcomes
<1>3. CASE r # None /\ row.state \notin {"absent", "refused"}
  <2>1. row # NoRow /\ row.id \in Calls /\ <<b, r>> \in Buyers \X Requests
    BY <1>1, <1>3 DEF RowsNameTheirCall, NoRow
  <2>2. /\ UNCHANGED <<attempts, newest, sessions, wire, erased>>
        /\ calls' = [calls EXCEPT ![c] =
             [calls[c] EXCEPT !.pc = "read", !.request = r, !.id = row.id, !.seen = row.state]]
    BY <1>1, <1>3 DEF Find
  <2>3. /\ calls'[c].pc = "read" /\ calls'[c].request = r /\ calls'[c].id = row.id
        /\ calls'[c].op = calls[c].op /\ calls'[c].buyer = b /\ calls'[c].plan = calls[c].plan
        /\ calls'[c].answer = calls[c].answer
        /\ \A d \in Calls \ {c} : calls'[d] = calls[d]
    BY <2>2 DEF TypeOK, CallType
  <2>4. sessions[c] = NoSession /\ c \notin wire /\ calls[c].answer # "ready"
    BY <1>1 DEF OpenedByPosters, ReadersFollowRows
  <2>5. calls[c].op = "create" => r = calls[c].request
    BY <1>1 DEF Asked
  <2> HIDE DEF b, r, row
  <2>6. Asked'
    BY <1>1, <1>3, <2>3 DEF Asked
  <2>7. RowsNameTheirCall'
    BY <1>1, <2>2, <2>3 DEF RowsNameTheirCall
  <2>8. InsertersRetained'
    BY <1>1, <2>2, <2>3, <2>4 DEF InsertersRetained, Erased, Open, Row
  <2>9. OpenedByPosters'
    BY <1>1, <2>2, <2>3, <2>4 DEF OpenedByPosters, Submission
  <2>10. ReadersFollowRows'
    <3>1. Row(c)' = row
      BY <2>2, <2>3 DEF Row, row
    <3>2. calls[c].op = "create" => Row(c) = row
      BY <2>5 DEF Row, row, b
    <3>3. ~Erased(c)' => ~Erased(c)
      BY <2>2, <2>3 DEF Erased, b
    <3>4. \A d \in Calls \ {c} : Row(d)' = Row(d) /\ (Erased(d)' <=> Erased(d))
      BY <2>2, <2>3 DEF Row, Erased
    <3> QED
      BY <1>1, <2>1, <2>2, <2>3, <2>4, <3>1, <3>2, <3>3, <3>4 DEF ReadersFollowRows
  <2>11. RefusedAreOver'
    BY <1>1, <2>2, <2>3 DEF RefusedAreOver, RowsNameTheirCall, NoRow
  <2>12. ToldIsTrue'
    BY <2>2, <2>3, <2>4 DEF ToldIsTrue, Erased, Open
  <2> QED
    BY <2>6, <2>7, <2>8, <2>9, <2>10, <2>11, <2>12
<1> QED
  BY <1>2, <1>3

(* An erased buyer's rows are of no further concern.                       *)
LEMMA EraseKeeps == ASSUME CheckoutInv, NEW b \in Buyers, Erase(b)
                    PROVE  Sound'
<1> USE DEF CheckoutInv, Sound
<1>1. /\ UNCHANGED <<sessions, wire, calls>> /\ erased' = erased \cup {b}
      /\ \A k \in Buyers \X Requests : attempts'[k] = IF k[1] = b THEN NoRow ELSE attempts[k]
  BY DEF Erase
<1>2. \A d \in Calls : ~Erased(d)' => ~Erased(d) /\ calls[d].buyer # b
  BY <1>1 DEF Erased
<1>3. ASSUME NEW d \in Calls, ~Erased(d)', <<calls[d].buyer, calls[d].request>> \in Buyers \X Requests
      PROVE Row(d)' = Row(d)
  BY <1>1, <1>2, <1>3 DEF Row
<1>4. Asked'
  BY <1>1 DEF Asked
<1>5. RowsNameTheirCall'
  BY <1>1 DEF RowsNameTheirCall
<1>6. InsertersRetained'
  <2> SUFFICES ASSUME NEW d \in Calls, ~Erased(d)', calls[d].pc \in {"post", "created", "refused"} \/ Open(d)
               PROVE Row(d)'.id = d
    BY <1>1 DEF InsertersRetained, Open
  <2>1. <<calls[d].buyer, calls[d].request>> \in Buyers \X Requests
    BY DEF Open, OpenedByPosters, Asked
  <2> QED
    BY <1>2, <1>3, <2>1 DEF InsertersRetained
<1>7. OpenedByPosters'
  BY <1>1 DEF OpenedByPosters, Submission
<1>8. ReadersFollowRows'
  <2>1. ASSUME NEW d \in Calls, ~Erased(d)',
               calls[d].pc \in {"read", "found"} \/ (calls[d].pc = "find" /\ calls[d].op = "create")
        PROVE  Row(d)' = Row(d) /\ ~Erased(d)
    <3>1. <<calls[d].buyer, calls[d].request>> \in Buyers \X Requests
      BY <2>1 DEF Asked
    <3> QED
      BY <1>2, <1>3, <2>1, <3>1
  <2> QED
    BY <1>1, <2>1 DEF ReadersFollowRows
<1>9. RefusedAreOver'
  BY <1>1 DEF RefusedAreOver, NoRow
<1>10. ToldIsTrue'
  BY <1>1, <1>2 DEF ToldIsTrue, Open
<1> QED
  BY <1>4, <1>5, <1>6, <1>7, <1>8, <1>9, <1>10

------------------------------------------------------------------------------
LEMMA InvInit == Init => CheckoutInv
<1> SUFFICES ASSUME Init PROVE Sound
  BY TypeInit DEF CheckoutInv
<1>1. /\ \A c \in Calls : calls[c] = Unasked /\ sessions[c] = NoSession
      /\ \A k \in Buyers \X Requests : attempts[k] = NoRow
      /\ wire = {}
  BY DEF Init
<1> QED
  BY <1>1 DEF Sound, Asked, RowsNameTheirCall, InsertersRetained, OpenedByPosters, ReadersFollowRows,
              RefusedAreOver, ToldIsTrue, Unasked, NoRow, Open

LEMMA InvStep == CheckoutInv /\ [Next]_vars => CheckoutInv'
<1> SUFFICES ASSUME CheckoutInv, [Next]_vars PROVE Sound'
  BY TypeStep DEF CheckoutInv, Sound
<1>1. ASSUME NEW c \in Calls, CreateCheckoutAttempt(c) \/ GetCheckout(c) PROVE Sound'
  BY <1>1, BeginKeeps
<1>2. ASSUME NEW c \in Calls, Insert(c) PROVE Sound'
  <2>1. calls[c].op = "create"
    BY <1>2 DEF Insert, CheckoutInv, Sound, OpenedByPosters
  <2>2. CASE Row(c) = NoRow
    BY <1>2, <2>1, <2>2, RetainKeeps DEF Insert
  <2>3. CASE Row(c) # NoRow
    BY <1>2, <2>3, GoesKeeps DEF Insert
  <2> QED
    BY <2>2, <2>3
<1>3. ASSUME NEW c \in Calls, Compare(c) PROVE Sound'
  <2>1. CASE Row(c) = NoRow \/ Row(c).plan # calls[c].plan
    BY <1>3, <2>1, EndKeeps DEF Compare, Outcomes
  <2>2. CASE Row(c) # NoRow /\ Row(c).plan = calls[c].plan
    BY <1>3, <2>2, GoesKeeps DEF Compare
  <2> QED
    BY <2>1, <2>2
<1>4. ASSUME NEW c \in Calls, Read(c) PROVE Sound'
  <2>1. CASE sessions[calls[c].id] # NoSession
    BY <1>4, <2>1, GoesKeeps DEF Read
  <2>2. CASE sessions[calls[c].id] = NoSession
    BY <1>4, <2>2, EndKeeps DEF Read, Unfinished, Outcomes
  <2> QED
    BY <2>1, <2>2
<1>5. ASSUME NEW c \in Calls, Fail(c) PROVE Sound'
  BY <1>5, EndKeeps DEF Fail, Outcomes
<1>6. CASE UNCHANGED vars
  BY <1>6 DEF vars, CheckoutInv, Sound, Asked, RowsNameTheirCall, InsertersRetained, OpenedByPosters,
              ReadersFollowRows, RefusedAreOver, ToldIsTrue, Open, Erased, Row, Submission
<1> QED
  BY <1>1, <1>2, <1>3, <1>4, <1>5, <1>6, PostKeeps, LandKeeps, FindKeeps, ReadyKeeps, RefusedKeeps, EraseKeeps
     DEF Next

(* Every variable keeps its type, in every state the service can reach.    *)
THEOREM TypeCorrect == Spec => []TypeOK
<1>1. CheckoutInv => TypeOK
  BY DEF CheckoutInv
<1> QED
  BY <1>1, InvInit, InvStep, PTL DEF Spec

(* A retained request has at most one checkout session at Money, however   *)
(* often it is asked, and whatever answers are lost or posts come late.    *)
THEOREM OnlyTheRetainedCorrect == Spec => []OnlyTheRetained
<1>1. CheckoutInv => OnlyTheRetained
  BY DEF CheckoutInv, Sound, InsertersRetained, OnlyTheRetained
<1> QED
  BY <1>1, InvInit, InvStep, PTL DEF Spec

(* What the table records and a call answers of a session is so at Money.  *)
THEOREM ToldIsTrueCorrect == Spec => []ToldIsTrue
<1>1. CheckoutInv => ToldIsTrue
  BY DEF CheckoutInv, Sound
<1> QED
  BY <1>1, InvInit, InvStep, PTL DEF Spec
==============================================================================
