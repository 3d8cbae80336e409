----------------------------- MODULE PatternMatch -----------------------------
(***************************************************************************)
(* Cards are picked three at a time; three that agree or all differ in     *)
(* every property are a set. The day is won when as many sets are found as *)
(* the served cards hold.                                                  *)
(***************************************************************************)
EXTENDS GameBoard

CONSTANTS
    Cards,         \* the ids of the served cards
    Faces,         \* Faces[id]: the tuple of the card's properties
    MaxMistakes    \* bound on the mistakes of a run

IsValidProperty(a, b, c) == (a = b /\ b = c) \/ (a # b /\ b # c /\ a # c)

IsValidSet(ids) ==
    \A p \in DOMAIN Faces[ids[1]] :
        IsValidProperty(Faces[ids[1]][p], Faces[ids[2]][p], Faces[ids[3]][p])

FindAllSets == {s \in SUBSET Cards : Cardinality(s) = 3 /\ IsValidSet(SetToSeq(s))}

TotalSets == Cardinality(FindAllSets)

InitialState == [selectedIds |-> <<>>, foundSets |-> <<>>, mistakes |-> 0, status |-> "playing"]

Init == Starts(InitialState)

Found(s) == UNION {ToSet(s.foundSets[i]) : i \in DOMAIN s.foundSets}

Finish(s) == [status |-> IF s.status = "won" THEN "won" ELSE "lost",
              foundSets |-> s.foundSets, mistakes |-> s.mistakes]

Playing == state.status = "playing"

(* The third card is checked at once.                                      *)
Checked(ids) ==
    IF IsValidSet(ids)
    THEN LET foundSets == Append(state.foundSets, ids)
         IN [state EXCEPT !.foundSets = foundSets, !.selectedIds = <<>>,
                          !.status = IF Len(foundSets) >= TotalSets THEN "won" ELSE "playing"]
    ELSE [state EXCEPT !.selectedIds = <<>>, !.mistakes = @ + 1]

SelectCard ==
    /\ Playing
    /\ \E id \in Cards \ (ToSet(state.selectedIds) \cup Found(state)) :
        LET ids  == Append(state.selectedIds, id)
            next == IF Len(ids) = 3 THEN Checked(ids) ELSE [state EXCEPT !.selectedIds = ids]
        IN next.mistakes =< MaxMistakes /\ Shows(next, next.status # "playing", Finish(next))
    /\ NoAnswerPending

DeselectCard ==
    /\ Playing
    /\ \E i \in DOMAIN state.selectedIds : Plays([state EXCEPT !.selectedIds = RemoveAt(@, i)])
    /\ NoAnswerPending

ClearSelection == Playing /\ Plays([state EXCEPT !.selectedIds = <<>>]) /\ NoAnswerPending

GiveUp ==
    /\ Playing
    /\ LET next == [state EXCEPT !.status = "gave_up"] IN Shows(next, TRUE, Finish(next))
    /\ NoAnswerPending

Next == SelectCard \/ DeselectCard \/ ClearSelection \/ GiveUp

Spec == Init /\ [][Next]_boardVars

------------------------------------------------------------------------------
(* A card is picked once and belongs to one found set only.                *)
Legal ==
    /\ IsInjective(state.selectedIds) /\ Len(state.selectedIds) < 3
    /\ ToSet(state.selectedIds) \cap Found(state) = {}
    /\ Cardinality(Found(state)) = 3 * Len(state.foundSets)

(* Every found set is one of the sets among the served cards.              *)
Explained == \A i \in DOMAIN state.foundSets : ToSet(state.foundSets[i]) \in FindAllSets

Right(finish) ==
    finish.status = "won" <=> {ToSet(finish.foundSets[i]) : i \in DOMAIN finish.foundSets} = FindAllSets

Finished ==
    /\ Len(state.foundSets) = TotalSets => state.status = "won"
    /\ state.status # "playing" => ended /\ Last(sent) = Finish(state)

(* pattern-match: "Check if all sets found" (use-pattern-match.ts:129): as *)
(* long as the game goes on, a set of untouched cards is left to find.     *)
AllSetsCanBeFound ==
    state.status = "playing" => \E s \in FindAllSets : s \cap Found(state) = {}
==============================================================================
