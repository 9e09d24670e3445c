----------------------------- MODULE MCGroupWork ------------------------------
(* Small instances of GroupWork for TLC. *)
EXTENDS GroupWorkHistory, FiniteSets, TLC

CONSTANTS ann, bob, x1

BobsSession == x1 :> bob

(* Lists that are in order, and lists with every fault.                    *)
FairLists == {<<>>, <<bob>>, <<ann, bob>>}
AllLists == FairLists \cup {<<bob, bob>>, <<Stranger>>}

Symmetry == Permutations(Goals) \cup Permutations(Feedbacks) \cup Permutations(Calls)

Using(kinds, lists) ==
  \A c \in Calls : /\ call[c].kind \in kinds \cup {"none"}
                   /\ call[c].kind = "assign" => call[c].ids \in lists
Given(roles) == \A u \in Users : members[u].status = "NONE" \/ members[u].role \in roles
OneSlot == \A c, d \in Calls : pc[c] # "idle" /\ pc[d] # "idle" => c = d

NoGoals == \A g \in Goals : goals[g] = "none"
NoFeedbacks == \A f \in Feedbacks : feedbacks[f] = NoFeedback
NothingShared == sharing = {} /\ visibility = "PRIVATE"

(* Bounds: two calls at once assign one goal; one call does anything else, *)
(* with the goals, with the feedback or with the members alone.            *)
Assigning == /\ Using({"create", "assign"}, FairLists) /\ Given({"MANAGER"})
             /\ Cardinality({g \in Goals : goals[g] # "none"}) <= 1
             /\ sessions = {} /\ NoFeedbacks /\ NothingShared
Aiming == /\ OneSlot /\ Using({"create", "assign", "goals"}, AllLists)
          /\ Given({"OWNER", "MEMBER"})
          /\ sessions = {} /\ NoFeedbacks /\ NothingShared
Advising == /\ OneSlot /\ Using({"give", "feedbacks"}, {}) /\ Given({"MANAGER", "MEMBER"})
            /\ NoGoals /\ NothingShared
Looking == /\ OneSlot /\ Using({"dashboard", "group", "groups"}, {})
           /\ sessions = {} /\ NoGoals /\ NoFeedbacks
Planned == Assigning \/ Aiming \/ Advising \/ Looking

(* A call that has come to nothing is forgotten. *)
Working == [c \in Calls |->
              IF pc[c] = "done" /\ answer[c].code # 201 /\ answer[c].items = {}
              THEN <<pc[c]>>
              ELSE <<pc[c], call[c], mem[c], answer[c], past[c]>>]
View == <<world, goals, assigned, feedbacks, Working>>

PlannedSpec == HistoryInit /\ [][HistoryNext /\ Planned']_<<vars, past>>
==============================================================================
