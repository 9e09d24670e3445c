------------------------------- MODULE MCShares -------------------------------
(* Small instances of Shares for TLC, and the properties they check. *)
EXTENDS ShareHistory, FiniteSets, TLC

CONSTANTS ann, bob, x1

AnnsSession == x1 :> ann

(* The levels that tell the scopes and the masks of a reader apart. *)
AnnChooses == ann :> {[scope |-> "PRIVATE", score |-> "PUBLIC"],
                      [scope |-> "FRIENDS", score |-> "PRIVATE"],
                      [scope |-> "GROUP", score |-> "FRIENDS"],
                      [scope |-> "PUBLIC", score |-> "GROUP"]}
              @@ bob :> {[scope |-> "PRIVATE", score |-> "PRIVATE"]}

Symmetry == Permutations(ShareIds) \cup Permutations(Calls)

(* Bounds: two calls at once share under one of the settings; one call     *)
(* shares, reads or reacts to one share under any.                         *)
Planned == \/ /\ \A c \in Calls : call[c].kind \in {"none", "share"}
              /\ privacy[ann].scope = "PUBLIC"
              /\ reactions = {}
           \/ /\ \A c, d \in Calls : pc[c] # "idle" /\ pc[d] # "idle" => c = d
              /\ Cardinality({s \in ShareIds : Stored(s)}) <= 1

(* A call that has come to nothing is forgotten. *)
Working == [c \in Calls |->
              IF pc[c] = "done" /\ answer[c].code # 201 /\ answer[c].feed = {}
              THEN <<pc[c]>>
              ELSE <<pc[c], call[c], mem[c], answer[c], past[c]>>]
View == <<tables, Working>>

PlannedSpec == HistoryInit /\ [][HistoryNext /\ Planned']_<<vars, past>>
==============================================================================
