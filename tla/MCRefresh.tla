------------------------------ MODULE MCRefresh ------------------------------
(* Small instances of RefreshTokens for TLC, and the properties they check. *)
EXTENDS RefreshProperties, FiniteSets, TLC

Symmetry == Permutations(TokenIds) \cup Permutations(Calls)

(* Bounds: the requests that an access token admits are watched for longer *)
(* than three tokens are.                                                  *)
Planned == \/ clock <= 1 /\ (\A c \in Calls : call[c].kind # "use")
           \/ Cardinality({t \in TokenIds : Stored(t)}) <= 2

(* A finished call is forgotten, unless it is a logout that succeeded.     *)
Working == [c \in Calls |->
              IF pc[c] \in Free /\ ~ (call[c].kind = "logout" /\ answer[c] = 200)
              THEN <<pc[c]>>
              ELSE <<pc[c], call[c], seen[c], attempt[c]>>]
View == <<stores, clock, Working>>

PlannedSpec == Init /\ [][Next /\ Planned']_vars
==============================================================================
