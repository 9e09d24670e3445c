---------------------------- MODULE TokenFamilies ----------------------------
(***************************************************************************)
(* What the rotation of refresh tokens promises: of each family one token  *)
(* at most is live; it is traded once, for a fresh one of the same family; *)
(* and a family without a live token stays closed.                         *)
(***************************************************************************)
CONSTANT TokenIds

VARIABLES live,     \* tokens that can be traded in
          spent,    \* tokens that were live once
          family    \* the token a family began with, by token

Unknown == TokenIds \ (live \cup spent)

Open(t) == /\ t \in Unknown
           /\ live' = live \cup {t}
           /\ family' = [family EXCEPT ![t] = t]
           /\ UNCHANGED spent

Trade(t, n) == /\ t \in live
               /\ n \in Unknown
               /\ live' = (live \ {t}) \cup {n}
               /\ spent' = spent \cup {t}
               /\ family' = [family EXCEPT ![n] = family[t]]

Close(S) == /\ S \subseteq live
            /\ live' = live \ S
            /\ spent' = spent \cup S
            /\ UNCHANGED family

FamiliesInit == live = {} /\ spent = {} /\ \A t, s \in TokenIds : family[t] = family[s]

FamiliesNext == \/ \E t \in TokenIds : Open(t)
                \/ \E t, n \in TokenIds : Trade(t, n)
                \/ \E S \in SUBSET TokenIds : Close(S)

FamiliesSpec == FamiliesInit /\ [][FamiliesNext]_<<live, spent, family>>
==============================================================================
