--------------------------- MODULE GroupWorkHistory ---------------------------
(* GroupWork with what was in force while a call ran, and what that has to *)
(* do with its answer.                                                     *)
EXTENDS GroupWorkProperties

VARIABLE past   \* by call

Unknown == [managed |-> FALSE, belonged |-> FALSE, active |-> {}, open |-> {}, cleared |-> FALSE]

Record(c, p) ==
  LET u == call[c].user
  IN  [managed  |-> p.managed \/ IsManager(u),
       belonged |-> p.belonged \/ IsActive(u),
       active   |-> p.active \cup {v \in Users : IsActive(v)},
       open     |-> p.open \cup sharing,
       cleared  |-> p.cleared]

(* c's goal has been made one of the whole group since c was received.     *)
Cleared(c) == \E d \in Calls : pc[d] = "clear" /\ answer'[d].code = 201
                               /\ call[c].kind = "assign" /\ call[c].goal = call[d].goal

HistoryInit == Init /\ past = [c \in Calls |-> Unknown]
HistoryNext ==
  /\ Next
  /\ past' = [c \in Calls |->
       IF pc[c] \in Free /\ pc'[c] \notin Free THEN Unknown
       ELSE LET p == IF pc[c] \notin Free THEN Record(c, past[c]) ELSE past[c]
            IN  [p EXCEPT !.cleared = p.cleared \/ Cleared(c)]]
HistorySpec == HistoryInit /\ [][HistoryNext]_<<vars, past>>

RoleAllowed(c) ==
  /\ answer[c].code = 201 => past[c].managed
  /\ answer[c].items # {} => past[c].belonged
  /\ \A i \in answer[c].items :
       /\ call[c].kind = "dashboard" =>
            i.user \in past[c].active /\ (past[c].managed \/ i.user = call[c].user)
       /\ call[c].kind = "feedbacks" =>
            /\ feedbacks[i.feedback].group = "ours"
            /\ past[c].managed \/ feedbacks[i.feedback].target = call[c].user
       /\ call[c].kind = "goals" => goals[i.goal] = "ours"

CountsShared(c) ==
  call[c].kind = "dashboard" => \A i \in answer[c].items : i.stats => i.user \in past[c].open

(* Roles are read once and used for the rest of a handler.  Goals and      *)
(* feedback are written, and shown, for somebody whose role allowed it at  *)
(* some moment of the call; the others see of a dashboard and of feedback  *)
(* what is about themselves.                                               *)
RolesInForce == \A c \in Calls : pc[c] = "done" => RoleAllowed(c)

(* A dashboard counts nobody's sessions who did not share them at some     *)
(* moment of the call.                                                     *)
StatsShared == \A c \in Calls : pc[c] = "done" => CountsShared(c)

(* Two calls that give one member one goal are both answered 201 only if   *)
(* the goal was made one of the whole group after the first.               *)
Assigns(c) == pc[c] = "done" /\ call[c].kind = "assign" /\ answer[c].code = 201
OneWinner ==
  \A c, d \in Calls :
    /\ c # d /\ Assigns(c) /\ Assigns(d)
    /\ call[c].goal = call[d].goal /\ To(c) \cap To(d) # {}
    => past[c].cleared \/ past[d].cleared

-------------------------------------------------------------------------------
(* What the reads of a handler have to do with its past. *)
Pasts == [managed : BOOLEAN, belonged : BOOLEAN, active : SUBSET Users, open : SUBSET Users,
          cleared : BOOLEAN]

Managing == {"create", "goal", "clear", "assignees", "existing", "insert", "assigned",
             "target", "session", "write"}
Reading == {"goals", "loading", "listing", "page", "settings", "sessions"}

Seen(c) ==
  /\ pc[c] \in Managing => past[c].managed
  /\ pc[c] \in Reading => past[c].belonged
  /\ pc[c] \in {"listing", "page", "settings", "sessions"} => (mem[c].manager => past[c].managed)
  /\ pc[c] \in {"settings", "sessions"} =>
       \A u \in mem[c].rows : u \in past[c].active /\ (past[c].managed \/ u = call[c].user)
  /\ pc[c] = "sessions" => mem[c].open \subseteq past[c].open
  /\ pc[c] = "loading" => \A g \in mem[c].rows : goals[g] = "ours"
  /\ pc[c] = "done" => /\ RoleAllowed(c) /\ CountsShared(c)
                       /\ \A i \in answer[c].items :
                            /\ call[c].kind = "feedbacks" => i.feedback \in Feedbacks
                            /\ call[c].kind = "goals" => i.goal \in Goals

(* Whoever has inserted his rows still has them, unless they were cleared; *)
(* so nobody else has found the members free.                              *)
Inserted(c) == call[c].kind = "assign" /\ (pc[c] = "assigned" \/ Assigns(c))
Held(c) ==
  /\ pc[c] = "clear" => To(c) = {}
  /\ Inserted(c) => past[c].cleared \/ \A m \in To(c) : assigned[call[c].goal][m] > 0
OneHolder ==
  \A c, d \in Calls :
    /\ c # d /\ Inserted(c) /\ Inserted(d)
    /\ call[c].goal = call[d].goal /\ To(c) \cap To(d) # {}
    => past[c].cleared \/ past[d].cleared

(* With these the history is inductive. *)
HInv == /\ IInv /\ past \in [Calls -> Pasts]
        /\ \A c \in Calls : Seen(c) /\ Held(c)
        /\ OneHolder
==============================================================================
