----------------------------- MODULE ShareHistory -----------------------------
(* Shares with the settings that were in force while a call ran, and what  *)
(* they have to do with its answer.                                        *)
EXTENDS ShareProperties

VARIABLE past   \* by call

InForce == {[user |-> u, settings |-> privacy[u]] : u \in {OwnerOf[x] : x \in Sessions}}

HistoryInit == Init /\ past = [c \in Calls |-> {}]
HistoryNext ==
  /\ Next
  /\ past' = [c \in Calls |-> IF pc[c] \notin Free THEN past[c] \cup InForce'
                              ELSE IF pc'[c] \notin Free THEN InForce'
                              ELSE past[c]]
HistorySpec == HistoryInit /\ [][HistoryNext]_<<vars, past>>

Within(limit) == CASE limit = "PRIVATE" -> {}
                   [] limit = "FRIENDS" -> {"FRIENDS"}
                   [] limit = "GROUP" -> {"FRIENDS", "GROUP"}
                   [] limit = "PUBLIC" -> {"FRIENDS", "GROUP", "PUBLIC"}

Allowed(c, owner, scope) ==
  \E p \in past[c] : p.user = owner /\ scope \in Within(p.settings.scope)

ScoreAllowed(c, owner, u) ==
  \/ owner = u
  \/ \E p \in past[c] :
       /\ p.user = owner
       /\ \/ p.settings.score = "PUBLIC"
          \/ p.settings.score = "FRIENDS" /\ owner \in FriendsOf(u)
          \/ p.settings.score = "GROUP" /\ \E g \in Groups : EverIn(g, u) /\ EverIn(g, owner)

Honoured(c) ==
  /\ call[c].kind = "share" /\ answer[c].code = 201 =>
       Allowed(c, call[c].user, call[c].scope)
  /\ call[c].kind = "react" /\ answer[c].code = 201 =>
       Allowed(c, Owner(call[c].share), shares[call[c].share].scope)
  /\ \A i \in answer[c].feed :
       /\ Allowed(c, Owner(i.share), shares[i.share].scope)
       /\ i.score => ScoreAllowed(c, Owner(i.share), call[c].user)

(* A share is made, shown or reacted to only within a limit its owner has  *)
(* set at some moment of the call, and a score is shown only as he allowed *)
(* then: an owner who has narrowed his settings is safe from every later   *)
(* call, whatever is in the tables.                                        *)
LimitsInForce == \A c \in Calls : pc[c] = "done" => Honoured(c)

(* What a handler has read of the settings was in force while it ran, and  *)
(* what is in force now will count as such.                                *)
PageAllowed(c) == \A s \in mem[c].page : Allowed(c, Owner(s), shares[s].scope)
LevelsRead(c) == \A l \in mem[c].levels : \E p \in past[c] : p.user = l.user /\ p.settings.score = l.score

Limited(c) ==
  /\ pc[c] \notin Free => InForce \subseteq past[c]
  /\ pc[c] \in {"group", "existing", "insert"} => Allowed(c, call[c].user, call[c].scope)
  /\ pc[c] \in {"levels", "common"} => PageAllowed(c)
  /\ pc[c] = "common" => LevelsRead(c)
  /\ pc[c] = "viewer" => mem[c].page \subseteq {call[c].share} /\ PageAllowed(c)
  /\ pc[c] = "write" => Allowed(c, Owner(call[c].share), shares[call[c].share].scope)
  /\ pc[c] = "done" => /\ Honoured(c)
                       /\ call[c].kind = "react" /\ answer[c].code = 201 => Stored(call[c].share)

(* With it the limits are inductive. *)
HInv == IInv /\ \A c \in Calls : Limited(c)
==============================================================================
