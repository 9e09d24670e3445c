--------------------------- MODULE ShareProperties ----------------------------
(* The correctness properties of shares, feeds and reactions. *)
EXTENDS Shares

Labels == {"idle", "session", "limit", "group", "existing", "insert", "context", "page",
           "levels", "common", "find", "owner", "viewer", "write", "done"}
Codes == {0, 200, 201, 403, 404, 409, 500}
Memory == [friends : SUBSET Users, groups : SUBSET Groups, page : SUBSET ShareIds,
           levels : SUBSET [user : Users, score : Levels]]
Answers == [code : Codes, feed : SUBSET [share : ShareIds, score : BOOLEAN]]

TypeOK ==
  /\ privacy \in [Users -> Settings]
  /\ friends \subseteq SUBSET Users
  /\ members \in [Groups -> [Users -> {"none", "ACTIVE", "REMOVED"}]]
  /\ completed \subseteq Sessions
  /\ shares \in [ShareIds -> Share \cup {NoShare}]
  /\ reactions \subseteq [share : ShareIds, user : Users, type : Reactions]
  /\ call \in [Calls -> Call \cup {NoCall}]
  /\ pc \in [Calls -> Labels]
  /\ mem \in [Calls -> Memory]
  /\ answer \in [Calls -> Answers]

(* However many calls race, a session is shared once with the public, once *)
(* with friends and once with a group (the first two have no group, and    *)
(* the unique constraint of the table finds no two NULLs equal).           *)
OneSharePerAudience ==
  \A s, t \in ShareIds : Stored(s) /\ shares[s] = shares[t] => s = t

(* Who a share was ever meant for; people come and go, and are remembered. *)
EverIn(g, u) == members[g][u] # "none"
Meant(s, u) == \/ Owner(s) = u
               \/ shares[s].scope = "PUBLIC"
               \/ shares[s].scope = "FRIENDS" /\ Owner(s) \in FriendsOf(u)
               \/ shares[s].scope = "GROUP" /\ EverIn(shares[s].group, u)

(* Whatever changes between the reads of a handler: only people a share    *)
(* was meant for at some time are shown it or react to it, and only        *)
(* sessions that are over are shared, in groups their owner has belonged   *)
(* to.                                                                     *)
RowsMeant ==
  /\ \A s \in ShareIds : Stored(s) =>
       /\ shares[s].session \in completed
       /\ shares[s].scope = "GROUP" => EverIn(shares[s].group, Owner(s))
  /\ \A r \in reactions : Stored(r.share) /\ Meant(r.share, r.user)

FeedMeant(c) == \A i \in answer[c].feed : Stored(i.share) /\ Meant(i.share, call[c].user)

AudienceOnly == RowsMeant /\ \A c \in Calls : pc[c] = "done" => FeedMeant(c)

(* What the steps of a handler have established for the next ones.         *)
InShare(c) ==
  /\ call[c].kind = "share"
  /\ pc[c] # "session" => /\ call[c].session \in completed
                          /\ OwnerOf[call[c].session] = call[c].user
  /\ pc[c] = "group" => call[c].scope = "GROUP"
  /\ pc[c] \in {"existing", "insert"} /\ call[c].scope = "GROUP" =>
       call[c].group \in Groups /\ EverIn(call[c].group, call[c].user)

InFeed(c) ==
  /\ call[c].kind = "feed"
  /\ pc[c] # "context" => /\ mem[c].friends \subseteq FriendsOf(call[c].user)
                          /\ \A g \in mem[c].groups : EverIn(g, call[c].user)
  /\ pc[c] \in {"levels", "common"} =>
       \A s \in mem[c].page : Stored(s) /\ Meant(s, call[c].user)

InReaction(c) ==
  /\ call[c].kind \in {"react", "unreact"}
  /\ pc[c] # "find" => Stored(call[c].share)
  /\ pc[c] = "write" => Meant(call[c].share, call[c].user)

InHandler(c) ==
  /\ pc[c] \in {"session", "limit", "group", "existing", "insert"} => InShare(c)
  /\ pc[c] \in {"context", "page", "levels", "common"} => InFeed(c)
  /\ pc[c] \in {"find", "owner", "viewer", "write"} => InReaction(c)
  /\ pc[c] = "done" => call[c] # NoCall /\ FeedMeant(c)

(* The inductive invariant. *)
IInv == TypeOK /\ OneSharePerAudience /\ RowsMeant /\ \A c \in Calls : InHandler(c)

(* The feed filters in the database, reactions are checked in the code:    *)
(* both draw the same line, in every state of settings and relations, so   *)
(* that a reader may react to exactly what a feed shows him.               *)
ListedIffReachable ==
  \A u \in Users, s \in ShareIds : Stored(s) =>
    (s \in Page("all", u, FriendsOf(u), GroupsOf(u)) <=>
       /\ shares[s].session \in completed
       /\ isWithinOwnerPrivacy(shares[s].scope, privacy[Owner(s)])
       /\ canAccessShare(s, u, FriendsOf(u), GroupsOf(u)))

-------------------------------------------------------------------------------
(* What the documents say and the code does not keep. *)

(* docs/security-policy.md:257: a share of scope GROUP is for those who    *)
(* have a group in common with its owner.  The code looks at the reader's  *)
(* membership only, and shows what a removed member has shared.            *)
GroupInCommon ==
  \A u \in Users, s \in ShareIds :
    /\ Stored(s) /\ shares[s].scope = "GROUP" /\ Owner(s) # u
    /\ s \in Page("all", u, FriendsOf(u), GroupsOf(u))
    => GroupsOf(u) \cap GroupsOf(Owner(s)) # {}
==============================================================================
