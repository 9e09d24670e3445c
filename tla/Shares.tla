-------------------------------- MODULE Shares --------------------------------
(***************************************************************************)
(* controllers/sessionSharesController.js and the privacy settings of      *)
(* controllers/usersController.js that limit it.                           *)
(*                                                                         *)
(* A slot of Calls runs one handler at a time, one database round trip per *)
(* step.  Prisma loads the relations of a row with queries of their own,   *)
(* so an owner's settings are read after the share that asks for them; the *)
(* settings a feed filters by are part of its first query.  Friendships,   *)
(* members and the end of sessions are what Connections, Memberships and   *)
(* Sessions let them be.  Study time is masked as the score is; pages,     *)
(* counts and metrics are left out.                                        *)
(***************************************************************************)
EXTENDS Integers

CONSTANTS Users,
          Sessions,
          Groups,
          ShareIds,      \* bound: the shares an instance can store
          Reactions,     \* LIKE, CHEER, EMPATHY
          OwnerOf,       \* sessions.user_id
          Choices,       \* the privacy settings each user chooses from
          Kinds,         \* the endpoints this instance serves
          Calls,         \* slots for concurrent calls of the API
          NULL

Rank == [PRIVATE |-> 0, FRIENDS |-> 1, GROUP |-> 2, PUBLIC |-> 3]
Levels == DOMAIN Rank
Settings == [scope : Levels, score : Levels]

ASSUME SharesAssumption ==
  /\ NULL \notin Groups \cup Sessions
  /\ OwnerOf \in [Sessions -> Users]
  /\ Choices \in [Users -> SUBSET Settings]
  /\ Kinds \subseteq {"share", "feed", "react", "unreact"}

VARIABLES
  privacy,     \* user_privacy_settings
  friends,     \* user_connections, a row as the set of its two users
  members,     \* the status of group_members
  completed,   \* the sessions that are COMPLETED
  shares,      \* session_shares
  reactions,   \* session_reactions
  call,        \* the call a slot serves or has served
  pc,          \* what its handler does next
  mem,         \* what its handler remembers of its reads
  answer       \* the status of its response, and the items of a feed

tables == <<privacy, friends, members, completed, shares, reactions>>
vars == <<privacy, friends, members, completed, shares, reactions, call, pc, mem, answer>>

Scopes == {"PUBLIC", "FRIENDS", "GROUP"}
NoShare == [session |-> NULL, scope |-> "none", group |-> NULL]
Share == [session : Sessions, scope : {"PUBLIC", "FRIENDS"}, group : {NULL}]
         \cup [session : Sessions, scope : {"GROUP"}, group : Groups]
Stored(s) == shares[s] # NoShare
Owner(s) == OwnerOf[shares[s].session]

Call == [kind : {"share"}, user : Users, session : Sessions \cup {NULL},
         scope : {"PUBLIC", "FRIENDS"}, group : {NULL}]
        \cup [kind : {"share"}, user : Users, session : Sessions \cup {NULL},
              scope : {"GROUP"}, group : Groups \cup {NULL}]
        \cup [kind : {"feed"}, user : Users, filter : {"all", "friends", "public"}]
        \cup [kind : {"react", "unreact"}, user : Users, share : ShareIds, reaction : Reactions]
NoCall == [kind |-> "none"]

Free == {"idle", "done"}
Nothing == [friends |-> {}, groups |-> {}, page |-> {}, levels |-> {}]
NoAnswer == [code |-> 0, feed |-> {}]

Init ==
  /\ privacy \in {p \in [Users -> Settings] : \A u \in Users : p[u] \in Choices[u]}
  /\ friends = {} /\ completed = {} /\ reactions = {}
  /\ members = [g \in Groups |-> [u \in Users |-> "none"]]
  /\ shares = [s \in ShareIds |-> NoShare]
  /\ call = [c \in Calls |-> NoCall]
  /\ pc = [c \in Calls |-> "idle"]
  /\ mem = [c \in Calls |-> Nothing]
  /\ answer = [c \in Calls |-> NoAnswer]

Receive(c, new, label) ==
  /\ pc[c] \in Free
  /\ new.kind \in Kinds
  /\ call' = [call EXCEPT ![c] = new]
  /\ pc' = [pc EXCEPT ![c] = label]
  /\ answer' = [answer EXCEPT ![c] = NoAnswer]
  /\ UNCHANGED <<tables, mem>>

Goto(c, label, memory) ==
  /\ pc' = [pc EXCEPT ![c] = label]
  /\ mem' = [mem EXCEPT ![c] = memory]
  /\ UNCHANGED <<call, answer>>

Answer(c, code, items) ==
  /\ pc' = [pc EXCEPT ![c] = "done"]
  /\ mem' = [mem EXCEPT ![c] = Nothing]
  /\ answer' = [answer EXCEPT ![c] = [code |-> code, feed |-> items]]
  /\ UNCHANGED call

Query(c, label, code, next, memory) ==
  /\ pc[c] = label
  /\ IF code = 0 THEN Goto(c, next, memory) ELSE Answer(c, code, {})
  /\ UNCHANGED tables

-------------------------------------------------------------------------------
(* Who may see what *)

FriendsOf(u) == {v \in Users : {u, v} \in friends}
GroupsOf(u) == {g \in Groups : members[g][u] = "ACTIVE"}

isWithinOwnerPrivacy(scope, p) == Rank[scope] <= Rank[p.scope]

canAccessShare(s, u, fs, gs) ==
  \/ Owner(s) = u
  \/ shares[s].scope = "PUBLIC"
  \/ shares[s].scope = "FRIENDS" /\ Owner(s) \in fs
  \/ shares[s].scope = "GROUP" /\ shares[s].group \in gs

canViewField(level, o, u, fs, common) ==
  \/ o = u
  \/ level = "PUBLIC"
  \/ level = "FRIENDS" /\ o \in fs
  \/ level = "GROUP" /\ o \in common

scopeFilter(s, filter, u, fs, gs) ==
  \/ filter \in {"public", "all"} /\ shares[s].scope = "PUBLIC"
  \/ filter \in {"friends", "all"} /\ shares[s].scope = "FRIENDS" /\ Owner(s) \in fs
  \/ filter = "all" /\ shares[s].scope = "GROUP" /\ shares[s].group \in gs
  \/ filter = "all" /\ Owner(s) = u

FriendsOnly(s) == privacy[Owner(s)].scope \in     \* mutant: a list of levels too short
  CASE shares[s].scope = "PUBLIC" -> {"PUBLIC"}
    [] shares[s].scope = "FRIENDS" -> {"FRIENDS", "PUBLIC"}
    [] OTHER -> {"GROUP", "PUBLIC"}
privacyFilter(s) == privacy[Owner(s)].scope \in
  CASE shares[s].scope = "PUBLIC" -> {"PUBLIC"}
    [] shares[s].scope = "FRIENDS" -> {"FRIENDS", "GROUP", "PUBLIC"}
    [] OTHER -> {"GROUP", "PUBLIC"}

Page(filter, u, fs, gs) ==
  {s \in ShareIds : /\ Stored(s)
                    /\ scopeFilter(s, filter, u, fs, gs)
                    /\ shares[s].session \in completed
                    /\ privacyFilter(s)}

-------------------------------------------------------------------------------
(* createShare *)

ReceiveShare(c) ==
  \E u \in Users, x \in Sessions \cup {NULL}, scope \in Scopes, g \in Groups \cup {NULL} :
    /\ scope # "GROUP" => g = NULL
    /\ Receive(c, [kind |-> "share", user |-> u, session |-> x, scope |-> scope, group |-> g],
               "session")

FindSession(c) ==
  LET x == call[c].session
  IN  Query(c, "session", IF x \notin Sessions THEN 404
                          ELSE IF OwnerOf[x] # call[c].user THEN 403
                          ELSE IF x \notin completed THEN 409 ELSE 0, "limit", Nothing)

CheckLimit(c) ==
  Query(c, "limit", IF isWithinOwnerPrivacy(call[c].scope, privacy[call[c].user]) THEN 0 ELSE 403,
        IF call[c].scope = "GROUP" THEN "group" ELSE "existing", Nothing)

(* The row of a group never goes: its look-up goes with the member's. *)
AnyGroup(g, u) == TRUE                            \* mutant: membership is not checked
Belongs(g, u) == members[g][u] = "ACTIVE"
CheckGroup(c) ==
  Query(c, "group", IF call[c].group \notin Groups THEN 404
                    ELSE IF ~ Belongs(call[c].group, call[c].user) THEN 403 ELSE 0,
        "existing", Nothing)

Same(s, x) == /\ shares[s].session = x.session
              /\ shares[s].scope = x.scope
              /\ shares[s].group = x.group

FindExisting(c) ==
  Query(c, "existing", IF \E s \in ShareIds : Same(s, call[c]) THEN 409 ELSE 0, "insert", Nothing)

(* Two unique indexes; the table's own never finds two NULLs equal.        *)
TableIndexAllows(x) == x.group = NULL \/ ~ \E s \in ShareIds : Same(s, x)  \* mutant
AudienceIndexAllows(x) == ~ \E s \in ShareIds : Same(s, x)

InsertShare(c) ==
  LET x == call[c]
  IN  /\ pc[c] = "insert"
      /\ IF AudienceIndexAllows(x)
         THEN /\ \E s \in ShareIds :
                   /\ ~ Stored(s)
                   /\ shares' = [shares EXCEPT ![s] = [session |-> x.session, scope |-> x.scope,
                                                       group |-> x.group]]
              /\ Answer(c, 201, {})
         ELSE Answer(c, 409, {}) /\ UNCHANGED shares
      /\ UNCHANGED <<privacy, friends, members, completed, reactions>>

-------------------------------------------------------------------------------
(* getFeed *)

ReceiveFeed(c) ==
  \E u \in Users, f \in {"all", "friends", "public"} :
    Receive(c, [kind |-> "feed", user |-> u, filter |-> f], "context")

FeedContext(c) ==
  Query(c, "context", 0, "page", [friends |-> FriendsOf(call[c].user),
                                  groups |-> GroupsOf(call[c].user),
                                  page |-> {}, levels |-> {}])

ReadPage(c) ==
  Query(c, "page", 0, "levels",
        [friends |-> mem[c].friends, groups |-> mem[c].groups, levels |-> {},
         page |-> Page(call[c].filter, call[c].user, mem[c].friends, mem[c].groups)])

Owners(page) == {Owner(s) : s \in page}

ReadLevels(c) ==
  Query(c, "levels", 0, "common",
        [friends |-> mem[c].friends, groups |-> mem[c].groups, page |-> mem[c].page,
         levels |-> {[user |-> u, score |-> privacy[u].score] : u \in Owners(mem[c].page)}])

commonGroupUserIds(c) ==
  {u \in Owners(mem[c].page) : \E g \in mem[c].groups : members[g][u] = "ACTIVE"}

ShowsAll(c, s) == TRUE                            \* mutant: scores are not masked
ShowsScore(c, s) ==
  \E l \in mem[c].levels :
    /\ l.user = Owner(s)
    /\ canViewField(l.score, l.user, call[c].user, mem[c].friends, commonGroupUserIds(c))

AnswerFeed(c) ==
  /\ pc[c] = "common"
  /\ Answer(c, 200, {[share |-> s, score |-> ShowsScore(c, s)] : s \in mem[c].page})
  /\ UNCHANGED tables

-------------------------------------------------------------------------------
(* addReaction, removeReaction *)

ReceiveReaction(c) ==
  \E k \in {"react", "unreact"}, u \in Users, s \in ShareIds, r \in Reactions :
    Receive(c, [kind |-> k, user |-> u, share |-> s, reaction |-> r], "find")

(* findAccessibleShare: the share; its owner's settings; the viewer.       *)
FindShare(c) ==
  Query(c, "find",
        IF Stored(call[c].share) /\ shares[call[c].share].session \in completed THEN 0 ELSE 404,
        "owner", Nothing)

(* The verdict on the settings is remembered; both verdicts answer 403.    *)
ReadOwner(c) ==
  LET s == call[c].share
      open == isWithinOwnerPrivacy(shares[s].scope, privacy[Owner(s)])
  IN  Query(c, "owner", 0, "viewer",
            [friends |-> {}, groups |-> {}, levels |-> {}, page |-> IF open THEN {s} ELSE {}])

ReadViewer(c) ==
  LET s == call[c].share
      u == call[c].user
  IN  Query(c, "viewer",
            IF s \in mem[c].page /\ canAccessShare(s, u, FriendsOf(u), GroupsOf(u)) THEN 0 ELSE 403,
            "write", Nothing)

(* Unique per share, user and type. *)
Reaction(c) == [share |-> call[c].share, user |-> call[c].user, type |-> call[c].reaction]
WriteReaction(c) ==
  /\ pc[c] = "write"
  /\ \/ /\ call[c].kind = "react" /\ Reaction(c) \notin reactions
        /\ reactions' = reactions \cup {Reaction(c)} /\ Answer(c, 201, {})
     \/ /\ call[c].kind = "react" /\ Reaction(c) \in reactions
        /\ UNCHANGED reactions /\ Answer(c, 409, {})
     \/ /\ call[c].kind = "unreact"
        /\ reactions' = reactions \ {Reaction(c)} /\ Answer(c, 200, {})
  /\ UNCHANGED <<privacy, friends, members, completed, shares>>

-------------------------------------------------------------------------------
(* One update, and the settings it wrote in the answer. *)
updatePrivacySettings(u) ==
  /\ \E p \in Choices[u] \ {privacy[u]} : privacy' = [privacy EXCEPT ![u] = p]
  /\ UNCHANGED <<friends, members, completed, shares, reactions, call, pc, mem, answer>>

-------------------------------------------------------------------------------
(* Any query may fail. *)
Fail(c) == pc[c] \notin Free /\ Answer(c, 500, {}) /\ UNCHANGED tables

(* What other handlers do to the tables this controller reads. *)
Befriend(u, v) == /\ u # v /\ {u, v} \notin friends
                  /\ friends' = friends \cup {{u, v}}
                  /\ UNCHANGED <<privacy, members, completed, shares, reactions, call, pc, mem, answer>>

SetMember(g, u, status) ==
  /\ members' = [members EXCEPT ![g] = [members[g] EXCEPT ![u] = status]]
  /\ UNCHANGED <<privacy, friends, completed, shares, reactions, call, pc, mem, answer>>
Join(g, u) == members[g][u] # "ACTIVE" /\ SetMember(g, u, "ACTIVE")
Leave(g, u) == members[g][u] = "ACTIVE" /\ SetMember(g, u, "REMOVED")

Complete(x) == /\ x \notin completed
               /\ completed' = completed \cup {x}
               /\ UNCHANGED <<privacy, friends, members, shares, reactions, call, pc, mem, answer>>

Handle(c) ==
  \/ FindSession(c) \/ CheckLimit(c) \/ CheckGroup(c) \/ FindExisting(c) \/ InsertShare(c)
  \/ FeedContext(c) \/ ReadPage(c) \/ ReadLevels(c) \/ AnswerFeed(c)
  \/ FindShare(c) \/ ReadOwner(c) \/ ReadViewer(c) \/ WriteReaction(c)
  \/ Fail(c)

Elsewhere == \/ \E u, v \in Users : Befriend(u, v)
             \/ \E g \in Groups, u \in Users : Join(g, u) \/ Leave(g, u)
             \/ \E x \in Sessions : Complete(x)

Next == \/ Elsewhere
        \/ \E u \in Users : updatePrivacySettings(u)
        \/ \E c \in Calls : \/ ReceiveShare(c) \/ ReceiveFeed(c) \/ ReceiveReaction(c)
                            \/ Handle(c)

Spec == Init /\ [][Next]_vars
==============================================================================
