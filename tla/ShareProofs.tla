----------------------------- MODULE ShareProofs ------------------------------
(* Proofs about Shares, for any number of users, sessions, groups, shares   *)
(* and calls and any choice of settings.                                    *)
EXTENDS ShareHistory, TLAPS

USE SharesAssumption

TablesOK == /\ privacy \in [Users -> Settings]
            /\ friends \subseteq SUBSET Users
            /\ members \in [Groups -> [Users -> {"none", "ACTIVE", "REMOVED"}]]
            /\ completed \subseteq Sessions
            /\ shares \in [ShareIds -> Share \cup {NoShare}]
            /\ reactions \subseteq [share : ShareIds, user : Users, type : Reactions]

SlotsOK == /\ call \in [Calls -> Call \cup {NoCall}]
           /\ pc \in [Calls -> Labels]
           /\ mem \in [Calls -> Memory]
           /\ answer \in [Calls -> Answers]

LEMMA TypeParts == TypeOK <=> SlotsOK /\ TablesOK
BY DEF TypeOK, SlotsOK, TablesOK

LEMMA Empties == Nothing \in Memory /\ NoAnswer \in Answers
BY DEF Nothing, Memory, NoAnswer, Answers, Codes

LEMMA InitIInv == Init => IInv
<1> SUFFICES ASSUME Init PROVE IInv
  OBVIOUS
<1>1. TypeOK
  BY Empties DEF Init, TypeOK, Labels
<1>2. \A s \in ShareIds : ~ Stored(s)
  BY DEF Init, Stored
<1>3. \A c \in Calls : answer[c].feed = {} /\ pc[c] = "idle"
  BY DEF Init, NoAnswer
<1>4. OneSharePerAudience /\ RowsMeant
  BY <1>2 DEF Init, OneSharePerAudience, RowsMeant
<1>5. \A c \in Calls : InHandler(c)
  BY <1>3 DEF InHandler
<1> QED BY <1>1, <1>4, <1>5 DEF IInv

-------------------------------------------------------------------------------
(* Stored rows, and what lasts *)

LEMMA RowType ==
  ASSUME TypeOK, NEW s \in ShareIds, Stored(s)
  PROVE  /\ shares[s].session \in Sessions /\ Owner(s) \in Users
         /\ shares[s].scope = "GROUP" => shares[s].group \in Groups
<1>1. shares[s] \in Share
  BY DEF TypeOK, Stored
<1>2. shares[s].session \in Sessions /\ (shares[s].scope = "GROUP" => shares[s].group \in Groups)
  BY <1>1 DEF Share
<1> QED BY <1>2 DEF Owner

(* Rows are stored as they are for good; friends stay friends, members are *)
(* remembered and sessions do not start again.                             *)
Lasts == /\ friends \subseteq friends'
         /\ completed \subseteq completed'
         /\ \A g \in Groups, u \in Users : members[g][u] # "none" => members'[g][u] # "none"
         /\ \A s \in ShareIds : shares[s] # NoShare => shares'[s] = shares[s]

LEMMA MeantLasts ==
  ASSUME TypeOK, Lasts, NEW s \in ShareIds, NEW u \in Users, Stored(s), Meant(s, u)
  PROVE  Stored(s)' /\ Meant(s, u)'
<1>1. shares'[s] = shares[s]
  BY DEF Lasts, Stored
<1>2. Stored(s)' /\ Owner(s)' = Owner(s)
  BY <1>1 DEF Stored, Owner
<1>3. CASE Owner(s) = u \/ shares[s].scope = "PUBLIC"
  BY <1>1, <1>2, <1>3 DEF Meant
<1>4. CASE shares[s].scope = "FRIENDS" /\ Owner(s) \in FriendsOf(u)
  BY <1>1, <1>2, <1>4 DEF Meant, FriendsOf, Lasts
<1>5. CASE shares[s].scope = "GROUP" /\ EverIn(shares[s].group, u)
  BY <1>1, <1>2, <1>5, RowType DEF Meant, EverIn, Lasts
<1> QED BY <1>3, <1>4, <1>5 DEF Meant

LEMMA CallType ==
  ASSUME TypeOK, NEW c \in Calls
  PROVE  /\ call[c] # NoCall => call[c].user \in Users
         /\ call[c].kind = "share" =>
              /\ call[c].user \in Users /\ call[c].scope \in Scopes
              /\ call[c].scope # "GROUP" => call[c].group = NULL
         /\ call[c].kind = "feed" => call[c].user \in Users
         /\ call[c].kind \in {"react", "unreact"} =>
              call[c].user \in Users /\ call[c].share \in ShareIds /\ call[c].reaction \in Reactions
<1>1. call[c] \in Call \cup {NoCall}
  BY DEF TypeOK
<1>2. CASE call[c].kind = "share"
  BY <1>1, <1>2 DEF Call, NoCall, Scopes
<1>3. CASE call[c].kind = "feed"
  BY <1>1, <1>3 DEF Call, NoCall
<1>4. CASE call[c].kind \in {"react", "unreact"}
  BY <1>1, <1>4 DEF Call, NoCall
<1>5. call[c] # NoCall => call[c].user \in Users
  BY <1>1 DEF Call
<1> QED BY <1>2, <1>3, <1>4, <1>5

LEMMA MemType ==
  ASSUME TypeOK, NEW c \in Calls
  PROVE  /\ mem[c].friends \subseteq Users /\ mem[c].groups \subseteq Groups
         /\ mem[c].page \subseteq ShareIds
         /\ mem[c].levels \subseteq [user : Users, score : Levels]
         /\ answer[c].feed \subseteq [share : ShareIds, score : BOOLEAN]
<1>1. mem[c] \in Memory /\ answer[c] \in Answers
  BY DEF TypeOK
<1> QED BY <1>1 DEF Memory, Answers

(* A slot that does nothing keeps what its handler has established. *)
LEMMA HandlerLasts ==
  ASSUME TypeOK, Lasts, NEW d \in Calls, InHandler(d),
         call'[d] = call[d], pc'[d] = pc[d], mem'[d] = mem[d], answer'[d] = answer[d]
  PROVE  InHandler(d)'
<1>1. pc[d] \in {"session", "limit", "group", "existing", "insert"} => InShare(d)'
  BY CallType DEF InHandler, InShare, Lasts, EverIn
<1>2. ASSUME pc[d] \in {"context", "page", "levels", "common"} PROVE InFeed(d)'
  <2>1. InFeed(d) /\ call[d].user \in Users
    BY <1>2, CallType DEF InHandler, InFeed
  <2>2. pc[d] # "context" => /\ mem[d].friends \subseteq FriendsOf(call[d].user)'
                             /\ \A g \in mem[d].groups : EverIn(g, call[d].user)'
    BY <2>1, MemType DEF InFeed, FriendsOf, EverIn, Lasts
  <2>3. pc[d] \in {"levels", "common"} =>
          \A s \in mem[d].page : Stored(s)' /\ Meant(s, call[d].user)'
    BY <2>1, MemType, MeantLasts DEF InFeed
  <2> QED BY <2>1, <2>2, <2>3 DEF InFeed
<1>3. ASSUME pc[d] \in {"find", "owner", "viewer", "write"} PROVE InReaction(d)'
  <2>1. InReaction(d) /\ call[d].user \in Users /\ call[d].share \in ShareIds
    BY <1>3, CallType DEF InHandler, InReaction
  <2>2. pc[d] # "find" => Stored(call[d].share)'
    BY <2>1 DEF InReaction, Stored, Lasts
  <2>3. pc[d] = "write" => Meant(call[d].share, call[d].user)'
    BY <2>1, MeantLasts DEF InReaction
  <2> QED BY <2>1, <2>2, <2>3 DEF InReaction
<1>4. ASSUME pc[d] = "done" PROVE call'[d] # NoCall /\ FeedMeant(d)'
  <2>1. call[d] # NoCall /\ call[d].user \in Users /\ FeedMeant(d)
    BY <1>4, CallType DEF InHandler
  <2>2. \A i \in answer[d].feed : i.share \in ShareIds
    BY MemType
  <2> QED BY <2>1, <2>2, MeantLasts DEF FeedMeant
<1> QED BY <1>1, <1>2, <1>3, <1>4 DEF InHandler

-------------------------------------------------------------------------------
(* The shape of a step *)

(* The slots but c stay as they are. *)
StepOf(c) == \A d \in Calls \ {c} : /\ call'[d] = call[d] /\ pc'[d] = pc[d]
                                    /\ mem'[d] = mem[d] /\ answer'[d] = answer[d]

RowsOK == OneSharePerAudience /\ RowsMeant

LEMMA KeepIInv ==
  ASSUME IInv, NEW c \in Calls, SlotsOK', TablesOK', StepOf(c), InHandler(c)', Lasts, RowsOK'
  PROVE  IInv'
<1>1. TypeOK'
  BY TypeParts DEF TypeOK, SlotsOK, TablesOK
<1>2. ASSUME NEW d \in Calls, d # c PROVE InHandler(d)'
  BY <1>2, HandlerLasts DEF IInv, StepOf
<1> QED BY <1>1, <1>2 DEF IInv, RowsOK

LEMMA AnswerIInv ==
  ASSUME IInv, NEW c \in Calls, NEW code \in Codes, call[c] # NoCall,
         NEW items \in SUBSET [share : ShareIds, score : BOOLEAN], Answer(c, code, items),
         \A i \in items : Stored(i.share)' /\ Meant(i.share, call[c].user)',
         TablesOK', Lasts, RowsOK'
  PROVE  IInv'
<1>1. SlotsOK
  BY TypeParts DEF IInv
<1>2. [code |-> code, feed |-> items] \in Answers
  BY DEF Answers
<1>3. SlotsOK' /\ StepOf(c) /\ pc'[c] = "done" /\ call' = call /\ answer'[c].feed = items
  BY <1>1, <1>2, Empties DEF SlotsOK, Answer, StepOf, Labels
<1>4. InHandler(c)'
  BY <1>3 DEF InHandler, FeedMeant
<1> QED BY <1>3, <1>4, KeepIInv

LEMMA SameTables ==
  ASSUME IInv, UNCHANGED tables
  PROVE  TablesOK' /\ Lasts /\ RowsOK'
<1>1. TablesOK' /\ Lasts
  BY TypeParts DEF IInv, TablesOK, tables, Lasts
<1>2. RowsOK'
  BY DEF IInv, RowsOK, OneSharePerAudience, RowsMeant, Stored, Owner, Meant, EverIn, FriendsOf, tables
<1> QED BY <1>1, <1>2

LEMMA QueryIInv ==
  ASSUME IInv, NEW c \in Calls, NEW label, NEW code \in Codes, NEW next \in Labels,
         NEW memory \in Memory, Query(c, label, code, next, memory), call[c] # NoCall,
         /\ UNCHANGED tables /\ call' = call
         /\ code = 0 /\ pc[c] = label /\ pc'[c] = next /\ mem'[c] = memory
         => InHandler(c)'
  PROVE  IInv'
<1>1. SlotsOK /\ UNCHANGED tables /\ pc[c] = label
  BY TypeParts DEF IInv, Query
<1>2. TablesOK' /\ Lasts /\ RowsOK'
  BY <1>1, SameTables
<1>3. CASE code # 0
  <2>1. Answer(c, code, {})
    BY <1>3 DEF Query
  <2> QED BY <1>2, <2>1, AnswerIInv
<1>4. CASE code = 0
  <2>1. SlotsOK' /\ StepOf(c) /\ call' = call /\ pc'[c] = next /\ mem'[c] = memory
    BY <1>1, <1>4 DEF Query, Goto, SlotsOK, StepOf
  <2> QED BY <1>1, <1>2, <1>4, <2>1, KeepIInv
<1> QED BY <1>3, <1>4

LEMMA ReceiveIInv ==
  ASSUME IInv, NEW c \in Calls, NEW new \in Call, NEW label \in {"session", "context", "find"},
         Receive(c, new, label),
         label = "session" => new.kind = "share",
         label = "context" => new.kind = "feed",
         label = "find" => new.kind \in {"react", "unreact"}
  PROVE  IInv'
<1>1. SlotsOK /\ UNCHANGED tables
  BY TypeParts DEF IInv, Receive
<1>2. SlotsOK' /\ StepOf(c) /\ call'[c] = new /\ pc'[c] = label
  BY <1>1, Empties DEF Receive, SlotsOK, StepOf, Labels
<1>3. InHandler(c)'
  BY <1>1, <1>2 DEF InHandler, InShare, InFeed, InReaction
<1> QED BY <1>1, <1>2, <1>3, SameTables, KeepIInv

-------------------------------------------------------------------------------
(* The actions *)

LEMMA ShareReads ==
  ASSUME IInv, NEW c \in Calls,
         FindSession(c) \/ CheckLimit(c) \/ CheckGroup(c) \/ FindExisting(c)
  PROVE  IInv'
<1>t. TypeOK /\ InHandler(c)
  BY DEF IInv
<1>l. /\ {0, 403, 404, 409} \subseteq Codes
      /\ {"limit", "group", "existing", "insert"} \subseteq Labels
  BY DEF Codes, Labels
<1>1. CASE FindSession(c)
  <2>1. InShare(c) /\ call[c] # NoCall
    BY <1>t, <1>1 DEF FindSession, Query, InHandler, InShare, NoCall
  <2>2. ASSUME UNCHANGED tables, call' = call, call[c].session \in completed,
               OwnerOf[call[c].session] = call[c].user, pc'[c] = "limit"
        PROVE  InHandler(c)'
    BY <2>1, <2>2 DEF InHandler, InShare, tables
  <2> QED BY <1>1, <1>l, <2>1, <2>2, Empties, QueryIInv DEF FindSession
<1>2. CASE CheckLimit(c)
  <2>1. InShare(c) /\ call[c] # NoCall /\ pc[c] = "limit"
    BY <1>t, <1>2 DEF CheckLimit, Query, InHandler, InShare, NoCall
  <2>2. ASSUME UNCHANGED tables, call' = call,
               pc'[c] = IF call[c].scope = "GROUP" THEN "group" ELSE "existing"
        PROVE  InHandler(c)'
    BY <2>1, <2>2 DEF InHandler, InShare, tables
  <2> QED BY <1>2, <1>l, <2>1, <2>2, Empties, QueryIInv DEF CheckLimit
<1>3. CASE CheckGroup(c)
  <2>1. InShare(c) /\ call[c] # NoCall /\ pc[c] = "group"
    BY <1>t, <1>3 DEF CheckGroup, Query, InHandler, InShare, NoCall
  <2>2. ASSUME UNCHANGED tables, call' = call, call[c].group \in Groups,
               Belongs(call[c].group, call[c].user), pc'[c] = "existing"
        PROVE  InHandler(c)'
    BY <2>1, <2>2 DEF InHandler, InShare, tables, Belongs, EverIn
  <2> QED BY <1>3, <1>l, <2>1, <2>2, Empties, QueryIInv DEF CheckGroup
<1>4. CASE FindExisting(c)
  <2>1. InShare(c) /\ call[c] # NoCall /\ pc[c] = "existing"
    BY <1>t, <1>4 DEF FindExisting, Query, InHandler, InShare, NoCall
  <2>2. ASSUME UNCHANGED tables, call' = call, pc'[c] = "insert" PROVE InHandler(c)'
    BY <2>1, <2>2 DEF InHandler, InShare, tables, EverIn
  <2> QED BY <1>4, <1>l, <2>1, <2>2, Empties, QueryIInv DEF FindExisting
<1> QED BY <1>1, <1>2, <1>3, <1>4

LEMMA InsertIInv == ASSUME IInv, NEW c \in Calls, InsertShare(c) PROVE IInv'
<1>t. TypeOK /\ InShare(c) /\ call[c] # NoCall /\ pc[c] = "insert" /\ {201, 409} \subseteq Codes
  BY DEF IInv, InHandler, InShare, InsertShare, NoCall, Codes
<1>1. CASE UNCHANGED shares /\ Answer(c, 409, {})
  BY <1>t, <1>1, SameTables, AnswerIInv DEF InsertShare, tables
<1>2. ASSUME NEW s \in ShareIds, AudienceIndexAllows(call[c]), ~ Stored(s), NEW row,
             row = [session |-> call[c].session, scope |-> call[c].scope, group |-> call[c].group],
             shares' = [shares EXCEPT ![s] = row], Answer(c, 201, {})
      PROVE  IInv'
  <2>1. row \in Share
    <3>1. /\ call[c].session \in Sessions /\ call[c].scope \in Scopes
          /\ call[c].scope = "GROUP" => call[c].group \in Groups
          /\ call[c].scope # "GROUP" => call[c].group = NULL
      BY <1>t, CallType DEF InShare, TypeOK
    <3> QED BY <1>2, <3>1 DEF Share, Scopes
  <2>2. row # NoShare /\ row.session \in completed /\ OwnerOf[row.session] = call[c].user
        /\ (row.scope = "GROUP" => EverIn(row.group, OwnerOf[row.session]))
    BY <1>t, <1>2, <2>1 DEF InShare, NoShare, Share
  <2>3. \A r \in ShareIds : shares[r] # row
    BY <1>2 DEF AudienceIndexAllows, Same
  <2>4. UNCHANGED <<privacy, friends, members, completed, reactions>>
    BY DEF InsertShare
  <2>5. shares'[s] = row /\ \A r \in ShareIds \ {s} : shares'[r] = shares[r]
    BY <1>t, <1>2 DEF TypeOK
  <2>6. TablesOK' /\ Lasts
    <3>1. shares' \in [ShareIds -> Share \cup {NoShare}]
      BY <1>t, <1>2, <2>1 DEF TypeOK
    <3> QED BY <1>t, <1>2, <2>4, <2>5, <3>1, TypeParts DEF TablesOK, Lasts, Stored
  <2>7. OneSharePerAudience'
    BY <2>3, <2>5 DEF IInv, OneSharePerAudience, Stored
  <2>8. ASSUME NEW r \in ShareIds, Stored(r)'
        PROVE  (/\ shares[r].session \in completed
                /\ shares[r].scope = "GROUP" => EverIn(shares[r].group, Owner(r)))'
    BY <2>2, <2>4, <2>5, <2>8 DEF IInv, RowsMeant, Stored, Owner, EverIn
  <2>9. \A r \in reactions' : Stored(r.share)' /\ Meant(r.share, r.user)'
    BY <1>t, <2>4, <2>6, MeantLasts DEF IInv, RowsMeant, TypeOK
  <2> QED BY <1>t, <1>2, <2>6, <2>7, <2>8, <2>9, AnswerIInv DEF RowsOK, RowsMeant, EverIn, Owner
<1> QED BY <1>1, <1>2 DEF InsertShare

LEMMA FriendsType == ASSUME NEW u PROVE FriendsOf(u) \subseteq Users /\ GroupsOf(u) \subseteq Groups
BY DEF FriendsOf, GroupsOf

LEMMA OwnersType ==
  ASSUME TypeOK, NEW S \in SUBSET ShareIds, \A s \in S : Stored(s)
  PROVE  /\ Owners(S) \subseteq Users
         /\ {[user |-> u, score |-> privacy[u].score] : u \in Owners(S)}
              \subseteq [user : Users, score : Levels]
<1>1. Owners(S) \subseteq Users
  BY RowType DEF Owners
<1>2. \A u \in Users : privacy[u].score \in Levels
  BY DEF TypeOK, Settings
<1> QED BY <1>1, <1>2

(* What a handler remembers of a page lasts while the tables do. *)
LEMMA PageKept ==
  ASSUME IInv, NEW c \in Calls, InFeed(c), pc[c] # "context", UNCHANGED tables, call' = call,
         pc'[c] \in {"levels", "common"}, mem'[c].friends = mem[c].friends,
         mem'[c].groups = mem[c].groups,
         \A s \in mem'[c].page : Stored(s) /\ Meant(s, call[c].user)
  PROVE  InHandler(c)'
<1>1. InFeed(c)'
  <2>1. /\ (mem[c].friends \subseteq FriendsOf(call[c].user))'
        /\ (\A g \in mem[c].groups : EverIn(g, call[c].user))'
    BY DEF InFeed, FriendsOf, EverIn, tables
  <2>2. (\A s \in mem[c].page : Stored(s) /\ Meant(s, call[c].user))'
    BY DEF Stored, Meant, Owner, EverIn, FriendsOf, tables
  <2> QED BY <2>1, <2>2 DEF InFeed
<1> QED BY <1>1 DEF InHandler

LEMMA FeedReads ==
  ASSUME IInv, NEW c \in Calls, FeedContext(c) \/ ReadPage(c) \/ ReadLevels(c) \/ AnswerFeed(c)
  PROVE  IInv'
<1>t. TypeOK /\ InFeed(c) /\ call[c] # NoCall /\ call[c].user \in Users
  BY CallType DEF IInv, InHandler, InFeed, FeedContext, ReadPage, ReadLevels, AnswerFeed, Query, NoCall
<1>l. {0, 200} \subseteq Codes /\ {"page", "levels", "common"} \subseteq Labels
  BY DEF Codes, Labels
<1>m. /\ mem[c].friends \subseteq Users /\ mem[c].groups \subseteq Groups
      /\ mem[c].page \subseteq ShareIds
  BY <1>t, MemType
<1>1. CASE FeedContext(c)
  <2>1. PICK m : m = [friends |-> FriendsOf(call[c].user), groups |-> GroupsOf(call[c].user),
                      page |-> {}, levels |-> {}]
    OBVIOUS
  <2>2. m \in Memory
    BY <2>1, FriendsType DEF Memory
  <2>3. /\ m.friends \subseteq FriendsOf(call[c].user)
        /\ \A g \in m.groups : EverIn(g, call[c].user)
    BY <2>1 DEF GroupsOf, EverIn
  <2>4. ASSUME UNCHANGED tables, call' = call, pc'[c] = "page", mem'[c] = m PROVE InHandler(c)'
    BY <1>t, <2>3, <2>4 DEF InHandler, InFeed, FriendsOf, EverIn, tables
  <2>5. Query(c, "context", 0, "page", m)
    BY <1>1, <2>1 DEF FeedContext
  <2> QED BY <1>t, <1>l, <2>2, <2>4, <2>5, QueryIInv
<1>2. CASE ReadPage(c)
  <2>1. PICK P : P = Page(call[c].filter, call[c].user, mem[c].friends, mem[c].groups)
    OBVIOUS
  <2>2. PICK m : m = [friends |-> mem[c].friends, groups |-> mem[c].groups, levels |-> {},
                      page |-> P]
    OBVIOUS
  <2>3. P \subseteq ShareIds /\ pc[c] = "page"
    BY <1>2, <2>1 DEF Page, ReadPage, Query
  <2>4. m \in Memory
    BY <1>m, <2>2, <2>3 DEF Memory
  <2>5. ASSUME NEW s \in P PROVE Stored(s) /\ Meant(s, call[c].user)
    <3>1. Stored(s) /\ scopeFilter(s, call[c].filter, call[c].user, mem[c].friends, mem[c].groups)
      BY <2>1 DEF Page
    <3> QED BY <1>t, <2>3, <3>1 DEF scopeFilter, Meant, InFeed
  <2>6. ASSUME UNCHANGED tables, call' = call, pc'[c] = "levels", mem'[c] = m PROVE InHandler(c)'
    BY <1>t, <2>2, <2>3, <2>5, <2>6, PageKept
  <2>7. Query(c, "page", 0, "levels", m)
    BY <1>2, <2>1, <2>2 DEF ReadPage
  <2> QED BY <1>t, <1>l, <2>4, <2>6, <2>7, QueryIInv
<1>3. CASE ReadLevels(c)
  <2>1. PICK L : L = {[user |-> u, score |-> privacy[u].score] : u \in Owners(mem[c].page)}
    OBVIOUS
  <2>2. PICK m : m = [friends |-> mem[c].friends, groups |-> mem[c].groups, page |-> mem[c].page,
                      levels |-> L]
    OBVIOUS
  <2>3. pc[c] = "levels" /\ \A s \in mem[c].page : Stored(s) /\ Meant(s, call[c].user)
    BY <1>t, <1>3 DEF ReadLevels, Query, InFeed
  <2>4. L \subseteq [user : Users, score : Levels]
    BY <1>t, <1>m, <2>1, <2>3, OwnersType
  <2>5. m \in Memory
    BY <1>m, <2>2, <2>4 DEF Memory
  <2>6. ASSUME UNCHANGED tables, call' = call, pc'[c] = "common", mem'[c] = m PROVE InHandler(c)'
    BY <1>t, <2>2, <2>3, <2>6, PageKept
  <2>7. Query(c, "levels", 0, "common", m)
    BY <1>3, <2>1, <2>2 DEF ReadLevels
  <2> QED BY <1>t, <1>l, <2>5, <2>6, <2>7, QueryIInv
<1>4. CASE AnswerFeed(c)
  <2>1. PICK I : I = {[share |-> s, score |-> ShowsScore(c, s)] : s \in mem[c].page}
    OBVIOUS
  <2>2. UNCHANGED tables /\ Answer(c, 200, I) /\ pc[c] = "common"
    BY <1>4, <2>1 DEF AnswerFeed
  <2>3. \A s : ShowsScore(c, s) \in BOOLEAN
    BY DEF ShowsScore
  <2>4. I \in SUBSET [share : ShareIds, score : BOOLEAN] /\ \A i \in I : i.share \in mem[c].page
    BY <1>m, <2>1, <2>3
  <2>5. \A i \in I : Stored(i.share) /\ Meant(i.share, call[c].user)
    BY <1>t, <2>2, <2>4 DEF InFeed
  <2>6. \A i \in I : Stored(i.share)' /\ Meant(i.share, call[c].user)'
    BY <2>2, <2>5 DEF Stored, Meant, Owner, FriendsOf, EverIn, tables, Answer
  <2> QED BY <1>t, <1>l, <2>2, <2>4, <2>6, SameTables, AnswerIInv
<1> QED BY <1>1, <1>2, <1>3, <1>4

(* canAccessShare lets through whom the share is meant for. *)
LEMMA AccessMeant ==
  ASSUME NEW s, NEW u, canAccessShare(s, u, FriendsOf(u), GroupsOf(u))
  PROVE  Meant(s, u)
BY DEF canAccessShare, Meant, GroupsOf, EverIn

LEMMA ReactionReads ==
  ASSUME IInv, NEW c \in Calls, FindShare(c) \/ ReadOwner(c) \/ ReadViewer(c)
  PROVE  IInv'
<1>t. TypeOK /\ InReaction(c) /\ call[c] # NoCall
  BY DEF IInv, InHandler, InReaction, FindShare, ReadOwner, ReadViewer, Query, NoCall
<1>l. {0, 403, 404} \subseteq Codes /\ {"owner", "viewer", "write"} \subseteq Labels
  BY DEF Codes, Labels
<1>c. call[c].share \in ShareIds
  BY <1>t, CallType DEF InReaction
<1>1. CASE FindShare(c)
  <2>1. ASSUME UNCHANGED tables, call' = call, Stored(call[c].share), pc'[c] = "owner"
        PROVE  InHandler(c)'
    BY <1>t, <2>1 DEF InHandler, InReaction, Stored, tables
  <2> QED BY <1>t, <1>l, <1>1, <2>1, Empties, QueryIInv DEF FindShare
<1>2. CASE ReadOwner(c)
  <2>1. PICK P \in SUBSET ShareIds :
          Query(c, "owner", 0, "viewer",
                [friends |-> {}, groups |-> {}, levels |-> {}, page |-> P])
    BY <1>c, <1>2 DEF ReadOwner
  <2>2. PICK m : m = [friends |-> {}, groups |-> {}, levels |-> {}, page |-> P]
    OBVIOUS
  <2>3. m \in Memory
    BY <2>2 DEF Memory
  <2>4. Query(c, "owner", 0, "viewer", m) /\ pc[c] = "owner"
    BY <2>1, <2>2 DEF Query
  <2>5. ASSUME UNCHANGED tables, call' = call, pc'[c] = "viewer" PROVE InHandler(c)'
    BY <1>t, <2>4, <2>5 DEF InHandler, InReaction, Stored, tables
  <2> QED BY <1>t, <1>l, <2>3, <2>4, <2>5, QueryIInv
<1>3. CASE ReadViewer(c)
  <2>1. PICK code \in {0, 403} :
          /\ Query(c, "viewer", code, "write", Nothing) /\ pc[c] = "viewer"
          /\ code = 0 => Meant(call[c].share, call[c].user)
    BY <1>3, AccessMeant DEF ReadViewer, Query
  <2>2. ASSUME UNCHANGED tables, call' = call, code = 0, pc'[c] = "write" PROVE InHandler(c)'
    BY <1>t, <2>1, <2>2 DEF InHandler, InReaction, Stored, Meant, Owner, FriendsOf, EverIn, tables
  <2> QED BY <1>t, <1>l, <2>1, <2>2, Empties, QueryIInv
<1> QED BY <1>1, <1>2, <1>3

LEMMA WriteIInv == ASSUME IInv, NEW c \in Calls, WriteReaction(c) PROVE IInv'
<1>t. TypeOK /\ InReaction(c) /\ call[c] # NoCall /\ pc[c] = "write" /\ {200, 201, 409} \subseteq Codes
  BY DEF IInv, InHandler, InReaction, WriteReaction, NoCall, Codes
<1>c. call[c].user \in Users /\ call[c].share \in ShareIds /\ call[c].reaction \in Reactions
  BY <1>t, CallType DEF InReaction
<1>r. /\ Reaction(c) \in [share : ShareIds, user : Users, type : Reactions]
      /\ Stored(Reaction(c).share) /\ Meant(Reaction(c).share, Reaction(c).user)
  BY <1>t, <1>c DEF Reaction, InReaction
<1>u. UNCHANGED <<privacy, friends, members, completed, shares>>
  BY DEF WriteReaction
<1>1. reactions' \subseteq reactions \cup {Reaction(c)} /\ \E code \in {200, 201, 409} : Answer(c, code, {})
  BY DEF WriteReaction
<1>2. \A x \in reactions' : Stored(x.share) /\ Meant(x.share, x.user)
  BY <1>1, <1>r DEF IInv, RowsMeant
<1>3. TablesOK' /\ Lasts
  BY <1>t, <1>u, <1>1, <1>r, TypeParts DEF TablesOK, Lasts
<1>4. RowsOK'
  <2>1. OneSharePerAudience'
    BY <1>u DEF IInv, OneSharePerAudience, Stored
  <2>2. RowsMeant'
    BY <1>u, <1>2 DEF IInv, RowsMeant, Stored, Meant, Owner, EverIn, FriendsOf
  <2> QED BY <2>1, <2>2 DEF RowsOK
<1> QED BY <1>t, <1>1, <1>3, <1>4, AnswerIInv

LEMMA FailIInv == ASSUME IInv, NEW c \in Calls, Fail(c) PROVE IInv'
<1>1. call[c] # NoCall /\ 500 \in Codes
  BY DEF IInv, TypeOK, Labels, InHandler, InShare, InFeed, InReaction, Fail, Free, NoCall, Codes
<1> QED BY <1>1, SameTables, AnswerIInv DEF Fail

LEMMA ReceivesIInv ==
  ASSUME IInv, NEW c \in Calls, ReceiveShare(c) \/ ReceiveFeed(c) \/ ReceiveReaction(c)
  PROVE  IInv'
<1>1. CASE ReceiveShare(c)
  <2>1. PICK u \in Users, x \in Sessions \cup {NULL}, scope \in Scopes, g \in Groups \cup {NULL} :
          /\ scope # "GROUP" => g = NULL
          /\ Receive(c, [kind |-> "share", user |-> u, session |-> x, scope |-> scope, group |-> g],
                     "session")
    BY <1>1 DEF ReceiveShare
  <2>2. PICK new : new = [kind |-> "share", user |-> u, session |-> x, scope |-> scope, group |-> g]
    OBVIOUS
  <2>3. new \in Call
    BY <2>1, <2>2 DEF Call, Scopes
  <2> QED BY <2>1, <2>2, <2>3, ReceiveIInv
<1>2. CASE ReceiveFeed(c)
  <2>1. PICK u \in Users, f \in {"all", "friends", "public"} :
          Receive(c, [kind |-> "feed", user |-> u, filter |-> f], "context")
    BY <1>2 DEF ReceiveFeed
  <2>2. PICK new : new = [kind |-> "feed", user |-> u, filter |-> f]
    OBVIOUS
  <2>3. new \in Call
    BY <2>2 DEF Call
  <2> QED BY <2>1, <2>2, <2>3, ReceiveIInv
<1>3. CASE ReceiveReaction(c)
  <2>1. PICK k \in {"react", "unreact"}, u \in Users, s \in ShareIds, r \in Reactions :
          Receive(c, [kind |-> k, user |-> u, share |-> s, reaction |-> r], "find")
    BY <1>3 DEF ReceiveReaction
  <2>2. PICK new : new = [kind |-> k, user |-> u, share |-> s, reaction |-> r]
    OBVIOUS
  <2>3. new \in Call
    BY <2>2 DEF Call
  <2> QED BY <2>1, <2>2, <2>3, ReceiveIInv
<1> QED BY <1>1, <1>2, <1>3

(* Steps of other handlers: no slot moves, no row of ours changes. *)
LEMMA ElsewhereIInv ==
  ASSUME IInv, TablesOK', Lasts, UNCHANGED <<shares, reactions, call, pc, mem, answer>>
  PROVE  IInv'
<1>1. TypeOK'
  BY DEF IInv, TypeOK, TablesOK
<1>2. \A d \in Calls : InHandler(d)'
  BY HandlerLasts DEF IInv
<1>3. OneSharePerAudience'
  BY DEF IInv, OneSharePerAudience, Stored
<1>4. RowsMeant'
  <2>1. ASSUME NEW s \in ShareIds, Stored(s)
        PROVE  (/\ shares[s].session \in completed
                /\ shares[s].scope = "GROUP" => EverIn(shares[s].group, Owner(s)))'
    BY <2>1, RowType DEF IInv, RowsMeant, Lasts, EverIn, Owner
  <2>2. \A r \in reactions : Stored(r.share)' /\ Meant(r.share, r.user)'
    BY MeantLasts DEF IInv, RowsMeant, TypeOK
  <2> QED BY <2>1, <2>2 DEF RowsMeant, Stored
<1> QED BY <1>1, <1>2, <1>3, <1>4 DEF IInv

LEMMA StepIInv == IInv /\ [Next]_vars => IInv'
<1> SUFFICES ASSUME IInv, [Next]_vars PROVE IInv'
  OBVIOUS
<1>t. TypeOK
  BY DEF IInv
<1>1. ASSUME NEW c \in Calls, Handle(c) PROVE IInv'
  BY <1>1, ShareReads, InsertIInv, FeedReads, ReactionReads, WriteIInv, FailIInv DEF Handle
<1>2. ASSUME NEW u \in Users, updatePrivacySettings(u) PROVE IInv'
  <2>1. privacy' \in [Users -> Settings]
    BY <1>t, <1>2 DEF updatePrivacySettings, TypeOK
  <2> QED BY <1>t, <1>2, <2>1, TypeParts, ElsewhereIInv DEF updatePrivacySettings, TablesOK, Lasts
<1>3. ASSUME NEW u \in Users, NEW v \in Users, Befriend(u, v) PROVE IInv'
  BY <1>t, <1>3, TypeParts, ElsewhereIInv DEF Befriend, TablesOK, Lasts
<1>4. ASSUME NEW g \in Groups, NEW u \in Users, Join(g, u) \/ Leave(g, u) PROVE IInv'
  <2>1. PICK status \in {"ACTIVE", "REMOVED"} : SetMember(g, u, status)
    BY <1>4 DEF Join, Leave
  <2>2. /\ members' \in [Groups -> [Users -> {"none", "ACTIVE", "REMOVED"}]]
        /\ \A h \in Groups, v \in Users : members[h][v] # "none" => members'[h][v] # "none"
    BY <1>t, <2>1 DEF SetMember, TypeOK
  <2> QED BY <1>t, <2>1, <2>2, TypeParts, ElsewhereIInv DEF SetMember, TablesOK, Lasts
<1>5. ASSUME NEW x \in Sessions, Complete(x) PROVE IInv'
  BY <1>t, <1>5, TypeParts, ElsewhereIInv DEF Complete, TablesOK, Lasts
<1>6. CASE UNCHANGED vars
  BY <1>t, <1>6, TypeParts, ElsewhereIInv DEF vars, TablesOK, Lasts
<1> QED BY <1>1, <1>2, <1>3, <1>4, <1>5, <1>6, ReceivesIInv DEF Next, Elsewhere

-------------------------------------------------------------------------------
(* The inductive invariant of shares, reactions and handlers. *)
THEOREM Invariant == Spec => []IInv
<1>1. Init => IInv
  BY InitIInv
<1>2. IInv /\ [Next]_vars => IInv'
  BY StepIInv
<1> QED BY <1>1, <1>2, PTL DEF Spec

(* However many calls of createShare race, a session is shared once with   *)
(* each audience.                                                          *)
THEOREM OneShare == Spec => []OneSharePerAudience
<1>1. IInv => OneSharePerAudience
  BY DEF IInv
<1> QED BY <1>1, Invariant, PTL

(* Whatever changes between the reads of a handler, only those a share was *)
(* meant for are shown it or react to it.                                  *)
THEOREM Audience == Spec => []AudienceOnly
<1>1. IInv => AudienceOnly
  BY DEF IInv, AudienceOnly, InHandler
<1> QED BY <1>1, Invariant, PTL

-------------------------------------------------------------------------------
(* The two ways to reach a share *)

LEMMA SameLimit ==
  ASSUME TypeOK, NEW s \in ShareIds, Stored(s)
  PROVE  privacyFilter(s) <=> isWithinOwnerPrivacy(shares[s].scope, privacy[Owner(s)])
<1>1. Owner(s) \in Users /\ shares[s].scope \in Scopes
  BY RowType DEF TypeOK, Stored, Share, Scopes
<1>2. PICK limit \in Levels : limit = privacy[Owner(s)].scope
  BY <1>1 DEF TypeOK, Settings
<1>3. Levels = {"PRIVATE", "FRIENDS", "GROUP", "PUBLIC"}
  BY DEF Levels, Rank
<1>4. Rank["PRIVATE"] = 0 /\ Rank["FRIENDS"] = 1 /\ Rank["GROUP"] = 2 /\ Rank["PUBLIC"] = 3
  BY DEF Rank
<1>5. CASE shares[s].scope = "PUBLIC"
  BY <1>2, <1>3, <1>4, <1>5 DEF privacyFilter, isWithinOwnerPrivacy
<1>6. CASE shares[s].scope = "FRIENDS"
  BY <1>2, <1>3, <1>4, <1>6 DEF privacyFilter, isWithinOwnerPrivacy
<1>7. CASE shares[s].scope = "GROUP"
  BY <1>2, <1>3, <1>4, <1>7 DEF privacyFilter, isWithinOwnerPrivacy
<1> QED BY <1>1, <1>5, <1>6, <1>7 DEF Scopes

LEMMA SameReaders ==
  ASSUME NEW s, NEW u, NEW fs, NEW gs
  PROVE  scopeFilter(s, "all", u, fs, gs) <=> canAccessShare(s, u, fs, gs)
BY DEF scopeFilter, canAccessShare

(* The feed filters in the database and reactions are checked in the code: *)
(* whatever the settings and the relations are, both draw the same line.   *)
THEOREM Reachable == Spec => []ListedIffReachable
<1>1. TypeOK => ListedIffReachable
  BY SameLimit, SameReaders DEF ListedIffReachable, Page
<1>2. IInv => TypeOK
  BY DEF IInv
<1> QED BY <1>1, <1>2, Invariant, PTL

-------------------------------------------------------------------------------
(* The settings in force while a call ran *)

LEMMA PastGrows ==
  ASSUME HistoryNext, NEW c \in Calls
  PROVE  /\ pc[c] \notin Free => past[c] \subseteq past'[c] /\ InForce' \subseteq past'[c]
         /\ pc[c] \in Free /\ pc'[c] \notin Free => past'[c] = InForce'
         /\ pc[c] \in Free /\ pc'[c] \in Free => past'[c] = past[c]
BY DEF HistoryNext

LEMMA ScoreAllowedLasts ==
  ASSUME Lasts, NEW c, NEW owner \in Users, NEW u \in Users, ScoreAllowed(c, owner, u),
         past[c] \subseteq past'[c]
  PROVE  ScoreAllowed(c, owner, u)'
BY DEF ScoreAllowed, Lasts, FriendsOf, EverIn

(* A limit that holds now is one that is in force. *)
LEMMA AllowedNow ==
  ASSUME TypeOK, NEW c, NEW x \in Sessions, NEW scope \in Scopes, InForce \subseteq past[c],
         isWithinOwnerPrivacy(scope, privacy[OwnerOf[x]])
  PROVE  Allowed(c, OwnerOf[x], scope)
<1>1. PICK p : p = [user |-> OwnerOf[x], settings |-> privacy[OwnerOf[x]]]
  OBVIOUS
<1>2. p \in past[c]
  BY <1>1 DEF InForce
<1>3. PICK limit \in Levels : limit = privacy[OwnerOf[x]].scope
  BY DEF TypeOK, Settings
<1>4. Levels = {"PRIVATE", "FRIENDS", "GROUP", "PUBLIC"}
  BY DEF Levels, Rank
<1>5. Rank["PRIVATE"] = 0 /\ Rank["FRIENDS"] = 1 /\ Rank["GROUP"] = 2 /\ Rank["PUBLIC"] = 3
  BY DEF Rank
<1>6. Rank[scope] <= Rank[limit]
  BY <1>3 DEF isWithinOwnerPrivacy
<1>7. scope \in Within(limit)
  <2>1. CASE limit = "PRIVATE"
    BY <1>5, <1>6, <2>1 DEF Scopes
  <2>2. CASE limit = "FRIENDS"
    BY <1>5, <1>6, <2>2 DEF Scopes, Within
  <2>3. CASE limit = "GROUP"
    BY <1>5, <1>6, <2>3 DEF Scopes, Within
  <2>4. CASE limit = "PUBLIC"
    BY <2>4 DEF Scopes, Within
  <2> QED BY <1>4, <2>1, <2>2, <2>3, <2>4
<1> QED BY <1>1, <1>2, <1>3, <1>7 DEF Allowed

(* Shares as they are stored: their owners, and what lasts of them. *)
LEMMA RowLasts ==
  ASSUME Lasts, NEW s \in ShareIds, Stored(s)
  PROVE  shares'[s] = shares[s] /\ Owner(s)' = Owner(s) /\ Stored(s)'
BY DEF Lasts, Stored, Owner

LEMMA RowAllowedLasts ==
  ASSUME Lasts, NEW s \in ShareIds, Stored(s), NEW c, past[c] \subseteq past'[c],
         Allowed(c, Owner(s), shares[s].scope)
  PROVE  Allowed(c, Owner(s), shares[s].scope)'
BY RowLasts DEF Allowed

LEMMA PageAllowedLasts ==
  ASSUME Lasts, NEW c, PageAllowed(c), past[c] \subseteq past'[c], mem'[c].page = mem[c].page,
         \A s \in mem[c].page : s \in ShareIds /\ Stored(s)
  PROVE  PageAllowed(c)'
BY RowAllowedLasts DEF PageAllowed

LEMMA HonouredLasts ==
  ASSUME TypeOK, Lasts, NEW c \in Calls, Honoured(c), call[c] # NoCall, FeedMeant(c),
         past[c] \subseteq past'[c], call'[c] = call[c], answer'[c] = answer[c],
         call[c].kind = "react" /\ answer[c].code = 201 => Stored(call[c].share)
  PROVE  Honoured(c)'
<1>1. call[c].user \in Users
  BY CallType
<1>2. ASSUME call[c].kind = "share", answer[c].code = 201
      PROVE  Allowed(c, call[c].user, call[c].scope)'
  BY <1>2 DEF Honoured, Allowed
<1>3. ASSUME call[c].kind = "react", answer[c].code = 201
      PROVE  Allowed(c, Owner(call[c].share), shares[call[c].share].scope)'
  <2>1. PICK s \in ShareIds : s = call[c].share /\ Stored(s)
    BY <1>3, CallType
  <2>2. Allowed(c, Owner(s), shares[s].scope)'
    BY <1>3, <2>1, RowAllowedLasts DEF Honoured
  <2> QED BY <2>1, <2>2
<1>4. ASSUME NEW i \in answer[c].feed
      PROVE  (/\ Allowed(c, Owner(i.share), shares[i.share].scope)
              /\ i.score => ScoreAllowed(c, Owner(i.share), call[c].user))'
  <2>1. PICK s \in ShareIds : s = i.share /\ Stored(s)
    BY MemType DEF FeedMeant
  <2>2. Allowed(c, Owner(s), shares[s].scope)'
    BY <2>1, RowAllowedLasts DEF Honoured
  <2>3. PICK o \in Users : o = Owner(s) /\ o = Owner(s)'
    BY <2>1, RowType, RowLasts
  <2>4. PICK u \in Users : u = call[c].user /\ u = call'[c].user
    BY <1>1
  <2>5. i.score => ScoreAllowed(c, o, u)'
    BY <2>1, <2>3, <2>4, ScoreAllowedLasts DEF Honoured
  <2> QED BY <2>1, <2>2, <2>3, <2>4, <2>5 DEF ScoreAllowed
<1> QED BY <1>2, <1>3, <1>4 DEF Honoured

(* A slot that does nothing stays limited. *)
LEMMA LimitedLasts ==
  ASSUME TypeOK, Lasts, NEW d \in Calls, InHandler(d), Limited(d),
         call'[d] = call[d], pc'[d] = pc[d], mem'[d] = mem[d], answer'[d] = answer[d],
         past[d] \subseteq past'[d], pc[d] \notin Free => InForce' \subseteq past'[d]
  PROVE  Limited(d)'
<1>1. ASSUME pc[d] \in {"group", "existing", "insert"}
      PROVE  Allowed(d, call[d].user, call[d].scope)'
  BY <1>1 DEF Limited, Allowed
<1>2. ASSUME pc[d] \in {"levels", "common"} PROVE PageAllowed(d)'
  <2>1. \A s \in mem[d].page : s \in ShareIds /\ Stored(s)
    BY <1>2, MemType DEF InHandler, InFeed
  <2> QED BY <1>2, <2>1, PageAllowedLasts DEF Limited
<1>3. ASSUME pc[d] = "common" PROVE LevelsRead(d)'
  BY <1>3 DEF Limited, LevelsRead
<1>4. ASSUME pc[d] = "viewer" PROVE (mem[d].page \subseteq {call[d].share} /\ PageAllowed(d))'
  <2>1. \A s \in mem[d].page : s \in ShareIds /\ Stored(s)
    BY <1>4, MemType DEF InHandler, InReaction, Limited
  <2> QED BY <1>4, <2>1, PageAllowedLasts DEF Limited
<1>5. ASSUME pc[d] = "write"
      PROVE  Allowed(d, Owner(call[d].share), shares[call[d].share].scope)'
  <2>1. PICK s \in ShareIds : s = call[d].share /\ Stored(s)
    BY <1>5, CallType DEF InHandler, InReaction
  <2>2. Allowed(d, Owner(s), shares[s].scope)'
    BY <1>5, <2>1, RowAllowedLasts DEF Limited
  <2> QED BY <2>1, <2>2
<1>6. ASSUME pc[d] = "done"
      PROVE  (/\ Honoured(d)
              /\ call[d].kind = "react" /\ answer[d].code = 201 => Stored(call[d].share))'
  <2>1. Honoured(d)'
    BY <1>6, HonouredLasts DEF InHandler, Limited
  <2>2. call[d].kind = "react" /\ answer[d].code = 201 => Stored(call[d].share)'
    BY <1>6, CallType, RowLasts DEF Limited
  <2> QED BY <2>1, <2>2
<1>7. pc[d] \notin Free => (InForce \subseteq past[d])'
  OBVIOUS
<1> QED BY <1>1, <1>2, <1>3, <1>4, <1>5, <1>6, <1>7 DEF Limited

-------------------------------------------------------------------------------
(* The slot that moves stays limited, too *)

LEMMA RefusalLimited ==
  ASSUME HInv, NEW c \in Calls, NEW code, code # 201, Answer(c, code, {})
  PROVE  Limited(c)'
<1>1. pc'[c] = "done" /\ answer'[c] = [code |-> code, feed |-> {}]
  BY DEF HInv, IInv, TypeOK, Answer
<1> QED BY <1>1 DEF Limited, Honoured, Free

LEMMA QueryLimited ==
  ASSUME HInv, HistoryNext, NEW c \in Calls, NEW label, label \notin Free,
         NEW code \in {0, 403, 404, 409}, NEW next, NEW memory,
         Query(c, label, code, next, memory)
  PROVE  \/ Limited(c)'
         \/ /\ UNCHANGED tables /\ call' = call /\ pc[c] = label /\ code = 0
            /\ pc'[c] = next /\ mem'[c] = memory
            /\ InForce \subseteq past[c] /\ past[c] \subseteq past'[c] /\ (InForce \subseteq past[c])'
<1>1. pc[c] = label /\ UNCHANGED tables
  BY DEF Query
<1>2. CASE code # 0
  BY <1>2, RefusalLimited DEF Query
<1>3. CASE code = 0
  <2>1. call' = call /\ pc'[c] = next /\ mem'[c] = memory
    BY <1>3 DEF Query, Goto, HInv, IInv, TypeOK
  <2>2. InForce \subseteq past[c] /\ past[c] \subseteq past'[c] /\ InForce' \subseteq past'[c]
    BY <1>1, PastGrows DEF HInv, Limited
  <2> QED BY <1>1, <1>3, <2>1, <2>2
<1> QED BY <1>2, <1>3

LEMMA ReceivesLimited ==
  ASSUME HInv, HistoryNext, NEW c \in Calls, ReceiveShare(c) \/ ReceiveFeed(c) \/ ReceiveReaction(c)
  PROVE  Limited(c)'
<1>1. pc[c] \in Free /\ pc'[c] \in {"session", "context", "find"}
  BY DEF ReceiveShare, ReceiveFeed, ReceiveReaction, Receive, HInv, IInv, TypeOK
<1>2. (InForce \subseteq past[c])'
  BY <1>1, PastGrows DEF Free
<1> QED BY <1>1, <1>2 DEF Limited

LEMMA ShareLimited ==
  ASSUME HInv, HistoryNext, NEW c \in Calls,
         FindSession(c) \/ CheckLimit(c) \/ CheckGroup(c) \/ FindExisting(c) \/ InsertShare(c)
  PROVE  Limited(c)'
<1>t. TypeOK /\ InShare(c) /\ call[c].user \in Users /\ call[c].scope \in Scopes
  BY CallType DEF HInv, IInv, InHandler, InShare, FindSession, CheckLimit, CheckGroup,
                  FindExisting, InsertShare, Query
<1>l. /\ "session" \notin Free /\ "limit" \notin Free /\ "group" \notin Free
      /\ "existing" \notin Free /\ "insert" \notin Free
  BY DEF Free
<1>1. CASE FindSession(c)
  <2>1. ASSUME pc'[c] = "limit", (InForce \subseteq past[c])' PROVE Limited(c)'
    BY <2>1 DEF Limited
  <2>2. PICK code \in {0, 403, 404, 409} : Query(c, "session", code, "limit", Nothing)
    BY <1>1 DEF FindSession
  <2> QED BY <1>l, <2>1, <2>2, QueryLimited
<1>2. CASE CheckLimit(c)
  <2>1. ASSUME isWithinOwnerPrivacy(call[c].scope, privacy[call[c].user]), call' = call,
               pc[c] = "limit", pc'[c] \in {"group", "existing"},
               InForce \subseteq past[c], past[c] \subseteq past'[c], (InForce \subseteq past[c])'
        PROVE  Limited(c)'
    <3>1. PICK x \in Sessions : OwnerOf[x] = call[c].user
      BY <1>t, <2>1 DEF InShare, TypeOK
    <3>2. Allowed(c, call[c].user, call[c].scope)
      BY <1>t, <2>1, <3>1, AllowedNow
    <3>3. Allowed(c, call[c].user, call[c].scope)'
      BY <2>1, <3>2 DEF Allowed
    <3> QED BY <2>1, <3>3 DEF Limited
  <2>2. PICK code \in {0, 403}, next \in {"group", "existing"} :
          /\ Query(c, "limit", code, next, Nothing) /\ pc[c] = "limit"
          /\ code = 0 => isWithinOwnerPrivacy(call[c].scope, privacy[call[c].user])
    BY <1>2 DEF CheckLimit, Query
  <2> QED BY <1>l, <2>1, <2>2, QueryLimited
<1>3. ASSUME pc[c] \in {"group", "existing"}, pc'[c] \in {"existing", "insert"}, call' = call,
             past[c] \subseteq past'[c], (InForce \subseteq past[c])'
      PROVE  Limited(c)'
  <2>1. Allowed(c, call[c].user, call[c].scope)'
    BY <1>3 DEF HInv, Limited, Allowed
  <2> QED BY <1>3, <2>1 DEF Limited
<1>4. CASE CheckGroup(c)
  BY <1>4, <1>l, <1>3, QueryLimited DEF CheckGroup
<1>5. CASE FindExisting(c)
  BY <1>5, <1>l, <1>3, QueryLimited DEF FindExisting
<1>6. CASE InsertShare(c)
  <2>1. CASE Answer(c, 409, {})
    BY <2>1, RefusalLimited
  <2>2. CASE Answer(c, 201, {})
    <3>1. call' = call /\ pc'[c] = "done" /\ answer'[c] = [code |-> 201, feed |-> {}]
      BY <1>t, <2>2 DEF Answer, TypeOK
    <3>2. pc[c] = "insert" /\ past[c] \subseteq past'[c]
      BY <1>6, <1>l, PastGrows DEF InsertShare
    <3>3. Allowed(c, call[c].user, call[c].scope)'
      BY <3>1, <3>2 DEF HInv, Limited, Allowed
    <3>4. call[c].kind = "share"
      BY <1>t DEF InShare
    <3> QED BY <3>1, <3>3, <3>4 DEF Limited, Honoured, Free
  <2> QED BY <1>6, <2>1, <2>2 DEF InsertShare
<1> QED BY <1>1, <1>2, <1>4, <1>5, <1>6

LEMMA ReactionLimited ==
  ASSUME HInv, HistoryNext, NEW c \in Calls,
         FindShare(c) \/ ReadOwner(c) \/ ReadViewer(c) \/ WriteReaction(c)
  PROVE  Limited(c)'
<1>t. TypeOK /\ InReaction(c)
  BY DEF HInv, IInv, InHandler, FindShare, ReadOwner, ReadViewer, WriteReaction, Query
<1>c. PICK s \in ShareIds : s = call[c].share
  BY <1>t, CallType DEF InReaction
<1>l. "find" \notin Free /\ "owner" \notin Free /\ "viewer" \notin Free /\ "write" \notin Free
  BY DEF Free
<1>1. CASE FindShare(c)
  <2>1. ASSUME pc'[c] = "owner", (InForce \subseteq past[c])' PROVE Limited(c)'
    BY <2>1 DEF Limited
  <2>2. PICK code \in {0, 404} : Query(c, "find", code, "owner", Nothing)
    BY <1>1 DEF FindShare
  <2> QED BY <1>l, <2>1, <2>2, QueryLimited
<1>2. CASE ReadOwner(c)
  <2>1. PICK P : P = IF isWithinOwnerPrivacy(shares[s].scope, privacy[Owner(s)]) THEN {s} ELSE {}
    OBVIOUS
  <2>2. PICK m : m = [friends |-> {}, groups |-> {}, levels |-> {}, page |-> P]
    OBVIOUS
  <2>3. Query(c, "owner", 0, "viewer", m) /\ pc[c] = "owner" /\ Stored(s)
    BY <1>t, <1>c, <1>2, <2>1, <2>2 DEF ReadOwner, Query, InReaction
  <2>4. ASSUME UNCHANGED tables, call' = call, pc'[c] = "viewer", mem'[c] = m,
               InForce \subseteq past[c], past[c] \subseteq past'[c], (InForce \subseteq past[c])'
        PROVE  Limited(c)'
    <3>1. shares[s].session \in Sessions /\ shares[s].scope \in Scopes
      BY <1>t, <2>3 DEF TypeOK, Stored, Share, Scopes
    <3>2. P # {} => Allowed(c, Owner(s), shares[s].scope)
      BY <1>t, <2>1, <2>4, <3>1, AllowedNow DEF Owner
    <3>3. P # {} => Allowed(c, Owner(s), shares[s].scope)'
      BY <2>4, <3>2 DEF Allowed, Owner, tables
    <3>4. PageAllowed(c)' /\ mem'[c].page \subseteq {call'[c].share}
      BY <1>c, <2>1, <2>2, <2>4, <3>3 DEF PageAllowed
    <3> QED BY <2>4, <3>4 DEF Limited
  <2> QED BY <1>l, <2>3, <2>4, QueryLimited
<1>3. CASE ReadViewer(c)
  <2>1. PICK code \in {0, 403} : /\ Query(c, "viewer", code, "write", Nothing) /\ pc[c] = "viewer"
                                 /\ code = 0 => s \in mem[c].page
    BY <1>c, <1>3 DEF ReadViewer, Query
  <2>2. ASSUME UNCHANGED tables, call' = call, code = 0, pc'[c] = "write",
               past[c] \subseteq past'[c], (InForce \subseteq past[c])'
        PROVE  Limited(c)'
    <3>1. Allowed(c, Owner(s), shares[s].scope)
      BY <2>1, <2>2 DEF HInv, Limited, PageAllowed
    <3>2. Allowed(c, Owner(s), shares[s].scope)'
      BY <2>2, <3>1 DEF Allowed, Owner, tables
    <3> QED BY <1>c, <2>2, <3>2 DEF Limited
  <2> QED BY <1>l, <2>1, <2>2, QueryLimited
<1>4. CASE WriteReaction(c)
  <2>1. PICK code : Answer(c, code, {})
    BY <1>4 DEF WriteReaction
  <2>2. call' = call /\ pc'[c] = "done" /\ answer'[c] = [code |-> code, feed |-> {}]
        /\ UNCHANGED shares /\ pc[c] = "write"
    BY <1>t, <1>4, <2>1 DEF Answer, TypeOK, WriteReaction
  <2>3. past[c] \subseteq past'[c]
    BY <2>2, <1>l, PastGrows
  <2>4. Stored(s)' /\ Allowed(c, Owner(s), shares[s].scope)'
    BY <1>c, <1>t, <2>2, <2>3 DEF HInv, Limited, Allowed, Owner, InReaction, Stored
  <2> QED BY <1>c, <1>t, <2>2, <2>4 DEF Limited, Honoured, InReaction, Free
<1> QED BY <1>1, <1>2, <1>3, <1>4

(* A score is shown as its owner's settings, friends and groups allow. *)
LEMMA ScoreShown ==
  ASSUME HInv, NEW c \in Calls, pc[c] = "common", NEW s \in mem[c].page, ShowsScore(c, s)
  PROVE  ScoreAllowed(c, Owner(s), call[c].user)
<1>1. InFeed(c) /\ LevelsRead(c)
  BY DEF HInv, IInv, InHandler, Limited
<1>2. PICK l \in mem[c].levels :
        /\ l.user = Owner(s)
        /\ canViewField(l.score, l.user, call[c].user, mem[c].friends, commonGroupUserIds(c))
  BY DEF ShowsScore
<1>3. PICK p \in past[c] : p.user = Owner(s) /\ p.settings.score = l.score
  BY <1>1, <1>2 DEF LevelsRead
<1>4. CASE l.user = call[c].user \/ l.score = "PUBLIC"
  BY <1>2, <1>3, <1>4 DEF ScoreAllowed
<1>5. CASE l.score = "FRIENDS" /\ l.user \in mem[c].friends
  BY <1>1, <1>2, <1>3, <1>5 DEF ScoreAllowed, InFeed
<1>6. CASE l.score = "GROUP" /\ l.user \in commonGroupUserIds(c)
  <2>1. PICK g \in mem[c].groups : members[g][Owner(s)] = "ACTIVE"
    BY <1>2, <1>6 DEF commonGroupUserIds
  <2>2. g \in Groups /\ EverIn(g, call[c].user) /\ EverIn(g, Owner(s))
    BY <1>1, <2>1, MemType DEF HInv, IInv, InFeed, EverIn
  <2> QED BY <1>3, <1>6, <2>2 DEF ScoreAllowed
<1> QED BY <1>2, <1>4, <1>5, <1>6 DEF canViewField

LEMMA FeedLimited ==
  ASSUME HInv, HistoryNext, NEW c \in Calls,
         FeedContext(c) \/ ReadPage(c) \/ ReadLevels(c) \/ AnswerFeed(c)
  PROVE  Limited(c)'
<1>t. TypeOK /\ InFeed(c) /\ call[c].user \in Users
  BY CallType DEF HInv, IInv, InHandler, InFeed, FeedContext, ReadPage, ReadLevels, AnswerFeed, Query
<1>l. "context" \notin Free /\ "page" \notin Free /\ "levels" \notin Free /\ "common" \notin Free
  BY DEF Free
<1>1. CASE FeedContext(c)
  <2>1. ASSUME pc'[c] = "page", (InForce \subseteq past[c])' PROVE Limited(c)'
    BY <2>1 DEF Limited
  <2>2. PICK m : Query(c, "context", 0, "page", m)
    BY <1>1 DEF FeedContext
  <2> QED BY <1>l, <2>1, <2>2, QueryLimited
<1>2. CASE ReadPage(c)
  <2>1. PICK P : P = Page(call[c].filter, call[c].user, mem[c].friends, mem[c].groups)
    OBVIOUS
  <2>2. PICK m : m = [friends |-> mem[c].friends, groups |-> mem[c].groups, levels |-> {},
                      page |-> P]
    OBVIOUS
  <2>3. Query(c, "page", 0, "levels", m)
    BY <1>2, <2>1, <2>2 DEF ReadPage
  <2>4. ASSUME UNCHANGED tables, pc'[c] = "levels", mem'[c] = m,
               InForce \subseteq past[c], past[c] \subseteq past'[c], (InForce \subseteq past[c])'
        PROVE  Limited(c)'
    <3>1. ASSUME NEW s \in P PROVE Allowed(c, Owner(s), shares[s].scope)'
      <4>1. s \in ShareIds /\ Stored(s) /\ privacyFilter(s)
        BY <2>1 DEF Page
      <4>2. isWithinOwnerPrivacy(shares[s].scope, privacy[Owner(s)])
        BY <1>t, <4>1, SameLimit
      <4>3. shares[s].session \in Sessions /\ shares[s].scope \in Scopes
        BY <1>t, <4>1 DEF TypeOK, Stored, Share, Scopes
      <4>4. Allowed(c, Owner(s), shares[s].scope)
        BY <1>t, <2>4, <4>2, <4>3, AllowedNow DEF Owner
      <4> QED BY <2>4, <4>4 DEF Allowed, Owner, tables
    <3>2. PageAllowed(c)'
      BY <2>2, <2>4, <3>1 DEF PageAllowed
    <3> QED BY <2>4, <3>2 DEF Limited
  <2> QED BY <1>l, <2>3, <2>4, QueryLimited
<1>3. CASE ReadLevels(c)
  <2>1. PICK L : L = {[user |-> u, score |-> privacy[u].score] : u \in Owners(mem[c].page)}
    OBVIOUS
  <2>2. PICK m : m = [friends |-> mem[c].friends, groups |-> mem[c].groups, page |-> mem[c].page,
                      levels |-> L]
    OBVIOUS
  <2>3. Query(c, "levels", 0, "common", m) /\ pc[c] = "levels"
    BY <1>3, <2>1, <2>2 DEF ReadLevels, Query
  <2>4. ASSUME UNCHANGED tables, pc'[c] = "common", mem'[c] = m,
               InForce \subseteq past[c], past[c] \subseteq past'[c], (InForce \subseteq past[c])'
        PROVE  Limited(c)'
    <3>1. ASSUME NEW l \in L PROVE \E p \in past'[c] : p.user = l.user /\ p.settings.score = l.score
      <4>1. PICK s \in mem[c].page : l = [user |-> Owner(s), score |-> privacy[Owner(s)].score]
        BY <2>1 DEF Owners
      <4>2. s \in ShareIds /\ Stored(s)
        BY <1>t, <2>3, <4>1, MemType DEF InFeed
      <4>3. shares[s].session \in Sessions
        BY <1>t, <4>2, RowType
      <4>4. PICK p : p = [user |-> Owner(s), settings |-> privacy[Owner(s)]]
        OBVIOUS
      <4>5. p \in past'[c]
        BY <2>4, <4>3, <4>4 DEF InForce, Owner
      <4> QED BY <4>1, <4>4, <4>5
    <3>2. LevelsRead(c)'
      BY <2>2, <2>4, <3>1 DEF LevelsRead
    <3>3. \A s \in mem[c].page : s \in ShareIds /\ Stored(s)
      BY <1>t, <2>3, MemType DEF InFeed
    <3>4. PageAllowed(c)'
      BY <2>2, <2>3, <2>4, <3>3, SameTables, PageAllowedLasts DEF HInv, Limited
    <3> QED BY <2>4, <3>2, <3>4 DEF Limited
  <2> QED BY <1>l, <2>3, <2>4, QueryLimited
<1>4. CASE AnswerFeed(c)
  <2>1. PICK I : I = {[share |-> s, score |-> ShowsScore(c, s)] : s \in mem[c].page}
    OBVIOUS
  <2>2. UNCHANGED tables /\ Answer(c, 200, I) /\ pc[c] = "common"
    BY <1>4, <2>1 DEF AnswerFeed
  <2>3. call' = call /\ pc'[c] = "done" /\ answer'[c] = [code |-> 200, feed |-> I]
    BY <1>t, <2>2 DEF Answer, TypeOK
  <2>4. past[c] \subseteq past'[c] /\ PageAllowed(c) /\ Lasts
    BY <1>l, <2>2, PastGrows, SameTables DEF HInv, Limited
  <2>5. ASSUME NEW i \in I
        PROVE  (/\ Allowed(c, Owner(i.share), shares[i.share].scope)
                /\ i.score => ScoreAllowed(c, Owner(i.share), call[c].user))'
    <3>0. PICK s \in mem[c].page : i = [share |-> s, score |-> ShowsScore(c, s)]
      BY <2>1
    <3>1. i.share = s /\ (i.score => ShowsScore(c, s))
      BY <3>0
    <3>2. s \in ShareIds /\ Stored(s) /\ Owner(s) \in Users
      BY <1>t, <2>2, <3>1, MemType, RowType DEF InFeed
    <3>3. Allowed(c, Owner(s), shares[s].scope)'
      BY <2>4, <3>1, <3>2, RowAllowedLasts DEF PageAllowed
    <3>4. PICK o \in Users : o = Owner(s) /\ o = Owner(s)'
      BY <2>4, <3>2, RowLasts
    <3>5. PICK u \in Users : u = call[c].user /\ u = call'[c].user
      BY <1>t, <2>3
    <3>6. ASSUME i.score PROVE ScoreAllowed(c, o, u)
      <4>1. ShowsScore(c, s)
        BY <3>1, <3>6
      <4>2. pc[c] = "common"
        BY <2>2
      <4>3. ScoreAllowed(c, Owner(s), call[c].user)
        BY <4>1, <4>2, ScoreShown
      <4>4. o = Owner(s) /\ u = call[c].user
        BY <3>4, <3>5
      <4> QED BY <4>3, <4>4
    <3>7. i.score => ScoreAllowed(c, o, u)'
      BY <2>4, <3>6, ScoreAllowedLasts
    <3> QED BY <3>1, <3>3, <3>4, <3>5, <3>7 DEF ScoreAllowed
  <2> QED BY <1>t, <2>3, <2>5 DEF Limited, Honoured, InFeed, Free
<1> QED BY <1>1, <1>2, <1>3, <1>4

-------------------------------------------------------------------------------
(* The limits are kept *)

LEMMA HandleSlots ==
  ASSUME NEW c \in Calls, Handle(c) \/ ReceiveShare(c) \/ ReceiveFeed(c) \/ ReceiveReaction(c), TypeOK
  PROVE  StepOf(c)
<1>1. ASSUME NEW code, NEW items, Answer(c, code, items) PROVE StepOf(c)
  BY <1>1 DEF Answer, StepOf, TypeOK
<1>2. ASSUME NEW label, NEW memory, Goto(c, label, memory) PROVE StepOf(c)
  BY <1>2 DEF Goto, StepOf, TypeOK
<1>3. ASSUME NEW label, NEW code, NEW next, NEW memory, Query(c, label, code, next, memory)
      PROVE  StepOf(c)
  BY <1>1, <1>2, <1>3 DEF Query
<1>4. ASSUME NEW new, NEW label, Receive(c, new, label) PROVE StepOf(c)
  BY <1>4 DEF Receive, StepOf, TypeOK
<1>5. FindSession(c) \/ CheckLimit(c) \/ CheckGroup(c) \/ FindExisting(c) => StepOf(c)
  BY <1>3 DEF FindSession, CheckLimit, CheckGroup, FindExisting
<1>6. FeedContext(c) \/ ReadPage(c) \/ ReadLevels(c) \/ FindShare(c) \/ ReadOwner(c) \/ ReadViewer(c)
      => StepOf(c)
  BY <1>3 DEF FeedContext, ReadPage, ReadLevels, FindShare, ReadOwner, ReadViewer
<1>7. InsertShare(c) \/ AnswerFeed(c) \/ WriteReaction(c) \/ Fail(c) => StepOf(c)
  BY <1>1 DEF InsertShare, AnswerFeed, WriteReaction, Fail
<1>8. ReceiveShare(c) \/ ReceiveFeed(c) \/ ReceiveReaction(c) => StepOf(c)
  BY <1>4 DEF ReceiveShare, ReceiveFeed, ReceiveReaction
<1> QED BY <1>5, <1>6, <1>7, <1>8 DEF Handle

LEMMA StepLasts == ASSUME TypeOK, Next PROVE Lasts
<1>1. ASSUME NEW c \in Calls, Handle(c) \/ ReceiveShare(c) \/ ReceiveFeed(c) \/ ReceiveReaction(c)
      PROVE  UNCHANGED <<friends, members, completed>> /\ (UNCHANGED shares \/ InsertShare(c))
  BY <1>1 DEF Handle, FindSession, CheckLimit, CheckGroup, FindExisting, InsertShare, FeedContext,
              ReadPage, ReadLevels, AnswerFeed, FindShare, ReadOwner, ReadViewer, WriteReaction, Fail,
              Query, tables, ReceiveShare, ReceiveFeed, ReceiveReaction, Receive
<1>2. ASSUME NEW c \in Calls, InsertShare(c) PROVE \A s \in ShareIds : Stored(s) => shares'[s] = shares[s]
  BY <1>2 DEF InsertShare, TypeOK
<1>3. ASSUME Elsewhere PROVE Lasts
  <2>1. ASSUME NEW g \in Groups, NEW u \in Users, NEW status \in {"ACTIVE", "REMOVED"},
               SetMember(g, u, status)
        PROVE  Lasts
    BY <2>1 DEF SetMember, Lasts, TypeOK
  <2>2. ASSUME NEW u, NEW v, Befriend(u, v) PROVE Lasts
    BY <2>2 DEF Befriend, Lasts
  <2>3. ASSUME NEW x, Complete(x) PROVE Lasts
    BY <2>3 DEF Complete, Lasts
  <2> QED BY <1>3, <2>1, <2>2, <2>3 DEF Elsewhere, Join, Leave
<1>4. ASSUME NEW u \in Users, updatePrivacySettings(u) PROVE Lasts
  BY <1>4 DEF updatePrivacySettings, Lasts
<1> QED BY <1>1, <1>2, <1>3, <1>4 DEF Next, Lasts, Stored

LEMMA StepHInv == HInv /\ [HistoryNext]_<<vars, past>> => HInv'
<1> SUFFICES ASSUME HInv, [HistoryNext]_<<vars, past>> PROVE HInv'
  OBVIOUS
<1>t. IInv /\ TypeOK
  BY DEF HInv, IInv
<1>1. CASE UNCHANGED <<vars, past>>
  <2>1. IInv'
    BY <1>t, <1>1, StepIInv
  <2>2. Lasts
    BY <1>1 DEF vars, Lasts
  <2>3. InForce' = InForce
    BY <1>1 DEF vars, InForce
  <2>4. ASSUME NEW d \in Calls PROVE Limited(d)'
    <3>1. InHandler(d) /\ Limited(d)
      BY DEF HInv, IInv
    <3>2. /\ call'[d] = call[d] /\ pc'[d] = pc[d] /\ mem'[d] = mem[d] /\ answer'[d] = answer[d]
          /\ past'[d] = past[d]
      BY <1>1 DEF vars
    <3> QED BY <1>t, <2>2, <2>3, <3>1, <3>2, LimitedLasts DEF Limited
  <2> QED BY <2>1, <2>4 DEF HInv
<1>2. CASE HistoryNext
  <2>1. IInv' /\ Lasts /\ Next
    BY <1>t, <1>2, StepIInv, StepLasts DEF HistoryNext
  <2>2. ASSUME NEW d \in Calls, call'[d] = call[d], pc'[d] = pc[d], mem'[d] = mem[d],
               answer'[d] = answer[d]
        PROVE  Limited(d)'
    BY <1>t, <1>2, <2>1, <2>2, PastGrows, LimitedLasts DEF HInv, IInv
  <2>3. ASSUME NEW c \in Calls,
               Handle(c) \/ ReceiveShare(c) \/ ReceiveFeed(c) \/ ReceiveReaction(c)
        PROVE  \A d \in Calls : Limited(d)'
    <3>1. StepOf(c)
      BY <1>t, <2>3, HandleSlots
    <3>2. Fail(c) => Limited(c)'
      BY RefusalLimited DEF Fail
    <3>3. Limited(c)'
      BY <1>2, <2>3, <3>2, ShareLimited, FeedLimited, ReactionLimited, ReceivesLimited DEF Handle
    <3> QED BY <2>2, <3>1, <3>3 DEF StepOf
  <2>4. ASSUME UNCHANGED <<call, pc, mem, answer>> PROVE \A d \in Calls : Limited(d)'
    BY <2>2, <2>4
  <2>5. Elsewhere \/ (\E u \in Users : updatePrivacySettings(u)) => UNCHANGED <<call, pc, mem, answer>>
    BY DEF Elsewhere, Befriend, Join, Leave, SetMember, Complete, updatePrivacySettings
  <2> QED BY <2>1, <2>3, <2>4, <2>5 DEF Next, HInv
<1> QED BY <1>1, <1>2

LEMMA InitHInv == HistoryInit => HInv
<1> SUFFICES ASSUME HistoryInit PROVE HInv
  OBVIOUS
<1>1. \A c \in Calls : pc[c] = "idle"
  BY DEF HistoryInit, Init
<1>2. \A c \in Calls : Limited(c)
  BY <1>1 DEF Limited, Free
<1> QED BY <1>2, InitIInv DEF HInv, HistoryInit

(* However settings, friends and members change while a call runs, it      *)
(* shares, shows and takes reactions only within limits in force meanwhile.*)
THEOREM Limits == HistorySpec => []LimitsInForce
<1>1. HInv => LimitsInForce
  BY DEF HInv, Limited, LimitsInForce
<1> QED BY <1>1, InitHInv, StepHInv, PTL DEF HistorySpec
==============================================================================
