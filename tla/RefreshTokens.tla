---------------------------- MODULE RefreshTokens ----------------------------
(***************************************************************************)
(* Registration, login, refresh and logout (controllers/authController.js, *)
(* services/refreshTokens.js), the middleware that authenticates a request *)
(* (middleware/auth.js) and the block list in Redis (services/redis.js).   *)
(*                                                                         *)
(* A slot of Calls runs one handler at a time, one round trip to the       *)
(* database or to Redis per step.  A rotation is a Serializable            *)
(* transaction: it decides on a snapshot, and it fails with P2034 when a   *)
(* row it writes is no longer what the snapshot says.  The update of a     *)
(* logout is not: it finds its rows, waits for those that are locked and   *)
(* looks at each again, but never finds a row inserted meanwhile.          *)
(***************************************************************************)
EXTENDS Integers

CONSTANTS Users,
          TokenIds,      \* bound: the refresh tokens an instance can store
          Calls,         \* slots for concurrent calls of the API
          Kinds,         \* the endpoints this instance serves
          MaxAttempts,   \* runSerializableTransaction
          Second,        \* ticks of the clock in a second
          JwtLife,       \* JWT_EXPIRES_IN, in seconds
          TokenLife,     \* REFRESH_TOKEN_TTL_DAYS, in ticks
          MaxClock,      \* bound: the clock stops here
          NULL

ASSUME RefreshAssumption == /\ NULL \notin Users \cup TokenIds
                            /\ {"none", "forged"} \cap TokenIds = {}
                            /\ Kinds \subseteq {"register", "login", "refresh", "logout", "use"}
                            /\ {MaxAttempts, Second, JwtLife, TokenLife} \subseteq Nat \ {0}
                            /\ MaxClock \in Nat

VARIABLES
  accounts,   \* users
  active,     \* those whose status is ACTIVE
  tokens,     \* refresh_tokens
  issued,     \* the access tokens handed out
  blocks,     \* the keys of Redis
  clock,      \* Date.now()
  call,       \* the call a slot serves or has served
  pc,         \* what its handler does next
  seen,       \* what its handler remembers of its reads
  attempt,    \* of its transaction
  answer      \* the status of its response

stores == <<accounts, active, tokens, issued, blocks>>
vars == <<accounts, active, tokens, issued, blocks, clock, call, pc, seen, attempt, answer>>

(* used_at and replaced_by_token_id are written by one transaction. *)
NoToken == [user |-> NULL, family |-> NULL, expires |-> 0, used |-> FALSE, revoked |-> FALSE]
Token == [user : Users \cup {NULL}, family : TokenIds \cup {NULL}, expires : Nat,
          used : BOOLEAN, revoked : BOOLEAN]

Stored(t) == t \in TokenIds /\ tokens[t].user # NULL
Live(t) == Stored(t) /\ ~ tokens[t].revoked

(* A JWT is its payload: two that are signed for one user within a second  *)
(* are the same string.                                                    *)
Access == [user : Users, exp : Nat]
Now == clock \div Second                          \* Math.floor(Date.now() / 1000)
issueAccessToken(u) == [user |-> u, exp |-> Now + JwtLife]
Blocked(a) == \E b \in blocks : b.access = a /\ clock < b.until

Call == [kind : {"register", "login"}, user : Users]
        \cup [kind : {"refresh"}, token : TokenIds \cup {"none", "forged"}]
        \cup [kind : {"logout"}, access : Access, token : TokenIds \cup {"none", "forged"}]
        \cup [kind : {"use"}, access : Access]
NoCall == [kind |-> "none"]

Free == {"idle", "done"}

Init ==
  /\ accounts \in SUBSET Users /\ active = accounts
  /\ tokens = [t \in TokenIds |-> NoToken]
  /\ issued = {} /\ blocks = {} /\ clock = 0
  /\ call = [c \in Calls |-> NoCall]
  /\ pc = [c \in Calls |-> "idle"]
  /\ seen = [c \in Calls |-> {}]
  /\ attempt = [c \in Calls |-> 1]
  /\ answer = [c \in Calls |-> 0]

Receive(c, new, label) ==
  /\ pc[c] \in Free
  /\ new.kind \in Kinds
  /\ call' = [call EXCEPT ![c] = new]
  /\ pc' = [pc EXCEPT ![c] = label]
  /\ attempt' = [attempt EXCEPT ![c] = 1]
  /\ answer' = [answer EXCEPT ![c] = 0]
  /\ UNCHANGED <<stores, clock, seen>>

Goto(c, label, memory) ==
  /\ pc' = [pc EXCEPT ![c] = label]
  /\ seen' = [seen EXCEPT ![c] = memory]
  /\ UNCHANGED <<call, attempt, answer, clock>>

Answer(c, code) ==
  /\ pc' = [pc EXCEPT ![c] = "done"]
  /\ seen' = [seen EXCEPT ![c] = {}]
  /\ answer' = [answer EXCEPT ![c] = code]
  /\ UNCHANGED <<call, attempt, clock>>

Query(c, label, code, next, memory) ==
  /\ pc[c] = label
  /\ UNCHANGED stores
  /\ IF code # 0 THEN Answer(c, code) ELSE Goto(c, next, memory)

buildRefreshToken(u, f) ==
  [user |-> u, family |-> f, expires |-> clock + TokenLife, used |-> FALSE, revoked |-> FALSE]

Traded(t) == [tokens[t] EXCEPT !.used = TRUE, !.revoked = TRUE]
Revoked(t) == [tokens[t] EXCEPT !.revoked = TRUE]
RevokeAll(S) ==
  tokens' = [t \in TokenIds |-> IF t \in S THEN Revoked(t) ELSE tokens[t]]

(* issueRefreshToken: the first token of a family, handed out with a.      *)
IssuePair(c, u, a, code) ==
  \E t \in TokenIds :
    /\ ~ Stored(t)
    /\ tokens' = [tokens EXCEPT ![t] = buildRefreshToken(u, t)]
    /\ issued' = issued \cup {a}
    /\ Answer(c, code)

-------------------------------------------------------------------------------
(* register; the nickname, as unique as the address, goes with it *)

ReceiveRegister(c) == \E u \in Users : Receive(c, [kind |-> "register", user |-> u], "unknown")

FindAccount(c) ==
  Query(c, "unknown", IF call[c].user \in accounts THEN 409 ELSE 0, "create", {})

CreateAccount(c) ==
  LET u == call[c].user
  IN  /\ pc[c] = "create"
      /\ UNCHANGED blocks
      /\ IF u \in accounts
         THEN Answer(c, 409) /\ UNCHANGED <<accounts, active, tokens, issued>>
         ELSE /\ accounts' = accounts \cup {u} /\ active' = active \cup {u}
              /\ IssuePair(c, u, issueAccessToken(u), 201)

-------------------------------------------------------------------------------
(* login *)

ReceiveLogin(c) == \E u \in Users : Receive(c, [kind |-> "login", user |-> u], "password")

CheckPassword(c) ==
  \E correct \in BOOLEAN :
    Query(c, "password", IF call[c].user \notin accounts \/ ~ correct THEN 401
                         ELSE IF call[c].user \notin active THEN 403 ELSE 0,
          "issue", {issueAccessToken(call[c].user)})

IssueTokens(c) ==
  /\ pc[c] = "issue"
  /\ \E a \in seen[c] : IssuePair(c, call[c].user, a, 200)
  /\ UNCHANGED <<accounts, active, blocks>>

-------------------------------------------------------------------------------
(* refresh *)

ReceiveRefresh(c) ==
  \E t \in TokenIds \cup {"none", "forged"} :
    (t \in TokenIds => Stored(t)) /\ Receive(c, [kind |-> "refresh", token |-> t], "rotate")

FamilyOf(t) == {s \in TokenIds : Live(s) /\ tokens[s].family = tokens[t].family}

NothingRevoked(t) == {}                           \* mutant: reuse is only refused
RevokedOnReuse(t) == FamilyOf(t)

(* The reads of an attempt, and what it will write.  The update that       *)
(* claims the token sees what they saw, so its count is always 1.          *)
BeginRotation(c) ==
  LET t == call[c].token
  IN  /\ pc[c] = "rotate"
      /\ UNCHANGED stores
      /\ \/ ~ Stored(t) /\ Answer(c, 401)
         \/ Stored(t) /\ tokens[t].used /\ Goto(c, "close", RevokedOnReuse(t))
         \/ /\ Stored(t) /\ ~ tokens[t].used
            /\ tokens[t].revoked \/ tokens[t].expires <= clock
            /\ Answer(c, 401)
         \/ /\ Live(t) /\ tokens[t].expires > clock
            /\ IF tokens[t].user \in active THEN Goto(c, "claim", {t})
                                            ELSE Goto(c, "close", FamilyOf(t))

Unnoticed(c) == FALSE                             \* mutant: Read Committed, id only
(* Somebody has written a row since this attempt read it. *)
Overtaken(c) == \E t \in seen[c] : ~ Live(t)

(* The access token is signed when the transaction has committed. *)
ClaimToken(c) ==
  LET t == call[c].token
      u == tokens[t].user
  IN  /\ pc[c] = "claim"
      /\ ~ Overtaken(c)
      /\ \E n \in TokenIds :
           /\ ~ Stored(n)
           /\ tokens' = [tokens EXCEPT ![t] = Traded(t),
                                       ![n] = buildRefreshToken(u, tokens[t].family)]
      /\ issued' = issued \cup {issueAccessToken(u)}
      /\ Answer(c, 200)
      /\ UNCHANGED <<accounts, active, blocks>>

CloseFamily(c) ==
  /\ pc[c] = "close"
  /\ ~ Overtaken(c)
  /\ RevokeAll(seen[c])
  /\ Answer(c, 401)
  /\ UNCHANGED <<accounts, active, issued, blocks>>

(* P2034, which PostgreSQL may also raise without need. *)
SerializationFailure(c) ==
  /\ pc[c] \in {"claim", "close"}
  /\ UNCHANGED stores
  /\ IF attempt[c] < MaxAttempts
     THEN /\ attempt' = [attempt EXCEPT ![c] = @ + 1]
          /\ pc' = [pc EXCEPT ![c] = "rotate"]
          /\ seen' = [seen EXCEPT ![c] = {}]
          /\ UNCHANGED <<call, answer, clock>>
     ELSE Answer(c, 500)

-------------------------------------------------------------------------------
(* authenticate, and a protected endpoint that does nothing else *)

ReceiveUse(c) == \E a \in issued : Receive(c, [kind |-> "use", access |-> a], "authenticate")

ForgetsBlocks(a) == FALSE                         \* mutant: the block list is not read
isTokenBlacklisted(a) == Blocked(a)

Authenticate(c) ==
  LET a == call[c].access
  IN  \/ Query(c, "authenticate",
               IF Now >= a.exp \/ isTokenBlacklisted(a) THEN 401
               ELSE IF call[c].kind = "use" THEN 200 ELSE 0, "presented", {})
      \/ /\ Query(c, "authenticate", 503, "presented", {})                \* Redis fails
         /\ Now < a.exp

-------------------------------------------------------------------------------
(* logout *)

ReceiveLogout(c) ==
  \E a \in issued, t \in TokenIds \cup {"none", "forged"} :
    /\ t \in TokenIds => Stored(t)
    /\ Receive(c, [kind |-> "logout", access |-> a, token |-> t], "authenticate")

FindPresented(c) ==
  LET t == call[c].token
      mine == Stored(t) /\ tokens[t].user = call[c].access.user
  IN  Query(c, "presented", 0, IF t = "none" \/ mine THEN "scan" ELSE "block", {})

NoneFound(c) == {}                                \* mutant: revoked_at: { not: null }
Unrevoked(c) == IF call[c].token = "none"
                THEN {t \in TokenIds : Live(t) /\ tokens[t].user = call[c].access.user}
                ELSE FamilyOf(call[c].token)

(* The update of a logout: the rows it finds, then their revocation. *)
ScanFamily(c) == Query(c, "scan", 0, "revoke", Unrevoked(c))

RevokeScanned(c) ==
  /\ pc[c] = "revoke"
  /\ RevokeAll(seen[c])
  /\ Goto(c, "block", {})
  /\ UNCHANGED <<accounts, active, issued, blocks>>

remaining(a) == a.exp - Now

blacklistToken(a) == {b \in blocks : b.access # a}
                     \cup {[access |-> a, until |-> clock + remaining(a) * Second]}

(* Redis may carry out a command whose caller is told that it failed. *)
BlockAccess(c) ==
  LET a == call[c].access
  IN  /\ pc[c] = "block"
      /\ \/ remaining(a) > 0 /\ blocks' = blacklistToken(a) /\ Answer(c, 200)
         \/ remaining(a) <= 0 /\ UNCHANGED blocks /\ Answer(c, 200)
         \/ remaining(a) > 0 /\ blocks' = blacklistToken(a) /\ Answer(c, 503)
      /\ UNCHANGED <<accounts, active, tokens, issued>>

-------------------------------------------------------------------------------
(* Any query may fail; a logout answers all failures with 503. *)
Fail(c) == /\ pc[c] \notin Free \cup {"authenticate"}
           /\ Answer(c, IF call[c].kind = "logout" THEN 503 ELSE 500)
           /\ UNCHANGED stores

Deactivate(u) == /\ u \in active
                 /\ active' = active \ {u}
                 /\ UNCHANGED <<accounts, tokens, issued, blocks, clock, call, pc, seen, attempt, answer>>

Tick == /\ clock < MaxClock
        /\ clock' = clock + 1
        /\ UNCHANGED <<stores, call, pc, seen, attempt, answer>>

Handle(c) ==
  \/ FindAccount(c) \/ CreateAccount(c)
  \/ CheckPassword(c) \/ IssueTokens(c)
  \/ BeginRotation(c) \/ ClaimToken(c) \/ CloseFamily(c) \/ SerializationFailure(c)
  \/ Authenticate(c)
  \/ FindPresented(c) \/ ScanFamily(c) \/ RevokeScanned(c) \/ BlockAccess(c)
  \/ Fail(c)

Next == \/ Tick
        \/ \E u \in Users : Deactivate(u)
        \/ \E c \in Calls : \/ ReceiveRegister(c) \/ ReceiveLogin(c) \/ ReceiveRefresh(c)
                            \/ ReceiveUse(c) \/ ReceiveLogout(c) \/ Handle(c)

Spec == Init /\ [][Next]_vars
==============================================================================
