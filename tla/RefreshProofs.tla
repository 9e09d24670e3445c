---------------------------- MODULE RefreshProofs ----------------------------
(* Proofs about RefreshTokens, for any number of users, tokens and calls,   *)
(* any number of attempts and any lifetimes.                                *)
EXTENDS RefreshProperties, TLAPS

USE RefreshAssumption

LEMMA InitIInv == Init => IInv
<1> SUFFICES ASSUME Init PROVE IInv
  OBVIOUS
<1>1. TypeOK
  BY DEF Init, TypeOK, NoToken, Token, NoCall, Labels, Codes, Access
<1>2. \A t \in TokenIds : ~ Stored(t) /\ tokens[t] = NoToken
  BY DEF Init, NoToken, Stored
<1>3. OneLivePerFamily /\ FamiliesFormed
  BY <1>2 DEF OneLivePerFamily, FamiliesFormed, Formed, Live, NoToken
<1>4. \A c \in Calls : InHandler(c)
  BY DEF Init, InHandler
<1> QED BY <1>1, <1>3, <1>4 DEF IInv

-------------------------------------------------------------------------------
(* What the slots do *)

(* The slots but c stay as they are. *)
StepOf(c) == \A d \in Calls \ {c} : call'[d] = call[d] /\ pc'[d] = pc[d] /\ seen'[d] = seen[d]

SlotsOK == /\ clock \in Nat
           /\ call \in [Calls -> Call \cup {NoCall}]
           /\ pc \in [Calls -> Labels]
           /\ seen \in [Calls -> SUBSET (TokenIds \cup Access)]
           /\ attempt \in [Calls -> 1 .. MaxAttempts]
           /\ answer \in [Calls -> Codes]

StoresOK == /\ active \subseteq accounts /\ accounts \subseteq Users
            /\ tokens \in [TokenIds -> Token]
            /\ issued \subseteq Access
            /\ blocks \subseteq [access : Access, until : Nat]

LEMMA TypeParts == TypeOK <=> SlotsOK /\ StoresOK
BY DEF TypeOK, SlotsOK, StoresOK

LEMMA AnswerSlots ==
  ASSUME SlotsOK, NEW c \in Calls, NEW code \in Codes, Answer(c, code)
  PROVE  SlotsOK' /\ StepOf(c) /\ call' = call /\ pc'[c] = "done" /\ clock' = clock
BY DEF SlotsOK, Answer, StepOf, Labels

LEMMA GotoSlots ==
  ASSUME SlotsOK, NEW c \in Calls, NEW label \in Labels,
         NEW memory \in SUBSET (TokenIds \cup Access), Goto(c, label, memory)
  PROVE  /\ SlotsOK' /\ StepOf(c) /\ call' = call /\ clock' = clock
         /\ pc'[c] = label /\ seen'[c] = memory
BY DEF SlotsOK, Goto, StepOf

(* Rows are stored for good, and a token that is not live never is again. *)
RowsKept == \A t \in TokenIds : Stored(t) => /\ Stored(t)'
                                             /\ tokens'[t].user = tokens[t].user
                                             /\ tokens'[t].family = tokens[t].family
                                             /\ tokens[t].revoked => tokens'[t].revoked

(* A step of slot c that leaves it in its handler keeps the invariant when *)
(* the rows stay in form.                                                  *)
LEMMA KeepIInv ==
  ASSUME IInv, NEW c \in Calls, SlotsOK', StoresOK', StepOf(c), InHandler(c)',
         RowsKept, OneLivePerFamily', FamiliesFormed'
  PROVE  IInv'
<1>1. TypeOK'
  BY TypeParts DEF TypeOK, SlotsOK, StoresOK
<1>2. ASSUME NEW d \in Calls, d # c PROVE InHandler(d)'
  <2>1. InHandler(d) /\ TypeOK
    BY DEF IInv
  <2>2. call'[d] = call[d] /\ pc'[d] = pc[d] /\ seen'[d] = seen[d]
    BY <1>2 DEF StepOf
  <2>3. \A t : Stored(t) => Stored(t)'
    BY DEF RowsKept, Stored
  <2> QED BY <2>1, <2>2, <2>3 DEF InHandler
<1> QED BY <1>1, <1>2 DEF IInv

LEMMA SameRows ==
  ASSUME IInv, tokens' = tokens
  PROVE  RowsKept /\ OneLivePerFamily' /\ FamiliesFormed'
BY DEF IInv, RowsKept, OneLivePerFamily, FamiliesFormed, Formed, Live, Stored

-------------------------------------------------------------------------------
(* What happens to the rows *)

LEMMA NowType == ASSUME clock \in Nat PROVE Now \in Nat
BY DEF Now, RefreshAssumption

LEMMA BuiltToken ==
  ASSUME clock \in Nat, NEW u \in Users, NEW f \in TokenIds
  PROVE  /\ buildRefreshToken(u, f) \in Token
         /\ issueAccessToken(u) \in Access
BY NowType DEF buildRefreshToken, Token, issueAccessToken, Access, RefreshAssumption

LEMMA RevokeRows ==
  ASSUME IInv, NEW S, \A t \in S : Stored(t), RevokeAll(S)
  PROVE  /\ tokens' \in [TokenIds -> Token]
         /\ RowsKept /\ OneLivePerFamily' /\ FamiliesFormed'
         /\ \A t \in TokenIds : Live(t)' <=> Live(t) /\ t \notin S
<1>t. tokens \in [TokenIds -> Token]
  BY DEF IInv, TypeOK
<1>1. \A t \in TokenIds :
        /\ tokens'[t] \in Token
        /\ tokens'[t].user = tokens[t].user
        /\ tokens'[t].family = tokens[t].family
        /\ tokens'[t].used = tokens[t].used
        /\ tokens'[t].revoked = IF t \in S THEN TRUE ELSE tokens[t].revoked
  BY <1>t DEF RevokeAll, Revoked, Token
<1>2. \A t \in TokenIds : Stored(t)' <=> Stored(t)
  BY <1>1 DEF Stored
<1>3. \A t \in TokenIds : Live(t)' <=> Live(t) /\ t \notin S
  BY <1>1, <1>2 DEF Live
<1>4. tokens' \in [TokenIds -> Token]
  BY <1>1 DEF RevokeAll
<1>5. OneLivePerFamily'
  BY <1>1, <1>3 DEF OneLivePerFamily, IInv
<1>6. FamiliesFormed'
  <2> SUFFICES ASSUME NEW t \in TokenIds PROVE Formed(t)'
    BY DEF FamiliesFormed
  <2>1. Formed(t) /\ (Stored(t) => tokens[t].family \in TokenIds)
    BY DEF IInv, FamiliesFormed, Formed, Stored
  <2>2. tokens'[t].used => tokens'[t].revoked
    BY <1>1, <2>1 DEF Formed
  <2>3. PICK root : root = tokens[t].family
    OBVIOUS
  <2>4. Stored(t) => Stored(root)' /\ tokens'[root].user = tokens'[t].user
                     /\ tokens'[root].family = root
    BY <1>1, <1>2, <2>1, <2>3 DEF Formed
  <2> QED BY <1>1, <1>2, <2>1, <2>2, <2>3, <2>4 DEF Formed
<1>7. RowsKept
  BY <1>1, <1>2 DEF RowsKept
<1> QED BY <1>3, <1>4, <1>5, <1>6, <1>7

LEMMA OpenRows ==
  ASSUME IInv, NEW u \in Users, NEW t \in TokenIds, ~ Stored(t),
         tokens' = [tokens EXCEPT ![t] = buildRefreshToken(u, t)]
  PROVE  /\ tokens' \in [TokenIds -> Token]
         /\ RowsKept /\ OneLivePerFamily' /\ FamiliesFormed'
         /\ Live(t)' /\ \A s \in TokenIds \ {t} : Stored(s)' = Stored(s) /\ Live(s)' = Live(s)
<1>t. tokens \in [TokenIds -> Token] /\ clock \in Nat
  BY DEF IInv, TypeOK
<1>1. tokens' \in [TokenIds -> Token]
  BY <1>t, BuiltToken
<1>2. tokens'[t].user = u /\ tokens'[t].family = t
      /\ tokens'[t].used = FALSE /\ tokens'[t].revoked = FALSE
  BY <1>t DEF buildRefreshToken
<1>3. \A s \in TokenIds \ {t} : tokens'[s] = tokens[s]
  BY <1>t
<1>4. Stored(t)' /\ Live(t)'
  BY <1>2 DEF Stored, Live, RefreshAssumption
<1>5. \A s \in TokenIds \ {t} : Stored(s)' = Stored(s) /\ Live(s)' = Live(s)
  BY <1>3 DEF Stored, Live
<1>6. \A s \in TokenIds : Stored(s) => tokens[s].family \in TokenIds \ {t}
  BY DEF IInv, FamiliesFormed, Formed, Stored
<1>7. OneLivePerFamily'
  BY <1>2, <1>3, <1>5, <1>6 DEF OneLivePerFamily, IInv, Live
<1>8. FamiliesFormed'
  <2> SUFFICES ASSUME NEW s \in TokenIds PROVE Formed(s)'
    BY DEF FamiliesFormed
  <2>1. CASE s = t
    BY <2>1, <1>2, <1>4 DEF Formed, RefreshAssumption
  <2>2. CASE s # t
    <3>1. Formed(s)
      BY DEF IInv, FamiliesFormed
    <3>2. PICK root : root = tokens[s].family
      OBVIOUS
    <3>3. tokens'[s] = tokens[s] /\ Stored(s)' = Stored(s)
      BY <2>2, <1>3, <1>5
    <3>4. Stored(s) => root \in TokenIds \ {t} /\ tokens'[root] = tokens[root] /\ Stored(root)'
      BY <1>3, <1>5, <1>6, <3>1, <3>2 DEF Formed
    <3> QED BY <3>1, <3>2, <3>3, <3>4 DEF Formed
  <2> QED BY <2>1, <2>2
<1>9. RowsKept
  BY <1>3, <1>5 DEF RowsKept
<1> QED BY <1>1, <1>4, <1>5, <1>7, <1>8, <1>9

LEMMA TradeRows ==
  ASSUME IInv, NEW t \in TokenIds, NEW n \in TokenIds, Live(t), ~ Stored(n),
         tokens' = [tokens EXCEPT ![t] = Traded(t),
                                  ![n] = buildRefreshToken(tokens[t].user, tokens[t].family)]
  PROVE  /\ tokens' \in [TokenIds -> Token]
         /\ RowsKept /\ OneLivePerFamily' /\ FamiliesFormed'
         /\ tokens'[n].family = tokens[t].family
         /\ Stored(t)' /\ ~ Live(t)' /\ Live(n)'
         /\ \A s \in TokenIds \ {t, n} : tokens'[s] = tokens[s] /\ Stored(s)' = Stored(s) /\ Live(s)' = Live(s)
<1>t. tokens \in [TokenIds -> Token] /\ clock \in Nat
  BY DEF IInv, TypeOK
<1>0. t # n /\ Stored(t)
  BY DEF Live
<1>f. /\ tokens[t].user \in Users /\ tokens[t].family \in TokenIds
  BY <1>t, <1>0 DEF IInv, FamiliesFormed, Formed, Stored, Token
<1>1. Traded(t) \in Token /\ buildRefreshToken(tokens[t].user, tokens[t].family) \in Token
  <2>1. tokens[t] \in Token
    BY <1>t
  <2>2. Traded(t) \in Token
    BY <2>1 DEF Traded, Token
  <2> QED BY <1>t, <1>f, <2>2, BuiltToken
<1>2. tokens' \in [TokenIds -> Token]
  BY <1>t, <1>1
<1>3. /\ tokens'[t].user = tokens[t].user /\ tokens'[t].family = tokens[t].family
      /\ tokens'[t].used = TRUE /\ tokens'[t].revoked = TRUE
  BY <1>0, <1>t DEF Traded, Token
<1>4. /\ tokens'[n].user = tokens[t].user /\ tokens'[n].family = tokens[t].family
      /\ tokens'[n].used = FALSE /\ tokens'[n].revoked = FALSE
  BY <1>0, <1>t DEF buildRefreshToken
<1>5. \A s \in TokenIds \ {t, n} : tokens'[s] = tokens[s]
  BY <1>t
<1>6. /\ Stored(t)' /\ ~ Live(t)' /\ Stored(n)' /\ Live(n)'
      /\ \A s \in TokenIds \ {t, n} : Stored(s)' = Stored(s) /\ Live(s)' = Live(s)
  BY <1>0, <1>f, <1>3, <1>4, <1>5 DEF Stored, Live, RefreshAssumption
<1>7. OneLivePerFamily'
  <2> SUFFICES ASSUME NEW r \in TokenIds, NEW s \in TokenIds, Live(r)', Live(s)',
                      tokens'[r].family = tokens'[s].family
               PROVE  r = s
    BY DEF OneLivePerFamily
  <2>1. r # t /\ s # t
    BY <1>6
  <2>2. ASSUME NEW x \in TokenIds \ {t, n}, Live(x)', tokens'[x].family = tokens[t].family
        PROVE  FALSE
    BY <2>2, <1>5, <1>6 DEF OneLivePerFamily, IInv
  <2>3. CASE r = n \/ s = n
    BY <2>1, <2>2, <2>3, <1>4
  <2>4. CASE r # n /\ s # n
    BY <2>1, <2>4, <1>5, <1>6 DEF OneLivePerFamily, IInv
  <2> QED BY <2>3, <2>4
<1>8. FamiliesFormed'
  <2> SUFFICES ASSUME NEW s \in TokenIds PROVE Formed(s)'
    BY DEF FamiliesFormed
  <2>1. ASSUME NEW r \in TokenIds, Stored(r)
        PROVE  Stored(r)' /\ tokens'[r].user = tokens[r].user /\ tokens'[r].family = tokens[r].family
    BY <2>1, <1>3, <1>5, <1>6
  <2>2. CASE s = n
    <3>1. PICK root : root = tokens[t].family
      OBVIOUS
    <3>2. Stored(root) /\ tokens[root].user = tokens[t].user /\ tokens[root].family = root
          /\ root \in TokenIds
      BY <1>0, <1>f, <3>1 DEF IInv, FamiliesFormed, Formed
    <3> QED BY <2>1, <2>2, <3>1, <3>2, <1>4, <1>6, <1>f DEF Formed, RefreshAssumption
  <2>3. CASE s # n
    <3>1. Formed(s)
      BY DEF IInv, FamiliesFormed
    <3>2. PICK root : root = tokens[s].family
      OBVIOUS
    <3>3. Stored(s) => root \in TokenIds /\ Stored(root) /\ tokens[root].user = tokens[s].user
                       /\ tokens[root].family = root
      BY <3>1, <3>2 DEF Formed, Stored
    <3>4. tokens'[s].family = tokens[s].family /\ tokens'[s].user = tokens[s].user
          /\ (tokens'[s].used => tokens'[s].revoked) /\ (Stored(s)' <=> Stored(s))
      BY <2>3, <1>0, <1>3, <1>5, <1>6, <3>1 DEF Formed
    <3> QED BY <2>1, <3>1, <3>2, <3>3, <3>4 DEF Formed
  <2> QED BY <2>2, <2>3
<1>9. RowsKept
  BY <1>0, <1>3, <1>5, <1>6 DEF RowsKept
<1> QED BY <1>2, <1>4, <1>5, <1>6, <1>7, <1>8, <1>9

-------------------------------------------------------------------------------
(* The actions *)

LEMMA CallToken ==
  ASSUME TypeOK, NEW c \in Calls
  PROVE  /\ call[c].kind \in {"register", "login"} => call[c].user \in Users
         /\ call[c].kind = "logout" => call[c].access \in Access
<1>1. call[c] \in Call \cup {NoCall}
  BY DEF TypeOK
<1> QED BY <1>1 DEF Call, NoCall

LEMMA AnswerIInv ==
  ASSUME IInv, NEW c \in Calls, NEW code \in Codes, Answer(c, code), StoresOK',
         RowsKept, OneLivePerFamily', FamiliesFormed'
  PROVE  IInv'
<1>1. SlotsOK
  BY TypeParts DEF IInv
<1>2. SlotsOK' /\ StepOf(c) /\ pc'[c] = "done"
  BY <1>1, AnswerSlots
<1>3. InHandler(c)'
  BY <1>2 DEF InHandler
<1> QED BY <1>2, <1>3, KeepIInv

LEMMA SameStores == ASSUME IInv, UNCHANGED stores PROVE StoresOK'
BY TypeParts DEF IInv, StoresOK, stores

(* A step that only goes on. *)
LEMMA GotoIInv ==
  ASSUME IInv, NEW c \in Calls, NEW label \in Labels,
         NEW memory \in SUBSET (TokenIds \cup Access), Goto(c, label, memory), StoresOK',
         RowsKept, OneLivePerFamily', FamiliesFormed',
         call' = call /\ pc'[c] = label /\ seen'[c] = memory => InHandler(c)'
  PROVE  IInv'
<1>1. SlotsOK
  BY TypeParts DEF IInv
<1>2. SlotsOK' /\ StepOf(c) /\ pc'[c] = label /\ seen'[c] = memory /\ call' = call
  BY <1>1, GotoSlots
<1> QED BY <1>2, KeepIInv

LEMMA QueryIInv ==
  ASSUME IInv, NEW c \in Calls, NEW label, NEW code \in Codes, NEW next \in Labels,
         NEW memory \in SUBSET (TokenIds \cup Access), Query(c, label, code, next, memory),
         call' = call /\ tokens' = tokens /\ pc'[c] = next /\ seen'[c] = memory => InHandler(c)'
  PROVE  IInv'
<1>1. tokens' = tokens /\ StoresOK'
  BY SameStores DEF Query, stores
<1>2. RowsKept /\ OneLivePerFamily' /\ FamiliesFormed'
  BY <1>1, SameRows
<1>3. CASE Answer(c, code)
  BY <1>1, <1>2, <1>3, AnswerIInv
<1>4. CASE Goto(c, next, memory)
  BY <1>1, <1>2, <1>4, GotoIInv
<1> QED BY <1>3, <1>4 DEF Query

LEMMA ReceiveIInv ==
  ASSUME IInv, NEW c \in Calls, NEW new \in Call,
         NEW label \in {"unknown", "password", "rotate", "authenticate"}, Receive(c, new, label),
         label = "rotate" => new.kind = "refresh",
         label = "authenticate" => new.kind \in {"use", "logout"},
         label \in {"unknown", "password"} => new.kind \in {"register", "login"}
  PROVE  IInv'
<1>1. UNCHANGED stores /\ seen' = seen /\ clock' = clock
  BY DEF Receive
<1>2. SlotsOK' /\ StepOf(c) /\ call'[c] = new /\ pc'[c] = label
  BY <1>1, TypeParts DEF Receive, IInv, SlotsOK, StepOf, Labels, Codes, RefreshAssumption
<1>3. InHandler(c)'
  BY <1>2 DEF InHandler
<1>4. RowsKept /\ OneLivePerFamily' /\ FamiliesFormed'
  BY <1>1, SameRows DEF stores
<1> QED BY <1>1, <1>2, <1>3, <1>4, SameStores, KeepIInv

LEMMA ReceivesIInv ==
  ASSUME IInv, NEW c \in Calls,
         \/ ReceiveRegister(c) \/ ReceiveLogin(c) \/ ReceiveRefresh(c)
         \/ ReceiveUse(c) \/ ReceiveLogout(c)
  PROVE  IInv'
<1>1. issued \subseteq Access
  BY DEF IInv, TypeOK
<1>2. CASE ReceiveRegister(c) \/ ReceiveLogin(c)
  <2>1. PICK u \in Users :
          \/ Receive(c, [kind |-> "register", user |-> u], "unknown")
          \/ Receive(c, [kind |-> "login", user |-> u], "password")
    BY <1>2 DEF ReceiveRegister, ReceiveLogin
  <2>2. [kind |-> "register", user |-> u] \in Call /\ [kind |-> "login", user |-> u] \in Call
    BY DEF Call
  <2> QED BY <2>1, <2>2, ReceiveIInv
<1>3. CASE ReceiveRefresh(c)
  <2>1. PICK t \in TokenIds \cup {"none", "forged"} :
          Receive(c, [kind |-> "refresh", token |-> t], "rotate")
    BY <1>3 DEF ReceiveRefresh
  <2>2. [kind |-> "refresh", token |-> t] \in Call
    BY DEF Call
  <2> QED BY <2>1, <2>2, ReceiveIInv
<1>4. CASE ReceiveUse(c)
  <2>1. PICK a \in issued : Receive(c, [kind |-> "use", access |-> a], "authenticate")
    BY <1>4 DEF ReceiveUse
  <2>2. [kind |-> "use", access |-> a] \in Call
    BY <1>1 DEF Call
  <2> QED BY <2>1, <2>2, ReceiveIInv
<1>5. CASE ReceiveLogout(c)
  <2>1. PICK a \in issued, t \in TokenIds \cup {"none", "forged"} :
          Receive(c, [kind |-> "logout", access |-> a, token |-> t], "authenticate")
    BY <1>5 DEF ReceiveLogout
  <2>2. [kind |-> "logout", access |-> a, token |-> t] \in Call
    BY <1>1 DEF Call
  <2> QED BY <2>1, <2>2, ReceiveIInv
<1> QED BY <1>2, <1>3, <1>4, <1>5

(* What a step does to the rows. *)
RowStep ==
  \/ tokens' = tokens
  \/ \E u \in Users, t \in TokenIds :
       ~ Stored(t) /\ tokens' = [tokens EXCEPT ![t] = buildRefreshToken(u, t)]
  \/ \E t, n \in TokenIds :
       /\ Live(t) /\ ~ Stored(n)
       /\ tokens' = [tokens EXCEPT ![t] = Traded(t),
                                   ![n] = buildRefreshToken(tokens[t].user, tokens[t].family)]
  \/ \E S \in SUBSET (TokenIds \cup Access) : (\A t \in S : Stored(t)) /\ RevokeAll(S)

LEMMA RowStepKeeps ==
  ASSUME IInv, RowStep
  PROVE  /\ tokens' \in [TokenIds -> Token]
         /\ RowsKept /\ OneLivePerFamily' /\ FamiliesFormed'
<1>1. CASE tokens' = tokens
  BY <1>1, SameRows DEF IInv, TypeOK
<1>2. ASSUME NEW u \in Users, NEW t \in TokenIds, ~ Stored(t),
             tokens' = [tokens EXCEPT ![t] = buildRefreshToken(u, t)]
      PROVE  /\ tokens' \in [TokenIds -> Token]
             /\ RowsKept /\ OneLivePerFamily' /\ FamiliesFormed'
  BY <1>2, OpenRows
<1>3. ASSUME NEW t \in TokenIds, NEW n \in TokenIds, Live(t), ~ Stored(n),
             tokens' = [tokens EXCEPT ![t] = Traded(t),
                                      ![n] = buildRefreshToken(tokens[t].user, tokens[t].family)]
      PROVE  /\ tokens' \in [TokenIds -> Token]
             /\ RowsKept /\ OneLivePerFamily' /\ FamiliesFormed'
  BY <1>3, TradeRows
<1>4. ASSUME NEW S, \A t \in S : Stored(t), RevokeAll(S)
      PROVE  /\ tokens' \in [TokenIds -> Token]
             /\ RowsKept /\ OneLivePerFamily' /\ FamiliesFormed'
  BY <1>4, RevokeRows
<1> QED BY <1>1, <1>2, <1>3, <1>4 DEF RowStep

LEMMA IssueIInv ==
  ASSUME IInv, NEW c \in Calls, CreateAccount(c) \/ IssueTokens(c)
  PROVE  IInv' /\ RowStep
<1>t. TypeOK /\ InHandler(c) /\ clock \in Nat
  BY DEF IInv, TypeOK
<1>u. call[c].user \in Users
  BY <1>t, CallToken DEF CreateAccount, IssueTokens, InHandler
<1>1. CASE UNCHANGED stores /\ Answer(c, 409)
  <2>1. 409 \in Codes /\ tokens' = tokens
    BY <1>1 DEF Codes, stores
  <2> QED BY <1>1, <2>1, SameRows, SameStores, AnswerIInv DEF RowStep
<1>2. ASSUME NEW a \in Access, NEW code \in {200, 201}, IssuePair(c, call[c].user, a, code),
             active' \subseteq accounts', accounts' \subseteq Users, blocks' = blocks
      PROVE  IInv' /\ RowStep
  <2>1. RowStep /\ Answer(c, code) /\ issued' = issued \cup {a} /\ code \in Codes
    <3>1. PICK t \in TokenIds :
            /\ ~ Stored(t)
            /\ tokens' = [tokens EXCEPT ![t] = buildRefreshToken(call[c].user, t)]
            /\ issued' = issued \cup {a} /\ Answer(c, code)
      BY <1>2 DEF IssuePair
    <3>2. RowStep
      <4>1. PICK u \in Users : u = call[c].user
        BY <1>u
      <4>2. ~ Stored(t) /\ tokens' = [tokens EXCEPT ![t] = buildRefreshToken(u, t)]
        BY <3>1, <4>1
      <4>3. \E v \in Users, s \in TokenIds :
              ~ Stored(s) /\ tokens' = [tokens EXCEPT ![s] = buildRefreshToken(v, s)]
        BY <4>2, Zenon
      <4> QED BY <4>3, Zenon DEF RowStep
    <3> QED BY <3>1, <3>2 DEF Codes
  <2>2. tokens' \in [TokenIds -> Token] /\ RowsKept /\ OneLivePerFamily' /\ FamiliesFormed'
    BY <2>1, RowStepKeeps
  <2>3. StoresOK'
    BY <1>t, <1>2, <2>1, <2>2 DEF StoresOK, TypeOK
  <2> QED BY <2>1, <2>2, <2>3, AnswerIInv
<1>3. CASE CreateAccount(c)
  <2>1. issueAccessToken(call[c].user) \in Access
    BY <1>t, <1>u, NowType DEF issueAccessToken, Access, RefreshAssumption
  <2>2. CASE call[c].user \in accounts
    BY <1>1, <1>3, <2>2 DEF CreateAccount, stores
  <2>3. CASE call[c].user \notin accounts
    <3>1. /\ IssuePair(c, call[c].user, issueAccessToken(call[c].user), 201)
          /\ active' \subseteq accounts' /\ accounts' \subseteq Users /\ blocks' = blocks
      BY <1>3, <2>3, <1>t, <1>u DEF CreateAccount, TypeOK
    <3> QED BY <1>2, <2>1, <3>1
  <2> QED BY <2>2, <2>3
<1>4. CASE IssueTokens(c)
  <2>1. PICK a \in seen[c] : IssuePair(c, call[c].user, a, 200)
    BY <1>4 DEF IssueTokens
  <2>2. a \in Access
    BY <1>4, <1>t, <2>1 DEF IssueTokens, InHandler
  <2>3. active' \subseteq accounts' /\ accounts' \subseteq Users /\ blocks' = blocks
    BY <1>4, <1>t DEF IssueTokens, TypeOK
  <2> QED BY <1>2, <2>1, <2>2, <2>3
<1> QED BY <1>3, <1>4

LEMMA FamilyType ==
  ASSUME NEW t
  PROVE  /\ FamilyOf(t) \in SUBSET (TokenIds \cup Access)
         /\ \A s \in FamilyOf(t) : s \in TokenIds /\ Live(s) /\ Stored(s)
BY DEF FamilyOf, Live

LEMMA BeginIInv ==
  ASSUME IInv, NEW c \in Calls, BeginRotation(c)
  PROVE  IInv'
<1>p. PICK t : t = call[c].token
  OBVIOUS
<1>t. InHandler(c) /\ pc[c] = "rotate" /\ call[c].kind = "refresh"
  BY DEF IInv, BeginRotation, InHandler
<1>1. tokens' = tokens /\ StoresOK'
  BY SameStores DEF BeginRotation, stores
<1>2. RowsKept /\ OneLivePerFamily' /\ FamiliesFormed'
  BY <1>1, SameRows
<1>3. CASE Answer(c, 401)
  <2>1. 401 \in Codes
    BY DEF Codes
  <2> QED BY <1>1, <1>2, <1>3, <2>1, AnswerIInv
<1>4. CASE Goto(c, "close", FamilyOf(t))
  <2>1. FamilyOf(t) \in SUBSET (TokenIds \cup Access) /\ \A s \in FamilyOf(t) : Stored(s)
    BY FamilyType
  <2>2. "close" \in Labels
    BY DEF Labels
  <2>3. \A s \in FamilyOf(t) : Stored(s)'
    BY <1>1, <2>1 DEF Stored
  <2>4. ASSUME call' = call, pc'[c] = "close", seen'[c] = FamilyOf(t) PROVE InHandler(c)'
    BY <1>t, <2>3, <2>4 DEF InHandler
  <2> QED BY <1>1, <1>2, <1>4, <2>1, <2>2, <2>4, GotoIInv
<1>5. CASE Goto(c, "claim", {t}) /\ Live(t)
  <2>1. t \in TokenIds /\ Stored(t) /\ "claim" \in Labels
    BY <1>5 DEF Live, Stored, Labels
  <2>2. Stored(t)'
    BY <1>1, <2>1 DEF Stored
  <2>3. ASSUME call' = call, pc'[c] = "claim", seen'[c] = {t} PROVE InHandler(c)'
    BY <1>p, <1>t, <2>2, <2>3 DEF InHandler
  <2>4. {t} \in SUBSET (TokenIds \cup Access)
    BY <2>1
  <2> QED BY <1>1, <1>2, <1>5, <2>1, <2>3, <2>4, GotoIInv
<1> QED BY <1>p, <1>3, <1>4, <1>5 DEF BeginRotation, RevokedOnReuse

LEMMA TradeIInv ==
  ASSUME IInv, NEW c \in Calls, ClaimToken(c)
  PROVE  IInv' /\ RowStep
<1>p. PICK t : t = call[c].token
  OBVIOUS
<1>t. InHandler(c) /\ TypeOK /\ clock \in Nat /\ pc[c] = "claim"
  BY DEF IInv, TypeOK, ClaimToken
<1>1. Stored(t) /\ seen[c] = {t}
  BY <1>p, <1>t DEF InHandler
<1>2. Live(t) /\ t \in TokenIds
  BY <1>1 DEF ClaimToken, Overtaken, Stored
<1>3. PICK n \in TokenIds :
        /\ ~ Stored(n)
        /\ tokens' = [tokens EXCEPT ![t] = Traded(t),
                                    ![n] = buildRefreshToken(tokens[t].user, tokens[t].family)]
  BY <1>p DEF ClaimToken
<1>4. RowStep
  BY <1>2, <1>3, Zenon DEF RowStep
<1>5. tokens' \in [TokenIds -> Token] /\ RowsKept /\ OneLivePerFamily' /\ FamiliesFormed'
  BY <1>4, RowStepKeeps
<1>6. tokens[t].user \in Users
  BY <1>1, <1>2, <1>t DEF TypeOK, Token, Stored
<1>7. issueAccessToken(tokens[t].user) \in Access
  BY <1>t, <1>6, NowType DEF issueAccessToken, Access, RefreshAssumption
<1>8. StoresOK' /\ Answer(c, 200) /\ 200 \in Codes
  BY <1>p, <1>t, <1>5, <1>7 DEF ClaimToken, StoresOK, TypeOK, Codes
<1> QED BY <1>4, <1>5, <1>8, AnswerIInv

LEMMA RevokeIInv ==
  ASSUME IInv, NEW c \in Calls, CloseFamily(c) \/ RevokeScanned(c)
  PROVE  IInv' /\ RowStep
<1>t. InHandler(c) /\ TypeOK /\ pc[c] \in {"close", "revoke"}
  BY DEF IInv, CloseFamily, RevokeScanned
<1>p. PICK S \in SUBSET (TokenIds \cup Access) : S = seen[c]
  BY <1>t DEF TypeOK
<1>1. (\A s \in S : Stored(s)) /\ RevokeAll(S)
  BY <1>p, <1>t DEF InHandler, CloseFamily, RevokeScanned
<1>2. RowStep
  BY <1>p, <1>1, Zenon DEF RowStep
<1>3. tokens' \in [TokenIds -> Token] /\ RowsKept /\ OneLivePerFamily' /\ FamiliesFormed'
  BY <1>2, RowStepKeeps
<1>4. StoresOK'
  BY <1>t, <1>3 DEF CloseFamily, RevokeScanned, StoresOK, TypeOK
<1>5. CASE CloseFamily(c)
  <2>1. Answer(c, 401) /\ 401 \in Codes
    BY <1>5 DEF CloseFamily, Codes
  <2> QED BY <1>2, <1>3, <1>4, <2>1, AnswerIInv
<1>6. CASE RevokeScanned(c)
  <2>1. Goto(c, "block", {}) /\ "block" \in Labels /\ {} \in SUBSET (TokenIds \cup Access)
    BY <1>6 DEF RevokeScanned, Labels
  <2>2. pc[c] = "revoke" /\ call[c].kind = "logout"
    BY <1>6, <1>t DEF RevokeScanned, InHandler
  <2>3. ASSUME call' = call, pc'[c] = "block", seen'[c] = {} PROVE InHandler(c)'
    BY <2>2, <2>3 DEF InHandler
  <2> QED BY <1>2, <1>3, <1>4, <2>1, <2>3, GotoIInv
<1> QED BY <1>5, <1>6

LEMMA ReadsIInv ==
  ASSUME IInv, NEW c \in Calls,
         \/ FindAccount(c) \/ CheckPassword(c) \/ Authenticate(c)
         \/ FindPresented(c) \/ ScanFamily(c)
  PROVE  IInv'
<1>t. InHandler(c) /\ TypeOK /\ clock \in Nat
  BY DEF IInv, TypeOK
<1>c. {0, 200, 401, 403, 409, 503} \subseteq Codes
  BY DEF Codes
<1>l. {"create", "issue", "presented", "scan", "block", "revoke"} \subseteq Labels
  BY DEF Labels
<1>e. {} \in SUBSET (TokenIds \cup Access)
  OBVIOUS
<1>1. CASE FindAccount(c)
  <2> DEFINE code == IF call[c].user \in accounts THEN 409 ELSE 0
  <2>1. Query(c, "unknown", code, "create", {}) /\ code \in {0, 409}
    BY <1>1 DEF FindAccount
  <2> HIDE DEF code
  <2>2. ASSUME call' = call, pc'[c] = "create" PROVE InHandler(c)'
    BY <1>t, <2>1, <2>2 DEF InHandler, Query
  <2> QED BY <1>c, <1>l, <1>e, <2>1, <2>2, QueryIInv
<1>2. CASE CheckPassword(c)
  <2>0. pc[c] = "password"
    BY <1>2 DEF CheckPassword, Query
  <2>1. PICK a : a = issueAccessToken(call[c].user)
    OBVIOUS
  <2>2. call[c].user \in Users
    BY <1>t, <2>0, CallToken DEF InHandler
  <2>3. a \in Access
    BY <1>t, <2>1, <2>2, NowType DEF issueAccessToken, Access, RefreshAssumption
  <2>4. PICK code \in {0, 401, 403} : Query(c, "password", code, "issue", {a})
    BY <1>2, <2>1 DEF CheckPassword
  <2>5. ASSUME call' = call, pc'[c] = "issue", seen'[c] = {a} PROVE InHandler(c)'
    BY <1>t, <2>0, <2>3, <2>5 DEF InHandler
  <2>6. {a} \in SUBSET (TokenIds \cup Access)
    BY <2>3
  <2> QED BY <1>c, <1>l, <2>4, <2>5, <2>6, QueryIInv
<1>3. CASE Authenticate(c)
  <2>1. PICK code \in {0, 200, 401, 503} :
          Query(c, "authenticate", code, "presented", {}) /\ (code = 0 => call[c].kind # "use")
    BY <1>3 DEF Authenticate
  <2>2. CASE code = 0
    <3>1. Goto(c, "presented", {}) /\ UNCHANGED stores /\ pc[c] = "authenticate"
      BY <2>1, <2>2 DEF Query
    <3>2. call[c].kind \in {"use", "logout"}
      BY <1>t, <3>1 DEF InHandler
    <3>3. ASSUME call' = call, pc'[c] = "presented" PROVE InHandler(c)'
      BY <2>1, <2>2, <3>2, <3>3 DEF InHandler
    <3> QED BY <1>c, <1>l, <1>e, <2>1, <3>3, QueryIInv
  <2>3. CASE code # 0
    <3>1. Answer(c, code) /\ UNCHANGED stores
      BY <2>1, <2>3 DEF Query
    <3>2. RowsKept /\ OneLivePerFamily' /\ FamiliesFormed'
      BY <3>1, SameRows DEF stores
    <3>3. StoresOK'
      BY <3>1, SameStores
    <3> QED BY <1>c, <3>1, <3>2, <3>3, AnswerIInv
  <2> QED BY <2>2, <2>3
<1>4. CASE FindPresented(c)
  <2>1. PICK next \in {"scan", "block"} : Query(c, "presented", 0, next, {})
    BY <1>4 DEF FindPresented
  <2>2. ASSUME call' = call, pc'[c] = next PROVE InHandler(c)'
    BY <1>t, <2>1, <2>2 DEF InHandler, Query
  <2> QED BY <1>c, <1>l, <1>e, <2>1, <2>2, QueryIInv
<1>5. CASE ScanFamily(c)
  <2>1. PICK S : S = Unrevoked(c)
    OBVIOUS
  <2>2. S \in SUBSET (TokenIds \cup Access) /\ \A s \in S : Stored(s)
    BY <2>1, FamilyType DEF Unrevoked, Live
  <2>3. Query(c, "scan", 0, "revoke", S)
    BY <1>5, <2>1 DEF ScanFamily
  <2>4. ASSUME call' = call, tokens' = tokens, pc'[c] = "revoke", seen'[c] = S PROVE InHandler(c)'
    <3>1. \A s \in S : Stored(s)'
      BY <2>2, <2>4 DEF Stored
    <3> QED BY <1>t, <2>3, <2>4, <3>1 DEF InHandler, Query
  <2> QED BY <1>c, <1>l, <2>2, <2>3, <2>4, QueryIInv
<1> QED BY <1>1, <1>2, <1>3, <1>4, <1>5

LEMMA LastReadsIInv ==
  ASSUME IInv, NEW c \in Calls, SerializationFailure(c) \/ BlockAccess(c) \/ Fail(c)
  PROVE  IInv' /\ tokens' = tokens
<1>t. InHandler(c) /\ TypeOK /\ clock \in Nat
  BY DEF IInv, TypeOK
<1>c. {200, 500, 503} \subseteq Codes
  BY DEF Codes
<1>0. tokens' = tokens
  BY DEF SerializationFailure, BlockAccess, Fail, stores
<1>r. RowsKept /\ OneLivePerFamily' /\ FamiliesFormed'
  BY <1>0, SameRows
<1>1. ASSUME NEW code \in {200, 500, 503}, Answer(c, code), UNCHANGED stores PROVE IInv'
  BY <1>1, <1>c, <1>r, SameStores, AnswerIInv
<1>2. CASE Fail(c)
  BY <1>0, <1>1, <1>2 DEF Fail
<1>3. CASE SerializationFailure(c) /\ attempt[c] < MaxAttempts
  <2>1. /\ attempt' = [attempt EXCEPT ![c] = @ + 1]
        /\ pc' = [pc EXCEPT ![c] = "rotate"]
        /\ seen' = [seen EXCEPT ![c] = {}]
        /\ UNCHANGED <<call, answer, clock>> /\ UNCHANGED stores
        /\ pc[c] \in {"claim", "close"}
    BY <1>3 DEF SerializationFailure
  <2>2. SlotsOK' /\ StepOf(c) /\ pc'[c] = "rotate"
    BY <1>3, <2>1, TypeParts DEF IInv, SlotsOK, StepOf, Labels, RefreshAssumption
  <2>3. InHandler(c)'
    BY <1>t, <2>1, <2>2 DEF InHandler
  <2> QED BY <1>0, <1>r, <2>1, <2>2, <2>3, SameStores, KeepIInv
<1>4. CASE SerializationFailure(c) /\ ~ attempt[c] < MaxAttempts
  BY <1>0, <1>1, <1>4 DEF SerializationFailure
<1>5. CASE BlockAccess(c)
  <2>1. PICK a : a = call[c].access
    OBVIOUS
  <2>2. a \in Access
    BY <1>5, <1>t, <2>1, CallToken DEF BlockAccess, InHandler
  <2>3. PICK code \in {200, 503} : Answer(c, code)
    BY <1>5 DEF BlockAccess
  <2>4. CASE blocks' = blocks
    BY <1>1, <1>5, <2>3, <2>4 DEF BlockAccess, stores
  <2>5. CASE remaining(a) > 0 /\ blocks' = blacklistToken(a)
    <3>1. remaining(a) \in Nat
      BY <1>t, <2>2, <2>5, NowType DEF remaining, Access
    <3>2. PICK r \in Nat : r = remaining(a)
      BY <3>1
    <3>3. clock + r * Second \in Nat
      BY <1>t, <3>2 DEF RefreshAssumption
    <3>4. blocks' \subseteq [access : Access, until : Nat]
      BY <1>t, <2>2, <2>5, <3>2, <3>3 DEF blacklistToken, TypeOK
    <3>5. StoresOK'
      BY <1>5, <1>t, <3>4 DEF BlockAccess, StoresOK, TypeOK
    <3>6. tokens' = tokens /\ code \in Codes
      BY <1>5, <2>3 DEF BlockAccess, Codes
    <3>7. RowsKept /\ OneLivePerFamily' /\ FamiliesFormed'
      BY <3>6, SameRows
    <3> QED BY <2>3, <3>5, <3>6, <3>7, AnswerIInv
  <2> QED BY <1>5, <2>1, <2>4, <2>5 DEF BlockAccess
<1> QED BY <1>0, <1>2, <1>3, <1>4, <1>5

LEMMA StepIInv == IInv /\ [Next]_vars => IInv' /\ RowStep
<1> SUFFICES ASSUME IInv, [Next]_vars PROVE IInv' /\ RowStep
  OBVIOUS
<1>s. tokens' = tokens => RowStep
  BY DEF RowStep
<1>1. ASSUME NEW c \in Calls, Handle(c) PROVE IInv' /\ RowStep
  <2>1. CASE CreateAccount(c) \/ IssueTokens(c)
    BY <2>1, IssueIInv
  <2>2. CASE BeginRotation(c)
    BY <1>s, <2>2, BeginIInv DEF BeginRotation, stores
  <2>3. CASE ClaimToken(c)
    BY <2>3, TradeIInv
  <2>4. CASE CloseFamily(c) \/ RevokeScanned(c)
    BY <2>4, RevokeIInv
  <2>5. CASE \/ FindAccount(c) \/ CheckPassword(c) \/ Authenticate(c)
             \/ FindPresented(c) \/ ScanFamily(c)
    <3>1. tokens' = tokens
      BY <2>5 DEF FindAccount, CheckPassword, Authenticate, FindPresented, ScanFamily, Query, stores
    <3> QED BY <1>s, <2>5, <3>1, ReadsIInv
  <2>6. CASE SerializationFailure(c) \/ BlockAccess(c) \/ Fail(c)
    BY <1>s, <2>6, LastReadsIInv
  <2> QED BY <1>1, <2>1, <2>2, <2>3, <2>4, <2>5, <2>6 DEF Handle
<1>2. ASSUME NEW c \in Calls,
             \/ ReceiveRegister(c) \/ ReceiveLogin(c) \/ ReceiveRefresh(c)
             \/ ReceiveUse(c) \/ ReceiveLogout(c)
      PROVE  IInv' /\ RowStep
  <2>1. tokens' = tokens
    BY <1>2 DEF ReceiveRegister, ReceiveLogin, ReceiveRefresh, ReceiveUse, ReceiveLogout, Receive, stores
  <2> QED BY <1>2, <1>s, <2>1, ReceivesIInv
<1>3. CASE Tick \/ (\E u \in Users : Deactivate(u)) \/ UNCHANGED vars
  <2>1. UNCHANGED <<tokens, accounts, issued, blocks, call, pc, seen, attempt, answer>>
    BY <1>3 DEF Tick, Deactivate, vars, stores
  <2>2. active' \subseteq active /\ clock' \in Nat
    BY <1>3 DEF Tick, Deactivate, vars, stores, IInv, TypeOK
  <2>3. TypeOK'
    BY <2>1, <2>2 DEF TypeOK, IInv
  <2>4. OneLivePerFamily' /\ FamiliesFormed'
    BY <2>1, SameRows
  <2>5. \A c \in Calls : InHandler(c)'
    BY <2>1 DEF IInv, InHandler, Stored
  <2> QED BY <1>s, <2>1, <2>3, <2>4, <2>5 DEF IInv
<1> QED BY <1>1, <1>2, <1>3 DEF Next

-------------------------------------------------------------------------------
(* The inductive invariant: rows, and what handlers remember of them. *)
THEOREM Invariant == Spec => []IInv
<1>1. IInv /\ [Next]_vars => IInv'
  BY StepIInv
<1> QED BY InitIInv, <1>1, PTL DEF Spec

(* A family never has two tokens that can be traded in. *)
THEOREM OneLive == Spec => []OneLivePerFamily
<1>1. IInv => OneLivePerFamily
  BY DEF IInv
<1> QED BY <1>1, Invariant, PTL

(* The rows behave like TokenFamilies: every step opens a family, trades   *)
(* a live token for a fresh one, or ends the life of tokens.               *)
THEOREM Refinement == Spec => ImplementsFamilies
<1>1. Init => Families!FamiliesInit
  <2> SUFFICES ASSUME Init PROVE Families!FamiliesInit
    OBVIOUS
  <2>1. \A t \in TokenIds : ~ Stored(t) /\ ~ Live(t) /\ tokens[t].family = NULL
    BY DEF Init, NoToken, Stored, Live
  <2> QED BY <2>1 DEF Families!FamiliesInit
<1>2. IInv /\ [Next]_vars => [Families!FamiliesNext]_<<{t \in TokenIds : Live(t)},
         {t \in TokenIds : Stored(t) /\ ~ Live(t)}, [t \in TokenIds |-> tokens[t].family]>>
  <2> SUFFICES ASSUME IInv, RowStep
               PROVE  \/ Families!FamiliesNext
                      \/ UNCHANGED <<{t \in TokenIds : Live(t)}, {t \in TokenIds : Stored(t) /\ ~ Live(t)},
                                     [t \in TokenIds |-> tokens[t].family]>>
    BY StepIInv
  <2>t. tokens \in [TokenIds -> Token]
    BY DEF IInv, TypeOK
  <2>1. CASE tokens' = tokens
    BY <2>1 DEF Live, Stored
  <2>2. ASSUME NEW u \in Users, NEW t \in TokenIds, ~ Stored(t),
               tokens' = [tokens EXCEPT ![t] = buildRefreshToken(u, t)]
        PROVE  Families!Open(t)
    <3>1. Live(t)' /\ \A s \in TokenIds \ {t} : Stored(s)' = Stored(s) /\ Live(s)' = Live(s)
      BY <2>2, OpenRows
    <3>2. tokens'[t].family = t /\ \A s \in TokenIds \ {t} : tokens'[s] = tokens[s]
      BY <2>t, <2>2 DEF buildRefreshToken
    <3>3. [s \in TokenIds |-> tokens[s].family]'
            = [[s \in TokenIds |-> tokens[s].family] EXCEPT ![t] = t]
      BY <3>2
    <3>4. {s \in TokenIds : Live(s)}' = {s \in TokenIds : Live(s)} \cup {t}
      BY <3>1
    <3>5. {s \in TokenIds : Stored(s) /\ ~ Live(s)}' = {s \in TokenIds : Stored(s) /\ ~ Live(s)}
      BY <3>1, <2>2
    <3>6. t \notin {s \in TokenIds : Live(s)} \cup {s \in TokenIds : Stored(s) /\ ~ Live(s)}
      BY <2>2 DEF Live
    <3> QED BY <3>3, <3>4, <3>5, <3>6 DEF Families!Open, Families!Unknown
  <2>3. ASSUME NEW t \in TokenIds, NEW n \in TokenIds, Live(t), ~ Stored(n),
               tokens' = [tokens EXCEPT ![t] = Traded(t),
                                        ![n] = buildRefreshToken(tokens[t].user, tokens[t].family)]
        PROVE  Families!Trade(t, n)
    <3>1. /\ tokens'[n].family = tokens[t].family
          /\ Stored(t)' /\ ~ Live(t)' /\ Live(n)'
          /\ \A s \in TokenIds \ {t, n} : tokens'[s] = tokens[s] /\ Stored(s)' = Stored(s) /\ Live(s)' = Live(s)
          /\ RowsKept
      BY <2>3, TradeRows
    <3>2. t # n /\ Stored(t) /\ ~ Live(n)
      BY <2>3 DEF Live
    <3>3. tokens'[t].family = tokens[t].family
      BY <3>1, <3>2 DEF RowsKept
    <3>4. [s \in TokenIds |-> tokens[s].family]'
            = [[s \in TokenIds |-> tokens[s].family] EXCEPT ![n] = [s \in TokenIds |-> tokens[s].family][t]]
      BY <3>1, <3>3
    <3>5. {s \in TokenIds : Live(s)}' = ({s \in TokenIds : Live(s)} \ {t}) \cup {n}
      BY <3>1, <3>2
    <3>6. {s \in TokenIds : Stored(s) /\ ~ Live(s)}' = {s \in TokenIds : Stored(s) /\ ~ Live(s)} \cup {t}
      BY <3>1, <3>2, <2>3
    <3>7. /\ t \in {s \in TokenIds : Live(s)}
          /\ n \notin {s \in TokenIds : Live(s)} \cup {s \in TokenIds : Stored(s) /\ ~ Live(s)}
      BY <2>3, <3>2
    <3> QED BY <3>4, <3>5, <3>6, <3>7 DEF Families!Trade, Families!Unknown
  <2>4. ASSUME NEW S, \A t \in S : Stored(t), RevokeAll(S)
        PROVE  Families!Close({t \in S : Live(t)})
    <3>1. /\ \A t \in TokenIds : Live(t)' <=> Live(t) /\ t \notin S
          /\ RowsKept
      BY <2>4, RevokeRows
    <3>2. \A t \in TokenIds : tokens'[t].family = tokens[t].family /\ tokens'[t].user = tokens[t].user
      BY <2>t, <2>4 DEF RevokeAll, Revoked, Token
    <3>3. \A t \in TokenIds : Stored(t)' <=> Stored(t)
      BY <3>2 DEF Stored
    <3>4. [s \in TokenIds |-> tokens[s].family]' = [s \in TokenIds |-> tokens[s].family]
      BY <3>2
    <3>5. \A t : Live(t) => t \in TokenIds /\ Stored(t)
      BY DEF Live, Stored
    <3>6. {s \in TokenIds : Live(s)}' = {s \in TokenIds : Live(s)} \ {t \in S : Live(t)}
      BY <3>1
    <3>7. {s \in TokenIds : Stored(s) /\ ~ Live(s)}'
            = {s \in TokenIds : Stored(s) /\ ~ Live(s)} \cup {t \in S : Live(t)}
      BY <3>1, <3>3, <3>5
    <3> QED BY <3>4, <3>5, <3>6, <3>7 DEF Families!Close
  <2>5. \A S : {t \in S : Live(t)} \in SUBSET TokenIds
    BY DEF Live, Stored
  <2> QED BY <2>1, <2>2, <2>3, <2>4, <2>5 DEF RowStep, Families!FamiliesNext
<1> QED BY <1>1, <1>2, Invariant, PTL DEF Spec, ImplementsFamilies, Families!FamiliesSpec

-------------------------------------------------------------------------------
(* What reuse and logouts settle: Settling *)

(* Date.now() in whole seconds, rounded down. *)
LEMMA Seconds ==
  ASSUME NEW k \in Nat
  PROVE  /\ k \div Second \in Nat
         /\ (k \div Second) * Second <= k /\ k < ((k \div Second) + 1) * Second
BY DEF RefreshAssumption

LEMMA Distributes ==
  ASSUME NEW x \in Nat, NEW n \in Nat
  PROVE  /\ (x - n) * Second = x * Second - n * Second
         /\ x * Second \in Nat /\ n * Second \in Nat
BY DEF RefreshAssumption

LEMMA SecondsGrow ==
  ASSUME NEW k \in Nat, NEW m \in Nat, k <= m
  PROVE  (k \div Second) <= (m \div Second)
<1> DEFINE x == k \div Second
           y == m \div Second
<1>1. /\ x \in Nat /\ x * Second <= k
      /\ y \in Nat /\ m < (y + 1) * Second
  BY Seconds
<1>s. Second \in Nat
  BY DEF RefreshAssumption
<1> HIDE DEF x, y
<1>2. y + 1 <= x => (y + 1) * Second <= x * Second
  BY <1>1, <1>s
<1>3. x * Second \in Nat /\ (y + 1) * Second \in Nat
  BY <1>1, <1>s
<1>4. x <= y
  BY <1>1, <1>2, <1>3
<1> QED BY <1>4 DEF x, y

(* A token that is barred stays so: time only adds to it, and a key that   *)
(* is written again is written for as long.                                *)
LEMMA BarredStays ==
  ASSUME clock \in Nat, clock' \in Nat, clock <= clock',
         blocks \subseteq [access : Access, until : Nat],
         \/ blocks' = blocks
         \/ \E e \in Access : remaining(e) > 0 /\ blocks' = blacklistToken(e),
         NEW a \in Access, Barred(a)
  PROVE  Barred(a)'
<1>1. Now \in Nat /\ Now' \in Nat /\ Now <= Now' /\ a.exp \in Nat /\ Second \in Nat
  BY SecondsGrow, NowType DEF Now, Access, RefreshAssumption
<1>2. CASE Now >= a.exp
  BY <1>1, <1>2 DEF Barred
<1>3. ASSUME NEW b \in blocks, b.access = a, b.until >= a.exp * Second PROVE Barred(a)'
  <2>1. CASE b \in blocks'
    BY <1>3, <2>1 DEF Barred
  <2>2. CASE b \notin blocks'
    <3>1. PICK e \in Access : remaining(e) > 0 /\ blocks' = blacklistToken(e)
      BY <2>2
    <3>2. e = a
      BY <1>3, <2>2, <3>1 DEF blacklistToken
    <3>3. PICK new : new = [access |-> a, until |-> clock + remaining(a) * Second]
      OBVIOUS
    <3>4. new \in blocks'
      BY <3>1, <3>2, <3>3 DEF blacklistToken
    <3>5. clock + (a.exp - Now) * Second >= a.exp * Second
      <4>1. Now * Second <= clock
        BY Seconds DEF Now
      <4>2. /\ (a.exp - Now) * Second = a.exp * Second - Now * Second
            /\ a.exp * Second \in Nat /\ Now * Second \in Nat
        BY <1>1, Distributes
      <4> QED BY <4>1, <4>2
    <3> QED BY <3>3, <3>4, <3>5 DEF Barred, remaining
  <2> QED BY <2>1, <2>2
<1> QED BY <1>2, <1>3 DEF Barred

LEMMA BlacklistBars ==
  ASSUME clock \in Nat, clock' = clock, NEW a \in Access, remaining(a) > 0,
         blocks' = blacklistToken(a)
  PROVE  Barred(a)'
<1>1. Now \in Nat /\ a.exp \in Nat /\ Second \in Nat
  BY NowType DEF Access, RefreshAssumption
<1>2. PICK new : new = [access |-> a, until |-> clock + remaining(a) * Second]
  OBVIOUS
<1>3. new \in blocks'
  BY <1>2 DEF blacklistToken
<1>4. clock + (a.exp - Now) * Second >= a.exp * Second
  <2>1. Now * Second <= clock
    BY Seconds DEF Now
  <2>2. /\ (a.exp - Now) * Second = a.exp * Second - Now * Second
        /\ a.exp * Second \in Nat /\ Now * Second \in Nat
    BY <1>1, Distributes
  <2> QED BY <2>1, <2>2
<1> QED BY <1>2, <1>3, <1>4 DEF Barred, remaining

(* A barred token is over or finds its key: the two last for as long.      *)
LEMMA BarredRefused ==
  ASSUME clock \in Nat, blocks \subseteq [access : Access, until : Nat],
         NEW a \in Access, Barred(a)
  PROVE  Now >= a.exp \/ Blocked(a)
<1> SUFFICES ASSUME NEW b \in blocks, b.access = a, b.until >= a.exp * Second, ~ clock < b.until
             PROVE  Now >= a.exp
  BY DEF Barred, Blocked
<1>1. Now \in Nat /\ a.exp \in Nat /\ Second \in Nat /\ b.until \in Nat
  BY NowType DEF Access, RefreshAssumption
<1>2. clock < (Now + 1) * Second
  BY Seconds DEF Now
<1>3. a.exp * Second \in Nat /\ (Now + 1) * Second \in Nat
  BY <1>1
<1>4. a.exp * Second < (Now + 1) * Second
  BY <1>1, <1>2, <1>3
<1>5. Now + 1 <= a.exp => (Now + 1) * Second <= a.exp * Second
  BY <1>1
<1> QED BY <1>1, <1>3, <1>4, <1>5

(* A family without a live token stays closed, and a token that is not     *)
(* live never is again.                                                    *)
LEMMA ClosedStays ==
  ASSUME IInv, RowStep, NEW t \in TokenIds, Stored(t)
  PROVE  /\ Stored(t)' /\ tokens'[t].user = tokens[t].user
         /\ tokens'[t].family = tokens[t].family
         /\ ~ Live(t) => ~ Live(t)'
         /\ FamilyOf(t) = {} => FamilyOf(t)' = {}
<1>k. RowsKept
  BY RowStepKeeps
<1>1. /\ Stored(t)' /\ tokens'[t].user = tokens[t].user
      /\ tokens'[t].family = tokens[t].family
      /\ ~ Live(t) => ~ Live(t)'
  BY <1>k DEF RowsKept, Live
<1>2. ASSUME FamilyOf(t) = {}, NEW s \in TokenIds, Live(s)', tokens'[s].family = tokens[t].family
      PROVE  FALSE
  <2>1. ~ Stored(s)
    <3>1. Stored(s) => tokens[s].family = tokens[t].family /\ Live(s)
      BY <1>2, <1>k DEF RowsKept, Live
    <3> QED BY <1>2, <3>1 DEF FamilyOf
  <2>2. tokens' # tokens
    BY <1>2, <2>1 DEF Live, Stored
  <2>3. ASSUME NEW u \in Users, NEW n \in TokenIds, ~ Stored(n),
               tokens' = [tokens EXCEPT ![n] = buildRefreshToken(u, n)]
        PROVE  FALSE
    <3>1. s = n
      BY <1>2, <2>1, <2>3, OpenRows DEF Live
    <3>2. tokens'[n].family = n
      BY <2>3 DEF IInv, TypeOK, buildRefreshToken
    <3>3. Stored(tokens[t].family)
      BY DEF IInv, FamiliesFormed, Formed
    <3> QED BY <1>2, <2>3, <3>1, <3>2, <3>3
  <2>4. ASSUME NEW r \in TokenIds, NEW n \in TokenIds, Live(r), ~ Stored(n),
               tokens' = [tokens EXCEPT ![r] = Traded(r),
                                        ![n] = buildRefreshToken(tokens[r].user, tokens[r].family)]
        PROVE  FALSE
    <3>1. /\ tokens'[n].family = tokens[r].family
          /\ \A x \in TokenIds \ {r, n} : Stored(x)' = Stored(x)
      BY <2>4, TradeRows
    <3>2. s = n
      BY <1>2, <2>1, <2>4, <3>1 DEF Live
    <3>3. r \in FamilyOf(t)
      BY <1>2, <2>4, <3>1, <3>2 DEF FamilyOf
    <3> QED BY <1>2, <3>3
  <2>5. ASSUME NEW S, \A x \in S : Stored(x), RevokeAll(S)
        PROVE  FALSE
    <3>1. Live(s)
      BY <1>2, <2>5, RevokeRows
    <3> QED BY <2>1, <3>1 DEF Live
  <2> QED BY <2>2, <2>3, <2>4, <2>5 DEF RowStep
<1>3. FamilyOf(t) = {} => FamilyOf(t)' = {}
  BY <1>1, <1>2 DEF FamilyOf
<1> QED BY <1>1, <1>3

(* The slots but c stay as they are, what they answered included. *)
SlotStep(c) == \A d \in Calls \ {c} :
  call'[d] = call[d] /\ pc'[d] = pc[d] /\ seen'[d] = seen[d] /\ answer'[d] = answer[d]

LEMMA AnswerEffect ==
  ASSUME TypeOK, NEW c \in Calls, NEW code, Answer(c, code)
  PROVE  /\ SlotStep(c) /\ call' = call /\ clock' = clock
         /\ pc'[c] = "done" /\ answer'[c] = code
BY DEF TypeOK, Answer, SlotStep

LEMMA GotoEffect ==
  ASSUME TypeOK, NEW c \in Calls, NEW label, NEW memory, Goto(c, label, memory)
  PROVE  /\ SlotStep(c) /\ call' = call /\ clock' = clock
         /\ pc'[c] = label /\ seen'[c] = memory /\ answer' = answer
BY DEF TypeOK, Goto, SlotStep

LEMMA QueryEffect ==
  ASSUME TypeOK, NEW c \in Calls, NEW label, NEW code, NEW next, NEW memory,
         Query(c, label, code, next, memory)
  PROVE  /\ SlotStep(c) /\ call' = call /\ clock' = clock /\ pc[c] = label
         /\ tokens' = tokens /\ blocks' = blocks
         /\ \/ code = 0 /\ pc'[c] = next /\ seen'[c] = memory /\ answer' = answer
            \/ code # 0 /\ pc'[c] = "done" /\ answer'[c] = code
BY AnswerEffect, GotoEffect DEF Query, stores

BarredKept == \A a \in Access : Barred(a) => Barred(a)'

LEMMA SameBlocks ==
  ASSUME IInv, blocks' = blocks, clock' \in Nat, clock <= clock'
  PROVE  BarredKept
BY BarredStays DEF BarredKept, IInv, TypeOK

LEMMA SettlingIs ==
  ASSUME NEW c \in Calls, NEW t, NEW a, t = call'[c].token, a = call'[c].access,
         Settled(c, t, a)'
  PROVE  Settling(c)'
BY DEF Settling, Settled, Owned

(* The token of a call that is about one, in the next state. *)
LEMMA TokenKept ==
  ASSUME IInv, RowStep, NEW c \in Calls, NEW t, NEW a,
         call[c].kind \in {"refresh", "logout"}, Settled(c, t, a)
  PROVE  /\ t \in TokenIds => Stored(t)'
         /\ Stored(t) => /\ t \in TokenIds /\ Stored(t)' /\ tokens'[t].family = tokens[t].family
                         /\ (~ Live(t) => ~ Live(t)')
                         /\ (FamilyOf(t) = {} => FamilyOf(t)' = {})
         /\ Owned(t, a)' => Owned(t, a)
<1>1. t \in TokenIds => Stored(t)
  BY DEF Settled
<1>2. CASE t \in TokenIds
  BY <1>1, <1>2, ClosedStays DEF Owned
<1>3. CASE t \notin TokenIds
  BY <1>3 DEF Stored, Owned
<1> QED BY <1>2, <1>3

(* Another slot. *)
LEMMA SettlingKept ==
  ASSUME IInv, RowStep, BarredKept, NEW d \in Calls, Settling(d), call'[d] = call[d],
         pc'[d] = pc[d], seen'[d] = seen[d], answer'[d] = answer[d]
  PROVE  Settling(d)'
<1>p. PICK t, a : t = call[d].token /\ a = call[d].access
  OBVIOUS
<1>t. TypeOK /\ InHandler(d) /\ RowsKept /\ Settled(d, t, a)
  BY <1>p, RowStepKeeps DEF IInv, Settling
<1>1. CASE call[d].kind \in {"refresh", "logout"}
  <2>1. /\ t \in TokenIds => Stored(t)'
        /\ Stored(t) => /\ t \in TokenIds /\ Stored(t)' /\ tokens'[t].family = tokens[t].family
                        /\ (~ Live(t) => ~ Live(t)')
                        /\ (FamilyOf(t) = {} => FamilyOf(t)' = {})
        /\ Owned(t, a)' => Owned(t, a)
    BY <1>1, <1>t, TokenKept
  <2>2. pc[d] = "close" => /\ Stored(t)'
                           /\ \A s \in seen[d] : tokens'[s].family = tokens'[t].family
                           /\ seen[d] = {} => FamilyOf(t)' = {}
    <3> SUFFICES ASSUME pc[d] = "close"
                 PROVE  /\ Stored(t)'
                        /\ \A s \in seen[d] : tokens'[s].family = tokens'[t].family
                        /\ seen[d] = {} => FamilyOf(t)' = {}
      OBVIOUS
    <3>1. /\ Stored(t) /\ \A s \in seen[d] : tokens[s].family = tokens[t].family
          /\ seen[d] = {} => FamilyOf(t) = {}
      BY <1>t DEF Settled
    <3>2. \A s \in seen[d] : s \in TokenIds /\ Stored(s)
      BY <1>t DEF InHandler, Stored
    <3>3. \A s \in seen[d] : tokens'[s].family = tokens[s].family
      BY <1>t, <3>2 DEF RowsKept
    <3> QED BY <2>1, <3>1, <3>3
  <2>3. /\ pc[d] = "revoke" /\ Owned(t, a)' => t \in seen[d] \/ ~ Live(t)'
        /\ pc[d] = "block" /\ Owned(t, a)' => ~ Live(t)'
    BY <1>t, <2>1 DEF Settled, Owned
  <2>4. pc[d] = "done" /\ call[d].kind = "logout" /\ answer[d] = 200 =>
          Barred(a)' /\ (Owned(t, a)' => ~ Live(t)')
    <3>1. call[d].kind = "logout" => a \in Access
      BY <1>p, <1>t, CallToken
    <3> QED BY <1>t, <2>1, <3>1 DEF Settled, Owned, BarredKept
  <2>5. Settled(d, t, a)'
    BY <2>1, <2>2, <2>3, <2>4 DEF Settled
  <2> QED BY <1>p, <2>5, SettlingIs
<1>2. CASE call[d].kind \notin {"refresh", "logout"}
  <2>1. pc[d] \notin {"close", "revoke", "block"}
    BY <1>t, <1>2 DEF InHandler
  <2> QED BY <1>2, <2>1 DEF Settling, Settled
<1> QED BY <1>1, <1>2

(* The slot of the step, when it ends without settling anything.           *)
LEMMA SettlingEnds ==
  ASSUME IInv, RowStep, NEW c \in Calls, Settling(c), call' = call,
         pc'[c] \notin {"close", "revoke", "block"},
         pc'[c] = "done" /\ call[c].kind = "logout" => answer'[c] # 200
  PROVE  Settling(c)'
<1>1. RowsKept
  BY RowStepKeeps
<1>2. call[c].kind \in {"refresh", "logout"} /\ call[c].token \in TokenIds => Stored(call[c].token)'
  BY <1>1 DEF Settling, Settled, RowsKept
<1> QED BY <1>2 DEF Settling, Settled

(* The rows, the keys and the slot: what a step has to show. *)
SettlesStep(c) == RowStep /\ BarredKept /\ SlotStep(c) /\ Settling(c)'

LEMMA AnswerSettles ==
  ASSUME IInv, RowStep, NEW c \in Calls, Settling(c), NEW code, Answer(c, code),
         blocks' = blocks, call[c].kind = "logout" => code # 200
  PROVE  SettlesStep(c)
<1>1. TypeOK /\ clock \in Nat
  BY DEF IInv, TypeOK
<1>2. /\ SlotStep(c) /\ call' = call /\ clock' = clock
      /\ pc'[c] = "done" /\ answer'[c] = code
  BY <1>1, AnswerEffect
<1>3. BarredKept
  BY <1>1, <1>2, SameBlocks
<1> QED BY <1>2, <1>3, SettlingEnds DEF SettlesStep

LEMMA GotoSettles ==
  ASSUME IInv, RowStep, NEW c \in Calls, Settling(c), NEW label, NEW memory,
         Goto(c, label, memory), label \notin {"close", "revoke", "block", "done"},
         blocks' = blocks
  PROVE  SettlesStep(c)
<1>1. TypeOK /\ clock \in Nat
  BY DEF IInv, TypeOK
<1>2. SlotStep(c) /\ call' = call /\ clock' = clock /\ pc'[c] = label
  BY <1>1, GotoEffect
<1>3. BarredKept
  BY <1>1, <1>2, SameBlocks
<1> QED BY <1>2, <1>3, SettlingEnds DEF SettlesStep

(* A rotation that closes a family has read all of it that is live.        *)
LEMMA BeginSettles ==
  ASSUME IInv, NEW c \in Calls, Settling(c), BeginRotation(c)
  PROVE  SettlesStep(c)
<1>p. PICK t, a : t = call[c].token /\ a = call[c].access
  OBVIOUS
<1>t. TypeOK /\ clock \in Nat /\ call[c].kind = "refresh"
  BY DEF IInv, TypeOK, InHandler, BeginRotation
<1>1. tokens' = tokens /\ blocks' = blocks /\ RowStep
  BY DEF BeginRotation, stores, RowStep
<1>2. CASE Answer(c, 401)
  BY <1>t, <1>1, <1>2, AnswerSettles
<1>3. CASE Goto(c, "claim", {t})
  BY <1>1, <1>3, GotoSettles
<1>4. CASE Stored(t) /\ Goto(c, "close", FamilyOf(t))
  <2>1. /\ SlotStep(c) /\ call' = call /\ clock' = clock
        /\ pc'[c] = "close" /\ seen'[c] = FamilyOf(t)
    BY <1>t, <1>4, GotoEffect
  <2>2. BarredKept
    BY <1>1, <1>t, <2>1, SameBlocks
  <2>3. Stored(t)' /\ FamilyOf(t)' = FamilyOf(t)
    BY <1>1, <1>4 DEF Stored, FamilyOf, Live
  <2>4. \A s \in FamilyOf(t) : tokens'[s].family = tokens'[t].family
    BY <1>1 DEF FamilyOf
  <2>5. Settled(c, t, a)'
    BY <1>t, <2>1, <2>3, <2>4 DEF Settled
  <2> QED BY <1>p, <1>1, <2>1, <2>2, <2>5, SettlingIs DEF SettlesStep
<1> QED BY <1>p, <1>2, <1>3, <1>4 DEF BeginRotation, RevokedOnReuse, Live

(* The steps of a logout. *)
LEMMA LogoutSettles ==
  ASSUME IInv, NEW c \in Calls, Settling(c),
         FindPresented(c) \/ ScanFamily(c) \/ RevokeScanned(c) \/ BlockAccess(c)
  PROVE  SettlesStep(c)
<1>p. PICK t, a : t = call[c].token /\ a = call[c].access
  OBVIOUS
<1>t. /\ TypeOK /\ InHandler(c) /\ clock \in Nat /\ call[c].kind = "logout"
      /\ Settled(c, t, a)
  BY <1>p DEF IInv, TypeOK, InHandler, FindPresented, ScanFamily, RevokeScanned, BlockAccess, Query,
              Settling
<1>s. t \in TokenIds => Stored(t)
  BY <1>t DEF Settled
<1>1. CASE FindPresented(c)
  <2>1. PICK next : /\ next = IF t = "none" \/ Owned(t, a) THEN "scan" ELSE "block"
                    /\ Query(c, "presented", 0, next, {})
    BY <1>1, <1>p DEF FindPresented, Owned
  <2>2. /\ SlotStep(c) /\ call' = call /\ clock' = clock
        /\ tokens' = tokens /\ blocks' = blocks /\ pc'[c] = next
    BY <1>t, <2>1, QueryEffect
  <2>3. BarredKept /\ RowStep
    BY <1>t, <2>2, SameBlocks DEF RowStep
  <2>4. /\ t \in TokenIds => Stored(t)'
        /\ next = "block" => ~ Owned(t, a)'
    BY <1>s, <2>1, <2>2 DEF Stored, Owned
  <2>5. next \in {"scan", "block"}
    BY <2>1
  <2>6. Settled(c, t, a)'
    BY <1>t, <2>2, <2>4, <2>5 DEF Settled
  <2> QED BY <1>p, <2>2, <2>3, <2>6, SettlingIs DEF SettlesStep
<1>2. CASE ScanFamily(c)
  <2>1. Query(c, "scan", 0, "revoke", Unrevoked(c))
    BY <1>2 DEF ScanFamily
  <2>2. /\ SlotStep(c) /\ call' = call /\ clock' = clock
        /\ tokens' = tokens /\ blocks' = blocks /\ pc'[c] = "revoke" /\ seen'[c] = Unrevoked(c)
    BY <1>t, <2>1, QueryEffect
  <2>3. BarredKept /\ RowStep
    BY <1>t, <2>2, SameBlocks DEF RowStep
  <2>4. Owned(t, a) => t \in Unrevoked(c) \/ ~ Live(t)
    <3>1. Stored(t) => t \in TokenIds /\ t # "none"
      BY DEF Stored, RefreshAssumption
    <3> QED BY <1>p, <3>1 DEF Unrevoked, FamilyOf, Owned
  <2>5. /\ t \in TokenIds => Stored(t)'
        /\ Owned(t, a)' => t \in seen'[c] \/ ~ Live(t)'
    BY <1>s, <2>2, <2>4 DEF Stored, Live, Owned
  <2>6. Settled(c, t, a)'
    BY <1>t, <2>2, <2>5 DEF Settled
  <2> QED BY <1>p, <2>2, <2>3, <2>6, SettlingIs DEF SettlesStep
<1>3. CASE RevokeScanned(c)
  <2>1. pc[c] = "revoke" /\ RevokeAll(seen[c]) /\ Goto(c, "block", {}) /\ blocks' = blocks
    BY <1>3 DEF RevokeScanned
  <2>2. RowStep
    BY <1>3, RevokeIInv
  <2>3. SlotStep(c) /\ call' = call /\ clock' = clock /\ pc'[c] = "block"
    BY <1>t, <2>1, GotoEffect
  <2>4. BarredKept
    BY <1>t, <2>1, <2>3, SameBlocks
  <2>5. \A s \in seen[c] : Stored(s)
    BY <1>t, <2>1 DEF InHandler
  <2>6. \A s \in TokenIds : Live(s)' <=> Live(s) /\ s \notin seen[c]
    BY <2>1, <2>5, RevokeRows
  <2>7. /\ t \in TokenIds => Stored(t)'
        /\ Owned(t, a)' => ~ Live(t)'
    <3>1. t \in TokenIds => Stored(t)'
      BY <1>t, <2>2, TokenKept
    <3>2. Owned(t, a)' => Owned(t, a)
      BY <1>t, <2>2, TokenKept
    <3>3. Owned(t, a) => t \in TokenIds /\ (t \in seen[c] \/ ~ Live(t))
      BY <1>t, <2>1 DEF Settled, Owned, Stored
    <3> QED BY <2>6, <3>1, <3>2, <3>3
  <2>8. Settled(c, t, a)'
    BY <1>t, <2>3, <2>7 DEF Settled
  <2> QED BY <1>p, <2>2, <2>3, <2>4, <2>8, SettlingIs DEF SettlesStep
<1>4. CASE BlockAccess(c)
  <2>0. tokens' = tokens /\ RowStep /\ pc[c] = "block" /\ a \in Access
    BY <1>4, <1>p, <1>t, CallToken DEF BlockAccess, RowStep
  <2>1. PICK code \in {200, 503} :
          /\ Answer(c, code)
          /\ \/ remaining(a) > 0 /\ blocks' = blacklistToken(a)
             \/ remaining(a) <= 0 /\ blocks' = blocks
    BY <1>4, <1>p DEF BlockAccess
  <2>2. /\ SlotStep(c) /\ call' = call /\ clock' = clock
        /\ pc'[c] = "done" /\ answer'[c] = code
    BY <1>t, <2>1, AnswerEffect
  <2>3. BarredKept
    BY <1>t, <2>0, <2>1, <2>2, BarredStays DEF BarredKept, TypeOK
  <2>4. Barred(a)'
    <3>1. CASE remaining(a) > 0 /\ blocks' = blacklistToken(a)
      BY <1>t, <2>0, <2>2, <3>1, BlacklistBars
    <3>2. CASE remaining(a) <= 0
      <4>1. Now \in Nat /\ a.exp \in Nat /\ Now' = Now
        BY <1>t, <2>0, <2>2, NowType DEF Access, Now
      <4>2. Now' >= a.exp
        BY <3>2, <4>1 DEF remaining
      <4> QED BY <4>2 DEF Barred
    <3> QED BY <2>1, <3>1, <3>2
  <2>5. /\ t \in TokenIds => Stored(t)'
        /\ Owned(t, a)' => ~ Live(t)'
    BY <1>s, <1>t, <2>0 DEF Settled, Owned, Stored, Live
  <2>6. Settled(c, t, a)'
    BY <1>t, <2>2, <2>4, <2>5 DEF Settled
  <2> QED BY <1>p, <2>0, <2>2, <2>3, <2>6, SettlingIs DEF SettlesStep
<1> QED BY <1>1, <1>2, <1>3, <1>4

LEMMA HandleSettles ==
  ASSUME IInv, NEW c \in Calls, Settling(c), Handle(c), RowStep
  PROVE  SettlesStep(c)
<1>t. TypeOK /\ InHandler(c) /\ clock \in Nat
  BY DEF IInv, TypeOK
<1>1. CASE FindAccount(c) \/ CheckPassword(c) \/ Authenticate(c)
  <2>1. PICK label, code, next, memory :
          /\ Query(c, label, code, next, memory)
          /\ next \notin {"close", "revoke", "block", "done"}
          /\ call[c].kind = "logout" => code # 200
    <3>1. CASE FindAccount(c)
      BY <3>1 DEF FindAccount
    <3>2. CASE CheckPassword(c)
      BY <3>2 DEF CheckPassword
    <3>3. CASE Authenticate(c)
      BY <3>3 DEF Authenticate
    <3> QED BY <1>1, <3>1, <3>2, <3>3
  <2>2. blocks' = blocks
    BY <2>1 DEF Query, stores
  <2> QED BY <2>1, <2>2, AnswerSettles, GotoSettles DEF Query
<1>2. CASE CreateAccount(c) \/ IssueTokens(c)
  <2>1. blocks' = blocks /\ \E code \in {200, 201, 409} : Answer(c, code)
    BY <1>2 DEF CreateAccount, IssueTokens, IssuePair
  <2>2. call[c].kind # "logout"
    BY <1>2, <1>t DEF CreateAccount, IssueTokens, InHandler
  <2> QED BY <2>1, <2>2, AnswerSettles
<1>3. CASE ClaimToken(c) \/ CloseFamily(c)
  <2>1. blocks' = blocks /\ \E code \in {200, 401} : Answer(c, code)
    BY <1>3 DEF ClaimToken, CloseFamily
  <2>2. call[c].kind # "logout"
    BY <1>3, <1>t DEF ClaimToken, CloseFamily, InHandler
  <2> QED BY <2>1, <2>2, AnswerSettles
<1>4. CASE SerializationFailure(c)
  <2>1. blocks' = blocks
    BY <1>4 DEF SerializationFailure, stores
  <2>2. CASE Answer(c, 500)
    BY <2>1, <2>2, AnswerSettles
  <2>3. CASE /\ pc' = [pc EXCEPT ![c] = "rotate"] /\ seen' = [seen EXCEPT ![c] = {}]
             /\ UNCHANGED <<call, answer, clock>>
    <3>1. SlotStep(c) /\ call' = call /\ pc'[c] = "rotate" /\ clock' = clock
      BY <1>t, <2>3 DEF TypeOK, SlotStep
    <3>2. BarredKept
      BY <1>t, <2>1, <3>1, SameBlocks
    <3> QED BY <3>1, <3>2, SettlingEnds DEF SettlesStep
  <2> QED BY <1>4, <2>2, <2>3 DEF SerializationFailure
<1>5. CASE Fail(c)
  <2>1. blocks' = blocks /\ \E code \in {500, 503} : Answer(c, code)
    BY <1>5 DEF Fail, stores
  <2> QED BY <2>1, AnswerSettles
<1>6. CASE BeginRotation(c)
  BY <1>6, BeginSettles
<1>7. CASE FindPresented(c) \/ ScanFamily(c) \/ RevokeScanned(c) \/ BlockAccess(c)
  BY <1>7, LogoutSettles
<1> QED BY <1>1, <1>2, <1>3, <1>4, <1>5, <1>6, <1>7 DEF Handle

Receiving(c) == \/ ReceiveRegister(c) \/ ReceiveLogin(c) \/ ReceiveRefresh(c)
                \/ ReceiveUse(c) \/ ReceiveLogout(c)

LEMMA ReceiveSettles ==
  ASSUME IInv, NEW c \in Calls, Receiving(c)
  PROVE  SettlesStep(c) /\ pc[c] \in Free /\ answer'[c] = 0
<1>t. TypeOK /\ clock \in Nat
  BY DEF IInv, TypeOK
<1>1. PICK new, label :
        /\ Receive(c, new, label)
        /\ label \notin {"close", "revoke", "block", "done"}
        /\ new.kind \in {"refresh", "logout"} /\ new.token \in TokenIds => Stored(new.token)
  <2>1. CASE ReceiveRegister(c)
    BY <2>1 DEF ReceiveRegister
  <2>2. CASE ReceiveLogin(c)
    BY <2>2 DEF ReceiveLogin
  <2>3. CASE ReceiveRefresh(c)
    BY <2>3 DEF ReceiveRefresh
  <2>4. CASE ReceiveUse(c)
    BY <2>4 DEF ReceiveUse
  <2>5. CASE ReceiveLogout(c)
    BY <2>5 DEF ReceiveLogout
  <2> QED BY <2>1, <2>2, <2>3, <2>4, <2>5 DEF Receiving
<1>2. tokens' = tokens /\ blocks' = blocks /\ clock' = clock /\ RowStep
  BY <1>1 DEF Receive, stores, RowStep
<1>3. /\ SlotStep(c) /\ call'[c] = new /\ pc'[c] = label /\ answer'[c] = 0 /\ pc[c] \in Free
  BY <1>1, <1>t DEF Receive, TypeOK, SlotStep
<1>4. BarredKept
  BY <1>2, <1>t, SameBlocks
<1>5. new.kind \in {"refresh", "logout"} /\ new.token \in TokenIds => Stored(new.token)'
  BY <1>1, <1>2 DEF Stored
<1>6. PICK t, a : t = new.token /\ a = new.access
  OBVIOUS
<1>7. Settled(c, t, a)'
  BY <1>1, <1>3, <1>5, <1>6 DEF Settled
<1>8. Settling(c)'
  BY <1>3, <1>6, <1>7, SettlingIs
<1> QED BY <1>2, <1>3, <1>4, <1>8 DEF SettlesStep

LEMMA StepRInv == RInv /\ [Next]_vars => RInv'
<1> SUFFICES ASSUME RInv, [Next]_vars PROVE RInv'
  OBVIOUS
<1>1. IInv /\ IInv' /\ RowStep
  BY StepIInv DEF RInv
<1>2. ASSUME NEW c \in Calls, Handle(c) \/ Receiving(c) PROVE RInv'
  <2>1. SettlesStep(c)
    BY <1>1, <1>2, HandleSettles, ReceiveSettles DEF RInv
  <2>2. ASSUME NEW d \in Calls, d # c PROVE Settling(d)'
    BY <1>1, <2>1, <2>2, SettlingKept DEF SettlesStep, SlotStep, RInv
  <2> QED BY <1>1, <2>1, <2>2 DEF SettlesStep, RInv
<1>3. CASE Tick \/ (\E u \in Users : Deactivate(u)) \/ UNCHANGED vars
  <2>1. /\ UNCHANGED <<tokens, blocks, call, pc, seen, answer>>
        /\ clock' = clock \/ clock' = clock + 1
    BY <1>3 DEF Tick, Deactivate, vars, stores
  <2>2. clock' \in Nat /\ clock <= clock'
    BY <1>1, <2>1 DEF IInv, TypeOK
  <2>3. BarredKept
    BY <1>1, <2>1, <2>2, SameBlocks
  <2>4. ASSUME NEW d \in Calls PROVE Settling(d)'
    BY <1>1, <2>1, <2>3, SettlingKept DEF RInv
  <2> QED BY <1>1, <2>4 DEF RInv
<1> QED BY <1>2, <1>3 DEF Next, Receiving

LEMMA InitRInv == Init => RInv
<1> SUFFICES ASSUME Init PROVE RInv
  OBVIOUS
<1>1. ASSUME NEW c \in Calls PROVE Settling(c)
  <2>1. call[c].kind = "none" /\ pc[c] = "idle"
    BY DEF Init, NoCall
  <2> QED BY <2>1 DEF Settling, Settled
<1> QED BY <1>1, InitIInv DEF RInv

(* What a rotation or a logout has settled about its token stays settled:  *)
(* nothing that runs beside it revives a closed family or a dead token.    *)
THEOREM SettlingInvariant == Spec => []RInv
BY InitRInv, StepRInv, PTL DEF Spec

(* A logout that was answered 200 has ended its refresh token and its      *)
(* access token for good, whatever rotates, retries or fails beside it.    *)
THEOREM LogoutsComplete == Spec => []LogoutComplete
<1>1. RInv => LogoutComplete
  <2> SUFFICES ASSUME RInv, NEW c \in Calls,
                      pc[c] = "done", call[c].kind = "logout", answer[c] = 200
               PROVE  LET a == call[c].access
                          t == call[c].token
                      IN  /\ Now >= a.exp \/ Blocked(a)
                          /\ Stored(t) /\ tokens[t].user = a.user => ~ Live(t)
    BY DEF LogoutComplete
  <2>t. TypeOK /\ Settled(c, call[c].token, call[c].access)
    BY DEF RInv, IInv, Settling
  <2>1. Barred(call[c].access) /\ (Owned(call[c].token, call[c].access) => ~ Live(call[c].token))
    BY <2>t DEF Settled
  <2>2. call[c].access \in Access
    BY <2>t, CallToken
  <2>3. Now >= call[c].access.exp \/ Blocked(call[c].access)
    BY <2>t, <2>1, <2>2, BarredRefused DEF TypeOK
  <2> QED BY <2>1, <2>3 DEF Owned
<1> QED BY <1>1, SettlingInvariant, PTL

(* The slot that a step belongs to. *)
LEMMA StepSlot ==
  ASSUME RInv, [Next]_vars, NEW c \in Calls, pc'[c] # pc[c] \/ answer'[c] # answer[c]
  PROVE  Handle(c) \/ Receiving(c)
<1>1. ASSUME NEW d \in Calls, d # c PROVE ~ Handle(d) /\ ~ Receiving(d)
  <2>1. SlotStep(d) => pc'[c] = pc[c] /\ answer'[c] = answer[c]
    BY <1>1 DEF SlotStep
  <2>2. IInv /\ Settling(d) /\ RowStep
    BY StepIInv DEF RInv
  <2> QED BY <2>1, <2>2, HandleSettles, ReceiveSettles DEF SettlesStep
<1>2. ~ Tick /\ (\A u \in Users : ~ Deactivate(u)) /\ ~ UNCHANGED vars
  BY DEF Tick, Deactivate, vars
<1> QED BY <1>1, <1>2 DEF Next, Receiving

LEMMA StepReuse ==
  ASSUME RInv, [Next]_vars, NEW c \in Calls, NEW t, t = call[c].token,
         answer[c] = 0, answer'[c] \in {200, 401}, call[c].kind = "refresh",
         Stored(t), tokens[t].used
  PROVE  answer'[c] = 401 /\ FamilyOf(t)' = {}
<1>t. /\ IInv /\ TypeOK /\ InHandler(c) /\ Settled(c, t, call[c].access)
      /\ t \in TokenIds
  BY DEF RInv, IInv, Settling, Stored
<1>u. ~ Live(t)
  BY <1>t DEF IInv, FamiliesFormed, Formed, Live
<1>0. Handle(c)
  <2>1. Handle(c) \/ Receiving(c)
    BY StepSlot
  <2> QED BY <1>t, <2>1, ReceiveSettles
<1>1. CASE CloseFamily(c)
  <2>1. pc[c] = "close" /\ ~ Overtaken(c) /\ RevokeAll(seen[c]) /\ Answer(c, 401)
    BY <1>1 DEF CloseFamily
  <2>2. answer'[c] = 401
    BY <1>t, <2>1, AnswerEffect
  <2>3. /\ \A s \in seen[c] : Live(s) /\ Stored(s) /\ tokens[s].family = tokens[t].family
        /\ seen[c] = {} => FamilyOf(t) = {}
    BY <1>t, <2>1 DEF Overtaken, Settled, Live
  <2>4. RowStep /\ (\A s \in TokenIds : Live(s)' <=> Live(s) /\ s \notin seen[c])
    BY <1>t, <1>1, <2>1, <2>3, RevokeIInv, RevokeRows
  <2>5. CASE seen[c] = {}
    BY <1>t, <2>2, <2>3, <2>4, <2>5, ClosedStays
  <2>6. ASSUME NEW r \in seen[c] PROVE FamilyOf(t)' = {}
    <3>1. r \in TokenIds /\ Live(r) /\ tokens[r].family = tokens[t].family
      BY <2>3 DEF Stored
    <3>2. ASSUME NEW s \in TokenIds, Live(s)', tokens'[s].family = tokens'[t].family PROVE FALSE
      <4>1. Live(s) /\ s \notin seen[c] /\ Stored(s)
        BY <2>4, <3>2 DEF Live
      <4>2. tokens'[s].family = tokens[s].family /\ tokens'[t].family = tokens[t].family
        BY <1>t, <2>4, <4>1, RowStepKeeps DEF RowsKept
      <4>3. s = r
        <5>1. tokens[s].family = tokens[r].family
          <6>1. tokens'[s].family = tokens'[t].family
            BY <3>2
          <6>2. tokens[s].family = tokens[t].family
            BY <4>2, <6>1, Zenon
          <6>3. tokens[r].family = tokens[t].family
            BY <3>1
          <6> QED BY <6>2, <6>3, Zenon
        <5>2. OneLivePerFamily
          BY <1>t DEF IInv
        <5> QED BY <3>1, <3>2, <4>1, <5>1, <5>2 DEF OneLivePerFamily
      <4> QED BY <4>1, <4>3
    <3> QED BY <3>2 DEF FamilyOf
  <2> QED BY <2>2, <2>5, <2>6
<1>2. CASE ClaimToken(c)
  BY <1>2, <1>t, <1>u DEF ClaimToken, Overtaken, InHandler
<1>3. CASE BeginRotation(c)
  <2>1. Goto(c, "close", RevokedOnReuse(t))
    BY <1>3, <1>u DEF BeginRotation, Live
  <2> QED BY <1>t, <2>1, GotoEffect
<1>4. CASE \/ FindAccount(c) \/ CheckPassword(c) \/ Authenticate(c) \/ CreateAccount(c) \/ IssueTokens(c)
           \/ FindPresented(c) \/ ScanFamily(c) \/ RevokeScanned(c) \/ BlockAccess(c)
  BY <1>4, <1>t DEF InHandler, FindAccount, CheckPassword, Authenticate, CreateAccount, IssueTokens,
                    FindPresented, ScanFamily, RevokeScanned, BlockAccess, Query
<1>5. CASE SerializationFailure(c)
  <2>1. Answer(c, 500) \/ answer' = answer
    BY <1>5 DEF SerializationFailure
  <2> QED BY <1>t, <2>1, AnswerEffect
<1>6. CASE Fail(c)
  <2>1. Answer(c, 500)
    BY <1>6 DEF Fail
  <2> QED BY <1>t, <2>1, AnswerEffect
<1> QED BY <1>0, <1>1, <1>2, <1>3, <1>4, <1>5, <1>6 DEF Handle

(* Who is refused with a token that was traded in before has closed its    *)
(* family: no rotation beside it escapes, however the two interleave.      *)
THEOREM ReuseCloses == Spec => ReuseClosesFamily
<1>1. RInv /\ [Next]_vars =>
        [\A c \in Calls :
           LET t == call[c].token
           IN  /\ answer[c] = 0 /\ answer'[c] \in {200, 401}
               /\ call[c].kind = "refresh" /\ Stored(t) /\ tokens[t].used
               => answer'[c] = 401 /\ FamilyOf(t)' = {}]_vars
  <2> SUFFICES ASSUME RInv, [Next]_vars, NEW c \in Calls,
                      answer[c] = 0, answer'[c] \in {200, 401}, call[c].kind = "refresh",
                      Stored(call[c].token), tokens[call[c].token].used
               PROVE  answer'[c] = 401 /\ FamilyOf(call[c].token)' = {}
    OBVIOUS
  <2>1. PICK t : t = call[c].token
    OBVIOUS
  <2>2. answer'[c] = 401 /\ FamilyOf(t)' = {}
    BY <2>1, StepReuse
  <2>3. call'[c] = call[c]
    <3>1. Handle(c) \/ Receiving(c)
      BY StepSlot
    <3>2. ~ Receiving(c)
      BY ReceiveSettles DEF RInv
    <3> QED BY <3>1, <3>2 DEF Handle, FindAccount, CreateAccount, CheckPassword, IssueTokens, IssuePair,
          BeginRotation, ClaimToken, CloseFamily, SerializationFailure, Authenticate, FindPresented,
          ScanFamily, RevokeScanned, BlockAccess, Fail, Query, Answer, Goto
  <2> QED BY <2>1, <2>2, <2>3 DEF FamilyOf
<1> QED BY <1>1, SettlingInvariant, PTL DEF Spec, ReuseClosesFamily

(* After a finished logout authenticate lets its access token through no   *)
(* more, even when Redis fails.                                            *)
THEOREM LoggedOut == Spec => LoggedOutStaysOut
<1>1. RInv /\ [Next]_vars =>
        [\A c, d \in Calls :
           /\ pc[d] = "done" /\ call[d].kind = "logout" /\ answer[d] = 200
           /\ pc[c] = "authenticate" /\ pc'[c] # "authenticate"
           /\ call[c].access = call[d].access
           => answer'[c] \in {401, 503}]_vars
  <2> SUFFICES ASSUME RInv, [Next]_vars, NEW c \in Calls, NEW d \in Calls,
                      pc[d] = "done", call[d].kind = "logout", answer[d] = 200,
                      pc[c] = "authenticate", pc'[c] # "authenticate",
                      call[c].access = call[d].access
               PROVE  answer'[c] \in {401, 503}
    OBVIOUS
  <2>t. TypeOK /\ Settled(d, call[d].token, call[d].access)
    BY DEF RInv, IInv, Settling
  <2>1. Authenticate(c)
    <3>1. Handle(c) \/ Receiving(c)
      BY StepSlot
    <3>2. ~ Receiving(c)
      BY ReceiveSettles DEF RInv, Free
    <3> QED BY <3>1, <3>2 DEF Handle, FindAccount, CreateAccount, CheckPassword, IssueTokens,
          BeginRotation, ClaimToken, CloseFamily, SerializationFailure, FindPresented,
          ScanFamily, RevokeScanned, BlockAccess, Fail, Query
  <2>2. Now >= call[c].access.exp \/ Blocked(call[c].access)
    <3>1. Barred(call[d].access) /\ call[d].access \in Access
      BY <2>t, CallToken DEF Settled
    <3> QED BY <2>t, <3>1, BarredRefused DEF TypeOK
  <2>3. \E code \in {401, 503} : Query(c, "authenticate", code, "presented", {})
    BY <2>1, <2>2 DEF Authenticate, isTokenBlacklisted
  <2> QED BY <2>t, <2>3, QueryEffect
<1> QED BY <1>1, SettlingInvariant, PTL DEF Spec, LoggedOutStaysOut
==============================================================================
