-------------------------- MODULE RefreshProperties --------------------------
(* The correctness properties of the token handlers. *)
EXTENDS RefreshTokens

Labels == {"idle", "unknown", "create", "password", "issue", "rotate", "claim", "close",
           "authenticate", "presented", "scan", "revoke", "block", "done"}
Codes == {0, 200, 201, 401, 403, 409, 500, 503}

TypeOK ==
  /\ active \subseteq accounts /\ accounts \subseteq Users
  /\ tokens \in [TokenIds -> Token]
  /\ issued \subseteq Access
  /\ blocks \subseteq [access : Access, until : Nat]
  /\ clock \in Nat
  /\ call \in [Calls -> Call \cup {NoCall}]
  /\ pc \in [Calls -> Labels]
  /\ seen \in [Calls -> SUBSET (TokenIds \cup Access)]
  /\ attempt \in [Calls -> 1 .. MaxAttempts]
  /\ answer \in [Calls -> Codes]

(* Rotations, reuse, logouts and their retries race, and still a family    *)
(* has at most one token that can be traded in.                            *)
OneLivePerFamily ==
  \A s, t \in TokenIds : Live(s) /\ Live(t) /\ tokens[s].family = tokens[t].family => s = t

(* Rows say what happened to them, and a handler remembers rows of the     *)
(* token it was called with.                                               *)
Formed(t) ==
  /\ Stored(t) <=> tokens[t].family # NULL
  /\ tokens[t].used => tokens[t].revoked
  /\ Stored(t) => LET root == tokens[t].family
                  IN  /\ Stored(root)
                      /\ tokens[root].user = tokens[t].user
                      /\ tokens[root].family = root

FamiliesFormed == \A t \in TokenIds : Formed(t)

InHandler(c) ==
  /\ pc[c] = "issue" => seen[c] \subseteq Access
  /\ pc[c] \in {"unknown", "create", "password", "issue"} => call[c].kind \in {"register", "login"}
  /\ pc[c] \in {"rotate", "claim", "close"} => call[c].kind = "refresh"
  /\ pc[c] = "claim" => Stored(call[c].token) /\ seen[c] = {call[c].token}
  /\ pc[c] \in {"close", "revoke"} => \A t \in seen[c] : Stored(t)
  /\ pc[c] = "authenticate" => call[c].kind \in {"use", "logout"}
  /\ pc[c] \in {"presented", "scan", "revoke", "block"} => call[c].kind = "logout"

(* The inductive invariant. *)
IInv == /\ TypeOK
        /\ OneLivePerFamily
        /\ FamiliesFormed
        /\ \A c \in Calls : InHandler(c)

(* An access token that is refused from now on: the key in Redis lasts as  *)
(* long as the token.                                                      *)
Barred(a) == Now >= a.exp \/ \E b \in blocks : b.access = a /\ b.until >= a.exp * Second

Owned(t, a) == Stored(t) /\ tokens[t].user = a.user

(* What a refresh or a logout has settled about its token: rows that close *)
(* a family were all of it, no rotation revives a closed one, and a logout *)
(* goes on only when its own token is found or dead.                       *)
Settled(c, t, a) ==
  /\ call[c].kind \in {"refresh", "logout"} /\ t \in TokenIds => Stored(t)
  /\ pc[c] = "close" => /\ Stored(t)
                        /\ \A s \in seen[c] : tokens[s].family = tokens[t].family
                        /\ seen[c] = {} => FamilyOf(t) = {}
  /\ pc[c] = "revoke" /\ Owned(t, a) => t \in seen[c] \/ ~ Live(t)
  /\ pc[c] = "block" /\ Owned(t, a) => ~ Live(t)
  /\ pc[c] = "done" /\ call[c].kind = "logout" /\ answer[c] = 200 =>
       Barred(a) /\ (Owned(t, a) => ~ Live(t))

Settling(c) == Settled(c, call[c].token, call[c].access)

(* With it, IInv bears what is said of reuse and of logouts.               *)
RInv == IInv /\ \A c \in Calls : Settling(c)

(* A token that was traded in before is never traded again, and whoever is *)
(* refused with it has closed its family, the tokens that other calls add  *)
(* to it at the same time included.                                        *)
ReuseClosesFamily ==
  [][\A c \in Calls :
       LET t == call[c].token
       IN  /\ answer[c] = 0 /\ answer'[c] \in {200, 401}
           /\ call[c].kind = "refresh" /\ Stored(t) /\ tokens[t].used
           => answer'[c] = 401 /\ FamilyOf(t)' = {}]_vars

(* A logout is answered 200 only when neither the refresh token it was     *)
(* given nor its access token is of any use from then on.                  *)
LogoutComplete ==
  \A c \in Calls : pc[c] = "done" /\ call[c].kind = "logout" /\ answer[c] = 200 =>
    LET a == call[c].access
        t == call[c].token
    IN  /\ Now >= a.exp \/ Blocked(a)
        /\ Stored(t) /\ tokens[t].user = a.user => ~ Live(t)

(* A request with the access token of a finished logout gets no further    *)
(* than authenticate, whatever Redis does.                                 *)
LoggedOutStaysOut ==
  [][\A c, d \in Calls :
       /\ pc[d] = "done" /\ call[d].kind = "logout" /\ answer[d] = 200
       /\ pc[c] = "authenticate" /\ pc'[c] # "authenticate"
       /\ call[c].access = call[d].access
       => answer'[c] \in {401, 503}]_vars

Families == INSTANCE TokenFamilies WITH
              live <- {t \in TokenIds : Live(t)},
              spent <- {t \in TokenIds : Stored(t) /\ ~ Live(t)},
              family <- [t \in TokenIds |-> tokens[t].family]

(* The rows behave like TokenFamilies: a rotation trades one live token    *)
(* for a fresh one, and a family without a live token stays closed.        *)
ImplementsFamilies == Families!FamiliesSpec

-------------------------------------------------------------------------------
(* What the documents say and the code does not keep. *)

(* docs/client-contract-decisions.md:75: a logout closes the family of the *)
(* token it is given.  A rotation that commits between the reading and the *)
(* writing of the logout's update leaves its new token live.               *)
LogoutClosesFamily ==
  \A c \in Calls : pc[c] = "done" /\ call[c].kind = "logout" /\ answer[c] = 200 =>
    LET t == call[c].token
    IN  Stored(t) /\ tokens[t].user = call[c].access.user => FamilyOf(t) = {}

(* docs/auth-flow.md 4.1: who logs in is handed an access token for the    *)
(* next hour.  A token signed within the second of an earlier one is the   *)
(* same string, and a logout may have blocked that.                        *)
FreshTokenAccepted ==
  [][\A a \in issued' : (\E c \in Calls : answer[c] = 0 /\ answer'[c] = 200
                                         /\ pc[c] = "issue" /\ a \in seen[c])
       => ~ Blocked(a)]_vars
==============================================================================
