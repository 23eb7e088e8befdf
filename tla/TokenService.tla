---------------------------- MODULE TokenService ----------------------------
(* Lesson 60: access tokens that nobody can take back but for a list of      *)
(* revoked ids, and refresh tokens that live in a map and are exchanged for  *)
(* the next one at each use.  Every method of TokenService is one critical   *)
(* section of its mutex; a handler calls several, and other requests come    *)
(* between them.                                                             *)
EXTENDS Naturals, FiniteSets

CONSTANTS
    Users, Admins,          \* the accounts, and those whose role is admin
    Calls,                  \* requests being served
    MaxTokens,              \* bound: tokens of either kind ever made
    MaxTime,                \* bound: when the clock stops
    AccessTTL, RefreshTTL, Leeway

ASSUME TokenAssumption ==
    /\ Users # {} /\ Admins \subseteq Users
    /\ {MaxTokens, MaxTime, AccessTTL, RefreshTTL, Leeway} \subseteq Nat

VARIABLES
    clock,
    made,       \* refresh tokens ever made: the next one is new (randomHex)
    refresh,    \* the map: records of the tokens that may still be used
    signed,     \* the access tokens ever signed
    revoked,    \* ids of access tokens
    call        \* the requests

vars == <<clock, made, refresh, signed, revoked, call>>

Ids == 1..MaxTokens

\* login is the login a token goes back to, numbered by its first refresh token.
RefreshRecords == [id : Ids, login : Ids, user : Users, expires : Nat]
AccessClaims == [id : Ids, user : Users, expires : Nat]

\* "login": signed in, the refresh token is not stored yet; "rotated": the old
\* token is gone, the new one stored, the access token is not signed yet.
\* "me" and "admin": past the middleware of that route.
CallStates == [pc : {"idle", "login", "rotated", "me", "admin"},
               user : Users, login : 0..MaxTokens]

Idle == [pc |-> "idle", user |-> CHOOSE u \in Users : TRUE, login |-> 0]

Init ==
    /\ clock = 0 /\ made = 0
    /\ refresh = {} /\ signed = {} /\ revoked = {}
    /\ call = [c \in Calls |-> Idle]

Sign(u) == signed' = signed \cup {[id |-> Cardinality(signed) + 1, user |-> u,
                                   expires |-> clock + AccessTTL]}

CanSign == Cardinality(signed) < MaxTokens
Goto(c, state) == call' = [call EXCEPT ![c] = state]

-----------------------------------------------------------------------------
(* POST /login, /refresh, /logout *)

\* The password is right: the access token is signed first (a wrong password
\* is answered and changes nothing).
Login(c, u) ==
    /\ call[c].pc = "idle" /\ CanSign
    /\ Sign(u)
    /\ Goto(c, [pc |-> "login", user |-> u, login |-> 0])
    /\ UNCHANGED <<clock, made, refresh, revoked>>

Stored(id, login, u) == [id |-> id, login |-> login, user |-> u, expires |-> clock + RefreshTTL]

NewRefreshToken(c) ==
    /\ call[c].pc = "login" /\ made < MaxTokens
    /\ made' = made + 1
    /\ refresh' = refresh \cup {Stored(made + 1, made + 1, call[c].user)}
    /\ Goto(c, Idle)
    /\ UNCHANGED <<clock, signed, revoked>>

\* Mutant: the old token stays in the map.
UseRefreshTokenTwice(c, rec) ==
    /\ call[c].pc = "idle" /\ rec \in refresh /\ clock <= rec.expires
    /\ made < MaxTokens
    /\ made' = made + 1
    /\ refresh' = refresh \cup {Stored(made + 1, rec.login, rec.user)}
    /\ Goto(c, [pc |-> "rotated", user |-> rec.user, login |-> rec.login])
    /\ UNCHANGED <<clock, signed, revoked>>

\* The token is found and deleted, expired or not; only a live one is replaced.
UseRefreshToken(c, rec) ==
    /\ call[c].pc = "idle" /\ rec \in refresh
    /\ IF clock > rec.expires
       THEN /\ refresh' = refresh \ {rec}
            /\ UNCHANGED <<made, call>>
       ELSE /\ made < MaxTokens
            /\ made' = made + 1
            /\ refresh' = (refresh \ {rec}) \cup {Stored(made + 1, rec.login, rec.user)}
            /\ Goto(c, [pc |-> "rotated", user |-> rec.user, login |-> rec.login])
    /\ UNCHANGED <<clock, signed, revoked>>

\* Mutant: the refresh token is stored once more, with the access token.
RefreshedStores(c) ==
    /\ call[c].pc = "rotated" /\ CanSign /\ made < MaxTokens
    /\ Sign(call[c].user)
    /\ made' = made + 1
    /\ refresh' = refresh \cup {Stored(made + 1, call[c].login, call[c].user)}
    /\ Goto(c, Idle)
    /\ UNCHANGED <<clock, revoked>>

\* The user is loaded again and gets the access token of the exchange.
Refreshed(c) ==
    /\ call[c].pc = "rotated" /\ CanSign
    /\ Sign(call[c].user)
    /\ Goto(c, Idle)
    /\ UNCHANGED <<clock, made, refresh, revoked>>

\* Deletes whatever token the client still holds; an old one is not there.
RevokeRefreshToken(id) ==
    /\ refresh' = {rec \in refresh : rec.id # id}
    /\ UNCHANGED <<clock, made, signed, revoked, call>>

RevokeAccessToken(id) ==
    /\ id \in 1..Cardinality(signed)
    /\ revoked' = revoked \cup {id}
    /\ UNCHANGED <<clock, made, refresh, signed, call>>

-----------------------------------------------------------------------------
(* GET /me and /admin *)

\* The signature and the expiry (with leeway for clocks that differ), then,
\* under the mutex, the list of revoked ids.
Parse(claims) == clock < claims.expires + Leeway /\ claims.id \notin revoked

\* RequireAuth puts the claims in the context; everything else is a 401.
RequireAuth(c, claims) ==
    /\ call[c].pc = "idle" /\ claims \in signed /\ Parse(claims)
    /\ Goto(c, [pc |-> "me", user |-> claims.user, login |-> 0])
    /\ UNCHANGED <<clock, made, refresh, signed, revoked>>

\* On /admin RequireRole comes second: a 403 ends the request.
RequireRole(c) ==
    /\ call[c].pc = "me"
    /\ Goto(c, IF call[c].user \in Admins THEN [call[c] EXCEPT !.pc = "admin"] ELSE Idle)
    /\ UNCHANGED <<clock, made, refresh, signed, revoked>>

Answer(c) ==
    /\ call[c].pc \in {"me", "admin"}
    /\ Goto(c, Idle)
    /\ UNCHANGED <<clock, made, refresh, signed, revoked>>

Tick ==
    /\ clock < MaxTime /\ clock' = clock + 1
    /\ UNCHANGED <<made, refresh, signed, revoked, call>>

-----------------------------------------------------------------------------
Handle(c) ==
    \/ \E u \in Users : Login(c, u)
    \/ \E rec \in refresh : UseRefreshToken(c, rec)
    \/ \E claims \in signed : RequireAuth(c, claims)
    \/ NewRefreshToken(c) \/ Refreshed(c) \/ RequireRole(c) \/ Answer(c)

Next ==
    \/ \E c \in Calls : Handle(c)
    \/ \E id \in Ids : RevokeRefreshToken(id) \/ RevokeAccessToken(id)
    \/ Tick

Spec == Init /\ [][Next]_vars

-----------------------------------------------------------------------------
(* Properties *)

TokenTypeOK ==
    /\ clock \in 0..MaxTime /\ made \in 0..MaxTokens
    /\ refresh \subseteq RefreshRecords /\ signed \subseteq AccessClaims
    /\ revoked \subseteq Ids /\ call \in [Calls -> CallStates]

(***************************************************************************)
(* A login has one refresh token at any time, however many requests present*)
(* the same one together: one of them gets the next (main.go:170, "usable  *)
(* at most once"), and it is newer than every token of that login so far.  *)
(***************************************************************************)
OneTokenPerLogin ==
    /\ \A x, y \in refresh : x.login = y.login => x = y
    /\ \A x \in refresh : x.id \in x.login..made

Ended(l) == l <= made /\ \A rec \in refresh : rec.login # l

(***************************************************************************)
(* A login that has no refresh token any more - logged out, or expired and *)
(* presented - never gets one again: what is still under way signs one     *)
(* access token at most, and no token of the past is any use.              *)
(***************************************************************************)
EndedForGood == [][\A l \in Ids : l > 0 /\ Ended(l) => Ended(l)']_vars
=============================================================================
