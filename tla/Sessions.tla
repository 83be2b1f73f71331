------------------------------- MODULE Sessions -------------------------------
(***************************************************************************)
(* One user signed in to the portal with one browser: the refresh tokens    *)
(* kept by the backend (backend/src/routes/auth.ts, lib/jwt.ts) and the      *)
(* session kept in localStorage and used by every API call of every tab      *)
(* (src/lib/api/client.ts, src/lib/auth/session.ts, src/lib/api/auth.ts).    *)
(*                                                                         *)
(* A token is a JWT of the user and of the second it was signed in, so it is *)
(* that second here.  A session holds two tokens signed together.           *)
(***************************************************************************)
EXTENDS Integers, FiniteSets

CONSTANTS
  Calls,           \* API calls that may be in progress together
  CallKinds,       \* what they do: fetch data, or log out
  AccessTtl,       \* ticks an access token is accepted
  RefreshTtl,      \* ticks a refresh token is accepted
  MaxTick,         \* bound: the clock
  MaxLost          \* bound: replies lost in one behaviour

ASSUME SessionsConstants ==
  /\ CallKinds \subseteq {"fetch", "logout"}
  /\ {AccessTtl, RefreshTtl, MaxTick, MaxLost} \subseteq Nat
  /\ AccessTtl > 0 /\ MaxTick > 0

Never == 0
Ticks == 1 .. MaxTick

VARIABLES
  tick,       \* the time; two things at one tick happen within a second
  stored,     \* the RefreshToken rows
  session,    \* the session of the browser: when its tokens were signed, or Never
  call,       \* the API calls
  lost,       \* replies lost so far
  raced       \* history: two calls were once in progress together

sessionVars == <<tick, stored, session, call, lost, raced>>

NoCall == [pc |-> "idle", kind |-> "fetch", token |-> Never, retry |-> FALSE]

SessionsTypeOK ==
  /\ tick \in Ticks
  /\ stored \in [Ticks -> {"none", "valid", "revoked"}]
  /\ session \in Ticks \cup {Never}
  /\ call \in [Calls -> [pc : {"idle", "sent", "refused", "asked", "checked", "revoked",
                               "issued", "denied"},
                         kind : {"fetch", "logout"}, token : Ticks \cup {Never},
                         retry : BOOLEAN]]
  /\ lost \in Nat /\ raced \in BOOLEAN

SessionsInit ==
  /\ tick = 1
  /\ stored = [n \in Ticks |-> "none"] /\ session = Never
  /\ call = [c \in Calls |-> NoCall]
  /\ lost = 0 /\ raced = FALSE

Fresh(n, ttl) == tick < n + ttl

CallStep(c, step) == call' = [call EXCEPT ![c] = step]

TimePasses ==
  /\ tick < MaxTick
  /\ tick' = tick + 1
  /\ UNCHANGED <<stored, session, call, lost, raced>>

-----------------------------------------------------------------------------
\* POST /auth/login: a row is created; a second one of the same second would have the same
\* tokenHash, which is unique, and the request fails.
Login ==
  /\ session = Never
  /\ stored[tick] = "none"
  /\ stored' = [stored EXCEPT ![tick] = "valid"]
  /\ session' = tick
  /\ UNCHANGED <<tick, call, lost, raced>>

\* request(): a call is sent with the access token of the session.
Send(c, kind) ==
  /\ call[c].pc = "idle" /\ session # Never
  /\ CallStep(c, [NoCall EXCEPT !.pc = "sent", !.kind = kind, !.token = session])
  /\ raced' = (raced \/ \E d \in Calls : call[d].pc # "idle")
  /\ UNCHANGED <<tick, stored, session, lost>>

\* The call is over; logout clears the session whatever came of it.
Finish(c) ==
  /\ CallStep(c, NoCall)
  /\ session' = IF call[c].kind = "logout" THEN Never ELSE session

\* requireAuth accepts the access token; /auth/logout revokes every row not yet revoked.
Answered(c) ==
  /\ call[c].pc = "sent" /\ Fresh(call[c].token, AccessTtl)
  /\ stored' = IF call[c].kind = "logout"
               THEN [n \in Ticks |-> IF stored[n] = "valid" THEN "revoked" ELSE stored[n]]
               ELSE stored
  /\ Finish(c)
  /\ UNCHANGED <<tick, lost, raced>>

\* 401, on which the first attempt refreshes and a retry fails.
Refused(c) ==
  /\ call[c].pc = "sent" /\ ~ Fresh(call[c].token, AccessTtl)
  /\ IF call[c].retry THEN Finish(c)
     ELSE CallStep(c, [call[c] EXCEPT !.pc = "refused"]) /\ UNCHANGED session
  /\ UNCHANGED <<tick, stored, lost, raced>>

-----------------------------------------------------------------------------
(* tryRefresh and POST /auth/refresh *)

\* The session is read again, and its refresh token sent.
AskRefresh(c) ==
  /\ call[c].pc = "refused"
  /\ CallStep(c, IF session = Never THEN [call[c] EXCEPT !.pc = "denied"]
                 ELSE [call[c] EXCEPT !.pc = "asked", !.token = session])
  /\ UNCHANGED <<tick, stored, session, lost, raced>>

\* findUnique: the token must be known, not revoked and not expired.
CheckRefresh(c) ==
  LET n == call[c].token IN
  /\ call[c].pc = "asked"
  /\ CallStep(c, [call[c] EXCEPT !.pc = IF stored[n] = "valid" /\ Fresh(n, RefreshTtl)
                                        THEN "checked" ELSE "denied"])
  /\ UNCHANGED <<tick, stored, session, lost, raced>>

\* The used token is revoked ...
RevokeUsed(c) ==
  /\ call[c].pc = "checked"
  /\ stored' = [stored EXCEPT ![call[c].token] = "revoked"]
  /\ CallStep(c, [call[c] EXCEPT !.pc = "revoked"])
  /\ UNCHANGED <<tick, session, lost, raced>>

\* ... and another one is signed and stored, unless one was stored within this second.
IssueFresh(c) ==
  /\ call[c].pc = "revoked"
  /\ IF stored[tick] = "none"
     THEN /\ stored' = [stored EXCEPT ![tick] = "valid"]
          /\ CallStep(c, [call[c] EXCEPT !.pc = "issued", !.token = tick])
     ELSE CallStep(c, [call[c] EXCEPT !.pc = "denied"]) /\ UNCHANGED stored
  /\ UNCHANGED <<tick, session, lost, raced>>

\* Planted defect: the new tokens are used for the retry and not stored.
SaveNothing(c) ==
  /\ call[c].pc = "issued"
  /\ CallStep(c, [call[c] EXCEPT !.pc = "sent", !.retry = TRUE])
  /\ UNCHANGED <<tick, stored, session, lost, raced>>

\* The reply is stored in place of the session, whatever became of that meanwhile, and the
\* call is sent again.
SaveSession(c) ==
  /\ call[c].pc = "issued"
  /\ session' = call[c].token
  /\ CallStep(c, [call[c] EXCEPT !.pc = "sent", !.retry = TRUE])
  /\ UNCHANGED <<tick, stored, lost, raced>>

\* The reply to a refresh is lost.
LoseRefresh(c) ==
  /\ call[c].pc = "issued" /\ lost < MaxLost
  /\ lost' = lost + 1
  /\ CallStep(c, [call[c] EXCEPT !.pc = "denied"])
  /\ UNCHANGED <<tick, stored, session, raced>>

\* Without a refresh the session is cleared, whoever stored it, and the user has to sign in.
SignOut(c) ==
  /\ call[c].pc = "denied"
  /\ session' = Never
  /\ CallStep(c, NoCall)
  /\ UNCHANGED <<tick, stored, lost, raced>>

-----------------------------------------------------------------------------
CallSteps(c) ==
  \/ Answered(c) \/ Refused(c) \/ AskRefresh(c) \/ CheckRefresh(c) \/ RevokeUsed(c)
  \/ IssueFresh(c) \/ SaveSession(c) \/ SignOut(c)

SessionsNext ==
  \/ TimePasses \/ Login
  \/ \E c \in Calls : \/ CallSteps(c) \/ LoseRefresh(c)
                      \/ \E kind \in CallKinds : Send(c, kind)

SessionsSpec == SessionsInit /\ [][SessionsNext]_sessionVars

-----------------------------------------------------------------------------
\* The user is signed out for a reason only: signing out by hand, a refresh token that has
\* expired, a reply that was lost, or calls that raced.
SignedOutForAReason ==
  [][session # Never /\ session' = Never =>
       \/ raced \/ lost > 0
       \/ ~ Fresh(session, RefreshTtl)
       \/ \E c \in Calls : call[c].kind = "logout" /\ call[c].pc # "idle"]_sessionVars
=============================================================================
