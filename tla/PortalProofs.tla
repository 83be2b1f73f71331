---------------------------- MODULE PortalProofs ----------------------------
(***************************************************************************)
(* The portal in one browser: the user is signed out for a reason only, the *)
(* user's own edits show, and a page offers what the backend permits.        *)
(***************************************************************************)
EXTENDS Sessions, PortalCache, PortalPages, TLAPS

-----------------------------------------------------------------------------
(* Sessions                                                                *)

\* Only the user, one call at a time, and no reply lost so far.
Undisturbed == ~ raced /\ lost = 0

Busy(c) == call[c].pc # "idle"

\* One call at a time, and only while somebody is signed in.
OneCall ==
  /\ \A c, d \in Calls : Busy(c) /\ Busy(d) => c = d
  /\ session = Never => \A c \in Calls : ~ Busy(c)

\* A call uses the tokens of the session, until it gets others.
TokenOfSession == \A c \in Calls : Busy(c) /\ call[c].pc # "issued" => call[c].token = session

\* A refresh comes after the second the session's tokens were signed in.
RefreshIsLater ==
  \A c \in Calls : call[c].pc \in {"refused", "asked", "checked", "revoked"} => session < tick

\* Tokens are signed for the present: there are no rows of the future.
NoFutureRows ==
  /\ session <= tick /\ \A c \in Calls : call[c].token <= tick
  /\ \A n \in Ticks : n > tick => stored[n] = "none"

\* The row of the session is valid and the last, unless a refresh has replaced it.
RowOfSession ==
  session # Never =>
    /\ (\A c \in Calls : call[c].pc \notin {"revoked", "issued", "denied"})
         => stored[session] = "valid"
    /\ (\A c \in Calls : call[c].pc # "issued") => \A n \in Ticks : n > session => stored[n] = "none"

\* The row of the tokens that a call got is valid and the last.
RowOfIssued ==
  \A c \in Calls : call[c].pc = "issued" =>
    /\ call[c].token \in Ticks /\ call[c].token <= tick /\ stored[call[c].token] = "valid"
    /\ \A n \in Ticks : n > call[c].token => stored[n] = "none"

\* A refresh is denied only when the session has expired.
DeniedIsExpired == \A c \in Calls : call[c].pc = "denied" => ~ Fresh(session, RefreshTtl)

\* The invariant that is inductive.
SInv ==
  /\ SessionsTypeOK
  /\ NoFutureRows
  /\ Undisturbed => /\ OneCall /\ TokenOfSession /\ RefreshIsLater
                    /\ RowOfSession /\ RowOfIssued /\ DeniedIsExpired

\* The calls as records.
CallRec == [pc : {"idle", "sent", "refused", "asked", "checked", "revoked", "issued", "denied"},
            kind : {"fetch", "logout"}, token : Ticks \cup {Never}, retry : BOOLEAN]

\* The conjuncts of SInv that hold while nothing is disturbed.
Solo == OneCall /\ TokenOfSession /\ RefreshIsLater /\ RowOfSession /\ RowOfIssued /\ DeniedIsExpired

LEMMA SessionTypes ==
  ASSUME SessionsTypeOK
  PROVE  /\ tick \in Nat /\ tick \in Ticks /\ session \in Ticks \cup {Never} /\ session \in Nat
         /\ stored \in [Ticks -> {"none", "valid", "revoked"}]
         /\ call \in [Calls -> CallRec] /\ lost \in Nat /\ raced \in BOOLEAN
         /\ \A c \in Calls : call[c] \in CallRec /\ call[c].token \in Nat
BY SessionsConstants DEF SessionsTypeOK, CallRec, Ticks, Never

LEMMA NoCallType == NoCall \in CallRec /\ NoCall.pc = "idle" /\ NoCall.token = Never
BY DEF NoCall, CallRec

\* Types and the clock are kept by a step of a call.
LEMMA CallStepTypes ==
  ASSUME SInv, NEW c \in Calls, NEW q \in CallRec, CallStep(c, q), tick' = tick,
         stored' \in [Ticks -> {"none", "valid", "revoked"}], session' \in Ticks \cup {Never},
         session' <= tick, q.token <= tick, lost' \in Nat, raced' \in BOOLEAN,
         \A n \in Ticks : n > tick => stored'[n] = "none"
  PROVE  /\ SessionsTypeOK' /\ NoFutureRows'
         /\ call'[c] = q /\ \A d \in Calls : d # c => call'[d] = call[d]
<1>1. call \in [Calls -> CallRec] /\ tick \in Ticks
  BY SessionTypes DEF SInv
<1>2. call' \in [Calls -> CallRec] /\ call'[c] = q /\ \A d \in Calls : d # c => call'[d] = call[d]
  BY <1>1 DEF CallStep
<1>3. SessionsTypeOK'
  BY <1>1, <1>2 DEF SessionsTypeOK, CallRec
<1>4. NoFutureRows'
  BY <1>2 DEF NoFutureRows, SInv
<1> QED
  BY <1>2, <1>3, <1>4

\* A step of the one call that is in progress, and goes on.
LEMMA SoloGoesOn ==
  ASSUME SInv, Undisturbed, NEW c \in Calls, NEW q \in CallRec, Busy(c), CallStep(c, q),
         q.pc # "idle", session' \in Ticks, tick' = tick,
         q.pc # "issued" => q.token = session',
         q.pc \in {"refused", "asked", "checked", "revoked"} => session' < tick,
         q.pc \notin {"revoked", "issued", "denied"} => stored'[session'] = "valid",
         q.pc # "issued" => \A n \in Ticks : n > session' => stored'[n] = "none",
         q.pc = "issued" => /\ q.token \in Ticks /\ q.token <= tick /\ stored'[q.token] = "valid"
                            /\ \A n \in Ticks : n > q.token => stored'[n] = "none",
         q.pc = "denied" => ~ tick < session' + RefreshTtl
  PROVE  Solo'
<1>1. call'[c] = q /\ \A d \in Calls : d # c => call'[d].pc = "idle"
  BY DEF SInv, OneCall, Busy, CallStep, SessionsTypeOK
<1>2. OneCall'
  BY <1>1, SessionsConstants DEF OneCall, Busy, Ticks, Never
<1>3. TokenOfSession' /\ RefreshIsLater'
  BY <1>1 DEF TokenOfSession, RefreshIsLater, Busy
<1>4. RowOfSession' /\ RowOfIssued'
  BY <1>1 DEF RowOfSession, RowOfIssued
<1>5. DeniedIsExpired'
  BY <1>1 DEF DeniedIsExpired, Fresh
<1> QED
  BY <1>2, <1>3, <1>4, <1>5 DEF Solo

\* The one call that is in progress is over.
LEMMA SoloEnds ==
  ASSUME SInv, Undisturbed, NEW c \in Calls, Busy(c), CallStep(c, NoCall),
         session' # Never => /\ stored'[session'] = "valid"
                             /\ \A n \in Ticks : n > session' => stored'[n] = "none"
  PROVE  Solo'
<1>1. \A d \in Calls : call'[d].pc = "idle"
  BY NoCallType DEF SInv, OneCall, Busy, CallStep, SessionsTypeOK
<1> QED
  BY <1>1 DEF Solo, OneCall, TokenOfSession, RefreshIsLater, RowOfSession, RowOfIssued,
              DeniedIsExpired, Busy

\* What is true of the one call in progress.
LEMMA SoloCall ==
  ASSUME SInv, Undisturbed, NEW c \in Calls, Busy(c)
  PROVE  /\ session \in Ticks /\ session # Never
         /\ call[c].pc # "issued" => call[c].token = session
         /\ call[c].pc \in {"refused", "asked", "checked", "revoked"} => session < tick
         /\ call[c].pc \notin {"revoked", "issued", "denied"} => stored[session] = "valid"
         /\ call[c].pc # "issued" => \A n \in Ticks : n > session => stored[n] = "none"
<1>1. \A d \in Calls : d # c => call[d].pc = "idle"
  BY DEF SInv, OneCall, Busy
<1>2. session # Never /\ session \in Ticks
  BY SessionTypes DEF SInv, OneCall
<1>3. RowOfSession
  BY DEF SInv
<1> QED
  BY <1>1, <1>2, <1>3 DEF SInv, TokenOfSession, RefreshIsLater, RowOfSession, Busy

\* Nothing is disturbed after a step that was not before it.
LEMMA UndisturbedBefore ==
  ASSUME SInv, Undisturbed', lost' \in {lost, lost + 1}, raced => raced'
  PROVE  Undisturbed
BY SessionTypes DEF Undisturbed, SInv

-----------------------------------------------------------------------------
\* The steps

LEMMA SessTime ==
  ASSUME SInv, TimePasses
  PROVE  SInv'
<1>1. tick \in Ticks /\ session \in Nat /\ tick + 1 \in Ticks
  BY SessionTypes, SessionsConstants DEF SInv, TimePasses, Ticks
<1>2. SessionsTypeOK'
  BY <1>1 DEF SInv, SessionsTypeOK, TimePasses
<1>3. NoFutureRows'
  BY <1>1, SessionTypes, SessionsConstants DEF SInv, NoFutureRows, TimePasses, Ticks
<1>4. ASSUME Undisturbed'
      PROVE  Solo'
  <2>1. Undisturbed
    BY <1>4 DEF Undisturbed, TimePasses
  <2>2. OneCall' /\ TokenOfSession' /\ RowOfSession'
    BY <2>1 DEF SInv, OneCall, TokenOfSession, RowOfSession, Busy, TimePasses
  <2>3. RefreshIsLater'
    BY <1>1, <2>1, SessionsConstants DEF SInv, RefreshIsLater, TimePasses, Ticks
  <2>4. RowOfIssued'
    BY <1>1, <2>1, SessionsConstants DEF SInv, RowOfIssued, TimePasses, Ticks
  <2>5. DeniedIsExpired'
    BY <1>1, <2>1, SessionsConstants DEF SInv, DeniedIsExpired, Fresh, TimePasses, Ticks
  <2> QED
    BY <2>2, <2>3, <2>4, <2>5 DEF Solo
<1> QED
  BY <1>2, <1>3, <1>4 DEF SInv, Solo

LEMMA SessLogin ==
  ASSUME SInv, Login
  PROVE  SInv'
<1>1. tick \in Ticks /\ tick \in Nat /\ session = Never
  BY SessionTypes DEF SInv, Login
<1>2. stored'[tick] = "valid" /\ \A n \in Ticks : n # tick => stored'[n] = stored[n]
  BY <1>1 DEF SInv, SessionsTypeOK, Login
<1>3. SessionsTypeOK'
  BY <1>1 DEF SInv, SessionsTypeOK, Login
<1>4. NoFutureRows'
  BY <1>1, <1>2 DEF SInv, NoFutureRows, Login
<1>5. ASSUME Undisturbed'
      PROVE  Solo'
  <2>1. \A c \in Calls : call'[c].pc = "idle"
    BY <1>1, <1>5 DEF Undisturbed, Login, SInv, OneCall, Busy
  <2>2. session' = tick /\ tick' = tick
    BY DEF Login
  <2>3. \A n \in Ticks : n > session' => stored'[n] = "none"
    BY <1>1, <1>2, <2>2 DEF SInv, NoFutureRows, Ticks
  <2> QED
    BY <1>2, <2>1, <2>2, <2>3 DEF Solo, OneCall, TokenOfSession, RefreshIsLater, RowOfSession,
                                  RowOfIssued, DeniedIsExpired, Busy
<1> QED
  BY <1>3, <1>4, <1>5 DEF SInv, Solo

LEMMA SessSend ==
  ASSUME SInv, NEW c \in Calls, NEW kind \in CallKinds, Send(c, kind)
  PROVE  SInv'
<1> DEFINE q == [NoCall EXCEPT !.pc = "sent", !.kind = kind, !.token = session]
<1>1. /\ q \in CallRec /\ q.pc = "sent" /\ q.token = session
  BY SessionTypes, SessionsConstants DEF SInv, CallRec, NoCall
<1>2. /\ CallStep(c, q) /\ session # Never /\ call[c].pc = "idle"
      /\ raced' = (raced \/ \E d \in Calls : call[d].pc # "idle")
      /\ UNCHANGED <<tick, stored, session, lost>>
  BY DEF Send
<1> HIDE DEF q
<1>3. raced' \in BOOLEAN /\ session <= tick
  BY <1>2 DEF SInv, NoFutureRows
<1>4. /\ SessionsTypeOK' /\ NoFutureRows'
      /\ call'[c] = q /\ \A d \in Calls : d # c => call'[d] = call[d]
  BY <1>1, <1>2, <1>3, SessionTypes, CallStepTypes DEF SInv, NoFutureRows
<1>5. ASSUME Undisturbed'
      PROVE  Solo'
  <2>1. Undisturbed /\ \A d \in Calls : call[d].pc = "idle"
    BY <1>2, <1>5 DEF Undisturbed
  <2>2. OneCall' /\ TokenOfSession' /\ RefreshIsLater' /\ RowOfIssued' /\ DeniedIsExpired'
    BY <1>1, <1>2, <1>4, <2>1 DEF OneCall, TokenOfSession, RefreshIsLater, RowOfIssued,
                                  DeniedIsExpired, Busy
  <2>3. RowOfSession'
    BY <1>2, <2>1 DEF SInv, RowOfSession
  <2> QED
    BY <2>2, <2>3 DEF Solo
<1> QED
  BY <1>4, <1>5 DEF SInv, Solo

LEMMA SessAnswered ==
  ASSUME SInv, NEW c \in Calls, Answered(c)
  PROVE  SInv'
<1>1. /\ CallStep(c, NoCall) /\ Busy(c) /\ call[c].pc = "sent"
      /\ session' \in {session, Never} /\ UNCHANGED <<tick, lost, raced>>
      /\ session' # Never => session' = session /\ stored' = stored
  BY SessionsConstants DEF Answered, Finish, Busy
<1>2. /\ stored' \in [Ticks -> {"none", "valid", "revoked"}]
      /\ \A n \in Ticks : stored[n] = "none" => stored'[n] = "none"
  BY SessionTypes DEF SInv, Answered
<1>3. SessionsTypeOK' /\ NoFutureRows'
  BY <1>1, <1>2, CallStepTypes, SessionTypes, NoCallType DEF SInv, NoFutureRows, Never
<1>4. ASSUME Undisturbed'
      PROVE  Solo'
  <2>1. Undisturbed
    BY <1>1, <1>4 DEF Undisturbed
  <2> QED
    BY <1>1, <2>1, SoloCall, SoloEnds
<1> QED
  BY <1>3, <1>4 DEF SInv, Solo

LEMMA SessRefused ==
  ASSUME SInv, NEW c \in Calls, Refused(c)
  PROVE  SInv'
<1> DEFINE q == [call[c] EXCEPT !.pc = "refused"]
<1>0. call[c] \in CallRec /\ call[c].pc = "sent" /\ Busy(c)
      /\ UNCHANGED <<tick, stored, lost, raced>>
  BY SessionTypes DEF SInv, Refused, Busy
<1>1. CASE call[c].retry
  <2>1. /\ CallStep(c, NoCall) /\ session' \in {session, Never}
    BY <1>1 DEF Refused, Finish
  <2>2. SessionsTypeOK' /\ NoFutureRows'
    BY <1>0, <2>1, CallStepTypes, SessionTypes, NoCallType DEF SInv, NoFutureRows, Never
  <2>3. ASSUME Undisturbed'
        PROVE  Solo'
    BY <1>0, <2>1, <2>3, SoloCall, SoloEnds DEF Undisturbed
  <2> QED
    BY <2>2, <2>3 DEF SInv, Solo
<1>2. CASE ~ call[c].retry
  <2>1. /\ CallStep(c, q) /\ session' = session /\ ~ tick < call[c].token + AccessTtl
    BY <1>2 DEF Refused, Fresh
  <2>2. q \in CallRec /\ q.pc = "refused" /\ q.token = call[c].token
    BY <1>0 DEF CallRec
  <2> HIDE DEF q
  <2>3. SessionsTypeOK' /\ NoFutureRows'
    BY <1>0, <2>1, <2>2, CallStepTypes, SessionTypes DEF SInv, NoFutureRows
  <2>4. ASSUME Undisturbed'
        PROVE  Solo'
    <3>1. Undisturbed /\ call[c].token = session
      BY <1>0, <2>4, SoloCall DEF Undisturbed
    <3>2. session < tick
      BY <2>1, <3>1, SessionTypes, SessionsConstants DEF SInv
    <3> QED
      BY <1>0, <2>1, <2>2, <3>1, <3>2, SoloCall, SoloGoesOn
  <2> QED
    BY <2>3, <2>4 DEF SInv, Solo
<1> QED
  BY <1>1, <1>2

\* A step of a call that is not over, and that leaves session and rows alone.
LEMMA SessAsks ==
  ASSUME SInv, NEW c \in Calls, NEW q \in CallRec, Busy(c), CallStep(c, q),
         call[c].pc \in {"refused", "asked"}, q.pc \in {"asked", "checked", "denied"},
         q.token \in {call[c].token, session}, q.pc = "asked" => q.token = session,
         q.pc = "denied" => \/ session = Never \/ stored[call[c].token] # "valid"
                            \/ ~ Fresh(call[c].token, RefreshTtl),
         UNCHANGED <<tick, stored, session, lost, raced>>
  PROVE  SInv'
<1>1. SessionsTypeOK' /\ NoFutureRows'
  BY CallStepTypes, SessionTypes DEF SInv, NoFutureRows
<1>2. ASSUME Undisturbed'
      PROVE  Solo'
  <2>1. Undisturbed
    BY <1>2 DEF Undisturbed
  <2>2. q.pc = "denied" => ~ tick < session + RefreshTtl
    BY <2>1, SoloCall DEF Fresh
  <2> QED
    BY <2>1, <2>2, SoloCall, SoloGoesOn
<1> QED
  BY <1>1, <1>2 DEF SInv, Solo

LEMMA SessAskRefresh ==
  ASSUME SInv, NEW c \in Calls, AskRefresh(c)
  PROVE  SInv'
<1> DEFINE q == IF session = Never THEN [call[c] EXCEPT !.pc = "denied"]
                ELSE [call[c] EXCEPT !.pc = "asked", !.token = session]
<1>1. call[c] \in CallRec /\ call[c].pc = "refused" /\ Busy(c)
  BY SessionTypes DEF SInv, AskRefresh, Busy
<1>2. /\ q \in CallRec /\ q.pc = (IF session = Never THEN "denied" ELSE "asked")
      /\ q.token = IF session = Never THEN call[c].token ELSE session
  BY <1>1, SessionTypes DEF SInv, CallRec
<1>3. CallStep(c, q) /\ UNCHANGED <<tick, stored, session, lost, raced>>
  BY DEF AskRefresh
<1> HIDE DEF q
<1> QED
  BY <1>1, <1>2, <1>3, SessAsks

LEMMA SessCheckRefresh ==
  ASSUME SInv, NEW c \in Calls, CheckRefresh(c)
  PROVE  SInv'
<1> DEFINE fits == stored[call[c].token] = "valid" /\ Fresh(call[c].token, RefreshTtl)
           q == [call[c] EXCEPT !.pc = IF fits THEN "checked" ELSE "denied"]
<1>1. call[c] \in CallRec /\ call[c].pc = "asked" /\ Busy(c)
  BY SessionTypes DEF SInv, CheckRefresh, Busy
<1>2. CallStep(c, q) /\ UNCHANGED <<tick, stored, session, lost, raced>>
  BY DEF CheckRefresh
<1>3. ~ fits => stored[call[c].token] # "valid" \/ ~ Fresh(call[c].token, RefreshTtl)
  OBVIOUS
<1> HIDE DEF fits
<1>4. q \in CallRec /\ q.pc = (IF fits THEN "checked" ELSE "denied") /\ q.token = call[c].token
  BY <1>1 DEF CallRec
<1> HIDE DEF q
<1> QED
  BY <1>1, <1>2, <1>3, <1>4, SessAsks

LEMMA SessRevokeUsed ==
  ASSUME SInv, NEW c \in Calls, RevokeUsed(c)
  PROVE  SInv'
<1> DEFINE q == [call[c] EXCEPT !.pc = "revoked"]
<1>1. call[c] \in CallRec /\ call[c].pc = "checked" /\ Busy(c)
  BY SessionTypes DEF SInv, RevokeUsed, Busy
<1>2. q \in CallRec /\ q.pc = "revoked" /\ q.token = call[c].token
  BY <1>1 DEF CallRec
<1>3. /\ CallStep(c, q) /\ stored' = [stored EXCEPT ![call[c].token] = "revoked"]
      /\ UNCHANGED <<tick, session, lost, raced>>
  BY DEF RevokeUsed
<1> HIDE DEF q
<1>4. /\ stored' \in [Ticks -> {"none", "valid", "revoked"}]
      /\ \A n \in Ticks : n # call[c].token => stored'[n] = stored[n]
  BY <1>3, SessionTypes DEF SInv
<1>5. \A n \in Ticks : n > tick => stored'[n] = "none"
  BY <1>4, SessionTypes DEF SInv, NoFutureRows
<1>6. SessionsTypeOK' /\ NoFutureRows'
  BY <1>1, <1>2, <1>3, <1>4, <1>5, CallStepTypes, SessionTypes DEF SInv, NoFutureRows
<1>7. ASSUME Undisturbed'
      PROVE  Solo'
  <2>1. Undisturbed
    BY <1>3, <1>7 DEF Undisturbed
  <2>2. /\ call[c].token = session /\ session < tick /\ session \in Ticks
        /\ \A n \in Ticks : n > session => stored[n] = "none"
    BY <1>1, <2>1, SoloCall
  <2>3. \A n \in Ticks : n > session => stored'[n] = "none"
    BY <1>4, <2>2 DEF Ticks
  <2> QED
    BY <1>1, <1>2, <1>3, <2>1, <2>2, <2>3, SoloGoesOn
<1> QED
  BY <1>6, <1>7 DEF SInv, Solo

LEMMA SessIssueFresh ==
  ASSUME SInv, NEW c \in Calls, IssueFresh(c)
  PROVE  SInv'
<1>1. /\ call[c] \in CallRec /\ call[c].pc = "revoked" /\ Busy(c) /\ tick \in Ticks
      /\ UNCHANGED <<tick, session, lost, raced>>
  BY SessionTypes DEF SInv, IssueFresh, Busy
<1>2. CASE stored[tick] = "none"
  <2> DEFINE q == [call[c] EXCEPT !.pc = "issued", !.token = tick]
  <2>1. q \in CallRec /\ q.pc = "issued" /\ q.token = tick
    BY <1>1 DEF CallRec
  <2>2. CallStep(c, q) /\ stored' = [stored EXCEPT ![tick] = "valid"]
    BY <1>2 DEF IssueFresh
  <2> HIDE DEF q
  <2>3. /\ stored' \in [Ticks -> {"none", "valid", "revoked"}] /\ stored'[tick] = "valid"
        /\ \A n \in Ticks : n # tick => stored'[n] = stored[n]
    BY <1>1, <2>2, SessionTypes DEF SInv
  <2>4. \A n \in Ticks : n > tick => stored'[n] = "none"
    BY <2>3, SessionTypes DEF SInv, NoFutureRows, Ticks
  <2>5. tick <= tick
    BY SessionTypes DEF SInv
  <2>6. SessionsTypeOK' /\ NoFutureRows'
    BY <1>1, <2>1, <2>2, <2>3, <2>4, <2>5, CallStepTypes, SessionTypes DEF SInv, NoFutureRows
  <2>7. ASSUME Undisturbed'
        PROVE  Solo'
    <3>1. Undisturbed
      BY <1>1, <2>7 DEF Undisturbed
    <3> QED
      BY <1>1, <2>1, <2>2, <2>3, <2>4, <2>5, <3>1, SoloCall, SoloGoesOn
  <2> QED
    BY <2>6, <2>7 DEF SInv, Solo
<1>3. CASE stored[tick] # "none"
  <2> DEFINE q == [call[c] EXCEPT !.pc = "denied"]
  <2>1. q \in CallRec /\ q.pc = "denied" /\ q.token = call[c].token
    BY <1>1 DEF CallRec
  <2>2. CallStep(c, q) /\ stored' = stored
    BY <1>3 DEF IssueFresh
  <2> HIDE DEF q
  <2>3. SessionsTypeOK' /\ NoFutureRows'
    BY <1>1, <2>1, <2>2, CallStepTypes, SessionTypes DEF SInv, NoFutureRows
  <2>4. ~ Undisturbed
    <3> SUFFICES ASSUME Undisturbed
                 PROVE  FALSE
      OBVIOUS
    <3>1. session < tick /\ \A n \in Ticks : n > session => stored[n] = "none"
      BY <1>1, SoloCall
    <3> QED
      BY <1>1, <1>3, <3>1, SessionTypes DEF SInv
  <2> QED
    BY <1>1, <2>3, <2>4 DEF SInv, Undisturbed
<1> QED
  BY <1>2, <1>3

LEMMA SessSave ==
  ASSUME SInv, NEW c \in Calls, SaveSession(c)
  PROVE  SInv'
<1> DEFINE q == [call[c] EXCEPT !.pc = "sent", !.retry = TRUE]
<1>1. call[c] \in CallRec /\ call[c].pc = "issued" /\ Busy(c)
  BY SessionTypes DEF SInv, SaveSession, Busy
<1>2. q \in CallRec /\ q.pc = "sent" /\ q.token = call[c].token
  BY <1>1 DEF CallRec
<1>3. CallStep(c, q) /\ session' = call[c].token /\ UNCHANGED <<tick, stored, lost, raced>>
  BY DEF SaveSession
<1> HIDE DEF q
<1>4. session' \in Ticks \cup {Never} /\ session' <= tick
  BY <1>1, <1>3 DEF CallRec, SInv, NoFutureRows
<1>5. SessionsTypeOK' /\ NoFutureRows'
  BY <1>1, <1>2, <1>3, <1>4, CallStepTypes, SessionTypes DEF SInv, NoFutureRows
<1>6. ASSUME Undisturbed'
      PROVE  Solo'
  <2>1. Undisturbed
    BY <1>3, <1>6 DEF Undisturbed
  <2>2. /\ call[c].token \in Ticks /\ stored[call[c].token] = "valid"
        /\ \A n \in Ticks : n > call[c].token => stored[n] = "none"
    BY <1>1, <2>1 DEF SInv, RowOfIssued
  <2> QED
    BY <1>1, <1>2, <1>3, <2>1, <2>2, SoloGoesOn
<1> QED
  BY <1>5, <1>6 DEF SInv, Solo

LEMMA SessLose ==
  ASSUME SInv, NEW c \in Calls, LoseRefresh(c)
  PROVE  SInv'
<1> DEFINE q == [call[c] EXCEPT !.pc = "denied"]
<1>1. call[c] \in CallRec /\ call[c].pc = "issued"
  BY SessionTypes DEF SInv, LoseRefresh
<1>2. q \in CallRec /\ q.token = call[c].token
  BY <1>1 DEF CallRec
<1>3. /\ CallStep(c, q) /\ UNCHANGED <<tick, stored, session, raced>>
      /\ lost' = lost + 1 /\ lost' \in Nat /\ lost' # 0
  BY SessionTypes DEF LoseRefresh, SInv
<1> HIDE DEF q
<1>4. SessionsTypeOK' /\ NoFutureRows'
  BY <1>1, <1>2, <1>3, CallStepTypes, SessionTypes DEF SInv, NoFutureRows
<1> QED
  BY <1>3, <1>4 DEF SInv, Undisturbed

LEMMA SessSignOut ==
  ASSUME SInv, NEW c \in Calls, SignOut(c)
  PROVE  SInv'
<1>1. /\ CallStep(c, NoCall) /\ Busy(c) /\ session' = Never /\ UNCHANGED <<tick, stored, lost, raced>>
  BY DEF SignOut, Busy
<1>2. SessionsTypeOK' /\ NoFutureRows'
  BY <1>1, CallStepTypes, SessionTypes, NoCallType DEF SInv, NoFutureRows, Never
<1>3. ASSUME Undisturbed'
      PROVE  Solo'
  BY <1>1, <1>3, SoloEnds DEF Undisturbed
<1> QED
  BY <1>2, <1>3 DEF SInv, Solo

LEMMA SInvInit ==
  ASSUME SessionsInit
  PROVE  SInv
<1>1. 1 \in Ticks /\ Never <= 1
  BY SessionsConstants DEF Ticks, Never
<1>2. \A c \in Calls : call[c] \in CallRec /\ call[c].pc = "idle" /\ call[c].token = Never
  BY NoCallType DEF SessionsInit
<1>3. SessionsTypeOK
  BY <1>1, <1>2 DEF SessionsInit, SessionsTypeOK, CallRec
<1>4. NoFutureRows
  BY <1>1, <1>2 DEF SessionsInit, NoFutureRows
<1>5. Solo
  BY <1>2 DEF SessionsInit, Solo, OneCall, TokenOfSession, RefreshIsLater, RowOfSession,
              RowOfIssued, DeniedIsExpired, Busy
<1> QED
  BY <1>3, <1>4, <1>5 DEF SInv, Solo

LEMMA SInvStep ==
  ASSUME SInv, [SessionsNext]_sessionVars
  PROVE  SInv'
<1>1. CASE UNCHANGED sessionVars
  BY <1>1 DEF sessionVars, SInv, SessionsTypeOK, NoFutureRows, Undisturbed, OneCall,
              TokenOfSession, RefreshIsLater, RowOfSession, RowOfIssued, DeniedIsExpired, Busy, Fresh
<1> QED
  BY <1>1, SessTime, SessLogin, SessSend, SessAnswered, SessRefused, SessAskRefresh,
     SessCheckRefresh, SessRevokeUsed, SessIssueFresh, SessSave, SessLose, SessSignOut
     DEF SessionsNext, CallSteps

\* The portal's sessions keep their types, and while there is one call at a time and no reply is
\* lost, the tokens of the session are the last that were signed and are still good for a refresh
\* (POST /auth/refresh of routes/auth.ts, tryRefresh of client.ts).
THEOREM SessionsInductive == SessionsSpec => []SInv
<1>1. SessionsInit => SInv
  BY SInvInit
<1>2. SInv /\ [SessionsNext]_sessionVars => SInv'
  BY SInvStep
<1> QED
  BY <1>1, <1>2, PTL DEF SessionsSpec

\* The user is signed out for a reason only, for any number of calls and any lifetimes of the
\* tokens: signing out by hand, a refresh token that has expired, a reply that was lost, or calls
\* that raced (client.ts clears the session when a refresh is denied).
THEOREM SignOutHasReason == SessionsSpec => SignedOutForAReason
<1> DEFINE Reason == session # Never /\ session' = Never =>
                       \/ raced \/ lost > 0
                       \/ ~ Fresh(session, RefreshTtl)
                       \/ \E c \in Calls : call[c].kind = "logout" /\ call[c].pc # "idle"
<1>1. SInv /\ [SessionsNext]_sessionVars => Reason
  <2> SUFFICES ASSUME SInv, [SessionsNext]_sessionVars, session # Never, session' = Never,
                      ~ raced, ~ lost > 0
               PROVE  \/ ~ Fresh(session, RefreshTtl)
                      \/ \E c \in Calls : call[c].kind = "logout" /\ call[c].pc # "idle"
    OBVIOUS
  <2>1. Undisturbed
    BY SessionTypes DEF Undisturbed, SInv
  <2>2. PICK c \in Calls : Answered(c) \/ Refused(c) \/ SaveSession(c) \/ SignOut(c)
    BY DEF SessionsNext, CallSteps, sessionVars, TimePasses, Login, Send, AskRefresh, CheckRefresh,
           RevokeUsed, IssueFresh, LoseRefresh
  <2>3. CASE Answered(c) \/ Refused(c)
    BY <2>3 DEF Answered, Refused, Finish
  <2>4. CASE SaveSession(c)
    <3>1. call[c].pc = "issued" /\ session' = call[c].token
      BY <2>4 DEF SaveSession
    <3>2. call[c].token \in Ticks
      BY <2>1, <3>1 DEF SInv, RowOfIssued
    <3> QED
      BY <3>1, <3>2, SessionsConstants DEF Ticks, Never
  <2>5. CASE SignOut(c)
    BY <2>1, <2>5 DEF SignOut, SInv, DeniedIsExpired
  <2> QED
    BY <2>2, <2>3, <2>4, <2>5
<1> QED
  BY <1>1, SessionsInductive, PTL DEF SessionsSpec, SignedOutForAReason

-----------------------------------------------------------------------------
(* The user's own edits                                                    *)

\* The types, precisely.
CacheTypes ==
  /\ mode \in {"real", "demo"} /\ onScreen \in BOOLEAN
  /\ view \in [held : BOOLEAN, stale : BOOLEAN, lacks : SUBSET viewed.affected]
  /\ load \in {"none", "asked", "answered"} /\ loading \in SUBSET viewed.affected
  /\ edit \in [EditSlots -> [hook : Related \cup {NoEdit}, pc : {"idle", "sent", "done"},
                             lacks : SUBSET viewed.affected]]
  /\ edits \in 0 .. MaxEdits /\ cacheFaults \in 0 .. MaxCacheFaults

\* Edit h leaves the query behind, or the query is polled.
Excused(h) == viewed.polled \/ (h \in DOMAIN LeftBehind /\ viewed.hook \in LeftBehind[h])

\* The edits that the query does not answer for are excused.
Accounted ==
  \A h \in viewed.affected : h \in viewed.refreshed \/ h \in viewed.replaced \/ Excused(h)

\* That the view, or the answer on its way to it, lacks h has a reason.
Covered(h) ==
  view.stale \/ Unanswered(h, EditSlots) \/ h \in unheard \/ h \in absorbed \/ Excused(h)

\* The invariant that is inductive: what is on its way is accounted for as what is shown.
CInv ==
  /\ CacheTypes /\ Accounted
  /\ load # "answered" => loading = {}
  /\ \A h \in view.lacks \cup loading : Covered(h)

LEMMA CInvInit ==
  ASSUME PortalCacheInit
  PROVE  CInv
<1>1. PICK hook \in DOMAIN Queries : viewed = About(hook, Queries[hook], Edits, mode)
  BY DEF PortalCacheInit
<1>2. Accounted
  BY <1>1, EditsAccountedFor DEF PortalCacheInit, Accounted, Excused, About
<1>3. CacheTypes
  <2>1. edit \in [EditSlots -> [hook : Related \cup {NoEdit}, pc : {"idle", "sent", "done"},
                               lacks : SUBSET viewed.affected]]
    BY DEF PortalCacheInit
  <2>2. view \in [held : BOOLEAN, stale : BOOLEAN, lacks : SUBSET viewed.affected]
    BY DEF PortalCacheInit, Blank
  <2>3. 0 \in 0 .. MaxEdits /\ 0 \in 0 .. MaxCacheFaults
    BY PortalCacheConstants
  <2>4. mode \in {"real", "demo"}
    BY DEF PortalCacheInit
  <2>5. /\ onScreen \in BOOLEAN /\ load \in {"none", "asked", "answered"}
        /\ loading \in SUBSET viewed.affected
    BY DEF PortalCacheInit
  <2>6. edits \in 0 .. MaxEdits /\ cacheFaults \in 0 .. MaxCacheFaults
    BY <2>3 DEF PortalCacheInit
  <2> QED
    BY <2>1, <2>2, <2>4, <2>5, <2>6 DEF CacheTypes
<1> QED
  BY <1>2, <1>3 DEF PortalCacheInit, CInv, Blank

\* What depends on the query alone is kept.
LEMMA SameQuery ==
  ASSUME viewed' = viewed
  PROVE  /\ Related' = Related /\ (Accounted => Accounted')
         /\ \A h : Excused(h)' = Excused(h)
BY DEF Related, Accounted, Excused

\* A step that leaves the edits alone, and gives a reason for all that is lacked after it.
LEMMA CacheStep ==
  ASSUME CInv, UNCHANGED <<mode, viewed, edit, edits>>, onScreen' \in BOOLEAN,
         view' \in [held : BOOLEAN, stale : BOOLEAN, lacks : SUBSET viewed.affected],
         load' \in {"none", "asked", "answered"}, loading' \in SUBSET viewed.affected,
         cacheFaults' \in 0 .. MaxCacheFaults,
         load' # "answered" => loading' = {},
         \A h \in view'.lacks \cup loading' :
           view'.stale \/ h \in unheard' \/ h \in absorbed' \/ Unanswered(h, EditSlots) \/ Excused(h)
  PROVE  CInv'
<1>1. CacheTypes'
  BY SameQuery DEF CInv, CacheTypes
<1>2. \A h : Unanswered(h, EditSlots)' = Unanswered(h, EditSlots)
  BY DEF Unanswered
<1>3. \A h \in view'.lacks \cup loading' : Covered(h)'
  BY <1>2, SameQuery DEF Covered
<1> QED
  BY <1>1, <1>3, SameQuery DEF CInv

\* Faults are counted.
LEMMA CacheFaultType ==
  ASSUME CInv, cacheFaults < MaxCacheFaults
  PROVE  cacheFaults + 1 \in 0 .. MaxCacheFaults
BY PortalCacheConstants DEF CInv, CacheTypes

LEMMA ViewTypes ==
  ASSUME CInv
  PROVE  /\ view \in [held : BOOLEAN, stale : BOOLEAN, lacks : SUBSET viewed.affected]
         /\ Blank \in [held : BOOLEAN, stale : BOOLEAN, lacks : SUBSET viewed.affected]
         /\ load \in {"none", "asked", "answered"} /\ loading \in SUBSET viewed.affected
         /\ onScreen \in BOOLEAN /\ cacheFaults \in 0 .. MaxCacheFaults
         /\ edits \in 0 .. MaxEdits /\ mode \in {"real", "demo"}
         /\ load # "answered" => loading = {}
         /\ Blank.lacks = {}
         /\ \A h \in view.lacks \cup loading :
              \/ view.stale \/ h \in unheard \/ h \in absorbed \/ Unanswered(h, EditSlots)
              \/ Excused(h)
BY DEF CInv, CacheTypes, Blank, Covered

LEMMA CacheFetch ==
  ASSUME CInv, Mount \/ Unmount \/ PollQuery \/ LoadReads \/ LoadFails
  PROVE  CInv'
<1>1. cacheFaults' \in 0 .. MaxCacheFaults
  BY ViewTypes, CacheFaultType DEF Mount, Unmount, PollQuery, LoadReads, LoadFails
<1>2. onScreen' \in BOOLEAN /\ UNCHANGED <<mode, viewed, view, edit, edits, unheard, absorbed>>
  BY ViewTypes DEF Mount, Unmount, PollQuery, LoadReads, LoadFails
<1>3. /\ load' \in {"none", "asked", "answered"} /\ loading' \in {loading, {}}
      /\ load' # "answered" => loading' = {}
  BY ViewTypes DEF Mount, Unmount, PollQuery, LoadReads, LoadFails
<1> QED
  BY <1>1, <1>2, <1>3, ViewTypes, CacheStep

LEMMA CacheBlank ==
  ASSUME CInv, Collect \/ ClearCache
  PROVE  CInv'
<1>1. /\ view' = Blank /\ loading' = {} /\ load' = "none" /\ onScreen' \in BOOLEAN
      /\ UNCHANGED <<mode, viewed, edit, edits, cacheFaults>>
  BY ViewTypes DEF Collect, ClearCache, Showing
<1>2. view'.lacks \cup loading' = {}
  BY <1>1, ViewTypes
<1>3. /\ view' \in [held : BOOLEAN, stale : BOOLEAN, lacks : SUBSET viewed.affected]
      /\ loading' \in SUBSET viewed.affected /\ cacheFaults' \in 0 .. MaxCacheFaults
  BY <1>1, ViewTypes
<1> QED
  BY <1>1, <1>2, <1>3, CacheStep

LEMMA CacheAnswers ==
  ASSUME CInv, LoadAnswers
  PROVE  CInv'
<1> DEFINE v == [held |-> TRUE, stale |-> FALSE, lacks |-> loading]
<1>1. /\ view' = v /\ unheard' = unheard \cap v.lacks /\ load' = "none" /\ loading' = {}
      /\ absorbed' = {h \in loading : h \in absorbed \/ (view.stale /\ ~ Unanswered(h, EditSlots))}
      /\ UNCHANGED <<mode, viewed, onScreen, edit, edits, cacheFaults>>
  BY DEF LoadAnswers, Showing
<1>2. /\ v \in [held : BOOLEAN, stale : BOOLEAN, lacks : SUBSET viewed.affected]
      /\ v.lacks = loading
  BY ViewTypes
<1> HIDE DEF v
<1>3. \A h \in loading : h \in unheard' \/ h \in absorbed' \/ Unanswered(h, EditSlots) \/ Excused(h)
  BY <1>1, <1>2, ViewTypes
<1> QED
  BY <1>1, <1>2, <1>3, ViewTypes, CacheStep

\* What invalidation makes of the view and the fetch.
LEMMA InvalidatedTypes ==
  ASSUME CInv, Invalidated
  PROVE  /\ view' \in [held : BOOLEAN, stale : BOOLEAN, lacks : SUBSET viewed.affected]
         /\ view'.stale
         /\ load' \in {"none", "asked", "answered"} /\ loading' \in SUBSET viewed.affected
         /\ load' # "answered" => loading' = {}
BY ViewTypes DEF Invalidated

LEMMA CacheEvent ==
  ASSUME CInv, NEW type, EventArrives(type)
  PROVE  CInv'
<1>1. UNCHANGED <<mode, viewed, onScreen, edit, edits, cacheFaults>> /\ Invalidated
  BY DEF EventArrives
<1> QED
  BY <1>1, ViewTypes, InvalidatedTypes, CacheStep

LEMMA EditTypes ==
  ASSUME CInv
  PROVE  /\ edit \in [EditSlots -> [hook : Related \cup {NoEdit}, pc : {"idle", "sent", "done"},
                                   lacks : SUBSET viewed.affected]]
         /\ \A e \in EditSlots :
              edit[e] \in [hook : Related \cup {NoEdit}, pc : {"idle", "sent", "done"},
                           lacks : SUBSET viewed.affected]
BY DEF CInv, CacheTypes

LEMMA CacheSubmit ==
  ASSUME CInv, NEW h \in Related, Submit(h)
  PROVE  CInv'
<1> DEFINE idle == {e \in EditSlots : edit[e].pc = "idle"}
           e == CHOOSE x \in idle : TRUE
           q == [hook |-> h, pc |-> "sent", lacks |-> {}]
<1>1. /\ e \in idle /\ edits < MaxEdits /\ edits' = edits + 1 /\ edit' = [edit EXCEPT ![e] = q]
      /\ UNCHANGED <<mode, viewed, onScreen, view, load, loading, cacheFaults, unheard, absorbed>>
  BY DEF Submit
<1>2. e \in EditSlots /\ edit[e].pc = "idle"
  BY <1>1
<1>3. q \in [hook : Related \cup {NoEdit}, pc : {"idle", "sent", "done"},
             lacks : SUBSET viewed.affected] /\ q.pc = "sent"
  OBVIOUS
<1> HIDE DEF e, q, idle
<1>4. edits' \in 0 .. MaxEdits
  BY <1>1, ViewTypes, PortalCacheConstants
<1>5. edit' \in [EditSlots -> [hook : Related \cup {NoEdit}, pc : {"idle", "sent", "done"},
                               lacks : SUBSET viewed.affected]]
  BY <1>1, <1>3, EditTypes
<1>6. CacheTypes'
  BY <1>1, <1>4, <1>5, ViewTypes, SameQuery DEF CacheTypes
<1>7. \A x : Unanswered(x, EditSlots) => Unanswered(x, EditSlots)'
  BY <1>1, <1>2, EditTypes DEF Unanswered
<1>8. \A x \in view'.lacks \cup loading' : Covered(x)'
  BY <1>1, <1>7, SameQuery DEF CInv, Covered
<1> QED
  BY <1>1, <1>6, <1>8, SameQuery DEF CInv

LEMMA CacheTakeEffect ==
  ASSUME CInv, NEW e \in EditSlots, TakeEffect(e)
  PROVE  CInv'
<1> DEFINE h == edit[e].hook
           missed == {h} \cap viewed.affected
           q(f) == IF f = e THEN [edit[e] EXCEPT !.pc = "done"]
                   ELSE IF edit[f].pc = "done"
                   THEN [edit[f] EXCEPT !.lacks = edit[f].lacks \cup missed] ELSE edit[f]
<1>1. /\ edit[e].pc = "sent"
      /\ view' = [view EXCEPT !.lacks = IF view.held THEN view.lacks \cup missed ELSE view.lacks]
      /\ loading' = IF load = "answered" THEN loading \cup missed ELSE loading
      /\ edit' = [f \in EditSlots |-> q(f)]
      /\ unheard' = unheard \ missed /\ absorbed' = absorbed \ missed
      /\ UNCHANGED <<mode, viewed, onScreen, load, edits, cacheFaults>>
  BY DEF TakeEffect
<1>2. missed \in SUBSET viewed.affected /\ \A x \in missed : x = h
  OBVIOUS
<1>3. ASSUME NEW f \in EditSlots
      PROVE  /\ q(f) \in [hook : Related \cup {NoEdit}, pc : {"idle", "sent", "done"},
                          lacks : SUBSET viewed.affected]
             /\ q(f).hook = edit[f].hook /\ (edit[f].pc = "done" => q(f).pc = "done")
             /\ f = e => q(f).pc = "done"
  BY EditTypes
<1> HIDE DEF q, missed
<1>4. /\ view' \in [held : BOOLEAN, stale : BOOLEAN, lacks : SUBSET viewed.affected]
      /\ view'.stale = view.stale
      /\ view'.lacks \subseteq view.lacks \cup missed
  BY <1>1, <1>2, ViewTypes
<1>5. /\ loading' \in SUBSET viewed.affected /\ loading' \subseteq loading \cup missed
      /\ load' # "answered" => loading' = {}
  BY <1>1, <1>2, ViewTypes
<1>6. CacheTypes'
  <2>1. edit' \in [EditSlots -> [hook : Related \cup {NoEdit}, pc : {"idle", "sent", "done"},
                                lacks : SUBSET viewed.affected]]
    BY <1>1, <1>3
  <2>2. viewed' = viewed /\ Related' = Related
    BY <1>1, SameQuery
  <2> QED
    BY <1>1, <1>4, <1>5, <2>1, <2>2, ViewTypes DEF CacheTypes
<1>7. \A x : Unanswered(x, EditSlots) => Unanswered(x, EditSlots)'
  BY <1>1, <1>3 DEF Unanswered
<1>8. \A x \in missed : Unanswered(x, EditSlots)'
  BY <1>1, <1>2, <1>3 DEF Unanswered
<1>9. \A x \in view'.lacks \cup loading' : Covered(x)'
  <2>1. ASSUME NEW x \in view.lacks \cup loading, x \notin missed
        PROVE  Covered(x)'
    <3>1. Covered(x)
      BY DEF CInv
    <3> QED
      BY <1>1, <1>4, <1>7, <2>1, <3>1, SameQuery DEF Covered
  <2>2. \A x \in missed : Covered(x)'
    BY <1>8 DEF Covered
  <2>3. view'.lacks \cup loading' \subseteq view.lacks \cup loading \cup missed
    BY <1>4, <1>5
  <2> QED
    BY <2>1, <2>2, <2>3
<1> QED
  BY <1>1, <1>5, <1>6, <1>9, SameQuery DEF CInv

\* A slot that is freed: the others have not changed.
LEMMA FreeTypes ==
  ASSUME CInv, NEW e \in EditSlots, Free(e)
  PROVE  /\ edit' \in [EditSlots -> [hook : Related \cup {NoEdit}, pc : {"idle", "sent", "done"},
                                    lacks : SUBSET viewed.affected]]
         /\ \A h : Unanswered(h, EditSlots)' <=> Unanswered(h, EditSlots \ {e})
         /\ \A h : Unanswered(h, EditSlots) =>
              Unanswered(h, EditSlots \ {e}) \/ (edit[e].hook = h /\ edit[e].pc = "done")
<1> DEFINE q == [hook |-> NoEdit, pc |-> "idle", lacks |-> {}]
<1>1. /\ q \in [hook : Related \cup {NoEdit}, pc : {"idle", "sent", "done"},
                lacks : SUBSET viewed.affected] /\ q.pc = "idle"
  OBVIOUS
<1>2. edit' = [edit EXCEPT ![e] = q]
  BY DEF Free
<1> HIDE DEF q
<1>3. edit'[e] = q /\ \A f \in EditSlots : f # e => edit'[f] = edit[f]
  BY <1>2, EditTypes
<1>4. edit' \in [EditSlots -> [hook : Related \cup {NoEdit}, pc : {"idle", "sent", "done"},
                               lacks : SUBSET viewed.affected]]
  BY <1>1, <1>2, EditTypes
<1>5. \A h : Unanswered(h, EditSlots)' <=> Unanswered(h, EditSlots \ {e})
  BY <1>1, <1>3 DEF Unanswered
<1>6. \A h : Unanswered(h, EditSlots) =>
              Unanswered(h, EditSlots \ {e}) \/ (edit[e].hook = h /\ edit[e].pc = "done")
  BY DEF Unanswered
<1> QED
  BY <1>4, <1>5, <1>6

\* A step that frees a slot, and gives a reason for all that is lacked after it.
LEMMA CacheFree ==
  ASSUME CInv, NEW e \in EditSlots, Free(e), UNCHANGED <<mode, viewed, onScreen, edits>>,
         view' \in [held : BOOLEAN, stale : BOOLEAN, lacks : SUBSET viewed.affected],
         load' \in {"none", "asked", "answered"}, loading' \in SUBSET viewed.affected,
         cacheFaults' \in 0 .. MaxCacheFaults,
         load' # "answered" => loading' = {},
         \A h \in view'.lacks \cup loading' :
           \/ view'.stale \/ h \in unheard' \/ h \in absorbed'
           \/ Unanswered(h, EditSlots \ {e}) \/ Excused(h)
  PROVE  CInv'
<1>1. CacheTypes'
  BY ViewTypes, FreeTypes, SameQuery DEF CacheTypes
<1>2. \A h \in view'.lacks \cup loading' : Covered(h)'
  BY FreeTypes, SameQuery DEF Covered
<1> QED
  BY <1>1, <1>2, SameQuery DEF CInv

LEMMA CacheEditSucceeds ==
  ASSUME CInv, NEW e \in EditSlots, EditSucceeds(e)
  PROVE  CInv'
<1> DEFINE h == edit[e].hook
<1>1. Free(e) /\ edit[e].pc = "done" /\ UNCHANGED <<mode, viewed, onScreen, edits, cacheFaults>>
  BY DEF EditSucceeds
<1>2. CASE h \in viewed.refreshed
  <2>1. Invalidated
    BY <1>2 DEF EditSucceeds
  <2> QED
    BY <1>1, <2>1, ViewTypes, InvalidatedTypes, CacheFree
<1>3. CASE h \notin viewed.refreshed /\ h \in viewed.replaced
  <2> DEFINE v == [held |-> TRUE, stale |-> FALSE, lacks |-> edit[e].lacks]
  <2>1. /\ view' = v /\ UNCHANGED <<load, loading>>
        /\ absorbed' = {x \in edit[e].lacks \cup loading : ~ Unanswered(x, EditSlots \ {e})}
    BY <1>3 DEF EditSucceeds, Set, Showing
  <2>2. /\ v \in [held : BOOLEAN, stale : BOOLEAN, lacks : SUBSET viewed.affected]
        /\ v.lacks = edit[e].lacks
    BY EditTypes
  <2> HIDE DEF v
  <2> QED
    BY <1>1, <2>1, <2>2, ViewTypes, CacheFree
<1>4. CASE h \notin viewed.refreshed /\ h \notin viewed.replaced
  <2>1. UNCHANGED <<view, load, loading, unheard, absorbed>>
    BY <1>4 DEF EditSucceeds
  <2>2. \A x \in viewed.affected : x = h => Excused(x)
    BY <1>4 DEF CInv, Accounted
  <2>3. \A x \in view.lacks \cup loading :
          \/ view.stale \/ x \in unheard \/ x \in absorbed
          \/ Unanswered(x, EditSlots \ {e}) \/ Excused(x)
    BY <1>1, <2>2, ViewTypes, FreeTypes
  <2> QED
    BY <1>1, <2>1, <2>3, ViewTypes, CacheFree
<1> QED
  BY <1>2, <1>3, <1>4

LEMMA CacheEditFails ==
  ASSUME CInv, NEW e \in EditSlots, EditFails(e)
  PROVE  CInv'
<1>1. /\ Free(e) /\ UNCHANGED <<mode, viewed, onScreen, view, load, loading, edits, absorbed>>
      /\ cacheFaults' \in 0 .. MaxCacheFaults
      /\ unheard \subseteq unheard'
      /\ edit[e].pc = "done" => {edit[e].hook} \cap (view.lacks \cup loading) \subseteq unheard'
  BY CacheFaultType DEF EditFails
<1>2. \A x \in view.lacks \cup loading :
        \/ view.stale \/ x \in unheard' \/ x \in absorbed
        \/ Unanswered(x, EditSlots \ {e}) \/ Excused(x)
  BY <1>1, ViewTypes, FreeTypes
<1> QED
  BY <1>1, <1>2, ViewTypes, CacheFree

LEMMA CInvStep ==
  ASSUME CInv, [PortalCacheNext]_cacheVars
  PROVE  CInv'
<1>1. CASE UNCHANGED cacheVars
  BY <1>1, SameQuery DEF cacheVars, CInv, CacheTypes, Covered, Unanswered
<1> QED
  BY <1>1, CacheFetch, CacheBlank, CacheAnswers, CacheSubmit, CacheTakeEffect, CacheEditSucceeds,
     CacheEditFails, CacheEvent DEF PortalCacheNext

\* The cache keeps its types, and what the view or the answer on its way to it lacks is accounted
\* for, whatever fails, comes late or is lost.
THEOREM CacheInductive == PortalCacheSpec => []CInv
<1>1. PortalCacheInit => CInv
  BY CInvInit
<1>2. CInv /\ [PortalCacheNext]_cacheVars => CInv'
  BY CInvStep
<1> QED
  BY <1>1, <1>2, PTL DEF PortalCacheSpec

\* The edits of the user show, for any queries, edits and events whose hooks account for what they
\* change: a query that lacks one is asked for again, unless the edit has no answer or it was lost,
\* an answer from before the edit came after the refresh, or the query is one the hooks leave
\* behind (the onSuccess of the hooks of src/hooks, the query client of providers.tsx).
THEOREM EditsShow == PortalCacheSpec => []OwnEditsShow
<1>1. CInv => OwnEditsShow
  BY DEF CInv, OwnEditsShow, Covered, Excused
<1> QED
  BY <1>1, CacheInductive, PTL

\* Every variable of the cache keeps its type.
THEOREM CacheTypeCorrect == PortalCacheSpec => []PortalCacheTypeOK
<1>1. CInv => PortalCacheTypeOK
  <2> SUFFICES ASSUME CInv
               PROVE  PortalCacheTypeOK
    OBVIOUS
  <2>1. \A e \in EditSlots : edit[e].hook \in Related \cup {NoEdit}
                             /\ edit[e].pc \in {"idle", "sent", "done"}
    BY EditTypes
  <2>2. view.lacks \cup loading \subseteq Related
    BY ViewTypes DEF Related
  <2> QED
    BY <2>1, <2>2, ViewTypes DEF PortalCacheTypeOK
<1> QED
  BY <1>1, CacheInductive, PTL

-----------------------------------------------------------------------------
(* Pages                                                                   *)

Staff  == {"SUPER_ADMIN", "ORGANIZATION_ADMIN", "LOCATION_MANAGER"}
Office == {"SUPER_ADMIN", "ORGANIZATION_ADMIN"}

StaffPermissions ==
  {"location:read", "server:read", "server:command", "zone:assign", "music:read",
   "playlist:read", "schedule:read", "schedule:write", "sync:trigger", "users:manage",
   "logs:read", "prayer:read"}
OfficePermissions ==
  {"org:read", "location:write", "server:write", "server:pair", "music:upload", "music:delete",
   "playlist:write", "prayer:manage"}
SuperPermissions == {"org:write", "zone:override", "server:forget"}

LEMMA RolesAre == PortalRoles = Staff \cup {"VIEWER"} /\ DOMAIN MATRIX = Staff \cup {"VIEWER"}
BY DEF PortalRoles, MATRIX, Staff

\* What each role has, in the portal ...
LEMMA Has ==
  /\ MATRIX["VIEWER"] = {"zone:read", "zone:control"}
  /\ MATRIX["LOCATION_MANAGER"] = StaffPermissions \cup {"zone:read", "zone:control"}
  /\ MATRIX["ORGANIZATION_ADMIN"]
       = StaffPermissions \cup OfficePermissions \cup {"zone:read", "zone:control"}
  /\ MATRIX["SUPER_ADMIN"]
       = StaffPermissions \cup OfficePermissions \cup SuperPermissions
           \cup {"zone:read", "zone:control"}
BY DEF MATRIX, StaffPermissions, OfficePermissions, SuperPermissions

\* ... is what it has in the backend: the matrix of the portal and its mirror in the backend,
\* which are written apart, are the same (auth/rbac.ts and backend/src/lib/rbac.ts).
THEOREM MatricesAgree == MATRIX = BackendMATRIX
<1> DEFINE org    == {"org:read", "location:read", "location:write"}
           fleet  == {"server:read", "server:write", "server:pair", "server:command"}
           zone   == {"zone:read", "zone:control", "zone:assign"}
           music  == {"music:read", "music:upload", "music:delete"}
           lists  == {"playlist:read", "playlist:write", "schedule:read", "schedule:write"}
           others == {"sync:trigger", "users:manage", "logs:read", "prayer:read", "prayer:manage"}
           Admin  == UNION {org, fleet, zone, music, lists, others}
<1>1. Admin = StaffPermissions \cup OfficePermissions \cup {"zone:read", "zone:control"}
  <2>1. Admin = org \cup fleet \cup zone \cup music \cup lists \cup others
    OBVIOUS
  <2> QED
    BY <2>1 DEF StaffPermissions, OfficePermissions
<1>2. BackendMATRIX =
        [SUPER_ADMIN        |-> Admin \cup {"org:write", "server:forget", "zone:override"},
         ORGANIZATION_ADMIN |-> Admin,
         LOCATION_MANAGER   |-> Admin \ {"org:read", "location:write", "server:write",
                                         "server:pair", "music:upload", "music:delete",
                                         "playlist:write", "prayer:manage"},
         VIEWER             |-> {"zone:read", "zone:control"}]
  BY DEF BackendMATRIX
<1> HIDE DEF Admin
<1>3. Admin \cup {"org:write", "server:forget", "zone:override"} = MATRIX["SUPER_ADMIN"]
  BY <1>1, Has DEF SuperPermissions
<1>4. Admin = MATRIX["ORGANIZATION_ADMIN"]
  BY <1>1, Has
<1>5. Admin \ {"org:read", "location:write", "server:write", "server:pair", "music:upload",
               "music:delete", "playlist:write", "prayer:manage"} = MATRIX["LOCATION_MANAGER"]
  BY <1>1, Has DEF OfficePermissions, StaffPermissions
<1>6. MATRIX = [SUPER_ADMIN |-> MATRIX["SUPER_ADMIN"],
                ORGANIZATION_ADMIN |-> MATRIX["ORGANIZATION_ADMIN"],
                LOCATION_MANAGER |-> MATRIX["LOCATION_MANAGER"], VIEWER |-> MATRIX["VIEWER"]]
  BY DEF MATRIX
<1> QED
  BY <1>2, <1>3, <1>4, <1>5, <1>6, Has

OfficeOps ==
  {"useOrganizations", "useOrganization", "useCreateLocation", "useUpdateLocation",
   "useRegisterServer", "useDeleteServer", "useCreatePlaylist", "useDuplicatePlaylist",
   "useAssignPlaylist", "useUpdatePlaylistTracks", "useRemoveTrackFromPlaylist",
   "useDeletePlaylist", "useCreateMusicFolder", "useRenameMusicFolder", "useDeleteMusicFolder",
   "uploadAll", "useUpdateTrack", "useDeleteTrack", "useUpdatePrayerConfig"}
SuperOps == {"useCreateOrganization", "useForgetServer", "FORGET_SERVER"}
EveryonesOps == {"useZones", "useZonePlaylists", "useEqualizerPresets", "useZoneControls"}

LEMMA DemandTiers ==
  \A d \in Demands :
    \/ d[1] \in EveryonesOps /\ d[2] \in {"zone:read", "zone:control"}
    \/ d[1] \in OfficeOps /\ d[2] \in OfficePermissions
    \/ d[1] \in SuperOps /\ d[2] \in SuperPermissions
    \/ d[1] \notin EveryonesOps \cup OfficeOps \cup SuperOps /\ d[2] \in StaffPermissions
<1> DEFINE T(d) == \/ d[1] \in EveryonesOps /\ d[2] \in {"zone:read", "zone:control"}
                   \/ d[1] \in OfficeOps /\ d[2] \in OfficePermissions
                   \/ d[1] \in SuperOps /\ d[2] \in SuperPermissions
                   \/ d[1] \notin EveryonesOps \cup OfficeOps \cup SuperOps
                        /\ d[2] \in StaffPermissions
<1> USE DEF EveryonesOps, OfficeOps, SuperOps, StaffPermissions, OfficePermissions,
            SuperPermissions, Each
<1>1. \A d \in OrganizationDemands : T(d)
  BY DEF OrganizationDemands
<1>2. \A d \in LocationDemands : T(d)
  BY DEF LocationDemands
<1>3. \A d \in ServerDemands : T(d)
  BY DEF ServerDemands
<1>4. \A d \in CommandDemands : T(d)
  BY DEF CommandDemands
<1>5. \A d \in ZoneDemands : T(d)
  BY DEF ZoneDemands
<1>6. \A d \in PlaylistDemands : T(d)
  BY DEF PlaylistDemands
<1>7. \A d \in MusicDemands : T(d)
  BY DEF MusicDemands
<1>8. \A d \in ScheduleDemands : T(d)
  BY DEF ScheduleDemands
<1>9. \A d \in SyncDemands \cup UserDemands \cup DashboardDemands : T(d)
  BY DEF SyncDemands, UserDemands, DashboardDemands
<1>10. \A d \in MonitoringDemands : T(d)
  BY DEF MonitoringDemands
<1>11. \A d \in PresetDemands \cup PrayerDemands : T(d)
  BY DEF PresetDemands, PrayerDemands
<1> HIDE DEF T
<1>12. \A d \in Demands : T(d)
  BY <1>1, <1>2, <1>3, <1>4, <1>5, <1>6, <1>7, <1>8, <1>9, <1>10, <1>11 DEF Demands
<1> QED
  BY <1>12 DEF T

LEMMA WhoMay ==
  ASSUME NEW op
  PROVE  /\ Permits("SUPER_ADMIN", op)
         /\ op \notin SuperOps => Permits("ORGANIZATION_ADMIN", op)
         /\ op \notin SuperOps \cup OfficeOps => Permits("LOCATION_MANAGER", op)
         /\ op \in EveryonesOps => Permits("VIEWER", op)
<1>1. EveryonesOps \cap OfficeOps = {} /\ EveryonesOps \cap SuperOps = {}
  BY DEF EveryonesOps, OfficeOps, SuperOps
<1>2. \A d \in Demands :
        \/ d[1] \in EveryonesOps /\ d[2] \in {"zone:read", "zone:control"}
        \/ d[1] \in OfficeOps /\ d[2] \in OfficePermissions
        \/ d[1] \in SuperOps /\ d[2] \in SuperPermissions
        \/ d[1] \notin EveryonesOps \cup OfficeOps \cup SuperOps /\ d[2] \in StaffPermissions
  BY DemandTiers
<1> QED
  BY <1>1, <1>2, Has, MatricesAgree DEF Permits

-----------------------------------------------------------------------------
IsUse(u) == u = [roles |-> u.roles, data |-> u.data, op |-> u.op]

\* Of the roles, who is shown a use may have it, but for the exceptions.
Suits(roles, exc, uses) ==
  /\ \A u \in uses : IsUse(u)
  /\ \A u \in uses : \A r \in roles \cap u.roles : Permits(r, u.op) \/ <<r, u.op>> \in exc

LEMMA FitsUses ==
  ASSUME NEW roles, NEW exc, NEW ops,
         \A r \in roles, op \in ops : Permits(r, op) \/ <<r, op>> \in exc
  PROVE  Suits(roles, exc, Uses(ops))
BY DEF Suits, Uses, IsUse, PortalRoles

LEMMA FitsBoth ==
  ASSUME NEW roles, NEW exc, NEW A, NEW B, Suits(roles, exc, A), Suits(roles, exc, B)
  PROVE  Suits(roles, exc, A \cup B)
BY DEF Suits

LEMMA FitsAll ==
  ASSUME NEW roles, NEW exc, NEW S, \A A \in S : Suits(roles, exc, A)
  PROVE  Suits(roles, exc, UNION S)
BY DEF Suits

LEMMA FitsFewer ==
  ASSUME NEW roles, NEW exc, NEW A, Suits(roles, exc, A),
         NEW fewer \in SUBSET roles, NEW more, exc \subseteq more
  PROVE  Suits(fewer, more, A)
BY DEF Suits

LEMMA FitsFor ==
  ASSUME NEW roles, NEW exc, NEW A, NEW R, Suits(roles \cap R, exc, A)
  PROVE  Suits(roles, exc, For(R, A))
<1>1. \A u \in A : IsUse(u)
  BY DEF Suits
<1>2. ASSUME NEW u \in A
      PROVE  /\ IsUse([u EXCEPT !.roles = @ \cap R])
             /\ \A r \in roles \cap [u EXCEPT !.roles = @ \cap R].roles :
                  Permits(r, u.op) \/ <<r, u.op>> \in exc
             /\ [u EXCEPT !.roles = @ \cap R].op = u.op
  BY <1>1, <1>2 DEF Suits, IsUse
<1> QED
  BY <1>2 DEF Suits, For

LEMMA FitsFrom ==
  ASSUME NEW roles, NEW exc, NEW A, NEW D, Suits(roles, exc, A)
  PROVE  Suits(roles, exc, From(D, A))
<1>1. \A u \in A : IsUse(u)
  BY DEF Suits
<1>2. ASSUME NEW u \in A
      PROVE  /\ IsUse([u EXCEPT !.data = @ \cup D])
             /\ [u EXCEPT !.data = @ \cup D].roles = u.roles
             /\ [u EXCEPT !.data = @ \cup D].op = u.op
  BY <1>1, <1>2 DEF IsUse
<1> QED
  BY <1>2 DEF Suits, From

StaffOps ==
  {"useCommands", "useLocations", "useLocation", "useServers", "useServer", "useServerLogs",
   "useSyncConfig", "useSendCommand", "useSetZonePrayerParticipation", "useAssignZonePlaylist",
   "useRemoveTrackFromZone", "useRestoreTrackForZone", "useDeleteZone", "usePlaylists",
   "usePlaylist", "useTracks", "useMusicFolders", "useSchedules", "useCreateSchedule",
   "useUpdateSchedule", "useToggleSchedule", "useDeleteSchedule", "useSyncStates",
   "useQueueSync", "useRetrySync", "useUsers", "useInviteUser", "useDeleteUser",
   "useActivityFeed", "useAlerts", "useLogs", "useAcknowledgeAlert", "useDashboardStats",
   "useSaveEqualizerPreset", "useDeleteEqualizerPreset", "usePrayerConfig",
   "useTodayPrayerTimes"} \cup EveryonesOps

LEMMA TiersApart ==
  /\ \A op \in StaffOps : op \notin SuperOps \cup OfficeOps
  /\ \A op \in OfficeOps : op \notin SuperOps
BY DEF StaffOps, EveryonesOps, OfficeOps, SuperOps

\* By the demands, uses of the queries and changes of a tier fit the roles of that tier.
LEMMA StaffUses ==
  ASSUME NEW exc, NEW ops \in SUBSET StaffOps
  PROVE  Suits(Staff, exc, Uses(ops))
<1>1. \A r \in Staff, op \in ops : Permits(r, op)
  BY WhoMay, TiersApart DEF Staff
<1> QED
  BY <1>1, FitsUses

LEMMA OfficeUses ==
  ASSUME NEW exc, NEW ops \in SUBSET (StaffOps \cup OfficeOps)
  PROVE  Suits(Office, exc, Uses(ops))
<1>1. \A r \in Office, op \in ops : Permits(r, op)
  BY WhoMay, TiersApart DEF Office
<1> QED
  BY <1>1, FitsUses

LEMMA SuperUses ==
  ASSUME NEW exc, NEW ops
  PROVE  Suits({"SUPER_ADMIN"}, exc, Uses(ops))
BY WhoMay, FitsUses

ZoneOps == {"usePrayerConfig", "usePlaylists", "useTracks", "useSaveEqualizerPreset",
            "useDeleteEqualizerPreset", "useTodayPrayerTimes", "useRemoveTrackFromZone",
            "useRestoreTrackForZone"}
ZoneExc == {"VIEWER"} \X ZoneOps

LEMMA EveryonesUses ==
  ASSUME NEW ops \in SUBSET (EveryonesOps \cup ZoneOps)
  PROVE  Suits(PortalRoles, ZoneExc, Uses(ops))
<1>1. \A op \in EveryonesOps \cup ZoneOps : op \in StaffOps
  BY DEF EveryonesOps, ZoneOps, StaffOps
<1>2. \A r \in PortalRoles, op \in ops : Permits(r, op) \/ <<r, op>> \in ZoneExc
  BY <1>1, WhoMay, TiersApart, RolesAre DEF ZoneExc, Staff
<1> QED
  BY <1>2, FitsUses

\* A gate of a tier lets the roles of that tier through.
LEMMA StaffGate ==
  ASSUME NEW roles, NEW exc, NEW A, NEW P \in SUBSET (StaffPermissions \cup OfficePermissions),
         Suits(Staff, exc, A)
  PROVE  Suits(roles, exc, RoleGate(P, A))
<1>1. Holders(P) \subseteq Staff
  BY Has, RolesAre DEF Holders, StaffPermissions, OfficePermissions
<1>2. Suits(roles \cap Holders(P), exc, A)
  BY <1>1, FitsFewer
<1> QED
  BY <1>2, FitsFor DEF RoleGate

LEMMA OfficeGate ==
  ASSUME NEW roles, NEW exc, NEW A, NEW P \in SUBSET OfficePermissions, Suits(Office, exc, A)
  PROVE  Suits(roles, exc, RoleGate(P, A))
<1>1. Holders(P) \subseteq Office
  BY Has, RolesAre DEF Holders, StaffPermissions, OfficePermissions, Staff, Office
<1>2. Suits(roles \cap Holders(P), exc, A)
  BY <1>1, FitsFewer
<1> QED
  BY <1>2, FitsFor DEF RoleGate

LEMMA SuperGate ==
  ASSUME NEW roles, NEW exc, NEW A, NEW P \in SUBSET SuperPermissions,
         Suits({"SUPER_ADMIN"}, exc, A)
  PROVE  Suits(roles, exc, RoleGate(P, A))
<1>1. Holders(P) \subseteq {"SUPER_ADMIN"}
  BY Has, RolesAre
     DEF Holders, StaffPermissions, OfficePermissions, SuperPermissions, Staff
<1>2. Suits(roles \cap Holders(P), exc, A)
  BY <1>1, FitsFewer
<1> QED
  BY <1>2, FitsFor DEF RoleGate

LEMMA AnyGate ==
  ASSUME NEW roles, NEW exc, NEW A, NEW P, Suits(roles, exc, A)
  PROVE  Suits(roles, exc, RoleGate(P, A))
<1>1. Suits(roles \cap Holders(P), exc, A)
  BY FitsFewer
<1> QED
  BY <1>1, FitsFor DEF RoleGate

-----------------------------------------------------------------------------
(* The zone card and the page of zones, which everyone may open *)

LEMMA ScheduleFormFits == \A exc : Suits(Staff, exc, ScheduleFormDialog)
BY StaffUses DEF ScheduleFormDialog, StaffOps, EveryonesOps

LEMMA ZoneScheduleFits == \A exc : Suits(Staff, exc, ZoneScheduleDialog)
<1> TAKE exc
<1> DEFINE delete == From({"useSchedules"}, Uses({"useDeleteSchedule"}))
<1>1. Suits(Staff, exc, Uses({"useSchedules", "usePlaylists"}))
  BY StaffUses DEF StaffOps, EveryonesOps
<1>2. Suits(Staff, exc, delete)
  <2>1. Suits(Staff, exc, Uses({"useDeleteSchedule"}))
    BY StaffUses DEF StaffOps, EveryonesOps
  <2> QED
    BY <2>1, FitsFrom
<1> HIDE DEF delete
<1>3. Suits(Staff, exc, ScheduleFormDialog \cup delete)
  BY <1>2, ScheduleFormFits, FitsBoth
<1>4. Suits(Staff, exc, RoleGate({"schedule:write", "zone:assign"}, ScheduleFormDialog \cup delete))
  BY <1>3, AnyGate
<1> QED
  BY <1>1, <1>4, FitsBoth DEF ZoneScheduleDialog, delete

LEMMA ZonePlaylistFits == Suits(PortalRoles, ZoneExc, ZonePlaylistDialog)
<1>1. /\ Suits(PortalRoles, ZoneExc, Uses({"usePlaylists", "useTracks"}))
      /\ Suits(PortalRoles, ZoneExc, Uses({"useRemoveTrackFromZone", "useRestoreTrackForZone"}))
  BY EveryonesUses DEF EveryonesOps, ZoneOps
<1>2. Suits(PortalRoles, ZoneExc, From({"usePlaylists", "useTracks"},
             Uses({"useRemoveTrackFromZone", "useRestoreTrackForZone"})))
  BY <1>1, FitsFrom
<1>3. Suits(PortalRoles, ZoneExc, RoleGate({"zone:control"}, From({"usePlaylists", "useTracks"},
             Uses({"useRemoveTrackFromZone", "useRestoreTrackForZone"}))))
  BY <1>2, AnyGate
<1> QED
  BY <1>1, <1>3, FitsBoth DEF ZonePlaylistDialog

LEMMA ZoneQueriesFit == Suits(PortalRoles, ZoneExc, ZoneCardQueries)
<1>1. Suits(PortalRoles, ZoneExc, Uses({"useZonePlaylists"}))
  BY EveryonesUses DEF EveryonesOps
<1>2. Suits(Staff, ZoneExc, Uses({"useTracks"})) /\ Suits(Staff, ZoneExc, Uses({"useSchedules"}))
  BY StaffUses DEF StaffOps, EveryonesOps
<1>3. /\ Suits(PortalRoles, ZoneExc, RoleGate({"music:read"}, Uses({"useTracks"})))
      /\ Suits(PortalRoles, ZoneExc, RoleGate({"schedule:read"}, Uses({"useSchedules"})))
  BY <1>2, StaffGate DEF StaffPermissions
<1> QED
  BY <1>1, <1>3, FitsBoth DEF ZoneCardQueries

LEMMA EqualizerFits == Suits(PortalRoles, ZoneExc, EqualizerControls \cup EqualizerPresets)
<1>1. /\ Suits(PortalRoles, ZoneExc, Uses({"useEqualizerPresets", "useZoneControls"}))
      /\ Suits(PortalRoles, ZoneExc, Uses({"useSaveEqualizerPreset"}))
      /\ Suits(PortalRoles, ZoneExc, Uses({"useDeleteEqualizerPreset"}))
  BY EveryonesUses DEF EveryonesOps, ZoneOps
<1>2. Suits(PortalRoles, ZoneExc,
           From({"useEqualizerPresets"}, Uses({"useDeleteEqualizerPreset"})))
  BY <1>1, FitsFrom
<1>3. Suits(PortalRoles, ZoneExc, EqualizerPresets)
  BY <1>1, <1>2, FitsBoth DEF EqualizerPresets
<1> QED
  BY <1>1, <1>3, FitsBoth DEF EqualizerControls

LEMMA ZoneCardFits == Suits(PortalRoles, ZoneExc, ZoneCard)
<1> DEFINE playlists == From({"useZonePlaylists"}, ZonePlaylistDialog)
           remove    == RoleGate({"zone:assign"}, Uses({"useDeleteZone"}))
           equalizer == RoleGate({"zone:control"}, EqualizerControls \cup EqualizerPresets)
           put       == From({"useZonePlaylists"}, Uses({"useAssignZonePlaylist"}))
           assign    == RoleGate({"zone:assign"}, put)
           schedule  == RoleGate({"schedule:read"}, ZoneScheduleDialog)
           prayer    == RoleGate({"prayer:manage"}, Uses({"useSetZonePrayerParticipation"}))
<1>1. Suits(PortalRoles, ZoneExc, ZoneTransport)
  <2>1. Suits(PortalRoles, ZoneExc, Uses({"useZoneControls"}))
    BY EveryonesUses DEF EveryonesOps
  <2> QED
    BY <2>1, AnyGate DEF ZoneTransport
<1>2. Suits(PortalRoles, ZoneExc, playlists)
  BY ZonePlaylistFits, FitsFrom
<1>3. /\ Suits(Staff, ZoneExc, Uses({"useDeleteZone"}))
      /\ Suits(Staff, ZoneExc, Uses({"useAssignZonePlaylist"}))
      /\ Suits(Staff, ZoneExc, Uses({"useSetZonePrayerParticipation"}))
  BY StaffUses DEF StaffOps, EveryonesOps
<1>4. Suits(PortalRoles, ZoneExc, remove)
  BY <1>3, StaffGate DEF StaffPermissions
<1>5. Suits(PortalRoles, ZoneExc, equalizer)
  BY EqualizerFits, AnyGate
<1>6. Suits(PortalRoles, ZoneExc, assign)
  <2>1. Suits(Staff, ZoneExc, put)
    BY <1>3, FitsFrom
  <2> HIDE DEF put
  <2> QED
    BY <2>1, StaffGate DEF StaffPermissions
<1>7. Suits(PortalRoles, ZoneExc, schedule)
  BY ZoneScheduleFits, StaffGate DEF StaffPermissions
<1>8. Suits(PortalRoles, ZoneExc, prayer)
  BY <1>3, StaffGate DEF OfficePermissions
<1>9. ZoneCard = UNION {ZoneCardQueries, ZoneTransport, playlists, remove, equalizer, assign,
                        schedule, prayer}
  BY DEF ZoneCard
<1> HIDE DEF playlists, remove, equalizer, put, assign, schedule, prayer
<1> QED
  BY <1>1, <1>2, <1>4, <1>5, <1>6, <1>7, <1>8, <1>9, ZoneQueriesFit, FitsAll

LEMMA ZonesPageFits == Suits(PortalRoles, ZoneExc, ZonesPage)
<1> DEFINE times == From({"useLocations", "usePrayerConfig", "useZones"},
                         Uses({"useTodayPrayerTimes"}))
           cards == From({"useZones"}, ZoneCard)
<1>1. /\ Suits(Staff, ZoneExc, Uses({"useLocations"}))
      /\ Suits(Staff, ZoneExc, Uses({"useServers"}))
  BY StaffUses DEF StaffOps, EveryonesOps
<1>2. /\ Suits(PortalRoles, ZoneExc, RoleGate({"location:read"}, Uses({"useLocations"})))
      /\ Suits(PortalRoles, ZoneExc, RoleGate({"server:read"}, Uses({"useServers"})))
  BY <1>1, StaffGate DEF StaffPermissions
<1>3. /\ Suits(PortalRoles, ZoneExc, Uses({"useZones", "usePrayerConfig"}))
      /\ Suits(PortalRoles, ZoneExc, Uses({"useTodayPrayerTimes"}))
  BY EveryonesUses DEF EveryonesOps, ZoneOps
<1>4. Suits(PortalRoles, ZoneExc, times)
  BY <1>3, FitsFrom
<1>5. Suits(PortalRoles, ZoneExc, cards)
  BY ZoneCardFits, FitsFrom
<1>6. ZonesPage = RoleGate({"location:read"}, Uses({"useLocations"}))
                    \cup RoleGate({"server:read"}, Uses({"useServers"}))
                    \cup Uses({"useZones", "usePrayerConfig"}) \cup times \cup cards
  BY DEF ZonesPage
<1> HIDE DEF times, cards
<1> QED
  BY <1>2, <1>3, <1>4, <1>5, <1>6, FitsBoth

-----------------------------------------------------------------------------
(* The other pages, which viewers may not open *)

\* What is for everyone but a viewer's exceptions fits everyone else.
LEMMA FitsStaff ==
  ASSUME NEW exc, NEW A, Suits(PortalRoles, ZoneExc, A)
  PROVE  Suits(Staff, exc, A)
BY RolesAre DEF Suits, ZoneExc, Staff

\* Organizations are names to a manager.
LEMMA NameUses ==
  ASSUME NEW name \in {"useOrganizations", "useOrganization"},
         NEW ops \in SUBSET (StaffOps \cup {name})
  PROVE  Suits(Staff, {<<"LOCATION_MANAGER", name>>}, Uses(ops))
<1>1. name \notin SuperOps
  BY DEF SuperOps
<1>2. \A r \in Staff, op \in ops :
        Permits(r, op) \/ <<r, op>> \in {<<"LOCATION_MANAGER", name>>}
  BY <1>1, WhoMay, TiersApart DEF Staff
<1> QED
  BY <1>2, FitsUses

ForgetExc == {"LOCATION_MANAGER", "ORGANIZATION_ADMIN"} \X {"FORGET_SERVER"}

LEMMA CommandUses ==
  ASSUME NEW ops \in SUBSET (StaffOps \cup {"FORGET_SERVER"})
  PROVE  Suits(Staff, ForgetExc, Uses(ops))
<1>1. \A r \in Staff, op \in ops : Permits(r, op) \/ <<r, op>> \in ForgetExc
  BY WhoMay, TiersApart DEF Staff, ForgetExc
<1> QED
  BY <1>1, FitsUses

\* Ungated: everyone on the page; gated: the office.
LEMMA OfficeFits ==
  ASSUME NEW exc
  PROVE  /\ Suits(Office, exc, CreateLocationDialog) /\ Suits(Office, exc, EditLocationDialog)
         /\ Suits(Office, exc, RegisterServerDialog) /\ Suits(Office, exc, UploadMusicDialog)
         /\ Suits(Office, exc, FolderDialog) /\ Suits(Office, exc, DeleteFolderButton)
         /\ Suits(Office, exc, EditTrackDialog) /\ Suits(Office, exc, CreatePlaylistDialog)
         /\ Suits(Office, exc, AddTracksDialog) /\ Suits(Office, exc, AssignPlaylistDialog)
<1> USE DEF StaffOps, OfficeOps, EveryonesOps
<1>1. Suits(Office, exc, CreateLocationDialog) /\ Suits(Office, exc, EditLocationDialog)
  BY OfficeUses DEF CreateLocationDialog, EditLocationDialog
<1>2. Suits(Office, exc, RegisterServerDialog) /\ Suits(Office, exc, UploadMusicDialog)
  BY OfficeUses DEF RegisterServerDialog, UploadMusicDialog
<1>3. Suits(Office, exc, FolderDialog) /\ Suits(Office, exc, DeleteFolderButton)
  BY OfficeUses DEF FolderDialog, DeleteFolderButton
<1>4. Suits(Office, exc, EditTrackDialog) /\ Suits(Office, exc, AssignPlaylistDialog)
  BY OfficeUses DEF EditTrackDialog, AssignPlaylistDialog
<1>5. /\ Suits(Office, exc, TrackPicker)
      /\ Suits(Office, exc, Uses({"useOrganizations", "useCreatePlaylist"}))
      /\ Suits(Office, exc, Uses({"useUpdatePlaylistTracks"}))
  BY OfficeUses DEF TrackPicker
<1> QED
  BY <1>1, <1>2, <1>3, <1>4, <1>5, FitsBoth DEF CreatePlaylistDialog, AddTracksDialog

LEMMA StaffFits ==
  ASSUME NEW exc
  PROVE  /\ Suits(Staff, exc, AlertsPanel) /\ Suits(Staff, exc, ServerQuickActions)
         /\ Suits(Staff, exc, ServerSyncTable) /\ Suits(Staff, exc, AssignSyncDialog)
         /\ Suits(Staff, exc, QueueSyncDialog) /\ Suits(Staff, exc, Topbar)
<1> USE DEF StaffOps, EveryonesOps
<1>1. /\ Suits(Staff, exc, Uses({"useAcknowledgeAlert"}))
      /\ Suits(Staff, exc, Uses({"useRetrySync"}))
      /\ Suits(Staff, exc, Uses({"useSendCommand", "useSyncConfig"}))
      /\ Suits(Staff, exc, Uses({"useTracks"})) /\ Suits(Staff, exc, Uses({"useAlerts"}))
  BY StaffUses
<1>2. Suits(Staff, exc, AssignSyncDialog) /\ Suits(Staff, exc, QueueSyncDialog)
  BY StaffUses DEF AssignSyncDialog, QueueSyncDialog
<1>3. Suits(Staff, exc, AlertsPanel) /\ Suits(Staff, exc, ServerQuickActions)
  BY <1>1, FitsFrom, AnyGate DEF AlertsPanel, ServerQuickActions
<1>4. Suits(Staff, exc, From({"useSyncStates"}, Uses({"useRetrySync"})))
  BY <1>1, FitsFrom
<1>5. Suits(Staff, exc, ServerSyncTable) /\ Suits(Staff, exc, Topbar)
  BY <1>1, <1>4, FitsBoth, AnyGate DEF ServerSyncTable, Topbar
<1> QED
  BY <1>2, <1>3, <1>5

LEMMA OrganizationPagesFit ==
  Suits(Office, {}, OrganizationsPage) /\ Suits(Office, {}, OrganizationDetailPage)
<1>1. /\ Suits(Office, {}, Uses({"useOrganizations"}))
      /\ Suits(Office, {}, Uses({"useOrganization", "useLocations", "useServers"}))
  BY OfficeUses DEF StaffOps, OfficeOps
<1>2. Suits(Office, {}, RoleGate({"org:write"}, CreateOrganizationDialog))
  <2>1. Suits({"SUPER_ADMIN"}, {}, CreateOrganizationDialog)
    BY SuperUses DEF CreateOrganizationDialog
  <2> QED
    BY <2>1, SuperGate DEF SuperPermissions
<1>3. Suits(Office, {},
            RoleGate({"location:write"}, From({"useOrganization"}, CreateLocationDialog)))
  <2>1. Suits(Office, {}, From({"useOrganization"}, CreateLocationDialog))
    BY OfficeFits, FitsFrom
  <2> QED
    BY <2>1, AnyGate
<1> QED
  BY <1>1, <1>2, <1>3, FitsBoth DEF OrganizationsPage, OrganizationDetailPage

LEMMA LocationPagesFit ==
  /\ Suits(Staff, {<<"LOCATION_MANAGER", "useOrganizations">>}, LocationsPage)
  /\ Suits(Staff, {<<"LOCATION_MANAGER", "useOrganization">>}, LocationDetailPage)
<1> DEFINE exc == {<<"LOCATION_MANAGER", "useOrganization">>}
           names == {<<"LOCATION_MANAGER", "useOrganizations">>}
<1>1. /\ Suits(Staff, names, Uses({"useOrganizations", "useLocations"}))
      /\ Suits(Staff, exc, Uses({"useLocation", "useServers", "useZones"}))
      /\ Suits(Staff, exc, Uses({"useOrganization"}))
  BY NameUses DEF StaffOps, EveryonesOps
<1> HIDE DEF exc, names
<1>2. Suits(Staff, exc, From({"useLocation"}, Uses({"useOrganization"})))
  BY <1>1, FitsFrom
<1>3. Suits(Staff, names, RoleGate({"location:write"}, CreateLocationDialog))
  BY OfficeFits, OfficeGate DEF OfficePermissions
<1>4. Suits(Staff, exc, RoleGate({"location:write"}, From({"useLocation"}, EditLocationDialog)))
  <2>1. Suits(Office, exc, From({"useLocation"}, EditLocationDialog))
    BY OfficeFits, FitsFrom
  <2> QED
    BY <2>1, OfficeGate DEF OfficePermissions
<1>5. Suits(Staff, names, LocationsPage)
  BY <1>1, <1>3, FitsBoth DEF LocationsPage
<1>6. Suits(Staff, exc, LocationDetailPage)
  BY <1>1, <1>2, <1>4, FitsBoth DEF LocationDetailPage
<1> QED
  BY <1>5, <1>6 DEF exc, names

LEMMA ServerPagesFit ==
  /\ Suits(Staff, {}, ServersPage) /\ Suits(Staff, {}, ServerDetailPage \cup ServerDetailTabs)
<1> DEFINE remove == RoleGate({"server:write"}, Uses({"useDeleteServer"}))
           forget == RoleGate({"server:forget"}, Uses({"useForgetServer"}))
           actions == UNION {Uses({"useLocation"}), ServerQuickActions, remove, forget}
           cards == From({"useZones"}, ZoneCard)
<1>1. /\ Suits(Staff, {}, Uses({"useServers", "useLocations"}))
      /\ Suits(Staff, {}, Uses({"useLocation"}))
      /\ Suits(Staff, {}, Uses({"useServer", "useZones", "useServerLogs", "useCommands",
                               "useSyncStates", "useSchedules", "usePlaylists"}))
  BY StaffUses DEF StaffOps, EveryonesOps
<1>2. Suits(Staff, {}, RoleGate({"server:pair"}, RegisterServerDialog))
  BY OfficeFits, OfficeGate DEF OfficePermissions
<1>3. Suits(Staff, {}, remove)
  <2>1. Suits(Office, {}, Uses({"useDeleteServer"}))
    BY OfficeUses DEF OfficeOps
  <2> QED
    BY <2>1, OfficeGate DEF OfficePermissions
<1>4. Suits(Staff, {}, forget)
  BY SuperUses, SuperGate DEF SuperPermissions
<1>5. Suits(Staff, {}, From({"useServer"}, actions))
  <2> HIDE DEF remove, forget
  <2>1. Suits(Staff, {}, actions)
    BY <1>1, <1>3, <1>4, StaffFits, FitsAll
  <2> HIDE DEF actions
  <2> QED
    BY <2>1, FitsFrom
<1>6. Suits(Staff, {}, ServerDetailTabs)
  <2>1. Suits(Staff, {}, cards)
    BY ZoneCardFits, FitsStaff, FitsFrom
  <2>2. ServerDetailTabs = From({"useServer"}, cards \cup ServerSyncTable)
    BY DEF ServerDetailTabs
  <2> HIDE DEF cards
  <2>3. Suits(Staff, {}, cards \cup ServerSyncTable)
    BY <2>1, StaffFits, FitsBoth
  <2> QED
    BY <2>2, <2>3, FitsFrom
<1>7. Suits(Staff, {}, ServerDetailPage)
  BY <1>1, <1>5, FitsBoth DEF ServerDetailPage
<1> QED
  BY <1>1, <1>2, <1>6, <1>7, FitsBoth DEF ServersPage

LEMMA MusicPageFits == Suits(Staff, {}, MusicLibraryPage \cup MusicLibraryRows)
<1> DEFINE assign == From({"useTracks"}, AssignSyncDialog)
           change   == From({"useTracks"}, EditTrackDialog)
           folder == From({"useMusicFolders"}, FolderDialog \cup DeleteFolderButton)
           delete == From({"useTracks"}, Uses({"useDeleteTrack"}))
<1>1. Suits(Staff, {}, Uses({"useTracks", "useMusicFolders"}))
  BY StaffUses DEF StaffOps
<1>2. Suits(Office, {}, change) /\ Suits(Office, {}, folder) /\ Suits(Office, {}, delete)
  <2>1. Suits(Office, {}, Uses({"useDeleteTrack"}))
    BY OfficeUses DEF OfficeOps
  <2>2. Suits(Office, {}, FolderDialog \cup DeleteFolderButton)
    BY OfficeFits, FitsBoth
  <2> QED
    BY <2>1, <2>2, OfficeFits, FitsFrom
<1>3. Suits(Office, {}, FolderDialog \cup UploadMusicDialog)
  BY OfficeFits, FitsBoth
<1>4. Suits(Staff, {}, assign)
  BY StaffFits, FitsFrom
<1> HIDE DEF assign, change, folder, delete
<1>5. /\ Suits(Staff, {}, RoleGate({"sync:trigger"}, assign))
      /\ Suits(Staff, {}, RoleGate({"music:upload"}, FolderDialog \cup UploadMusicDialog))
      /\ Suits(Staff, {}, RoleGate({"music:upload"}, change))
      /\ Suits(Staff, {}, RoleGate({"music:upload"}, folder))
      /\ Suits(Staff, {}, RoleGate({"music:delete"}, delete))
  BY <1>2, <1>3, <1>4, AnyGate, OfficeGate DEF OfficePermissions
<1>6. Suits(Staff, {}, MusicLibraryPage)
  BY <1>1, <1>5, FitsBoth DEF MusicLibraryPage, assign
<1>7. Suits(Staff, {}, MusicLibraryRows)
  BY <1>5, FitsBoth DEF MusicLibraryRows, assign, change, folder, delete
<1> QED
  BY <1>6, <1>7, FitsBoth

LEMMA PlaylistPagesFit ==
  /\ Suits(Staff, {<<"LOCATION_MANAGER", "useOrganizations">>}, PlaylistsPage)
  /\ Suits(Staff, {}, PlaylistDetailPage)
<1> DEFINE names == {<<"LOCATION_MANAGER", "useOrganizations">>}
           copy  == From({"usePlaylists"}, Uses({"useDuplicatePlaylist", "useDeletePlaylist"}))
           tracks == Uses({"useUpdatePlaylistTracks", "useRemoveTrackFromPlaylist"})
           changes == UNION {AssignPlaylistDialog, AddTracksDialog, tracks}
<1>1. /\ Suits(Staff, names, Uses({"usePlaylists", "useOrganizations"}))
      /\ Suits(Staff, {}, Uses({"usePlaylist", "useTracks"}))
  BY NameUses, StaffUses DEF StaffOps
<1> HIDE DEF names
<1>2. Suits(Office, names, copy)
  <2>1. Suits(Office, names, Uses({"useDuplicatePlaylist", "useDeletePlaylist"}))
    BY OfficeUses DEF OfficeOps
  <2> QED
    BY <2>1, FitsFrom
<1>3. Suits(Office, {}, From({"usePlaylist"}, changes))
  <2>1. Suits(Office, {}, tracks)
    BY OfficeUses DEF OfficeOps
  <2> HIDE DEF tracks
  <2>2. Suits(Office, {}, changes)
    BY <2>1, OfficeFits, FitsAll
  <2> HIDE DEF changes
  <2> QED
    BY <2>2, FitsFrom
<1> HIDE DEF copy
<1>4. /\ Suits(Staff, names, RoleGate({"playlist:write"}, CreatePlaylistDialog))
      /\ Suits(Staff, names, RoleGate({"playlist:write"}, copy))
      /\ Suits(Staff, {}, RoleGate({"playlist:write"}, From({"usePlaylist"}, changes)))
  BY <1>2, <1>3, OfficeFits, OfficeGate DEF OfficePermissions
<1>5. Suits(Staff, names, PlaylistsPage)
  BY <1>1, <1>4, FitsBoth DEF PlaylistsPage, copy
<1>6. Suits(Staff, {}, PlaylistDetailPage)
  BY <1>1, <1>4, FitsBoth DEF PlaylistDetailPage
<1> QED
  BY <1>5, <1>6 DEF names

LEMMA SchedulesPageFits == Suits(Staff, {}, SchedulesPage)
<1> DEFINE changes == From({"useSchedules"}, Uses({"useToggleSchedule", "useDeleteSchedule"}))
<1>1. /\ Suits(Staff, {}, Uses({"useSchedules", "useZones", "usePlaylists"}))
      /\ Suits(Staff, {}, Uses({"useToggleSchedule", "useDeleteSchedule"}))
  BY StaffUses DEF StaffOps, EveryonesOps
<1>2. Suits(Staff, {}, changes)
  BY <1>1, FitsFrom
<1> HIDE DEF changes
<1>3. Suits(Staff, {}, ScheduleFormDialog \cup changes)
  BY <1>2, ScheduleFormFits, FitsBoth
<1>4. Suits(Staff, {}, RoleGate({"schedule:write"}, ScheduleFormDialog \cup changes))
  BY <1>3, AnyGate
<1> QED
  BY <1>1, <1>4, FitsBoth DEF SchedulesPage, changes

LEMMA PrayerPageFits == Suits(Staff, {}, PrayerModePage)
<1> DEFINE part == From({"useZones"}, Uses({"useSetZonePrayerParticipation"}))
<1>1. /\ Suits(Staff, {}, Uses({"usePrayerConfig", "useLocations", "useTodayPrayerTimes"}))
      /\ Suits(Staff, {}, Uses({"useZones", "useServers"}))
      /\ Suits(Staff, {}, Uses({"useSetZonePrayerParticipation"}))
  BY StaffUses DEF StaffOps, EveryonesOps
<1>2. Suits(Staff, {}, RoleGate({"prayer:manage"}, Uses({"useUpdatePrayerConfig"})))
  <2>1. Suits(Office, {}, Uses({"useUpdatePrayerConfig"}))
    BY OfficeUses DEF OfficeOps
  <2> QED
    BY <2>1, OfficeGate DEF OfficePermissions
<1>3. Suits(Staff, {}, PrayerModeForm)
  BY <1>1, <1>2, FitsBoth DEF PrayerModeForm
<1>4. Suits(Staff, {}, part)
  BY <1>1, FitsFrom
<1> HIDE DEF part
<1>5. Suits(Staff, {}, RoleGate({"prayer:manage"}, part))
  BY <1>4, AnyGate
<1>6. Suits(Staff, {}, ZoneParticipationList)
  BY <1>1, <1>5, FitsBoth DEF ZoneParticipationList, part
<1>7. Suits(Staff, {}, PrayerModeForm \cup ZoneParticipationList)
  BY <1>3, <1>6, FitsBoth
<1> QED
  BY <1>7, AnyGate DEF PrayerModePage

LEMMA WatchPagesFit ==
  Suits(Staff, {}, DashboardPage) /\ Suits(Staff, {}, SyncPage) /\ Suits(Staff, {}, MonitoringPage)
<1>1. /\ Suits(Staff, {}, Uses({"useDashboardStats", "useServers", "useSyncStates",
                               "useActivityFeed", "useAlerts"}))
      /\ Suits(Staff, {}, Uses({"useServers", "useTracks", "useSyncStates"}))
      /\ Suits(Staff, {}, Uses({"useRetrySync"}))
      /\ Suits(Staff, {}, Uses({"useActivityFeed", "useAlerts", "useServers", "useLogs"}))
  BY StaffUses DEF StaffOps
<1>2. /\ Suits(Staff, {}, From({"useSyncStates"}, Uses({"useRetrySync"})))
      /\ Suits(Staff, {}, RoleGate({"sync:trigger"}, QueueSyncDialog))
  BY <1>1, StaffFits, FitsFrom, AnyGate
<1> QED
  BY <1>1, <1>2, StaffFits, FitsBoth DEF DashboardPage, SyncPage, MonitoringPage

LEMMA CommandsPageFits == Suits(Staff, ForgetExc, CommandsPage)
<1>1. /\ Suits(Staff, ForgetExc, Uses({"useServers", "useCommands"}))
      /\ Suits(Staff, ForgetExc, SendCommandDialog)
  BY CommandUses DEF SendCommandDialog, StaffOps, EveryonesOps
<1>2. Suits(Staff, ForgetExc, RoleGate({"server:command"}, SendCommandDialog))
  BY <1>1, AnyGate
<1> QED
  BY <1>1, <1>2, FitsBoth DEF CommandsPage

LEMMA UsersPageFits == Suits(Staff, {}, UsersPage)
<1> DEFINE remove == From({"useUsers"}, Uses({"useDeleteUser"}))
<1>1. /\ Suits(Staff, {}, Uses({"useUsers"})) /\ Suits(Staff, {}, Uses({"useLocations"}))
      /\ Suits(Staff, {}, Uses({"useInviteUser"})) /\ Suits(Staff, {}, Uses({"useDeleteUser"}))
  BY StaffUses DEF StaffOps
<1>2. Suits(Office, {}, Uses({"useOrganizations"}))
  BY OfficeUses DEF OfficeOps
<1>3. /\ Suits(Staff, {}, RoleGate({"org:read"}, Uses({"useOrganizations"})))
      /\ Suits(Staff, {}, RoleGate({"location:read"}, Uses({"useLocations"})))
  BY <1>1, <1>2, OfficeGate, AnyGate DEF OfficePermissions
<1>4. Suits(Staff, {}, InviteUserDialog)
  <2>1. Suits(Staff \cap {"SUPER_ADMIN"}, {}, Uses({"useOrganizations"}))
    BY <1>2, FitsFewer DEF Office
  <2>2. Suits(Staff \cap {"SUPER_ADMIN", "ORGANIZATION_ADMIN"}, {}, Uses({"useLocations"}))
    BY <1>1, FitsFewer
  <2>3. /\ Suits(Staff, {}, For({"SUPER_ADMIN"}, Uses({"useOrganizations"})))
        /\ Suits(Staff, {}, For({"SUPER_ADMIN", "ORGANIZATION_ADMIN"}, Uses({"useLocations"})))
    BY <2>1, <2>2, FitsFor
  <2> QED
    BY <1>1, <2>3, FitsBoth DEF InviteUserDialog
<1>5. Suits(Staff, {}, remove)
  BY <1>1, FitsFrom
<1> HIDE DEF remove
<1>6. Suits(Staff, {}, InviteUserDialog \cup remove)
  BY <1>4, <1>5, FitsBoth
<1>7. Suits(Staff, {}, RoleGate({"users:manage"}, InviteUserDialog \cup remove))
  BY <1>6, AnyGate
<1> QED
  BY <1>1, <1>3, <1>7, FitsBoth DEF UsersPage, remove

LEMMA SettingsPageFits ==
  Suits(Staff, {<<"LOCATION_MANAGER", "useOrganization">>}, SettingsPage)
<1> DEFINE exc == {<<"LOCATION_MANAGER", "useOrganization">>}
           others == DOMAIN MATRIX \ {"SUPER_ADMIN"}
<1>1. Suits(Staff, exc, Uses({"useOrganization"}))
  BY NameUses
<1> HIDE DEF exc, others
<1>2. Suits(Staff \cap others, exc, Uses({"useOrganization"}))
  BY <1>1, FitsFewer
<1>3. Suits(Staff, exc, For(others, Uses({"useOrganization"})))
  BY <1>2, FitsFor
<1> QED
  BY <1>3 DEF SettingsPage, exc, others

-----------------------------------------------------------------------------
(* Every page *)

\* Who may open a page.
LEMMA OpenTo ==
  ASSUME NEW r \in PortalRoles, NEW p \in Pages, MayOpen(r, p)
  PROVE  /\ p # "/zones" => r \in Staff
         /\ p \in {"/organizations", "/organizations/[id]"} => r \in Office
<1>1. \A q \in Pages : \E x \in requiredPermissionFor :
        /\ x[1] = q
        /\ q # "/zones" => x[2] \in StaffPermissions \cup OfficePermissions
        /\ q \in {"/organizations", "/organizations/[id]"} => x[2] \in OfficePermissions
  <2> DEFINE W(q, x) ==
        /\ x[1] = q
        /\ q # "/zones" => x[2] \in StaffPermissions \cup OfficePermissions
        /\ q \in {"/organizations", "/organizations/[id]"} => x[2] \in OfficePermissions
  <2> DEFINE Required ==
        {<<"/dashboard", "location:read">>, <<"/locations", "location:read">>,
         <<"/locations/[id]", "location:read">>, <<"/settings", "location:read">>,
         <<"/organizations", "org:read">>, <<"/organizations/[id]", "org:read">>,
         <<"/servers", "server:read">>, <<"/servers/[id]", "server:read">>,
         <<"/zones", "zone:read">>, <<"/music", "music:read">>,
         <<"/playlists", "playlist:read">>, <<"/playlists/[id]", "playlist:read">>,
         <<"/schedules", "schedule:read">>, <<"/prayer", "prayer:read">>,
         <<"/sync", "sync:trigger">>, <<"/monitoring", "logs:read">>,
         <<"/commands", "server:command">>, <<"/users", "users:manage">>}
  <2>1. Required \subseteq requiredPermissionFor
    BY DEF requiredPermissionFor, Each
  <2>2. \A q \in Pages : \E x \in Required : W(q, x)
    BY DEF Pages, StaffPermissions, OfficePermissions
  <2> QED
    BY <2>1, <2>2
<1> QED
  BY <1>1, Has, RolesAre
     DEF MayOpen, StaffPermissions, OfficePermissions, Staff, Office

\* What a role may do, or is refused as listed.
Fair(r, p, u) == Permits(r, u.op) \/ <<p, u.op>> \in RefusedTo(r)

\* A page that fits its roles is fair to each of them, its exceptions being those listed.
LEMMA FairPage ==
  ASSUME NEW roles, NEW exc, NEW p, NEW uses, Suits(roles, exc, uses), NEW r \in roles,
         \A op : <<r, op>> \in exc => <<p, op>> \in RefusedTo(r)
  PROVE  \A u \in uses : r \in u.roles => Fair(r, p, u)
BY DEF Suits, Fair

LEMMA RefusedAre ==
  /\ \A op : op \in ZoneOps => <<"/zones", op>> \in RefusedTo("VIEWER")
  /\ \A p \in {"/locations", "/playlists"} :
       <<p, "useOrganizations">> \in RefusedTo("LOCATION_MANAGER")
  /\ \A p \in {"/locations/[id]", "/settings"} :
       <<p, "useOrganization">> \in RefusedTo("LOCATION_MANAGER")
  /\ \A r \in {"LOCATION_MANAGER", "ORGANIZATION_ADMIN"} :
       <<"/commands", "FORGET_SERVER">> \in RefusedTo(r)
BY DEF RefusedTo, ZoneOps

LEMMA EveryPageIsFair ==
  ASSUME NEW r \in PortalRoles, NEW p \in Pages, MayOpen(r, p)
  PROVE  \A u \in Contents[p] : r \in u.roles => Fair(r, p, u)
<1>1. /\ p # "/zones" => r \in Staff
      /\ p \in {"/organizations", "/organizations/[id]"} => r \in Office
  BY OpenTo
<1>2. CASE p = "/zones"
  <2>1. \A op : <<r, op>> \in ZoneExc => <<p, op>> \in RefusedTo(r)
    BY <1>2, RefusedAre DEF ZoneExc
  <2>2. Contents[p] = ZonesPage
    BY <1>2 DEF Contents
  <2> QED
    BY <2>1, <2>2, ZonesPageFits, FairPage
<1>3. CASE p \in {"/organizations", "/organizations/[id]"}
  <2>1. Contents[p] \in {OrganizationsPage, OrganizationDetailPage}
    BY <1>3 DEF Contents
  <2> QED
    BY <1>1, <1>3, <2>1, OrganizationPagesFit, FairPage
<1>4. CASE p \in {"/locations", "/playlists"}
  <2>1. Contents[p] \in {LocationsPage, PlaylistsPage}
    BY <1>4 DEF Contents
  <2>2. r \in Staff
    BY <1>1, <1>4
  <2>3. \A op : <<r, op>> \in {<<"LOCATION_MANAGER", "useOrganizations">>}
                  => <<p, op>> \in RefusedTo(r)
    BY <1>4, RefusedAre
  <2> QED
    BY <2>1, <2>2, <2>3, LocationPagesFit, PlaylistPagesFit, FairPage
<1>5. CASE p \in {"/locations/[id]", "/settings"}
  <2>1. Contents[p] \in {LocationDetailPage, SettingsPage}
    BY <1>5 DEF Contents
  <2>2. r \in Staff
    BY <1>1, <1>5
  <2>3. \A op : <<r, op>> \in {<<"LOCATION_MANAGER", "useOrganization">>}
                  => <<p, op>> \in RefusedTo(r)
    BY <1>5, RefusedAre
  <2> QED
    BY <2>1, <2>2, <2>3, LocationPagesFit, SettingsPageFits, FairPage
<1>6. CASE p = "/commands"
  <2>1. Contents[p] = CommandsPage
    BY <1>6 DEF Contents
  <2>2. r \in Staff
    BY <1>1, <1>6
  <2>3. \A op : <<r, op>> \in ForgetExc => <<p, op>> \in RefusedTo(r)
    BY <1>6, RefusedAre DEF ForgetExc
  <2> QED
    BY <2>1, <2>2, <2>3, CommandsPageFits, FairPage
<1>7. CASE p \in {"/dashboard", "/servers", "/servers/[id]", "/music", "/playlists/[id]",
                  "/schedules", "/prayer", "/sync", "/monitoring", "/users"}
  <2>1. Contents[p] \in {DashboardPage, ServersPage, ServerDetailPage \cup ServerDetailTabs,
                         MusicLibraryPage \cup MusicLibraryRows, PlaylistDetailPage,
                         SchedulesPage, PrayerModePage, SyncPage, MonitoringPage, UsersPage}
    BY <1>7 DEF Contents
  <2>2. r \in Staff
    BY <1>1, <1>7
  <2>3. Suits(Staff, {}, Contents[p])
    BY <2>1, WatchPagesFit, ServerPagesFit, MusicPageFits, PlaylistPagesFit, SchedulesPageFits,
       PrayerPageFits, UsersPageFits
  <2> QED
    BY <2>2, <2>3, FairPage
<1>8. p \in {"/zones"} \cup {"/organizations", "/organizations/[id]"}
        \cup {"/locations", "/playlists"} \cup {"/locations/[id]", "/settings"} \cup {"/commands"}
        \cup {"/dashboard", "/servers", "/servers/[id]", "/music", "/playlists/[id]",
              "/schedules", "/prayer", "/sync", "/monitoring", "/users"}
  BY DEF Pages
<1> QED
  BY <1>2, <1>3, <1>4, <1>5, <1>6, <1>7, <1>8

LEMMA BellIsFair ==
  ASSUME NEW r \in PortalRoles, NEW p
  PROVE  \A u \in Topbar : r \in u.roles => Fair(r, p, u)
<1>1. Suits(PortalRoles, {}, Topbar)
  <2>1. Suits(Staff, {}, Uses({"useAlerts"}))
    BY StaffUses DEF StaffOps
  <2> QED
    BY <2>1, StaffGate DEF Topbar, StaffPermissions
<1> QED
  BY <1>1, FairPage

LEMMA HomeIsOpen == \A r \in PortalRoles : MayOpen(r, landingRoute(r))
<1>1. \A x \in requiredPermissionFor :
        /\ x[1] = "/zones" => x[2] = "zone:read"
        /\ x[1] = "/dashboard" => x[2] = "location:read"
  BY DEF requiredPermissionFor, Each
<1> QED
  BY <1>1, Has, RolesAre DEF MayOpen, landingRoute, Staff, StaffPermissions

-----------------------------------------------------------------------------
LEMMA LandingIsAPage == \A r : landingRoute(r) \in Pages
BY DEF Pages, landingRoute

\* Who has a page open is signed in.
PagesInv ==
  /\ PortalPagesTypeOK
  /\ page # NoOne => tokenRole \in PortalRoles /\ shownRole \in PortalRoles

LEMMA PagesBegin == PortalPagesInit => PagesInv
BY DEF PortalPagesInit, PagesInv, PortalPagesTypeOK

LEMMA PagesStep == PagesInv /\ [PortalPagesNext]_pageVars => PagesInv'
<1> SUFFICES ASSUME PagesInv, [PortalPagesNext]_pageVars PROVE PagesInv'
  OBVIOUS
<1> USE DEF PagesInv, PortalPagesTypeOK
<1>1. CASE UNCHANGED pageVars
  BY <1>1 DEF pageVars
<1>2. CASE \E p \in Pages : SignIn(p) \/ FollowLink(p) \/ Load(p)
  BY <1>2, LandingIsAPage DEF SignIn, FollowLink, Load
<1>3. CASE \E r \in PortalRoles : ChangeRole(r)
  BY <1>3 DEF ChangeRole
<1>4. CASE RenewToken \/ RefetchSession
  BY <1>4 DEF RenewToken, RefetchSession
<1>5. CASE LoadPublic
  BY <1>5, LandingIsAPage DEF LoadPublic, Load
<1>6. CASE Redirect
  BY <1>6, LandingIsAPage DEF Redirect
<1>7. CASE LeavePortal
  BY <1>7 DEF LeavePortal
<1> QED
  BY <1>1, <1>2, <1>3, <1>4, <1>5, <1>6, <1>7 DEF PortalPagesNext

\* Whatever page is open is one of the portal, and the roles in the token, in the session and
\* in the answers are roles.
THEOREM PortalPagesTypes == PortalPagesSpec => []PortalPagesTypeOK
<1>1. PagesInv => PortalPagesTypeOK
  BY DEF PagesInv
<1> QED
  BY <1>1, PagesBegin, PagesStep, PTL DEF PortalPagesSpec

\* The home of a role is a page that it may open; and once the token and the session have the
\* same role, a page asks and offers what the backend allows this role, but for what is listed.
THEOREM PagesOfferWhatIsPermitted == PortalPagesSpec => []OfferedIsPermitted
<1>1. PagesInv => OfferedIsPermitted
  <2> SUFFICES ASSUME PagesInv PROVE OfferedIsPermitted
    OBVIOUS
  <2>1. page # NoOne => shownRole \in PortalRoles /\ tokenRole \in PortalRoles /\ page \in Pages
    BY DEF PagesInv, PortalPagesTypeOK
  <2>2. page # NoOne => MayOpen(shownRole, landingRoute(shownRole))
    BY <2>1, HomeIsOpen
  <2>3. ASSUME Drawn, tokenRole = shownRole, NEW op \in Done
        PROVE  Permits(tokenRole, op) \/ <<page, op>> \in RefusedTo(tokenRole)
    <3>1. PICK u \in Contents[page] \cup Topbar : shownRole \in u.roles /\ op = u.op
      BY <2>3 DEF Done
    <3>2. Fair(shownRole, page, u)
      BY <2>1, <2>3, <3>1, EveryPageIsFair, BellIsFair DEF Drawn
    <3> QED
      BY <2>3, <3>1, <3>2 DEF Fair
  <2> QED
    BY <2>2, <2>3 DEF OfferedIsPermitted
<1> QED
  BY <1>1, PagesBegin, PagesStep, PTL DEF PortalPagesSpec
=============================================================================
