------------------------ MODULE BeszelSession_proofs ------------------------
(***************************************************************************)
(* Proofs about BeszelSession for any number of requests and any times     *)
(* that SessionAssumption admits.                                          *)
(***************************************************************************)
EXTENDS BeszelSession, TLAPS

USE DEF Tokens, Logins, Waiting, Ended, LoginAnswers, GetAnswers

(***************************************************************************)
(* LoginInv survives a step that issues no token and moves one request to  *)
(* a state its own tokens allow.                                           *)
(***************************************************************************)
LEMMA LoginInvKept ==
  ASSUME SessionInv, NEW r \in Requests,
         issued' = issued, expiry' = expiry,
         \A s \in Requests \ {r} :
           phase'[s] = phase[s] /\ wire'[s] = wire[s] /\ sentAt'[s] = sentAt[s],
         phase'[r] # "idle", wire'[r] # "token",
         <<r, "login">> \in issued => phase'[r] # "login",
         <<r, "relogin">> \in issued => phase'[r] \notin {"login", "get", "relogin"}
  PROVE  LoginInv'
<1> SUFFICES ASSUME NEW s \in Requests, NEW login \in Logins
             PROVE  LoginInv!(s)!(login)'
  BY DEF LoginInv
<1>1. CASE s = r
  BY <1>1
<1>2. CASE s # r
  BY <1>2 DEF SessionInv, LoginInv
<1>3. QED
  BY <1>1, <1>2

(* A request ends. *)
LEMMA EndStep ==
  ASSUME SessionInv, NEW r \in Requests, NEW outcome \in Ended, End(r, outcome),
         UNCHANGED <<tokenVars, hubVars, now, closed, queryReady>>
  PROVE  SessionInv'
<1> USE DEF End, tokenVars, hubVars
<1>1. TypeOK'
  <2>1. 0 \in 0 .. MaxNow
    BY SessionAssumption
  <2>2. QED
    BY <2>1 DEF SessionInv, TypeOK
<1>2. SentInv' /\ KeptInv' /\ WaitInv'
  BY DEF SessionInv, TypeOK, SentInv, KeptInv, WaitInv, Usable
<1>3. LoginInv'
  BY LoginInvKept DEF SessionInv, TypeOK
<1>4. ResetInv' /\ ClosedInv'
  BY DEF SessionInv, TypeOK, ResetInv, ClosedInv
<1>5. QED
  BY <1>1, <1>2, <1>3, <1>4 DEF SessionInv

(* A request begins with its login. *)
LEMMA StartLoginStep ==
  ASSUME SessionInv, NEW r \in Requests, phase[r] = "idle", ~closed,
         Send(r, "login", NoToken),
         UNCHANGED <<tokenVars, hubVars, now, closed, queryReady>>
  PROVE  SessionInv'
<1> USE DEF Send, tokenVars, hubVars
<1>1. TypeOK'
  BY DEF SessionInv, TypeOK
<1>2. SentInv' /\ KeptInv'
  BY DEF SessionInv, TypeOK, SentInv, KeptInv, Usable
<1>3. LoginInv'
  <2>1. <<r, "login">> \notin issued /\ <<r, "relogin">> \notin issued
    BY DEF SessionInv, LoginInv
  <2>2. QED
    BY <2>1, LoginInvKept DEF SessionInv, TypeOK
<1>4. WaitInv'
  BY SessionAssumption DEF SessionInv, TypeOK, WaitInv
<1>5. ResetInv' /\ ClosedInv'
  BY DEF SessionInv, TypeOK, ResetInv, ClosedInv
<1>6. QED
  BY <1>1, <1>2, <1>3, <1>4, <1>5 DEF SessionInv

(* A request begins with its GET: the token is usable. *)
LEMMA StartGetStep ==
  ASSUME SessionInv, NEW r \in Requests, phase[r] = "idle", ~closed, ~Due,
         Send(r, "get", token),
         UNCHANGED <<tokenVars, hubVars, now, closed, queryReady>>
  PROVE  SessionInv'
<1> USE DEF Send, tokenVars, hubVars
<1>1. TypeOK'
  BY DEF SessionInv, TypeOK
<1>2. Usable(token, now)
  <2>1. token \in issued /\ renewAt + Timeout + Skew <= expiry[token] /\ now < renewAt
    BY DEF Due, SessionInv, TypeOK, KeptInv
  <2>2. expiry[token] \in Int /\ renewAt \in Int /\ now \in Int
    BY <2>1 DEF SessionInv, TypeOK
  <2>3. QED
    BY <2>1, <2>2, SessionAssumption DEF Usable
<1>3. SentInv' /\ KeptInv'
  BY <1>2 DEF SessionInv, TypeOK, SentInv, KeptInv, Usable
<1>4. LoginInv'
  <2>1. <<r, "login">> \notin issued /\ <<r, "relogin">> \notin issued
    BY DEF SessionInv, LoginInv
  <2>2. QED
    BY <2>1, LoginInvKept DEF SessionInv, TypeOK
<1>5. WaitInv'
  BY SessionAssumption DEF SessionInv, TypeOK, WaitInv
<1>6. ResetInv' /\ ClosedInv'
  BY DEF SessionInv, TypeOK, ResetInv, ClosedInv
<1>7. QED
  BY <1>1, <1>3, <1>4, <1>5, <1>6 DEF SessionInv

(* A request begins. *)
LEMMA StartStep ==
  ASSUME SessionInv, NEW r \in Requests, Start(r)
  PROVE  SessionInv'
<1>1. CASE closed
  <2>1. \/ End(r, "denied")
        \/ End(r, "failed")
    BY <1>1 DEF Start, SendLogin, Send
  <2>2. QED
    BY <2>1, EndStep DEF Start
<1>2. CASE ~closed /\ Due /\ ~queryReady
  BY <1>2, EndStep DEF Start, SendLogin
<1>3. CASE ~closed /\ Due /\ queryReady
  BY <1>3, StartLoginStep DEF Start, SendLogin
<1>4. CASE ~closed /\ ~Due
  BY <1>4, StartGetStep DEF Start
<1>5. QED
  BY <1>1, <1>2, <1>3, <1>4

(* The Hub answers a login: the token it issues is a new one. *)
LEMMA HubAnswersLoginStep ==
  ASSUME SessionInv, NEW r \in Requests, HubAnswersLogin(r)
  PROVE  SessionInv'
<1> DEFINE t == <<r, phase[r]>>
<1>1. t \in Tokens /\ t \notin issued /\ wire[r] = "sent"
  BY DEF SessionInv, TypeOK, LoginInv, HubAnswersLogin
<1>2. PICK answer \in LoginAnswers :
        /\ wire' = [wire EXCEPT ![r] = answer]
        /\ IF answer = "token"
             THEN /\ issued' = issued \cup {t}
                  /\ expiry' = [expiry EXCEPT ![t] = now + Skew + Lifetime]
             ELSE UNCHANGED <<issued, expiry>>
  BY DEF HubAnswersLogin
<1>3. UNCHANGED <<phase, used, sentAt, token, renewAt, revoked, resets, now,
                  session, closed, queryReady>>
  BY DEF HubAnswersLogin, tokenVars, clientVars
<1>4. \A u \in issued : u \in issued' /\ expiry'[u] = expiry[u]
  BY <1>1, <1>2 DEF SessionInv, TypeOK
<1>5. expiry' \in [Tokens -> 0 .. MaxExpiry] /\ issued' \subseteq Tokens
  <2>1. now + Skew + Lifetime \in 0 .. MaxExpiry
    BY SessionAssumption DEF SessionInv, TypeOK, MaxExpiry
  <2>2. QED
    BY <1>1, <1>2, <2>1 DEF SessionInv, TypeOK
<1>6. TypeOK'
  BY <1>2, <1>3, <1>4, <1>5 DEF SessionInv, TypeOK, MaxExpiry
<1>7. SentInv'
  BY <1>1, <1>2, <1>3, <1>4 DEF SessionInv, TypeOK, SentInv, Usable
<1>8. KeptInv'
  BY <1>3, <1>4 DEF SessionInv, KeptInv
<1>9. LoginInv'
  <2>1. answer = "token" => expiry'[t] = now + Skew + Lifetime
    BY <1>1, <1>2 DEF SessionInv, TypeOK
  <2> SUFFICES ASSUME NEW s \in Requests, NEW login \in Logins
               PROVE  LoginInv!(s)!(login)'
    BY DEF LoginInv
  <2>2. CASE s # r
    <3>1. wire'[s] = wire[s] /\ <<s, login>> # t /\ <<s, "relogin">> # t
      BY <1>2, <2>2 DEF SessionInv, TypeOK
    <3>2. /\ <<s, login>> \in issued' <=> <<s, login>> \in issued
          /\ <<s, "relogin">> \in issued' <=> <<s, "relogin">> \in issued
      BY <1>2, <3>1
    <3>3. LoginInv!(s)!(login)
      BY DEF SessionInv, LoginInv
    <3>4. QED
      BY <1>3, <1>4, <3>1, <3>2, <3>3
  <2>3. CASE s = r
    <3>1. phase[r] \in Logins /\ sentAt[r] <= now /\ wire'[r] = answer
      BY <1>2 DEF SessionInv, TypeOK, WaitInv, HubAnswersLogin
    <3>2. sentAt[r] \in Nat /\ now \in Nat
      BY DEF SessionInv, TypeOK
    <3>3. LoginInv!(r)!(login)
      BY DEF SessionInv, LoginInv
    <3>4. <<r, login>> \in issued' => <<r, login>> \in issued \/ login = phase[r]
      BY <1>2
    <3>5. <<r, "relogin">> \in issued' => <<r, "relogin">> \in issued \/ phase[r] = "relogin"
      BY <1>2
    <3>6. wire'[r] = "token" =>
            <<r, phase[r]>> \in issued' /\ sentAt[r] + Skew + Lifetime <= expiry'[t]
      BY <1>2, <2>1, <3>1, <3>2, SessionAssumption
    <3>7. QED
      BY <1>1, <1>3, <2>3, <3>1, <3>3, <3>4, <3>5, <3>6
  <2>4. QED
    BY <2>2, <2>3
<1>10. WaitInv' /\ ClosedInv'
  BY <1>3 DEF SessionInv, WaitInv, ClosedInv
<1>11. ResetInv'
  BY <1>1, <1>2, <1>3 DEF SessionInv, TypeOK, ResetInv, HubAnswersLogin
<1>12. QED
  BY <1>6, <1>7, <1>8, <1>9, <1>10, <1>11 DEF SessionInv

(* The Hub answers a GET: the token is still valid. *)
LEMMA HubAnswersGetStep ==
  ASSUME SessionInv, NEW r \in Requests, HubAnswersGet(r)
  PROVE  SessionInv'
<1>1. PICK answer \in GetAnswers :
        /\ answer = "guest" <=> (IsGuest(used[r]) /\ answer # "error")
        /\ answer = "unauthorized" => used[r] \in revoked
        /\ wire' = [wire EXCEPT ![r] = answer]
  BY DEF HubAnswersGet
<1>2. /\ phase[r] \in {"get", "replay"}
      /\ UNCHANGED <<phase, used, sentAt, token, renewAt, issued, expiry, revoked,
                     resets, now, session, closed, queryReady>>
  BY DEF HubAnswersGet, tokenVars, hubVars, clientVars
<1>3. answer # "guest"
  <2>1. Usable(used[r], sentAt[r]) /\ now <= sentAt[r] + Timeout
    BY <1>2 DEF SessionInv, SentInv, WaitInv
  <2>2. expiry[used[r]] \in Int /\ sentAt[r] \in Int /\ now \in Int
    BY <2>1 DEF SessionInv, TypeOK, Usable
  <2>3. ~IsGuest(used[r])
    BY <2>1, <2>2, SessionAssumption DEF Usable, IsGuest
  <2>4. QED
    BY <1>1, <2>3
<1>4. TypeOK'
  BY <1>1, <1>2 DEF SessionInv, TypeOK
<1>5. SentInv' /\ KeptInv' /\ WaitInv' /\ ClosedInv'
  BY <1>1, <1>2, <1>3 DEF SessionInv, TypeOK, SentInv, KeptInv, WaitInv, ClosedInv, Usable
<1>6. LoginInv'
  BY <1>1, <1>2, LoginInvKept, ZenonT(40) DEF SessionInv, TypeOK, LoginInv
<1>7. ResetInv'
  BY <1>1, <1>2 DEF SessionInv, TypeOK, ResetInv
<1>8. QED
  BY <1>4, <1>5, <1>6, <1>7 DEF SessionInv

(* The token a login brings is good for a GET and for a while longer. *)
LEMMA NewTokenUsable ==
  ASSUME SessionInv, NEW r \in Requests, phase[r] \in Logins, wire[r] = "token",
         NEW time, time \in {expiry[<<r, phase[r]>>] - Margin, now + Fallback}
  PROVE  /\ <<r, phase[r]>> \in Tokens
         /\ Usable(<<r, phase[r]>>, now)
         /\ time \in -Margin .. MaxExpiry
         /\ time + Timeout + Skew <= expiry[<<r, phase[r]>>]
<1> DEFINE t == <<r, phase[r]>>
<1>1. t \in Tokens /\ t \in issued /\ sentAt[r] + Skew + Lifetime <= expiry[t]
  BY DEF SessionInv, TypeOK, LoginInv
<1>2. now <= sentAt[r] + Timeout
  BY DEF SessionInv, WaitInv
<1>3. expiry[t] \in 0 .. MaxExpiry /\ sentAt[r] \in 0 .. MaxNow /\ now \in 0 .. MaxNow
  BY <1>1 DEF SessionInv, TypeOK
<1>4. Usable(t, now)
  BY <1>1, <1>2, <1>3, SessionAssumption DEF Usable, MaxExpiry
<1>5. time \in -Margin .. MaxExpiry
  BY <1>3, SessionAssumption DEF MaxExpiry
<1>6. time + Timeout + Skew <= expiry[t]
  BY <1>1, <1>2, <1>3, SessionAssumption DEF MaxExpiry
<1>7. QED
  BY <1>1, <1>4, <1>5, <1>6

(* A login brings a token, with which the GET goes out at once. *)
LEMMA LoginReturnsStep ==
  ASSUME SessionInv, NEW r \in Requests, LoginReturns(r)
  PROVE  SessionInv'
<1> DEFINE t == <<r, phase[r]>>
           next == After(phase[r])
<1>1. /\ phase[r] \in Logins /\ wire[r] = "token"
      /\ token' = t
      /\ renewAt' \in {expiry[t] - Margin, now + Fallback}
      /\ UNCHANGED <<issued, expiry, revoked, resets, now, closed, queryReady>>
  BY DEF LoginReturns, hubVars
<1>2. /\ t \in Tokens /\ Usable(t, now)
      /\ renewAt' \in -Margin .. MaxExpiry
      /\ renewAt' + Timeout + Skew <= expiry[t]
  BY <1>1, NewTokenUsable
<1>3. \/ /\ closed
         /\ phase' = [phase EXCEPT ![r] = "failed"]
         /\ wire' = [wire EXCEPT ![r] = "none"]
         /\ used' = [used EXCEPT ![r] = NoToken]
         /\ sentAt' = [sentAt EXCEPT ![r] = 0]
         /\ session' = session
      \/ /\ ~closed
         /\ phase' = [phase EXCEPT ![r] = next]
         /\ wire' = [wire EXCEPT ![r] = "sent"]
         /\ used' = [used EXCEPT ![r] = t]
         /\ sentAt' = [sentAt EXCEPT ![r] = now]
         /\ session' = "open"
  BY DEF LoginReturns, Send, End
<1>4. TypeOK'
  BY <1>1, <1>2, <1>3, SessionAssumption DEF SessionInv, TypeOK, MaxExpiry, After
<1>5. SentInv'
  BY <1>1, <1>2, <1>3 DEF SessionInv, TypeOK, SentInv, Usable
<1>6. KeptInv'
  BY <1>1, <1>2 DEF KeptInv, Usable
<1>7. LoginInv'
  <2>1. phase'[r] \in {"get", "replay", "failed"} /\ wire'[r] # "token"
    BY <1>1, <1>3 DEF SessionInv, TypeOK, After
  <2>2. phase'[r] = "get" => phase[r] = "login"
    BY <1>1, <1>3 DEF SessionInv, TypeOK, After
  <2>3. <<r, "relogin">> \in issued => phase[r] # "login"
    BY DEF SessionInv, LoginInv
  <2>4. \A s \in Requests \ {r} :
          phase'[s] = phase[s] /\ wire'[s] = wire[s] /\ sentAt'[s] = sentAt[s]
    BY <1>3 DEF SessionInv, TypeOK
  <2>5. QED
    BY <1>1, <2>1, <2>2, <2>3, <2>4, LoginInvKept
<1>8. WaitInv'
  BY <1>1, <1>3, SessionAssumption DEF SessionInv, TypeOK, WaitInv
<1>9. ResetInv'
  BY <1>1, <1>3 DEF SessionInv, TypeOK, ResetInv, After
<1>10. ClosedInv'
  BY <1>1, <1>3 DEF SessionInv, ClosedInv
<1>11. QED
  BY <1>4, <1>5, <1>6, <1>7, <1>8, <1>9, <1>10 DEF SessionInv

(* A first 401 leads to a login of the request's own. *)
LEMMA GetRejectedStep ==
  ASSUME SessionInv, NEW r \in Requests, GetRejected(r)
  PROVE  SessionInv'
<1> USE DEF hubVars
<1>1. /\ phase[r] = "get" /\ wire[r] = "unauthorized" /\ token' = NoToken
      /\ UNCHANGED <<renewAt, hubVars, now, closed, queryReady>>
  BY DEF GetRejected
<1>2. PICK outcome \in {"relogin", "denied", "failed"} :
         /\ phase' = [phase EXCEPT ![r] = outcome]
         /\ wire' = [wire EXCEPT ![r] = IF outcome = "relogin" THEN "sent" ELSE "none"]
         /\ used' = [used EXCEPT ![r] = NoToken]
         /\ sentAt' = [sentAt EXCEPT ![r] = IF outcome = "relogin" THEN now ELSE 0]
         /\ session' = IF outcome = "relogin" THEN "open" ELSE session
         /\ outcome = "relogin" => ~closed
  BY DEF GetRejected, SendLogin, Send, End
<1>3. TypeOK'
  <2>1. now \in 0 .. MaxNow /\ 0 \in 0 .. MaxNow
    BY SessionAssumption DEF SessionInv, TypeOK
  <2>2. QED
    BY <1>1, <1>2, <2>1 DEF SessionInv, TypeOK
<1>4. SentInv' /\ KeptInv'
  BY <1>1, <1>2 DEF SessionInv, TypeOK, SentInv, KeptInv, Usable
<1>5. LoginInv'
  <2>1. <<r, "relogin">> \notin issued
    BY <1>1 DEF SessionInv, LoginInv
  <2>2. phase'[r] = outcome /\ wire'[r] # "token"
    BY <1>2 DEF SessionInv, TypeOK
  <2>3. \A s \in Requests \ {r} :
          phase'[s] = phase[s] /\ wire'[s] = wire[s] /\ sentAt'[s] = sentAt[s]
    BY <1>2 DEF SessionInv, TypeOK
  <2>4. QED
    BY <1>1, <2>1, <2>2, <2>3, LoginInvKept
<1>6. WaitInv'
  BY <1>1, <1>2, SessionAssumption DEF SessionInv, TypeOK, WaitInv
<1>7. ResetInv' /\ ClosedInv'
  BY <1>1, <1>2 DEF SessionInv, TypeOK, ResetInv, ClosedInv
<1>8. QED
  BY <1>3, <1>4, <1>5, <1>6, <1>7 DEF SessionInv

(* A reset makes every token issued so far invalid. *)
LEMMA ResetStep ==
  ASSUME SessionInv, Reset
  PROVE  SessionInv'
<1> USE DEF Reset, tokenVars, clientVars
<1>1. TypeOK'
  BY SessionAssumption DEF SessionInv, TypeOK, MaxExpiry
<1>2. SentInv' /\ KeptInv' /\ LoginInv' /\ WaitInv' /\ ClosedInv'
  BY DEF SessionInv, SentInv, KeptInv, LoginInv, WaitInv, ClosedInv, Usable
<1>3. ResetInv'
  BY SessionAssumption DEF SessionInv, TypeOK, ResetInv
<1>4. QED
  BY <1>1, <1>2, <1>3 DEF SessionInv

(* Time passes, but not for an exchange that has reached its timeout. *)
LEMMA TickStep ==
  ASSUME SessionInv, Tick
  PROVE  SessionInv'
<1> USE DEF Tick, tokenVars, hubVars, clientVars
<1>1. TypeOK' /\ WaitInv'
  BY SessionAssumption DEF SessionInv, TypeOK, MaxExpiry, WaitInv
<1>2. SentInv' /\ KeptInv' /\ LoginInv' /\ ResetInv' /\ ClosedInv'
  BY DEF SessionInv, SentInv, KeptInv, LoginInv, ResetInv, ClosedInv, Usable
<1>3. QED
  BY <1>1, <1>2 DEF SessionInv

(* close() begins or returns. *)
LEMMA CloseStep ==
  ASSUME SessionInv, Close \/ CloseReturns
  PROVE  SessionInv'
<1> USE DEF Close, CloseReturns, Forget, tokenVars, hubVars
<1>1. TypeOK'
  <2>1. 0 \in -Margin .. MaxExpiry
    BY SessionAssumption DEF MaxExpiry
  <2>2. QED
    BY <2>1 DEF SessionInv, TypeOK
<1>2. KeptInv' /\ ClosedInv'
  BY DEF SessionInv, KeptInv, ClosedInv
<1>3. SentInv' /\ LoginInv' /\ WaitInv' /\ ResetInv'
  BY DEF SessionInv, SentInv, LoginInv, WaitInv, ResetInv, Usable
<1>4. QED
  BY <1>1, <1>2, <1>3 DEF SessionInv

-----------------------------------------------------------------------------
(***************************************************************************)
(* The invariant of the session: whatever requests, the Hub, the clock and *)
(* close() do, tokens that are sent or kept can still be used.             *)
(***************************************************************************)
THEOREM SessionInvariant == Spec => []SessionInv
<1>1. Init => SessionInv
  <2> SUFFICES ASSUME Init PROVE SessionInv
    OBVIOUS
  <2> USE DEF Init
  <2>1. TypeOK
    <3>1. 0 \in -Margin .. MaxExpiry /\ 0 \in 0 .. MaxExpiry /\ 0 \in 0 .. MaxNow
            /\ 0 \in 0 .. MaxResets
      BY SessionAssumption DEF MaxExpiry
    <3>2. QED
      BY <3>1 DEF TypeOK
  <2>2. SentInv /\ KeptInv /\ LoginInv /\ WaitInv /\ ResetInv /\ ClosedInv
    BY DEF SentInv, KeptInv, LoginInv, WaitInv, ResetInv, ClosedInv
  <2>3. QED
    BY <2>1, <2>2 DEF SessionInv
<1>2. SessionInv /\ [Next]_vars => SessionInv'
  <2> SUFFICES ASSUME SessionInv, [Next]_vars PROVE SessionInv'
    OBVIOUS
  <2>1. ASSUME NEW r \in Requests, Start(r) PROVE SessionInv'
    BY <2>1, StartStep
  <2>2. ASSUME NEW r \in Requests, HubAnswersLogin(r) PROVE SessionInv'
    BY <2>2, HubAnswersLoginStep
  <2>3. ASSUME NEW r \in Requests, HubAnswersGet(r) PROVE SessionInv'
    BY <2>3, HubAnswersGetStep
  <2>4. ASSUME NEW r \in Requests, LoginReturns(r) PROVE SessionInv'
    BY <2>4, LoginReturnsStep
  <2>5. ASSUME NEW r \in Requests, GetRejected(r) PROVE SessionInv'
    BY <2>5, GetRejectedStep
  <2>6. ASSUME NEW r \in Requests,
               LoginRefused(r) \/ GetReturns(r) \/ ReplayRejected(r)
                 \/ ExchangeFails(r) \/ Cancel(r)
        PROVE  SessionInv'
    <3>1. PICK outcome \in Ended : End(r, outcome)
      BY <2>6 DEF LoginRefused, GetReturns, ReplayRejected, ExchangeFails, Cancel
    <3>2. UNCHANGED <<tokenVars, hubVars, now, closed, queryReady>>
      BY <2>6 DEF LoginRefused, GetReturns, ReplayRejected, ExchangeFails, Cancel
    <3>3. QED
      BY <3>1, <3>2, EndStep
  <2>7. CASE Reset \/ Tick \/ Close \/ CloseReturns
    BY <2>7, ResetStep, TickStep, CloseStep
  <2>8. CASE UNCHANGED vars
    BY <2>8 DEF vars, SessionInv, TypeOK, SentInv, KeptInv, LoginInv, WaitInv,
       ResetInv, ClosedInv, Usable
  <2>9. QED
    BY <2>1, <2>2, <2>3, <2>4, <2>5, <2>6, <2>7, <2>8
    DEF Next, Returns, AllEnded
<1>3. QED
  BY <1>1, <1>2, PTL DEF Spec

(* Every variable keeps its type. *)
THEOREM SessionTypeCorrect == Spec => []TypeOK
<1>1. SessionInv => TypeOK
  BY DEF SessionInv
<1>2. QED
  BY <1>1, SessionInvariant, PTL

(***************************************************************************)
(* No request is ever answered as a guest's, provided the timeout and the  *)
(* Hub's lead fit into the renewal margin.                                 *)
(***************************************************************************)
THEOREM RequestsAreNeverGuests == Spec => []NeverGuest
<1>1. SessionInv => NeverGuest
  BY DEF SessionInv, SentInv, NeverGuest
<1>2. QED
  BY <1>1, SessionInvariant, PTL

(* A second 401 for one request needs a second reset at the Hub. *)
THEOREM OneResetIsSurvived == Spec => []SurvivesOneReset
<1>1. SessionInv => SurvivesOneReset
  BY DEF SessionInv, ResetInv, SurvivesOneReset
<1>2. QED
  BY <1>1, SessionInvariant, PTL

(* Nothing is sent and no session opened once close() has begun. *)
THEOREM ClosedSendsNoRequest == Spec => ClosedStaysClosed
<1>1. SessionInv /\ [Next]_vars =>
        [closed => /\ session' # "open"
                   /\ \A r \in Requests : wire'[r] = "sent" => wire[r] = "sent"]_vars
  <2> SUFFICES ASSUME SessionInv, [Next]_vars, closed
               PROVE  /\ session' # "open"
                      /\ \A r \in Requests : wire'[r] = "sent" => wire[r] = "sent"
    OBVIOUS
  <2>1. session # "open" /\ wire \in [Requests -> {"none", "sent"} \cup LoginAnswers \cup GetAnswers]
    BY DEF SessionInv, ClosedInv, TypeOK
  <2>2. ASSUME NEW r \in Requests, NEW outcome, End(r, outcome)
        PROVE  session' # "open" /\ \A s \in Requests : wire'[s] = "sent" => wire[s] = "sent"
    BY <2>1, <2>2 DEF End
  <2>3. ASSUME NEW r \in Requests, Start(r) \/ Returns(r) \/ Cancel(r)
        PROVE  \E outcome : End(r, outcome)
    BY <2>3 DEF Start, SendLogin, Send, Returns, LoginReturns, LoginRefused,
       GetReturns, GetRejected, ReplayRejected, ExchangeFails, Cancel
  <2>4. ASSUME NEW r \in Requests, HubAnswersLogin(r) \/ HubAnswersGet(r)
        PROVE  session' # "open" /\ \A s \in Requests : wire'[s] = "sent" => wire[s] = "sent"
    BY <2>1, <2>4 DEF HubAnswersLogin, HubAnswersGet, clientVars
  <2>5. CASE Reset \/ Close \/ CloseReturns \/ Tick \/ UNCHANGED vars
    BY <2>1, <2>5 DEF Reset, Close, CloseReturns, Forget, Tick, clientVars, vars
  <2>6. QED
    BY <2>2, <2>3, <2>4, <2>5 DEF Next, AllEnded
<1>2. QED
  BY <1>1, SessionInvariant, PTL DEF Spec, ClosedStaysClosed

(***************************************************************************)
(* A request that steps from one phase to another moves on to a later one, *)
(* and begins an exchange only by doing so.                                *)
(***************************************************************************)
MovesOn(r) ==
  /\ phase'[r] # phase[r] => Stage(phase[r]) < Stage(phase'[r])
  /\ wire[r] # "sent" /\ wire'[r] = "sent" => phase'[r] # phase[r]

LEMMA OneRequestMoves ==
  ASSUME TypeOK, NEW r \in Requests, Start(r) \/ Returns(r) \/ Cancel(r)
  PROVE  \A s \in Requests : MovesOn(s)
<1> DEFINE GoesTo(next) ==
             /\ phase' = [phase EXCEPT ![r] = next]
             /\ \E message \in {"sent", "none"} : wire' = [wire EXCEPT ![r] = message]
             /\ Stage(phase[r]) < Stage(next)
<1>1. \E next \in Waiting \cup Ended : GoesTo(next)
  <2>1. ASSUME NEW outcome \in Ended, End(r, outcome), phase[r] \notin Ended
        PROVE  GoesTo(outcome)
    BY <2>1 DEF End, Stage, TypeOK
  <2>2. ASSUME NEW next \in Waiting, NEW header, Send(r, next, header),
               Stage(phase[r]) < Stage(next), phase[r] \notin Ended
        PROVE  \E to \in Waiting \cup Ended : GoesTo(to)
    <3>1. CASE closed
      BY <2>1, <2>2, <3>1 DEF Send
    <3>2. CASE ~closed
      <4>1. GoesTo(next)
        BY <2>2, <3>2 DEF Send
      <4>2. QED
        BY <2>2, <4>1
    <3>3. QED
      BY <3>1, <3>2
  <2>3. CASE Start(r)
    BY <2>1, <2>2, <2>3 DEF Start, SendLogin, Stage
  <2>4. CASE LoginReturns(r)
    BY <2>1, <2>2, <2>4 DEF LoginReturns, After, Stage
  <2>5. CASE GetRejected(r)
    BY <2>1, <2>2, <2>5 DEF GetRejected, SendLogin, Stage
  <2>6. CASE LoginRefused(r) \/ GetReturns(r) \/ ReplayRejected(r)
               \/ ExchangeFails(r) \/ Cancel(r)
    BY <2>1, <2>6 DEF LoginRefused, GetReturns, ReplayRejected, ExchangeFails, Cancel
  <2>7. QED
    BY <2>3, <2>4, <2>5, <2>6 DEF Returns
<1>2. PICK next \in Waiting \cup Ended : GoesTo(next)
  BY <1>1
<1>3. next # phase[r]
  BY <1>2 DEF Stage
<1>4. QED
  BY <1>2, <1>3 DEF MovesOn, TypeOK

(* A request makes each of its exchanges once and never comes back to one. *)
THEOREM RequestsMoveOn == Spec => ExchangesMoveOn
<1>1. SessionInv /\ [Next]_vars => [\A r \in Requests : MovesOn(r)]_vars
  <2> SUFFICES ASSUME SessionInv, [Next]_vars
               PROVE  \A r \in Requests : MovesOn(r)
    OBVIOUS
  <2>1. TypeOK
    BY DEF SessionInv
  <2>2. ASSUME NEW r \in Requests, Start(r) \/ Returns(r) \/ Cancel(r)
        PROVE  \A s \in Requests : MovesOn(s)
    BY <2>1, <2>2, OneRequestMoves
  <2>3. ASSUME NEW r \in Requests, HubAnswersLogin(r) \/ HubAnswersGet(r)
        PROVE  \A s \in Requests : MovesOn(s)
    <3>1. PICK answer \in LoginAnswers \cup GetAnswers :
            phase' = phase /\ wire' = [wire EXCEPT ![r] = answer]
      BY <2>3 DEF HubAnswersLogin, HubAnswersGet
    <3>2. QED
      BY <2>1, <3>1 DEF MovesOn, TypeOK
  <2>4. CASE UNCHANGED <<phase, wire>>
    BY <2>4 DEF MovesOn
  <2>5. QED
    BY <2>2, <2>3, <2>4
    DEF Next, AllEnded, Reset, Close, CloseReturns, Tick, vars
<1>2. QED
  BY <1>1, SessionInvariant, PTL DEF Spec, ExchangesMoveOn, MovesOn
=============================================================================
