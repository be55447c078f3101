--------------------------- MODULE BeszelSession ---------------------------
(***************************************************************************)
(* BeszelClient (core/beszel/client): authenticated requests that share    *)
(* one access token and one HTTP session.                                  *)
(*                                                                         *)
(* A request is one call of _authenticated_json.  It logs in when no token *)
(* is known or the token is due, sends its GET, and after a 401 logs in    *)
(* once more and repeats the GET.  One action is what a request runs       *)
(* between two suspensions: sending follows the choice of the token with   *)
(* nothing in between.                                                     *)
(*                                                                         *)
(* The Hub treats an expired token as a guest's, so that a request sent    *)
(* too late gets an answer for guests instead of a 401.  The clock is the  *)
(* client's; the Hub's may run ahead of it by Skew.                        *)
(***************************************************************************)
EXTENDS Integers

CONSTANTS
  Requests,   \* calls of _authenticated_json
  NoToken,    \* _token is None
  Timeout,    \* timeout_seconds: an exchange takes no longer
  Margin,     \* TOKEN_RENEWAL_MARGIN_SECONDS
  Fallback,   \* TOKEN_FALLBACK_LIFETIME_SECONDS
  Lifetime,   \* of a token, at the Hub
  Skew,       \* how far the Hub's clock is ahead
  MaxNow,     \* bound: the clock stops here
  MaxResets   \* bound: the account's sessions are reset so often

ASSUME SessionAssumption ==
  /\ {Timeout, Margin, Fallback, Lifetime, Skew, MaxNow, MaxResets}
       \subseteq Nat
  /\ Timeout + Skew <= Margin
  /\ 2 * Timeout < Lifetime
  /\ 2 * Timeout + Fallback <= Lifetime
  /\ \A r \in Requests : NoToken # <<r, "login">> /\ NoToken # <<r, "relogin">>

(* A token is named after the login it was issued to. *)
Logins == {"login", "relogin"}
Tokens == Requests \X Logins

VARIABLES
  phase,       \* where each request is
  wire,        \* its exchange with the Hub: nothing, sent, or the answer
  used,        \* the token in its Authorization header
  sentAt,      \* when the exchange began
  token,       \* _token
  renewAt,     \* _token_expires_at
  issued,      \* tokens the Hub has issued
  expiry,      \* their exp claim, in the Hub's time
  revoked,     \* tokens the Hub no longer accepts
  resets,      \* how often that happened
  now,         \* time.time()
  session,     \* _session: none, open, or being closed
  closed,      \* _closed
  queryReady   \* e-mail and password are configured

vars == <<phase, wire, used, sentAt, token, renewAt, issued, expiry, revoked,
          resets, now, session, closed, queryReady>>

tokenVars == <<token, renewAt>>
hubVars == <<issued, expiry, revoked, resets>>
clientVars == <<session, closed, queryReady>>

Waiting == {"login", "get", "relogin", "replay"}
Ended == {"done", "failed", "denied", "cancelled"}
LoginAnswers == {"token", "refused", "error"}
GetAnswers == {"data", "guest", "unauthorized", "forbidden", "error"}

Init ==
  /\ phase = [r \in Requests |-> "idle"]
  /\ wire = [r \in Requests |-> "none"]
  /\ used = [r \in Requests |-> NoToken]
  /\ sentAt = [r \in Requests |-> 0]
  /\ token = NoToken
  /\ renewAt = 0
  /\ issued = {}
  /\ expiry = [t \in Tokens |-> 0]
  /\ revoked = {}
  /\ resets = 0
  /\ now = 0
  /\ session = "none"
  /\ closed = FALSE
  /\ queryReady \in BOOLEAN

(* The request returns or raises. *)
End(r, outcome) ==
  /\ phase' = [phase EXCEPT ![r] = outcome]
  /\ wire' = [wire EXCEPT ![r] = "none"]
  /\ used' = [used EXCEPT ![r] = NoToken]
  /\ sentAt' = [sentAt EXCEPT ![r] = 0]
  /\ UNCHANGED session

(* Faulty variant: a closed client opens another session. *)
SendReopens(r, next, header) ==
  /\ session' = "open"
  /\ phase' = [phase EXCEPT ![r] = next]
  /\ wire' = [wire EXCEPT ![r] = "sent"]
  /\ used' = [used EXCEPT ![r] = header]
  /\ sentAt' = [sentAt EXCEPT ![r] = now]

(* An exchange begins, in a session opened on demand, unless closed. *)
Send(r, next, header) ==
  IF closed
    THEN End(r, "failed")
    ELSE /\ session' = "open"
         /\ phase' = [phase EXCEPT ![r] = next]
         /\ wire' = [wire EXCEPT ![r] = "sent"]
         /\ used' = [used EXCEPT ![r] = header]
         /\ sentAt' = [sentAt EXCEPT ![r] = now]

(* _login up to its first suspension. *)
SendLogin(r, login) ==
  IF queryReady THEN Send(r, login, NoToken) ELSE End(r, "denied")

(* Faulty variant: a token is still used at its renewal time. *)
DueTooLate == token = NoToken \/ now > renewAt

Due == token = NoToken \/ now >= renewAt

Start(r) ==
  /\ phase[r] = "idle"
  /\ IF Due THEN SendLogin(r, "login") ELSE Send(r, "get", token)
  /\ UNCHANGED <<tokenVars, hubVars, now, closed, queryReady>>

(***************************************************************************)
(* The Hub answers.  It may refuse a login or fail for reasons of its own; *)
(* it rejects with 401 only tokens it has revoked.                         *)
(***************************************************************************)
HubAnswersLogin(r) ==
  /\ phase[r] \in Logins
  /\ wire[r] = "sent"
  /\ \E answer \in LoginAnswers :
       /\ wire' = [wire EXCEPT ![r] = answer]
       /\ IF answer = "token"
            THEN /\ issued' = issued \cup {<<r, phase[r]>>}
                 /\ expiry' = [expiry EXCEPT ![<<r, phase[r]>>] = now + Skew + Lifetime]
            ELSE UNCHANGED <<issued, expiry>>
  /\ UNCHANGED <<phase, used, sentAt, tokenVars, revoked, resets, now,
                 clientVars>>

IsGuest(t) == t \notin issued \/ now + Skew >= expiry[t]

HubAnswersGet(r) ==
  /\ phase[r] \in {"get", "replay"}
  /\ wire[r] = "sent"
  /\ \E answer \in GetAnswers :
       /\ answer = "guest" <=> (IsGuest(used[r]) /\ answer # "error")
       /\ answer = "unauthorized" => used[r] \in revoked
       /\ answer \in {"data", "forbidden"} => used[r] \notin revoked
       /\ wire' = [wire EXCEPT ![r] = answer]
  /\ UNCHANGED <<phase, used, sentAt, tokenVars, hubVars, now, clientVars>>

(* The account's sessions are reset: every token so far becomes invalid. *)
Reset ==
  /\ resets < MaxResets
  /\ resets' = resets + 1
  /\ revoked' = issued
  /\ UNCHANGED <<phase, wire, used, sentAt, tokenVars, issued, expiry, now,
                 clientVars>>

(***************************************************************************)
(* _login returns.  The token is stored even if the client was closed      *)
(* meanwhile; the GET that follows is sent at once, with this token.  The  *)
(* exp claim may be unreadable.                                            *)
(***************************************************************************)
After(login) == IF login = "login" THEN "get" ELSE "replay"

LoginReturns(r) ==
  /\ phase[r] \in Logins
  /\ wire[r] = "token"
  /\ LET t == <<r, phase[r]>> IN
       /\ token' = t
       /\ renewAt' \in {expiry[t] - Margin, now + Fallback}
       /\ Send(r, After(phase[r]), t)
  /\ UNCHANGED <<hubVars, now, closed, queryReady>>

LoginRefused(r) ==
  /\ phase[r] \in Logins
  /\ wire[r] = "refused"
  /\ End(r, "denied")
  /\ UNCHANGED <<tokenVars, hubVars, now, closed, queryReady>>

(* A page of records, what a guest sees, or HTTP 403. *)
GetReturns(r) ==
  /\ phase[r] \in {"get", "replay"}
  /\ wire[r] \in {"data", "guest", "forbidden"}
  /\ End(r, IF wire[r] = "forbidden" THEN "denied" ELSE "done")
  /\ UNCHANGED <<tokenVars, hubVars, now, closed, queryReady>>

(* Faulty variants: the repetition takes the token another request has got *)
(* meanwhile; the repetition is repeated.                                  *)
GetRejectedReuses(r) ==
  /\ phase[r] = "get"
  /\ wire[r] = "unauthorized"
  /\ IF token = used[r] \/ Due
       THEN token' = NoToken /\ SendLogin(r, "relogin")
       ELSE token' = token /\ Send(r, "replay", token)
  /\ UNCHANGED <<renewAt, hubVars, now, closed, queryReady>>

ReplayAgain(r) ==
  /\ phase[r] = "replay"
  /\ wire[r] = "unauthorized"
  /\ Send(r, "replay", token)
  /\ UNCHANGED <<tokenVars, hubVars, now, closed, queryReady>>

(* The first 401: whatever token is stored by now is dropped. *)
GetRejected(r) ==
  /\ phase[r] = "get"
  /\ wire[r] = "unauthorized"
  /\ token' = NoToken
  /\ SendLogin(r, "relogin")
  /\ UNCHANGED <<renewAt, hubVars, now, closed, queryReady>>

(* The second 401. *)
ReplayRejected(r) ==
  /\ phase[r] = "replay"
  /\ wire[r] = "unauthorized"
  /\ End(r, "denied")
  /\ UNCHANGED <<tokenVars, hubVars, now, closed, queryReady>>

(* A timeout, a lost connection, another HTTP error, an unreadable body. *)
ExchangeFails(r) ==
  /\ phase[r] \in Waiting
  /\ End(r, "failed")
  /\ UNCHANGED <<tokenVars, hubVars, now, closed, queryReady>>

Cancel(r) ==
  /\ phase[r] \in Waiting
  /\ End(r, "cancelled")
  /\ UNCHANGED <<tokenVars, hubVars, now, closed, queryReady>>

(***************************************************************************)
(* close(): the flag first, then the session, then the token.              *)
(***************************************************************************)
Forget ==
  /\ session' = "none"
  /\ token' = NoToken
  /\ renewAt' = 0

Close ==
  /\ ~closed
  /\ closed' = TRUE
  /\ IF session = "open"
       THEN session' = "closing" /\ UNCHANGED tokenVars
       ELSE Forget
  /\ UNCHANGED <<phase, wire, used, sentAt, hubVars, now, queryReady>>

CloseReturns ==
  /\ session = "closing"
  /\ Forget
  /\ UNCHANGED <<phase, wire, used, sentAt, hubVars, now, closed, queryReady>>

(* Time passes; an exchange that has reached its timeout ends first. *)
Tick ==
  /\ now < MaxNow
  /\ \A r \in Requests : phase[r] \in Waiting => now < sentAt[r] + Timeout
  /\ now' = now + 1
  /\ UNCHANGED <<phase, wire, used, sentAt, tokenVars, hubVars, clientVars>>

AllEnded ==
  /\ \A r \in Requests : phase[r] \in Ended
  /\ UNCHANGED vars

Returns(r) ==
  \/ LoginReturns(r)
  \/ LoginRefused(r)
  \/ GetReturns(r)
  \/ GetRejected(r)
  \/ ReplayRejected(r)
  \/ ExchangeFails(r)

Next ==
  \/ \E r \in Requests :
       \/ Start(r)
       \/ HubAnswersLogin(r)
       \/ HubAnswersGet(r)
       \/ Returns(r)
       \/ Cancel(r)
  \/ Reset
  \/ Close
  \/ CloseReturns
  \/ Tick
  \/ AllEnded

Spec == Init /\ [][Next]_vars
-----------------------------------------------------------------------------
MaxExpiry == MaxNow + Skew + Lifetime

(* Every variable has the type its declaration says. *)
TypeOK ==
  /\ phase \in [Requests -> {"idle"} \cup Waiting \cup Ended]
  /\ wire \in [Requests -> {"none", "sent"} \cup LoginAnswers \cup GetAnswers]
  /\ used \in [Requests -> Tokens \cup {NoToken}]
  /\ sentAt \in [Requests -> 0 .. MaxNow]
  /\ token \in Tokens \cup {NoToken}
  /\ renewAt \in -Margin .. MaxExpiry
  /\ issued \subseteq Tokens
  /\ expiry \in [Tokens -> 0 .. MaxExpiry]
  /\ revoked \subseteq issued
  /\ resets \in 0 .. MaxResets
  /\ now \in 0 .. MaxNow
  /\ session \in {"none", "open", "closing"}
  /\ closed \in BOOLEAN
  /\ queryReady \in BOOLEAN

(* A GET that leaves now with token t reaches the Hub before t expires. *)
Usable(t, time) == t \in issued /\ time + Timeout + Skew < expiry[t]

(* What is sent, and what is kept for later requests, is usable. *)
SentInv ==
  \A r \in Requests :
    /\ wire[r] # "guest"
    /\ phase[r] \in {"get", "replay"} => Usable(used[r], sentAt[r])

KeptInv ==
  token # NoToken => token \in issued /\ renewAt + Timeout + Skew <= expiry[token]

(* A request's token is issued while it waits for it, and lives on. *)
LoginInv ==
  \A r \in Requests : \A login \in Logins :
    /\ <<r, login>> \in issued =>
         \/ phase[r] # login /\ phase[r] # "idle"
         \/ phase[r] = login /\ wire[r] # "sent"
    /\ <<r, "relogin">> \in issued => phase[r] \notin {"login", "get"}
    /\ phase[r] = login /\ wire[r] = "token" =>
         <<r, login>> \in issued /\ sentAt[r] + Skew + Lifetime <= expiry[<<r, login>>]

(* No exchange is older than its timeout. *)
WaitInv ==
  \A r \in Requests :
    phase[r] \in Waiting => sentAt[r] <= now /\ now <= sentAt[r] + Timeout

(* A second 401 needs a second reset: the token of the repetition is the   *)
(* request's own, issued after the first 401.                              *)
ResetInv ==
  /\ revoked # {} => resets >= 1
  /\ \A r \in Requests :
       /\ <<r, "relogin">> \in issued => resets >= 1
       /\ <<r, "relogin">> \in revoked => resets >= 2
       /\ phase[r] \in {"relogin", "replay"} => resets >= 1
       /\ wire[r] = "unauthorized" => used[r] \in revoked
       /\ phase[r] = "replay" => used[r] = <<r, "relogin">>

ClosedInv == closed => session # "open"

SessionInv ==
  TypeOK /\ SentInv /\ KeptInv /\ LoginInv /\ WaitInv /\ ResetInv /\ ClosedInv

(***************************************************************************)
(* "PocketBase treats an expired token as a guest instead of answering     *)
(* 401, so renewal is scheduled": no request ever gets a guest's answer,   *)
(* an empty list that nothing would tell from the truth.                   *)
(***************************************************************************)
NeverGuest == \A r \in Requests : wire[r] # "guest"

(***************************************************************************)
(* One reset of the account's sessions is ridden out: a request is turned  *)
(* away by a second 401 only after a second reset, however the requests    *)
(* that clear and renew the shared token interleave.                       *)
(***************************************************************************)
SurvivesOneReset ==
  \A r \in Requests :
    phase[r] = "replay" /\ wire[r] = "unauthorized" => resets >= 2

(***************************************************************************)
(* After close() has begun nothing is sent and no session is opened, also  *)
(* not by a request that was logging in and now has its token.             *)
(***************************************************************************)
ClosedStaysClosed ==
  [][closed =>
       /\ session' # "open"
       /\ \A r \in Requests : wire'[r] = "sent" => wire[r] = "sent"]_vars

(***************************************************************************)
(* A request moves on through its exchanges, makes each of them once and    *)
(* never comes back to one, whatever the Hub answers and other requests do *)
(* to the token: it has at most four, none of which is older than its      *)
(* timeout (WaitInv), and then returns or raises (_request_json).          *)
(***************************************************************************)
Stage(p) ==
  CASE p = "idle"    -> 0
    [] p = "login"   -> 1
    [] p = "get"     -> 2
    [] p = "relogin" -> 3
    [] p = "replay"  -> 4
    [] OTHER         -> 5

ExchangesMoveOn ==
  [][\A r \in Requests :
       /\ phase'[r] # phase[r] => Stage(phase[r]) < Stage(phase'[r])
       /\ wire[r] # "sent" /\ wire'[r] = "sent" => phase'[r] # phase[r]]_vars
=============================================================================
