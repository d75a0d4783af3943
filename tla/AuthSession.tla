----------------------------- MODULE AuthSession -----------------------------
(***************************************************************************)
(* Signing in and out and the two ways to a new access token, called by    *)
(* the tabs of one browser: they share its cookies, each holds an access   *)
(* token of its own, and their calls may overlap, fail or lose their       *)
(* answer.                                                                 *)
(*                                                                         *)
(* A session and the refresh token made with it are one number.            *)
(***************************************************************************)
EXTENDS Naturals

CONSTANTS
  Users,
  Tabs,
  Calls,
  Nobody,      \* the empty userId
  None,        \* no token, cookie or session
  MaxSessions  \* bound: sessions ever made

ASSUME AuthAssumption ==
  /\ Nobody \notin Users /\ None \notin Users \cup {Nobody}
  /\ None \notin Nat
  /\ (Users \cup {Nobody}) \cap {"none", "deleted", "expired"} = {}
  /\ MaxSessions \in Nat

VARIABLES
  session, \* s:<id> in Redis
  made,    \* how many sessions were ever made
  ssid,    \* the cookies SSID and FTK
  ftk,
  token,   \* the user of the access token of each tab
  call

vars == <<session, made, ssid, ftk, token, call>>

-----------------------------------------------------------------------------
(* The data *)

Ids    == 1 .. MaxSessions
Cookie == Ids \cup {None}
Someone == Users \cup {Nobody}

Call == [op : {"none", "signIn", "rotate", "refresh", "signOut"},
         step : {"idle", "get", "set", "del", "answered", "done", "failed"},
         tab : Tabs,
         user : Someone \cup {None},  \* of the request, then of the answer
         ssid : Cookie, ftk : Cookie] \* of the request, then of the answer

TypeOK ==
  /\ session \in [Ids -> Someone \cup {"none", "deleted", "expired"}]
  /\ made \in 0 .. MaxSessions
  /\ ssid \in Cookie /\ ftk \in Cookie
  /\ token \in [Tabs -> Someone \cup {None}]
  /\ call \in [Calls -> Call]

Init ==
  /\ session = [s \in Ids |-> "none"] /\ made = 0
  /\ ssid = None /\ ftk = None
  /\ token = [t \in Tabs |-> None]
  /\ call \in [Calls -> {[op |-> "none", step |-> "idle", tab |-> t, user |-> None,
                          ssid |-> None, ftk |-> None] : t \in Tabs}]

(* What redisService.get finds. *)
Found(s) == s # None /\ session[s] \in Someone

-----------------------------------------------------------------------------
(* The requests, with the cookies and the token they are sent with *)

Send(c, op, step, user) ==
  /\ call[c].op = "none"
  /\ call' = [call EXCEPT ![c] = [op |-> op, step |-> step, tab |-> call[c].tab,
                                  user |-> user, ssid |-> ssid, ftk |-> ftk]]
  /\ UNCHANGED <<session, made, ssid, ftk, token>>

SignIn(c, u) == Send(c, "signIn", "set", u)

(* The guard accepts no token without a user. *)
Rotate(c) ==
  /\ token[call[c].tab] \in Users /\ ssid # None /\ ftk # None
  /\ Send(c, "rotate", "get", token[call[c].tab])

(* Mutant: the user is left out instead of empty. *)
RefreshUndefined(c) == ssid # None /\ ftk # None /\ Send(c, "refresh", "get", None)

Refresh(c) == ssid # None /\ ftk # None /\ Send(c, "refresh", "get", Nobody)

SignOut(c) ==
  /\ token[call[c].tab] \in Users /\ ssid # None
  /\ Send(c, "signOut", "get", token[call[c].tab])

-----------------------------------------------------------------------------
(* The service *)

Goto(c, step, user, s, f) ==
  call' = [call EXCEPT ![c] = [op |-> call[c].op, step |-> step, tab |-> call[c].tab,
                               user |-> user, ssid |-> s, ftk |-> f]]

(* Mutant: the user of the request is not looked at before the session's. *)
GetSessionOwner(c) ==
  /\ call[c].step = "get" /\ call[c].op \in {"rotate", "refresh"}
  /\ IF ~ Found(call[c].ssid)
     THEN Goto(c, "set", call[c].user, None, None)
     ELSE IF call[c].ftk # call[c].ssid
     THEN Goto(c, "failed", call[c].user, None, None)
     ELSE Goto(c, "answered", call[c].user, None, None)
  /\ UNCHANGED <<session, made, ssid, ftk, token>>

(* Without a session rotateToken makes one for the user it was called with; a
   refresh is called with none. *)
GetSession(c) ==
  /\ call[c].step = "get" /\ call[c].op \in {"rotate", "refresh"}
  /\ IF ~ Found(call[c].ssid)
     THEN Goto(c, "set", call[c].user, None, None)
     ELSE IF call[c].ftk # call[c].ssid
     THEN Goto(c, "failed", call[c].user, None, None)
     ELSE Goto(c, "answered",
               IF call[c].user = Nobody THEN session[call[c].ssid] ELSE call[c].user, None, None)
  /\ UNCHANGED <<session, made, ssid, ftk, token>>

CheckOwner(c) ==
  /\ call[c].step = "get" /\ call[c].op = "signOut"
  /\ Goto(c, IF session[call[c].ssid] = call[c].user THEN "del" ELSE "answered",
          None, call[c].ssid, None)
  /\ UNCHANGED <<session, made, ssid, ftk, token>>

SetSession(c) ==
  /\ call[c].step = "set" /\ made < MaxSessions
  /\ made' = made + 1
  /\ session' = [session EXCEPT ![made + 1] = call[c].user]
  /\ Goto(c, "answered", call[c].user, made + 1, made + 1)
  /\ UNCHANGED <<ssid, ftk, token>>

DelSession(c) ==
  /\ call[c].step = "del"
  /\ session' = [session EXCEPT ![call[c].ssid] = "deleted"]
  /\ Goto(c, "answered", None, None, None)
  /\ UNCHANGED <<made, ssid, ftk, token>>

-----------------------------------------------------------------------------
(* The browser *)

(* Mutant: only the session's cookie is cleared. *)
AnswerHalf(c) ==
  /\ call[c].step = "answered"
  /\ CASE call[c].op = "signOut"  -> ssid' = None /\ UNCHANGED ftk
       [] call[c].op # "signOut" /\ call[c].ftk # None -> ssid' = call[c].ssid /\ UNCHANGED ftk
       [] OTHER -> UNCHANGED <<ssid, ftk>>
  /\ token' = [token EXCEPT ![call[c].tab] = call[c].user]
  /\ Goto(c, "done", None, None, None)
  /\ UNCHANGED <<session, made>>

(* Mutant: the cookies are cleared only when the session was. *)
AnswerKeeping(c) ==
  /\ call[c].step = "answered"
  /\ IF call[c].ftk # None THEN ssid' = call[c].ssid /\ ftk' = call[c].ftk
     ELSE UNCHANGED <<ssid, ftk>>
  /\ token' = [token EXCEPT ![call[c].tab] = call[c].user]
  /\ Goto(c, "done", None, None, None)
  /\ UNCHANGED <<session, made>>

(* Both cookies are set or cleared, or neither; a tab that signs out forgets
   its token. *)
Answer(c) ==
  /\ call[c].step = "answered"
  /\ CASE call[c].op = "signOut"  -> ssid' = None /\ ftk' = None
       [] call[c].op # "signOut" /\ call[c].ftk # None ->
            ssid' = call[c].ssid /\ ftk' = call[c].ftk
       [] OTHER -> UNCHANGED <<ssid, ftk>>
  /\ token' = [token EXCEPT ![call[c].tab] = call[c].user]
  /\ Goto(c, "done", None, None, None)
  /\ UNCHANGED <<session, made>>

(* An await throws, or the answer is lost. *)
Fail(c) ==
  /\ call[c].step \in {"get", "set", "del", "answered"}
  /\ Goto(c, "failed", None, None, None)
  /\ UNCHANGED <<session, made, ssid, ftk, token>>

TokenExpires(t) ==
  /\ token[t] # None
  /\ token' = [token EXCEPT ![t] = None]
  /\ UNCHANGED <<session, made, ssid, ftk, call>>

SessionExpires(s) ==
  /\ session[s] \in Someone
  /\ session' = [session EXCEPT ![s] = "expired"]
  /\ UNCHANGED <<made, ssid, ftk, token, call>>

-----------------------------------------------------------------------------
Step(c) ==
  \/ \E u \in Users : SignIn(c, u)
  \/ Rotate(c) \/ Refresh(c) \/ SignOut(c)
  \/ GetSession(c) \/ CheckOwner(c) \/ SetSession(c) \/ DelSession(c)
  \/ Answer(c) \/ Fail(c)

Next ==
  \/ \E c \in Calls : Step(c)
  \/ \E t \in Tabs : TokenExpires(t)
  \/ \E s \in Ids : SessionExpires(s)

Spec == Init /\ [][Next]_vars

-----------------------------------------------------------------------------
(* Properties *)

InFlight(c) == call[c].step \in {"get", "set", "del", "answered"}

(* However the answers of the tabs interleave, the two cookies are of one
   session: no refresh token is ever refused (auth.service.ts:126). *)
CookiesAgree ==
  /\ ssid = ftk
  /\ \A c \in Calls : call[c].op \in {"rotate", "refresh"} => call[c].ssid = call[c].ftk

(* Calls that do not overlap, get their answer and are faster than the expiry
   leave the browser signed in, with cookies of a session that is there and
   has a user, or signed out (auth.resolver.ts:151): the cookies of a lost
   session, and a session of nobody, take a failure or a second tab. *)
Orderly ==
  /\ \A c, d \in Calls : c # d => ~ (InFlight(c) /\ InFlight(d))
  /\ \A c \in Calls : call[c].step # "failed"
  /\ \A s \in Ids : session[s] # "expired"
SignedIn ==
  (\A c \in Calls : ~ InFlight(c)) /\ ssid # None => session[ssid] \in Users
OrderlyIsSignedIn == []Orderly => []SignedIn

(* A token without a user, which every guard refuses, is given only by a
   refresh that did not find its session, and by those after it: never by a
   rotation, and never before a session was lost (auth.service.ts:116). *)
Lost == \E s \in Ids : session[s] \in {"deleted", "expired"}
NobodyAfterLoss ==
  /\ Nobody \in {session[s] : s \in Ids} \cup {token[t] : t \in Tabs} => Lost
  /\ \A c \in Calls : call[c].op \in {"signIn", "rotate"} => call[c].user # Nobody
-----------------------------------------------------------------------------
(* The inductive invariant *)

(* Pairs travel as pairs; a sign-out sends its own back alone. *)
AgreeInv == ssid = ftk /\ \A c \in Calls : call[c].op # "signOut" => call[c].ssid = call[c].ftk

(* Sessions are numbered as they are made, and a name that is given out is of
   a session that was made. *)
MadeInv ==
  /\ \A s \in Ids : session[s] = "none" <=> s > made
  /\ ssid # None => ssid \in 1 .. made
  /\ \A c \in Calls :
       /\ call[c].ssid # None => call[c].ssid \in 1 .. made
       /\ call[c].step \in {"get", "del"} => call[c].ssid # None
       /\ call[c].step \in {"get", "set"} => call[c].user \in Someone

(* Who is about to answer for nobody has seen that a session is gone. *)
NobodyInv ==
  /\ \A s \in Ids : session[s] = Nobody => Lost
  /\ \A t \in Tabs : token[t] = Nobody => Lost
  /\ \A c \in Calls : call[c].user = Nobody =>
       call[c].op = "refresh" /\ (call[c].step \in {"set", "answered"} => Lost)

IInv == TypeOK /\ AgreeInv /\ MadeInv /\ NobodyInv

(* Of orderly calls: the browser's session is there until a sign-out has
   deleted it, a request still has the browser's cookies, and no session is
   made for nobody. *)
SigningOut == \E c \in Calls : call[c].op = "signOut" /\ call[c].step = "answered"

OrderlyInv ==
  /\ ssid # None /\ ~ SigningOut => session[ssid] \in Users
  /\ \A c \in Calls :
       /\ call[c].step \in {"get", "del"} => call[c].ssid = ssid
       /\ call[c].step = "del" => call[c].op = "signOut"
       /\ call[c].step = "set" => call[c].user \in Users
       /\ call[c].step = "answered" /\ call[c].op # "signOut" /\ call[c].ssid # None =>
            session[call[c].ssid] \in Users
=============================================================================
