-------------------------- MODULE AuthSession_proofs --------------------------
(***************************************************************************)
(* Proofs about AuthSession for every number of users, tabs, calls and     *)
(* sessions: type correctness, that the two cookies are of one session,    *)
(* that a token without a user takes a lost session, and that orderly      *)
(* calls leave the browser signed in or signed out.                        *)
(*                                                                         *)
(* The invariant is IInv.  AgreeInv says which pairs are on their way in   *)
(* calls; MadeInv that sessions are numbered as they are made, so a name   *)
(* that is given out is of a session that was there.                       *)
(***************************************************************************)
EXTENDS AuthSession, TLAPS

-----------------------------------------------------------------------------
(* The initial states satisfy the inductive invariant. *)
LEMMA InitInv == Init => IInv
BY AuthAssumption
DEF Init, IInv, TypeOK, AgreeInv, MadeInv, NobodyInv, Ids, Cookie, Someone, Call

(* Every step keeps the types. *)
LEMMA TypeStep == TypeOK /\ MadeInv /\ [Next]_vars => TypeOK'
<1>. USE AuthAssumption DEF TypeOK, MadeInv, Ids, Cookie, Someone, Call
<1>. SUFFICES ASSUME TypeOK, MadeInv, [Next]_vars PROVE TypeOK'
  OBVIOUS
<1>1. ASSUME NEW c \in Calls, NEW u \in Users, SignIn(c, u)
      PROVE  TypeOK'
  BY <1>1 DEF SignIn, Send
<1>2. ASSUME NEW c \in Calls, Rotate(c)
      PROVE  TypeOK'
  BY <1>2 DEF Rotate, Send
<1>3. ASSUME NEW c \in Calls, Refresh(c)
      PROVE  TypeOK'
  BY <1>3 DEF Refresh, Send
<1>4. ASSUME NEW c \in Calls, SignOut(c)
      PROVE  TypeOK'
  BY <1>4 DEF SignOut, Send
<1>5. ASSUME NEW c \in Calls, GetSession(c)
      PROVE  TypeOK'
  BY <1>5 DEF GetSession, Goto, Found
<1>6. ASSUME NEW c \in Calls, CheckOwner(c)
      PROVE  TypeOK'
  BY <1>6 DEF CheckOwner, Goto
<1>7. ASSUME NEW c \in Calls, SetSession(c)
      PROVE  TypeOK'
  BY <1>7 DEF SetSession, Goto
<1>8. ASSUME NEW c \in Calls, DelSession(c)
      PROVE  TypeOK'
  BY <1>8 DEF DelSession, Goto
<1>9. ASSUME NEW c \in Calls, Answer(c)
      PROVE  TypeOK'
  BY <1>9 DEF Answer, Goto
<1>10. ASSUME NEW c \in Calls, Fail(c)
      PROVE  TypeOK'
  BY <1>10 DEF Fail, Goto
<1>11. ASSUME NEW t \in Tabs, TokenExpires(t)
      PROVE  TypeOK'
  BY <1>11 DEF TokenExpires
<1>12. ASSUME NEW s \in Ids, SessionExpires(s)
      PROVE  TypeOK'
  BY <1>12 DEF SessionExpires
<1>13. CASE UNCHANGED vars
  BY <1>13 DEF vars
<1>. HIDE DEF TypeOK
<1>. QED
  BY <1>1, <1>2, <1>3, <1>4, <1>5, <1>6, <1>7, <1>8, <1>9, <1>10, <1>11, <1>12, <1>13
  DEF Next, Step

(* A step moves the cookies in pairs. *)
LEMMA AgreeStep == TypeOK /\ AgreeInv /\ [Next]_vars => AgreeInv'
<1>. USE DEF TypeOK, AgreeInv
<1>. SUFFICES ASSUME TypeOK, AgreeInv, [Next]_vars PROVE AgreeInv'
  OBVIOUS
<1>1. ASSUME NEW c \in Calls, NEW u \in Users, SignIn(c, u)
      PROVE  AgreeInv'
  BY <1>1 DEF SignIn, Send
<1>2. ASSUME NEW c \in Calls, Rotate(c)
      PROVE  AgreeInv'
  BY <1>2 DEF Rotate, Send
<1>3. ASSUME NEW c \in Calls, Refresh(c)
      PROVE  AgreeInv'
  BY <1>3 DEF Refresh, Send
<1>4. ASSUME NEW c \in Calls, SignOut(c)
      PROVE  AgreeInv'
  BY <1>4 DEF SignOut, Send
<1>5. ASSUME NEW c \in Calls, GetSession(c)
      PROVE  AgreeInv'
  BY <1>5 DEF GetSession, Goto, Found
<1>6. ASSUME NEW c \in Calls, CheckOwner(c)
      PROVE  AgreeInv'
  BY <1>6 DEF CheckOwner, Goto
<1>7. ASSUME NEW c \in Calls, SetSession(c)
      PROVE  AgreeInv'
  BY <1>7, AuthAssumption DEF SetSession, Goto, Call, Ids, Cookie
<1>8. ASSUME NEW c \in Calls, DelSession(c)
      PROVE  AgreeInv'
  BY <1>8 DEF DelSession, Goto
<1>9. ASSUME NEW c \in Calls, Answer(c)
      PROVE  AgreeInv'
  BY <1>9, AuthAssumption DEF Answer, Goto
<1>10. ASSUME NEW c \in Calls, Fail(c)
      PROVE  AgreeInv'
  BY <1>10 DEF Fail, Goto
<1>11. CASE UNCHANGED <<ssid, ftk, call>>
  BY <1>11
<1>. HIDE DEF AgreeInv
<1>. QED
  BY <1>1, <1>2, <1>3, <1>4, <1>5, <1>6, <1>7, <1>8, <1>9, <1>10, <1>11
  DEF Next, Step, SessionExpires, TokenExpires, vars

(* A name is given out only when its session is made. *)
LEMMA MadeStep == TypeOK /\ MadeInv /\ [Next]_vars => MadeInv'
<1>. USE AuthAssumption DEF TypeOK, MadeInv, Ids, Cookie, Someone
<1>. SUFFICES ASSUME TypeOK, MadeInv, [Next]_vars PROVE MadeInv'
  OBVIOUS
<1>1. ASSUME NEW c \in Calls, NEW u \in Users, SignIn(c, u)
      PROVE  MadeInv'
  BY <1>1 DEF SignIn, Send
<1>2. ASSUME NEW c \in Calls, Rotate(c)
      PROVE  MadeInv'
  BY <1>2 DEF Rotate, Send
<1>3. ASSUME NEW c \in Calls, Refresh(c)
      PROVE  MadeInv'
  BY <1>3 DEF Refresh, Send
<1>4. ASSUME NEW c \in Calls, SignOut(c)
      PROVE  MadeInv'
  BY <1>4 DEF SignOut, Send
<1>5. ASSUME NEW c \in Calls, GetSession(c)
      PROVE  MadeInv'
  <2>1. /\ call'[c].ssid = None /\ call'[c].step \notin {"get", "del"}
        /\ call'[c].step = "set" => call'[c].user \in Someone
    BY <1>5 DEF GetSession, Goto
  <2>2. \A d \in Calls \ {c} : call'[d] = call[d]
    BY <1>5 DEF GetSession, Goto
  <2>. QED
    BY <1>5, <2>1, <2>2 DEF GetSession
<1>6. ASSUME NEW c \in Calls, CheckOwner(c)
      PROVE  MadeInv'
  BY <1>6 DEF CheckOwner, Goto
<1>7. ASSUME NEW c \in Calls, SetSession(c)
      PROVE  MadeInv'
  BY <1>7 DEF SetSession, Goto
<1>8. ASSUME NEW c \in Calls, DelSession(c)
      PROVE  MadeInv'
  BY <1>8 DEF DelSession, Goto
<1>9. ASSUME NEW c \in Calls, Answer(c)
      PROVE  MadeInv'
  BY <1>9 DEF Answer, Goto
<1>10. ASSUME NEW c \in Calls, Fail(c)
      PROVE  MadeInv'
  BY <1>10 DEF Fail, Goto
<1>11. ASSUME NEW s \in Ids, SessionExpires(s)
      PROVE  MadeInv'
  BY <1>11 DEF SessionExpires
<1>12. CASE UNCHANGED <<session, made, ssid, call>>
  BY <1>12
<1>. HIDE DEF MadeInv
<1>. QED
  BY <1>1, <1>2, <1>3, <1>4, <1>5, <1>6, <1>7, <1>8, <1>9, <1>10, <1>11, <1>12
  DEF Next, Step, TokenExpires, vars

(* Nobody enters only through a refresh that finds its session gone. *)
LEMMA NobodyStep == TypeOK /\ AgreeInv /\ MadeInv /\ NobodyInv /\ [Next]_vars => NobodyInv'
<1>. USE AuthAssumption DEF TypeOK, MadeInv, NobodyInv, Lost, Ids, Cookie, Someone
<1>. SUFFICES ASSUME TypeOK, AgreeInv, MadeInv, NobodyInv, [Next]_vars PROVE NobodyInv'
  OBVIOUS
<1>1. ASSUME NEW c \in Calls, NEW u \in Users, SignIn(c, u)
      PROVE  NobodyInv'
  BY <1>1 DEF SignIn, Send
<1>2. ASSUME NEW c \in Calls, Rotate(c)
      PROVE  NobodyInv'
  BY <1>2 DEF Rotate, Send
<1>3. ASSUME NEW c \in Calls, Refresh(c)
      PROVE  NobodyInv'
  BY <1>3 DEF Refresh, Send
<1>4. ASSUME NEW c \in Calls, SignOut(c)
      PROVE  NobodyInv'
  BY <1>4 DEF SignOut, Send
<1>5. ASSUME NEW c \in Calls, GetSession(c)
      PROVE  NobodyInv'
  BY <1>5 DEF GetSession, Goto, Found
<1>6. ASSUME NEW c \in Calls, CheckOwner(c)
      PROVE  NobodyInv'
  BY <1>6 DEF CheckOwner, Goto
<1>7. ASSUME NEW c \in Calls, SetSession(c)
      PROVE  NobodyInv'
  BY <1>7 DEF SetSession, Goto
<1>8. ASSUME NEW c \in Calls, DelSession(c)
      PROVE  NobodyInv'
  BY <1>8 DEF DelSession, Goto
<1>9. ASSUME NEW c \in Calls, Answer(c)
      PROVE  NobodyInv'
  BY <1>9 DEF Answer, Goto
<1>10. ASSUME NEW c \in Calls, Fail(c)
      PROVE  NobodyInv'
  BY <1>10 DEF Fail, Goto
<1>11. ASSUME NEW t \in Tabs, TokenExpires(t)
      PROVE  NobodyInv'
  BY <1>11 DEF TokenExpires
<1>12. ASSUME NEW s \in Ids, SessionExpires(s)
      PROVE  NobodyInv'
  BY <1>12 DEF SessionExpires
<1>13. CASE UNCHANGED vars
  BY <1>13 DEF vars
<1>. HIDE DEF NobodyInv
<1>. QED
  BY <1>1, <1>2, <1>3, <1>4, <1>5, <1>6, <1>7, <1>8, <1>9, <1>10, <1>11, <1>12, <1>13
  DEF Next, Step

-----------------------------------------------------------------------------
(* Every step keeps the inductive invariant. *)
LEMMA StepInv == IInv /\ [Next]_vars => IInv'
BY TypeStep, AgreeStep, MadeStep, NobodyStep DEF IInv

(* The inductive invariant holds in every reachable state. *)
THEOREM InvHolds == Spec => []IInv
<1>1. Init => IInv
  BY InitInv
<1>2. IInv /\ [Next]_vars => IInv'
  BY StepInv
<1>. QED
  BY <1>1, <1>2, PTL DEF Spec

(* Every variable keeps its type. *)
THEOREM TypesHold == Spec => []TypeOK
<1>1. IInv => TypeOK
  BY DEF IInv
<1>. QED
  BY <1>1, InvHolds, PTL

(* The cookies, and the pair every rotation or refresh is sent with, are of
   one session: the comparison of the refresh token never fails for a browser
   that got them here. *)
THEOREM CookiesAlwaysAgree == Spec => []CookiesAgree
<1>1. IInv => CookiesAgree
  BY DEF IInv, AgreeInv, CookiesAgree
<1>. QED
  BY <1>1, InvHolds, PTL

(* Only the loss of a session, by expiry or by a sign-out in another tab, can
   leave a tab with a token that the guards refuse. *)
THEOREM NobodyNeedsLoss == Spec => []NobodyAfterLoss
<1>1. IInv => NobodyAfterLoss
  BY DEF IInv, NobodyInv, NobodyAfterLoss
<1>. QED
  BY <1>1, InvHolds, PTL

-----------------------------------------------------------------------------
(* Orderly calls *)

(* The calls that are not at work are not at any step of it. *)
LEMMA OneInFlight ==
  ASSUME Orderly, NEW c \in Calls, InFlight(c), NEW d \in Calls, d # c
  PROVE  call[d].step \notin {"get", "set", "del", "answered"}
BY DEF Orderly, InFlight

(* An orderly step keeps the session of the browser, or signs it out. *)
LEMMA OrderlyStep ==
  ASSUME TypeOK, AgreeInv, MadeInv, Orderly, Orderly', OrderlyInv, [Next]_vars
  PROVE  OrderlyInv'
<1>. USE AuthAssumption DEF TypeOK, Ids, Cookie, Someone, Call
<1>1. ASSUME NEW c \in Calls, NEW u \in Users, SignIn(c, u)
      PROVE  OrderlyInv'
  BY <1>1 DEF SignIn, Send, OrderlyInv, SigningOut
<1>2. ASSUME NEW c \in Calls, Rotate(c)
      PROVE  OrderlyInv'
  BY <1>2 DEF Rotate, Send, OrderlyInv, SigningOut
<1>3. ASSUME NEW c \in Calls, Refresh(c)
      PROVE  OrderlyInv'
  BY <1>3 DEF Refresh, Send, OrderlyInv, SigningOut
<1>4. ASSUME NEW c \in Calls, SignOut(c)
      PROVE  OrderlyInv'
  BY <1>4 DEF SignOut, Send, OrderlyInv, SigningOut
<1>5. ASSUME NEW c \in Calls, GetSession(c)
      PROVE  OrderlyInv'
  <2>1. \A d \in Calls : d # c => call[d].step \notin {"get", "set", "del", "answered"}
    BY <1>5, OneInFlight DEF GetSession, InFlight
  <2>2. Found(call[c].ssid)
    BY <1>5, <2>1 DEF GetSession, Found, OrderlyInv, SigningOut, MadeInv
  <2>. QED
    BY <1>5, <2>1, <2>2 DEF GetSession, Goto, OrderlyInv, SigningOut
<1>6. ASSUME NEW c \in Calls, CheckOwner(c)
      PROVE  OrderlyInv'
  <2>1. \A d \in Calls : d # c => call[d].step \notin {"get", "set", "del", "answered"}
    BY <1>6, OneInFlight DEF CheckOwner, InFlight
  <2>. QED
    BY <1>6, <2>1 DEF CheckOwner, Goto, OrderlyInv, SigningOut
<1>7. ASSUME NEW c \in Calls, SetSession(c)
      PROVE  OrderlyInv'
  <2>1. \A d \in Calls : d # c => call[d].step \notin {"get", "set", "del", "answered"}
    BY <1>7, OneInFlight DEF SetSession, InFlight
  <2>. QED
    BY <1>7, <2>1 DEF SetSession, Goto, OrderlyInv, SigningOut, MadeInv
<1>8. ASSUME NEW c \in Calls, DelSession(c)
      PROVE  OrderlyInv'
  <2>1. \A d \in Calls : d # c => call[d].step \notin {"get", "set", "del", "answered"}
    BY <1>8, OneInFlight DEF DelSession, InFlight
  <2>. QED
    BY <1>8, <2>1 DEF DelSession, Goto, OrderlyInv, SigningOut
<1>9. ASSUME NEW c \in Calls, Answer(c)
      PROVE  OrderlyInv'
  <2>1. \A d \in Calls : d # c => call[d].step \notin {"get", "set", "del", "answered"}
    BY <1>9, OneInFlight DEF Answer, InFlight
  <2>. QED
    BY <1>9, <2>1 DEF Answer, Goto, OrderlyInv, SigningOut
<1>10. ASSUME NEW c \in Calls, Fail(c)
      PROVE  OrderlyInv'
  BY <1>10 DEF Fail, Goto, Orderly
<1>11. ASSUME NEW t \in Tabs, TokenExpires(t)
      PROVE  OrderlyInv'
  BY <1>11 DEF TokenExpires, OrderlyInv, SigningOut
<1>12. ASSUME NEW s \in Ids, SessionExpires(s)
      PROVE  OrderlyInv'
  BY <1>12 DEF SessionExpires, Orderly
<1>13. CASE UNCHANGED vars
  BY <1>13 DEF vars, OrderlyInv, SigningOut
<1>. HIDE DEF TypeOK, Ids, Cookie, Someone, Call
<1>. QED
  BY <1>1, <1>2, <1>3, <1>4, <1>5, <1>6, <1>7, <1>8, <1>9, <1>10, <1>11, <1>12, <1>13
  DEF Next, Step

(* Calls that do not overlap, get their answer and are faster than the expiry
   leave the browser with the cookies of a session of a user, or with none:
   the pair of a lost session, and a session of nobody, take a failure or a
   second tab (auth.resolver.ts:151). *)
THEOREM OrderlyCallsSignIn == Spec => OrderlyIsSignedIn
<1>1. Init => OrderlyInv
  BY DEF Init, OrderlyInv
<1>2. IInv /\ OrderlyInv /\ Orderly /\ Orderly' /\ [Next]_vars => OrderlyInv'
  BY OrderlyStep DEF IInv
<1>3. OrderlyInv => SignedIn
  BY DEF OrderlyInv, SignedIn, SigningOut, InFlight
<1>. QED
  BY <1>1, <1>2, <1>3, InvHolds, PTL DEF Spec, OrderlyIsSignedIn
=============================================================================
