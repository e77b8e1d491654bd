----------------------------- MODULE Session_proofs -----------------------------
(***************************************************************************)
(* A page with a user asks as a guest only after a refresh; and the server *)
(* denies no refresh of a session that is kept, while the calls of several *)
(* pages do not overlap: for any tabs, requests, tokens and failures.      *)
(*                                                                         *)
(* Neither is inductive.  That a page with a user has a token rests on the *)
(* tokens under way to it, in answers and in the channel, and on a page    *)
(* without a user having no requests; that a session keeps the token of    *)
(* its cookie, on where each of its calls is between reading the list and  *)
(* writing it, and on which calls can be in progress together.             *)
(***************************************************************************)
EXTENDS Session, TLAPS

USE RefreshTokensAssumption, SessionAssumption

Issuing == {"add", "adding", "remove", "removing", "done"}
Waits == {"preflight", "again"}
Active(k, c) == k[c].step # "none"

(* What is true of a page p of the tab t, its requests q, its messages m   *)
(* and the calls k.  Only the page of a user ("app") has requests beside   *)
(* that of initialize, which only a loading page has; whoever has a user,  *)
(* a request under way or a message to read has a real token; and a page   *)
(* waits only for calls it has had a reason to send.                       *)
PageOK(p, q, m) ==
    /\ p.page = "app" => p.mem # 0
    /\ p.page # "app" => \A r \in Requests : q[r] = NoRequest
    /\ p.page # "loading" => q["init"] = NoRequest
    /\ ~q["init"].public
    /\ q["init"].token # 0 => p.mem # 0
    /\ \A r \in Requests : q[r] = NoRequest \/ q[r].token # 0
    /\ m \in Seq(Tokens \ {0})
CallsOK(t, p, q, k) ==
    /\ Active(k, SignIn(t)) => p.page = "signingIn"
    /\ Active(k, SignOut(t)) => p.page = "app"
    /\ Active(k, Refresh(t)) => p.page = "app" \/ q["init"].step \in Waits
PageInv ==
    \A t \in Tabs :
      PageOK(tab[t], req[t], channel[t]) /\ CallsOK(t, tab[t], req[t], call)

(* What is true of the calls k when i tokens have been issued: which steps *)
(* a kind has, and that a call issues a newer token than it was sent with. *)
KindInv(k, i) ==
    \A c \in Calls :
      /\ c[2] # "refresh" => k[c].step \notin {"denied", "failed"}
      /\ c[2] = "signOut" => k[c].step \notin {"add", "adding"}
      /\ c[2] = "signIn" => k[c].step \notin {"remove", "removing"}
      /\ k[c].old <= i
      /\ c[2] # "signOut" /\ k[c].step \in Issuing => k[c].old < k[c].new /\ k[c].new <= i
TokenInv == KindInv(call, issued) /\ cookie <= issued

AgeInv == expired <= near

--------------------------------------------------------------------------------
(* TypeOK, in parts.                                                       *)
CallRec == [step : CallSteps, old : Tokens, new : Tokens, read : SUBSET Tokens, clean : BOOLEAN]
PageRec == [page : Pages, mem : Tokens, loads : Nat, route : Routes]
ReqRec == [step : ReqSteps, token : Tokens, public : BOOLEAN]

ServerType == list \in SUBSET Tokens /\ issued \in Tokens /\ call \in [Calls -> CallRec]
TabType == tab \in [Tabs -> PageRec]
ReqType == req \in [Tabs -> [Slots -> ReqRec]]
RestType ==
    /\ stored \in Tokens /\ cookie \in Tokens
    /\ channel \in [Tabs -> Seq(Tokens)]
    /\ creds \in BOOLEAN /\ session \in Sessions
    /\ near \in Tokens /\ expired \in Tokens /\ faults \in Nat
Typed == ServerType /\ TabType /\ ReqType /\ RestType

GuestInv == Typed /\ PageInv /\ TokenInv /\ AgeInv

LEMMA TypedIsTypeOK == Typed <=> TypeOK
BY DEF Typed, TypeOK, ServerType, TabType, ReqType, RestType, CallRec, PageRec, ReqRec

LEMMA CallIds ==
  ASSUME NEW t \in Tabs
  PROVE  Refresh(t) \in Calls /\ SignIn(t) \in Calls /\ SignOut(t) \in Calls
BY DEF Refresh, SignIn, SignOut, Calls, Kinds

LEMMA Slotted == "init" \in Slots /\ Requests \subseteq Slots /\ "init" \notin Requests
BY DEF Slots

LEMMA Zero == 0 \in Tokens /\ 1 \in Tokens
BY DEF Tokens

(* The values the actions assign.                                          *)
LEMMA NoCallType == NoCall \in CallRec /\ NoCall.step = "none" /\ NoCall.old = 0 /\ NoCall.clean
BY Zero DEF NoCall, CallRec, CallSteps

LEMMA SentType ==
  ASSUME ServerType, NEW c \in Calls, NEW n \in Tokens
  PROVE  Sent(c, n) \in [Calls -> CallRec]
<1> DEFINE others == {d \in Calls : InFlight(d) /\ ~SamePage(c, d)}
<1>1. [NoCall EXCEPT !.step = "sent", !.old = n, !.clean = (others = {})] \in CallRec
  BY Zero DEF NoCall, CallRec, CallSteps
<1>2. ASSUME NEW d \in Calls PROVE [call[d] EXCEPT !.clean = FALSE] \in CallRec
  BY DEF ServerType, CallRec
<1> HIDE DEF others
<1>3. \A d \in Calls :
        (IF d = c THEN [NoCall EXCEPT !.step = "sent", !.old = n, !.clean = (others = {})]
         ELSE IF d \in others THEN [call[d] EXCEPT !.clean = FALSE]
         ELSE call[d]) \in CallRec
  BY <1>1, <1>2 DEF ServerType
<1> QED
  BY <1>3 DEF Sent, others

LEMMA CallEnded ==
  ASSUME ServerType, NEW c \in Calls
  PROVE  [call EXCEPT ![c] = NoCall] \in [Calls -> CallRec]
BY NoCallType DEF ServerType

LEMMA OwnSlot ==
  ASSUME NEW c \in Calls, NEW t \in Tabs
  PROVE  <<t, c[2], "page">> \in Calls /\ <<t, c[2], "page">>[2] = c[2]
BY DEF Calls

LEMMA LeftType ==
  ASSUME NEW f \in [Calls -> CallRec], NEW t \in Tabs
  PROVE  Left(f, t) \in [Calls -> CallRec]
<1>1. \A c \in Calls : f[<<t, c[2], "page">>] \in CallRec
  BY OwnSlot
<1> QED
  BY <1>1, NoCallType DEF Left

LEMMA PageValues == ASSUME NEW p \in Routes PROVE NewPage(p) \in PageRec
BY DEF NewPage, PageRec, Pages, Tokens

LEMMA PageMem ==
  ASSUME NEW p \in PageRec, NEW n \in Tokens
  PROVE  /\ [p EXCEPT !.mem = n] \in PageRec
         /\ [p EXCEPT !.mem = n].mem = n
         /\ [p EXCEPT !.mem = n].page = p.page
BY DEF PageRec

LEMMA KnownType ==
  ASSUME TabType, RestType, NEW t \in Tabs
  PROVE  Known(t) \in Tokens
BY DEF Known, TabType, RestType, PageRec, Tokens

LEMMA PostType ==
  ASSUME RestType, NEW t, NEW k \in Tokens
  PROVE  Post(t, k) \in [Tabs -> Seq(Tokens)]
BY DEF Post, RestType

LEMMA NoRequestType == NoRequest \in ReqRec /\ NoRequest.step = "none" /\ NoRequest.token = 0
BY Zero DEF NoRequest, ReqRec, ReqSteps

LEMMA ReqValues ==
  ASSUME NEW q \in ReqRec, NEW s \in ReqSteps
  PROVE  /\ [q EXCEPT !.step = s] \in ReqRec
         /\ \A k \in Tokens : [q EXCEPT !.step = s, !.token = k] \in ReqRec
BY DEF ReqRec

LEMMA OutcomeType ==
  ASSUME RestType, NEW c
  PROVE  Outcome(c) \in Sessions /\ Begun(c) \in Sessions
BY DEF Outcome, Begun, RestType, Sessions

(* Some requests fail, others are sent. *)
Settled(t, F, P) ==
    [req EXCEPT ![t] = [r \in Slots |->
       IF r \in F THEN NoRequest ELSE IF r \in P THEN [@[r] EXCEPT !.step = "sent"] ELSE @[r]]]

LEMMA SettledType ==
  ASSUME ReqType, NEW t \in Tabs, NEW F \in SUBSET Slots, NEW P \in SUBSET Slots
  PROVE  Settled(t, F, P) \in [Tabs -> [Slots -> ReqRec]]
<1>1. \A r \in P : [req[t][r] EXCEPT !.step = "sent"] \in ReqRec
  BY ReqValues DEF ReqSteps, ReqType
<1> QED
  BY <1>1, NoRequestType DEF Settled, ReqType

(* The steps that several actions share.                                   *)
LEMMA JoinsType ==
  ASSUME ServerType, RestType, NEW t \in Tabs, Joins(t)
  PROVE  call' \in [Calls -> CallRec]
BY CallIds, SentType DEF Joins, ServerType, RestType

LEMMA LoadFailsType ==
  ASSUME TabType, RestType, NEW t \in Tabs, LoadFails(t)
  PROVE  TabType' /\ stored' \in Tokens
<1>1. ASSUME NEW p \in PageRec, NEW a \in Pages, NEW b \in Tokens
      PROVE  [p EXCEPT !.page = a, !.mem = b, !.loads = p.loads + 1] \in PageRec
  <2>1. p.loads + 1 \in Nat
    BY DEF PageRec
  <2> HIDE DEF Pages, Tokens
  <2>2. ASSUME NEW n \in Nat PROVE [p EXCEPT !.page = a, !.mem = b, !.loads = n] \in PageRec
    BY DEF PageRec
  <2> QED
    BY <2>1, <2>2
<1>2. PICK a \in Pages, b \in Tokens :
        tab' = [tab EXCEPT ![t] = [tab[t] EXCEPT !.page = a, !.mem = b, !.loads = tab[t].loads + 1]]
  BY ZenonT(60), Zero DEF LoadFails, TabType, Pages, PageRec
<1>3. TabType'
  BY <1>1, <1>2 DEF TabType
<1> QED
  BY <1>3, Zero DEF LoadFails, RestType

LEMMA ReplacedType ==
  ASSUME TabType, ReqType, RestType, NEW t \in Tabs, NEW p \in Routes,
         NEW calls \in [Calls -> CallRec], Replaced(t, p, calls)
  PROVE  /\ TabType' /\ ReqType'
         /\ channel' \in [Tabs -> Seq(Tokens)] /\ call' \in [Calls -> CallRec]
<1>1. TabType'
  BY PageValues DEF Replaced, TabType
<1>2. ReqType'
  BY NoRequestType DEF Replaced, ReqType
<1>3. channel' \in [Tabs -> Seq(Tokens)]
  <2>1. << >> \in Seq(Tokens)
    OBVIOUS
  <2> QED
    BY <2>1 DEF Replaced, RestType
<1>4. call' \in [Calls -> CallRec]
  BY LeftType DEF Replaced
<1> QED
  BY <1>1, <1>2, <1>3, <1>4

LEMMA RedirectType ==
  ASSUME TabType, ReqType, RestType, NEW t \in Tabs,
         NEW calls \in [Calls -> CallRec], NEW failing \in SUBSET Slots,
         Redirect(t, failing, calls)
  PROVE  /\ TabType' /\ ReqType' /\ stored' \in Tokens
         /\ channel' \in [Tabs -> Seq(Tokens)] /\ call' \in [Calls -> CallRec]
<1>0. "auth" \in Routes
  BY DEF Routes
<1>1. CASE tab[t].route = "private"
  BY <1>0, <1>1, ReplacedType, Zero DEF Redirect
<1>2. CASE tab[t].route # "private"
  <2>1. TabType' /\ stored' \in Tokens
    BY <1>2, LoadFailsType DEF Redirect, TabType, RestType
  <2> DEFINE P == {r \in Slots : req[t][r].step = "preflight" /\ calls # call}
  <2>2. req' = Settled(t, failing, P)
    BY <1>2 DEF Redirect, Settled
  <2>3. P \in SUBSET Slots
    OBVIOUS
  <2> HIDE DEF P
  <2>4. ReqType'
    BY <2>2, <2>3, SettledType DEF ReqType
  <2> QED
    BY <1>2, <2>1, <2>4 DEF Redirect, RestType
<1> QED
  BY <1>1, <1>2

LEMMA RefreshFailsType ==
  ASSUME ServerType, TabType, ReqType, RestType, NEW t \in Tabs, RefreshFails(t)
  PROVE  /\ TabType' /\ ReqType' /\ stored' \in Tokens
         /\ channel' \in [Tabs -> Seq(Tokens)] /\ call' \in [Calls -> CallRec]
<1> DEFINE calls == [call EXCEPT ![Refresh(t)] = NoCall]
           refused == {r \in Slots : req[t][r].step = "again"}
<1>1. calls \in [Calls -> CallRec]
  BY CallIds, CallEnded
<1>2. CASE Redirect(t, refused, calls)
  <2>1. refused \in SUBSET Slots
    OBVIOUS
  <2> HIDE DEF calls, refused
  <2> QED
    BY <1>1, <1>2, <2>1, RedirectType
<1>3. CASE ~Redirect(t, refused, calls)
  <2> DEFINE P == {r \in Slots : req[t][r].step = "preflight"}
  <2>1. ReqType'
    <3>1. req' = Settled(t, {}, P)
      BY <1>3 DEF RefreshFails, Settled
    <3>2. P \in SUBSET Slots
      OBVIOUS
    <3> HIDE DEF P
    <3> QED
      BY <3>1, <3>2, SettledType DEF ReqType
  <2> QED
    BY <1>1, <1>3, <2>1 DEF RefreshFails, TabType, RestType
<1> QED
  BY <1>2, <1>3

LEMMA HeadTail ==
  ASSUME NEW S, NEW s \in Seq(S), s # << >>
  PROVE  Head(s) \in S /\ Tail(s) \in Seq(S)
OBVIOUS

LEMMA AgainType ==
  ASSUME ReqType, NEW t \in Tabs, NEW r \in Slots
  PROVE  [req EXCEPT ![t][r].step = "again"] \in [Tabs -> [Slots -> ReqRec]]
<1>1. [req[t][r] EXCEPT !.step = "again"] \in ReqRec
  BY ReqValues DEF ReqSteps, ReqType
<1> QED
  BY <1>1 DEF ReqType

LEMMA DroppedType ==
  ASSUME ReqType, NEW t \in Tabs, NEW r \in Slots
  PROVE  [req EXCEPT ![t][r] = NoRequest] \in [Tabs -> [Slots -> ReqRec]]
BY NoRequestType DEF ReqType

LEMMA LoadedType ==
  ASSUME ServerType, TabType, ReqType, RestType, NEW t \in Tabs, Loaded(t)
  PROVE  /\ TabType' /\ ReqType'
         /\ channel' \in [Tabs -> Seq(Tokens)] /\ call' \in [Calls -> CallRec]
<1>1. CASE tab[t].route = "auth"
  <2>1. "private" \in Routes
    BY DEF Routes
  <2> QED
    BY <1>1, <2>1, ReplacedType DEF Loaded, ServerType
<1>2. CASE tab[t].route # "auth"
  <2>1. TabType'
    BY ZenonT(60), <1>2 DEF Loaded, TabType, PageRec, Pages
  <2>2. req' = [req EXCEPT ![t]["init"] = NoRequest] /\ UNCHANGED <<channel, call>>
    BY <1>2 DEF Loaded
  <2>3. ReqType'
    BY <2>2, DroppedType, Slotted DEF ReqType
  <2> QED
    BY <2>1, <2>2, <2>3 DEF ServerType, RestType
<1> QED
  BY <1>1, <1>2

(* What the server does with a call leaves it a call.                      *)
LEMMA ServeType ==
  ASSUME ServerType, NEW c \in Calls, Serve(c) \/ StoreFails(c)
  PROVE  ServerType'
<1>0. call[c] \in CallRec
  BY DEF ServerType
<1>1. CASE Accept(c)
  <2>1. issued + 1 \in Tokens
    BY <1>1 DEF Accept, ServerType, Tokens
  <2>2. [call[c] EXCEPT !.step = "add", !.new = issued + 1] \in CallRec
    BY <1>0, <2>1 DEF CallRec, CallSteps
  <2>3. call' = [call EXCEPT ![c] = [call[c] EXCEPT !.step = "add", !.new = issued + 1]]
    BY <1>1 DEF Accept, ServerType
  <2> QED
    BY <1>1, <2>1, <2>2, <2>3 DEF Accept, ServerType
<1>2. CASE Deny(c)
  BY <1>2 DEF Deny, ServerType, CallRec, CallSteps
<1>3. CASE AcceptSignOut(c)
  BY <1>3 DEF AcceptSignOut, ServerType, CallRec, CallSteps
<1>4. CASE ReadList(c)
  BY <1>4 DEF ReadList, ServerType, CallRec, CallSteps
<1>5. CASE AddToken(c)
  BY <1>5 DEF AddToken, ServerType, CallRec, CallSteps
<1>6. CASE RemoveToken(c)
  BY <1>6 DEF RemoveToken, ServerType, CallRec, CallSteps
<1>7. CASE StoreFails(c)
  BY <1>7 DEF StoreFails, ServerType, CallRec, CallSteps
<1> QED
  BY <1>1, <1>2, <1>3, <1>4, <1>5, <1>6, <1>7 DEF Serve

(* Every step keeps the types. *)
LEMMA NextType ==
  ASSUME ServerType, TabType, ReqType, RestType, [Next]_vars
  PROVE  ServerType' /\ TabType' /\ ReqType' /\ RestType'
<1> DEFINE Goal == ServerType' /\ TabType' /\ ReqType' /\ RestType'
<1> USE DEF serverVars, clientVars
<1>1. ASSUME Age PROVE Goal
  <2>1. ServerType'
    BY <1>1 DEF ServerType, Age
  <2>2. TabType'
    BY <1>1 DEF TabType, Age
  <2>3. ReqType'
    BY <1>1 DEF ReqType, Age
  <2>4. RestType'
    BY SMTT(30), <1>1 DEF ServerType, RestType, Tokens, Age
  <2> QED
    BY <2>1, <2>2, <2>3, <2>4
<1>2. ASSUME NEW t \in Tabs, Boot(t) PROVE Goal
  <2>1. ServerType'
    BY <1>2 DEF ServerType, Boot
  <2>2. TabType'
    BY <1>2 DEF TabType, PageRec, Pages, Boot
  <2>3. ReqType'
    BY <1>2 DEF ReqType, Boot
  <2>4. RestType'
    BY <1>2 DEF RestType, Boot
  <2> QED
    BY <2>1, <2>2, <2>3, <2>4
<1>3. ASSUME NEW t \in Tabs, EnterPassword(t) PROVE Goal
  <2>1. ServerType'
    BY <1>3 DEF ServerType, EnterPassword
  <2>2. TabType'
    BY <1>3 DEF TabType, PageRec, Pages, EnterPassword
  <2>3. ReqType'
    BY <1>3 DEF ReqType, EnterPassword
  <2>4. RestType'
    BY <1>3 DEF RestType, EnterPassword
  <2> QED
    BY <2>1, <2>2, <2>3, <2>4
<1>4. ASSUME NEW t \in Tabs, SendSignIn(t) PROVE Goal
  <2>1. ServerType'
    BY <1>4, CallIds, SentType DEF ServerType, RestType, SendSignIn
  <2>2. TabType'
    BY <1>4 DEF TabType, SendSignIn
  <2>3. ReqType'
    BY <1>4 DEF ReqType, SendSignIn
  <2>4. RestType'
    BY <1>4 DEF RestType, SendSignIn
  <2> QED
    BY <2>1, <2>2, <2>3, <2>4
<1>5. ASSUME NEW t \in Tabs, SignedIn(t) PROVE Goal
  <2>1. ServerType'
    BY <1>5, CallIds, CallEnded DEF ServerType, SignedIn
  <2>2. TabType'
    BY ZenonT(60), <1>5, CallIds DEF ServerType, CallRec, TabType, PageRec, Pages, SignedIn
  <2>3. ReqType'
    BY <1>5 DEF ReqType, SignedIn
  <2>4. RestType'
    BY <1>5, CallIds, PostType, OutcomeType DEF ServerType, CallRec, RestType, SignedIn
  <2> QED
    BY <2>1, <2>2, <2>3, <2>4
<1>6. ASSUME NEW t \in Tabs, SignInLost(t) PROVE Goal
  <2>1. ServerType'
    BY <1>6, CallIds, CallEnded DEF ServerType, SignInLost
  <2>2. TabType'
    BY <1>6 DEF TabType, PageRec, Pages, SignInLost
  <2>3. ReqType'
    BY <1>6 DEF ReqType, SignInLost
  <2>4. RestType'
    BY <1>6, OutcomeType DEF RestType, SignInLost, Fault
  <2> QED
    BY <2>1, <2>2, <2>3, <2>4
<1>7. ASSUME NEW t \in Tabs, SendSignOut(t) PROVE Goal
  <2>1. ServerType'
    BY <1>7, CallIds, SentType DEF ServerType, RestType, SendSignOut
  <2>2. TabType'
    BY <1>7 DEF TabType, SendSignOut
  <2>3. ReqType'
    BY <1>7 DEF ReqType, SendSignOut
  <2>4. RestType'
    BY <1>7 DEF RestType, Sessions, SendSignOut
  <2> QED
    BY <2>1, <2>2, <2>3, <2>4
<1>8. ASSUME NEW t \in Tabs, SignedOut(t) PROVE Goal
  <2> DEFINE calls == [call EXCEPT ![SignOut(t)] = NoCall]
  <2>1. Replaced(t, "auth", calls) /\ calls \in [Calls -> CallRec] /\ "auth" \in Routes
    BY <1>8, CallIds, CallEnded DEF SignedOut, Routes
  <2> HIDE DEF calls
  <2>2. /\ TabType' /\ ReqType'
        /\ channel' \in [Tabs -> Seq(Tokens)] /\ call' \in [Calls -> CallRec]
    BY <2>1, ReplacedType
  <2>3. session' \in Sessions
    BY <1>8, OutcomeType DEF SignedOut, Sessions
  <2>4. cookie' \in Tokens /\ stored' \in Tokens /\ faults' \in Nat
    BY <1>8, Zero DEF RestType, SignedOut, Fault
  <2> QED
    BY <1>8, <2>2, <2>3, <2>4 DEF SignedOut, ServerType, RestType
<1>9. ASSUME NEW t \in Tabs, Reload(t) PROVE Goal
  <2>1. Replaced(t, tab[t].route, call) /\ tab[t].route \in Routes
    BY <1>9 DEF Reload, TabType, PageRec
  <2>2. /\ TabType' /\ ReqType'
        /\ channel' \in [Tabs -> Seq(Tokens)] /\ call' \in [Calls -> CallRec]
    BY <2>1, ReplacedType DEF ServerType
  <2> QED
    BY <1>9, <2>2 DEF Reload, Fault, ServerType, RestType
<1>10. ASSUME NEW t \in Tabs, RefreshAnswered(t) PROVE Goal
  <2>1. ServerType'
    BY <1>10, CallIds, CallEnded DEF ServerType, RefreshAnswered
  <2>2. TabType'
    BY <1>10, CallIds DEF ServerType, CallRec, TabType, PageRec, RefreshAnswered
  <2>3. ReqType'
    <3> DEFINE new == call[Refresh(t)].new
    <3>1. new \in Tokens
      BY CallIds DEF ServerType, CallRec
    <3>2. \A r \in Slots : /\ [req[t][r] EXCEPT !.step = "sent", !.token = new] \in ReqRec
                           /\ [req[t][r] EXCEPT !.step = "resent", !.token = new] \in ReqRec
      BY <3>1, ReqValues DEF ReqSteps, ReqType
    <3> HIDE DEF new
    <3>3. req' = [req EXCEPT ![t] = [r \in Slots |->
                 CASE @[r].step = "preflight" -> [@[r] EXCEPT !.step = "sent", !.token = new]
                   [] @[r].step = "again"     -> [@[r] EXCEPT !.step = "resent", !.token = new]
                   [] OTHER                   -> @[r]]]
      BY <1>10 DEF RefreshAnswered, new
    <3> QED
      BY <3>2, <3>3 DEF ReqType
  <2>4. RestType'
    BY <1>10, CallIds, PostType, OutcomeType DEF ServerType, CallRec, RestType, RefreshAnswered
  <2> QED
    BY <2>1, <2>2, <2>3, <2>4
<1>11. ASSUME NEW t \in Tabs, RefreshDenied(t) PROVE Goal
  <2>1. ServerType'
    BY <1>11, RefreshFailsType DEF ServerType, RefreshDenied
  <2>2. TabType'
    BY <1>11, RefreshFailsType DEF RefreshDenied
  <2>3. ReqType'
    BY <1>11, RefreshFailsType DEF RefreshDenied
  <2>4. RestType'
    BY <1>11, RefreshFailsType, OutcomeType DEF RestType, RefreshDenied
  <2> QED
    BY <2>1, <2>2, <2>3, <2>4
<1>12. ASSUME NEW t \in Tabs, RefreshLost(t) PROVE Goal
  <2>1. ServerType'
    BY <1>12, RefreshFailsType DEF ServerType, RefreshLost
  <2>2. TabType'
    BY <1>12, RefreshFailsType DEF RefreshLost
  <2>3. ReqType'
    BY <1>12, RefreshFailsType DEF RefreshLost
  <2>4. RestType'
    BY <1>12, RefreshFailsType, OutcomeType DEF RestType, Sessions, RefreshLost, Fault
  <2> QED
    BY <2>1, <2>2, <2>3, <2>4
<1>13. ASSUME NEW t \in Tabs, Adopt(t) PROVE Goal
  <2>1. ServerType'
    BY <1>13 DEF ServerType, Adopt
  <2>2. TabType'
    BY <1>13, HeadTail, PageMem DEF TabType, RestType, Adopt
  <2>3. ReqType'
    BY <1>13 DEF ReqType, Adopt
  <2>4. RestType'
    BY <1>13, HeadTail DEF RestType, Adopt
  <2> QED
    BY <2>1, <2>2, <2>3, <2>4
<1>14. ASSUME NEW t \in Tabs, Focus(t) PROVE Goal
  <2>1. ServerType'
    BY <1>14, JoinsType DEF ServerType, Focus
  <2>2. TabType'
    BY <1>14, KnownType DEF TabType, PageRec, Focus
  <2>3. ReqType'
    BY <1>14 DEF ReqType, Focus
  <2>4. RestType'
    BY <1>14 DEF RestType, Focus
  <2> QED
    BY <2>1, <2>2, <2>3, <2>4
<1>15. ASSUME NEW t \in Tabs, NEW r \in Slots, NEW public \in BOOLEAN, Issue(t, r, public) PROVE Goal
  <2>1. ServerType'
    BY <1>15, JoinsType DEF ServerType, Issue
  <2>2. TabType'
    BY <1>15, KnownType DEF TabType, PageRec, Issue
  <2>3. ReqType'
    <3>1. \A s \in {"preflight", "sent"} :
            [step |-> s, token |-> Known(t), public |-> public] \in ReqRec
      BY KnownType DEF ReqRec, ReqSteps
    <3> QED
      BY <1>15, <3>1 DEF ReqType, Issue
  <2>4. RestType'
    BY <1>15 DEF RestType, Issue
  <2> QED
    BY <2>1, <2>2, <2>3, <2>4
<1>16. ASSUME NEW t \in Tabs, NEW r \in Slots, Answer(t, r) PROVE Goal
  <2>1. CASE r = "init"
    <3>1. Loaded(t)
      BY <1>16, <2>1 DEF Answer
    <3>2. /\ TabType' /\ ReqType'
          /\ channel' \in [Tabs -> Seq(Tokens)] /\ call' \in [Calls -> CallRec]
      BY <3>1, LoadedType
    <3> QED
      BY <1>16, <3>2 DEF Answer, ServerType, RestType
  <2>2. CASE r # "init"
    <3>1. ReqType' /\ UNCHANGED <<tab, channel, call>>
      BY <1>16, <2>2, DroppedType DEF Answer, ReqType
    <3> QED
      BY <1>16, <3>1 DEF Answer, ServerType, TabType, RestType
  <2> QED
    BY <2>1, <2>2
<1>17. ASSUME NEW t \in Tabs, NEW r \in Slots, Refuse(t, r) PROVE Goal
  <2>0. UNCHANGED <<list, issued, cookie, creds, near, expired, session, faults>>
    BY <1>17 DEF Refuse
  <2>1. CASE Redirect(t, {r}, call)
    <3>1. {r} \in SUBSET Slots
      OBVIOUS
    <3> QED
      BY <2>0, <2>1, <3>1, RedirectType DEF ServerType, RestType
  <2>2. CASE ~Redirect(t, {r}, call)
    <3>1. /\ Joins(t) /\ req' = [req EXCEPT ![t][r].step = "again"]
          /\ UNCHANGED <<tab, stored, channel>>
      BY <1>17, <2>2 DEF Refuse
    <3> QED
      BY <2>0, <3>1, JoinsType, AgainType DEF ServerType, TabType, ReqType, RestType
  <2> QED
    BY <2>1, <2>2
<1>18. ASSUME NEW t \in Tabs, NEW r \in Slots, FailRequest(t, r) PROVE Goal
  <2>0. faults' \in Nat /\ UNCHANGED <<list, issued, cookie, creds, near, expired, session>>
    BY <1>18 DEF FailRequest, Fault, RestType
  <2>1. CASE Redirect(t, {r}, call)
    <3>1. {r} \in SUBSET Slots
      OBVIOUS
    <3> QED
      BY <2>0, <2>1, <3>1, RedirectType DEF ServerType, RestType
  <2>2. CASE ~Redirect(t, {r}, call)
    <3>1. /\ req' = [req EXCEPT ![t][r] = NoRequest] /\ UNCHANGED <<channel, call>>
          /\ UNCHANGED <<tab, stored>> \/ LoadFails(t)
      BY <1>18, <2>2 DEF FailRequest
    <3>2. TabType' /\ stored' \in Tokens
      BY <3>1, LoadFailsType DEF TabType, RestType
    <3> QED
      BY <2>0, <3>1, <3>2, DroppedType DEF ServerType, ReqType, RestType
  <2> QED
    BY <2>1, <2>2
<1>19. ASSUME NEW c \in Calls, Unheard(c) PROVE Goal
  <2>1. ServerType'
    BY <1>19, CallEnded DEF ServerType, Unheard
  <2>2. TabType'
    BY <1>19 DEF TabType, Unheard
  <2>3. ReqType'
    BY <1>19 DEF ReqType, Unheard
  <2>4. RestType'
    BY <1>19, Zero, OutcomeType DEF ServerType, CallRec, RestType, Sessions, Unheard
  <2> QED
    BY <2>1, <2>2, <2>3, <2>4
<1>20. ASSUME NEW c \in Calls, Serve(c), UNCHANGED clientVars PROVE Goal
  BY <1>20, ServeType DEF TabType, ReqType, RestType
<1>21. ASSUME NEW c \in Calls, StoreError(c) PROVE Goal
  BY <1>21, ServeType DEF StoreError, Fault, TabType, ReqType, RestType
<1>22. ASSUME NEW t \in Tabs, SentToSignIn(t) PROVE Goal
  <2>1. Replaced(t, "auth", call) /\ "auth" \in Routes /\ stored' = 0
    BY <1>22 DEF SentToSignIn, Routes
  <2>2. /\ TabType' /\ ReqType'
        /\ channel' \in [Tabs -> Seq(Tokens)] /\ call' \in [Calls -> CallRec]
    BY <2>1, ReplacedType DEF ServerType
  <2> QED
    BY <1>22, <2>1, <2>2, Zero DEF SentToSignIn, ServerType, RestType
<1>23. ASSUME NEW t \in Tabs, Navigate(t) PROVE Goal
  <2>1. TabType'
    BY <1>23 DEF Navigate, TabType, PageRec, Routes
  <2> QED
    BY <1>23, <2>1 DEF Navigate, ServerType, ReqType, RestType
<1>24. CASE UNCHANGED vars
  BY <1>24 DEF vars, ServerType, TabType, ReqType, RestType
<1> QED
  BY Slotted, <1>1, <1>2, <1>3, <1>4, <1>5, <1>6, <1>7, <1>8, <1>9, <1>10, <1>11,
     <1>12, <1>13, <1>14, <1>15, <1>16, <1>17, <1>18, <1>19, <1>20, <1>21, <1>22, <1>23, <1>24
     DEF Next, Page, User, Failure, Answered, Served

--------------------------------------------------------------------------------
(* The calls F of a page are calls it already has.                         *)
Fewer(F) == \A c \in Calls : c[3] = "page" /\ Active(F, c) => Active(call, c)

LEMMA PageSlot ==
  ASSUME NEW t \in Tabs
  PROVE  /\ Refresh(t)[1] = t /\ Refresh(t)[2] = "refresh" /\ Refresh(t)[3] = "page"
         /\ SignIn(t)[1] = t /\ SignIn(t)[2] = "signIn" /\ SignIn(t)[3] = "page"
         /\ SignOut(t)[1] = t /\ SignOut(t)[2] = "signOut" /\ SignOut(t)[3] = "page"
         /\ \A u \in Tabs \ {t} : Refresh(u) # Refresh(t) /\ SignIn(u) # SignIn(t)
                                  /\ SignOut(u) # SignOut(t)
BY DEF Refresh, SignIn, SignOut

LEMMA FewerEnded ==
  ASSUME ServerType, NEW c \in Calls
  PROVE  /\ Fewer([call EXCEPT ![c] = NoCall]) /\ ~Active([call EXCEPT ![c] = NoCall], c)
         /\ Fewer(call)
BY DEF Fewer, Active, NoCall, ServerType

(* A call that is sent leaves the others where they are. *)
LEMMA SentCalls ==
  ASSUME ServerType, NEW c \in Calls, NEW n \in Tokens
  PROVE  /\ Sent(c, n)[c].step = "sent" /\ Sent(c, n)[c].old = n /\ Sent(c, n)[c].new = 0
         /\ Sent(c, n)[c].clean <=> \A d \in Calls : Active(call, d) => SamePage(c, d)
         /\ \A d \in Calls \ {c} :
              /\ Sent(c, n)[d].step = call[d].step /\ Sent(c, n)[d].old = call[d].old
              /\ Sent(c, n)[d].new = call[d].new /\ Sent(c, n)[d].read = call[d].read
              /\ Sent(c, n)[d].clean <=>
                   call[d].clean /\ (Active(call, d) => SamePage(c, d))
<1> DEFINE others == {d \in Calls : InFlight(d) /\ ~SamePage(c, d)}
           mine == [NoCall EXCEPT !.step = "sent", !.old = n, !.clean = (others = {})]
<1>1. /\ mine.step = "sent" /\ mine.old = n /\ mine.new = 0
      /\ mine.clean <=> others = {}
  BY DEF NoCall
<1>2. ASSUME NEW d \in Calls
      PROVE  /\ [call[d] EXCEPT !.clean = FALSE].step = call[d].step
             /\ [call[d] EXCEPT !.clean = FALSE].old = call[d].old
             /\ [call[d] EXCEPT !.clean = FALSE].new = call[d].new
             /\ [call[d] EXCEPT !.clean = FALSE].read = call[d].read
             /\ [call[d] EXCEPT !.clean = FALSE].clean = FALSE
             /\ call[d].clean \in BOOLEAN
  BY DEF ServerType, CallRec
<1>3. Sent(c, n) = [d \in Calls |-> IF d = c THEN mine
                                    ELSE IF d \in others THEN [call[d] EXCEPT !.clean = FALSE]
                                    ELSE call[d]]
  BY DEF Sent
<1>4. \A d \in Calls : d \in others <=> Active(call, d) /\ ~SamePage(c, d)
  BY DEF InFlight, Active
<1>5. others = {} <=> \A d \in Calls : Active(call, d) => SamePage(c, d)
  BY <1>4
<1> HIDE DEF others, mine
<1>6. Sent(c, n)[c] = mine
  BY <1>3
<1>7. ASSUME NEW d \in Calls \ {c}
      PROVE  /\ Sent(c, n)[d].step = call[d].step /\ Sent(c, n)[d].old = call[d].old
             /\ Sent(c, n)[d].new = call[d].new /\ Sent(c, n)[d].read = call[d].read
             /\ Sent(c, n)[d].clean <=> call[d].clean /\ (Active(call, d) => SamePage(c, d))
  <2>1. CASE d \in others
    <3>1. Sent(c, n)[d] = [call[d] EXCEPT !.clean = FALSE]
      BY <1>3, <2>1
    <3> QED
      BY <1>2, <1>4, <2>1, <3>1
  <2>2. CASE d \notin others
    <3>1. Sent(c, n)[d] = call[d]
      BY <1>3, <2>2
    <3> QED
      BY <1>4, <2>2, <3>1
  <2> QED
    BY <2>1, <2>2
<1> QED
  BY <1>1, <1>5, <1>6, <1>7

(* A page that joins a refresh has one, and no other call it did not have. *)
LEMMA JoinsCalls ==
  ASSUME ServerType, RestType, NEW t \in Tabs, Joins(t)
  PROVE  \A c \in Calls \ {Refresh(t)} : Active(call', c) => Active(call, c)
<1>1. CASE call' = Sent(Refresh(t), cookie)
  BY <1>1, CallIds, SentCalls DEF Active, RestType
<1> QED
  BY <1>1 DEF Joins

(* A page that has gone away has left no calls of its own. *)
LEMMA LeftPage ==
  ASSUME NEW f \in [Calls -> CallRec], NEW t \in Tabs
  PROVE  \A c \in Calls : c[3] = "page" =>
           Left(f, t)[c] = IF c[1] = t THEN NoCall ELSE f[c]
BY DEF Left

(* A step of one page, which may send a token to the others.               *)
LEMMA OnePage ==
  ASSUME PageInv, RestType, NEW t \in Tabs,
         \A u \in Tabs \ {t} : /\ tab'[u] = tab[u] /\ req'[u] = req[u]
                               /\ \/ channel'[u] = channel[u]
                                  \/ \E k \in Tokens \ {0} : channel'[u] = Append(channel[u], k),
         \A c \in Calls : c[3] = "page" /\ c[1] # t /\ Active(call', c) => Active(call, c),
         PageOK(tab'[t], req'[t], channel'[t]), CallsOK(t, tab'[t], req'[t], call')
  PROVE  PageInv'
<1> SUFFICES ASSUME NEW u \in Tabs, u # t
             PROVE  /\ PageOK(tab'[u], req'[u], channel'[u])
                    /\ CallsOK(u, tab'[u], req'[u], call')
  BY DEF PageInv
<1>1. PageOK(tab[u], req[u], channel[u]) /\ CallsOK(u, tab[u], req[u], call)
  BY DEF PageInv
<1>2. channel'[u] \in Seq(Tokens \ {0})
  <2>1. \A k \in Tokens \ {0} : \A s \in Seq(Tokens \ {0}) : Append(s, k) \in Seq(Tokens \ {0})
    OBVIOUS
  <2> QED
    BY <1>1, <2>1 DEF PageOK
<1>3. CallsOK(u, tab'[u], req'[u], call')
  BY <1>1, CallIds, PageSlot DEF CallsOK
<1> QED
  BY <1>1, <1>2, <1>3 DEF PageOK

(* A page that has just been replaced has no requests, messages or calls.  *)
LEMMA ReplacedGuest ==
  ASSUME Typed, PageInv, NEW t \in Tabs, NEW p \in Routes,
         NEW F \in [Calls -> CallRec], Fewer(F), Replaced(t, p, F)
  PROVE  PageInv'
<1>1. PageOK(tab'[t], req'[t], channel'[t])
  <2>1. tab'[t].page = "start" /\ channel'[t] = << >>
    BY DEF Replaced, NewPage, Typed, TabType, RestType
  <2>2. \A r \in Slots : req'[t][r] = NoRequest
    BY DEF Replaced, Typed, ReqType
  <2> QED
    BY <2>1, <2>2, Slotted DEF PageOK, NoRequest
<1>2. \A u \in Tabs \ {t} : tab'[u] = tab[u] /\ req'[u] = req[u] /\ channel'[u] = channel[u]
  BY DEF Replaced, Typed, TabType, ReqType, RestType
<1>3. \A c \in Calls : c[3] = "page" => call'[c] = IF c[1] = t THEN NoCall ELSE F[c]
  BY LeftPage DEF Replaced
<1>4. CallsOK(t, tab'[t], req'[t], call')
  BY <1>3, CallIds, PageSlot, NoCallType DEF CallsOK, Active
<1>5. \A c \in Calls : c[3] = "page" /\ c[1] # t /\ Active(call', c) => Active(call, c)
  BY <1>3 DEF Fewer, Active
<1> QED
  BY <1>1, <1>2, <1>4, <1>5, OnePage DEF Typed

(* A page whose load has failed signs in again or is a guest's.            *)
LEMMA LoadFailsPage ==
  ASSUME TabType, NEW t \in Tabs, LoadFails(t)
  PROVE  /\ tab'[t].page \in {"signingIn", "guest"}
         /\ \A u \in Tabs \ {t} : tab'[u] = tab[u]
BY DEF LoadFails, TabType, PageRec

(* Requests that fail or go out on the second chance carry what they had.  *)
LEMMA SettledRequests ==
  ASSUME ReqType, NEW t \in Tabs, NEW F \in SUBSET Slots, NEW P \in SUBSET Slots,
         \A r \in P : req[t][r].step = "preflight", req' = Settled(t, F, P)
  PROVE  /\ \A u \in Tabs \ {t} : req'[u] = req[u]
         /\ \A r \in Slots : \/ req'[t][r] = NoRequest
                             \/ /\ req[t][r] # NoRequest /\ req'[t][r].token = req[t][r].token
                                /\ req'[t][r].public = req[t][r].public
                                /\ \/ req'[t][r] = req[t][r]
                                   \/ req[t][r].step = "preflight" /\ req'[t][r].step = "sent"
         /\ \A r \in F : req'[t][r] = NoRequest
<1>1. \A u \in Tabs \ {t} : req'[u] = req[u]
  BY DEF Settled, ReqType
<1>2. ASSUME NEW r \in F PROVE req'[t][r] = NoRequest
  BY <1>2 DEF Settled, ReqType
<1>3. ASSUME NEW r \in Slots, r \notin F
      PROVE  \/ req'[t][r] = req[t][r]
             \/ /\ req[t][r].step = "preflight" /\ req'[t][r].step = "sent"
                /\ req'[t][r].token = req[t][r].token /\ req'[t][r].public = req[t][r].public
  <2>1. CASE r \in P
    <3>1. req[t][r] \in ReqRec
      BY DEF ReqType
    <3>2. /\ [req[t][r] EXCEPT !.step = "sent"].token = req[t][r].token
          /\ [req[t][r] EXCEPT !.step = "sent"].public = req[t][r].public
          /\ [req[t][r] EXCEPT !.step = "sent"].step = "sent"
      BY <3>1 DEF ReqRec
    <3>3. req'[t][r] = [req[t][r] EXCEPT !.step = "sent"]
      BY <1>3, <2>1 DEF Settled, ReqType
    <3> QED
      BY <2>1, <3>2, <3>3
  <2>2. CASE r \notin P
    BY <1>3, <2>2 DEF Settled, ReqType
  <2> QED
    BY <2>1, <2>2
<1> QED
  BY <1>1, <1>2, <1>3, NoRequestType

(* The refresh of the page is over, or nothing of the page changes it.     *)
LEMMA RedirectGuest ==
  ASSUME Typed, PageInv, NEW t \in Tabs,
         NEW F \in [Calls -> CallRec], Fewer(F),
         Active(F, Refresh(t)) => F = call,
         NEW failing \in SUBSET Slots,
         "init" \in failing => req[t]["init"] # NoRequest /\ ~Active(F, Refresh(t)),
         Redirect(t, failing, F)
  PROVE  PageInv'
<1>1. CASE tab[t].route = "private"
  <2>1. "auth" \in Routes
    BY DEF Routes
  <2> QED
    BY <1>1, <2>1, ReplacedGuest DEF Redirect
<1>2. CASE tab[t].route # "private"
  <2> DEFINE P == {r \in Slots : req[t][r].step = "preflight" /\ F # call}
  <2>1. req' = Settled(t, failing, P) /\ call' = F /\ channel' = channel
    BY <1>2 DEF Redirect, Settled
  <2>2. P \in SUBSET Slots /\ \A r \in P : req[t][r].step = "preflight"
    OBVIOUS
  <2>a. F = call => P = {}
    OBVIOUS
  <2> HIDE DEF P
  <2>3. /\ \A u \in Tabs \ {t} : req'[u] = req[u]
        /\ \A r \in Slots : \/ req'[t][r] = NoRequest
                            \/ /\ req[t][r] # NoRequest /\ req'[t][r].token = req[t][r].token
                               /\ req'[t][r].public = req[t][r].public
                               /\ \/ req'[t][r] = req[t][r]
                                  \/ req[t][r].step = "preflight" /\ req'[t][r].step = "sent"
        /\ \A r \in failing : req'[t][r] = NoRequest
    BY <2>1, <2>2, SettledRequests DEF Typed
  <2>4. PageOK(tab[t], req[t], channel[t]) /\ CallsOK(t, tab[t], req[t], call)
    BY DEF PageInv
  <2>5. \A c \in Calls : c[3] = "page" /\ Active(call', c) => Active(call, c)
    BY <2>1 DEF Fewer
  <2>6. CASE "init" \in failing
    <3>1. tab[t].page = "loading"
      BY <2>4, <2>6 DEF PageOK
    <3>2. /\ tab'[t].page \in {"signingIn", "guest"}
          /\ \A u \in Tabs \ {t} : tab'[u] = tab[u]
      BY <1>2, <2>6, LoadFailsPage DEF Redirect, Typed
    <3>3. PageOK(tab'[t], req'[t], channel'[t])
      <4>1. req'[t]["init"] = NoRequest
        BY <2>3, <2>6
      <4>2. \A r \in Requests : req'[t][r] = NoRequest
        BY <2>3, <2>4, <3>1, Slotted DEF PageOK
      <4> QED
        BY <2>1, <2>4, <3>2, <4>1, <4>2 DEF PageOK, NoRequest
    <3>4. CallsOK(t, tab'[t], req'[t], call')
      <4>1. ~Active(call', SignIn(t)) /\ ~Active(call', SignOut(t)) /\ ~Active(call', Refresh(t))
        BY <2>1, <2>4, <2>5, <2>6, <3>1, CallIds, PageSlot DEF CallsOK
      <4> QED
        BY <4>1 DEF CallsOK
    <3> QED
      BY <2>1, <2>3, <2>5, <3>2, <3>3, <3>4, OnePage DEF Typed
  <2>7. CASE "init" \notin failing
    <3>1. tab' = tab
      BY <1>2, <2>7 DEF Redirect
    <3>2. PageOK(tab'[t], req'[t], channel'[t])
      BY <2>1, <2>3, <2>4, <3>1, Slotted DEF PageOK, NoRequest
    <3>3. CallsOK(t, tab'[t], req'[t], call')
      <4>1. F = call => req'[t]["init"] = req[t]["init"]
        BY <2>1, <2>7, <2>a, Slotted DEF Settled, Typed, ReqType
      <4> QED
        BY <2>1, <2>4, <2>5, <3>1, <4>1, CallIds, PageSlot DEF CallsOK
    <3> QED
      BY <2>1, <2>3, <2>5, <3>1, <3>2, <3>3, OnePage DEF Typed
  <2> QED
    BY <2>6, <2>7
<1> QED
  BY <1>1, <1>2

LEMMA RefreshFailsGuest ==
  ASSUME Typed, PageInv, NEW t \in Tabs, RefreshFails(t)
  PROVE  PageInv'
<1> DEFINE F == [call EXCEPT ![Refresh(t)] = NoCall]
           refused == {r \in Slots : req[t][r].step = "again"}
           P == {r \in Slots : req[t][r].step = "preflight"}
<1>1. F \in [Calls -> CallRec] /\ Fewer(F) /\ ~Active(F, Refresh(t))
  BY CallIds, CallEnded, FewerEnded DEF Typed
<1>2. CASE Redirect(t, refused, F)
  <2>1. refused \in SUBSET Slots /\ ("init" \in refused => req[t]["init"] # NoRequest)
    BY DEF NoRequest
  <2> HIDE DEF F, refused
  <2> QED
    BY <1>1, <1>2, <2>1, RedirectGuest
<1>3. CASE ~Redirect(t, refused, F)
  <2>1. req' = Settled(t, {}, P) /\ call' = F /\ tab' = tab /\ channel' = channel
    BY <1>3 DEF RefreshFails, Settled
  <2>2. P \in SUBSET Slots /\ \A r \in P : req[t][r].step = "preflight"
    OBVIOUS
  <2> HIDE DEF P, F
  <2>3. /\ \A u \in Tabs \ {t} : req'[u] = req[u]
        /\ \A r \in Slots : \/ req'[t][r] = NoRequest
                            \/ /\ req[t][r] # NoRequest /\ req'[t][r].token = req[t][r].token
                               /\ req'[t][r].public = req[t][r].public
    BY <2>1, <2>2, SettledRequests DEF Typed
  <2>4. PageOK(tab'[t], req'[t], channel'[t])
    BY <2>1, <2>3, Slotted DEF PageInv, PageOK, NoRequest
  <2>5. \A c \in Calls : c[3] = "page" /\ Active(call', c) => Active(call, c)
    BY <1>1, <2>1 DEF Fewer
  <2>6. CallsOK(t, tab'[t], req'[t], call')
    BY <1>1, <2>1, <2>5, CallIds, PageSlot DEF PageInv, CallsOK
  <2> QED
    BY <1>1, <2>1, <2>3, <2>4, <2>5, <2>6, OnePage DEF Typed
<1> QED
  BY <1>2, <1>3

(* What a page knows of its token. *)
LEMMA KnownIsHeld ==
  ASSUME NEW t \in Tabs, tab[t].mem # 0
  PROVE  Known(t) = tab[t].mem
BY DEF Known

LEMMA ServeActive ==
  ASSUME ServerType, NEW c \in Calls, Serve(c) \/ StoreFails(c)
  PROVE  \A d \in Calls : Active(call', d) <=> Active(call, d)
<1>1. /\ \A d \in Calls \ {c} : call'[d] = call[d]
      /\ call'[c].step # "none" /\ call[c].step # "none"
  <2>0. call[c] \in CallRec
    BY DEF ServerType
  <2>1. CASE Accept(c)
    BY <2>0, <2>1 DEF Accept, CallRec, ServerType
  <2>2. CASE Deny(c)
    BY <2>0, <2>2 DEF Deny, CallRec, ServerType
  <2>3. CASE AcceptSignOut(c)
    BY <2>0, <2>3 DEF AcceptSignOut, CallRec, ServerType
  <2>4. CASE ReadList(c)
    BY <2>0, <2>4 DEF ReadList, CallRec, ServerType
  <2>5. CASE AddToken(c)
    BY <2>0, <2>5 DEF AddToken, CallRec, ServerType
  <2>6. CASE RemoveToken(c)
    BY <2>0, <2>6 DEF RemoveToken, CallRec, ServerType
  <2>7. CASE StoreFails(c)
    BY <2>0, <2>7 DEF StoreFails, CallRec, ServerType
  <2> QED
    BY <2>1, <2>2, <2>3, <2>4, <2>5, <2>6, <2>7 DEF Serve
<1> QED
  BY <1>1 DEF Active

LEMMA NextGuest ==
  ASSUME Typed, PageInv, TokenInv, [Next]_vars
  PROVE  PageInv'
<1> DEFINE Goal == PageInv'
<1>0. \A t \in Tabs : PageOK(tab[t], req[t], channel[t]) /\ CallsOK(t, tab[t], req[t], call)
  BY DEF PageInv
<1> USE DEF serverVars, clientVars, Typed
<1>a. ASSUME call' = call, NEW t \in Tabs
      PROVE  /\ \A c \in Calls : c[3] = "page" /\ c[1] # t /\ Active(call', c) => Active(call, c)
             /\ Active(call', SignIn(t)) <=> Active(call, SignIn(t))
             /\ Active(call', SignOut(t)) <=> Active(call, SignOut(t))
             /\ Active(call', Refresh(t)) <=> Active(call, Refresh(t))
  BY <1>a DEF Active
<1>b. ASSUME NEW c \in Calls, c[2] # "signOut", call[c].step = "done"
      PROVE  call[c].new \in Tokens \ {0}
  <2>1. call[c].old \in Tokens /\ call[c].new \in Tokens /\ call[c].old < call[c].new
    BY <1>b DEF TokenInv, KindInv, Issuing, ServerType, CallRec
  <2> QED
    BY <2>1 DEF Tokens
<1>1. ASSUME Age PROVE Goal
  BY <1>0, <1>1 DEF Age, PageInv
<1>2. ASSUME NEW t \in Tabs, Boot(t) PROVE Goal
  <2>1. /\ tab'[t].page \in {"loading", "signingIn", "guest"}
        /\ tab[t].page = "start" /\ tab'[t].mem = tab[t].mem
        /\ \A u \in Tabs \ {t} : tab'[u] = tab[u]
    BY <1>2 DEF Boot, TabType, PageRec
  <2>2. PageOK(tab'[t], req'[t], channel'[t])
    BY <1>0, <1>2, <2>1 DEF Boot, PageOK
  <2>3. call' = call /\ req' = req
    BY <1>2 DEF Boot
  <2>4. CallsOK(t, tab'[t], req'[t], call')
    BY <1>0, <1>a, <2>1, <2>3 DEF PageOK, CallsOK, NoRequest, Waits
  <2> QED
    BY <1>2, <1>a, <2>1, <2>2, <2>3, <2>4, OnePage DEF Boot
<1>3. ASSUME NEW t \in Tabs, EnterPassword(t) PROVE Goal
  <2>1. /\ tab'[t].page = "signingIn" /\ tab[t].page = "guest" /\ tab'[t].mem = tab[t].mem
        /\ \A u \in Tabs \ {t} : tab'[u] = tab[u]
    BY <1>3 DEF EnterPassword, TabType, PageRec
  <2>2. PageOK(tab'[t], req'[t], channel'[t])
    BY <1>0, <1>3, <2>1 DEF EnterPassword, PageOK
  <2>3. call' = call /\ req' = req
    BY <1>3 DEF EnterPassword
  <2>4. CallsOK(t, tab'[t], req'[t], call')
    BY <1>0, <1>a, <2>1, <2>3 DEF PageOK, CallsOK, NoRequest, Waits
  <2> QED
    BY <1>3, <1>a, <2>1, <2>2, <2>3, <2>4, OnePage DEF EnterPassword
<1>4. ASSUME NEW t \in Tabs, SendSignIn(t) PROVE Goal
  <2>1. \A c \in Calls \ {SignIn(t)} : Active(call', c) <=> Active(call, c)
    BY <1>4, CallIds, SentCalls DEF SendSignIn, Active, RestType
  <2>2. CallsOK(t, tab'[t], req'[t], call')
    BY <1>0, <1>4, <2>1, CallIds, PageSlot DEF SendSignIn, CallsOK
  <2>3. \A c \in Calls : c[1] # t /\ Active(call', c) => Active(call, c)
    BY <2>1, PageSlot
  <2> QED
    BY <1>0, <1>4, <2>2, <2>3, OnePage DEF SendSignIn
<1>5. ASSUME NEW t \in Tabs, SignedIn(t) PROVE Goal
  <2>1. SignIn(t) \in Calls /\ call[SignIn(t)].new \in Tokens \ {0} /\ Active(call, SignIn(t))
    BY <1>5, <1>b, CallIds, PageSlot DEF SignedIn, Active
  <2>2. /\ tab'[t].page = "loading" /\ tab'[t].mem # 0
        /\ \A u \in Tabs \ {t} : tab'[u] = tab[u]
        /\ tab[t].page = "signingIn"
    BY <1>0, <1>5, <2>1 DEF SignedIn, TabType, PageRec, CallsOK
  <2>3. /\ channel'[t] = channel[t]
        /\ \A u \in Tabs \ {t} : channel'[u] = Append(channel[u], call[SignIn(t)].new)
    BY <1>5 DEF SignedIn, Post
  <2>4. PageOK(tab'[t], req'[t], channel'[t])
    BY <1>0, <1>5, <2>2, <2>3 DEF SignedIn, PageOK
  <2>5. Fewer(call') /\ ~Active(call', SignIn(t))
    BY <1>5, <2>1, FewerEnded DEF SignedIn
  <2>6. CallsOK(t, tab'[t], req'[t], call')
    BY <1>0, <1>5, <2>2, <2>5, CallIds, PageSlot DEF SignedIn, PageOK, CallsOK, Fewer, NoRequest, Waits
  <2> QED
    BY <1>5, <2>1, <2>2, <2>3, <2>4, <2>5, <2>6, OnePage DEF SignedIn, Fewer
<1>6. ASSUME NEW t \in Tabs, SignInLost(t) PROVE Goal
  <2>1. SignIn(t) \in Calls /\ Active(call, SignIn(t))
    BY <1>6, CallIds DEF SignInLost, Active
  <2>2. /\ tab'[t].page = "guest" /\ tab'[t].mem = tab[t].mem
        /\ \A u \in Tabs \ {t} : tab'[u] = tab[u]
        /\ tab[t].page = "signingIn"
    BY <1>0, <1>6, <2>1 DEF SignInLost, TabType, PageRec, CallsOK
  <2>3. PageOK(tab'[t], req'[t], channel'[t])
    BY <1>0, <1>6, <2>2 DEF SignInLost, PageOK
  <2>5. Fewer(call') /\ ~Active(call', SignIn(t))
    BY <1>6, <2>1, FewerEnded DEF SignInLost
  <2>6. CallsOK(t, tab'[t], req'[t], call')
    BY <1>0, <1>6, <2>2, <2>5, CallIds, PageSlot DEF SignInLost, PageOK, CallsOK, Fewer, NoRequest, Waits
  <2> QED
    BY <1>6, <2>2, <2>3, <2>5, <2>6, OnePage DEF SignInLost, Fewer
<1>7. ASSUME NEW t \in Tabs, SendSignOut(t) PROVE Goal
  <2>1. \A c \in Calls \ {SignOut(t)} : Active(call', c) <=> Active(call, c)
    BY <1>7, CallIds, SentCalls DEF SendSignOut, Active, RestType
  <2>2. CallsOK(t, tab'[t], req'[t], call')
    BY <1>0, <1>7, <2>1, CallIds, PageSlot DEF SendSignOut, CallsOK
  <2>3. \A c \in Calls : c[1] # t /\ Active(call', c) => Active(call, c)
    BY <2>1, PageSlot
  <2> QED
    BY <1>0, <1>7, <2>2, <2>3, OnePage DEF SendSignOut
<1>8. ASSUME NEW t \in Tabs, SignedOut(t) PROVE Goal
  <2> DEFINE F == [call EXCEPT ![SignOut(t)] = NoCall]
  <2>1. F \in [Calls -> CallRec] /\ Fewer(F) /\ "auth" \in Routes
    BY CallIds, CallEnded, FewerEnded DEF Routes
  <2>2. Replaced(t, "auth", F)
    BY <1>8 DEF SignedOut
  <2> HIDE DEF F
  <2> QED
    BY <2>1, <2>2, ReplacedGuest
<1>9. ASSUME NEW t \in Tabs, Reload(t) PROVE Goal
  <2>1. call \in [Calls -> CallRec] /\ Fewer(call) /\ tab[t].route \in Routes
    BY DEF Fewer, ServerType, TabType, PageRec
  <2> QED
    BY <1>9, <2>1, ReplacedGuest DEF Reload
<1>10. ASSUME NEW t \in Tabs, RefreshAnswered(t) PROVE Goal
  <2> DEFINE new == call[Refresh(t)].new
  <2>1. Refresh(t) \in Calls /\ new \in Tokens \ {0}
    BY <1>10, <1>b, CallIds, PageSlot DEF RefreshAnswered
  <2>2. /\ tab'[t].page = tab[t].page /\ tab'[t].mem = new
        /\ \A u \in Tabs \ {t} : tab'[u] = tab[u]
    BY <1>10, <2>1 DEF RefreshAnswered, TabType, PageRec
  <2>3. /\ channel'[t] = channel[t]
        /\ \A u \in Tabs \ {t} : channel'[u] = Append(channel[u], new)
    BY <1>10 DEF RefreshAnswered, Post
  <2>4. /\ \A u \in Tabs \ {t} : req'[u] = req[u]
        /\ \A r \in Slots : \/ req'[t][r] = req[t][r]
                            \/ /\ req[t][r] # NoRequest /\ req'[t][r].token = new
                               /\ req'[t][r].public = req[t][r].public
    <3>1. \A q \in ReqRec, s \in ReqSteps :
            /\ [q EXCEPT !.step = s, !.token = new].token = new
            /\ [q EXCEPT !.step = s, !.token = new].public = q.public
      BY DEF ReqRec
    <3> HIDE DEF new
    <3>2. req' = [req EXCEPT ![t] = [r \in Slots |->
                 CASE @[r].step = "preflight" -> [@[r] EXCEPT !.step = "sent", !.token = new]
                   [] @[r].step = "again"     -> [@[r] EXCEPT !.step = "resent", !.token = new]
                   [] OTHER                   -> @[r]]]
      BY <1>10 DEF RefreshAnswered, new
    <3> QED
      <4>1. \A u \in Tabs \ {t} : req'[u] = req[u]
        BY <3>2 DEF ReqType
      <4>2. ASSUME NEW r \in Slots, req[t][r].step = "preflight"
            PROVE  req'[t][r] = [req[t][r] EXCEPT !.step = "sent", !.token = new]
        BY <3>2, <4>2 DEF ReqType
      <4>3. ASSUME NEW r \in Slots, req[t][r].step = "again"
            PROVE  req'[t][r] = [req[t][r] EXCEPT !.step = "resent", !.token = new]
        BY <3>2, <4>3 DEF ReqType
      <4>4. ASSUME NEW r \in Slots, req[t][r].step # "preflight", req[t][r].step # "again"
            PROVE  req'[t][r] = req[t][r]
        BY <3>2, <4>4 DEF ReqType
      <4>5. \A r \in Slots : req[t][r] \in ReqRec
        BY DEF ReqType
      <4>6. "sent" \in ReqSteps /\ "resent" \in ReqSteps
        BY DEF ReqSteps
      <4>7. ASSUME NEW r \in Slots
            PROVE  \/ req'[t][r] = req[t][r]
                   \/ /\ req[t][r] # NoRequest /\ req'[t][r].token = new
                      /\ req'[t][r].public = req[t][r].public
        <5>1. CASE req[t][r].step = "preflight"
          <6>1. req'[t][r] = [req[t][r] EXCEPT !.step = "sent", !.token = new]
            BY <4>2, <5>1
          <6>2. req[t][r] # NoRequest
            BY <5>1, NoRequestType
          <6>3. /\ [req[t][r] EXCEPT !.step = "sent", !.token = new].token = new
                /\ [req[t][r] EXCEPT !.step = "sent", !.token = new].public = req[t][r].public
            BY <4>5 DEF ReqRec
          <6> QED
            BY <6>1, <6>2, <6>3
        <5>2. CASE req[t][r].step = "again"
          <6>1. req'[t][r] = [req[t][r] EXCEPT !.step = "resent", !.token = new]
            BY <4>3, <5>2
          <6>2. req[t][r] # NoRequest
            BY <5>2, NoRequestType
          <6>3. /\ [req[t][r] EXCEPT !.step = "resent", !.token = new].token = new
                /\ [req[t][r] EXCEPT !.step = "resent", !.token = new].public = req[t][r].public
            BY <4>5 DEF ReqRec
          <6> QED
            BY <6>1, <6>2, <6>3
        <5> QED
          BY <4>4, <5>1, <5>2
      <4> QED
        BY <4>1, <4>7
  <2>5. PageOK(tab'[t], req'[t], channel'[t])
    BY <1>0, <2>1, <2>2, <2>3, <2>4, Slotted DEF PageOK, NoRequest
  <2>6. Fewer(call') /\ ~Active(call', Refresh(t))
    BY <1>10, <2>1, FewerEnded DEF RefreshAnswered
  <2>7. CallsOK(t, tab'[t], req'[t], call')
    BY <1>0, <2>2, <2>6, CallIds, PageSlot DEF CallsOK, Fewer
  <2> HIDE DEF new
  <2> QED
    BY <2>1, <2>2, <2>3, <2>4, <2>5, <2>6, <2>7, OnePage DEF Fewer
<1>11. ASSUME NEW t \in Tabs, RefreshDenied(t) PROVE Goal
  BY <1>11, RefreshFailsGuest DEF RefreshDenied
<1>12. ASSUME NEW t \in Tabs, RefreshLost(t) PROVE Goal
  BY <1>12, RefreshFailsGuest DEF RefreshLost
<1>13. ASSUME NEW t \in Tabs, Adopt(t) PROVE Goal
  <2>1. Head(channel[t]) \in Tokens \ {0} /\ Tail(channel[t]) \in Seq(Tokens \ {0})
    BY <1>0, <1>13, HeadTail DEF Adopt, PageOK
  <2>2. /\ tab'[t].page = tab[t].page /\ tab'[t].mem # 0
        /\ \A u \in Tabs \ {t} : tab'[u] = tab[u]
    BY <1>13, <2>1, PageMem DEF Adopt, TabType
  <2>3. /\ channel'[t] \in Seq(Tokens \ {0})
        /\ \A u \in Tabs \ {t} : channel'[u] = channel[u]
    BY <1>13, <2>1 DEF Adopt, RestType
  <2>4. PageOK(tab'[t], req'[t], channel'[t])
    BY <1>0, <1>13, <2>2, <2>3 DEF Adopt, PageOK
  <2>5. call' = call /\ req' = req
    BY <1>13 DEF Adopt, serverVars
  <2>6. CallsOK(t, tab'[t], req'[t], call')
    BY <1>0, <1>a, <2>2, <2>5 DEF CallsOK
  <2> QED
    BY <1>a, <2>2, <2>3, <2>4, <2>5, <2>6, OnePage
<1>14. ASSUME NEW t \in Tabs, Focus(t) PROVE Goal
  <2>1. tab'[t] = tab[t] /\ \A u \in Tabs \ {t} : tab'[u] = tab[u]
    BY <1>0, <1>14, KnownIsHeld DEF Focus, PageOK, TabType, PageRec
  <2>2. \A c \in Calls \ {Refresh(t)} : Active(call', c) => Active(call, c)
    BY <1>14, JoinsCalls DEF Focus
  <2>3. tab[t].page = "app" /\ req' = req /\ channel' = channel
    BY <1>14 DEF Focus
  <2>4. CallsOK(t, tab'[t], req'[t], call')
    BY <1>0, <2>1, <2>2, <2>3, CallIds, PageSlot DEF CallsOK
  <2> QED
    BY <1>0, <2>1, <2>2, <2>3, <2>4, PageSlot, OnePage
<1>15. ASSUME NEW t \in Tabs, NEW r \in Slots, NEW public \in BOOLEAN, Issue(t, r, public)
       PROVE  Goal
  <2>1. \A c \in Calls \ {Refresh(t)} : Active(call', c) => Active(call, c)
    BY <1>15, <1>a, JoinsCalls DEF Issue
  <2>2. /\ tab'[t].page = tab[t].page /\ tab'[t].mem = Known(t)
        /\ \A u \in Tabs \ {t} : tab'[u] = tab[u]
    BY <1>15, KnownType, PageMem DEF Issue, TabType
  <2>3. /\ req'[t][r].token = Known(t) /\ req'[t][r].public = public
        /\ \A x \in Slots \ {r} : req'[t][x] = req[t][x]
        /\ \A u \in Tabs \ {t} : req'[u] = req[u]
    BY <1>15 DEF Issue, ReqType
  <2>a. /\ tab[t].page = (IF r = "init" THEN "loading" ELSE "app") /\ channel' = channel
        /\ r = "init" => ~public
        /\ req[t][r] = NoRequest
    BY <1>15 DEF Issue
  <2>4. PageOK(tab'[t], req'[t], channel'[t])
    <3>2. CASE r = "init"
      BY <1>0, <2>2, <2>3, <2>a, <3>2, Slotted DEF PageOK
    <3>3. CASE r # "init"
      <4>1. Known(t) = tab[t].mem /\ tab[t].mem # 0
        BY <1>0, <2>a, <3>3, KnownIsHeld DEF PageOK
      <4> QED
        BY <1>0, <2>2, <2>3, <2>a, <3>3, <4>1, Slotted DEF PageOK
    <3> QED
      BY <3>2, <3>3
  <2>5. CallsOK(t, tab'[t], req'[t], call')
    <3>1. CASE r = "init"
      <4>1. ~Active(call, SignIn(t)) /\ ~Active(call, SignOut(t)) /\ ~Active(call, Refresh(t))
        BY <1>0, <2>a, <3>1 DEF CallsOK, NoRequest, Waits
      <4>2. req'[t][r].step = "preflight" \/ UNCHANGED call
        BY <1>15 DEF Issue, ReqType
      <4>3. ~Active(call', SignIn(t)) /\ ~Active(call', SignOut(t))
        BY <2>1, <4>1, CallIds, PageSlot
      <4>4. Active(call', Refresh(t)) => req'[t]["init"].step \in Waits
        BY <3>1, <4>1, <4>2 DEF Waits, Active
      <4> QED
        BY <4>3, <4>4 DEF CallsOK
    <3>2. CASE r # "init"
      BY <1>0, <2>1, <2>2, <2>a, <3>2, CallIds, PageSlot DEF CallsOK
    <3> QED
      BY <3>1, <3>2
  <2> QED
    BY <2>1, <2>2, <2>3, <2>4, <2>5, <2>a, PageSlot, OnePage
<1>16. ASSUME NEW t \in Tabs, NEW r \in Slots, Answer(t, r) PROVE Goal
  <2>1. CASE r = "init" /\ tab[t].route = "auth"
    <3>1. call \in [Calls -> CallRec] /\ Fewer(call) /\ "private" \in Routes
      BY DEF Fewer, ServerType, Routes
    <3> QED
      BY <1>16, <2>1, <3>1, ReplacedGuest DEF Answer, Loaded
  <2>2. CASE ~(r = "init" /\ tab[t].route = "auth")
    <3>1. /\ req' = [req EXCEPT ![t][r] = NoRequest] /\ channel' = channel /\ call' = call
          /\ IF r = "init" THEN tab' = [tab EXCEPT ![t].page = "app"] ELSE tab' = tab
      BY <1>16, <2>2 DEF Answer, Loaded
    <3>2. /\ req'[t][r] = NoRequest /\ req[t][r] # NoRequest
          /\ \A x \in Slots \ {r} : req'[t][x] = req[t][x]
          /\ \A u \in Tabs \ {t} : req'[u] = req[u]
      BY <1>16, <3>1 DEF Answer, ReqType, NoRequest
    <3>3. CASE r = "init"
      <4>1. tab[t].page = "loading" /\ ~req[t]["init"].public
        BY <1>0, <3>2, <3>3 DEF PageOK
      <4>2. tab[t].mem # 0
        <5>1. req[t]["init"].token > expired
          BY <1>16, <3>3, <4>1 DEF Answer
        <5>2. req[t]["init"].token # 0
          BY <5>1 DEF RestType, Tokens
        <5> QED
          BY <1>0, <5>2 DEF PageOK
      <4>3. /\ tab'[t].page = "app" /\ tab'[t].mem = tab[t].mem
            /\ \A u \in Tabs \ {t} : tab'[u] = tab[u]
        BY <3>1, <3>3 DEF TabType, PageRec
      <4>4. PageOK(tab'[t], req'[t], channel'[t])
        BY <1>0, <3>1, <3>2, <3>3, <4>1, <4>2, <4>3, Slotted DEF PageOK, NoRequest
      <4>5. CallsOK(t, tab'[t], req'[t], call')
        BY <1>0, <1>a, <3>1, <4>1, <4>3 DEF CallsOK
      <4> QED
        BY <1>a, <3>1, <3>2, <4>3, <4>4, <4>5, OnePage
    <3>4. CASE r # "init"
      <4>1. PageOK(tab'[t], req'[t], channel'[t])
        BY <1>0, <3>1, <3>2, <3>4, Slotted DEF PageOK
      <4>2. CallsOK(t, tab'[t], req'[t], call')
        BY <1>0, <1>a, <3>1, <3>2, <3>4, Slotted DEF CallsOK
      <4> QED
        BY <1>a, <3>1, <3>2, <3>4, <4>1, <4>2, OnePage
    <3> QED
      BY <3>3, <3>4
  <2> QED
    BY <2>1, <2>2
<1>17. ASSUME NEW t \in Tabs, NEW r \in Slots, Refuse(t, r) PROVE Goal
  <2>1. CASE req[t][r].step = "resent" /\ Redirect(t, {r}, call)
    <3>1. call \in [Calls -> CallRec] /\ Fewer(call) /\ {r} \in SUBSET Slots
      BY DEF Fewer, ServerType
    <3>2. "init" \in {r} => req[t]["init"] # NoRequest /\ ~Active(call, Refresh(t))
      BY <1>0, <2>1 DEF NoRequest, PageOK, CallsOK, Waits
    <3> QED
      BY <2>1, <3>1, <3>2, RedirectGuest
  <2>2. CASE ~(req[t][r].step = "resent" /\ Redirect(t, {r}, call))
    <3>1. /\ req[t][r].step = "sent" /\ Joins(t) /\ tab' = tab /\ channel' = channel
          /\ req' = [req EXCEPT ![t][r].step = "again"]
      BY <1>17, <2>2 DEF Refuse
    <3>2. /\ req'[t][r].token = req[t][r].token /\ req[t][r] # NoRequest
          /\ req'[t][r].step = "again" /\ req'[t][r].public = req[t][r].public
          /\ \A x \in Slots \ {r} : req'[t][x] = req[t][x]
          /\ \A u \in Tabs \ {t} : req'[u] = req[u]
      BY <3>1 DEF ReqType, ReqRec, NoRequest
    <3>3. PageOK(tab'[t], req'[t], channel'[t])
      BY <1>0, <3>1, <3>2, Slotted DEF PageOK
    <3>4. \A c \in Calls \ {Refresh(t)} : Active(call', c) => Active(call, c)
      BY <3>1, JoinsCalls
    <3>5. tab[t].page = "app" \/ req'[t]["init"].step \in Waits
      <4>1. r = "init" => req'[t]["init"].step \in Waits
        BY <3>2 DEF Waits
      <4>2. r # "init" => tab[t].page = "app"
        BY <1>0, <3>2 DEF PageOK, Slots
      <4> QED
        BY <4>1, <4>2
    <3>6. CallsOK(t, tab'[t], req'[t], call')
      BY <1>0, <3>1, <3>4, <3>5, CallIds, PageSlot DEF CallsOK
    <3> QED
      BY <3>1, <3>2, <3>3, <3>4, <3>6, PageSlot, OnePage
  <2> QED
    BY <2>1, <2>2
<1>18. ASSUME NEW t \in Tabs, NEW r \in Slots, FailRequest(t, r) PROVE Goal
  <2>1. CASE req[t][r].step = "resent" /\ Redirect(t, {r}, call)
    <3>1. call \in [Calls -> CallRec] /\ Fewer(call) /\ {r} \in SUBSET Slots
      BY DEF Fewer, ServerType
    <3>2. "init" \in {r} => req[t]["init"] # NoRequest /\ ~Active(call, Refresh(t))
      BY <1>0, <2>1 DEF NoRequest, PageOK, CallsOK, Waits
    <3> QED
      BY <2>1, <3>1, <3>2, RedirectGuest
  <2>2. CASE ~(req[t][r].step = "resent" /\ Redirect(t, {r}, call))
    <3>1. /\ req[t][r].step = "sent" /\ channel' = channel /\ call' = call
          /\ req' = [req EXCEPT ![t][r] = NoRequest]
      BY <1>18, <2>2 DEF FailRequest
    <3>2. /\ req'[t][r] = NoRequest /\ req[t][r] # NoRequest
          /\ \A x \in Slots \ {r} : req'[t][x] = req[t][x]
          /\ \A u \in Tabs \ {t} : req'[u] = req[u]
      BY <3>1 DEF ReqType, ReqRec, NoRequest
    <3>3. CASE r # "init"
      <4>1. tab' = tab
        BY <1>18, <2>2, <3>3 DEF FailRequest
      <4>2. PageOK(tab'[t], req'[t], channel'[t])
        BY <1>0, <3>1, <3>2, <3>3, <4>1, Slotted DEF PageOK
      <4>3. CallsOK(t, tab'[t], req'[t], call')
        BY <1>0, <1>a, <3>1, <3>2, <3>3, <4>1, Slotted DEF CallsOK
      <4> QED
        BY <1>a, <3>1, <3>2, <4>1, <4>2, <4>3, OnePage
    <3>4. CASE r = "init"
      <4>1. LoadFails(t) /\ tab[t].page = "loading"
        BY <1>0, <1>18, <2>2, <3>2, <3>4 DEF FailRequest, PageOK
      <4>2. /\ tab'[t].page \in {"signingIn", "guest"}
            /\ \A u \in Tabs \ {t} : tab'[u] = tab[u]
        BY <4>1, LoadFailsPage
      <4>3. PageOK(tab'[t], req'[t], channel'[t])
        BY <1>0, <3>1, <3>2, <3>4, <4>1, <4>2, Slotted DEF PageOK, NoRequest
      <4>4. CallsOK(t, tab'[t], req'[t], call')
        BY <1>0, <1>a, <3>1, <3>4, <4>1 DEF CallsOK, Waits
      <4> QED
        BY <1>a, <3>1, <3>2, <4>2, <4>3, <4>4, OnePage
    <3> QED
      BY <3>3, <3>4
  <2> QED
    BY <2>1, <2>2
<1>19. ASSUME NEW c \in Calls, Unheard(c) PROVE Goal
  <2>1. Fewer(call')
    BY <1>19, FewerEnded DEF Unheard
  <2>2. \A t \in Tabs : CallsOK(t, tab[t], req[t], call')
    BY <1>0, <2>1, CallIds, PageSlot DEF CallsOK, Fewer
  <2> QED
    BY <1>0, <1>19, <2>2 DEF Unheard, PageInv
<1>20. ASSUME NEW c \in Calls, Serve(c), UNCHANGED clientVars PROVE Goal
  <2>1. \A t \in Tabs : CallsOK(t, tab[t], req[t], call')
    BY <1>0, <1>20, ServeActive, CallIds DEF CallsOK
  <2> QED
    BY <1>0, <1>20, <2>1 DEF PageInv
<1>21. ASSUME NEW c \in Calls, StoreError(c) PROVE Goal
  <2>1. \A t \in Tabs : CallsOK(t, tab[t], req[t], call')
    BY <1>0, <1>21, ServeActive, CallIds DEF StoreError, CallsOK
  <2> QED
    BY <1>0, <1>21, <2>1 DEF StoreError, PageInv
<1>22. ASSUME NEW t \in Tabs, SentToSignIn(t) PROVE Goal
  <2>1. call \in [Calls -> CallRec] /\ Fewer(call) /\ "auth" \in Routes
    BY DEF Fewer, ServerType, Routes
  <2> QED
    BY <1>22, <2>1, ReplacedGuest DEF SentToSignIn
<1>23. ASSUME NEW t \in Tabs, Navigate(t) PROVE Goal
  <2>1. /\ tab'[t].page = tab[t].page /\ tab'[t].mem = tab[t].mem
        /\ \A u \in Tabs \ {t} : tab'[u] = tab[u]
    BY <1>23 DEF Navigate, TabType, PageRec
  <2>2. call' = call /\ req' = req /\ channel' = channel
    BY <1>23 DEF Navigate
  <2>3. PageOK(tab'[t], req'[t], channel'[t]) /\ CallsOK(t, tab'[t], req'[t], call')
    BY <1>0, <1>a, <2>1, <2>2 DEF PageOK, CallsOK
  <2> QED
    BY <1>a, <2>1, <2>2, <2>3, OnePage
<1>24. CASE UNCHANGED vars
  BY <1>0, <1>24 DEF vars, PageInv
<1> QED
  BY Slotted, <1>1, <1>2, <1>3, <1>4, <1>5, <1>6, <1>7, <1>8, <1>9, <1>10, <1>11,
     <1>12, <1>13, <1>14, <1>15, <1>16, <1>17, <1>18, <1>19, <1>20, <1>21, <1>22, <1>23, <1>24
     DEF Next, Page, User, Failure, Answered, Served

--------------------------------------------------------------------------------
(* What the actions do to the calls and the tokens.                        *)
LEMMA KindNone ==
  ASSUME ServerType, KindInv(call, issued), NEW c \in Calls
  PROVE  KindInv([call EXCEPT ![c] = NoCall], issued)
<1>1. \A d \in Calls : /\ d = c => [call EXCEPT ![c] = NoCall][d] = NoCall
                       /\ d # c => [call EXCEPT ![c] = NoCall][d] = call[d]
  BY DEF ServerType
<1> QED
  BY <1>1, NoCallType DEF KindInv, ServerType, Tokens, Issuing

LEMMA KindLeft ==
  ASSUME NEW F \in [Calls -> CallRec], issued \in Tokens, KindInv(F, issued), NEW t \in Tabs
  PROVE  KindInv(Left(F, t), issued)
<1> SUFFICES ASSUME NEW c \in Calls
             PROVE  /\ c[2] # "refresh" => Left(F, t)[c].step \notin {"denied", "failed"}
                    /\ c[2] = "signOut" => Left(F, t)[c].step \notin {"add", "adding"}
                    /\ c[2] = "signIn" => Left(F, t)[c].step \notin {"remove", "removing"}
                    /\ Left(F, t)[c].old <= issued
                    /\ c[2] # "signOut" /\ Left(F, t)[c].step \in Issuing =>
                         Left(F, t)[c].old < Left(F, t)[c].new /\ Left(F, t)[c].new <= issued
  BY DEF KindInv
<1>1. \/ Left(F, t)[c] = NoCall
      \/ Left(F, t)[c] = F[c]
      \/ Left(F, t)[c] = F[<<t, c[2], "page">>]
  BY DEF Left
<1>2. <<t, c[2], "page">> \in Calls /\ <<t, c[2], "page">>[2] = c[2]
  BY OwnSlot
<1> QED
  BY <1>1, <1>2, NoCallType DEF KindInv, Tokens, Issuing

LEMMA KindSent ==
  ASSUME ServerType, KindInv(call, issued), cookie \in Tokens, cookie <= issued, NEW c \in Calls
  PROVE  KindInv(Sent(c, cookie), issued)
<1>1. \A d \in Calls \ {c} : /\ Sent(c, cookie)[d].step = call[d].step
                             /\ Sent(c, cookie)[d].old = call[d].old
                             /\ Sent(c, cookie)[d].new = call[d].new
  BY SentCalls
<1>2. Sent(c, cookie)[c].step = "sent" /\ Sent(c, cookie)[c].old = cookie
  BY SentCalls
<1> QED
  BY <1>1, <1>2 DEF KindInv, Issuing

LEMMA KindServe ==
  ASSUME ServerType, KindInv(call, issued), NEW c \in Calls, Serve(c) \/ StoreFails(c)
  PROVE  KindInv(call', issued') /\ issued <= issued'
<1>0. /\ call[c] \in CallRec /\ issued \in Nat /\ c \in Calls
      /\ \A d \in Calls : call[d].old \in Nat /\ call[d].new \in Nat
  BY DEF ServerType, CallRec, Tokens
<1>k. c[2] \in Kinds
  BY DEF Calls
<1>1. CASE Accept(c)
  <2>1. /\ \A d \in Calls \ {c} : call'[d] = call[d]
        /\ call'[c].step = "add" /\ call'[c].old = call[c].old /\ call'[c].new = issued + 1
        /\ c[2] \in {"refresh", "signIn"} /\ issued' = issued + 1
    BY <1>0, <1>1 DEF Accept, CallRec, ServerType
  <2> QED
    BY <1>0, <2>1 DEF KindInv, Issuing
<1>2. CASE ~Accept(c)
  <2>1. /\ \A d \in Calls \ {c} : call'[d] = call[d]
        /\ call'[c].old = call[c].old /\ call'[c].new = call[c].new /\ issued' = issued
    <3>1. CASE Deny(c)
      BY <1>0, <3>1 DEF Deny, CallRec, ServerType
    <3>2. CASE AcceptSignOut(c)
      BY <1>0, <3>2 DEF AcceptSignOut, CallRec, ServerType
    <3>3. CASE ReadList(c)
      BY <1>0, <3>3 DEF ReadList, CallRec, ServerType
    <3>4. CASE AddToken(c)
      BY <1>0, <3>4 DEF AddToken, CallRec, ServerType
    <3>5. CASE RemoveToken(c)
      BY <1>0, <3>5 DEF RemoveToken, CallRec, ServerType
    <3>6. CASE StoreFails(c)
      BY <1>0, <3>6 DEF StoreFails, CallRec, ServerType
    <3> QED
      BY <1>2, <3>1, <3>2, <3>3, <3>4, <3>5, <3>6 DEF Serve
  <2>2. /\ c[2] # "refresh" => call'[c].step \notin {"denied", "failed"}
        /\ c[2] = "signOut" => call'[c].step \notin {"add", "adding"}
        /\ c[2] = "signIn" => call'[c].step \notin {"remove", "removing"}
        /\ c[2] # "signOut" /\ call'[c].step \in Issuing => call[c].step \in Issuing
    <3>0. /\ c[2] # "refresh" => call[c].step \notin {"denied", "failed"}
          /\ c[2] = "signOut" => call[c].step \notin {"add", "adding"}
          /\ c[2] = "signIn" => call[c].step \notin {"remove", "removing"}
      BY DEF KindInv
    <3>1. CASE Deny(c)
      BY <1>0, <3>0, <3>1 DEF Deny, CallRec, ServerType, Issuing
    <3>2. CASE AcceptSignOut(c)
      BY <1>0, <3>0, <3>2 DEF AcceptSignOut, CallRec, ServerType, Issuing
    <3>3. CASE ReadList(c)
      BY <1>0, <3>0, <3>3 DEF ReadList, CallRec, ServerType, Issuing
    <3>4. CASE AddToken(c)
      BY <1>0, <1>k, <3>0, <3>4 DEF AddToken, CallRec, ServerType, Issuing, Kinds
    <3>5. CASE RemoveToken(c)
      BY <1>0, <3>0, <3>5 DEF RemoveToken, CallRec, ServerType, Issuing
    <3>6. CASE StoreFails(c)
      BY <1>0, <3>0, <3>6 DEF StoreFails, CallRec, ServerType, Issuing
    <3> QED
      BY <1>2, <3>1, <3>2, <3>3, <3>4, <3>5, <3>6 DEF Serve
  <2> QED
    BY <1>0, <2>1, <2>2 DEF KindInv
<1> QED
  BY <1>1, <1>2

(* A redirect ends the calls it ends, or takes their page away.            *)
LEMMA RedirectCalls ==
  ASSUME NEW t \in Tabs, NEW failing, NEW F, Redirect(t, failing, F)
  PROVE  call' = F \/ call' = Left(F, t)
BY DEF Redirect, Replaced

LEMMA RefreshFailsCalls ==
  ASSUME NEW t \in Tabs, RefreshFails(t)
  PROVE  \/ call' = [call EXCEPT ![Refresh(t)] = NoCall]
         \/ call' = Left([call EXCEPT ![Refresh(t)] = NoCall], t)
BY RedirectCalls DEF RefreshFails

LEMMA NextTokens ==
  ASSUME Typed, TokenInv, [Next]_vars
  PROVE  TokenInv'
<1> USE DEF Typed
<1>0. KindInv(call, issued) /\ cookie \in Tokens /\ cookie <= issued /\ issued \in Nat
  BY DEF TokenInv, RestType, ServerType, Tokens
<1>a. ASSUME NEW F \in [Calls -> CallRec], KindInv(F, issued), NEW t \in Tabs
      PROVE  KindInv(Left(F, t), issued)
  BY <1>a, KindLeft DEF ServerType
<1>b. ASSUME NEW c \in Calls
      PROVE  [call EXCEPT ![c] = NoCall] \in [Calls -> CallRec] /\ KindInv([call EXCEPT ![c] = NoCall], issued)
  BY <1>0, KindNone, CallEnded
<1>c. ASSUME NEW c \in Calls, c[2] # "signOut", call[c].step = "done" PROVE call[c].new <= issued
  BY <1>0, <1>c DEF KindInv, Issuing
<1>d. ASSUME NEW t \in Tabs, call' = call \/ call' = Left(call, t), issued' = issued, cookie' = cookie
      PROVE  TokenInv'
  BY <1>0, <1>a, <1>d DEF TokenInv, ServerType
<1>e. ASSUME NEW t \in Tabs, NEW c \in Calls, issued' = issued,
             \/ call' = [call EXCEPT ![c] = NoCall] \/ call' = Left([call EXCEPT ![c] = NoCall], t),
             cookie' \in {0, cookie, call[c].new},
             cookie' = call[c].new => (c[2] # "signOut" /\ call[c].step = "done") \/ cookie' \in {0, cookie}
      PROVE  TokenInv'
  <2>1. KindInv(call', issued')
    BY <1>a, <1>b, <1>e
  <2>2. cookie' <= issued'
    BY <1>0, <1>c, <1>e
  <2> QED
    BY <2>1, <2>2 DEF TokenInv
<1>f. ASSUME NEW c \in Calls, call' = Sent(c, cookie), issued' = issued, cookie' = cookie
      PROVE  TokenInv'
  BY <1>0, <1>f, KindSent DEF TokenInv
<1>g. ASSUME NEW t \in Tabs, Joins(t), issued' = issued, cookie' = cookie PROVE TokenInv'
  BY <1>d, <1>f, <1>g, CallIds DEF Joins
<1>1. ASSUME Age PROVE TokenInv'
  BY <1>0, <1>1 DEF Age, serverVars, TokenInv
<1>2. ASSUME NEW t \in Tabs, Boot(t) \/ EnterPassword(t) \/ Navigate(t) \/ Adopt(t) PROVE TokenInv'
  BY <1>0, <1>2 DEF Boot, EnterPassword, Navigate, Adopt, serverVars, TokenInv
<1>3. ASSUME NEW t \in Tabs, SendSignIn(t) PROVE TokenInv'
  BY <1>3, <1>f, CallIds DEF SendSignIn, clientVars
<1>4. ASSUME NEW t \in Tabs, SendSignOut(t) PROVE TokenInv'
  BY <1>4, <1>f, CallIds DEF SendSignOut
<1>5. ASSUME NEW t \in Tabs, SignedIn(t) PROVE TokenInv'
  BY <1>5, <1>e, CallIds, PageSlot DEF SignedIn
<1>6. ASSUME NEW t \in Tabs, SignInLost(t) PROVE TokenInv'
  BY <1>6, <1>e, CallIds DEF SignInLost
<1>7. ASSUME NEW t \in Tabs, SignedOut(t) PROVE TokenInv'
  BY <1>7, <1>e, CallIds DEF SignedOut, Replaced
<1>8. ASSUME NEW t \in Tabs, Reload(t) \/ SentToSignIn(t) PROVE TokenInv'
  BY <1>8, <1>d DEF Reload, SentToSignIn, Replaced
<1>9. ASSUME NEW t \in Tabs, RefreshAnswered(t) PROVE TokenInv'
  BY <1>9, <1>e, CallIds, PageSlot DEF RefreshAnswered
<1>10. ASSUME NEW t \in Tabs, RefreshDenied(t) \/ RefreshLost(t) PROVE TokenInv'
  BY <1>10, <1>e, CallIds, RefreshFailsCalls DEF RefreshDenied, RefreshLost
<1>11. ASSUME NEW t \in Tabs, Focus(t) PROVE TokenInv'
  BY <1>11, <1>g DEF Focus
<1>12. ASSUME NEW t \in Tabs, NEW r \in Slots, NEW public \in BOOLEAN, Issue(t, r, public)
       PROVE  TokenInv'
  BY <1>12, <1>d, <1>g DEF Issue
<1>13. ASSUME NEW t \in Tabs, NEW r \in Slots, Answer(t, r) PROVE TokenInv'
  BY <1>13, <1>d DEF Answer, Loaded, Replaced
<1>14. ASSUME NEW t \in Tabs, NEW r \in Slots, Refuse(t, r) PROVE TokenInv'
  BY <1>14, <1>d, <1>g, RedirectCalls DEF Refuse
<1>15. ASSUME NEW t \in Tabs, NEW r \in Slots, FailRequest(t, r) PROVE TokenInv'
  BY <1>15, <1>d, RedirectCalls DEF FailRequest
<1>16. ASSUME NEW c \in Calls, Unheard(c) PROVE TokenInv'
  <2>1. c[1] \in Tabs
    BY DEF Calls
  <2> QED
    BY <1>16, <1>e, <2>1 DEF Unheard
<1>17. ASSUME NEW c \in Calls, Served(c) \/ StoreError(c) PROVE TokenInv'
  <2>1. KindInv(call', issued') /\ issued <= issued' /\ cookie' = cookie
    BY <1>0, <1>17, KindServe DEF clientVars, StoreError, Served
  <2>2. issued' \in Nat
    BY <1>17, ServeType DEF StoreError, Served, ServerType, Tokens
  <2> QED
    BY <1>0, <2>1, <2>2 DEF TokenInv, Tokens
<1>18. CASE UNCHANGED vars
  BY <1>0, <1>18 DEF vars, serverVars, clientVars, TokenInv
<1> QED
  BY Slotted, <1>1, <1>2, <1>3, <1>4, <1>5, <1>6, <1>7, <1>8, <1>9, <1>10, <1>11,
     <1>12, <1>13, <1>14, <1>15, <1>16, <1>17, <1>18
     DEF Next, Page, User, Failure, Answered, Served

LEMMA NextAge ==
  ASSUME RestType, AgeInv, [Next]_vars
  PROVE  AgeInv'
<1>1. CASE Age
  BY <1>1 DEF Age, AgeInv, RestType, Tokens
<1>2. ASSUME UNCHANGED <<near, expired>> PROVE AgeInv'
  BY <1>2 DEF AgeInv
<1>3. ASSUME NEW t \in Tabs, Page(t) PROVE UNCHANGED <<near, expired>>
  BY <1>3 DEF Page, Boot, SentToSignIn, SendSignIn, SignedIn, SignedOut, RefreshAnswered,
     RefreshDenied, Adopt, Issue, clientVars
<1>4. ASSUME NEW t \in Tabs, User(t) PROVE UNCHANGED <<near, expired>>
  BY <1>4 DEF User, Navigate, EnterPassword, SendSignOut, Focus, Reload, Issue
<1>5. ASSUME NEW t \in Tabs, Failure(t) PROVE UNCHANGED <<near, expired>>
  BY <1>5 DEF Failure, SignInLost, RefreshLost, FailRequest
<1>6. ASSUME NEW t \in Tabs, NEW r \in Slots, Answered(t, r) PROVE UNCHANGED <<near, expired>>
  BY <1>6 DEF Answered, Answer, Refuse
<1>7. ASSUME NEW c \in Calls, Served(c) \/ Unheard(c) \/ StoreError(c)
      PROVE  UNCHANGED <<near, expired>>
  BY <1>7 DEF Served, Unheard, StoreError, clientVars
<1>8. CASE UNCHANGED vars
  BY <1>8 DEF vars, clientVars, AgeInv
<1> QED
  BY <1>1, <1>2, <1>3, <1>4, <1>5, <1>6, <1>7, <1>8 DEF Next

LEMMA InitGuest == Init => GuestInv
<1> SUFFICES ASSUME Init PROVE GuestInv
  OBVIOUS
<1>1. ServerType /\ \A c \in Calls : call[c] = NoCall
  BY NoCallType, Zero DEF Init, ServerType, Calls
<1>2. /\ TabType /\ \A t \in Tabs : tab[t].page = "start"
      /\ \A t \in Tabs, r \in Slots : req[t][r] = NoRequest
      /\ \A t \in Tabs : channel[t] = << >>
  BY PageValues DEF Init, TabType, NewPage, Routes
<1>a. << >> \in Seq(Tokens) /\ << >> \in Seq(Tokens \ {0})
  OBVIOUS
<1>3. ReqType /\ RestType
  <2>1. ReqType
    BY NoRequestType DEF Init, ReqType
  <2>2. channel \in [Tabs -> Seq(Tokens)]
    BY <1>a DEF Init
  <2>3. near \in Tokens /\ expired \in Tokens
    BY Zero DEF Init, Tokens
  <2>4. stored \in Tokens /\ cookie \in Tokens /\ session \in Sessions
    BY Zero DEF Init, Sessions
  <2> QED
    BY <2>1, <2>2, <2>3, <2>4 DEF Init, RestType
<1>4. PageInv
  <2> SUFFICES ASSUME NEW t \in Tabs
               PROVE  PageOK(tab[t], req[t], channel[t]) /\ CallsOK(t, tab[t], req[t], call)
    BY DEF PageInv
  <2>1. /\ tab[t].page = "start" /\ channel[t] \in Seq(Tokens \ {0})
        /\ \A r \in Slots : req[t][r] = NoRequest
    BY <1>2, <1>a
  <2>2. NoRequest.token = 0 /\ NoRequest.public = FALSE
    BY DEF NoRequest
  <2> QED
    BY <1>1, <2>1, <2>2, Slotted, CallIds, NoCallType DEF PageOK, CallsOK, Active
<1>5. TokenInv /\ AgeInv
  <2>1. KindInv(call, issued)
    BY <1>1, NoCallType DEF Init, KindInv, Issuing
  <2>2. cookie <= issued /\ expired <= near
    BY DEF Init
  <2> QED
    BY <2>1, <2>2 DEF TokenInv, AgeInv
<1> QED
  BY <1>1, <1>2, <1>3, <1>4, <1>5 DEF GuestInv, Typed

(* What the pages and the calls know is kept by every step. *)
THEOREM GuestInvariant == Spec => []GuestInv
<1>1. GuestInv /\ [Next]_vars => GuestInv'
  BY NextType, NextGuest, NextTokens, NextAge DEF GuestInv, Typed
<1> QED
  BY InitGuest, <1>1, PTL DEF Spec

(* The type invariant of the session. *)
THEOREM TypeCorrect == Spec => []TypeOK
<1>1. GuestInv => TypeOK
  BY TypedIsTypeOK DEF GuestInv
<1> QED
  BY GuestInvariant, <1>1, PTL

(* A request that goes out, or goes out again. *)
Goes(t, r) == req'[t][r].step \in {"sent", "resent"} /\ req'[t][r].step # req[t][r].step
Good(t, r) ==
    /\ req'[t][r].token # 0
    /\ req'[t][r].token > expired \/ req[t][r].step \in Waits

LEMMA SettledGood ==
  ASSUME GuestInv, NEW t \in Tabs, NEW F \in SUBSET Slots, NEW P \in SUBSET Slots,
         \A r \in P : req[t][r].step = "preflight", req' = Settled(t, F, P)
  PROVE  \A u \in Tabs, r \in Requests : Goes(u, r) => Good(u, r)
<1>1. /\ \A u \in Tabs \ {t} : req'[u] = req[u]
      /\ \A r \in Slots : \/ req'[t][r] = NoRequest
                          \/ /\ req[t][r] # NoRequest /\ req'[t][r].token = req[t][r].token
                             /\ req'[t][r].public = req[t][r].public
                             /\ \/ req'[t][r] = req[t][r]
                                \/ req[t][r].step = "preflight" /\ req'[t][r].step = "sent"
  BY SettledRequests DEF GuestInv, Typed
<1>2. \A r \in Requests : req[t][r] = NoRequest \/ req[t][r].token # 0
  BY DEF GuestInv, PageInv, PageOK
<1> QED
  BY <1>1, <1>2, NoRequestType, Slotted DEF Goes, Good, Waits

LEMMA ReplacedGood ==
  ASSUME GuestInv, NEW t \in Tabs, NEW p, NEW F, Replaced(t, p, F)
  PROVE  \A u \in Tabs, r \in Requests : ~Goes(u, r)
<1>1. \A u \in Tabs, r \in Slots : req'[u][r] = NoRequest \/ req'[u][r] = req[u][r]
  BY DEF Replaced, GuestInv, Typed, ReqType
<1> QED
  BY <1>1, NoRequestType, Slotted DEF Goes

LEMMA RedirectGood ==
  ASSUME GuestInv, NEW t \in Tabs, NEW failing \in SUBSET Slots, NEW F, Redirect(t, failing, F)
  PROVE  \A u \in Tabs, r \in Requests : Goes(u, r) => Good(u, r)
<1>1. CASE tab[t].route = "private"
  BY <1>1, ReplacedGood DEF Redirect
<1>2. CASE tab[t].route # "private"
  <2> DEFINE P == {r \in Slots : req[t][r].step = "preflight" /\ F # call}
  <2>1. req' = Settled(t, failing, P)
    BY <1>2 DEF Redirect, Settled
  <2>2. P \in SUBSET Slots /\ \A r \in P : req[t][r].step = "preflight"
    OBVIOUS
  <2> HIDE DEF P
  <2> QED
    BY <2>1, <2>2, SettledGood
<1> QED
  BY <1>1, <1>2

LEMMA RefreshFailsGood ==
  ASSUME GuestInv, NEW t \in Tabs, RefreshFails(t)
  PROVE  \A u \in Tabs, r \in Requests : Goes(u, r) => Good(u, r)
<1> DEFINE refused == {r \in Slots : req[t][r].step = "again"}
           P == {r \in Slots : req[t][r].step = "preflight"}
<1>1. CASE Redirect(t, refused, [call EXCEPT ![Refresh(t)] = NoCall])
  <2>1. refused \in SUBSET Slots
    OBVIOUS
  <2> HIDE DEF refused
  <2> QED
    BY <1>1, <2>1, RedirectGood
<1>2. CASE ~Redirect(t, refused, [call EXCEPT ![Refresh(t)] = NoCall])
  <2>1. req' = Settled(t, {}, P)
    BY <1>2 DEF RefreshFails, Settled
  <2>2. P \in SUBSET Slots /\ \A r \in P : req[t][r].step = "preflight"
    OBVIOUS
  <2> HIDE DEF P
  <2> QED
    BY <2>1, <2>2, SettledGood
<1> QED
  BY <1>1, <1>2

LEMMA NextGood ==
  ASSUME GuestInv, [Next]_vars
  PROVE  \A t \in Tabs, r \in Requests : Goes(t, r) => Good(t, r)
<1> DEFINE Goal == \A t \in Tabs, r \in Requests : Goes(t, r) => Good(t, r)
<1> USE DEF GuestInv, Typed
<1>a. ASSUME UNCHANGED req PROVE Goal
  BY <1>a DEF Goes
<1>1. ASSUME Age PROVE Goal
  BY <1>1, <1>a DEF Age
<1>2. ASSUME NEW t \in Tabs, Page(t), ~SentToSignIn(t), ~SignedOut(t), ~RefreshAnswered(t),
             ~RefreshDenied(t), ~Issue(t, "init", FALSE)
      PROVE  Goal
  BY <1>2, <1>a DEF Page, Boot, SendSignIn, SignedIn, Adopt, clientVars
<1>3. ASSUME NEW t \in Tabs, SentToSignIn(t) \/ SignedOut(t) \/ Reload(t) PROVE Goal
  BY <1>3, ReplacedGood DEF SentToSignIn, SignedOut, Reload
<1>4. ASSUME NEW t \in Tabs, RefreshAnswered(t) PROVE Goal
  <2> DEFINE new == call[Refresh(t)].new
  <2>1. new # 0
    <3>1. call[Refresh(t)].step = "done" /\ Refresh(t) \in Calls /\ Refresh(t)[2] = "refresh"
      BY <1>4, CallIds, PageSlot DEF RefreshAnswered
    <3>2. call[Refresh(t)].old \in Tokens /\ call[Refresh(t)].new \in Tokens
      BY <3>1 DEF ServerType, CallRec
    <3> QED
      BY <3>1, <3>2 DEF TokenInv, KindInv, Issuing, Tokens
  <2> HIDE DEF new
  <2>2. req' = [req EXCEPT ![t] = [r \in Slots |->
                 CASE @[r].step = "preflight" -> [@[r] EXCEPT !.step = "sent", !.token = new]
                   [] @[r].step = "again"     -> [@[r] EXCEPT !.step = "resent", !.token = new]
                   [] OTHER                   -> @[r]]]
    BY <1>4 DEF RefreshAnswered, new
  <2>3. \A q \in ReqRec, s \in ReqSteps : [q EXCEPT !.step = s, !.token = new].token = new
    BY DEF ReqRec
  <2> SUFFICES ASSUME NEW u \in Tabs, NEW r \in Requests, Goes(u, r) PROVE Good(u, r)
    OBVIOUS
  <2>4. u = t /\ r \in Slots
    BY <2>2, Slotted DEF Goes, ReqType
  <2>5. req[t][r] \in ReqRec /\ "sent" \in ReqSteps /\ "resent" \in ReqSteps
    BY <2>4 DEF ReqType, ReqSteps
  <2>6. CASE req[t][r].step = "preflight"
    <3>1. req'[t][r] = [req[t][r] EXCEPT !.step = "sent", !.token = new]
      BY <2>2, <2>4, <2>6 DEF ReqType
    <3> QED
      BY <2>1, <2>3, <2>4, <2>5, <2>6, <3>1 DEF Good, Waits
  <2>7. CASE req[t][r].step = "again"
    <3>1. req'[t][r] = [req[t][r] EXCEPT !.step = "resent", !.token = new]
      BY <2>2, <2>4, <2>7 DEF ReqType
    <3> QED
      BY <2>1, <2>3, <2>4, <2>5, <2>7, <3>1 DEF Good, Waits
  <2>8. CASE req[t][r].step # "preflight" /\ req[t][r].step # "again"
    BY <2>2, <2>4, <2>8 DEF Goes, ReqType
  <2> QED
    BY <2>6, <2>7, <2>8
<1>5. ASSUME NEW t \in Tabs, RefreshDenied(t) \/ RefreshLost(t) PROVE Goal
  BY <1>5, RefreshFailsGood DEF RefreshDenied, RefreshLost
<1>6. ASSUME NEW t \in Tabs, Navigate(t) \/ EnterPassword(t) \/ SendSignOut(t) \/ Focus(t) \/ SignInLost(t)
      PROVE  Goal
  BY <1>6, <1>a DEF Navigate, EnterPassword, SendSignOut, Focus, SignInLost
<1>7. ASSUME NEW t \in Tabs, NEW q \in Slots, NEW public \in BOOLEAN, Issue(t, q, public) PROVE Goal
  <2> SUFFICES ASSUME NEW u \in Tabs, NEW r \in Requests, Goes(u, r) PROVE Good(u, r)
    OBVIOUS
  <2>1. u = t /\ r = q /\ r # "init"
    BY <1>7, Slotted DEF Issue, Goes, ReqType
  <2>2. Known(t) # 0
    <3>1. tab[t].page = "app" /\ tab[t].mem # 0
      BY <1>7, <2>1 DEF Issue, PageInv, PageOK
    <3> QED
      BY <3>1, KnownIsHeld
  <2>3. req'[t][q].token = Known(t) /\ (req'[t][q].step = "preflight" \/ Known(t) > near)
    BY <1>7, <2>2 DEF Issue, ReqType
  <2>4. Known(t) > near => Known(t) > expired
    BY KnownType DEF AgeInv, RestType, Tokens
  <2> QED
    BY <2>1, <2>2, <2>3, <2>4 DEF Goes, Good
<1>8. ASSUME NEW t \in Tabs, NEW q \in Slots, Answer(t, q) PROVE Goal
  <2>1. CASE q = "init" /\ tab[t].route = "auth"
    BY <1>8, <2>1, ReplacedGood DEF Answer, Loaded
  <2>2. CASE ~(q = "init" /\ tab[t].route = "auth")
    <3>1. req' = [req EXCEPT ![t][q] = NoRequest]
      BY <1>8, <2>2 DEF Answer, Loaded
    <3> QED
      BY <3>1, NoRequestType, Slotted DEF Goes, ReqType
  <2> QED
    BY <2>1, <2>2
<1>9. ASSUME NEW t \in Tabs, NEW q \in Slots, Refuse(t, q) \/ FailRequest(t, q) PROVE Goal
  <2>1. CASE Redirect(t, {q}, call)
    <3>1. {q} \in SUBSET Slots
      OBVIOUS
    <3> QED
      BY <2>1, <3>1, RedirectGood
  <2>2. CASE req' = [req EXCEPT ![t][q] = NoRequest]
    BY <2>2, NoRequestType, Slotted DEF Goes, ReqType
  <2>3. CASE req' = [req EXCEPT ![t][q].step = "again"]
    BY <2>3, Slotted DEF Goes, ReqType, ReqRec
  <2> QED
    BY <1>9, <2>1, <2>2, <2>3 DEF Refuse, FailRequest
<1>10. ASSUME NEW c \in Calls, Served(c) \/ Unheard(c) \/ StoreError(c) PROVE Goal
  BY <1>10, <1>a DEF Served, Unheard, StoreError, clientVars
<1>11. CASE UNCHANGED vars
  BY <1>11, <1>a DEF vars, clientVars
<1> QED
  BY Slotted, <1>1, <1>2, <1>3, <1>4, <1>5, <1>6, <1>7, <1>8, <1>9, <1>10, <1>11
     DEF Next, Page, User, Failure, Answered

(* Every request of a page with a user goes out with a token, and with one *)
(* the server will take unless a refresh came before it: also when calls   *)
(* of several tabs overlap, answers are lost, tokens run out and the page  *)
(* signs in and out (connect.ts:131-147).                                  *)
THEOREM GuestsAskAfterRefresh == Spec => GuestsOnlyAfterRefresh
<1>1. GuestInv /\ [Next]_vars =>
        [\A t \in Tabs, r \in Requests :
           LET before == req[t][r].step
               after == req'[t][r] IN
           after.step \in {"sent", "resent"} /\ after.step # before =>
             after.token # 0 /\ (after.token > expired \/ before \in {"preflight", "again"})]_vars
  BY NextGood DEF Goes, Good, Waits
<1> QED
  BY GuestInvariant, <1>1, PTL DEF Spec, GuestsOnlyAfterRefresh

--------------------------------------------------------------------------------
(* The session.  Two calls are in progress together only when both are     *)
(* unclean, but for the refresh and the sign-out of one page.              *)
PairInv(k) ==
    \A c, d \in Calls : c # d /\ Active(k, c) /\ Active(k, d) /\ k[c].clean =>
      \/ c[2] = "refresh" /\ d[2] = "signOut"
      \/ c[2] = "signOut" /\ d[2] = "refresh"

(* A sign-out is in progress only after the user has ended the session,    *)
(* and what a clean sign-in begins has its token in the list l.            *)
OutInv(k, s) == \A c \in Calls : c[2] = "signOut" /\ Active(k, c) => s # "kept"
BegunInv(k, l) ==
    \A c \in Calls : c[2] = "signIn" /\ k[c].clean /\ k[c].step = "done" => k[c].new \in l

(* Where a call x of a session that is kept has come to: until a refresh   *)
(* has added its token, the list has the one of the cookie ck.             *)
Stage(x, kind, l, ck) ==
    IF kind = "refresh"
      THEN /\ x.old = ck /\ x.step # "denied"
           /\ x.step \in {"sent", "add", "adding", "failed"} => ck \in l
           /\ x.step \in {"remove", "removing", "done"} => x.new \in l
           /\ x.step = "removing" => x.new \in x.read
      ELSE ck \in l /\ (x.step = "adding" => ck \in x.read)
StageInv(k, l, ck, s) ==
    s = "kept" =>
      /\ (\A c \in Calls : ~Active(k, c)) => ck \in l
      /\ \A c \in Calls : Active(k, c) /\ k[c].clean => Stage(k[c], c[2], l, ck)

KeptInv(k, l, ck, s) == PairInv(k) /\ OutInv(k, s) /\ BegunInv(k, l) /\ StageInv(k, l, ck, s)
SessionInv == KeptInv(call, list, cookie, session)

(* A clean call of a session that is kept is alone, and not a sign-out.    *)
LEMMA Alone ==
  ASSUME NEW k, NEW l, NEW ck, KeptInv(k, l, ck, "kept"), NEW c \in Calls,
         Active(k, c), k[c].clean
  PROVE  c[2] # "signOut" /\ \A d \in Calls : Active(k, d) => d = c
BY DEF KeptInv, PairInv, OutInv

(* So is a clean sign-in. *)
LEMMA AloneSignIn ==
  ASSUME NEW k, PairInv(k), NEW c \in Calls, Active(k, c), k[c].clean, c[2] = "signIn"
  PROVE  \A d \in Calls : Active(k, d) => d = c
BY DEF PairInv

(* A page goes away with the calls k. *)
LEMMA KeptLeft ==
  ASSUME NEW k \in [Calls -> CallRec], NEW l, NEW ck, NEW s, KeptInv(k, l, ck, s), NEW t \in Tabs,
         \A x \in Kinds : k[<<t, x, "page">>].step = "none" \/ k[<<t, x, "gone">>].step = "none"
  PROVE  KeptInv(Left(k, t), l, ck, s)
<1> DEFINE Own(c) == <<t, c[2], "page">>
           m(c) == IF c[1] = t /\ Active(k, Own(c)) THEN Own(c) ELSE c
<1>1. ASSUME NEW c \in Calls, Active(Left(k, t), c)
      PROVE  /\ m(c) \in Calls /\ m(c)[2] = c[2] /\ Left(k, t)[c] = k[m(c)] /\ Active(k, m(c))
             /\ c[1] = t => c[3] = "gone"
  <2>1. Own(c) \in Calls /\ Own(c)[2] = c[2]
    BY OwnSlot
  <2>2. CASE c[1] # t
    BY <1>1, <2>2 DEF Left, Active
  <2>3. CASE c[1] = t /\ c[3] = "page"
    BY <1>1, <2>3, NoCallType DEF Left, Active
  <2>4. CASE c[1] = t /\ c[3] # "page"
    <3>1. c[3] = "gone"
      BY <2>4 DEF Calls
    <3> QED
      BY <1>1, <2>1, <2>4, <3>1 DEF Left, Active
  <2> QED
    BY <2>2, <2>3, <2>4
<1>2. ASSUME NEW c \in Calls, NEW d \in Calls, Active(Left(k, t), c), Active(Left(k, t), d), c # d
      PROVE  m(c) # m(d)
  <2>1. /\ c[1] = t => c[3] = "gone"
        /\ d[1] = t => d[3] = "gone"
    BY <1>1, <1>2
  <2>2. c = <<c[1], c[2], c[3]>> /\ d = <<d[1], d[2], d[3]>>
    BY DEF Calls
  <2>3. CASE c[1] = t /\ d[1] = t
    <3>1. c[2] # d[2]
      BY <1>2, <2>1, <2>2, <2>3
    <3>2. m(c)[2] = c[2] /\ m(d)[2] = d[2]
      BY <1>1, <1>2
    <3> QED
      BY <3>1, <3>2
  <2>4. CASE c[1] # t /\ d[1] # t
    BY <1>2, <2>4
  <2>5. CASE c[1] = t /\ d[1] # t
    BY <2>5
  <2>6. CASE c[1] # t /\ d[1] = t
    BY <2>6
  <2> QED
    BY <2>3, <2>4, <2>5, <2>6
<1>3. ASSUME NEW c \in Calls, Active(k, c)
      PROVE  \E d \in Calls : Active(Left(k, t), d)
  <2>1. PICK x \in Kinds, y \in {"page", "gone"}, u \in Tabs : c = <<u, x, y>>
    BY DEF Calls
  <2>2. CASE u # t
    BY <1>3, <2>1, <2>2 DEF Left, Active
  <2>3. CASE u = t
    <3> DEFINE g == <<t, x, "gone">>
               o == <<t, x, "page">>
    <3>1. g \in Calls /\ g[1] = t /\ g[2] = x /\ g[3] = "gone"
      BY DEF Calls
    <3>2. Left(k, t)[g] = IF k[o].step = "none" THEN k[g] ELSE k[o]
      BY <3>1 DEF Left
    <3>3. k[o].step # "none" \/ k[g].step # "none"
      BY <1>3, <2>1, <2>3 DEF Active
    <3>4. Active(Left(k, t), g)
      BY <3>2, <3>3 DEF Active
    <3> QED
      BY <3>1, <3>4
  <2> QED
    BY <2>2, <2>3
<1> HIDE DEF m, Own
<1>4. PairInv(Left(k, t))
  <2> SUFFICES ASSUME NEW c \in Calls, NEW d \in Calls, c # d, Active(Left(k, t), c),
                      Active(Left(k, t), d), Left(k, t)[c].clean
               PROVE  \/ c[2] = "refresh" /\ d[2] = "signOut"
                      \/ c[2] = "signOut" /\ d[2] = "refresh"
    BY DEF PairInv
  <2>1. /\ m(c) \in Calls /\ m(c)[2] = c[2] /\ Left(k, t)[c] = k[m(c)] /\ Active(k, m(c))
        /\ m(d) \in Calls /\ m(d)[2] = d[2] /\ Left(k, t)[d] = k[m(d)] /\ Active(k, m(d))
        /\ m(c) # m(d)
    BY <1>1, <1>2
  <2> QED
    BY <2>1 DEF KeptInv, PairInv
<1>5. OutInv(Left(k, t), s)
  BY <1>1 DEF KeptInv, OutInv
<1>6. BegunInv(Left(k, t), l)
  <2> SUFFICES ASSUME NEW c \in Calls, c[2] = "signIn", Left(k, t)[c].clean, Left(k, t)[c].step = "done"
               PROVE  Left(k, t)[c].new \in l
    BY DEF BegunInv
  <2>1. m(c) \in Calls /\ m(c)[2] = c[2] /\ Left(k, t)[c] = k[m(c)]
    BY <1>1 DEF Active
  <2> QED
    BY <2>1 DEF KeptInv, BegunInv
<1>7. StageInv(Left(k, t), l, ck, s)
  <2> SUFFICES ASSUME s = "kept" PROVE StageInv(Left(k, t), l, ck, s)
    BY DEF StageInv
  <2>1. (\A c \in Calls : ~Active(Left(k, t), c)) => ck \in l
    BY <1>3 DEF KeptInv, StageInv
  <2>2. ASSUME NEW c \in Calls, Active(Left(k, t), c), Left(k, t)[c].clean
        PROVE  Stage(Left(k, t)[c], c[2], l, ck)
    <3>1. m(c) \in Calls /\ m(c)[2] = c[2] /\ Left(k, t)[c] = k[m(c)] /\ Active(k, m(c))
      BY <1>1, <2>2
    <3>2. Stage(k[m(c)], m(c)[2], l, ck)
      BY <2>2, <3>1 DEF KeptInv, StageInv
    <3> QED
      BY <3>1, <3>2
  <2> QED
    BY <2>1, <2>2 DEF StageInv
<1> QED
  BY <1>4, <1>5, <1>6, <1>7 DEF KeptInv

(* A call is over, for the server or its page. *)
LEMMA KeptEnded ==
  ASSUME ServerType, TokenInv, SessionInv, NEW c \in Calls, Active(call, c), NEW ck, NEW s,
         \/ s = "none"
         \/ s = "raced"
         \/ s = Outcome(c) /\ ck = cookie /\ c[2] # "refresh"
         \/ s = Outcome(c) /\ ck = cookie /\ call[c].step \in {"sent", "denied", "failed"}
         \/ s = Outcome(c) /\ ck = call[c].new /\ c[2] = "refresh" /\ call[c].step = "done"
         \/ s = Begun(c) /\ ck = call[c].new /\ c[2] = "signIn" /\ call[c].step = "done"
  PROVE  KeptInv([call EXCEPT ![c] = NoCall], list, ck, s)
<1> DEFINE k == [call EXCEPT ![c] = NoCall]
<1>1. \A d \in Calls : /\ d = c => k[d] = NoCall /\ ~Active(k, d)
                       /\ d # c => k[d] = call[d] /\ (Active(k, d) <=> Active(call, d))
  BY NoCallType DEF ServerType, Active
<1> HIDE DEF k
<1>2. PairInv(k)
  BY <1>1 DEF SessionInv, KeptInv, PairInv
<1>3. BegunInv(k, list)
  BY <1>1, NoCallType DEF SessionInv, KeptInv, BegunInv
<1>4. CASE s # "kept"
  <2>1. OutInv(k, s) /\ StageInv(k, list, ck, s)
    BY <1>4 DEF OutInv, StageInv
  <2> QED
    BY <1>2, <1>3, <2>1 DEF KeptInv, k
<1>5. CASE s = "kept"
  <2>1. call[c].clean /\ (session = "kept" \/ c[2] = "signIn")
    BY <1>5 DEF Outcome, Begun
  <2>2. \A d \in Calls : Active(call, d) => d = c
    <3>1. CASE session = "kept"
      BY <2>1, <3>1, Alone DEF SessionInv
    <3>2. CASE c[2] = "signIn"
      BY <2>1, <3>2, AloneSignIn DEF SessionInv, KeptInv
    <3> QED
      BY <2>1, <3>1, <3>2
  <2>3. \A d \in Calls : ~Active(k, d)
    BY <1>1, <2>2
  <2>4. ck \in list
    <3>1. CASE s = Begun(c) /\ ck = call[c].new /\ c[2] = "signIn" /\ call[c].step = "done"
      BY <2>1, <3>1 DEF SessionInv, KeptInv, BegunInv
    <3>2. CASE ~(s = Begun(c) /\ ck = call[c].new /\ c[2] = "signIn" /\ call[c].step = "done")
      <4>1. s = Outcome(c) /\ session = "kept"
        BY <1>5, <3>2 DEF Outcome
      <4>2. Stage(call[c], c[2], list, cookie) /\ c[2] # "signOut"
        BY <2>1, <4>1, Alone DEF SessionInv, KeptInv, StageInv
      <4> QED
        BY <1>5, <3>2, <4>2 DEF Stage
    <3> QED
      BY <3>1, <3>2
  <2>5. OutInv(k, s) /\ StageInv(k, list, ck, s)
    BY <2>3, <2>4 DEF OutInv, StageInv
  <2> QED
    BY <1>2, <1>3, <2>5 DEF KeptInv, k
<1> QED
  BY <1>4, <1>5

(* A page sends a call. *)
LEMMA KeptSent ==
  ASSUME ServerType, RestType, SessionInv, NEW c \in Calls, ~Active(call, c), NEW s,
         c[2] = "signOut" => s # "kept",
         s = session \/ s = "none",
         \A d \in Calls : Active(call, d) /\ SamePage(c, d) =>
           \/ c[2] = "refresh" /\ d[2] = "signOut"
           \/ c[2] = "signOut" /\ d[2] = "refresh"
  PROVE  KeptInv(Sent(c, cookie), list, cookie, s)
<1> DEFINE k == Sent(c, cookie)
<1>1. /\ k[c].step = "sent" /\ k[c].old = cookie
      /\ k[c].clean <=> \A d \in Calls : Active(call, d) => SamePage(c, d)
      /\ \A d \in Calls \ {c} :
           /\ k[d].step = call[d].step /\ k[d].old = call[d].old
           /\ k[d].new = call[d].new /\ k[d].read = call[d].read
           /\ k[d].clean <=> call[d].clean /\ (Active(call, d) => SamePage(c, d))
  BY SentCalls DEF RestType
<1> HIDE DEF k
<1>2. Active(k, c) /\ \A d \in Calls \ {c} : Active(k, d) <=> Active(call, d)
  BY <1>1 DEF Active
<1>3. PairInv(k)
  BY <1>1, <1>2 DEF SessionInv, KeptInv, PairInv
<1>4. OutInv(k, s)
  BY <1>2 DEF SessionInv, KeptInv, OutInv
<1>5. BegunInv(k, list)
  BY <1>1 DEF SessionInv, KeptInv, BegunInv
<1>6. StageInv(k, list, cookie, s)
  <2> SUFFICES ASSUME s = "kept", NEW d \in Calls, Active(k, d), k[d].clean
               PROVE  Stage(k[d], d[2], list, cookie)
    BY <1>2 DEF StageInv
  <2>0. session = "kept" /\ c[2] # "signOut"
    OBVIOUS
  <2>1. CASE d # c
    <3>1. Active(call, d) /\ call[d].clean /\ SamePage(c, d)
      BY <1>1, <1>2, <2>1
    <3>2. d[2] # "signOut"
      BY <2>0, <3>1, Alone DEF SessionInv
    <3> QED
      BY <2>0, <3>1, <3>2
  <2>2. CASE d = c
    <3>1. \A e \in Calls : Active(call, e) => SamePage(c, e)
      BY <1>1, <2>2
    <3>2. \A e \in Calls : ~Active(call, e)
      <4> SUFFICES ASSUME NEW e \in Calls, Active(call, e) PROVE FALSE
        OBVIOUS
      <4>1. e[2] = "signOut"
        BY <2>0, <3>1
      <4> QED
        BY <2>0, <4>1 DEF SessionInv, KeptInv, OutInv
    <3>3. cookie \in list
      BY <2>0, <3>2 DEF SessionInv, KeptInv, StageInv
    <3> QED
      BY <1>1, <2>2, <3>3 DEF Stage
  <2> QED
    BY <2>1, <2>2
<1> QED
  BY <1>3, <1>4, <1>5, <1>6 DEF KeptInv, k

(* The server takes a call a step further, or fails to. *)
LEMMA KeptServe ==
  ASSUME ServerType, TokenInv, SessionInv, NEW c \in Calls, Serve(c) \/ StoreFails(c),
         UNCHANGED <<cookie, session>>
  PROVE  SessionInv'
<1>0. /\ call[c] \in CallRec /\ c[2] \in Kinds /\ Active(call, c)
      /\ \A d \in Calls : Active(call', d) <=> Active(call, d)
  <2>1. Active(call, c)
    BY DEF Serve, Accept, Deny, AcceptSignOut, ReadList, AddToken, RemoveToken, StoreFails, Active
  <2> QED
    BY <2>1, ServeActive DEF ServerType, Calls
<1>1. /\ \A d \in Calls \ {c} : call'[d] = call[d]
      /\ call'[c].old = call[c].old /\ (call'[c].clean => call[c].clean)
  <2>1. CASE Accept(c)
    BY <1>0, <2>1 DEF Accept, CallRec, ServerType
  <2>2. CASE Deny(c)
    BY <1>0, <2>2 DEF Deny, CallRec, ServerType
  <2>3. CASE AcceptSignOut(c)
    BY <1>0, <2>3 DEF AcceptSignOut, CallRec, ServerType
  <2>4. CASE ReadList(c)
    BY <1>0, <2>4 DEF ReadList, CallRec, ServerType
  <2>5. CASE AddToken(c)
    BY <1>0, <2>5 DEF AddToken, CallRec, ServerType
  <2>6. CASE RemoveToken(c)
    BY <1>0, <2>6 DEF RemoveToken, CallRec, ServerType
  <2>7. CASE StoreFails(c)
    BY <1>0, <2>7 DEF StoreFails, CallRec, ServerType
  <2> QED
    BY <2>1, <2>2, <2>3, <2>4, <2>5, <2>6, <2>7 DEF Serve
<1>2. PairInv(call')
  BY <1>0, <1>1 DEF SessionInv, KeptInv, PairInv
<1>3. OutInv(call', session')
  BY <1>0 DEF SessionInv, KeptInv, OutInv
<1>4. BegunInv(call', list')
  <2> SUFFICES ASSUME NEW d \in Calls, d[2] = "signIn", call'[d].clean, call'[d].step = "done"
               PROVE  call'[d].new \in list'
    BY DEF BegunInv
  <2>1. Active(call, d) /\ call[d].clean
    BY <1>0, <1>1 DEF Active
  <2>2. d = c
    BY <1>0, <2>1, AloneSignIn DEF SessionInv, KeptInv
  <2>3. CASE AddToken(c)
    BY <1>0, <2>2, <2>3 DEF AddToken, CallRec, ServerType
  <2>4. CASE ~AddToken(c)
    <3>1. CASE Accept(c)
      BY <1>0, <2>2, <3>1 DEF Accept, CallRec, ServerType
    <3>2. CASE Deny(c) \/ AcceptSignOut(c)
      BY <2>2, <3>2 DEF Deny, AcceptSignOut
    <3>3. CASE ReadList(c)
      BY <1>0, <2>2, <3>3 DEF ReadList, CallRec, ServerType
    <3>4. CASE RemoveToken(c)
      BY <2>2, <3>4 DEF RemoveToken, TokenInv, KindInv
    <3>5. CASE StoreFails(c)
      <4>1. call[c].step \notin {"remove", "removing"}
        BY <2>2 DEF TokenInv, KindInv
      <4>2. call'[c].clean = FALSE
        BY <1>0, <2>2, <3>5, <4>1 DEF StoreFails, CallRec, ServerType
      <4> QED
        BY <2>2, <4>2
    <3> QED
      BY <2>4, <3>1, <3>2, <3>3, <3>4, <3>5 DEF Serve
  <2> QED
    BY <2>3, <2>4
<1>5. StageInv(call', list', cookie', session')
  <2> SUFFICES ASSUME session = "kept", NEW d \in Calls, Active(call', d), call'[d].clean
               PROVE  Stage(call'[d], d[2], list', cookie)
    BY <1>0 DEF StageInv
  <2>1. Active(call, d) /\ call[d].clean
    BY <1>0, <1>1
  <2>2. d = c /\ c[2] \in {"refresh", "signIn"}
    BY <1>0, <2>1, Alone DEF SessionInv, Kinds
  <2>3. Stage(call[c], c[2], list, cookie)
    BY <2>1, <2>2 DEF SessionInv, KeptInv, StageInv
  <2>4. /\ c[2] = "signIn" => call[c].step \notin {"remove", "removing"}
        /\ c[2] = "refresh" /\ call[c].step = "removing" => call[c].old < call[c].new
    BY DEF TokenInv, KindInv, Issuing
  <2>n. call[c].old \in Nat /\ call[c].new \in Nat
    BY <1>0 DEF CallRec, Tokens
  <2>5. CASE Accept(c)
    <3>1. call'[c].step = "add" /\ call[c].step = "sent" /\ list' = list
      BY <1>0, <2>5 DEF Accept, CallRec, ServerType
    <3> QED
      BY <1>1, <2>2, <2>3, <3>1 DEF Stage
  <2>6. CASE Deny(c)
    BY <2>3, <2>6 DEF Deny, Stage
  <2>7. CASE AcceptSignOut(c)
    BY <2>2, <2>7 DEF AcceptSignOut
  <2>8. CASE ReadList(c)
    <3>1. /\ call'[c].read = list /\ call'[c].new = call[c].new /\ list' = list
          /\ \/ call[c].step = "add" /\ call'[c].step = "adding"
             \/ call[c].step = "remove" /\ call'[c].step = "removing"
      BY <1>0, <2>8 DEF ReadList, CallRec, ServerType
    <3> QED
      BY <1>1, <2>2, <2>3, <2>4, <3>1 DEF Stage
  <2>9. CASE AddToken(c)
    <3>1. /\ call'[c].new = call[c].new /\ list' = call[c].read \cup {call[c].new}
          /\ call[c].step = "adding"
          /\ call'[c].step = IF c[2] = "refresh" THEN "remove" ELSE "done"
      BY <1>0, <2>9 DEF AddToken, CallRec, ServerType
    <3> QED
      BY <1>1, <2>2, <2>3, <3>1 DEF Stage
  <2>10. CASE RemoveToken(c)
    <3>1. /\ call'[c].new = call[c].new /\ list' = call[c].read \ {call[c].old}
          /\ call[c].step = "removing" /\ call'[c].step = "done"
      BY <1>0, <2>10 DEF RemoveToken, CallRec, ServerType
    <3>2. c[2] = "refresh" /\ call[c].old # call[c].new
      BY <2>2, <2>4, <2>n, <3>1
    <3> QED
      BY <1>1, <2>2, <2>3, <3>1, <3>2 DEF Stage
  <2>11. CASE StoreFails(c)
    <3>1. /\ call'[c].new = call[c].new /\ list' = list
          /\ \/ call[c].step \in {"sent", "add", "adding"} /\ call'[c].step = "failed" /\ c[2] = "refresh"
             \/ c[2] = "signIn" /\ call'[c].step = "done"
             \/ call[c].step \in {"remove", "removing"} /\ call'[c].step = "done"
      BY <1>0, <2>11 DEF StoreFails, CallRec, ServerType
    <3> QED
      BY <1>1, <2>2, <2>3, <2>4, <3>1 DEF Stage
  <2> QED
    BY <2>5, <2>6, <2>7, <2>8, <2>9, <2>10, <2>11 DEF Serve
<1> QED
  BY <1>2, <1>3, <1>4, <1>5 DEF SessionInv, KeptInv

(* A page that goes away has nothing in progress that one before it left.  *)
LEMMA RedirectKept ==
  ASSUME NEW t \in Tabs, NEW failing, NEW F \in [Calls -> CallRec], NEW l, NEW ck, NEW s,
         KeptInv(F, l, ck, s), Redirect(t, failing, F)
  PROVE  KeptInv(call', l, ck, s)
BY KeptLeft DEF Redirect, Replaced

LEMMA RefreshFailsKept ==
  ASSUME ServerType, TokenInv, SessionInv, NEW t \in Tabs, RefreshFails(t), NEW s,
         \/ s = Outcome(Refresh(t)) /\ call[Refresh(t)].step \in {"sent", "denied", "failed"}
         \/ s = "none" /\ call[Refresh(t)].step = "done"
  PROVE  KeptInv(call', list, cookie, s)
<1> DEFINE F == [call EXCEPT ![Refresh(t)] = NoCall]
<1>1. Refresh(t) \in Calls /\ Active(call, Refresh(t)) /\ F \in [Calls -> CallRec]
  BY CallIds, CallEnded DEF Active
<1>2. KeptInv(F, list, cookie, s)
  BY <1>1, KeptEnded
<1>3. call' = F \/ \E failing : Redirect(t, failing, F)
  BY DEF RefreshFails
<1> HIDE DEF F
<1> QED
  BY <1>1, <1>2, <1>3, RedirectKept

(* A page has no call in progress with the refresh, but for a sign-out.    *)
LEMMA JoinsKept ==
  ASSUME ServerType, RestType, SessionInv, NEW t \in Tabs, ~Active(call, SignIn(t)), Joins(t)
  PROVE  KeptInv(call', list, cookie, session)
<1>1. CASE InFlight(Refresh(t))
  BY <1>1 DEF Joins, SessionInv
<1>2. CASE ~InFlight(Refresh(t))
  <2>1. Refresh(t) \in Calls /\ ~Active(call, Refresh(t)) /\ Refresh(t)[2] = "refresh"
    BY <1>2, CallIds, PageSlot DEF InFlight, Active
  <2>2. ASSUME NEW d \in Calls, Active(call, d), SamePage(Refresh(t), d) PROVE d[2] = "signOut"
    <3>1. d = <<t, d[2], "page">> /\ d[2] \in Kinds
      BY <2>2 DEF SamePage, Calls, Refresh
    <3> QED
      BY <2>1, <2>2, <3>1 DEF Kinds, Refresh, SignIn
  <2> QED
    BY <1>2, <2>1, <2>2, KeptSent DEF Joins
<1> QED
  BY <1>1, <1>2

LEMMA NextSession ==
  ASSUME GuestInv, SessionInv, [Next]_vars
  PROVE  SessionInv'
<1> USE DEF GuestInv, Typed
<1>0. /\ \A t \in Tabs : PageOK(tab[t], req[t], channel[t]) /\ CallsOK(t, tab[t], req[t], call)
      /\ KeptInv(call, list, cookie, session) /\ call \in [Calls -> CallRec]
  BY DEF PageInv, SessionInv, ServerType
<1>a. ASSUME UNCHANGED <<call, list, cookie, session>> PROVE SessionInv'
  BY <1>0, <1>a DEF SessionInv
<1>b. ASSUME NEW t \in Tabs, NEW p, Replaced(t, p, call), UNCHANGED <<list, cookie, session>>
      PROVE  SessionInv'
  BY <1>0, <1>b, KeptLeft DEF Replaced, SessionInv
<1>c. ASSUME NEW t \in Tabs, NEW x \in {"signIn", "signOut"},
             \A d \in Calls : Active(call, d) /\ d[1] = t /\ d[3] = "page" =>
               x = "signOut" /\ d[2] \in {"signOut", "refresh"},
             ~Active(call, <<t, x, "page">>), call' = Sent(<<t, x, "page">>, cookie),
             UNCHANGED <<list, cookie>>, session' = session \/ session' = "none",
             x = "signOut" => session' = "none"
      PROVE  SessionInv'
  <2> DEFINE c == <<t, x, "page">>
  <2>1. c \in Calls /\ c[2] = x /\ ~Active(call, c)
    BY <1>c DEF Calls, Kinds
  <2>2. ASSUME NEW d \in Calls, Active(call, d), SamePage(c, d)
        PROVE  x = "signOut" /\ d[2] = "refresh"
    <3>1. d[1] = t /\ d[3] = "page" /\ d = <<t, d[2], "page">>
      BY <2>2 DEF SamePage, Calls
    <3> QED
      BY <1>c, <2>2, <3>1
  <2> HIDE DEF c
  <2>3. KeptInv(Sent(c, cookie), list, cookie, session')
    BY <1>c, <2>1, <2>2, KeptSent
  <2> QED
    BY <1>c, <2>3 DEF SessionInv, c
<1>d. ASSUME NEW t \in Tabs, NEW d \in Calls, d[1] = t, d[3] = "page"
      PROVE  d \in {Refresh(t), SignIn(t), SignOut(t)}
  BY <1>d DEF Calls, Kinds, Refresh, SignIn, SignOut
<1>e. ASSUME NEW t \in Tabs, Joins(t), tab[t].page # "signingIn", UNCHANGED <<list, cookie, session>>
      PROVE  SessionInv'
  BY <1>0, <1>e, JoinsKept DEF CallsOK, SessionInv
<1>1. ASSUME Age PROVE SessionInv'
  BY <1>1, <1>a DEF Age, serverVars
<1>2. ASSUME NEW t \in Tabs, Boot(t) \/ EnterPassword(t) \/ Navigate(t) \/ Adopt(t) PROVE SessionInv'
  BY <1>2, <1>a DEF Boot, EnterPassword, Navigate, Adopt, serverVars
<1>3. ASSUME NEW t \in Tabs, SendSignIn(t) PROVE SessionInv'
  <2>1. /\ tab[t].page = "signingIn" /\ ~Active(call, SignIn(t)) /\ call' = Sent(SignIn(t), cookie)
        /\ UNCHANGED <<list, cookie, session>>
    BY <1>3 DEF SendSignIn, InFlight, Active, clientVars
  <2>2. ~Active(call, SignOut(t)) /\ ~Active(call, Refresh(t))
    BY <1>0, <2>1 DEF CallsOK, PageOK, NoRequest, Waits
  <2>3. \A d \in Calls : ~(Active(call, d) /\ d[1] = t /\ d[3] = "page")
    BY <1>d, <2>1, <2>2
  <2>4. /\ "signIn" \in {"signIn", "signOut"} /\ "signIn" # "signOut"
        /\ SignIn(t) = <<t, "signIn", "page">>
    BY DEF SignIn
  <2>5. /\ ~Active(call, <<t, "signIn", "page">>) /\ call' = Sent(<<t, "signIn", "page">>, cookie)
        /\ UNCHANGED <<list, cookie>> /\ session' = session
    BY <2>1, <2>4
  <2> QED
    BY <1>c, <2>3, <2>4, <2>5
<1>4. ASSUME NEW t \in Tabs, SendSignOut(t) PROVE SessionInv'
  <2>1. /\ tab[t].page = "app" /\ ~Active(call, SignOut(t)) /\ call' = Sent(SignOut(t), cookie)
        /\ UNCHANGED <<list, cookie>> /\ session' = "none"
    BY <1>4 DEF SendSignOut, InFlight, Active
  <2>2. ~Active(call, SignIn(t))
    BY <1>0, <2>1 DEF CallsOK
  <2>3. \A d \in Calls : Active(call, d) /\ d[1] = t /\ d[3] = "page" => d[2] = "refresh"
    BY <1>d, <2>1, <2>2, PageSlot
  <2> QED
    BY <1>c, <2>1, <2>3 DEF SignOut
<1>5. ASSUME NEW t \in Tabs, SignedIn(t) PROVE SessionInv'
  BY <1>5, CallIds, PageSlot, KeptEnded DEF SignedIn, SessionInv, Active
<1>6. ASSUME NEW t \in Tabs, SignInLost(t) PROVE SessionInv'
  BY <1>6, CallIds, PageSlot, KeptEnded DEF SignInLost, SessionInv, Active
<1>7. ASSUME NEW t \in Tabs, SignedOut(t) PROVE SessionInv'
  <2> DEFINE F == [call EXCEPT ![SignOut(t)] = NoCall]
  <2>1. /\ SignOut(t) \in Calls /\ Active(call, SignOut(t)) /\ SignOut(t)[2] = "signOut"
        /\ session' = "none" \/ (session' = Outcome(SignOut(t)) /\ cookie' = cookie)
        /\ Replaced(t, "auth", F) /\ F \in [Calls -> CallRec] /\ list' = list
    BY <1>7, CallIds, PageSlot, CallEnded DEF SignedOut, Active
  <2>2. KeptInv(F, list, cookie', session')
    BY <2>1, KeptEnded
  <2> HIDE DEF F
  <2> QED
    BY <2>1, <2>2, KeptLeft DEF Replaced, SessionInv
<1>8. ASSUME NEW t \in Tabs, Reload(t) \/ SentToSignIn(t) PROVE SessionInv'
  BY <1>8, <1>b DEF Reload, SentToSignIn
<1>9. ASSUME NEW t \in Tabs, RefreshAnswered(t) PROVE SessionInv'
  BY <1>9, CallIds, PageSlot, KeptEnded DEF RefreshAnswered, SessionInv, Active
<1>10. ASSUME NEW t \in Tabs, RefreshDenied(t) PROVE SessionInv'
  BY <1>10, RefreshFailsKept DEF RefreshDenied, SessionInv
<1>11. ASSUME NEW t \in Tabs, RefreshLost(t) PROVE SessionInv'
  BY <1>11, RefreshFailsKept DEF RefreshLost, SessionInv
<1>12. ASSUME NEW t \in Tabs, Focus(t) PROVE SessionInv'
  BY <1>12, <1>e DEF Focus
<1>13. ASSUME NEW t \in Tabs, NEW r \in Slots, NEW public \in BOOLEAN, Issue(t, r, public)
       PROVE  SessionInv'
  <2>1. tab[t].page # "signingIn" /\ UNCHANGED <<list, cookie, session>> /\ (Joins(t) \/ UNCHANGED call)
    BY <1>13 DEF Issue
  <2> QED
    BY <1>a, <1>e, <2>1
<1>14. ASSUME NEW t \in Tabs, NEW r \in Slots, Answer(t, r) PROVE SessionInv'
  BY <1>14, <1>a, <1>b DEF Answer, Loaded
<1>15. ASSUME NEW t \in Tabs, NEW r \in Slots, Refuse(t, r) PROVE SessionInv'
  <2>1. CASE Redirect(t, {r}, call)
    BY <1>0, <1>15, <2>1, RedirectKept DEF Refuse, SessionInv
  <2>2. CASE ~Redirect(t, {r}, call)
    <3>1. req[t][r].step = "sent" /\ Joins(t) /\ UNCHANGED <<list, cookie, session>>
      BY <1>15, <2>2 DEF Refuse
    <3>2. tab[t].page # "signingIn"
      BY <1>0, <3>1 DEF PageOK, NoRequest, Slots
    <3> QED
      BY <1>e, <3>1, <3>2
  <2> QED
    BY <2>1, <2>2
<1>16. ASSUME NEW t \in Tabs, NEW r \in Slots, FailRequest(t, r) PROVE SessionInv'
  <2>1. CASE Redirect(t, {r}, call)
    BY <1>0, <1>16, <2>1, RedirectKept DEF FailRequest, SessionInv
  <2>2. CASE ~Redirect(t, {r}, call)
    BY <1>16, <1>a, <2>2 DEF FailRequest
  <2> QED
    BY <2>1, <2>2
<1>17. ASSUME NEW c \in Calls, Unheard(c) PROVE SessionInv'
  <2>1. /\ Active(call, c) /\ call' = [call EXCEPT ![c] = NoCall] /\ list' = list
        /\ c[2] = "signIn" => call[c].step = "done"
        /\ c[2] \in Kinds
    BY <1>17 DEF Unheard, Active, TokenInv, KindInv, Calls
  <2>2. KeptInv([call EXCEPT ![c] = NoCall], list, cookie', session')
    <3>1. CASE c[2] = "signIn"
      BY <1>17, <2>1, <3>1, KeptEnded DEF Unheard
    <3>2. CASE c[2] = "signOut"
      BY <1>17, <2>1, <3>2, KeptEnded DEF Unheard
    <3>3. CASE c[2] = "refresh"
      BY <1>17, <2>1, <3>3, KeptEnded DEF Unheard
    <3> QED
      BY <2>1, <3>1, <3>2, <3>3 DEF Kinds
  <2> QED
    BY <2>1, <2>2 DEF SessionInv
<1>18. ASSUME NEW c \in Calls, Served(c) \/ StoreError(c) PROVE SessionInv'
  BY <1>18, KeptServe DEF Served, StoreError, clientVars
<1>19. CASE UNCHANGED vars
  BY <1>19, <1>a DEF vars, serverVars, clientVars
<1> QED
  BY Slotted, <1>1, <1>2, <1>3, <1>4, <1>5, <1>6, <1>7, <1>8, <1>9, <1>10, <1>11,
     <1>12, <1>13, <1>14, <1>15, <1>16, <1>17, <1>18, <1>19
     DEF Next, Page, User, Failure, Answered

LEMMA InitSession == Init => SessionInv
<1> SUFFICES ASSUME Init PROVE SessionInv
  OBVIOUS
<1>1. \A c \in Calls : call[c] = NoCall /\ ~Active(call, c) /\ call[c].step = "none"
  BY NoCallType DEF Init, Active
<1>2. session = "kept" => cookie \in list
  BY DEF Init
<1> QED
  BY <1>1, <1>2 DEF SessionInv, KeptInv, PairInv, OutInv, BegunInv, StageInv

(* Where the session and its calls have come to, at every step. *)
THEOREM SessionInvariant == Spec => []SessionInv
<1>1. GuestInv /\ SessionInv /\ [Next]_vars => SessionInv'
  BY NextSession
<1> QED
  BY InitSession, GuestInvariant, <1>1, PTL DEF Spec

(* The server denies a refresh only after the user has signed out, an      *)
(* answer was lost, or calls of two pages have overlapped: whatever a page *)
(* asks for meanwhile, and when the store fails (connect.ts:87-92,         *)
(* auth_service.go:303-335).                                               *)
THEOREM RefreshesGranted == Spec => []RefreshGranted
<1>1. GuestInv /\ SessionInv => RefreshGranted
  <2> SUFFICES ASSUME GuestInv, SessionInv, NEW c \in Calls, call[c].step = "denied",
                      session = "kept", call[c].clean
               PROVE  FALSE
    BY DEF RefreshGranted
  <2>1. Stage(call[c], c[2], list, cookie)
    BY DEF SessionInv, KeptInv, StageInv, Active
  <2>2. c[2] = "refresh"
    BY DEF GuestInv, TokenInv, KindInv
  <2> QED
    BY <2>1, <2>2 DEF Stage
<1> QED
  BY SessionInvariant, GuestInvariant, <1>1, PTL
=================================================================================
