--------------------------------- MODULE Session ---------------------------------
(***************************************************************************)
(* The session of a user in the tabs of a browser: the access token in     *)
(* memory and in localStorage (web/src/auth-state.ts), its refresh before  *)
(* a request, after a refusal and on focus, once at a time in a tab        *)
(* (web/src/connect.ts), its broadcast to the other tabs, and signing in   *)
(* and out (web/src/contexts/AuthContext.tsx).                             *)
(*                                                                         *)
(* Access tokens expire in the order they were issued: those up to `near`  *)
(* are so close to it that the client refreshes them, those up to          *)
(* `expired` are not taken by the server any more, which refuses a request *)
(* of a protected method and answers one of a public method as a guest's.  *)
(* Requests of a page without a user are left out: they carry no token.    *)
(***************************************************************************)
EXTENDS RefreshTokens, Sequences

CONSTANTS
    Requests,   \* requests a tab can have under way at once
    MaxFaults   \* bound: requests and answers lost, errors of the store, reloads

ASSUME SessionAssumption == MaxFaults \in Nat /\ "init" \notin Requests

VARIABLES
    tab,        \* the state of a page
    req,        \* its requests
    stored,     \* the token in localStorage
    cookie,     \* the refresh token in the cookie jar
    channel,    \* messages of the BroadcastChannel a tab has not read yet
    creds,      \* credentials are saved for the automatic sign-in
    near, expired,
    session,    \* what became of the session (for the properties only)
    faults

clientVars == <<tab, req, stored, cookie, channel, creds, near, expired, session, faults>>
vars == <<serverVars, clientVars>>

(* The request of AuthContext.initialize is one of its own. *)
Slots == Requests \cup {"init"}

(* page   "start"      the page is loading                                 *)
(*        "loading"    initialize waits for getCurrentUser                 *)
(*        "signingIn"  it, or the user, waits for signIn                   *)
(*        "app"        there is a user                                     *)
(*        "guest"      there is none                                       *)
(* mem     the token in memory                                             *)
(* loads   how often initialize has failed to load the user                *)
(* route   "auth"       the sign-in page                                   *)
(*         "private"    one of PRIVATE_ROUTES                              *)
(*         "public"     any other: a memo, or one that does not exist      *)
Pages == {"start", "loading", "signingIn", "app", "guest"}
Routes == {"auth", "private", "public"}
NewPage(route) == [page |-> "start", mem |-> 0, loads |-> 0, route |-> route]

(* step   "preflight"  waits for the refresh of a token near its end       *)
(*        "sent"       is at the server                                    *)
(*        "again"      was refused and waits for a refresh                 *)
(*        "resent"     is at the server for the second and last time       *)
(* public  it is one of PublicMethods                                      *)
NoRequest == [step |-> "none", token |-> 0, public |-> FALSE]
ReqSteps == {"none", "preflight", "sent", "again", "resent"}

(* "kept"   the cookie has the token of a session that goes on             *)
(* "raced"  calls of two pages that change the list have overlapped since, *)
(*          or the token of the sign-in was not added                      *)
(* "none"   nobody is signed in, or the answer of a rotation was lost      *)
Sessions == {"kept", "raced", "none"}

(* Nothing is left of the last session, or it goes on with an access token *)
(* of any age; pages are opened.                                           *)
Init ==
    /\ issued = 1
    /\ \/ /\ list = {} /\ stored = 0 /\ cookie = 0 /\ session = "none"
          /\ near = 1 /\ expired = 1
       \/ /\ list = {1} /\ stored = 1 /\ cookie = 1 /\ session = "kept"
          /\ near \in 0..1 /\ expired \in 0..near
    /\ call = [c \in Calls |-> NoCall]
    /\ tab \in [Tabs -> {NewPage("private"), NewPage("public")}]
    /\ req = [t \in Tabs |-> [r \in Slots |-> NoRequest]]
    /\ channel = [t \in Tabs |-> <<>>]
    /\ creds = FALSE /\ faults = 0

Refresh(t) == <<t, "refresh", "page">>

(* Mutant: an expired token is forgotten. *)
KnownFresh(t) ==
    IF tab[t].mem > expired THEN tab[t].mem ELSE IF stored > expired THEN stored ELSE 0

(* getAccessToken: a stored token is adopted if it has not expired. *)
Known(t) ==
    IF tab[t].mem # 0 THEN tab[t].mem ELSE IF stored > expired THEN stored ELSE 0

(* Mutant: a caller does not join the refresh in progress but takes its    *)
(* place.                                                                  *)
JoinsNever(t) == call' = Sent(Refresh(t), cookie)

(* tokenRefreshManager.refresh: the refresh in progress, or a new one. *)
Joins(t) == IF InFlight(Refresh(t)) THEN UNCHANGED call ELSE call' = Sent(Refresh(t), cookie)

Fault == faults < MaxFaults /\ faults' = faults + 1

Post(t, token) == [u \in Tabs |-> IF u = t THEN channel[u] ELSE Append(channel[u], token)]

(* The page goes away, and nothing of it hears the answers of its calls.   *)
(* One such call of a kind is followed at a time.                          *)
Left(calls, t) ==
    [c \in Calls |->
        IF c[1] # t THEN calls[c]
        ELSE IF c[3] = "page" THEN NoCall
        ELSE LET own == <<t, c[2], "page">> IN IF calls[own].step = "none" THEN calls[c] ELSE calls[own]]

Replaced(t, route, calls) ==
    /\ \A k \in Kinds : calls[<<t, k, "page">>].step = "none" \/ calls[<<t, k, "gone">>].step = "none"
    /\ tab' = [tab EXCEPT ![t] = NewPage(route)]
    /\ req' = [req EXCEPT ![t] = [r \in Slots |-> NoRequest]]
    /\ channel' = [channel EXCEPT ![t] = <<>>]
    /\ call' = Left(calls, t)

(* A call is over: one that has raced with others may have cost the        *)
(* session its token.                                                      *)
Outcome(c) == IF session = "kept" /\ ~call[c].clean THEN "raced" ELSE session

-------------------------------------------------------------------------------
(* The access tokens grow old. *)
Age ==
    /\ issued < MaxToken
    /\ \/ near < issued /\ near' = near + 1 /\ UNCHANGED expired
       \/ expired < near /\ expired' = expired + 1 /\ UNCHANGED near
    /\ UNCHANGED <<serverVars, tab, req, stored, cookie, channel, creds, session, faults>>

(* The interceptor sends request r with a token the server will take, if    *)
(* it can: a token near its end is refreshed first.                        *)
Issue(t, r, public) ==
    LET known == Known(t) IN
    /\ tab[t].page = IF r = "init" THEN "loading" ELSE "app"
    /\ r = "init" => ~public
    /\ req[t][r] = NoRequest
    /\ tab' = [tab EXCEPT ![t].mem = known]
    /\ \/ /\ known # 0 /\ known <= near
          /\ Joins(t)
          /\ req' = [req EXCEPT ![t][r] = [step |-> "preflight", token |-> known, public |-> public]]
       \/ /\ known = 0 \/ known > near
          /\ req' = [req EXCEPT ![t][r] = [step |-> "sent", token |-> known, public |-> public]]
          /\ UNCHANGED call
    /\ UNCHANGED <<list, issued, stored, cookie, channel, creds, near, expired, session, faults>>

(* initialize could not load the user: once more with the saved             *)
(* credentials, or a guest.                                                *)
LoadFails(t) ==
    LET first == tab[t].loads = 0 IN
    /\ stored' = IF first THEN 0 ELSE stored
    /\ tab' = [tab EXCEPT ![t].page = IF first /\ creds THEN "signingIn" ELSE "guest",
                          ![t].mem = IF first THEN 0 ELSE @,
                          ![t].loads = @ + 1]

(* The requests of failing have failed for good: redirectOnAuthFailure, or, *)
(* at other routes, only their errors.                                     *)
Redirect(t, failing, calls) ==
    \/ /\ tab[t].route = "private"
       /\ stored' = 0
       /\ Replaced(t, "auth", calls)
    \/ /\ tab[t].route # "private"
       /\ call' = calls
       /\ req' = [req EXCEPT ![t] = [r \in Slots |->
                    IF r \in failing THEN NoRequest
                    ELSE IF @[r].step = "preflight" /\ calls # call THEN [@[r] EXCEPT !.step = "sent"]
                    ELSE @[r]]]
       /\ IF "init" \in failing THEN LoadFails(t) ELSE UNCHANGED <<tab, stored>>
       /\ UNCHANGED channel

(* The user is loaded, and from the sign-in page goes to the main one.     *)
Loaded(t) ==
    IF tab[t].route = "auth"
      THEN Replaced(t, "private", call)
      ELSE /\ tab' = [tab EXCEPT ![t].page = "app"]
           /\ req' = [req EXCEPT ![t]["init"] = NoRequest]
           /\ UNCHANGED <<channel, call>>

(* With a token that is good, or of a public method: then as a guest's.    *)
Answer(t, r) ==
    /\ req[t][r].step \in {"sent", "resent"}
    /\ req[t][r].token > expired \/ req[t][r].public
    /\ IF r = "init" THEN Loaded(t)
       ELSE req' = [req EXCEPT ![t][r] = NoRequest] /\ UNCHANGED <<tab, channel, call>>
    /\ UNCHANGED <<list, issued, stored, cookie, creds, near, expired, session, faults>>

(* Unauthenticated: a refresh and a second try, once. *)
Refuse(t, r) ==
    /\ req[t][r].token <= expired /\ ~req[t][r].public
    /\ \/ /\ req[t][r].step = "sent"
          /\ Joins(t)
          /\ req' = [req EXCEPT ![t][r].step = "again"]
          /\ UNCHANGED <<tab, stored, channel>>
       \/ req[t][r].step = "resent" /\ Redirect(t, {r}, call)
    /\ UNCHANGED <<list, issued, cookie, creds, near, expired, session, faults>>

(* Any other error; on the second try it counts as a failed refresh. *)
FailRequest(t, r) ==
    /\ Fault
    /\ \/ /\ req[t][r].step = "sent" /\ r # "init"
          /\ req' = [req EXCEPT ![t][r] = NoRequest]
          /\ UNCHANGED <<tab, stored, channel, call>>
       \/ /\ req[t][r].step = "sent" /\ r = "init"
          /\ req' = [req EXCEPT ![t][r] = NoRequest]
          /\ LoadFails(t)
          /\ UNCHANGED <<channel, call>>
       \/ req[t][r].step = "resent" /\ Redirect(t, {r}, call)
    /\ UNCHANGED <<list, issued, cookie, creds, near, expired, session>>

-------------------------------------------------------------------------------
(* Mutant: the answer is kept, those who wait for it are not told. *)
RefreshAnsweredQuietly(t) ==
    LET c == Refresh(t)
        new == call[c].new IN
    /\ call[c].step = "done"
    /\ call' = [call EXCEPT ![c] = NoCall]
    /\ cookie' = new /\ stored' = new
    /\ tab' = [tab EXCEPT ![t].mem = new]
    /\ channel' = Post(t, new)
    /\ session' = Outcome(c)
    /\ UNCHANGED <<list, issued, req, creds, near, expired, faults>>

(* doRefreshAccessToken has its answer; every request that waited goes on. *)
RefreshAnswered(t) ==
    LET c == Refresh(t)
        new == call[c].new IN
    /\ call[c].step = "done"
    /\ call' = [call EXCEPT ![c] = NoCall]
    /\ cookie' = new /\ stored' = new
    /\ tab' = [tab EXCEPT ![t].mem = new]
    /\ channel' = Post(t, new)
    /\ req' = [req EXCEPT ![t] = [r \in Slots |->
                 CASE @[r].step = "preflight" -> [@[r] EXCEPT !.step = "sent", !.token = new]
                   [] @[r].step = "again"     -> [@[r] EXCEPT !.step = "resent", !.token = new]
                   [] OTHER                   -> @[r]]]
    /\ session' = Outcome(c)
    /\ UNCHANGED <<list, issued, creds, near, expired, faults>>

(* The refresh fails: what waited before its first try goes out with the    *)
(* old token, what had been refused fails.                                 *)
RefreshFails(t) ==
    LET calls == [call EXCEPT ![Refresh(t)] = NoCall]
        refused == {r \in Slots : req[t][r].step = "again"} IN
    \/ refused # {} /\ Redirect(t, refused, calls)
    \/ /\ refused = {}
       /\ call' = calls
       /\ req' = [req EXCEPT ![t] = [r \in Slots |->
                    IF @[r].step = "preflight" THEN [@[r] EXCEPT !.step = "sent"] ELSE @[r]]]
       /\ UNCHANGED <<tab, stored, channel>>

RefreshDenied(t) ==
    /\ call[Refresh(t)].step \in {"denied", "failed"}
    /\ RefreshFails(t)
    /\ session' = Outcome(Refresh(t))
    /\ UNCHANGED <<list, issued, cookie, creds, near, expired, faults>>

(* The call, or its answer, is lost: with the answer of a rotation goes the *)
(* only copy of the new token.                                             *)
RefreshLost(t) ==
    LET c == Refresh(t) IN
    /\ Fault
    /\ call[c].step \in {"sent", "done"}
    /\ RefreshFails(t)
    /\ session' = IF call[c].step = "done" THEN "none" ELSE Outcome(c)
    /\ UNCHANGED <<list, issued, cookie, creds, near, expired>>

(* The session that a sign-in begins. *)
Begun(c) == IF call[c].clean THEN "kept" ELSE "raced"

(* The browser keeps the cookie of an answer no page is waiting for. *)
Unheard(c) ==
    /\ c[3] = "gone" /\ call[c].step \in {"done", "denied", "failed"}
    /\ call' = [call EXCEPT ![c] = NoCall]
    /\ cookie' = IF call[c].step # "done" THEN cookie
                 ELSE IF c[2] = "signOut" THEN 0 ELSE call[c].new
    /\ session' = IF c[2] = "signIn" THEN Begun(c)
                  ELSE IF c[2] = "signOut" THEN "none" ELSE Outcome(c)
    /\ UNCHANGED <<list, issued, tab, req, stored, channel, creds, near, expired, faults>>

(* BroadcastChannel.onmessage: the token of another tab is taken as it is. *)
Adopt(t) ==
    /\ channel[t] # <<>>
    /\ tab' = [tab EXCEPT ![t].mem = Head(channel[t])]
    /\ channel' = [channel EXCEPT ![t] = Tail(@)]
    /\ UNCHANGED <<serverVars, req, stored, cookie, creds, near, expired, session, faults>>

(* useTokenRefreshOnFocus *)
Focus(t) ==
    /\ tab[t].page = "app" /\ Known(t) # 0 /\ Known(t) <= near
    /\ ~InFlight(Refresh(t))
    /\ Joins(t)
    /\ tab' = [tab EXCEPT ![t].mem = Known(t)]
    /\ UNCHANGED <<list, issued, req, stored, cookie, channel, creds, near, expired, session, faults>>

-------------------------------------------------------------------------------
(* initialize, called once for a page: without a stored token the saved     *)
(* credentials are tried first.                                            *)
Boot(t) ==
    /\ tab[t].page = "start"
    /\ tab' = [tab EXCEPT ![t].page = IF stored # 0 \/ tab[t].mem # 0 THEN "loading"
                                      ELSE IF creds THEN "signingIn" ELSE "guest"]
    /\ UNCHANGED <<serverVars, req, stored, cookie, channel, creds, near, expired, session, faults>>

SignIn(t) == <<t, "signIn", "page">>
SignOut(t) == <<t, "signOut", "page">>

(* RootLayout: a guest at a private route is sent to sign in. *)
SentToSignIn(t) ==
    /\ tab[t].page = "guest" /\ tab[t].route = "private"
    /\ stored' = 0
    /\ Replaced(t, "auth", call)
    /\ UNCHANGED <<list, issued, cookie, creds, near, expired, session, faults>>

(* The user follows a link within the page. *)
Navigate(t) ==
    /\ \/ /\ tab[t].page = "app" /\ tab[t].route # "auth"
          /\ tab' = [tab EXCEPT ![t].route = IF @ = "private" THEN "public" ELSE "private"]
       \/ /\ tab[t].page = "guest" /\ tab[t].route = "public"
          /\ tab' = [tab EXCEPT ![t].route = "auth"]
    /\ UNCHANGED <<serverVars, req, stored, cookie, channel, creds, near, expired, session, faults>>

(* handleSignInButtonClick; the credentials are saved with the answer. *)
EnterPassword(t) ==
    /\ tab[t].page = "guest" /\ tab[t].route = "auth"
    /\ tab' = [tab EXCEPT ![t].page = "signingIn", ![t].loads = 0]
    /\ UNCHANGED <<serverVars, req, stored, cookie, channel, creds, near, expired, session, faults>>

SendSignIn(t) ==
    /\ tab[t].page = "signingIn" /\ ~InFlight(SignIn(t)) /\ issued < MaxToken
    /\ call' = Sent(SignIn(t), cookie)
    /\ UNCHANGED <<list, issued, clientVars>>

SignedIn(t) ==
    LET c == SignIn(t)
        new == call[c].new IN
    /\ call[c].step = "done"
    /\ call' = [call EXCEPT ![c] = NoCall]
    /\ cookie' = new /\ stored' = new /\ creds' = TRUE /\ session' = Begun(c)
    /\ tab' = [tab EXCEPT ![t].mem = new, ![t].page = "loading"]
    /\ channel' = Post(t, new)
    /\ UNCHANGED <<list, issued, req, near, expired, faults>>

SignInLost(t) ==
    LET c == SignIn(t) IN
    /\ Fault
    /\ call[c].step \in {"sent", "done"}
    /\ call' = [call EXCEPT ![c] = NoCall]
    /\ tab' = [tab EXCEPT ![t].page = "guest"]
    /\ session' = Outcome(c)
    /\ UNCHANGED <<list, issued, req, stored, cookie, channel, creds, near, expired>>

(* logout; a token near its end is refreshed first, as Focus does. *)
SendSignOut(t) ==
    /\ tab[t].page = "app" /\ Known(t) > near
    /\ ~InFlight(SignOut(t))
    /\ call' = Sent(SignOut(t), cookie)
    /\ session' = "none"
    /\ UNCHANGED <<list, issued, tab, req, stored, cookie, channel, creds, near, expired, faults>>

(* With or without an answer the client forgets the session, and UserMenu  *)
(* goes to the sign-in page.                                               *)
SignedOut(t) ==
    LET c == SignOut(t) IN
    /\ \/ call[c].step = "done" /\ cookie' = 0 /\ session' = "none" /\ UNCHANGED faults
       \/ call[c].step \in {"sent", "done"} /\ Fault /\ session' = Outcome(c) /\ UNCHANGED cookie
    /\ stored' = 0 /\ creds' = FALSE
    /\ Replaced(t, "auth", [call EXCEPT ![c] = NoCall])
    /\ UNCHANGED <<list, issued, near, expired>>

Reload(t) ==
    /\ tab[t].page \in {"app", "guest"} /\ Fault
    /\ Replaced(t, tab[t].route, call)
    /\ UNCHANGED <<list, issued, stored, cookie, creds, near, expired, session>>

(* The store fails in a call. *)
StoreError(c) == StoreFails(c) /\ Fault
    /\ UNCHANGED <<tab, req, stored, cookie, channel, creds, near, expired, session>>

-------------------------------------------------------------------------------
(* What a page does on its own. *)
Page(t) ==
    \/ Boot(t) \/ SentToSignIn(t) \/ SendSignIn(t) \/ SignedIn(t) \/ SignedOut(t)
    \/ RefreshAnswered(t) \/ RefreshDenied(t) \/ Adopt(t) \/ Issue(t, "init", FALSE)

User(t) ==
    \/ Navigate(t) \/ EnterPassword(t) \/ SendSignOut(t) \/ Focus(t) \/ Reload(t)
    \/ \E r \in Requests, public \in BOOLEAN : Issue(t, r, public)

Failure(t) ==
    \/ SignInLost(t) \/ RefreshLost(t)
    \/ \E r \in Slots : FailRequest(t, r)

Answered(t, r) == Answer(t, r) \/ Refuse(t, r)
Served(c) == Serve(c) /\ UNCHANGED clientVars

Next ==
    \/ Age
    \/ \E t \in Tabs : Page(t) \/ User(t) \/ Failure(t)
    \/ \E t \in Tabs, r \in Slots : Answered(t, r)
    \/ \E c \in Calls : Served(c) \/ Unheard(c) \/ StoreError(c)

Spec == Init /\ [][Next]_vars

(* A page goes on, and the server with the calls of its tab. *)
Runs(t) == Page(t) \/ \E c \in Calls : c[1] = t /\ (Served(c) \/ Unheard(c))

(* The server answers and pages run; the user and time are free to stop. *)
Fairness ==
    /\ \A t \in Tabs : WF_vars(Runs(t))
    /\ \A t \in Tabs, r \in Slots : WF_vars(Answered(t, r))

FairSpec == Spec /\ Fairness

-------------------------------------------------------------------------------
TypeOK ==
    /\ list \subseteq Tokens /\ issued \in Tokens
    /\ call \in [Calls -> [step : CallSteps, old : Tokens, new : Tokens,
                           read : SUBSET Tokens, clean : BOOLEAN]]
    /\ tab \in [Tabs -> [page : Pages, mem : Tokens, loads : Nat, route : Routes]]
    /\ req \in [Tabs -> [Slots -> [step : ReqSteps, token : Tokens, public : BOOLEAN]]]
    /\ stored \in Tokens /\ cookie \in Tokens
    /\ channel \in [Tabs -> Seq(Tokens)]
    /\ creds \in BOOLEAN /\ session \in Sessions
    /\ near \in Tokens /\ expired \in Tokens /\ faults \in Nat

(* The refreshes of one page never race for the rotating token, whoever    *)
(* asks for them (connect.ts:87-92): the server denies one only after the  *)
(* user has signed out, an answer was lost, or calls of two pages have     *)
(* overlapped.                                                             *)
RefreshGranted ==
    \A c \in Calls : call[c].step = "denied" => session # "kept" \/ ~call[c].clean

(* Between calls the server still has the token of the cookie, so that the  *)
(* next refresh will succeed: "add before remove to handle race conditions" *)
(* (auth_service.go:316).  It does not: two pages that refresh together    *)
(* may each write the list without the token of the other.                 *)
CookieListed ==
    (\A c \in Calls : ~InFlight(c)) /\ session # "none" => cookie \in list

(* A request of a page with a user goes out without a good token only if    *)
(* it has waited for a refresh, which then failed or took longer than its  *)
(* token lives (connect.ts:131-147): the page does not get what a guest    *)
(* gets because it has forgotten its token, or has not looked at it.       *)
GuestsOnlyAfterRefresh ==
    [][\A t \in Tabs, r \in Requests :
        LET before == req[t][r].step
            after == req'[t][r] IN
        after.step \in {"sent", "resent"} /\ after.step # before =>
            after.token # 0 /\ (after.token > expired \/ before \in {"preflight", "again"})]_vars

(* The bound on tokens stops the server. *)
AtBound == issued = MaxToken /\ \E c \in Calls : call[c].step = "sent"

(* Every request is answered, fails, or takes its page to the sign-in page, *)
(* unless the bound stops the server: a promise for a refresh is settled    *)
(* and a refused request is tried again only once (connect.ts:150-178).    *)
RequestsEnd ==
    \A t \in Tabs, r \in Slots :
        req[t][r].step # "none" ~> req[t][r].step = "none" \/ AtBound
==================================================================================
