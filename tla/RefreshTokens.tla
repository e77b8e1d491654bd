------------------------------ MODULE RefreshTokens ------------------------------
(***************************************************************************)
(* The server's part of a session: the list of refresh tokens that         *)
(* server/router/api/v1/auth_service.go keeps for the user, and the calls  *)
(* that change it.  Every change reads the list, alters it and writes it   *)
(* back without a lock (store/user_setting.go), so that other calls may    *)
(* come between the two, and either may fail.                              *)
(*                                                                         *)
(* A call issues one number, which stands for the refresh token it adds    *)
(* and for the access token it returns; greater ones are newer, 0 is none. *)
(***************************************************************************)
EXTENDS Integers, FiniteSets, Functions

CONSTANTS
    Tabs,      \* tabs of one browser
    MaxToken   \* bound: the last token the server issues

ASSUME RefreshTokensAssumption == MaxToken \in Nat \ {0}

Tokens == 0..MaxToken
Kinds == {"refresh", "signIn", "signOut"}

(* A call of the page a tab shows, or of one it showed before: of each     *)
(* kind at most one.                                                       *)
Calls == Tabs \X Kinds \X {"page", "gone"}

VARIABLES
    list,    \* the tokens of the user setting REFRESH_TOKENS
    issued,  \* the last token issued
    call     \* the calls in progress

serverVars == <<list, issued, call>>

(* old    the refresh token of the cookie the call was sent with           *)
(* new    the token it issues                                              *)
(* read   the list as AddUserRefreshToken or RemoveUserRefreshToken read it *)
(* clean  no call of another page has been in progress with it, and the    *)
(*        token of a sign-in was added (for the properties only)           *)
NoCall == [step |-> "none", old |-> 0, new |-> 0, read |-> {}, clean |-> TRUE]
CallSteps == {"none", "sent", "add", "adding", "remove", "removing", "done", "denied", "failed"}

InFlight(c) == call[c].step # "none"
SamePage(c, d) == c[1] = d[1] /\ c[3] = d[3]

(* A page sends c with the refresh token old. *)
Sent(c, old) ==
    LET others == {d \in Calls : InFlight(d) /\ ~SamePage(c, d)} IN
    [d \in Calls |->
        IF d = c THEN [NoCall EXCEPT !.step = "sent", !.old = old, !.clean = (others = {})]
        ELSE IF d \in others THEN [call[d] EXCEPT !.clean = FALSE]
        ELSE call[d]]

(* RefreshToken wants the token of the cookie to be in the list; SignIn    *)
(* has checked the password; SignOut has nothing to remove without cookie. *)
Accept(c) ==
    /\ call[c].step = "sent" /\ c[2] \in {"refresh", "signIn"}
    /\ c[2] = "refresh" => call[c].old \in list
    /\ issued < MaxToken
    /\ issued' = issued + 1
    /\ call' = [call EXCEPT ![c].step = "add", ![c].new = issued + 1]
    /\ UNCHANGED list

Deny(c) ==
    /\ call[c].step = "sent" /\ c[2] = "refresh" /\ call[c].old \notin list
    /\ call' = [call EXCEPT ![c].step = "denied"]
    /\ UNCHANGED <<list, issued>>

AcceptSignOut(c) ==
    /\ call[c].step = "sent" /\ c[2] = "signOut"
    /\ call' = [call EXCEPT ![c].step = IF call[c].old = 0 THEN "done" ELSE "remove"]
    /\ UNCHANGED <<list, issued>>

(* GetUserRefreshTokens, of either change. *)
ReadList(c) ==
    /\ call[c].step \in {"add", "remove"}
    /\ call' = [call EXCEPT ![c].read = list,
                            ![c].step = IF @ = "add" THEN "adding" ELSE "removing"]
    /\ UNCHANGED <<list, issued>>

(* AddUserRefreshToken; a refresh then goes on to remove the old token. *)
AddToken(c) ==
    /\ call[c].step = "adding"
    /\ list' = call[c].read \cup {call[c].new}
    /\ call' = [call EXCEPT ![c].read = {},
                            ![c].step = IF c[2] = "refresh" THEN "remove" ELSE "done"]
    /\ UNCHANGED issued

RemoveToken(c) ==
    /\ call[c].step = "removing"
    /\ list' = call[c].read \ {call[c].old}
    /\ call' = [call EXCEPT ![c].read = {}, ![c].step = "done"]
    /\ UNCHANGED issued

(* The store fails.  A token that cannot be checked or added fails the     *)
(* refresh; a sign-in only logs that its token is not in the list, and a   *)
(* removal that the old one still is.                                      *)
StoreFails(c) ==
    /\ \/ /\ call[c].step \in {"sent", "add", "adding"} /\ c[2] = "refresh"
          /\ call' = [call EXCEPT ![c].step = "failed", ![c].read = {}]
       \/ /\ call[c].step \in {"add", "adding"} /\ c[2] = "signIn"
          /\ call' = [call EXCEPT ![c].step = "done", ![c].read = {}, ![c].clean = FALSE]
       \/ /\ call[c].step \in {"remove", "removing"}
          /\ call' = [call EXCEPT ![c].step = "done", ![c].read = {}]
    /\ UNCHANGED <<list, issued>>

Serve(c) ==
    \/ Accept(c) \/ Deny(c) \/ AcceptSignOut(c)
    \/ ReadList(c) \/ AddToken(c) \/ RemoveToken(c)
==================================================================================
