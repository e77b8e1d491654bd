------------------------------ MODULE AccountForms ------------------------------
(***************************************************************************)
(* The dialogs in which users change their account and their password      *)
(* (web/src/components/UpdateAccountDialog.tsx,                            *)
(* ChangeMemberPasswordDialog.tsx, useUpdateUser of hooks/useUserQueries   *)
(* .ts, UpdateUser of server/router/api/v1/user_service.go), on one page,  *)
(* while the account is changed on another device too. The page has the    *)
(* account as it was when the page was loaded (contexts/AuthContext.tsx).  *)
(***************************************************************************)
EXTENDS Naturals

CONSTANTS
    Images, Texts,  \* values: of the avatar, and of every other field
    Empty,          \* the empty text
    MaxActs         \* bound: what users do, and requests that fail

VARIABLES
    server,     \* the account
    currentUser,\* as the page has it
    open,       \* dialogs that are shown
    state,      \* the form of the account
    touched,    \* its fields that have been changed since the page was loaded
    reading,    \* images being converted
    updates,    \* updateUser requests under way
    password,   \* at the server
    newPassword, newPasswordAgain,
    agreed,     \* passwords that have been in both fields at once
    acts

vars == <<server, currentUser, open, state, touched, reading, updates, password, newPassword,
          newPasswordAgain, agreed, acts>>

(* username stands for the fields that are texts, but may not be empty.    *)
Fields == {"username", "avatar"}
Dialogs == {"account", "password"}
Values(f) == {Empty} \cup IF f = "avatar" THEN Images ELSE Texts
Account == {a \in [Fields -> Images \cup Texts \cup {Empty}] : \A f \in Fields : a[f] \in Values(f)}
Update == [user : Account, mask : SUBSET Fields, typed : SUBSET Fields]
PasswordUpdate == [password : Texts]

Init ==
    /\ server \in {a \in Account : a["avatar"] = Empty /\ a["username"] # Empty}
    /\ currentUser = server /\ state = server /\ touched = {}
    /\ open = {} /\ reading = {} /\ updates = {}
    /\ password = Empty /\ newPassword = Empty /\ newPasswordAgain = Empty /\ agreed = {}
    /\ acts = 0

Act == acts < MaxActs /\ acts' = acts + 1
passwords == <<password, newPassword, newPasswordAgain, agreed>>

(* Another device, and a page that is loaded again.                        *)
Elsewhere(f, v) ==
    /\ Act /\ v # server[f] /\ (f = "username" => v # Empty) /\ server' = [server EXCEPT ![f] = v]
    /\ UNCHANGED <<currentUser, open, state, touched, reading, updates, passwords>>

Reload ==
    /\ Act
    /\ currentUser' = server /\ state' = server /\ touched' = {}
    /\ open' = {} /\ reading' = {} /\ newPassword' = Empty /\ newPasswordAgain' = Empty
    /\ UNCHANGED <<server, updates, password, agreed>>

(* Dialogs keep what is in them while they are closed.                     *)
OpenDialog(d) ==
    /\ Act /\ open = {} /\ open' = {d}
    /\ UNCHANGED <<server, currentUser, state, touched, reading, updates, passwords>>
CloseDialog(d) ==
    /\ Act /\ d \in open /\ open' = open \ {d}
    /\ UNCHANGED <<server, currentUser, state, touched, reading, updates, passwords>>

-------------------------------------------------------------------------------
SetPartialState(f, v) ==
    /\ state' = [state EXCEPT ![f] = v] /\ touched' = touched \cup {f}
    /\ UNCHANGED <<server, currentUser, open, updates, passwords>>

TypeField(v) ==
    /\ Act /\ "account" \in open /\ v # state["username"]
    /\ SetPartialState("username", v) /\ UNCHANGED reading
RemoveAvatar ==
    /\ Act /\ "account" \in open /\ state["avatar"] # Empty
    /\ SetPartialState("avatar", Empty) /\ UNCHANGED reading

(* An image is read in its own time; the last one read is the avatar.      *)
ChooseImage(v) ==
    /\ Act /\ "account" \in open /\ reading' = reading \cup {v}
    /\ UNCHANGED <<server, currentUser, open, state, touched, updates, passwords>>
ImageRead(v) ==
    /\ v \in reading /\ reading' = reading \ {v}
    /\ SetPartialState("avatar", v) /\ UNCHANGED acts

(* Mutant: the form is compared with the account as it has become. *)
UpdateMaskFresh == {f \in Fields : server[f] # state[f]}

UpdateMask == {f \in Fields : currentUser[f] # state[f]}

(* Nothing keeps the button from being pressed again.                      *)
SaveAccount ==
    /\ Act /\ "account" \in open /\ state["username"] # Empty
    /\ updates' = updates \cup {[user |-> state, mask |-> UpdateMask, typed |-> touched]}
    /\ UNCHANGED <<server, currentUser, open, state, touched, reading, passwords>>

TypePassword(v) ==
    /\ Act /\ "password" \in open
    /\ \/ newPassword' = v /\ UNCHANGED newPasswordAgain
       \/ newPasswordAgain' = v /\ UNCHANGED newPassword
    /\ agreed' = IF newPassword' = newPasswordAgain' THEN agreed \cup {newPassword'} ELSE agreed
    /\ UNCHANGED <<server, currentUser, open, state, touched, reading, updates, password>>

SavePassword ==
    /\ Act /\ "password" \in open /\ Empty \notin {newPassword, newPasswordAgain}
    /\ IF newPassword # newPasswordAgain
         THEN newPasswordAgain' = Empty /\ UNCHANGED updates
         ELSE updates' = updates \cup {[password |-> newPassword]} /\ UNCHANGED newPasswordAgain
    /\ UNCHANGED <<server, currentUser, open, state, touched, reading, password, newPassword, agreed>>

-------------------------------------------------------------------------------
(* UpdateUser: the fields of the mask, which must not be empty. The page   *)
(* closes the dialog; its copy of the account stays as it is.              *)
Updated(u) ==
    /\ u \in Update /\ u.mask # {}
    /\ server' = [f \in Fields |-> IF f \in u.mask THEN u.user[f] ELSE server[f]]
    /\ open' = open \ {"account"} /\ UNCHANGED password
PasswordUpdated(u) ==
    /\ u \in PasswordUpdate /\ password' = u.password
    /\ open' = open \ {"password"} /\ UNCHANGED server
Refused(u) == acts' = acts + 1 /\ UNCHANGED <<server, password, open>>

Answer(u) ==
    /\ u \in updates /\ updates' = updates \ {u}
    /\ \/ (Updated(u) \/ PasswordUpdated(u)) /\ UNCHANGED acts
       \/ acts < MaxActs /\ Refused(u)
       \/ u \in Update /\ u.mask = {} /\ UNCHANGED <<server, password, open, acts>>
    /\ UNCHANGED <<currentUser, state, touched, reading, newPassword, newPasswordAgain, agreed>>

Next ==
    \/ \E f \in Fields : \E v \in Values(f) : Elsewhere(f, v)
    \/ Reload
    \/ \E d \in Dialogs : OpenDialog(d) \/ CloseDialog(d)
    \/ \E v \in Texts \cup {Empty} : TypeField(v) \/ TypePassword(v)
    \/ RemoveAvatar \/ SaveAccount \/ SavePassword
    \/ \E v \in Images : ChooseImage(v) \/ ImageRead(v)
    \/ \E u \in updates : Answer(u)

Spec == Init /\ [][Next]_vars

-------------------------------------------------------------------------------
TypeOK ==
    /\ {server, currentUser, state} \subseteq Account
    /\ open \subseteq Dialogs /\ touched \subseteq Fields
    /\ reading \subseteq Images /\ updates \subseteq Update \cup PasswordUpdate
    /\ {password, newPassword, newPasswordAgain} \subseteq Texts \cup {Empty}
    /\ agreed \subseteq Texts \cup {Empty}
    /\ acts \in 0..MaxActs

(* The requests of the dialog change no field of the account that the user *)
(* has not changed in it, whatever has happened to the account meanwhile;   *)
(* and a password becomes only what has been typed twice.                  *)
UpdatesWhatWasTyped ==
    /\ \A u \in updates : u \in Update => u.mask \subseteq u.typed
    /\ password \in agreed \cup {Empty}

(* Not so: what is saved becomes the account. A page keeps the account it  *)
(* was loaded with: a field that is set back to that is not sent.          *)
SavesAreSent == \A u \in updates : u \in Update => \A f \in u.typed : f \in u.mask \/ u.user[f] = server[f]
================================================================================
