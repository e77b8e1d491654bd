------------------------------- MODULE MCSession -------------------------------
(***************************************************************************)
(* Session on small instances; a behaviour is one of either, and `part`    *)
(* says of which.  "one": a user in a single tab who signs in and out,     *)
(* with failures.  "both": two tabs that are opened while a session of an  *)
(* earlier visit goes on, with an access token of any age and no saved     *)
(* credentials.  For the sake of size nothing fails there, nobody signs in *)
(* or out, and the pages are private and ask for private things.           *)
(***************************************************************************)
EXTENDS Session

CONSTANTS First      \* the tab of "one"

VARIABLE part

allVars == <<part, vars>>

Open == IF part = "one" THEN {First} ELSE Tabs

SessionInit ==
    /\ Init
    /\ \/ /\ part = "one" /\ session = "none"
          /\ \A t \in Tabs \ {First} : tab[t] = NewPage("private")
       \/ /\ part = "both" /\ session = "kept"
          /\ \A t \in Tabs : tab[t] = NewPage("private")

SessionNext ==
    /\ Next
    /\ \A t \in Tabs \ Open : UNCHANGED tab[t]
    /\ part = "both" =>
        /\ faults' = faults
        /\ \A t \in Tabs :
            /\ tab'[t].page # "signingIn" /\ tab'[t].route # "public"
            /\ call'[SignOut(t)] = NoCall
            /\ \A r \in Slots : ~req'[t][r].public
    /\ UNCHANGED part

Goes(t) == t \in Open /\ Runs(t) /\ UNCHANGED part
IsAnswered(t, r) == t \in Open /\ Answered(t, r) /\ UNCHANGED part

SessionSpec == SessionInit /\ [][SessionNext]_allVars

FairSessionSpec ==
    /\ SessionSpec
    /\ \A t \in Tabs : WF_allVars(Goes(t))
    /\ \A t \in Tabs, r \in Slots : WF_allVars(IsAnswered(t, r))
================================================================================
