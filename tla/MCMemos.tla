--------------------------------- MODULE MCMemos ---------------------------------
(***************************************************************************)
(* Small instances of the two parts of the pages that show and write       *)
(* memos: LiveMemos, and MemoEditor under names of its own.  They meet in  *)
(* the code only where a save has the queries fetched again, which         *)
(* LiveMemos has as the end of a change.  A behaviour is one of either;    *)
(* `part` says of which, and the other one stays as it starts.             *)
(***************************************************************************)
EXTENDS LiveMemos, TLC

CONSTANTS
    m1, k1,                    \* a memo and its comment
    home, edit, f1,            \* the editor of a new memo, the one of a memo, a file
    Editors, Kind, FilesOf, Preferences, MaxText, MaxEditorFaults   \* MemoEditor

(* All editors of kind "edit" would be of the one memo, which has one.     *)
ASSUME MemoEditorAssumption ==
    /\ "none" \notin Editors /\ Kind \in [Editors -> {"memo", "comment", "edit"}]
    /\ \A d, e \in Editors : Kind[d] = "edit" /\ Kind[e] = "edit" => d = e
    /\ Preferences \subseteq [save : BOOLEAN, restore : BOOLEAN, edits : BOOLEAN]
    /\ MaxText \in Nat \ {0} /\ MaxEditorFaults \in Nat

OneComment == k1 :> m1
NoComments == [k \in {} |-> m1]

(* All drafts are kept; a file is attached to the memo that is edited.      *)
EditorKind == home :> "memo" @@ edit :> "edit"
FileForEdit == home :> {} @@ edit :> {f1}
AllDrafts == {[save |-> TRUE, restore |-> TRUE, edits |-> TRUE]}

VARIABLES part, ed, job, pending, draft, keep, behind, memo, posted, uploads, typed, editorFaults

E == INSTANCE MemoEditor WITH MaxFaults <- MaxEditorFaults, faults <- editorFaults

editor == <<ed, job, pending, draft, keep, behind, memo, posted, uploads, typed, editorFaults>>
allVars == <<part, vars, editor>>

MemosInit ==
    /\ part \in {"live", "editor"} /\ Init /\ E!Init
    /\ part = "editor" => shown = {List, Stats}

LivePart == part = "live" /\ Next /\ UNCHANGED <<part, editor>>
EditorPart == part = "editor" /\ E!Next /\ UNCHANGED <<part, vars>>

MemosSpec ==
    MemosInit /\ [][LivePart \/ EditorPart]_allVars

(* The properties of MemoEditor under plain names: see there.              *)
TextKept == E!TextKept

(* A draft is the text of its editor and of no other.                      *)
DraftsFollow == E!DraftCaughtUp /\ E!DraftsStayApart
==================================================================================
