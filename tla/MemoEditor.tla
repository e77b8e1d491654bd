------------------------------- MODULE MemoEditor -------------------------------
(***************************************************************************)
(* The editors of a page (web/src/components/MemoEditor): what the user    *)
(* types, its draft in localStorage behind one debounce that all editors   *)
(* share (services/cacheService.ts, hooks/useAutoSave.ts), and saving it   *)
(* as a new memo, a comment or a change of a memo (index.tsx,              *)
(* services/memoService.ts), while others change that memo.                *)
(*                                                                         *)
(* Every text typed is a new number, 0 is blank.                           *)
(***************************************************************************)
EXTENDS Integers

CONSTANTS
    Editors,
    Kind,       \* of an editor: "memo" is always there, "comment" and "edit" close
    FilesOf,      \* of an editor: the files its user may attach
    Preferences,  \* for drafts: of new texts saved and restored, of edits saved
    MaxText,    \* bound: texts typed
    MaxFaults   \* bound: failures and changes by others

Texts == 0..MaxText
Files == UNION {FilesOf[e] : e \in Editors}
Visibilities == {"private", "public"}

VARIABLES
    ed,        \* the editors
    job,       \* the save of each editor
    pending,   \* the call the debounce has not made yet
    draft,     \* localStorage, a key for each editor
    keep,      \* the preferences, see Preferences
    behind,    \* editors whose text the debounce has dropped
    memo,      \* the memo that is edited, at the server
    posted,    \* the last memo or comment each editor made
    uploads,   \* attachments at the server
    typed, faults

vars == <<ed, job, pending, draft, keep, behind, memo, posted, uploads, typed, faults>>

(* state/types.ts; the default visibility is the one of a reset.            *)
Blank == [open |-> TRUE, text |-> 0, vis |-> "private", files |-> {}, local |-> {}, leaving |-> -1]
Closed == [Blank EXCEPT !.open = FALSE]

NoJob == [step |-> "none"]
NoCall == [key |-> "none"]

Init ==
    /\ ed = [e \in Editors |-> IF Kind[e] = "memo" THEN Blank ELSE Closed]
    /\ job = [e \in Editors |-> NoJob]
    /\ pending = NoCall
    /\ draft = [e \in Editors |-> 0]
    /\ keep \in Preferences
    /\ behind = {}
    /\ memo = [text |-> 1, vis |-> "private", files |-> {}]
    /\ posted = [e \in Editors |-> [text |-> 0, files |-> {}]] /\ uploads = {}
    /\ typed = 1 /\ faults = 0

Fault == faults < MaxFaults /\ faults' = faults + 1

-------------------------------------------------------------------------------
Persists(e) == IF Kind[e] = "edit" THEN keep.edits ELSE keep.save
Restores(e) == Kind[e] # "edit" /\ keep.restore

(* The editor whose call the debounce loses to another one. *)
Dropped(e) == IF pending.key \in Editors \ {e} THEN {pending.key} ELSE {}

(* Mutant: the debounce keeps the call of the editor that came first. *)
AutoSaveFirst(e, text) ==
    IF Persists(e)
    THEN /\ pending' = IF pending.key = "none" THEN [key |-> e, text |-> text] ELSE pending
         /\ behind' = behind \ {e}
    ELSE pending' = NoCall /\ UNCHANGED behind

(* useAutoSave, after a change: its cleanup cancels the debounce, whoever   *)
(* called it, and the new text is given to it.                             *)
AutoSave(e, text) ==
    IF Persists(e)
    THEN /\ pending' = [key |-> e, text |-> text]
         /\ behind' = (behind \cup Dropped(e)) \ {e}
    ELSE pending' = NoCall /\ behind' = behind \cup Dropped(e)

(* Its cleanup when the editor goes away. *)
AutoSaveStops(e) ==
    /\ pending' = IF Persists(e) THEN NoCall ELSE pending
    /\ behind' = IF Persists(e) THEN (behind \cup Dropped(e)) \ {e} ELSE behind

(* persistDraft, after 500 ms. *)
DebounceFires ==
    /\ pending.key # "none"
    /\ draft' = [draft EXCEPT ![pending.key] = pending.text]
    /\ pending' = NoCall
    /\ UNCHANGED <<ed, job, keep, behind, memo, posted, uploads, typed, faults>>

(* Mutant: every editor takes the draft there is. *)
RestoredAny(e) ==
    CHOOSE t \in {draft[d] : d \in Editors} : \A u \in {draft[d] : d \in Editors} : t >= u

(* useMemoInit: an editor of a memo starts with the memo the page has, any  *)
(* other with its draft.                                                   *)
Restored(e) == IF Restores(e) THEN draft[e] ELSE 0

Open(e) ==
    LET first == IF Kind[e] = "edit"
                 THEN [Blank EXCEPT !.text = memo.text, !.vis = memo.vis, !.files = memo.files]
                 ELSE [Blank EXCEPT !.text = Restored(e)] IN
    /\ ~ed[e].open /\ job[e] = NoJob
    /\ ed' = [ed EXCEPT ![e] = first]
    /\ AutoSave(e, first.text)
    /\ UNCHANGED <<job, draft, keep, memo, posted, uploads, typed, faults>>

(* The page leaves the editor; what is being saved goes on.                 *)
Leave(e) ==
    /\ ed[e].open
    /\ ed' = [ed EXCEPT ![e] = Closed]
    /\ AutoSaveStops(e)
    /\ UNCHANGED <<job, draft, keep, memo, posted, uploads, typed, faults>>

Type(e) ==
    /\ ed[e].open /\ typed < MaxText
    /\ typed' = typed + 1
    /\ ed' = [ed EXCEPT ![e].text = typed + 1]
    /\ AutoSave(e, typed + 1)
    /\ UNCHANGED <<job, draft, keep, memo, posted, uploads, faults>>

(* The visibility of a new memo is left out. *)
SetVisibility(e) ==
    /\ ed[e].open /\ Kind[e] = "edit" /\ ed[e].vis = "private"
    /\ ed' = [ed EXCEPT ![e].vis = "public"]
    /\ UNCHANGED <<job, pending, draft, keep, behind, memo, posted, uploads, typed, faults>>

ChangeFiles(e) ==
    /\ ed[e].open
    /\ \E f \in FilesOf[e] :
          \/ f \notin ed[e].local /\ ed' = [ed EXCEPT ![e].local = @ \cup {f}]
          \/ ed' = [ed EXCEPT ![e].local = @ \ {f}] /\ f \in ed[e].local
    /\ UNCHANGED <<job, pending, draft, keep, behind, memo, posted, uploads, typed, faults>>

(* handleToggleFocusMode: leaving focus mode takes 200 ms and then acts on  *)
(* the text there was at the start. One editor at a time fills the page.   *)
LeaveFocus(e) ==
    /\ ed[e].open /\ \A d \in Editors : ed[d].leaving = -1
    /\ ed' = [ed EXCEPT ![e].leaving = ed[e].text]
    /\ UNCHANGED <<job, pending, draft, keep, behind, memo, posted, uploads, typed, faults>>

FocusLeft(e) ==
    LET text == ed[e].leaving IN
    /\ ed[e].open /\ text # -1
    /\ IF Kind[e] = "edit"
       THEN /\ draft' = [draft EXCEPT ![e] = 0]
            /\ ed' = [ed EXCEPT ![e] = Closed]
            /\ AutoSaveStops(e)
       ELSE /\ ed' = [ed EXCEPT ![e].leaving = -1]
            /\ draft' = [draft EXCEPT ![e] = IF Persists(e) THEN text ELSE 0]
            /\ pending' = IF Persists(e) THEN NoCall ELSE pending
            /\ behind' = IF ~Persists(e) THEN behind
                         ELSE (behind \cup Dropped(e))
                              \cup (IF text # ed[e].text THEN {e} ELSE {})
    /\ UNCHANGED <<job, keep, memo, posted, uploads, typed, faults>>

-------------------------------------------------------------------------------
(* validationService.canSave *)
CanSave(e) ==
    /\ ed[e].open /\ job[e] = NoJob
    /\ ed[e].text # 0 \/ ed[e].files # {} \/ ed[e].local # {}

(* handleSave: the state is the one of this moment until the save is over.  *)
StartSave(e) ==
    /\ CanSave(e)
    /\ job' = [job EXCEPT ![e] = [step |-> "upload", text |-> ed[e].text, vis |-> ed[e].vis,
                                  files |-> ed[e].files, local |-> ed[e].local]]
    /\ UNCHANGED <<ed, pending, draft, keep, behind, memo, posted, uploads, typed, faults>>

(* uploadService.uploadFiles, one file after the other. *)
Upload(e) ==
    /\ job[e].step = "upload"
    /\ \E f \in job[e].local :
          /\ uploads' = uploads \cup {f}
          /\ job' = [job EXCEPT ![e].local = @ \ {f}, ![e].files = @ \cup {f}]
    /\ UNCHANGED <<ed, pending, draft, keep, behind, memo, posted, typed, faults>>

Uploaded(e) == job[e].step = "upload" /\ job[e].local = {}

(* createMemo, createMemoComment *)
Post(e) ==
    /\ Uploaded(e) /\ Kind[e] # "edit"
    /\ posted' = [posted EXCEPT ![e] = [text |-> job[e].text, files |-> job[e].files]]
    /\ job' = [job EXCEPT ![e] = [step |-> "posted", text |-> @.text]]
    /\ UNCHANGED <<ed, pending, draft, keep, behind, memo, uploads, typed, faults>>

(* getMemo: the memo as it is now, whatever the editor began with.          *)
GetPrevious(e) ==
    /\ Uploaded(e) /\ Kind[e] = "edit"
    /\ job' = [job EXCEPT ![e] = [step |-> "update", text |-> @.text, vis |-> @.vis, files |-> @.files,
                                  prev |-> memo]]
    /\ UNCHANGED <<ed, pending, draft, keep, behind, memo, posted, uploads, typed, faults>>

(* buildUpdateMask *)
Mask(e) ==
    {x \in {"text", "vis", "files"} :
        CASE x = "text" -> job[e].text # job[e].prev.text
          [] x = "vis" -> job[e].vis # job[e].prev.vis
          [] x = "files" -> job[e].files # job[e].prev.files}

UpdateMemo(e) ==
    /\ job[e].step = "update" /\ Mask(e) # {}
    /\ memo' = [memo EXCEPT !.text = IF "text" \in Mask(e) THEN job[e].text ELSE @,
                            !.vis = IF "vis" \in Mask(e) THEN job[e].vis ELSE @,
                            !.files = IF "files" \in Mask(e) THEN job[e].files ELSE @]
    /\ job' = [job EXCEPT ![e] = [step |-> "posted", text |-> @.text]]
    /\ UNCHANGED <<ed, pending, draft, keep, behind, posted, uploads, typed, faults>>

(* Nothing has changed: the editor closes. *)
NothingToSave(e) ==
    /\ job[e].step = "update" /\ Mask(e) = {}
    /\ job' = [job EXCEPT ![e] = NoJob]
    /\ ed' = [ed EXCEPT ![e] = Closed]
    /\ IF ed[e].open THEN AutoSaveStops(e) ELSE UNCHANGED <<pending, behind>>
    /\ UNCHANGED <<draft, keep, memo, posted, uploads, typed, faults>>

(* Mutant: the editor is reset whatever the save came to. *)
SaveFailsReset(e) ==
    /\ job[e].step \in {"upload", "update", "posted"} /\ Fault
    /\ job' = [job EXCEPT ![e] = NoJob]
    /\ ed' = [ed EXCEPT ![e] = IF Kind[e] = "memo" THEN Blank ELSE Closed]
    /\ UNCHANGED <<pending, draft, keep, behind, memo, posted, uploads, typed>>

(* A request, or its answer, fails: the editor is as it was.                *)
SaveFails(e) ==
    /\ job[e].step \in {"upload", "update", "posted"} /\ Fault
    /\ job' = [job EXCEPT ![e] = NoJob]
    /\ UNCHANGED <<ed, pending, draft, keep, behind, memo, posted, uploads, typed>>

(* cacheService.clear; what the debounce holds is still to come.            *)
ClearDraft(e) ==
    /\ job[e].step = "posted"
    /\ draft' = [draft EXCEPT ![e] = 0]
    /\ job' = [job EXCEPT ![e].step = "saved"]
    /\ UNCHANGED <<ed, pending, keep, behind, memo, posted, uploads, typed, faults>>

(* The queries have been fetched again: reset and onConfirm.                *)
Confirm(e) ==
    /\ job[e].step = "saved"
    /\ job' = [job EXCEPT ![e] = NoJob]
    /\ \/ /\ ed[e].open /\ Kind[e] = "memo"
          /\ ed' = [ed EXCEPT ![e] = [Blank EXCEPT !.leaving = ed[e].leaving]]
          /\ IF ed[e].text # 0 THEN AutoSave(e, 0) ELSE UNCHANGED <<pending, behind>>
       \/ /\ ed[e].open /\ Kind[e] # "memo"
          /\ ed' = [ed EXCEPT ![e] = Closed]
          /\ AutoSaveStops(e)
       \/ ~ed[e].open /\ UNCHANGED <<ed, pending, behind>>
    /\ UNCHANGED <<draft, keep, memo, posted, uploads, typed, faults>>

(* Another client, or the synchronisation, changes the memo. *)
OthersChange ==
    /\ Fault
    /\ \/ typed < MaxText /\ typed' = typed + 1 /\ memo' = [memo EXCEPT !.text = typed + 1]
       \/ memo.vis = "private" /\ memo' = [memo EXCEPT !.vis = "public"] /\ UNCHANGED typed
    /\ UNCHANGED <<ed, job, pending, draft, keep, behind, posted, uploads>>

-------------------------------------------------------------------------------
User(e) == Open(e) \/ Leave(e) \/ Type(e) \/ SetVisibility(e) \/ ChangeFiles(e)
           \/ LeaveFocus(e) \/ StartSave(e)

Saving(e) ==
    \/ Upload(e) \/ Post(e) \/ GetPrevious(e) \/ UpdateMemo(e) \/ NothingToSave(e)
    \/ ClearDraft(e) \/ Confirm(e)

Next ==
    \/ DebounceFires \/ OthersChange
    \/ \E e \in Editors : User(e) \/ FocusLeft(e) \/ Saving(e) \/ SaveFails(e)

Spec == Init /\ [][Next]_vars

-------------------------------------------------------------------------------
TypeOK ==
    /\ ed \in [Editors -> [open : BOOLEAN, text : Texts, vis : Visibilities,
                           files : SUBSET Files, local : SUBSET Files, leaving : Texts \cup {-1}]]
    /\ \A e \in Editors : ~ed[e].open => ed[e] = Closed
    /\ \A e \in Editors : job[e].step \in {"none", "upload", "update", "posted", "saved"}
    /\ pending.key \in Editors \cup {"none"}
    /\ draft \in [Editors -> Texts]
    /\ behind \subseteq Editors
    /\ memo \in [text : Texts, vis : Visibilities, files : SUBSET Files]
    /\ typed \in Texts /\ faults \in Nat

(* The draft of an open editor is its text unless the debounce still has to *)
(* write it, another editor or the end of focus mode took its call away, or *)
(* the save has just cleared it (useAutoSave.ts:4-18, cacheService.ts:19).  *)
DraftCaughtUp ==
    \A e \in Editors :
        ed[e].open /\ Persists(e) /\ pending.key # e /\ e \notin behind /\ job[e].step # "saved"
            => draft[e] = ed[e].text

(* A draft comes back only where it was typed. *)
DraftsStayApart ==
    \A d, e \in Editors : d # e /\ draft[d] # 0 => draft[d] # draft[e]

(* No memo or comment refers to a file that has not been uploaded.           *)
FilesKept ==
    memo.files \subseteq uploads /\ \A e \in Editors : posted[e].files \subseteq uploads

(* A text is taken out of an open editor only after it, or the text it was  *)
(* typed over, has reached the server.                                     *)
TextKept ==
    [][\A e \in Editors :
         ed[e].open /\ ed[e].text # 0 /\ ed'[e].open /\ ed'[e].text = 0
            => posted[e].text = job[e].text]_vars

(* A save that has nothing to say does not touch the memo.                  *)
OnlyChangesSent ==
    [][memo' # memo /\ faults' = faults =>
         \E e \in Editors : job[e].step = "update" /\
            \A x \in {"text", "vis", "files"} : memo'[x] # memo[x] => job[e].prev[x] # job[e][x]]_vars

(* An editor keeps its text in localStorage when drafts are saved            *)
(* (index.tsx:99), without the exceptions of DraftCaughtUp.                *)
AutoSaved ==
    \A e \in Editors :
        ed[e].open /\ Persists(e) /\ pending.key # e /\ job[e].step # "saved" => draft[e] = ed[e].text

(* What was typed while the save was under way is not taken out with it      *)
(* (index.tsx:278 against the state of the save, 251).                     *)
TypedTextKept ==
    [][\A e \in Editors :
         ed[e].open /\ ed[e].text # 0 /\ ed'[e].open /\ ed'[e].text = 0
            => posted[e].text = ed[e].text]_vars

(* The user makes the memo public and never private again: a save of its     *)
(* text does not undo what another client has done (memoService.ts:35-41). *)
StaysPublic == [][memo.vis = "public" => memo'.vis = "public"]_vars

(* A text that was posted does not come back as a draft.                     *)
SavedDraftsGone ==
    \A e \in Editors :
        job[e].step = "none" /\ pending.key # e /\ ~ed[e].open /\ posted[e].text # 0
            => draft[e] # posted[e].text
==================================================================================
