------------------------------- MODULE MCSyncParts -------------------------------
(***************************************************************************)
(* Small instances of two parts of the synchronisation that do not meet:   *)
(* CommentSync, and AttachmentSync under names of its own.  A behaviour is *)
(* one of either; `part` says of which, and the other one stays as it      *)
(* starts.  CommentSync has two instances: the comments of several memos,  *)
(* and those of one memo for a longer time.                                *)
(***************************************************************************)
EXTENDS CommentSync

CONSTANTS LongTime, Files, Workers, MaxRetries, MaxVersion, MaxTransferFaults

ASSUME AttachmentSyncAssumption ==
    Workers \in Nat \ {0} /\ {MaxRetries, MaxVersion, MaxTransferFaults} \subseteq Nat

VARIABLES part, store, refs, version, equal, edits, job, failed, transferFaults

A == INSTANCE AttachmentSync WITH
        ver <- version, bound <- equal, clock <- edits,
        faults <- transferFaults, MaxFaults <- MaxTransferFaults

OneMemo == {CHOOSE p \in Parents : TRUE}
C == INSTANCE CommentSync WITH Parents <- OneMemo, MaxTime <- LongTime

transfer == <<store, refs, version, equal, edits, job, failed, transferFaults>>
allVars == <<part, vars, transfer>>

PartsInit == part \in {"comments", "one memo", "attachments"} /\ Init /\ A!Init

Comments == part = "comments" /\ Next /\ UNCHANGED <<part, transfer>>
OneMemosComments == part = "one memo" /\ C!Next /\ UNCHANGED <<part, transfer>>
Attachments == part = "attachments" /\ A!Next /\ UNCHANGED <<part, vars>>

CommentRun == part = "comments" /\ (Start \/ Push \/ Pull) /\ UNCHANGED <<part, transfer>>
OneMemosRun == part = "one memo" /\ (C!Start \/ C!Push \/ C!Pull) /\ UNCHANGED <<part, transfer>>
TransferRun == part = "attachments" /\ A!Run /\ UNCHANGED <<part, vars>>

PartsSpec ==
    PartsInit /\ [][Comments \/ OneMemosComments \/ Attachments]_allVars
    /\ WF_allVars(CommentRun) /\ WF_allVars(OneMemosRun) /\ WF_allVars(TransferRun)

(* The properties of AttachmentSync under plain names: see there.          *)
SyncedRefsAgree == A!SyncedRefsAgree
TransfersEnd == A!TransfersEnd
==================================================================================
