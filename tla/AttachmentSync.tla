----------------------------- MODULE AttachmentSync -----------------------------
(***************************************************************************)
(* The transfer of the attachments of a memo that a push or a pull of      *)
(* web/src/lib/memore-sync.ts has found changed.  The files are handled by *)
(* a few workers that share one index (runWithConcurrency); each of them   *)
(* takes several requests, which interleave with those of the other files  *)
(* and with the users.  Then the memo is written on the other side with    *)
(* references to the files that have arrived.                              *)
(*                                                                         *)
(* One bound memo is followed.  A version stands for its update time; the  *)
(* text and the rest of the push and the pull are in MemoSync.  An         *)
(* attachment has the same uid on both sides.                              *)
(***************************************************************************)
EXTENDS Integers, Sequences, FiniteSets, SequencesExt

CONSTANTS
    Files,       \* attachments, by uid
    Workers,     \* ATTACHMENT_SYNC_CONCURRENCY, at least one
    MaxRetries,  \* maxRetries of a download
    MaxVersion,  \* bound: the last version of the memo on either side
    MaxFaults    \* bound: requests that fail in a behaviour

Sides == {"local", "remote"}
Other(s) == IF s = "local" THEN "remote" ELSE "local"

VARIABLES
    store,   \* the attachments a side has, attached to the memo or not
    refs,    \* the attachments of the memo on a side, in order
    ver,     \* the update time of the memo on a side
    bound,   \* the update times when the two sides were last recorded as equal
    clock,
    job,     \* the transfer in progress
    failed,  \* the files counted in failedCount, which nothing remembers
    faults

vars == <<store, refs, ver, bound, clock, job, failed, faults>>

(* list     the attachments of the memo as the run has read them           *)
(* version  its update time then                                           *)
(* step[i]  what the task of the i-th attachment does next, if it has one: *)
(*          a request, or its result "sent" or "failed"                    *)
(* tries[i] failed downloads                                               *)
NoJob == [from |-> "none", list |-> <<>>, version |-> 0, step |-> <<>>, tries |-> <<>>]
Steps == {"waiting", "read", "create", "get", "download", "sent", "failed"}

Init ==
    /\ store = [s \in Sides |-> {}] /\ refs = [s \in Sides |-> <<>>]
    /\ ver = [s \in Sides |-> 0] /\ bound = [s \in Sides |-> 0]
    /\ clock = 0 /\ job = NoJob
    /\ failed = {} /\ faults = 0

(* The members of a list that are in F, in order: SelectSeq, written as a  *)
(* recursive function, which can be reasoned about.                        *)
Keep(list, F) ==
    LET kept[i \in 0..Len(list)] ==
          IF i = 0 THEN <<>>
          ELSE IF list[i] \in F THEN Append(kept[i - 1], list[i]) ELSE kept[i - 1]
    IN  kept[Len(list)]

Working == job.from # "none"
Fails == faults < MaxFaults /\ faults' = faults + 1
Works == UNCHANGED faults

--------------------------------------------------------------------------------
(* The users: an edit of the text, an attachment more, an attachment less. *)
Stamp(s) ==
    /\ clock < MaxVersion /\ clock' = clock + 1
    /\ ver' = [ver EXCEPT ![s] = clock + 1]
    /\ UNCHANGED <<bound, job, failed, faults>>

EditText(s) == Stamp(s) /\ UNCHANGED <<store, refs>>

Attach(s) ==
    /\ Stamp(s)
    /\ \E f \in Files \ (store["local"] \cup store["remote"]) :
         /\ store' = [store EXCEPT ![s] = @ \cup {f}]
         /\ refs' = [refs EXCEPT ![s] = Append(@, f)]

(* SetMemoAttachments deletes what is no longer referred to. *)
Detach(s) ==
    /\ Stamp(s)
    /\ \E f \in ToSet(refs[s]) :
         /\ store' = [store EXCEPT ![s] = @ \ {f}]
         /\ refs' = [refs EXCEPT ![s] = Keep(@, Files \ {f})]

User == \E s \in Sides : EditText(s) \/ Attach(s) \/ Detach(s)

--------------------------------------------------------------------------------
(* The run. *)
Changed(s) == ver[s] # bound[s]

(* A local memo that has changed is pushed; a remote one that has changed  *)
(* is pulled unless the local one has changed too and is later.            *)
FirstRequest(s) == IF s = "local" THEN "read" ELSE "get"

Start(s) ==
    /\ ~Working /\ Changed(s)
    /\ s = "remote" => ~(Changed("local") /\ ver["local"] > ver["remote"])
    /\ job' = [from |-> s, list |-> refs[s], version |-> ver[s],
               step |-> [i \in DOMAIN refs[s] |->
                           IF i <= Workers THEN FirstRequest(s) ELSE "waiting"],
               tries |-> [i \in DOMAIN refs[s] |-> 0]]
    /\ UNCHANGED <<store, refs, ver, bound, clock, failed, faults>>

At(i, request) == i \in DOMAIN job.step /\ job.step[i] = request
Dest == Other(job.from)
HasIt(s, i) == job.list[i] \in store[s]

Arrives(s, i) == store' = [store EXCEPT ![s] = @ \cup {job.list[i]}]
MayArrive(s, i) == UNCHANGED store \/ Arrives(s, i)

Goes(i, request) == job' = [job EXCEPT !.step[i] = request]

(* Mutant: the worker stops after its file. *)
SettlesOnce(i, result) == job' = [job EXCEPT !.step[i] = result]

(* The worker that is done with a file takes the next one. *)
Settles(i, result) ==
    LET waiting == {j \in DOMAIN job.step : job.step[j] = "waiting"}
        Now(j) == IF j = i THEN result
                  ELSE IF waiting # {} /\ j = Min(waiting) THEN FirstRequest(job.from)
                  ELSE job.step[j]
    IN  job' = [job EXCEPT !.step = [j \in DOMAIN @ |-> Now(j)]]

Quiet == UNCHANGED <<refs, ver, bound, clock, failed>>

(* A push reads the local file ... *)
ReadLocal(i) ==
    /\ At(i, "read") /\ Quiet /\ UNCHANGED store
    /\ \/ HasIt("local", i) /\ Works /\ Goes(i, "create")
       \/ ((~HasIt("local", i) /\ Works) \/ Fails) /\ Settles(i, "failed")

(* ... and creates it on the remote.  An error that may mean that the uid  *)
(* is taken is followed by a question.                                     *)
CreateRemote(i) ==
    /\ job.from = "local" /\ At(i, "create") /\ Quiet
    /\ \/ ~HasIt("remote", i) /\ Works /\ Arrives("remote", i) /\ Settles(i, "sent")
       \/ HasIt("remote", i) /\ Works /\ UNCHANGED store /\ Goes(i, "get")
       \/ Fails /\ MayArrive("remote", i) /\ (Settles(i, "failed") \/ Goes(i, "get"))

(* When the question fails too, AlreadyExists is believed, Internal is not. *)
AskRemote(i) ==
    /\ job.from = "local" /\ At(i, "get") /\ Quiet /\ UNCHANGED store
    /\ \/ HasIt("remote", i) /\ Works /\ Settles(i, "sent")
       \/ /\ (~HasIt("remote", i) /\ Works) \/ Fails
          /\ \E result \in {"sent", "failed"} : Settles(i, result)

(* A pull asks first, downloads with retries, and creates the local file;  *)
(* an error of creation that may mean that the uid is taken counts as done. *)
AskLocal(i) ==
    /\ job.from = "remote" /\ At(i, "get") /\ Quiet /\ UNCHANGED store
    /\ \/ HasIt("local", i) /\ Works /\ Settles(i, "sent")
       \/ ((~HasIt("local", i) /\ Works) \/ Fails) /\ Goes(i, "download")

Download(i) ==
    /\ At(i, "download") /\ Quiet /\ UNCHANGED store
    /\ \/ HasIt("remote", i) /\ Works /\ Goes(i, "create")
       \/ /\ (~HasIt("remote", i) /\ Works) \/ Fails
          /\ IF job.tries[i] = MaxRetries
             THEN Settles(i, "failed")
             ELSE job' = [job EXCEPT !.tries[i] = @ + 1]

CreateLocal(i) ==
    /\ job.from = "remote" /\ At(i, "create") /\ Quiet
    /\ \/ Works /\ Arrives("local", i) /\ Settles(i, "sent")
       \/ Fails /\ MayArrive("local", i) /\ \E result \in {"sent", "failed"} : Settles(i, result)

Transfer ==
    \E i \in DOMAIN job.step :
      \/ ReadLocal(i) \/ CreateRemote(i) \/ AskRemote(i)
      \/ AskLocal(i) \/ Download(i) \/ CreateLocal(i)

--------------------------------------------------------------------------------
(* Mutant: the failures are taken off the end of the list. *)
ReferencesShortened ==
    SubSeq(job.list, 1, Cardinality({i \in DOMAIN job.step : job.step[i] = "sent"}))

(* attachmentReferences: the results by index, without the failures. *)
Sent == {job.list[i] : i \in {j \in DOMAIN job.step : job.step[j] = "sent"}}
References == Keep(job.list, Sent)

Settled ==
    Working /\ \A i \in DOMAIN job.step : job.step[i] \in {"sent", "failed"}
Lost == {job.list[i] : i \in {j \in DOMAIN job.step : job.step[j] = "failed"}}

(* The memo is written with the references; SetMemoAttachments deletes the *)
(* attachments it no longer has.  The binding records both sides as equal, *)
(* whatever has failed.                                                    *)
Write ==
    /\ Settled /\ ToSet(References) \subseteq store[Dest]
    /\ store' = [store EXCEPT ![Dest] = @ \ (ToSet(refs[Dest]) \ ToSet(References))]
    /\ refs' = [refs EXCEPT ![Dest] = References]
    /\ ver' = [ver EXCEPT ![Dest] = job.version]
    /\ bound' = [s \in Sides |-> job.version]
    /\ failed' = failed \cup Lost
    /\ job' = NoJob
    /\ UNCHANGED <<clock, faults>>

(* SetMemoAttachments has deleted what is not referred to and attached the *)
(* last n references: it begins at the end, and the attachments it has     *)
(* come to are listed before the others.                                   *)
AttachesLast(n) ==
    LET last == SubSeq(References, Len(References) - n + 1, Len(References)) IN
    /\ ToSet(last) \subseteq store[Dest]
    /\ store' = [store EXCEPT ![Dest] = @ \ (ToSet(refs[Dest]) \ ToSet(References))]
    /\ refs' = [refs EXCEPT ![Dest] = last \o Keep(@, ToSet(References) \ ToSet(last))]

(* It fails at a reference to an attachment that is not there, or at any   *)
(* other, and the memo itself is as it was; or the request, or only the    *)
(* answer to it, is lost.  Nothing is recorded.                            *)
WriteFails ==
    /\ Settled /\ job' = NoJob /\ UNCHANGED <<bound, clock, failed>>
    /\ \/ Fails /\ UNCHANGED <<store, refs, ver>>
       \/ \E n \in 0..Len(References) :
            /\ AttachesLast(n) /\ UNCHANGED ver
            /\ \/ Fails
               \/ n < Len(References) /\ References[Len(References) - n] \notin store[Dest] /\ Works
       \/ /\ Fails /\ AttachesLast(Len(References))
          /\ ver' = [ver EXCEPT ![Dest] = job.version]

Run == Start("local") \/ Start("remote") \/ Transfer \/ Write \/ WriteFails
Next == User \/ Run

Spec == Init /\ [][Next]_vars
FairSpec == Spec /\ WF_vars(Run)

--------------------------------------------------------------------------------
(* Types: the sides, versions up to the clock, one step and one count of   *)
(* tries for every attachment of the list.                                 *)
TypeOK ==
    /\ store \in [Sides -> SUBSET Files]
    /\ \A s \in Sides : refs[s] \in Seq(Files) /\ {ver[s], bound[s]} \subseteq 0..clock
    /\ clock \in 0..MaxVersion /\ faults \in 0..MaxFaults /\ failed \subseteq Files
    /\ job.from \in Sides \cup {"none"} /\ job.list \in Seq(Files) /\ job.version \in 0..clock
    /\ DOMAIN job.step = DOMAIN job.list /\ DOMAIN job.tries = DOMAIN job.list
    /\ \A i \in DOMAIN job.list : job.step[i] \in Steps /\ job.tries[i] \in 0..MaxRetries

(* A memo refers to each attachment once, and to none its side has not:    *)
(* transfers that guess that a uid is taken do not leave dangling ones.    *)
RefsExist ==
    \A s \in Sides : IsInjective(refs[s]) /\ ToSet(refs[s]) \subseteq store[s]

(* No more transfers at once than workers, and none left waiting while a   *)
(* worker is free.                                                         *)
WorkersBusy ==
    LET Is(states) == {i \in DOMAIN job.step : job.step[i] \in states}
        busy == Is(Steps \ {"waiting", "sent", "failed"})
    IN  /\ Cardinality(busy) <= Workers
        /\ Is({"waiting"}) # {} => Cardinality(busy) = Workers

(* While both sides have the update times recorded for them, the memo has  *)
(* the same attachments in the same order, but for those whose transfer    *)
(* has failed.                                                             *)
Without(list, F) == Keep(list, Files \ F)
InSync == ~Changed("local") /\ ~Changed("remote")
SyncedRefsAgree ==
    InSync => Without(refs["local"], failed) = Without(refs["remote"], failed)

(* Once the users stop, the runs end with both sides recorded as equal:    *)
(* no memo is transferred for ever.                                        *)
TransfersEnd == <>[](InSync /\ ~Working)

(* What README.en.md:354 says of attachments, "Always synced": the same    *)
(* without the exception.                                                  *)
AlwaysSynced == InSync => refs["local"] = refs["remote"]
================================================================================
