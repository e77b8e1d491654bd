------------------------------ MODULE MCPages_proofs ------------------------------
(***************************************************************************)
(* What the parts of the web pages promise, for any values of their        *)
(* constants.  The steps of a part concern its own variables alone, so     *)
(* that each has an inductive invariant of its own.  (For the dialogs and  *)
(* forms and what follows a preference, see MCPagesForms_proofs.)          *)
(*                                                                         *)
(* SettingsSettle speaks of states without changes under way only.         *)
(* UserInv adds what holds meanwhile: whatever a change has read or        *)
(* fetched of a field that is not doubtful is what the server lists, and a *)
(* change whose own field is not doubtful is the only one under way.       *)
(*                                                                         *)
(* That a popup inserts what was found where it was found, and a checkbox  *)
(* changes its own line, rests on what Keep and Pushed, defined by         *)
(* recursion on a list, return: as many elements as the set they keep has. *)
(* That a list page by page is the server's rests on FlattenSeq likewise:  *)
(* pages that were fetched one after the other join to it (PagesJoin).     *)
(***************************************************************************)
EXTENDS MCPages, FiniteSetTheorems, SequenceTheorems, WellFoundedInduction, TLAPS

(* A step of the pages is one of a single part, the others stay.           *)
LEMMA StepsOfParts ==
  ASSUME [PagesNext]_allVars
  PROVE  /\ [Next]_vars /\ [S!Next]_sync /\ [I!Next]_inst /\ [L!Next]_lists /\ [F!Next]_filter
         /\ [P!Next]_paged /\ [A!Next]_forms /\ [D!Next]_attachments /\ [G!Next]_location
         /\ [T!Next]_typing /\ [N!Next]_notices /\ [B!Next]_shell /\ [E!Next]_focusing
         /\ [C!Next]_choices /\ [M!Next]_masonry /\ [K!Next]_checkboxes
BY DEF PagesNext, allVars, UserPart, SyncPart, InstancePart, ListPart, FilterPart, MemoPart,
       AccountPart, FilePart, LocationPart, SuggestionPart, InboxPart, AppPart, FocusPart,
       ChoicePart, MasonryPart, TaskPart


UserTyped ==
    /\ server \in Settings /\ known \in Settings /\ chosen \in Settings
    /\ applied \in [AppliedFields -> Values]
    /\ call \in [Calls -> Call \cup {NoCall}]

UnderWay(c) == call[c].step # "none"
Untouched(f) == \A c \in Calls : UnderWay(c) => call[c].field # f

Settled(f) ==
    /\ Listed(server)[f] = chosen[f] /\ known[f] = chosen[f]
    /\ f \in AppliedFields /\ chosen[f] # 0 => applied[f] = chosen[f]

OthersSettled == \A f \in Fields \ doubtful : Untouched(f) => Settled(f)

(* What a change under way has seen: of the fields that are not doubtful,  *)
(* what the server lists.                                                  *)
Seen(c) ==
    LET k == call[c] IN
    /\ k.value # 0
    /\ k.step = "read" => \/ k.whole = NoSetting
                          \/ \A f \in Fields \ doubtful : f # k.field => k.whole[f] = Listed(server)[f]
    /\ k.step = "fetched" => \A f \in Fields \ doubtful : k.whole[f] = Listed(server)[f]

(* What has become of a change whose field is not doubtful, so far: it is  *)
(* the only one.                                                           *)
Own(c) ==
    LET k == call[c] IN
    k.field \notin doubtful =>
      /\ \A d \in Calls : UnderWay(d) => d = c
      /\ ~k.orphan /\ k.value = chosen[k.field]
      /\ k.field \in AppliedFields => applied[k.field] = k.value
      /\ k.step \notin {"sent", "read"} => server[k.field] = k.value

UserInv ==
    /\ UserTyped /\ OthersSettled
    /\ \A c \in Calls : UnderWay(c) => Seen(c) /\ Own(c)

LEMMA CallTyped ==
  ASSUME UserTyped, NEW c \in Calls, UnderWay(c)
  PROVE  call[c] \in Call
BY DEF UserTyped, UnderWay, NoCall

LEMMA ListedValues ==
  ASSUME NEW s \in Settings
  PROVE  /\ Listed(s) \in Settings /\ NoSetting \in Settings /\ Default \in Settings
         /\ s # NoSetting => Listed(s) = s
         /\ \A f \in Fields : s[f] # 0 => s # NoSetting /\ Listed(s)[f] = s[f]
BY UserSettingsAssumption DEF Listed, Settings, Values, NoSetting, Default

LEMMA UserInitInv ==
  Init => UserInv
<1> SUFFICES ASSUME Init PROVE UserInv
  OBVIOUS
<1>1. UserTyped
  BY UserSettingsAssumption
     DEF Init, UserTyped, Settings, Values, NoSetting, Default, AppliedFields, Fields
<1>2. \A c \in Calls : ~UnderWay(c)
  BY DEF Init, UnderWay, NoCall
<1>3. \A f \in Fields : Settled(f)
  BY DEF Init, Settled, Listed, NoSetting, Default, AppliedFields, Fields
<1> QED
  BY <1>1, <1>2, <1>3 DEF UserInv, OthersSettled

(* The user makes a change.                                                *)
LEMMA ChooseKeeps ==
  ASSUME UserInv,
         NEW c \in Calls, NEW f \in Fields, NEW v \in 1..MaxValue, Choose(c, f, v)
  PROVE  UserInv'
<1> DEFINE new == [step |-> "sent", field |-> f, value |-> v, whole |-> NoSetting, orphan |-> FALSE]
<1>1. /\ applied' = IF f \in AppliedFields THEN [applied EXCEPT ![f] = v] ELSE applied
      /\ call' = [call EXCEPT ![c] = new] /\ chosen' = [chosen EXCEPT ![f] = v]
      /\ doubtful' = IF Open = {} THEN doubtful \ {f} ELSE doubtful \cup {f} \cup Crossed
      /\ UNCHANGED <<server, known>> /\ ~UnderWay(c)
  BY DEF Choose, UnderWay, NoCall
<1>2. \A d \in Calls : UnderWay(d) <=> d \in Open
  BY CallTyped DEF Open, UnderWay, NoCall, UserInv, UserTyped, Call, Live
<1>3. new \in Call /\ v \in Values /\ v # 0
  BY UserSettingsAssumption DEF Call, Live, Settings, Values, NoSetting
<1>4. UserTyped'
  BY <1>1, <1>3 DEF UserInv, UserTyped, Settings
<1>5. /\ call'[c] = new /\ \A d \in Calls \ {c} : call'[d] = call[d]
      /\ chosen'[f] = v /\ \A g \in Fields \ {f} : chosen'[g] = chosen[g]
      /\ f \in AppliedFields => applied'[f] = v
      /\ \A g \in AppliedFields \ {f} : applied'[g] = applied[g]
      /\ UnderWay(c)' /\ \A d \in Calls \ {c} : UnderWay(d)' = UnderWay(d)
  BY <1>1 DEF UserInv, UserTyped, Settings, UnderWay
<1>6. OthersSettled'
  <2> SUFFICES ASSUME NEW g \in Fields \ doubtful', Untouched(g)'
               PROVE  Settled(g)'
    BY DEF OthersSettled
  <2>1. g # f /\ g \notin doubtful
    BY <1>1, <1>5 DEF Untouched
  <2>2. Untouched(g)
    BY <1>1, <1>5 DEF Untouched
  <2>3. Settled(g)
    BY <2>1, <2>2 DEF UserInv, OthersSettled
  <2> QED
    BY <1>1, <1>5, <2>1, <2>3 DEF Settled
<1>7. Seen(c)'
  BY <1>3, <1>5 DEF Seen
<1>8. Own(c)'
  <2> HIDE DEF new
  <2> SUFFICES ASSUME f \notin doubtful' PROVE Own(c)'
    BY <1>5 DEF Own, new
  <2>1. Open = {}
    BY <1>1
  <2>2. \A d \in Calls : UnderWay(d)' => d = c
    BY <1>2, <1>5, <2>1
  <2> QED
    BY <1>5, <2>2 DEF Own, new
<1>9. ASSUME NEW d \in Calls \ {c}, UnderWay(d)'
      PROVE  Seen(d)' /\ Own(d)'
  <2>1. UnderWay(d) /\ Seen(d) /\ Open # {} /\ call'[d] = call[d]
    BY <1>2, <1>5, <1>9 DEF UserInv
  <2>2. doubtful \subseteq doubtful' /\ call[d].field \in doubtful'
    BY <1>1, <1>2, <2>1 DEF Crossed
  <2> QED
    BY <1>1, <2>1, <2>2 DEF Seen, Own
<1> QED
  BY <1>4, <1>6, <1>7, <1>8, <1>9 DEF UserInv

(* A step of a change under way, after which it is new: it touches no      *)
(* field but its own, unless one is doubtful now.                          *)
LEMMA CallKeeps ==
  ASSUME UserInv, NEW c \in Calls, UnderWay(c), NEW new \in Call, new.field = call[c].field,
         call' = [call EXCEPT ![c] = new], UserTyped', doubtful \subseteq doubtful', chosen' = chosen,
         \A f \in Fields \ doubtful' : f # call[c].field =>
             (Settled(f) => Settled(f)') /\ Listed(server')[f] = Listed(server)[f],
         Seen(c)', call[c].field \notin doubtful' /\ Own(c) => Own(c)'
  PROVE  UserInv'
<1>1. call'[c] = new /\ \A d \in Calls \ {c} : call'[d] = call[d]
  BY DEF UserInv, UserTyped
<1>2. \A d \in Calls : UnderWay(d)' <=> UnderWay(d)
  BY <1>1 DEF UnderWay, Call, Live
<1>3. \A f \in Fields : Untouched(f)' => Untouched(f) /\ f # call[c].field
  BY <1>1, <1>2 DEF Untouched
<1>4. OthersSettled'
  BY <1>3 DEF UserInv, OthersSettled
<1>5. Own(c)'
  BY <1>1 DEF UserInv, Own
<1>6. ASSUME NEW d \in Calls \ {c}, UnderWay(d)'
      PROVE  Seen(d)' /\ Own(d)'
  <2>1. UnderWay(d) /\ Seen(d) /\ Own(d) /\ Own(c) /\ call'[d] = call[d]
    BY <1>1, <1>2, <1>6 DEF UserInv
  <2>2. call[c].field \in doubtful /\ call[d].field \in doubtful
    BY <2>1 DEF Own
  <2>3. \A f \in Fields \ doubtful' : f \notin doubtful /\ Listed(server')[f] = Listed(server)[f]
    BY <2>2
  <2> QED
    BY <2>1, <2>2, <2>3 DEF Seen, Own
<1> QED
  BY <1>4, <1>5, <1>6 DEF UserInv

(* It ends. *)
LEMMA EndKeeps ==
  ASSUME UserInv, NEW c \in Calls, UnderWay(c), call' = [call EXCEPT ![c] = NoCall], UserTyped',
         doubtful \subseteq doubtful',
         \A f \in Fields \ doubtful' : f # call[c].field =>
             (Settled(f) => Settled(f)') /\ Listed(server')[f] = Listed(server)[f],
         \A f \in Fields \ doubtful' : f = call[c].field /\ Own(c) => Settled(f)'
  PROVE  UserInv'
<1>1. call'[c] = NoCall /\ \A d \in Calls \ {c} : call'[d] = call[d]
  BY DEF UserInv, UserTyped
<1>2. \A d \in Calls : UnderWay(d)' => d # c /\ UnderWay(d)
  BY <1>1 DEF UnderWay, NoCall
<1>3. OthersSettled'
  <2> SUFFICES ASSUME NEW f \in Fields \ doubtful', Untouched(f)'
               PROVE  Settled(f)'
    BY DEF OthersSettled
  <2>1. CASE f = call[c].field
    BY <2>1 DEF UserInv
  <2>2. CASE f # call[c].field
    <3>1. Untouched(f)
      BY <1>1, <2>2 DEF Untouched, UnderWay
    <3> QED
      BY <2>2, <3>1 DEF UserInv, OthersSettled
  <2> QED
    BY <2>1, <2>2
<1>4. ASSUME NEW d \in Calls, UnderWay(d)'
      PROVE  Seen(d)' /\ Own(d)'
  <2>1. d # c /\ UnderWay(d) /\ Seen(d) /\ Own(d) /\ Own(c) /\ call'[d] = call[d]
    BY <1>1, <1>2, <1>4 DEF UserInv
  <2>2. call[c].field \in doubtful /\ call[d].field \in doubtful
    BY <2>1 DEF Own
  <2>3. \A f \in Fields \ doubtful' : f \notin doubtful /\ Listed(server')[f] = Listed(server)[f]
    BY <2>2
  <2> QED
    BY <2>1, <2>2, <2>3 DEF Seen, Own
<1> QED
  BY <1>3, <1>4 DEF UserInv

LEMMA ReadKeeps ==
  ASSUME UserInv, NEW c \in Calls, Read(c) \/ ReadFails(c)
  PROVE  UserInv'
<1>1. /\ UnderWay(c) /\ call[c] \in Call /\ Seen(c) /\ call[c].step = "sent"
      /\ UNCHANGED <<server, known, applied, chosen, doubtful>>
  BY CallTyped DEF Read, ReadFails, UnderWay, UserInv
<1>2. PICK whole \in {server, NoSetting} :
        call' = [call EXCEPT ![c] = [call[c] EXCEPT !.step = "read", !.whole = whole]]
  BY DEF Read, ReadFails
<1> DEFINE new == [call[c] EXCEPT !.step = "read", !.whole = whole]
<1>3. new \in Call /\ new.field = call[c].field
  BY <1>1, ListedValues DEF Call, Live, UserInv, UserTyped
<1>4. UserTyped' /\ call'[c] = new
  BY <1>1, <1>2, <1>3 DEF UserInv, UserTyped
<1>5. whole = NoSetting \/ Listed(server) = whole
  BY <1>2, ListedValues DEF UserInv, UserTyped
<1>6. Seen(c)'
  BY <1>1, <1>4, <1>5 DEF Seen, Call
<1>7. Own(c) => Own(c)'
  <2>1. \A d \in Calls : UnderWay(d)' => UnderWay(d)
    BY <1>1, <1>2 DEF UnderWay, UserInv, UserTyped
  <2> QED
    BY <1>1, <1>4, <2>1 DEF Own, Call
<1>8. \A f \in Fields : Settled(f) => Settled(f)'
  BY <1>1 DEF Settled
<1> HIDE DEF new
<1> QED
  BY <1>1, <1>2, <1>3, <1>4, <1>6, <1>7, <1>8, CallKeeps DEF new

(* The server has written the whole setting: what it had read, with one    *)
(* field changed.                                                          *)
LEMMA WriteKeeps ==
  ASSUME UserInv, NEW c \in Calls, Write(c)
  PROVE  UserInv'
<1> DEFINE k == call[c]
           new == [k EXCEPT !.step = "written"]
<1>1. /\ UnderWay(c) /\ k \in Call /\ Seen(c) /\ k.step = "read" /\ k.value # 0
      /\ server' = [k.whole EXCEPT ![k.field] = k.value]
      /\ call' = [call EXCEPT ![c] = IF k.orphan THEN NoCall ELSE new]
      /\ doubtful' = IF k.whole = NoSetting THEN doubtful \cup (Fields \ {k.field}) ELSE doubtful
      /\ UNCHANGED <<known, applied, chosen>>
  BY CallTyped DEF Write, Masked, UnderWay, UserInv, Seen
<1>2. new \in Call /\ new.field = k.field
  BY <1>1 DEF Call, Live
<1>3. /\ server' \in Settings /\ server'[k.field] = k.value
      /\ \A f \in Fields : f # k.field => server'[f] = k.whole[f]
  BY <1>1 DEF Settings, Call
<1>4. UserTyped'
  BY <1>1, <1>2, <1>3 DEF UserInv, UserTyped
<1>5. Listed(server') = server' /\ k.field \in Fields
  BY <1>1, <1>3, ListedValues DEF Call
<1>6. \A f \in Fields \ doubtful' : f # k.field => Listed(server')[f] = Listed(server)[f]
  BY <1>1, <1>3, <1>5 DEF Seen
<1>7. \A f \in Fields \ doubtful' : f # k.field =>
        (Settled(f) => Settled(f)') /\ Listed(server')[f] = Listed(server)[f]
  BY <1>1, <1>6 DEF Settled
<1>8. CASE k.orphan
  <2>1. call' = [call EXCEPT ![c] = NoCall]
    BY <1>1, <1>8
  <2>2. Own(c) => k.field \in doubtful'
    BY <1>1, <1>8 DEF Own
  <2>3. doubtful \subseteq doubtful'
    BY <1>1
  <2> HIDE DEF k, new
  <2> QED
    BY <1>1, <1>4, <1>7, <2>1, <2>2, <2>3, EndKeeps DEF k
<1>9. CASE ~k.orphan
  <2>1. call' = [call EXCEPT ![c] = new] /\ call'[c] = new
    BY <1>1, <1>9 DEF UserInv, UserTyped
  <2>2. Seen(c)'
    BY <1>1, <2>1 DEF Seen, Call
  <2>3. k.field \notin doubtful' /\ Own(c) => Own(c)'
    <3>1. \A d \in Calls : UnderWay(d)' => UnderWay(d)
      BY <1>1, <2>1 DEF UnderWay, UserInv, UserTyped
    <3>2. new.value = k.value /\ new.orphan = k.orphan
      BY <1>1 DEF Call
    <3> HIDE DEF new
    <3> QED
      BY <1>1, <1>2, <1>3, <1>9, <2>1, <3>1, <3>2 DEF Own
  <2>4. doubtful \subseteq doubtful'
    BY <1>1
  <2> HIDE DEF new
  <2> QED
    BY <1>1, <1>2, <1>4, <1>7, <2>1, <2>2, <2>3, <2>4, CallKeeps
<1> QED
  BY <1>8, <1>9

(* The fetch after a change is sent, and answered with what the server     *)
(* lists.                                                                  *)
LEMMA FetchKeeps ==
  ASSUME UserInv, NEW c \in Calls, Refetch(c) \/ ListSettings(c)
  PROVE  UserInv'
<1>1. /\ UnderWay(c) /\ call[c] \in Call /\ Seen(c)
      /\ call[c].step \in {"written", "asked"}
      /\ UNCHANGED <<server, known, applied, chosen, doubtful>>
  BY CallTyped DEF Refetch, ListSettings, UnderWay, UserInv
<1>2. PICK new \in Call :
        /\ call' = [call EXCEPT ![c] = new]
        /\ new.step \in {"asked", "fetched"} /\ new.field = call[c].field
        /\ new.value = call[c].value /\ new.orphan = call[c].orphan
        /\ new.step = "fetched" => new.whole = Listed(server)
  <2>1. CASE Refetch(c)
    <3>1. [call[c] EXCEPT !.step = "asked"] \in Call
      BY <1>1 DEF Call, Live
    <3> QED
      BY <1>1, <2>1, <3>1 DEF Refetch, Call
  <2>2. CASE ListSettings(c)
    <3>0. Listed(server) \in Settings
      BY ListedValues DEF UserInv, UserTyped
    <3>1. [call[c] EXCEPT !.step = "fetched", !.whole = Listed(server)] \in Call
      BY <1>1, <3>0 DEF Call, Live
    <3> QED
      BY <1>1, <2>2, <3>1 DEF ListSettings, Call
  <2> QED
    BY <2>1, <2>2
<1>3. UserTyped' /\ call'[c] = new
  BY <1>1, <1>2 DEF UserInv, UserTyped
<1>4. Seen(c)'
  BY <1>1, <1>2, <1>3 DEF Seen
<1>5. Own(c) => Own(c)'
  <2>1. \A d \in Calls : UnderWay(d)' => UnderWay(d)
    BY <1>1, <1>2 DEF UnderWay, UserInv, UserTyped
  <2> QED
    BY <1>1, <1>2, <1>3, <2>1 DEF Own
<1>6. \A f \in Fields : Settled(f) => Settled(f)'
  BY <1>1 DEF Settled
<1> QED
  BY <1>1, <1>2, <1>3, <1>4, <1>5, <1>6, CallKeeps

(* The page takes what was fetched, and applies it where it changes.       *)
LEMMA TakeKeeps ==
  ASSUME UserInv, NEW c \in Calls, Take(c)
  PROVE  UserInv'
<1> DEFINE k == call[c]
<1>1. /\ UnderWay(c) /\ k \in Call /\ Seen(c) /\ k.step = "fetched" /\ k.value # 0
      /\ known' = k.whole /\ call' = [call EXCEPT ![c] = NoCall]
      /\ applied' = [f \in AppliedFields |->
                       IF k.whole[f] \notin {0, known[f]} THEN k.whole[f] ELSE applied[f]]
      /\ UNCHANGED <<server, chosen, doubtful>>
  BY CallTyped DEF Take, UnderWay, UserInv, Seen
<1>2. UserTyped'
  <2>1. k.whole \in Settings /\ AppliedFields \subseteq Fields
    BY <1>1 DEF Call, AppliedFields, Fields
  <2>2. applied' \in [AppliedFields -> Values]
    BY <1>1, <2>1 DEF UserInv, UserTyped, Settings
  <2> QED
    BY <1>1, <2>1, <2>2 DEF UserInv, UserTyped
<1>3. \A f \in Fields \ doubtful : k.whole[f] = Listed(server)[f]
  BY <1>1 DEF Seen
<1>4. \A f \in Fields \ doubtful : Settled(f) => Settled(f)'
  BY <1>1, <1>3 DEF Settled
<1>5. ASSUME NEW f \in Fields \ doubtful, f = k.field, Own(c)
      PROVE  Settled(f)'
  <2>1. /\ server[f] = chosen[f] /\ server[f] # 0
        /\ f \in AppliedFields => applied[f] = chosen[f]
    BY <1>1, <1>5 DEF Own
  <2>2. Listed(server)[f] = chosen[f]
    BY <2>1, ListedValues DEF UserInv, UserTyped
  <2> QED
    BY <1>1, <1>3, <1>5, <2>1, <2>2 DEF Settled
<1> QED
  BY <1>1, <1>2, <1>4, <1>5, EndKeeps

LEMMA FailsKeeps ==
  ASSUME UserInv, NEW c \in Calls, Fails(c)
  PROVE  UserInv'
<1> DEFINE k == call[c]
           new == [k EXCEPT !.orphan = TRUE]
<1>1. /\ UnderWay(c) /\ k \in Call /\ Seen(c) /\ doubtful' = doubtful \cup {k.field}
      /\ UNCHANGED <<server, known, applied, chosen>>
      /\ \/ call' = [call EXCEPT ![c] = NoCall]
         \/ call' = [call EXCEPT ![c] = new]
  BY CallTyped DEF Fails, Live, UnderWay, UserInv
<1>2. \A f \in Fields : Settled(f) => Settled(f)'
  BY <1>1 DEF Settled
<1>3. CASE call' = [call EXCEPT ![c] = NoCall]
  <2>1. UserTyped'
    BY <1>1, <1>3 DEF UserInv, UserTyped
  <2> QED
    BY <1>1, <1>2, <1>3, <2>1, EndKeeps
<1>4. CASE call' = [call EXCEPT ![c] = new]
  <2>1. new \in Call /\ new.field = k.field
    BY <1>1 DEF Call
  <2>2. UserTyped' /\ call'[c] = new
    BY <1>1, <1>4, <2>1 DEF UserInv, UserTyped
  <2>3. Seen(c)'
    BY <1>1, <1>4, <2>2 DEF Seen, Call
  <2>4. k.field \in doubtful' /\ doubtful \subseteq doubtful'
    BY <1>1
  <2> HIDE DEF new
  <2> QED
    BY <1>1, <1>2, <1>4, <2>1, <2>2, <2>3, <2>4, CallKeeps
<1> QED
  BY <1>1, <1>3, <1>4

(* A new page shows what the server lists; a write on its way may still be *)
(* made, so that its field is doubtful.                                    *)
LEMMA UserReloadKeeps ==
  ASSUME UserInv, Reload
  PROVE  UserInv'
<1> DEFINE writes == {c \in Calls : call[c].step \in {"sent", "read"}}
           loaded == Listed(server)
<1>1. /\ known' = loaded /\ chosen' = loaded /\ server' = server
      /\ applied' = [f \in AppliedFields |-> IF loaded[f] # 0 THEN loaded[f] ELSE applied[f]]
      /\ call' = [c \in Calls |-> IF c \in writes THEN [call[c] EXCEPT !.orphan = TRUE] ELSE NoCall]
      /\ doubtful' = IF writes = {} THEN {} ELSE doubtful \cup {call[c].field : c \in writes}
  BY DEF Reload
<1>2. \A c \in writes : UnderWay(c) /\ call[c] \in Call /\ Seen(c)
  BY CallTyped DEF UserInv, UnderWay
<1>3. UserTyped'
  <2>1. \A c \in writes : [call[c] EXCEPT !.orphan = TRUE] \in Call
    BY <1>2 DEF Call
  <2>2. loaded \in Settings /\ AppliedFields \subseteq Fields
    BY ListedValues DEF UserInv, UserTyped, AppliedFields, Fields
  <2>3. applied' \in [AppliedFields -> Values]
    BY <1>1, <2>2 DEF UserInv, UserTyped, Settings
  <2> QED
    BY <1>1, <2>1, <2>2, <2>3 DEF UserInv, UserTyped
<1>4. \A f \in Fields : Settled(f)'
  BY <1>1 DEF Settled
<1>5. \A c \in Calls : UnderWay(c)' => c \in writes
  BY <1>1 DEF UnderWay, NoCall
<1>6. ASSUME NEW c \in Calls, UnderWay(c)'
      PROVE  Seen(c)' /\ Own(c)'
  <2>1. c \in writes /\ call'[c] = [call[c] EXCEPT !.orphan = TRUE] /\ call[c] \in Call /\ Seen(c)
    BY <1>1, <1>2, <1>5, <1>6
  <2>2. call[c].field \in doubtful' /\ doubtful \subseteq doubtful'
    BY <1>1, <2>1
  <2>3. /\ call'[c].field = call[c].field /\ call'[c].whole = call[c].whole
        /\ call'[c].step = call[c].step /\ call'[c].value = call[c].value
    BY <2>1 DEF Call
  <2> QED
    BY <1>1, <2>1, <2>2, <2>3 DEF Seen, Own
<1> QED
  BY <1>3, <1>4, <1>6 DEF UserInv, OthersSettled

LEMMA UserStutterKeeps ==
  ASSUME UserInv, UNCHANGED vars
  PROVE  UserInv'
BY DEF UserInv, UserTyped, OthersSettled, Untouched, Settled, Seen, Own, UnderWay, vars


LEMMA SettingsHold == PagesSpec => []UserInv
<1>1. PagesInit => UserInv
  BY UserInitInv DEF PagesInit
<1>2. UserInv /\ [PagesNext]_allVars => UserInv'
  BY StepsOfParts, ChooseKeeps, ReadKeeps, WriteKeeps, FetchKeeps, TakeKeeps, FailsKeeps,
     UserReloadKeeps, UserStutterKeeps DEF Next
<1> QED
  BY <1>1, <1>2, PTL DEF PagesSpec

(* A field settles to what the user chose last, at the server, in the      *)
(* selects and in the page, whatever else the user chooses meanwhile and   *)
(* whatever fails; what goes wrong stays with the fields it befalls.       *)
THEOREM SettingsAlwaysSettle == PagesSpec => []SettingsSettle
<1>1. UserInv => SettingsSettle
  <2> SUFFICES ASSUME UserInv, Open = {} PROVE SettingsSettle
    BY DEF SettingsSettle
  <2>1. \A c \in Calls : ~UnderWay(c)
    BY DEF Open, UnderWay, NoCall
  <2> QED
    BY <2>1 DEF UserInv, OthersSettled, Untouched, Settled, SettingsSettle
<1> QED
  BY <1>1, SettingsHold, PTL

-------------------------------------------------------------------------------

(* The types, without the bounds; "none" stands for no server.             *)
Jobbed == [step : S!Steps, server : Servers \cup {"none"}, confirmed : BOOLEAN]
SyncTyped ==
    /\ "none" \notin Servers
    /\ prefs \in S!Preferences /\ copy \in [Tabs -> S!Preferences]
    /\ status \in [Servers -> S!Status] /\ shown \in [Tabs -> S!Status]
    /\ events \in [Tabs -> SUBSET {"prefs", "status"}]
    /\ job \in [Tabs -> [S!Jobs -> Jobbed]]
    /\ last \in [Servers -> [S!Phases -> {"none", "ok", "failed"}]]

(* A run has a server, and one of the settings page is in a ph that     *)
(* records how it ends.                                                    *)
Apt(j, run) ==
    /\ run \in Jobbed
    /\ run.step # "none" => run.server \in Servers
    /\ j # "triggered" => run.step \in S!Phases \cup {"none"}
RunsApt == \A t \in Tabs, j \in S!Jobs : Apt(j, job[t][j])

LEMMA StatusTyped ==
  ASSUME NEW s \in Servers \cup {"none"}, SyncTyped
  PROVE  /\ S!StatusOf(s) \in S!Status
         /\ S!EmptyStatus \in S!Status
BY DEF S!StatusOf, S!Usable, S!EmptyStatus, S!Status, S!Phases, SyncTyped

LEMMA MarkedTyped ==
  ASSUME SyncTyped, NEW s \in Servers, NEW ph \in S!Phases, NEW outcome
  PROVE  /\ S!Marked(s, ph, outcome) \in S!Status
         /\ status[s] \in S!Status
<1>1. status[s] \in S!Status
  BY DEF SyncTyped
<1>2. CASE outcome = "failed"
  BY <1>1, <1>2 DEF S!Marked, S!Status
<1>3. CASE outcome = "ok" /\ status[s].err = ph
  BY <1>1, <1>3 DEF S!Marked, S!Status
<1>4. CASE outcome # "failed" /\ ~(outcome = "ok" /\ status[s].err = ph)
  BY <1>1, <1>4 DEF S!Marked, S!Status
<1> QED
  BY <1>1, <1>2, <1>3, <1>4

LEMMA IdleTyped ==
  ASSUME NEW stat \in S!Status
  PROVE  /\ S!Idle(stat) \in S!Status /\ S!Idle(stat).err = stat.err
         /\ [stat EXCEPT !.bg = "running"] \in S!Status /\ [stat EXCEPT !.bg = "locked"] \in S!Status
BY DEF S!Idle, S!Status

LEMMA NoticedTyped ==
  ASSUME SyncTyped, NEW t \in Tabs, NEW kinds \in SUBSET {"prefs", "status"}, NEW handled
  PROVE  S!Noticed(t, kinds, handled) \in [Tabs -> SUBSET {"prefs", "status"}]
BY DEF S!Noticed, SyncTyped

(* A write of a status keeps the types and leaves no page behind. *)
LEMMA SetStatusTyped ==
  ASSUME SyncTyped, NEW t \in Tabs, NEW s \in Servers, NEW new \in S!Status, S!SetStatus(t, s, new)
  PROVE  /\ status' \in [Servers -> S!Status] /\ shown' \in [Tabs -> S!Status]
         /\ events' \in [Tabs -> SUBSET {"prefs", "status"}]
         /\ status'[s] = new /\ \A r \in Servers \ {s} : status'[r] = status[r]
<1>1. events' = S!Noticed(t, {"status"}, {})
  BY DEF S!SetStatus
<1>2. events' \in [Tabs -> SUBSET {"prefs", "status"}]
  BY <1>1, NoticedTyped
<1> QED
  BY <1>2 DEF S!SetStatus, SyncTyped

LEMMA SetStatusAgrees ==
  ASSUME SyncTyped, S!PagesAgree, NEW t \in Tabs, NEW s \in Servers, NEW new \in S!Status,
         S!SetStatus(t, s, new), prefs' = prefs, copy' = copy
  PROVE  S!PagesAgree'
<1> SUFFICES ASSUME NEW u \in Tabs
             PROVE  /\ "prefs" \notin events'[u] => copy[u] = prefs
                    /\ "status" \notin events'[u] => shown'[u] = S!StatusOf(copy[u].url)'
  BY DEF S!PagesAgree
<1>1. events'[u] = IF u = t THEN events[u] \ {} ELSE events[u] \cup {"status"}
  BY DEF S!SetStatus, S!Noticed
<1>2. "prefs" \notin events'[u] => copy[u] = prefs
  BY <1>1 DEF S!PagesAgree
<1>3. CASE u # t
  BY <1>1, <1>2, <1>3
<1>4. CASE u = t
  <2>1. "status" \notin events'[t] => shown[t] = S!StatusOf(copy[t].url)
    BY <1>1, <1>4 DEF S!PagesAgree
  <2>2. shown'[t] = IF copy[t].url = s THEN new ELSE shown[t]
    BY DEF S!SetStatus, SyncTyped
  <2>3. CASE copy[t].url = s
    <3>1. S!StatusOf(copy[t].url)' = IF s = "none" THEN S!EmptyStatus ELSE status'[s]
      BY <2>3 DEF S!StatusOf, S!Usable
    <3>2. s # "none" /\ status'[s] = new
      BY SetStatusTyped DEF SyncTyped
    <3> QED BY <1>2, <1>4, <2>1, <2>2, <2>3, <3>1, <3>2
  <2>4. CASE copy[t].url # s
    <3>1. copy[t].url \in Servers \cup {"none"}
      BY DEF SyncTyped, S!Preferences
    <3>2. S!StatusOf(copy[t].url)' = S!StatusOf(copy[t].url)
      BY <2>4, <3>1, SetStatusTyped DEF S!StatusOf, S!Usable
    <3> QED BY <1>2, <1>4, <2>1, <2>2, <2>4, <3>2
  <2> QED BY <2>3, <2>4
<1> QED BY <1>3, <1>4

(* So does a page that takes new preferences p.                            *)
LEMMA AdoptTyped ==
  ASSUME SyncTyped, NEW t \in Tabs, NEW p \in S!Preferences, NEW kinds \in SUBSET {"prefs", "status"},
         NEW handled, S!Adopt(t, p, kinds, handled)
  PROVE  /\ copy' \in [Tabs -> S!Preferences] /\ status' \in [Servers -> S!Status]
         /\ shown' \in [Tabs -> S!Status] /\ events' \in [Tabs -> SUBSET {"prefs", "status"}]
<1> DEFINE idles == p # copy[t] /\ ~p.on /\ S!Usable(p.url)
           now == IF idles THEN [S!StatusOf(p.url) EXCEPT !.bg = "idle"]
                  ELSE IF p.url # copy[t].url THEN S!StatusOf(p.url) ELSE shown[t]
<1>1. /\ copy' = [copy EXCEPT ![t] = p]
      /\ status' = IF idles THEN [status EXCEPT ![p.url] = now] ELSE status
      /\ shown' = [shown EXCEPT ![t] = now]
      /\ events' = S!Noticed(t, kinds \cup IF idles THEN {"status"} ELSE {}, handled)
  BY DEF S!Adopt
<1>2. S!StatusOf(p.url) \in S!Status /\ shown[t] \in S!Status
  BY StatusTyped DEF S!Preferences, SyncTyped
<1>3. now \in S!Status
  BY <1>2 DEF S!Status
<1>4. events' \in [Tabs -> SUBSET {"prefs", "status"}]
  BY <1>1, NoticedTyped
<1> HIDE DEF now, idles
<1> QED
  BY <1>1, <1>3, <1>4 DEF SyncTyped

LEMMA AdoptAgrees ==
  ASSUME SyncTyped, S!PagesAgree, NEW t \in Tabs, NEW p \in S!Preferences,
         NEW kinds \in SUBSET {"prefs", "status"}, NEW handled, "status" \notin handled,
         S!Adopt(t, p, kinds, handled), prefs' = p, prefs' = prefs \/ "prefs" \in kinds
  PROVE  S!PagesAgree'
<1> DEFINE idles == p # copy[t] /\ ~p.on /\ S!Usable(p.url)
           now == IF idles THEN [S!StatusOf(p.url) EXCEPT !.bg = "idle"]
                  ELSE IF p.url # copy[t].url THEN S!StatusOf(p.url) ELSE shown[t]
           all == kinds \cup IF idles THEN {"status"} ELSE {}
<1> SUFFICES ASSUME NEW u \in Tabs
             PROVE  /\ "prefs" \notin events'[u] => copy'[u] = p
                    /\ "status" \notin events'[u] => shown'[u] = S!StatusOf(copy[u].url)'
  BY DEF S!PagesAgree
<1>1. /\ copy' = [copy EXCEPT ![t] = p]
      /\ status' = IF idles THEN [status EXCEPT ![p.url] = now] ELSE status
      /\ shown' = [shown EXCEPT ![t] = now]
      /\ events' = S!Noticed(t, all, handled)
  BY DEF S!Adopt
<1>2. events'[u] = IF u = t THEN events[u] \ handled ELSE events[u] \cup all
  BY <1>1 DEF S!Noticed
<1>3. CASE u # t
  <2>1. copy'[u] = copy[u] /\ shown'[u] = shown[u]
    BY <1>1, <1>3 DEF SyncTyped
  <2>2. "prefs" \notin events'[u] => copy'[u] = p
    BY <1>2, <1>3, <2>1 DEF S!PagesAgree
  <2>3. "status" \notin events'[u] => status' = status /\ shown[u] = S!StatusOf(copy[u].url)
    BY <1>1, <1>2, <1>3 DEF S!PagesAgree
  <2> QED
    BY <2>1, <2>2, <2>3 DEF S!StatusOf
<1>4. CASE u = t
  <2>1. copy'[t] = p /\ shown'[t] = now
    BY <1>1 DEF SyncTyped
  <2>2. CASE idles
    <3>1. p.url \in Servers
      BY <2>2 DEF S!Usable, S!Preferences
    <3>2. S!StatusOf(copy[t].url)' = status'[p.url]
      BY <2>1, <2>2 DEF S!StatusOf, S!Usable
    <3>3. status'[p.url] = now
      BY <1>1, <2>2, <3>1 DEF SyncTyped
    <3> QED
      BY <1>4, <2>1, <3>2, <3>3
  <2>3. CASE ~idles
    <3>1. S!StatusOf(copy[t].url)' = S!StatusOf(p.url)
      BY <1>1, <2>1, <2>3 DEF S!StatusOf
    <3>2. "status" \notin events'[t] => shown[t] = S!StatusOf(copy[t].url)
      BY <1>2, <1>4 DEF S!PagesAgree
    <3> QED
      BY <1>4, <2>1, <2>3, <3>1, <3>2
  <2> QED
    BY <2>2, <2>3
<1> QED
  BY <1>3, <1>4

(* An error that is kept or cleared, and one that a run records.           *)
LEMMA ErrorKept ==
  ASSUME S!ErrorIsOfLastRun, last' = last,
         \A s \in Servers : status'[s].err \in {status[s].err, "none"}
  PROVE  S!ErrorIsOfLastRun'
BY DEF S!ErrorIsOfLastRun

LEMMA ErrorRecorded ==
  ASSUME SyncTyped, S!ErrorIsOfLastRun, NEW s \in Servers, NEW ph \in S!Phases,
         NEW outcome \in {"ok", "failed"}, S!Recorded(s, ph, outcome),
         status'[s].err = S!Marked(s, ph, outcome).err,
         \A r \in Servers \ {s} : status'[r] = status[r]
  PROVE  /\ S!ErrorIsOfLastRun'
         /\ last' \in [Servers -> [S!Phases -> {"none", "ok", "failed"}]]
<1>1. last' = [last EXCEPT ![s][ph] = outcome]
  BY DEF S!Recorded
<1>2. last' \in [Servers -> [S!Phases -> {"none", "ok", "failed"}]]
  BY <1>1 DEF SyncTyped
<1>3. ASSUME NEW r \in Servers, status'[r].err # "none"
      PROVE  last'[r][status'[r].err] = "failed"
  <2>1. status[r] \in S!Status
    BY DEF SyncTyped
  <2>2. CASE r # s
    BY <1>1, <1>3, <2>1, <2>2 DEF S!ErrorIsOfLastRun, SyncTyped
  <2>3. CASE r = s /\ outcome = "failed"
    <3>1. status'[s].err = ph
      BY <2>1, <2>3 DEF S!Marked, S!Status
    <3>2. last'[s][ph] = outcome
      BY <1>1 DEF SyncTyped
    <3> QED
      BY <2>3, <3>1, <3>2
  <2>4. CASE r = s /\ outcome = "ok"
    <3>1. status'[s].err = status[s].err /\ status[s].err # ph
      BY <1>3, <2>1, <2>4 DEF S!Marked, S!Status
    <3>2. status[s].err \in S!Phases /\ last[s][status[s].err] = "failed"
      BY <1>3, <2>1, <2>4, <3>1 DEF S!Status, S!ErrorIsOfLastRun
    <3>3. last'[s][status[s].err] = last[s][status[s].err]
      BY <1>1, <3>1, <3>2 DEF SyncTyped
    <3> QED
      BY <2>4, <3>1, <3>2, <3>3
  <2> QED
    BY <2>2, <2>3, <2>4
<1> QED
  BY <1>2, <1>3 DEF S!ErrorIsOfLastRun

(* A run that is begun, goes on or ends.                                   *)
LEMMA RunTyped ==
  ASSUME SyncTyped, RunsApt, NEW t \in Tabs, NEW j \in S!Jobs, NEW run, Apt(j, run),
         job' = [job EXCEPT ![t][j] = run]
  PROVE  job' \in [Tabs -> [S!Jobs -> Jobbed]] /\ RunsApt'
<1>1. job' \in [Tabs -> [S!Jobs -> Jobbed]]
  BY DEF SyncTyped, Apt
<1>2. ASSUME NEW u \in Tabs, NEW k \in S!Jobs
      PROVE  job'[u][k] = IF u = t /\ k = j THEN run ELSE job[u][k]
  BY DEF SyncTyped
<1> QED
  BY <1>1, <1>2 DEF RunsApt

SyncInv == SyncTyped /\ RunsApt /\ S!PagesAgree /\ S!ErrorIsOfLastRun

(* A step of a run that writes the status of its server.                   *)
LEMMA RunWrites ==
  ASSUME SyncInv, NEW t \in Tabs, NEW j \in S!Jobs, NEW run, Apt(j, run), NEW s \in Servers,
         NEW new \in S!Status, S!SetStatus(t, s, new), job' = [job EXCEPT ![t][j] = run],
         UNCHANGED <<prefs, copy>>,
         \/ last' = last /\ new.err \in {status[s].err, "none"}
         \/ \E ph \in S!Phases, outcome \in {"ok", "failed"} :
               S!Recorded(s, ph, outcome) /\ new.err = S!Marked(s, ph, outcome).err
  PROVE  SyncInv'
<1>1. /\ status' \in [Servers -> S!Status] /\ shown' \in [Tabs -> S!Status]
      /\ events' \in [Tabs -> SUBSET {"prefs", "status"}]
      /\ status'[s] = new /\ \A r \in Servers \ {s} : status'[r] = status[r]
  BY SetStatusTyped DEF SyncInv
<1>2. job' \in [Tabs -> [S!Jobs -> Jobbed]] /\ RunsApt'
  BY RunTyped DEF SyncInv
<1>3. S!PagesAgree'
  BY SetStatusAgrees DEF SyncInv
<1>4. CASE last' = last /\ new.err \in {status[s].err, "none"}
  <2>1. S!ErrorIsOfLastRun'
    BY <1>1, <1>4, ErrorKept DEF SyncInv
  <2> QED
    BY <1>1, <1>2, <1>3, <1>4, <2>1 DEF SyncInv, SyncTyped
<1>5. ASSUME NEW ph \in S!Phases, NEW outcome \in {"ok", "failed"},
             S!Recorded(s, ph, outcome), new.err = S!Marked(s, ph, outcome).err
      PROVE  SyncInv'
  <2>1. /\ S!ErrorIsOfLastRun'
        /\ last' \in [Servers -> [S!Phases -> {"none", "ok", "failed"}]]
    BY <1>1, <1>5, ErrorRecorded DEF SyncInv
  <2> QED
    BY <1>1, <1>2, <1>3, <2>1 DEF SyncInv, SyncTyped
<1> QED
  BY <1>4, <1>5

(* One that does not.                                                      *)
LEMMA RunGoesOn ==
  ASSUME SyncInv, NEW t \in Tabs, NEW j \in S!Jobs, NEW run, Apt(j, run), job' = [job EXCEPT ![t][j] = run],
         UNCHANGED <<prefs, copy, status, shown, events, last>>
  PROVE  SyncInv'
<1>1. job' \in [Tabs -> [S!Jobs -> Jobbed]] /\ RunsApt'
  BY RunTyped DEF SyncInv
<1> QED
  BY <1>1 DEF SyncInv, SyncTyped, S!PagesAgree, S!StatusOf, S!ErrorIsOfLastRun

LEMMA SyncInitInv ==
  ASSUME "none" \notin Servers, S!Init
  PROVE  SyncInv
<1>1. S!DefaultPreferences \in S!Preferences /\ S!EmptyStatus \in S!Status /\ S!NoJob \in Jobbed
  BY DEF S!DefaultPreferences, S!Preferences, S!EmptyStatus, S!Status, S!NoJob, Jobbed, S!Steps
<1>2. SyncTyped
  BY <1>1 DEF S!Init, SyncTyped
<1>3. RunsApt
  BY <1>1 DEF S!Init, RunsApt, S!NoJob, Apt
<1>4. S!PagesAgree
  BY DEF S!Init, S!PagesAgree, S!StatusOf, S!Usable, S!DefaultPreferences, S!EmptyStatus
<1>5. S!ErrorIsOfLastRun
  BY DEF S!Init, S!ErrorIsOfLastRun, S!EmptyStatus
<1> QED
  BY <1>2, <1>3, <1>4, <1>5 DEF SyncInv

(* The preferences of a page: errors and runs stay as they are.            *)
LEMMA AdoptKeeps ==
  ASSUME SyncInv, NEW t \in Tabs, NEW p \in S!Preferences, NEW kinds \in SUBSET {"prefs", "status"},
         NEW handled, "status" \notin handled, S!Adopt(t, p, kinds, handled),
         prefs' = p, prefs' = prefs \/ "prefs" \in kinds, UNCHANGED <<job, last>>
  PROVE  SyncInv'
<1>1. /\ copy' \in [Tabs -> S!Preferences] /\ status' \in [Servers -> S!Status]
      /\ shown' \in [Tabs -> S!Status] /\ events' \in [Tabs -> SUBSET {"prefs", "status"}]
  BY AdoptTyped DEF SyncInv
<1>2. S!PagesAgree'
  BY AdoptAgrees DEF SyncInv
<1>3. ASSUME NEW s \in Servers
      PROVE  status'[s].err = status[s].err
  <2>1. status[s] \in S!Status
    BY DEF SyncInv, SyncTyped
  <2>2. CASE status' = status
    BY <2>2
  <2>3. CASE /\ S!Usable(p.url)
             /\ status' = [status EXCEPT ![p.url] = [S!StatusOf(p.url) EXCEPT !.bg = "idle"]]
    <3>1. S!StatusOf(p.url) = status[p.url]
      BY <2>3 DEF S!StatusOf
    <3> QED
      BY <2>1, <2>3, <3>1 DEF S!Status, SyncInv, SyncTyped
  <2> QED
    BY <2>2, <2>3 DEF S!Adopt
<1>4. S!ErrorIsOfLastRun'
  BY <1>3, ErrorKept DEF SyncInv
<1>5. SyncTyped'
  BY <1>1 DEF SyncInv, SyncTyped
<1>6. RunsApt'
  BY DEF SyncInv, RunsApt
<1> QED
  BY <1>2, <1>4, <1>5, <1>6 DEF SyncInv

LEMMA EditKeeps ==
  ASSUME SyncInv, NEW t \in Tabs, S!ToggleOn(t) \/ S!TypeUrl(t)
  PROVE  SyncInv'
<1>1. ASSUME NEW p \in S!Preferences, prefs' = p, S!Adopt(t, p, {"prefs"}, {}), UNCHANGED <<job, last>>
      PROVE  SyncInv'
  BY <1>1, AdoptKeeps
<1>2. copy[t] \in S!Preferences
  BY DEF SyncInv, SyncTyped
<1>3. CASE S!ToggleOn(t)
  <2>1. [copy[t] EXCEPT !["on"] = ~copy[t].on] \in S!Preferences
    BY <1>2 DEF S!Preferences
  <2> QED
    BY <1>1, <1>3, <2>1 DEF S!ToggleOn, S!Edit
<1>4. CASE S!TypeUrl(t)
  <2>1. PICK s \in Servers \cup {"none"} : S!Edit(t, "url", s)
    BY <1>4 DEF S!TypeUrl
  <2>2. [copy[t] EXCEPT !["url"] = s] \in S!Preferences
    BY <1>2 DEF S!Preferences
  <2> QED
    BY <1>1, <2>1, <2>2 DEF S!Edit
<1> QED
  BY <1>3, <1>4

LEMMA EventKeeps ==
  ASSUME SyncInv, NEW t \in Tabs, S!PreferencesEvent(t) \/ S!StatusEvent(t)
  PROVE  SyncInv'
<1>1. CASE S!PreferencesEvent(t)
  <2>1. prefs \in S!Preferences
    BY DEF SyncInv, SyncTyped
  <2> QED
    BY <1>1, <2>1, AdoptKeeps DEF S!PreferencesEvent
<1>2. CASE S!StatusEvent(t)
  <2>1. S!StatusOf(copy[t].url) \in S!Status
    BY StatusTyped DEF SyncInv, SyncTyped, S!Preferences
  <2>2. SyncTyped'
    BY <1>2, <2>1 DEF S!StatusEvent, SyncInv, SyncTyped
  <2>3. ASSUME NEW u \in Tabs
        PROVE  /\ "prefs" \notin events'[u] => copy[u] = prefs
               /\ "status" \notin events'[u] => shown'[u] = S!StatusOf(copy[u].url)
    BY <1>2 DEF S!StatusEvent, SyncInv, SyncTyped, S!PagesAgree
  <2>4. S!PagesAgree'
    BY <1>2, <2>3 DEF S!StatusEvent, S!PagesAgree, S!StatusOf
  <2> QED
    BY <1>2, <2>2, <2>4 DEF S!StatusEvent, SyncInv, RunsApt, S!ErrorIsOfLastRun
<1> QED
  BY <1>1, <1>2

LEMMA NoJobTyped ==
  ASSUME NEW j
  PROVE  Apt(j, S!NoJob)
BY DEF S!NoJob, Jobbed, S!Steps, Apt

LEMMA PressKeeps ==
  ASSUME SyncInv, NEW t \in Tabs, NEW j \in S!Jobs, S!Press(t, j)
  PROVE  SyncInv'
<1> DEFINE step == CASE j = "test" -> "connection" [] j = "push" -> "push" [] OTHER -> "pull"
           run == [S!NoJob EXCEPT !.server = copy[t].url, !.step = step]
<1>1. step \in S!Steps
  BY DEF S!Steps
<1>2. copy[t].url \in Servers
  BY DEF SyncInv, SyncTyped, S!Preferences, S!Press, S!Usable
<1>3. Apt(j, run)
  BY <1>1, <1>2 DEF Jobbed, S!NoJob, Apt, S!Phases, S!Jobs
<1>4. /\ job' = [job EXCEPT ![t][j] = run]
      /\ UNCHANGED <<prefs, copy, status, shown, events, last>>
  BY DEF S!Press
<1> HIDE DEF run
<1> QED
  BY <1>2, <1>3, <1>4, RunGoesOn

LEMMA PhaseEndsKeeps ==
  ASSUME SyncInv, NEW t \in Tabs, NEW j \in S!Jobs \ {"triggered"}, S!PhaseEnds(t, j)
  PROVE  SyncInv'
<1> DEFINE run == job[t][j]
           next == IF j = "dry" /\ run.step = "pull" THEN [run EXCEPT !.step = "push"] ELSE S!NoJob
<1>1. run \in Jobbed /\ run.step # "none" /\ run.server \in Servers
  BY DEF SyncInv, Apt, RunsApt, S!PhaseEnds
<1>2. PICK outcome \in {"ok", "failed", "unmarked"} :
        /\ IF outcome = "unmarked" THEN UNCHANGED <<status, shown, events>>
           ELSE S!SetStatus(t, run.server, S!Marked(run.server, run.step, outcome))
        /\ S!Recorded(run.server, run.step, outcome)
  BY DEF S!PhaseEnds
<1>3. Apt(j, next)
  BY <1>1, NoJobTyped DEF Jobbed, S!Steps, Apt, S!Phases
<1>4. job' = [job EXCEPT ![t][j] = next] /\ UNCHANGED <<prefs, copy>>
  BY DEF S!PhaseEnds
<1>5. CASE outcome = "unmarked"
  <2>1. UNCHANGED <<status, shown, events, last>>
    BY <1>2, <1>5 DEF S!Recorded
  <2> HIDE DEF next
  <2> QED
    BY <1>3, <1>4, <2>1, RunGoesOn
<1>6. CASE outcome # "unmarked"
  <2>1. run.step \in S!Phases
    BY <1>1 DEF Apt, RunsApt, SyncInv
  <2>2. S!Marked(run.server, run.step, outcome) \in S!Status
    BY <1>1, <2>1, MarkedTyped DEF SyncInv
  <2> HIDE DEF next, run
  <2> QED
    BY <1>1, <1>2, <1>3, <1>4, <1>6, <2>1, <2>2, RunWrites
<1> QED
  BY <1>5, <1>6

LEMMA TriggerKeeps ==
  ASSUME SyncInv, NEW t \in Tabs, S!Trigger(t) \/ S!TriggerRefused(t)
  PROVE  SyncInv'
<1>0. "triggered" \in S!Jobs
  BY DEF S!Jobs
<1>1. CASE S!Trigger(t)
  <2> DEFINE s == copy[t].url
             run == [S!NoJob EXCEPT !.server = s, !.step = IF lock[s] = <<>> THEN "push" ELSE "refused"]
             new == [status[s] EXCEPT !.bg = "running"]
  <2>1. s \in Servers
    BY <1>1 DEF SyncInv, SyncTyped, S!Preferences, S!Trigger, S!Usable
  <2>2. Apt("triggered", run)
    BY <2>1 DEF Jobbed, S!NoJob, S!Steps, Apt
  <2>3. new \in S!Status /\ new.err = status[s].err
    <3>1. status[s] \in S!Status
      BY <2>1 DEF SyncInv, SyncTyped
    <3> QED
      BY <3>1 DEF S!Status
  <2>4. /\ job' = [job EXCEPT ![t]["triggered"] = run] /\ S!SetStatus(t, s, new)
        /\ UNCHANGED <<prefs, copy, last>>
    BY <1>1 DEF S!Trigger
  <2> HIDE DEF run, new, s
  <2> QED
    BY <1>0, <2>1, <2>2, <2>3, <2>4, RunWrites
<1>2. CASE S!TriggerRefused(t)
  <2> DEFINE s == job[t]["triggered"].server
             new == [status[s] EXCEPT !.bg = "locked"]
  <2>1. s \in Servers
    BY <1>0, <1>2 DEF SyncInv, RunsApt, Apt, S!TriggerRefused
  <2>2. new \in S!Status /\ new.err = status[s].err
    BY <2>1 DEF SyncInv, SyncTyped, S!Status
  <2>3. /\ job' = [job EXCEPT ![t]["triggered"] = S!NoJob] /\ S!SetStatus(t, s, new)
        /\ UNCHANGED <<prefs, copy, last>>
    BY <1>2 DEF S!TriggerRefused
  <2> HIDE DEF new, s
  <2> QED
    BY <1>0, <2>1, <2>2, <2>3, NoJobTyped, RunWrites
<1> QED
  BY <1>1, <1>2

LEMMA TriggeredPhaseEndsKeeps ==
  ASSUME SyncInv, NEW t \in Tabs, S!TriggeredPhaseEnds(t)
  PROVE  SyncInv'
<1> DEFINE run == job[t]["triggered"]
           s == run.server
           Next1(step) == IF step = "none" THEN S!NoJob ELSE [run EXCEPT !.step = step]
<1>0. "triggered" \in S!Jobs /\ UNCHANGED <<prefs, copy>>
  BY DEF S!Jobs, S!TriggeredPhaseEnds
<1>1. run \in Jobbed /\ run.step # "none" /\ s \in Servers
  BY <1>0 DEF SyncInv, Apt, RunsApt, S!TriggeredPhaseEnds
<1>2. status[s] \in S!Status /\ S!Idle(status[s]) \in S!Status /\ S!Idle(status[s]).err = status[s].err
  BY <1>1, IdleTyped DEF SyncInv, SyncTyped
<1>3. ASSUME NEW step \in S!Steps
      PROVE  Apt("triggered", Next1(step))
  BY <1>1, NoJobTyped DEF Jobbed, Apt
<1>4. ASSUME NEW ph \in S!Phases, NEW outcome \in {"ok", "failed"}
      PROVE  /\ S!Marked(s, ph, outcome) \in S!Status
             /\ S!Idle(S!Marked(s, ph, outcome)) \in S!Status
             /\ S!Idle(S!Marked(s, ph, outcome)).err = S!Marked(s, ph, outcome).err
  BY <1>1, MarkedTyped, IdleTyped DEF SyncInv
<1>5. \/ \E step \in S!Steps, ph \in S!Phases, outcome \in {"ok", "failed"} :
         \E new \in {S!Marked(s, ph, outcome), S!Idle(S!Marked(s, ph, outcome))} :
            /\ job' = [job EXCEPT ![t]["triggered"] = Next1(step)]
            /\ S!SetStatus(t, s, new) /\ S!Recorded(s, ph, outcome)
      \/ \E step \in S!Steps, new \in {status[s], S!Idle(status[s])} :
            /\ job' = [job EXCEPT ![t]["triggered"] = Next1(step)]
            /\ S!SetStatus(t, s, new) /\ last' = last
  BY DEF S!TriggeredPhaseEnds, S!Steps, S!Phases
<1> HIDE DEF run, s, Next1
<1>6. ASSUME NEW step \in S!Steps, NEW ph \in S!Phases, NEW outcome \in {"ok", "failed"},
             NEW new \in {S!Marked(s, ph, outcome), S!Idle(S!Marked(s, ph, outcome))},
             job' = [job EXCEPT ![t]["triggered"] = Next1(step)],
             S!SetStatus(t, s, new), S!Recorded(s, ph, outcome)
      PROVE  SyncInv'
  <2>1. new \in S!Status /\ new.err = S!Marked(s, ph, outcome).err
    BY <1>4
  <2> QED
    BY <1>0, <1>1, <1>3, <1>6, <2>1, RunWrites
<1>7. ASSUME NEW step \in S!Steps, NEW new \in {status[s], S!Idle(status[s])},
             job' = [job EXCEPT ![t]["triggered"] = Next1(step)],
             S!SetStatus(t, s, new), last' = last
      PROVE  SyncInv'
  <2>1. new \in S!Status /\ new.err = status[s].err
    BY <1>2
  <2> QED
    BY <1>0, <1>1, <1>3, <1>7, <2>1, RunWrites
<1> QED
  BY <1>5, <1>6, <1>7

LEMMA TriggerAnsweredKeeps ==
  ASSUME SyncInv, NEW t \in Tabs, S!TriggerAnswered(t)
  PROVE  SyncInv'
<1> DEFINE run == job[t]["triggered"]
           s == run.server
           again == [run EXCEPT !.step = "push", !.confirmed = TRUE]
<1>0. "triggered" \in S!Jobs /\ UNCHANGED <<prefs, copy, last>>
  BY DEF S!Jobs, S!TriggerAnswered
<1>1. run \in Jobbed /\ s \in Servers
  BY <1>0 DEF SyncInv, Apt, RunsApt, S!TriggerAnswered
<1>2. S!Idle(status[s]) \in S!Status /\ S!Idle(status[s]).err = status[s].err
  BY <1>1, IdleTyped DEF SyncInv, SyncTyped
<1>3. Apt("triggered", S!NoJob) /\ Apt("triggered", again)
  BY <1>1, NoJobTyped DEF Jobbed, Apt, S!Steps
<1>4. \/ S!SetStatus(t, s, S!Idle(status[s])) /\ job' = [job EXCEPT ![t]["triggered"] = S!NoJob]
      \/ /\ \E next \in {again, S!NoJob} : job' = [job EXCEPT ![t]["triggered"] = next]
         /\ UNCHANGED <<status, shown, events>>
  BY DEF S!TriggerAnswered
<1> HIDE DEF run, s, again
<1>5. CASE S!SetStatus(t, s, S!Idle(status[s])) /\ job' = [job EXCEPT ![t]["triggered"] = S!NoJob]
  BY <1>0, <1>1, <1>2, <1>3, <1>5, RunWrites
<1>6. ASSUME NEW next \in {again, S!NoJob}, job' = [job EXCEPT ![t]["triggered"] = next],
             UNCHANGED <<status, shown, events>>
      PROVE  SyncInv'
  BY <1>0, <1>3, <1>6, RunGoesOn
<1> QED
  BY <1>4, <1>5, <1>6

LEMMA ClearStatusKeeps ==
  ASSUME SyncInv, NEW t \in Tabs, S!ClearStatus(t)
  PROVE  SyncInv'
<1>1. PICK s \in Servers : S!SetStatus(t, s, S!EmptyStatus) /\ UNCHANGED <<prefs, copy, job, last>>
  BY DEF SyncInv, SyncTyped, S!Preferences, S!ClearStatus, S!Usable
<1>2. S!EmptyStatus \in S!Status /\ S!EmptyStatus.err = "none"
  BY DEF S!EmptyStatus, S!Status
<1>3. /\ status' \in [Servers -> S!Status] /\ shown' \in [Tabs -> S!Status]
      /\ events' \in [Tabs -> SUBSET {"prefs", "status"}]
      /\ status'[s] = S!EmptyStatus /\ \A r \in Servers \ {s} : status'[r] = status[r]
  BY <1>1, <1>2, SetStatusTyped DEF SyncInv
<1>4. S!PagesAgree'
  BY <1>1, <1>2, SetStatusAgrees DEF SyncInv
<1>5. S!ErrorIsOfLastRun'
  BY <1>1, <1>2, <1>3, ErrorKept DEF SyncInv
<1>6. SyncTyped' /\ RunsApt'
  BY <1>1, <1>3 DEF SyncInv, SyncTyped, RunsApt
<1> QED
  BY <1>4, <1>5, <1>6 DEF SyncInv

LEMMA SyncReloadKeeps ==
  ASSUME SyncInv, NEW t \in Tabs, S!Reload(t)
  PROVE  SyncInv'
<1> DEFINE idles == ~prefs.on /\ S!Usable(prefs.url)
           now == IF idles THEN S!Idle(S!StatusOf(prefs.url)) ELSE S!StatusOf(prefs.url)
           all == IF idles THEN {"status"} ELSE {}
<1>1. /\ copy' = [copy EXCEPT ![t] = prefs] /\ shown' = [shown EXCEPT ![t] = now]
      /\ status' = IF idles THEN [status EXCEPT ![prefs.url] = now] ELSE status
      /\ events' = S!Noticed(t, all, {"prefs", "status"})
      /\ job' = [job EXCEPT ![t] = [j \in S!Jobs |-> S!NoJob]] /\ UNCHANGED <<prefs, last>>
  BY DEF S!Reload
<1>2. /\ prefs.url \in Servers \cup {"none"} /\ S!StatusOf(prefs.url) \in S!Status
      /\ idles => prefs.url \in Servers /\ S!StatusOf(prefs.url) = status[prefs.url]
  BY StatusTyped DEF SyncInv, SyncTyped, S!Preferences, S!Usable, S!StatusOf
<1>3. now \in S!Status /\ now.err = S!StatusOf(prefs.url).err
  BY <1>2, IdleTyped
<1>4. events' \in [Tabs -> SUBSET {"prefs", "status"}]
  BY <1>1, NoticedTyped DEF SyncInv
<1>5. RunsApt' /\ job' \in [Tabs -> [S!Jobs -> Jobbed]]
  BY <1>1, NoJobTyped DEF SyncInv, SyncTyped, RunsApt, Apt
<1>6. SyncTyped'
  <2> HIDE DEF now, idles, all
  <2> QED
    BY <1>1, <1>3, <1>4, <1>5 DEF SyncInv, SyncTyped
<1>7. ASSUME NEW s \in Servers
      PROVE  status'[s].err = status[s].err
  <2>1. CASE idles
    <3> HIDE DEF now
    <3> QED
      BY <1>1, <1>2, <1>3, <2>1 DEF SyncInv, SyncTyped
  <2>2. CASE ~idles
    BY <1>1, <2>2
  <2> QED
    BY <2>1, <2>2
<1>8. S!ErrorIsOfLastRun'
  BY <1>1, <1>7, ErrorKept DEF SyncInv
<1>9. ASSUME NEW u \in Tabs
      PROVE  /\ "prefs" \notin events'[u] => copy'[u] = prefs
             /\ "status" \notin events'[u] => shown'[u] = S!StatusOf(copy[u].url)'
  <2>1. CASE u # t
    <3>1. /\ events'[u] = events[u] \cup all /\ copy'[u] = copy[u] /\ shown'[u] = shown[u]
      BY <1>1, <2>1 DEF S!Noticed, SyncInv, SyncTyped
    <3>2. "status" \notin events'[u] => status' = status
      BY <1>1, <3>1
    <3> QED
      BY <3>1, <3>2 DEF SyncInv, S!PagesAgree, S!StatusOf
  <2>2. CASE u = t
    <3>1. copy'[t] = prefs /\ shown'[t] = now
      BY <1>1 DEF SyncInv, SyncTyped
    <3>2. CASE idles
      BY <1>1, <1>2, <2>2, <3>1, <3>2 DEF S!StatusOf, S!Usable, SyncInv, SyncTyped
    <3>3. CASE ~idles
      BY <1>1, <2>2, <3>1, <3>3 DEF S!StatusOf
    <3> QED
      BY <3>2, <3>3
  <2> QED
    BY <2>1, <2>2
<1>10. S!PagesAgree'
  BY <1>1, <1>9 DEF S!PagesAgree
<1> QED
  BY <1>5, <1>6, <1>8, <1>10 DEF SyncInv

LEMMA SyncNextKeeps ==
  ASSUME SyncInv, S!Next
  PROVE  SyncInv'
<1>1. PICK t \in Tabs :
        \/ S!ToggleOn(t) \/ S!TypeUrl(t)
        \/ S!PreferencesEvent(t) \/ S!StatusEvent(t)
        \/ \E j \in S!Jobs \ {"triggered"} : S!Press(t, j) \/ S!PhaseEnds(t, j)
        \/ S!Trigger(t) \/ S!TriggerRefused(t) \/ S!TriggeredPhaseEnds(t) \/ S!TriggerAnswered(t)
        \/ S!ClearStatus(t) \/ S!Reload(t)
  BY DEF S!Next
<1> QED
  BY <1>1, EditKeeps, EventKeeps, PressKeeps, PhaseEndsKeeps, TriggerKeeps,
     TriggeredPhaseEndsKeeps, TriggerAnsweredKeeps, ClearStatusKeeps, SyncReloadKeeps


LEMMA SyncStutterKeeps ==
  ASSUME SyncInv, UNCHANGED sync
  PROVE  SyncInv'
BY DEF SyncInv, SyncTyped, RunsApt, S!PagesAgree, S!StatusOf, S!ErrorIsOfLastRun, sync

LEMMA SyncHolds == PagesSpec => []SyncInv
<1>1. PagesInit => SyncInv
  BY SyncInitInv, SyncSettingsAssumption DEF PagesInit
<1>2. SyncInv /\ [PagesNext]_allVars => SyncInv'
  BY StepsOfParts, SyncNextKeeps, SyncStutterKeeps
<1> QED
  BY <1>1, <1>2, PTL DEF PagesSpec

(* A page without a storage event to handle shows what localStorage has,    *)
(* whatever the other pages and the runs for other servers write.          *)
THEOREM PagesAlwaysAgree == PagesSpec => []PagesAgree
<1>1. SyncInv => PagesAgree
  BY DEF SyncInv, PagesAgree
<1> QED
  BY <1>1, SyncHolds, PTL

(* An error that is shown for a phase is one in which the last run of it    *)
(* that says how it ended has ended.                                       *)
THEOREM ErrorAlwaysOfLastRun == PagesSpec => []ErrorIsOfLastRun
<1>1. SyncInv => ErrorIsOfLastRun
  BY DEF SyncInv, ErrorIsOfLastRun
<1> QED
  BY <1>1, SyncHolds, PTL


-------------------------------------------------------------------------------
(* The inbox. What the list has as archived is archived or deleted at the  *)
(* server, since nothing becomes unread again and ids are not reused. A    *)
(* request to delete is therefore about what could not be loaded, or what  *)
(* nobody has to read any more, and stays so until the server gets it.     *)
Handled(n) == notes[n] \in {"archived", "deleted"}

NoteInv(n) ==
    /\ stage[n] = "error" => n \in failed
    /\ stage[n] # "absent" => noteList[n] \in N!Present
    /\ noteList[n] = "archived" => Handled(n)
    /\ <<"delete", n>> \in requests => n \in failed \/ Handled(n)
    /\ n \in unread => n \in failed

NotesInv ==
    /\ notes \in [Notes -> N!Statuses] /\ noteList \in [Notes -> N!Statuses]
    /\ stage \in [Notes -> N!Stages]
    /\ unread \subseteq Notes
    /\ \A n \in Notes : NoteInv(n)

LEMMA NotesInitInv == N!Init => NotesInv
BY DEF N!Init, NotesInv, NoteInv, N!Statuses, N!Stages, N!Present

(* What is shown of a list is in it, and shows an error only if it did.    *)
LEMMA MessagesShow ==
  ASSUME NEW o, NEW f, NEW l, stage \in [Notes -> N!Stages], N!Messages(o, f, l)
  PROVE  /\ stage' \in [Notes -> N!Stages]
         /\ \A n \in Notes : /\ stage'[n] # "absent" => l[n] \in N!Present
                             /\ stage'[n] = "error" => stage[n] = "error"
BY DEF N!Messages, N!Stages

LEMMA NotesChange ==
  ASSUME NotesInv, NEW n \in Notes, N!Comment(n) \/ N!DeleteMemo(n) \/ N!Elsewhere(n)
  PROVE  NotesInv'
<1>1. notes' \in [Notes -> N!Statuses]
  BY DEF NotesInv, N!Comment, N!DeleteMemo, N!Elsewhere, N!Statuses, N!Present
<1>2. \A m \in Notes : Handled(m) => Handled(m)'
  BY DEF NotesInv, N!Comment, N!DeleteMemo, N!Elsewhere, Handled, N!Present
<1>3. UNCHANGED <<noteList, stage, requests, failed, unread>>
  BY DEF N!Comment, N!DeleteMemo, N!Elsewhere
<1> QED
  BY <1>1, <1>2, <1>3 DEF NotesInv, NoteInv

LEMMA NotesListed ==
  ASSUME NotesInv, N!Listed
  PROVE  NotesInv'
<1>1. /\ noteList' = notes /\ N!Messages(inbox, tab, notes)
      /\ UNCHANGED <<notes, requests, failed, unread>>
  BY DEF N!Listed
<1>2. /\ stage' \in [Notes -> N!Stages]
      /\ \A n \in Notes : /\ stage'[n] # "absent" => notes[n] \in N!Present
                          /\ stage'[n] = "error" => stage[n] = "error"
  BY <1>1, MessagesShow DEF NotesInv
<1> QED
  BY <1>1, <1>2 DEF NotesInv, NoteInv, Handled

LEMMA NotesPage ==
  ASSUME NotesInv,
         \/ N!Ask \/ N!ListFails \/ N!OpenPage \/ \E f \in N!Filters : N!SetFilter(f)
         \/ \E r \in requests : N!RequestFails(r)
  PROVE  NotesInv'
<1>1. /\ UNCHANGED <<notes, noteList, failed, unread>> /\ requests' \subseteq requests
      /\ stage' = stage \/ \E o, f : N!Messages(o, f, noteList)
  BY DEF N!Ask, N!ListFails, N!OpenPage, N!SetFilter, N!RequestFails
<1>2. /\ stage' \in [Notes -> N!Stages]
      /\ \A n \in Notes : /\ stage'[n] # "absent" => noteList[n] \in N!Present
                          /\ stage'[n] = "error" => stage[n] = "error"
  BY <1>1, MessagesShow DEF NotesInv, NoteInv
<1> QED
  BY <1>1, <1>2 DEF NotesInv, NoteInv, Handled

LEMMA NotesLoad ==
  ASSUME NotesInv, NEW n \in Notes, N!Loaded(n) \/ N!NotLoaded(n)
  PROVE  NotesInv'
<1>1. /\ UNCHANGED <<notes, noteList, requests, unread>> /\ failed \subseteq failed'
      /\ stage[n] = "loading"
      /\ \/ stage' = [stage EXCEPT ![n] = "shown"]
         \/ stage' = [stage EXCEPT ![n] = "error"] /\ n \in failed'
  BY DEF N!Loaded, N!NotLoaded
<1> QED
  BY <1>1 DEF NotesInv, NoteInv, Handled, N!Stages

LEMMA NotesButtons ==
  ASSUME NotesInv, NEW n \in Notes, N!Archive(n) \/ N!Delete(n) \/ N!Navigate(n)
  PROVE  NotesInv'
<1>1. UNCHANGED <<notes, noteList, failed, unread>>
  BY DEF N!Archive, N!Delete, N!Navigate
<1>2. \A m \in Notes : <<"delete", m>> \in requests' =>
        <<"delete", m>> \in requests \/ (m = n /\ N!Deletable(n))
  <2>1. \A m \in Notes : <<"delete", m>> # <<"archive", n>>
    OBVIOUS
  <2>2. \A m \in Notes : <<"delete", m>> = <<"delete", n>> => m = n
    OBVIOUS
  <2>3. \/ requests' = requests \/ requests' = requests \cup {<<"archive", n>>}
        \/ requests' = requests \cup {<<"delete", n>>} /\ N!Deletable(n)
    BY DEF N!Archive, N!Delete, N!Navigate
  <2> QED
    BY <2>1, <2>2, <2>3
<1>3. N!Deletable(n) => n \in failed \/ Handled(n)
  BY DEF N!Deletable, NotesInv, NoteInv, N!Present
<1>4. /\ stage' \in [Notes -> N!Stages]
      /\ \A m \in Notes : /\ stage'[m] # "absent" => noteList[m] \in N!Present
                          /\ stage'[m] = "error" => stage[m] = "error"
  <2>1. stage' = stage \/ N!Messages(FALSE, tab, noteList)
    BY DEF N!Archive, N!Delete, N!Navigate
  <2> QED
    BY <2>1, MessagesShow DEF NotesInv, NoteInv
<1> QED
  BY <1>1, <1>2, <1>3, <1>4 DEF NotesInv, NoteInv, Handled

LEMMA NotesAnswered ==
  ASSUME NotesInv, NEW n \in Notes, N!Archived(n) \/ N!Deleted(n)
  PROVE  NotesInv'
<1>1. UNCHANGED <<noteList, stage, failed>> /\ requests' \subseteq requests
  BY DEF N!Archived, N!Deleted
<1>2. notes' \in [Notes -> N!Statuses] /\ \A m \in Notes : Handled(m) => Handled(m)'
  BY DEF NotesInv, N!Archived, N!Deleted, Handled, N!Statuses, N!Present
<1>3. unread' \subseteq Notes /\ \A m \in unread' : m \in failed
  BY DEF NotesInv, NoteInv, N!Archived, N!Deleted, Handled
<1> QED
  BY <1>1, <1>2, <1>3 DEF NotesInv, NoteInv

LEMMA NotesNextKeeps ==
  ASSUME NotesInv, [N!Next]_notices
  PROVE  NotesInv'
<1>1. CASE N!Next
  BY <1>1, NotesChange, NotesListed, NotesPage, NotesLoad, NotesButtons, NotesAnswered DEF N!Next
<1>2. CASE UNCHANGED notices
  BY <1>2 DEF notices, NotesInv, NoteInv, Handled
<1> QED
  BY <1>1, <1>2

(* A notification is deleted unread only if a page could not load it, for  *)
(* any notifications and however many changes and failures there are: the  *)
(* buttons go by a list as old as it likes, and the requests they send     *)
(* reach the server when it has changed.                                   *)
THEOREM UnreadAlwaysKept == PagesSpec => []UnreadAreKept
<1>1. PagesInit => NotesInv
  BY NotesInitInv DEF PagesInit
<1>2. NotesInv /\ [PagesNext]_allVars => NotesInv'
  BY StepsOfParts, NotesNextKeeps
<1>3. NotesInv => UnreadAreKept
  BY DEF NotesInv, NoteInv, UnreadAreKept, N!UnreadAreKept
<1> QED
  BY <1>1, <1>2, <1>3, PTL DEF PagesSpec
-------------------------------------------------------------------------------
(* Induction over lists. A set of naturals that is not empty has a least    *)
(* element ...                                                              *)
LEMMA LeastExists ==
  ASSUME NEW Z \in SUBSET Nat, Z # {}
  PROVE  \E x \in Z : \A y \in Z : x <= y
<1> DEFINE R == OpToRel(<, Nat)
<1>1. PICK x \in Z : \A y \in Z : ~(<<y, x>> \in R)
  <2> HIDE DEF R
  <2>1. IsWellFoundedOn(R, Nat)
    BY NatLessThanWellFounded DEF R
  <2> QED
    BY <2>1, WFMin
<1>2. \A y \in Z : ~(y < x)
  BY <1>1 DEF OpToRel
<1> QED
  BY <1>2

(* ... so that what holds of 0 and goes on to the next number holds of all. *)
LEMMA UpTo ==
  ASSUME NEW n \in Nat, NEW Good \in SUBSET (0..n), 0 \in Good,
         \A i \in 1..n : i - 1 \in Good => i \in Good
  PROVE  Good = 0..n
<1> SUFFICES ASSUME (0..n) \ Good # {} PROVE FALSE
  OBVIOUS
<1>1. (0..n) \ Good \in SUBSET Nat
  OBVIOUS
<1>2. PICK i \in (0..n) \ Good : \A j \in (0..n) \ Good : i <= j
  BY <1>1, LeastExists
<1>3. i \in 1..n /\ i - 1 \in 0..n /\ i - 1 < i
  BY <1>2
<1> QED
  BY <1>2, <1>3

(* A function whose values are each made of the one before exists ...       *)
Follows(f, base, step, n) == f[0] = base /\ \A i \in 1..n : f[i] = step[i][f[i - 1]]

LEMMA RecursionExists ==
  ASSUME NEW V, NEW base \in V, NEW n \in Nat, NEW step \in [1..n -> [V -> V]]
  PROVE  \E f \in [0..n -> V] : Follows(f, base, step, n)
<1> DEFINE Good == {m \in 0..n : \E f \in [0..m -> V] : Follows(f, base, step, m)}
<1>1. 0 \in Good
  <2>1. [i \in 0..0 |-> base] \in [0..0 -> V] /\ Follows([i \in 0..0 |-> base], base, step, 0)
    BY DEF Follows
  <2> QED
    BY <2>1
<1>2. ASSUME NEW m \in 1..n, m - 1 \in Good
      PROVE  m \in Good
  <2>1. PICK f \in [0..(m - 1) -> V] : Follows(f, base, step, m - 1)
    BY <1>2
  <2> DEFINE g == [i \in 0..m |-> IF i = m THEN step[m][f[m - 1]] ELSE f[i]]
  <2>2. g \in [0..m -> V]
    BY <1>2
  <2>3. Follows(g, base, step, m)
    <3>1. g[0] = base
      BY <1>2, <2>1 DEF Follows
    <3>2. ASSUME NEW i \in 1..m PROVE g[i] = step[i][g[i - 1]]
      <4>1. g[i - 1] = f[i - 1]
        BY <3>2
      <4>2. CASE i = m
        BY <4>1, <4>2
      <4>3. CASE i # m
        <5>1. i \in 1..(m - 1)
          BY <4>3
        <5>2. f[i] = step[i][f[i - 1]]
          BY <2>1, <5>1 DEF Follows
        <5> QED
          BY <4>1, <4>3, <5>2
      <4> QED
        BY <4>2, <4>3
    <3> QED
      BY <3>1, <3>2 DEF Follows
  <2> QED
    BY <2>2, <2>3
<1>3. Good = 0..n
  <2>1. Good \in SUBSET (0..n)
    OBVIOUS
  <2> HIDE DEF Good
  <2> QED
    BY <1>1, <1>2, <2>1, UpTo
<1>4. n \in Good
  BY <1>3
<1> QED
  BY <1>4

LEMMA Before ==
  ASSUME NEW n \in Nat, NEW k \in 1..n
  PROVE  k \in 0..n /\ k - 1 \in 0..n /\ k # 0 /\ k \in Nat /\ k - 1 \in Nat
OBVIOUS

-------------------------------------------------------------------------------
(* Suggestions. What of a list is kept are members of the other set, as     *)
(* many as both have in common.                                             *)
KeepSteps(offer, wants) ==
    [i \in 1..Len(offer) |-> [s \in Seq(Offers) |-> IF offer[i] \in wants THEN Append(s, offer[i]) ELSE s]]

KeptOf(s, offer, wants, n) ==
    /\ s \in Seq(Offers) /\ \A k \in 1..Len(s) : s[k] \in wants
    /\ IsFiniteSet({offer[j] : j \in 1..n} \cap wants)
    /\ Len(s) = Cardinality({offer[j] : j \in 1..n} \cap wants)

LEMMA KeptAppend ==
  ASSUME NEW offer \in Seq(Offers), T!IsInjective(offer), NEW wants, NEW i \in 1..Len(offer),
         NEW s, KeptOf(s, offer, wants, i - 1)
  PROVE  KeptOf(IF offer[i] \in wants THEN Append(s, offer[i]) ELSE s, offer, wants, i)
<1> DEFINE before == {offer[j] : j \in 1..(i - 1)} \cap wants
           after == {offer[j] : j \in 1..i} \cap wants
<1>1. Len(offer) \in Nat /\ i \in Nat /\ offer[i] \in Offers
  OBVIOUS
<1>2. 1..i = (1..(i - 1)) \cup {i}
  BY <1>1
<1>3. after = before \cup ({offer[i]} \cap wants)
  BY <1>2
<1>4. \A j \in 1..(i - 1) : offer[j] # offer[i]
  <2> TAKE j \in 1..(i - 1)
  <2>1. j \in DOMAIN offer /\ i \in DOMAIN offer /\ j # i
    BY <1>1
  <2> QED
    BY <2>1 DEF T!IsInjective
<1>5. offer[i] \notin before
  BY <1>4
<1>6. s \in Seq(Offers) /\ (\A k \in 1..Len(s) : s[k] \in wants) /\ IsFiniteSet(before) /\ Len(s) = Cardinality(before)
  BY DEF KeptOf
<1> HIDE DEF before, after
<1>7. CASE offer[i] \in wants
  <2>1. PICK t : t = Append(s, offer[i])
    OBVIOUS
  <2>2. after = before \cup {offer[i]}
    BY <1>3, <1>7
  <2>3. IsFiniteSet(after) /\ Cardinality(after) = Cardinality(before) + 1
    BY <1>5, <1>6, <2>2, FS_AddElement
  <2>4. PICK n \in Nat : n = Len(s)
    BY <1>6
  <2>5. t \in Seq(Offers) /\ Len(t) = n + 1 /\ t[n + 1] = offer[i] /\ \A k \in 1..n : t[k] = s[k]
    BY <1>1, <1>6, <2>1, <2>4, AppendProperties
  <2>6. ASSUME NEW k \in 1..Len(t) PROVE t[k] \in wants
    <3>1. k = n + 1 \/ k \in 1..n
      BY <2>4, <2>5
    <3> QED
      BY <1>6, <1>7, <2>4, <2>5, <3>1
  <2> QED
    BY <1>6, <1>7, <2>1, <2>3, <2>4, <2>5, <2>6 DEF KeptOf, after
<1>8. CASE offer[i] \notin wants
  <2>1. after = before
    BY <1>3, <1>8
  <2> QED
    BY <1>6, <1>8, <2>1 DEF KeptOf, after
<1> QED
  BY <1>7, <1>8

LEMMA KeepIs ==
  ASSUME NEW offer \in Seq(Offers), T!IsInjective(offer), NEW wants
  PROVE  KeptOf(T!Keep(offer, wants), offer, wants, Len(offer))
<1>0. PICK n \in Nat : n = Len(offer)
  OBVIOUS
<1>1. PICK none : none = <<>>
  OBVIOUS
<1> DEFINE Kept(i, s) == IF offer[i] \in wants THEN Append(s, offer[i]) ELSE s
           Eq(f) == f = [i \in 0..n |-> IF i = 0 THEN none ELSE Kept(i, f[i - 1])]
           kept == CHOOSE f : Eq(f)
           step == [i \in 1..n |-> [s \in Seq(Offers) |-> Kept(i, s)]]
<1>2. KeptOf(none, offer, wants, 0)
  <2>1. none \in Seq(Offers) /\ Len(none) = 0 /\ 1..Len(none) = {}
    BY <1>1
  <2>2. {offer[j] : j \in 1..0} \cap wants = {}
    OBVIOUS
  <2> QED
    BY <2>1, <2>2, FS_EmptySet DEF KeptOf
<1>3. ASSUME NEW i \in 1..n, NEW s, KeptOf(s, offer, wants, i - 1)
      PROVE  KeptOf(Kept(i, s), offer, wants, i)
  BY <1>0, <1>3, KeptAppend
<1>4. ASSUME NEW i \in 1..n, NEW s \in Seq(Offers) PROVE Kept(i, s) \in Seq(Offers)
  <2>1. offer[i] \in Offers
    BY <1>0
  <2> QED
    BY <2>1, AppendProperties
<1> HIDE DEF Kept
<1>5. step \in [1..n -> [Seq(Offers) -> Seq(Offers)]]
  <2>1. \A i \in 1..n : [s \in Seq(Offers) |-> Kept(i, s)] \in [Seq(Offers) -> Seq(Offers)]
    BY <1>4
  <2> QED
    BY <2>1
<1>6. PICK f \in [0..n -> Seq(Offers)] : Follows(f, none, step, n)
  <2>1. none \in Seq(Offers)
    BY <1>1
  <2> HIDE DEF step
  <2> QED
    BY <1>5, <2>1, RecursionExists
<1>7. Eq(f)
  <2>1. f[0] = none
    BY <1>6 DEF Follows
  <2>2. ASSUME NEW i \in 0..n, i # 0 PROVE f[i] = Kept(i, f[i - 1])
    <3>1. i \in 1..n
      BY <2>2
    <3>2. i - 1 \in 0..n
      BY <3>1, Before
    <3>3. f[i] = step[i][f[i - 1]] /\ f[i - 1] \in Seq(Offers)
      BY <1>6, <3>1, <3>2 DEF Follows
    <3> QED
      BY <3>1, <3>3
  <2> QED
    BY <1>6, <2>1, <2>2
<1>8. Eq(kept)
  <2> HIDE DEF Eq
  <2> QED
    BY <1>7
<1>9. T!Keep(offer, wants) = kept[n]
  BY <1>0, <1>1 DEF T!Keep, Kept
<1>10. kept = [i \in 0..n |-> IF i = 0 THEN none ELSE Kept(i, kept[i - 1])]
  BY <1>8
<1> HIDE DEF kept
<1>11. KeptOf(kept[n], offer, wants, n)
  <2> DEFINE Good == {i \in 0..n : KeptOf(kept[i], offer, wants, i)}
  <2>1. 0 \in Good
    <3>1. 0 \in 0..n
      OBVIOUS
    <3>2. kept[0] = none
      BY <1>10, <3>1
    <3> QED
      BY <1>2, <3>1, <3>2
  <2>2. ASSUME NEW i \in 1..n, i - 1 \in Good PROVE i \in Good
    <3>1. i \in 0..n /\ i # 0
      BY Before
    <3>2. kept[i] = Kept(i, kept[i - 1])
      BY <1>10, <3>1
    <3> QED
      BY <1>3, <2>2, <3>1, <3>2
  <2>3. Good \in SUBSET (0..n)
    OBVIOUS
  <2>4. n \in 0..n
    OBVIOUS
  <2> HIDE DEF Good
  <2>5. Good = 0..n
    BY <2>1, <2>2, <2>3, UpTo
  <2> QED
    BY <2>4, <2>5 DEF Good
<1> QED
  BY <1>0, <1>9, <1>11

(* An item more in the list does not take one away from what is found.      *)
LEMMA ListsAreSequences ==
  ASSUME NEW offer \in T!Lists
  PROVE  offer \in Seq(Offers) /\ T!IsInjective(offer)
<1>1. PICK n \in 0..T!Cardinality(Offers) : offer \in [1..n -> Offers]
  BY DEF T!Lists
<1>2. n \in Nat
  OBVIOUS
<1> QED
  BY <1>1, <1>2, SeqDef DEF T!Lists

LEMMA FoundIs ==
  ASSUME NEW word \in T!Word, NEW offer \in T!Lists
  PROVE  /\ T!Found(word, offer) \in Seq(Offers)
         /\ \A k \in 1..Len(T!Found(word, offer)) :
               word.trigger /\ T!Found(word, offer)[k] \in word.finds /\ T!Found(word, offer)[k] \in Offers
<1>1. CASE word.trigger
  <2>1. PICK s : s = T!Keep(offer, word.finds)
    OBVIOUS
  <2>2. KeptOf(s, offer, word.finds, Len(offer))
    BY <2>1, ListsAreSequences, KeepIs
  <2>3. s \in Seq(Offers) /\ \A k \in 1..Len(s) : s[k] \in word.finds
    BY <2>2 DEF KeptOf
  <2>4. \A k \in 1..Len(s) : s[k] \in Offers
    BY <2>3, ElementOfSeq
  <2> QED
    BY <1>1, <2>1, <2>3, <2>4 DEF T!Found
<1>2. CASE ~word.trigger
  <2>1. PICK none : none = <<>>
    OBVIOUS
  <2>2. none \in Seq(Offers) /\ 1..Len(none) = {}
    BY <2>1
  <2> QED
    BY <1>2, <2>1, <2>2 DEF T!Found
<1> QED
  BY <1>1, <1>2

LEMMA FoundGrows ==
  ASSUME NEW word \in T!Word, NEW offer \in T!Lists, NEW newer \in T!Lists,
         T!ToSet(offer) \subseteq T!ToSet(newer)
  PROVE  Len(T!Found(word, offer)) <= Len(T!Found(word, newer))
<1>1. CASE word.trigger
  <2> DEFINE these(s) == {s[j] : j \in 1..Len(s)} \cap word.finds
  <2>1. KeptOf(T!Keep(offer, word.finds), offer, word.finds, Len(offer))
    BY ListsAreSequences, KeepIs
  <2>2. KeptOf(T!Keep(newer, word.finds), newer, word.finds, Len(newer))
    BY ListsAreSequences, KeepIs
  <2>3. these(offer) \subseteq these(newer)
    BY ListsAreSequences DEF T!ToSet
  <2>4. IsFiniteSet(these(newer))
    BY <2>2 DEF KeptOf
  <2>5. Len(T!Keep(offer, word.finds)) = Cardinality(these(offer)) /\ Len(T!Keep(newer, word.finds)) = Cardinality(these(newer))
    BY <2>1, <2>2 DEF KeptOf
  <2> HIDE DEF these
  <2>6. Cardinality(these(offer)) <= Cardinality(these(newer))
    BY <2>3, <2>4, FS_Subset
  <2> QED
    BY <1>1, <2>5, <2>6 DEF T!Found
<1>2. CASE ~word.trigger
  BY <1>2 DEF T!Found
<1> QED
  BY <1>1, <1>2

(* A popup that is shown has the items found for the word at the cursor, of *)
(* which one is selected; one with nothing to show has the first selected.  *)
TypingTyped ==
    /\ words \in Seq(T!Word) /\ cursor \in 0..Len(words) /\ items \in T!Lists
    /\ selectedIndex \in Nat /\ suggestions \in Seq(Offers) /\ popup \in BOOLEAN

PopupOfWord ==
    /\ T!IsVisible => /\ suggestions = T!Found(T!WordAt(words, cursor), items)
                      /\ selectedIndex < Len(suggestions)
    /\ popup /\ suggestions = <<>> => selectedIndex = 0

TypingInv == TypingTyped /\ PopupOfWord /\ T!TakenWhereFound

LEMMA TypingStarts ==
  ASSUME T!Init
  PROVE  TypingInv
<1>1. PICK none : none = <<>>
  OBVIOUS
<1>2. none \in Seq(T!Word) /\ none \in Seq(Offers) /\ Len(none) = 0
  BY <1>1
<1>3. words = none /\ suggestions = none
  BY <1>1 DEF T!Init
<1>4. cursor = 0 /\ items \in T!Lists /\ popup = FALSE /\ selectedIndex = 0 /\ taken = {}
  BY DEF T!Init
<1>5. words \in Seq(T!Word) /\ suggestions \in Seq(Offers) /\ cursor \in 0..Len(words) /\ selectedIndex \in Nat
  BY <1>2, <1>3, <1>4
<1>6. TypingTyped
  BY <1>4, <1>5 DEF TypingTyped
<1> QED
  BY <1>4, <1>6 DEF TypingInv, PopupOfWord, T!IsVisible, T!TakenWhereFound

LEMMA WordAtIs ==
  ASSUME NEW said \in Seq(T!Word), NEW c \in 0..Len(said)
  PROVE  T!WordAt(said, c) \in T!Word
<1>1. T!Blank \in T!Word
  BY DEF T!Blank, T!Word
<1>2. CASE c = 0
  BY <1>1, <1>2 DEF T!WordAt
<1>3. CASE c # 0
  <2>1. c \in 1..Len(said)
    BY <1>3
  <2>2. said[c] \in T!Word
    BY <2>1, ElementOfSeq
  <2> QED
    BY <1>3, <2>2 DEF T!WordAt
<1> QED
  BY <1>2, <1>3

(* A popup without a position is not shown. *)
LEMMA HiddenKeeps ==
  ASSUME TypingTyped', popup' = FALSE, T!TakenWhereFound'
  PROVE  TypingInv'
BY DEF TypingInv, PopupOfWord, T!IsVisible

LEMMA TypedKeeps ==
  ASSUME TypingInv, NEW word \in T!Word, T!Type(word)
  PROVE  TypingInv'
<1>1. /\ words' = IF cursor = 0 THEN Append(words, word) ELSE [words EXCEPT ![cursor] = word]
      /\ cursor' = IF cursor = 0 THEN Len(words) + 1 ELSE cursor
      /\ UNCHANGED <<items, taken>> /\ selectedIndex' = 0 /\ popup' \in BOOLEAN
      /\ suggestions' = T!Found(T!WordAt(words', cursor'), items)
  BY DEF T!Type, T!HandleInput, T!Rendered
<1>2. /\ words \in Seq(T!Word) /\ cursor \in 0..Len(words) /\ items \in T!Lists
  BY DEF TypingInv, TypingTyped
<1>3. words' \in Seq(T!Word) /\ cursor' \in 0..Len(words')
  <2>1. PICK said : said = words'
    OBVIOUS
  <2>2. CASE cursor = 0
    <3>1. said = Append(words, word)
      BY <1>1, <2>1, <2>2
    <3>2. said \in Seq(T!Word) /\ Len(said) = Len(words) + 1
      BY <1>2, <3>1, AppendProperties
    <3> QED
      BY <1>1, <1>2, <2>1, <2>2, <3>2
  <2>3. CASE cursor # 0
    <3>1. said = [words EXCEPT ![cursor] = word] /\ cursor \in 1..Len(words)
      BY <1>1, <1>2, <2>1, <2>3
    <3>2. said \in Seq(T!Word) /\ Len(said) = Len(words)
      BY <1>2, <3>1, ExceptSeq
    <3> QED
      BY <1>1, <1>2, <2>1, <2>3, <3>2
  <2> QED
    BY <2>2, <2>3
<1>4. PICK w \in T!Word : w = T!WordAt(words', cursor')
  BY <1>3, WordAtIs
<1>5. PICK shows : shows = T!Found(w, items)
  OBVIOUS
<1>6. shows \in Seq(Offers) /\ suggestions' = shows
  BY <1>1, <1>2, <1>4, <1>5, FoundIs
<1>7. TypingTyped'
  BY <1>1, <1>2, <1>3, <1>6 DEF TypingTyped
<1>8. suggestions' # <<>> => 0 < Len(suggestions')
  BY <1>6
<1>9. suggestions' = T!Found(T!WordAt(words', cursor'), items')
  BY <1>1
<1>10. PopupOfWord'
  BY <1>1, <1>8, <1>9 DEF PopupOfWord, T!IsVisible
<1> QED
  BY <1>1, <1>7, <1>10 DEF TypingInv, T!TakenWhereFound

LEMMA HideKeeps ==
  ASSUME TypingInv, NEW c \in 0..Len(words), T!Hide(c)
  PROVE  TypingInv'
<1>1. /\ UNCHANGED <<words, items, selectedIndex, taken>> /\ cursor' = c /\ popup' = FALSE
      /\ suggestions' = T!Found(T!WordAt(words, c), items)
  BY DEF T!Hide, T!Rendered
<1>2. suggestions' \in Seq(Offers)
  <2>1. T!WordAt(words, c) \in T!Word /\ items \in T!Lists
    BY WordAtIs DEF TypingInv, TypingTyped
  <2> QED
    BY <1>1, <2>1, FoundIs
<1>3. TypingTyped'
  BY <1>1, <1>2 DEF TypingInv, TypingTyped
<1> QED
  BY <1>1, <1>3, HiddenKeeps DEF TypingInv, T!TakenWhereFound

LEMMA MoveKeyKeeps ==
  ASSUME TypingInv, NEW c \in 0..Len(words), T!MoveKey(c)
  PROVE  TypingInv'
BY DEF TypingInv, TypingTyped, PopupOfWord, T!IsVisible, T!TakenWhereFound, T!MoveKey

LEMMA NavigateKeeps ==
  ASSUME TypingInv, T!Navigate
  PROVE  TypingInv'
<1>1. PICK count \in Nat : count = Len(suggestions)
  BY DEF TypingInv, TypingTyped
<1>2. /\ T!IsVisible /\ UNCHANGED <<words, cursor, items, popup, taken>>
      /\ selectedIndex' \in {(selectedIndex + 1) % count, ((selectedIndex + count) - 1) % count}
      /\ suggestions' = T!Found(T!WordAt(words, cursor), items)
  BY <1>1 DEF T!Navigate, T!Rendered
<1>3. suggestions' = suggestions /\ selectedIndex < count /\ selectedIndex \in Nat
  BY <1>1, <1>2 DEF TypingInv, TypingTyped, PopupOfWord
<1>4. selectedIndex' \in Nat /\ selectedIndex' < count
  <2>1. \A x \in Nat, n \in Nat : n # 0 => x % n \in 0..(n - 1)
    OBVIOUS
  <2>2. selectedIndex + 1 \in Nat /\ (selectedIndex + count) - 1 \in Nat /\ count # 0
    BY <1>3
  <2> QED
    BY <1>2, <2>1, <2>2
<1> QED
  BY <1>1, <1>2, <1>3, <1>4 DEF TypingInv, TypingTyped, PopupOfWord, T!IsVisible, T!TakenWhereFound

LEMMA TakingKeeps ==
  ASSUME TypingInv, T!IsVisible, NEW i \in 1..Len(suggestions), T!Take(suggestions[i])
  PROVE  TypingInv'
<1>1. /\ words \in Seq(T!Word) /\ cursor \in 0..Len(words) /\ items \in T!Lists
      /\ suggestions = T!Found(T!WordAt(words, cursor), items) /\ selectedIndex \in Nat
  BY DEF TypingInv, TypingTyped, PopupOfWord
<1>2. PICK w \in T!Word : w = T!WordAt(words, cursor)
  BY <1>1, WordAtIs
<1>3. PICK item : item = suggestions[i]
  OBVIOUS
<1>4. w.trigger /\ item \in w.finds /\ item \in Offers
  BY <1>1, <1>2, <1>3, FoundIs
<1> DEFINE new == [trigger |-> TRUE, finds |-> {item} \ {Undefined}]
<1>5. new \in T!Word
  BY <1>4 DEF T!Word
<1>6. /\ taken' = {[item |-> item, word |-> w]}
      /\ words' = IF cursor = 0 THEN Append(words, new) ELSE [words EXCEPT ![cursor] = new]
      /\ cursor' = 0 /\ popup' = FALSE /\ UNCHANGED <<items, selectedIndex>>
      /\ suggestions' = T!Found(T!WordAt(words', 0), items)
  BY <1>2, <1>3 DEF T!Take, T!Rendered
<1> HIDE DEF new
<1>7. words' \in Seq(T!Word)
  <2>1. CASE cursor = 0
    BY <1>1, <1>5, <1>6, <2>1, AppendProperties
  <2>2. CASE cursor # 0
    <3>1. cursor \in 1..Len(words)
      BY <1>1, <2>2
    <3> QED
      BY <1>1, <1>5, <1>6, <2>2, <3>1, ExceptSeq
  <2> QED
    BY <2>1, <2>2
<1>8. suggestions' \in Seq(Offers)
  <2>1. 0 \in 0..Len(words')
    BY <1>7
  <2>2. T!WordAt(words', 0) \in T!Word
    BY <1>7, <2>1, WordAtIs
  <2> QED
    BY <1>1, <1>6, <2>2, FoundIs
<1>9. TypingTyped'
  <2>1. 0 \in 0..Len(words')
    BY <1>7
  <2> QED
    BY <1>1, <1>6, <1>7, <1>8, <2>1 DEF TypingTyped
<1>10. T!TakenWhereFound'
  <2>1. item # Undefined
    BY <1>4, SuggestionsAssumption
  <2> QED
    BY <1>4, <1>6, <2>1 DEF T!TakenWhereFound
<1> QED
  BY <1>6, <1>9, <1>10, HiddenKeeps

LEMMA EnterKeeps ==
  ASSUME TypingInv, T!Enter
  PROVE  TypingInv'
<1>1. T!IsVisible
  BY DEF T!Enter
<1>2. selectedIndex \in Nat /\ selectedIndex < Len(suggestions) /\ Len(suggestions) \in Nat
  BY <1>1 DEF TypingInv, TypingTyped, PopupOfWord
<1>3. selectedIndex + 1 \in 1..Len(suggestions) /\ T!Take(suggestions[selectedIndex + 1])
  BY <1>2 DEF T!Enter
<1> QED
  BY <1>1, <1>3, TakingKeeps

LEMMA FetchedKeeps ==
  ASSUME TypingInv, NEW offer \in T!Lists, T!Fetched(offer)
  PROVE  TypingInv'
<1>1. /\ ~T!IsVisible \/ T!ToSet(items) \subseteq T!ToSet(offer)
      /\ items' = offer /\ UNCHANGED <<words, cursor, popup, selectedIndex, taken>>
      /\ suggestions' = T!Found(T!WordAt(words, cursor), offer)
  BY DEF T!Fetched, T!Rendered
<1>2. words \in Seq(T!Word) /\ cursor \in 0..Len(words) /\ items \in T!Lists /\ suggestions \in Seq(Offers)
      /\ popup \in BOOLEAN /\ selectedIndex \in Nat
  BY DEF TypingInv, TypingTyped
<1>3. PICK w \in T!Word : w = T!WordAt(words, cursor)
  BY <1>2, WordAtIs
<1>4. suggestions' = T!Found(w, offer) /\ suggestions' \in Seq(Offers)
  BY <1>1, <1>3, FoundIs
<1>5. TypingTyped'
  BY <1>1, <1>2, <1>4 DEF TypingTyped
<1>6. suggestions' = T!Found(T!WordAt(words', cursor'), items')
  BY <1>1
<1>7. CASE T!IsVisible
  <2>1. suggestions = T!Found(w, items) /\ selectedIndex < Len(suggestions) /\ popup
    BY <1>3, <1>7 DEF TypingInv, PopupOfWord, T!IsVisible
  <2>2. Len(suggestions) <= Len(suggestions')
    BY <1>1, <1>2, <1>4, <1>7, <2>1, FoundGrows
  <2>3. Len(suggestions) \in Nat /\ Len(suggestions') \in Nat
    BY <1>2, <1>4
  <2>4. selectedIndex' < Len(suggestions')
    BY <1>1, <1>2, <2>1, <2>2, <2>3
  <2>5. suggestions' # <<>>
    BY <1>2, <2>1, <2>2, <2>3
  <2> QED
    BY <1>1, <1>5, <1>6, <2>4, <2>5 DEF TypingInv, PopupOfWord, T!IsVisible, T!TakenWhereFound
<1>8. CASE ~T!IsVisible /\ popup
  <2>1. selectedIndex' = 0
    BY <1>1, <1>8 DEF TypingInv, PopupOfWord, T!IsVisible
  <2>2. suggestions' # <<>> => 0 < Len(suggestions')
    BY <1>4
  <2> QED
    BY <1>1, <1>5, <1>6, <2>1, <2>2 DEF TypingInv, PopupOfWord, T!IsVisible, T!TakenWhereFound
<1>9. CASE ~popup
  BY <1>1, <1>2, <1>5, <1>9, HiddenKeeps DEF TypingInv, T!TakenWhereFound
<1> QED
  BY <1>2, <1>7, <1>8, <1>9

LEMMA TypingKept ==
  ASSUME TypingInv, [T!Next]_typing
  PROVE  TypingInv'
<1>1. CASE UNCHANGED typing
  BY <1>1 DEF TypingInv, TypingTyped, PopupOfWord, T!IsVisible, T!TakenWhereFound, typing
<1>2. ASSUME NEW i \in DOMAIN suggestions, T!MouseDown(i)
      PROVE  TypingInv'
  <2>1. i \in 1..Len(suggestions) /\ T!IsVisible /\ T!Take(suggestions[i])
    BY <1>2 DEF T!MouseDown, TypingInv, TypingTyped
  <2> QED
    BY <2>1, TakingKeeps
<1> QED
  BY <1>1, <1>2, TypedKeeps, HideKeeps, MoveKeyKeeps, NavigateKeeps, EnterKeeps, FetchedKeeps DEF T!Next

(* What is written from a popup is an item, and in place of a word that     *)
(* begins with the trigger and finds it, for any items there are and words  *)
(* that find them, as long as neither the cursor moves unheard nor items    *)
(* go while the popup is shown (useSuggestions.ts).                         *)
THEOREM TakenAlwaysWhereFound == PagesSpec => []TakenWhereFound
<1>1. PagesInit => TypingInv
  BY TypingStarts DEF PagesInit
<1>2. TypingInv /\ [PagesNext]_allVars => TypingInv'
  BY StepsOfParts, TypingKept
<1>3. TypingInv => TakenWhereFound
  BY DEF TypingInv, TakenWhereFound
<1> QED
  BY <1>1, <1>2, <1>3, PTL DEF PagesSpec

-------------------------------------------------------------------------------
(* Lists of the settings. Wherever a list is held, each item has its own    *)
(* text or the one it was created with; forms hold a text of the item their *)
(* dialog is about, or of none, and so do the requests that save them.      *)
Typing == [owner : Items \cup {New}, n : Nat]
OwnList == {d \in [Items -> Typing] : \A i \in Items : d[i].owner \in {i, New}}
OwnOp == {k \in [step : {"sent", "read", "written", "asked", "fetched"}, does : {"save", "delete"},
                 item : Items \cup {New}, text : Typing, whole : OwnList, seen : OwnList] :
              k.text.owner \in {k.item, New}}

OwnInv ==
    /\ list \in OwnList /\ listed \in OwnList
    /\ subject \in Items \cup {New} /\ (kind \notin L!Editable => subject = New)
    /\ confirm \in Items \cup {New}
    /\ form \in [{"main", "create"} -> Typing]
    /\ form["main"].owner \in {subject, New} /\ form["create"].owner = New
    /\ op \in [Ops -> OwnOp \cup {L!Idle}]
    /\ typed \in Nat

LEMMA GoneIsTyping == L!Gone \in Typing /\ L!Gone.owner = New /\ L!Nothing \in OwnList
<1>1. L!Gone \in Typing /\ L!Gone.owner = New
  BY DEF L!Gone, Typing
<1>2. L!Nothing \in [Items -> Typing]
  BY <1>1 DEF L!Nothing
<1> QED
  BY <1>1, <1>2 DEF L!Nothing, OwnList

LEMMA OwnStarts ==
  ASSUME L!Init
  PROVE  OwnInv
<1>1. list \in OwnList
  <2>1. \A i \in Items : [owner |-> i, n |-> 0] \in Typing /\ [owner |-> i, n |-> 0].owner = i
    BY DEF Typing
  <2>2. PICK g \in Typing : g = L!Gone /\ g.owner = New
    BY GoneIsTyping
  <2>3. list = [i \in Items |-> IF i \in Existing THEN [owner |-> i, n |-> 0] ELSE g]
    BY <2>2 DEF L!Init
  <2>4. list \in [Items -> Typing]
    BY <2>1, <2>2, <2>3
  <2> QED
    BY <2>1, <2>2, <2>3, <2>4 DEF OwnList
<1>2. form \in [{"main", "create"} -> Typing] /\ form["main"].owner = New /\ form["create"].owner = New
  <2>1. form = [d \in {"main", "create"} |-> L!Gone]
    BY DEF L!Init
  <2> QED
    BY <2>1, GoneIsTyping
<1>3. op \in [Ops -> OwnOp \cup {L!Idle}]
  BY DEF L!Init
<1> QED
  BY <1>1, <1>2, <1>3 DEF OwnInv, L!Init

LEMMA OwnMember ==
  ASSUME NEW d \in OwnList, NEW i \in Items
  PROVE  d[i] \in Typing /\ d[i].owner \in {i, New}
BY DEF OwnList

LEMMA OwnReplaced ==
  ASSUME NEW d \in OwnList, NEW i \in Items, NEW t \in Typing, t.owner \in {i, New}
  PROVE  [d EXCEPT ![i] = t] \in OwnList
BY DEF OwnList

LEMMA OwnAdvanced ==
  ASSUME NEW k \in OwnOp, NEW s \in {"sent", "read", "written", "asked", "fetched"}, NEW d \in OwnList
  PROVE  /\ [k EXCEPT !.step = s] \in OwnOp
         /\ [k EXCEPT !.step = s, !.whole = d] \in OwnOp
         /\ [k EXCEPT !.step = s, !.seen = d] \in OwnOp
BY DEF OwnOp

(* The form of a dialog about s is empty, or filled with the text of s, or  *)
(* what it was if it was about s before.                                    *)
LEMMA ShowOwns ==
  ASSUME OwnInv, NEW s \in Items \cup {New}, NEW o, L!Show(s, o), kind \notin L!Editable => s = New
  PROVE  /\ subject' = s /\ form' \in [{"main", "create"} -> Typing]
         /\ form'["main"].owner \in {s, New} /\ form'["create"].owner = New
<1> DEFINE filled == IF s = New THEN L!Gone ELSE listed[s]
<1>1. filled \in Typing /\ filled.owner \in {s, New}
  <2>1. CASE s = New
    BY <2>1, GoneIsTyping
  <2>2. CASE s # New
    BY <2>2, OwnMember DEF OwnInv
  <2> QED
    BY <2>1, <2>2
<1>2. form["main"] \in Typing /\ form["main"].owner \in {subject, New}
  BY DEF OwnInv
<1>3. L!FormAfter(s, o) \in {L!Gone, filled, form["main"]}
  BY DEF L!FormAfter
<1>4. L!FormAfter(s, o) = form["main"] => s = subject \/ L!FormAfter(s, o) \in {L!Gone, filled} \/ form["main"].owner = New
  BY DEF L!FormAfter, OwnInv, L!Editable
<1> HIDE DEF filled
<1>5. PICK f : f = L!FormAfter(s, o)
  OBVIOUS
<1>6. f \in Typing /\ f.owner \in {s, New}
  <2>1. CASE f = L!Gone \/ f = filled
    BY <1>1, <2>1, GoneIsTyping
  <2>2. CASE f = form["main"]
    BY <1>1, <1>2, <1>4, <1>5, <2>2, GoneIsTyping
  <2> QED
    BY <1>3, <1>5, <2>1, <2>2
<1>7. subject' = s /\ form' = [form EXCEPT !["main"] = f]
  BY <1>5 DEF L!Show
<1> QED
  BY <1>6, <1>7 DEF OwnInv

LEMMA LeftOwns ==
  ASSUME OwnInv
  PROVE  L!Left \in Items \cup {New} /\ (kind \notin L!Editable => L!Left = New)
BY DEF OwnInv, L!Left, L!Editable

LEMMA AskOwns ==
  ASSUME OwnInv, NEW o \in Ops, op[o] # L!Idle, L!Ask(o)
  PROVE  op' \in [Ops -> OwnOp \cup {L!Idle}]
<1>1. op[o] \in OwnOp
  BY DEF OwnInv
<1>2. PICK k \in OwnOp : k = [op[o] EXCEPT !.step = "asked", !.seen = L!Nothing]
  BY <1>1, OwnAdvanced, GoneIsTyping
<1>3. op' = [p \in Ops |-> IF p = o THEN k
                           ELSE IF kind = "member" /\ op[p].step \in {"asked", "fetched"} THEN L!Idle ELSE op[p]]
  BY <1>2 DEF L!Ask
<1> QED
  BY <1>3 DEF OwnInv

LEMMA OpOwns ==
  ASSUME OwnInv, NEW o \in Ops, NEW k \in OwnOp \cup {L!Idle}, op' = [op EXCEPT ![o] = k]
  PROVE  op' \in [Ops -> OwnOp \cup {L!Idle}]
BY DEF OwnInv

LEMMA DialogOwns ==
  ASSUME OwnInv, \/ \E s \in Items \cup {New} : L!OpenDialog(s)
                 \/ L!Type \/ L!Close \/ L!Cancel
                 \/ \E i \in Items : L!AskDelete(i)
  PROVE  OwnInv'
<1>1. ASSUME NEW s \in Items \cup {New}, L!OpenDialog(s)
      PROVE  OwnInv'
  <2>1. kind \notin L!Editable => s = New
    BY <1>1 DEF L!OpenDialog
  <2> QED
    BY <1>1, <2>1, ShowOwns DEF L!OpenDialog, OwnInv, L!user
<1>2. CASE L!Type
  <2>0. subject \in Items \cup {New} /\ typed + 1 \in Nat
    BY DEF OwnInv
  <2>1. PICK t \in Typing : t = [owner |-> subject, n |-> typed + 1]
    BY <2>0 DEF Typing
  <2>2. form' = [form EXCEPT ![L!Form] = t] /\ t.owner = subject
    BY <1>2, <2>1 DEF L!Type
  <2>3. L!Form \in {"main", "create"} /\ (L!Form = "create" => subject = New)
    BY DEF L!Form
  <2>4. /\ form' \in [{"main", "create"} -> Typing]
        /\ form'["main"].owner \in {subject, New} /\ form'["create"].owner = New
    BY <2>1, <2>2, <2>3 DEF OwnInv
  <2> QED
    BY <1>2, <2>4 DEF L!Type, OwnInv, L!user
<1>3. CASE L!Close
  BY <1>3, LeftOwns, ShowOwns DEF L!Close, OwnInv, L!user
<1>4. CASE L!Cancel
  BY <1>4 DEF L!Cancel, OwnInv, L!user, L!dialog
<1>5. ASSUME NEW i \in Items, L!AskDelete(i)
      PROVE  OwnInv'
  BY <1>5 DEF L!AskDelete, OwnInv, L!user, L!dialog
<1> QED
  BY <1>1, <1>2, <1>3, <1>4, <1>5

LEMMA RequestOwns ==
  ASSUME OwnInv, NEW o \in Ops, NEW does \in {"save", "delete"}, NEW i \in Items \cup {New},
         NEW t \in Typing, t.owner \in {i, New}, L!Request(o, does, i, t)
  PROVE  op' \in [Ops -> OwnOp \cup {L!Idle}]
<1>1. PICK d \in OwnList : d = IF kind = "webhook" THEN listed ELSE L!Nothing
  BY GoneIsTyping DEF OwnInv
<1>2. PICK k : k = [step |-> "sent", does |-> does, item |-> i, text |-> t, whole |-> L!Nothing, seen |-> d]
  OBVIOUS
<1>3. k \in OwnOp
  BY <1>2, GoneIsTyping DEF OwnOp
<1>4. op' = [op EXCEPT ![o] = k]
  BY <1>1, <1>2 DEF L!Request
<1> QED
  BY <1>3, <1>4, OpOwns

LEMMA RequestsOwn ==
  ASSUME OwnInv, NEW o \in Ops, L!Save(o) \/ L!Confirm(o)
  PROVE  OwnInv'
<1>1. CASE L!Save(o)
  <2>1. PICK t \in Typing : t = form[L!Form] /\ t.owner \in {subject, New}
    BY DEF OwnInv, L!Form
  <2>2. L!Request(o, "save", subject, t)
    BY <1>1, <2>1 DEF L!Save
  <2>3. op' \in [Ops -> OwnOp \cup {L!Idle}]
    BY <2>1, <2>2, RequestOwns DEF OwnInv
  <2> QED
    BY <1>1, <2>3 DEF L!Save, OwnInv, L!user, L!dialog
<1>2. CASE L!Confirm(o)
  <2>1. L!Request(o, "delete", confirm, L!Gone)
    BY <1>2 DEF L!Confirm
  <2>2. op' \in [Ops -> OwnOp \cup {L!Idle}]
    BY <2>1, RequestOwns, GoneIsTyping DEF OwnInv
  <2>3. confirm' \in Items \cup {New}
    BY <1>2 DEF L!Confirm, OwnInv
  <2> QED
    BY <1>2, <2>2, <2>3 DEF L!Confirm, OwnInv, L!user, L!dialog
<1> QED
  BY <1>1, <1>2

LEMMA ServerOwns ==
  ASSUME OwnInv, NEW o \in Ops, L!Read(o) \/ L!Write(o) \/ L!List(o)
  PROVE  OwnInv'
<1>0. op[o] # L!Idle => op[o] \in OwnOp
  BY DEF OwnInv
<1>1. CASE L!Read(o)
  <2>1. PICK k \in OwnOp : k = op[o]
    <3>1. op[o].step = "sent"
      BY <1>1 DEF L!Read
    <3> QED
      BY <1>0, <3>1 DEF L!Idle
  <2>2. PICK m \in OwnOp : m = [k EXCEPT !.step = "read", !.whole = list]
    BY OwnAdvanced DEF OwnInv
  <2>4. op' = [op EXCEPT ![o] = m]
    BY <1>1, <2>1, <2>2 DEF L!Read
  <2>3. op' \in [Ops -> OwnOp \cup {L!Idle}]
    BY <2>2, <2>4, OpOwns
  <2> QED
    BY <1>1, <2>3 DEF L!Read, OwnInv, L!user, L!dialog
<1>2. CASE L!Write(o)
  <2>1. PICK k \in OwnOp : k = op[o]
    BY <1>0, <1>2 DEF L!Write
  <2>2. PICK base \in OwnList : base = L!Base(k)
    BY DEF L!Base, OwnInv, OwnOp
  <2>3. k.text \in Typing /\ k.text.owner \in {k.item, New} /\ k.item \in Items \cup {New}
    BY DEF OwnOp
  <2>4. list' \in OwnList
    <3>1. CASE k.item = New /\ \E i \in Items : list' = [base EXCEPT ![i] = k.text]
      BY <2>3, <3>1, OwnReplaced
    <3>2. CASE k.item # New /\ list' = [base EXCEPT ![k.item] = k.text]
      BY <2>3, <3>2, OwnReplaced
    <3> QED
      BY <1>2, <2>1, <2>2, <3>1, <3>2 DEF L!Write
  <2>5. op' = [op EXCEPT ![o] = [k EXCEPT !.step = "written", !.whole = L!Nothing]]
    BY <1>2, <2>1 DEF L!Write
  <2>6. [k EXCEPT !.step = "written", !.whole = L!Nothing] \in OwnOp
    BY OwnAdvanced, GoneIsTyping
  <2>7. op' \in [Ops -> OwnOp \cup {L!Idle}]
    BY <2>5, <2>6, OpOwns
  <2> QED
    BY <1>2, <2>4, <2>7 DEF L!Write, OwnInv, L!user, L!dialog
<1>3. CASE L!List(o)
  <2>1. PICK k \in OwnOp : k = op[o]
    <3>1. op[o].step = "asked"
      BY <1>3 DEF L!List
    <3> QED
      BY <1>0, <3>1 DEF L!Idle
  <2>2. PICK m \in OwnOp : m = [k EXCEPT !.step = "fetched", !.whole = list]
    BY OwnAdvanced DEF OwnInv
  <2>4. op' = [op EXCEPT ![o] = m]
    BY <1>3, <2>1, <2>2 DEF L!List
  <2>3. op' \in [Ops -> OwnOp \cup {L!Idle}]
    BY <2>2, <2>4, OpOwns
  <2> QED
    BY <1>3, <2>3 DEF L!List, OwnInv, L!user, L!dialog
<1> QED
  BY <1>1, <1>2, <1>3

LEMMA AnswersOwn ==
  ASSUME OwnInv, NEW o \in Ops, L!Saved(o) \/ L!Deleted(o) \/ L!Take(o) \/ L!Fails(o)
  PROVE  OwnInv'
<1>0. (op[o] # L!Idle => op[o] \in OwnOp) /\ L!Idle.step = "none"
  BY DEF OwnInv, L!Idle
<1>1. CASE L!Saved(o)
  <2>1. op[o] # L!Idle /\ L!Ask(o)
    BY <1>0, <1>1 DEF L!Saved
  <2>2. op' \in [Ops -> OwnOp \cup {L!Idle}]
    BY <2>1, AskOwns
  <2>3. PICK s \in Items \cup {New} : L!Show(s, FALSE) /\ (kind \notin L!Editable => s = New)
    BY <1>1, LeftOwns DEF L!Saved
  <2> QED
    BY <1>1, <2>2, <2>3, ShowOwns DEF L!Saved, OwnInv, L!user
<1>2. CASE L!Deleted(o)
  <2>1. PICK k \in OwnOp : k = op[o] /\ k # L!Idle /\ k.step = "written"
    BY <1>0, <1>2 DEF L!Deleted
  <2>2. op' \in [Ops -> OwnOp \cup {L!Idle}]
    <3>1. CASE L!Ask(o)
      BY <2>1, <3>1, AskOwns
    <3>2. CASE op' = [op EXCEPT ![o] = L!Idle]
      BY <3>2, OpOwns
    <3> QED
      BY <1>2, <3>1, <3>2 DEF L!Deleted
  <2>3. listed' \in OwnList
    <3>1. PICK d \in OwnList : d = IF kind = "webhook" THEN k.seen ELSE listed
      BY DEF OwnOp, OwnInv
    <3>2. listed' = listed \/ listed' = [d EXCEPT ![k.item] = L!Gone]
      BY <1>2, <2>1, <3>1 DEF L!Deleted
    <3>3. [d EXCEPT ![k.item] = L!Gone] \in OwnList
      <4>1. CASE k.item \in Items
        BY <4>1, GoneIsTyping, OwnReplaced
      <4>2. CASE k.item \notin Items
        BY <4>2 DEF OwnList
      <4> QED
        BY <4>1, <4>2
    <3> QED
      BY <3>2, <3>3 DEF OwnInv
  <2>4. confirm' \in Items \cup {New}
    BY <1>2 DEF L!Deleted, OwnInv
  <2> QED
    BY <1>2, <2>2, <2>3, <2>4 DEF L!Deleted, OwnInv, L!user, L!dialog
<1>3. CASE L!Take(o)
  <2>1. PICK k \in OwnOp : k = op[o]
    BY <1>0, <1>3 DEF L!Take
  <2>2. listed' \in OwnList
    BY <1>3, <2>1 DEF L!Take, OwnOp
  <2>3. op' \in [Ops -> OwnOp \cup {L!Idle}]
    BY <1>3, OpOwns DEF L!Take
  <2>4. confirm' \in Items \cup {New}
    BY <1>3 DEF L!Take, OwnInv
  <2>5. CASE L!Show(L!Left, FALSE)
    BY <1>3, <2>2, <2>3, <2>4, <2>5, LeftOwns, ShowOwns DEF L!Take, OwnInv, L!user
  <2>6. CASE UNCHANGED L!dialog
    BY <1>3, <2>2, <2>3, <2>4, <2>6 DEF L!Take, OwnInv, L!user, L!dialog
  <2> QED
    BY <1>3, <2>5, <2>6 DEF L!Take
<1>4. CASE L!Fails(o)
  <2>1. op' \in [Ops -> OwnOp \cup {L!Idle}]
    <3>1. CASE L!Ask(o)
      BY <1>4, <3>1, AskOwns DEF L!Fails
    <3>2. CASE op' = [op EXCEPT ![o] = L!Idle]
      BY <3>2, OpOwns
    <3> QED
      BY <1>4, <3>1, <3>2 DEF L!Fails
  <2>2. CASE L!Show(L!Left, FALSE)
    BY <1>4, <2>1, <2>2, LeftOwns, ShowOwns DEF L!Fails, OwnInv, L!user
  <2>3. CASE UNCHANGED L!dialog
    BY <1>4, <2>1, <2>3 DEF L!Fails, OwnInv, L!user, L!dialog
  <2> QED
    BY <1>4, <2>2, <2>3 DEF L!Fails
<1> QED
  BY <1>1, <1>2, <1>3, <1>4

LEMMA OwnKept ==
  ASSUME OwnInv, [L!Next]_lists
  PROVE  OwnInv'
<1>1. CASE UNCHANGED lists
  BY <1>1 DEF OwnInv, lists
<1> QED
  BY <1>1, DialogOwns, RequestsOwn, ServerOwns, AnswersOwn DEF L!Next

-------------------------------------------------------------------------------
(* Checkboxes. The place of a task among the tasks of the page is its place *)
(* among the tasks of the text, so that a click changes the line it is on.  *)
PushedOf(s, t, n) ==
    /\ s \in Seq(Nat)
    /\ \A i \in 1..n : K!IsTask(t[i]) => K!Place(t, i) \in 1..Len(s) /\ s[K!Place(t, i)] = i
    /\ IsFiniteSet({j \in 1..n : K!IsTask(t[j])}) /\ Len(s) = Cardinality({j \in 1..n : K!IsTask(t[j])})

LEMMA SameCardinality == \A these : K!Cardinality(these) = Cardinality(these)
BY DEF K!Cardinality, Cardinality

LEMMA PushedAppend ==
  ASSUME NEW t \in Seq(K!Lines), NEW i \in 1..Len(t), NEW s, PushedOf(s, t, i - 1)
  PROVE  PushedOf(IF K!IsTask(t[i]) THEN Append(s, i) ELSE s, t, i)
<1> DEFINE before == {j \in 1..(i - 1) : K!IsTask(t[j])}
           after == {j \in 1..i : K!IsTask(t[j])}
<1>1. i \in Nat /\ i \in 1..i /\ i \notin 1..(i - 1) /\ 1..i = (1..(i - 1)) \cup {i}
  OBVIOUS
<1>2. s \in Seq(Nat) /\ IsFiniteSet(before) /\ Len(s) = Cardinality(before)
  BY DEF PushedOf
<1>3. \A j \in 1..(i - 1) : K!IsTask(t[j]) => K!Place(t, j) \in 1..Len(s) /\ s[K!Place(t, j)] = j
  BY DEF PushedOf
<1>4. CASE K!IsTask(t[i])
  <2>1. after = before \cup {i} /\ i \notin before
    BY <1>1, <1>4
  <2> HIDE DEF before
  <2>2. IsFiniteSet(after) /\ Cardinality(after) = Len(s) + 1
    BY <1>2, <2>1, FS_AddElement
  <2>3. K!Place(t, i) = Len(s) + 1
    BY <2>2, SameCardinality DEF K!Place
  <2>4. PICK r : r = Append(s, i)
    OBVIOUS
  <2>5. PICK m \in Nat : m = Len(s)
    BY <1>2
  <2>6. r \in Seq(Nat) /\ Len(r) = m + 1 /\ r[m + 1] = i /\ \A k \in 1..m : r[k] = s[k]
    BY <1>1, <1>2, <2>4, <2>5, AppendProperties
  <2>7. ASSUME NEW j \in 1..i, K!IsTask(t[j])
        PROVE  K!Place(t, j) \in 1..Len(r) /\ r[K!Place(t, j)] = j
    <3>1. CASE j = i
      BY <2>3, <2>5, <2>6, <3>1
    <3>2. CASE j # i
      <4>1. j \in 1..(i - 1)
        BY <3>2
      <4>2. PICK k : k = K!Place(t, j)
        OBVIOUS
      <4>3. k \in 1..m /\ s[k] = j
        BY <1>3, <2>5, <2>7, <4>1, <4>2
      <4> QED
        BY <2>6, <4>2, <4>3
    <3> QED
      BY <3>1, <3>2
  <2> HIDE DEF after
  <2>8. IsFiniteSet(after) /\ Len(r) = Cardinality(after)
    BY <2>2, <2>5, <2>6
  <2> QED
    BY <1>4, <2>4, <2>6, <2>7, <2>8 DEF PushedOf, after
<1>5. CASE ~K!IsTask(t[i])
  <2>1. after = before
    BY <1>1, <1>5
  <2>2. \A j \in 1..i : K!IsTask(t[j]) => j \in 1..(i - 1)
    BY <1>1, <1>5
  <2> QED
    BY <1>2, <1>3, <1>5, <2>1, <2>2 DEF PushedOf
<1> QED
  BY <1>4, <1>5

LEMMA TasksAre ==
  ASSUME NEW t \in Seq(K!Lines)
  PROVE  PushedOf(K!Tasks(t), t, Len(t))
<1>0. PICK n \in Nat : n = Len(t) /\ DOMAIN t = 1..n
  OBVIOUS
<1>1. PICK none : none = <<>>
  OBVIOUS
<1> DEFINE places == {i \in DOMAIN t : K!IsTask(t[i])}
           Push(i, s) == IF i \in places THEN Append(s, i) ELSE s
           Eq(f) == f = [i \in 0..n |-> IF i = 0 THEN none ELSE Push(i, f[i - 1])]
           upTo == CHOOSE f : Eq(f)
           step == [i \in 1..n |-> [s \in Seq(Nat) |-> Push(i, s)]]
<1>2. PushedOf(none, t, 0)
  <2>1. none \in Seq(Nat) /\ Len(none) = 0
    BY <1>1
  <2>2. {j \in 1..0 : K!IsTask(t[j])} = {} /\ 1..0 = {}
    OBVIOUS
  <2> QED
    BY <2>1, <2>2, FS_EmptySet DEF PushedOf
<1>3. ASSUME NEW i \in 1..n, NEW s, PushedOf(s, t, i - 1)
      PROVE  PushedOf(Push(i, s), t, i)
  BY <1>0, <1>3, PushedAppend
<1>4. ASSUME NEW i \in 1..n, NEW s \in Seq(Nat) PROVE Push(i, s) \in Seq(Nat)
  <2>1. i \in Nat
    OBVIOUS
  <2> QED
    BY <2>1, AppendProperties
<1>5. K!Tasks(t) = upTo[n]
  BY <1>0, <1>1 DEF K!Tasks, K!Pushed
<1> HIDE DEF Push
<1>6. step \in [1..n -> [Seq(Nat) -> Seq(Nat)]]
  <2>1. \A i \in 1..n : [s \in Seq(Nat) |-> Push(i, s)] \in [Seq(Nat) -> Seq(Nat)]
    BY <1>4
  <2> QED
    BY <2>1
<1>7. PICK f \in [0..n -> Seq(Nat)] : Follows(f, none, step, n)
  <2>1. none \in Seq(Nat)
    BY <1>1
  <2> HIDE DEF step
  <2> QED
    BY <1>6, <2>1, RecursionExists
<1>8. Eq(f)
  <2>1. f[0] = none
    BY <1>7 DEF Follows
  <2>2. ASSUME NEW i \in 0..n, i # 0 PROVE f[i] = Push(i, f[i - 1])
    <3>1. i \in 1..n
      BY <2>2
    <3>2. i - 1 \in 0..n
      BY <3>1, Before
    <3>3. f[i] = step[i][f[i - 1]] /\ f[i - 1] \in Seq(Nat)
      BY <1>7, <3>1, <3>2 DEF Follows
    <3> QED
      BY <3>1, <3>3
  <2> QED
    BY <1>7, <2>1, <2>2
<1>9. Eq(upTo)
  <2> HIDE DEF Eq
  <2> QED
    BY <1>8
<1>10. upTo = [i \in 0..n |-> IF i = 0 THEN none ELSE Push(i, upTo[i - 1])]
  BY <1>9
<1> HIDE DEF upTo
<1>11. PushedOf(upTo[n], t, n)
  <2> DEFINE Good == {i \in 0..n : PushedOf(upTo[i], t, i)}
  <2>1. 0 \in Good
    <3>1. 0 \in 0..n
      OBVIOUS
    <3>2. upTo[0] = none
      BY <1>10, <3>1
    <3> QED
      BY <1>2, <3>1, <3>2
  <2>2. ASSUME NEW i \in 1..n, i - 1 \in Good PROVE i \in Good
    <3>1. i \in 0..n /\ i # 0
      BY Before
    <3>2. upTo[i] = Push(i, upTo[i - 1])
      BY <1>10, <3>1
    <3> QED
      BY <1>3, <2>2, <3>1, <3>2
  <2>3. Good \in SUBSET (0..n)
    OBVIOUS
  <2>4. n \in 0..n
    OBVIOUS
  <2> HIDE DEF Good
  <2>5. Good = 0..n
    BY <2>1, <2>2, <2>3, UpTo
  <2> QED
    BY <2>4, <2>5 DEF Good
<1> QED
  BY <1>0, <1>5, <1>11

(* Two texts with the same lines but for what is done in bulleted tasks.    *)
Alike(t, u) ==
    /\ Len(t) = Len(u)
    /\ \A i \in 1..Len(t) : t[i].kind = u[i].kind /\ (t[i].kind # "bullet" => t[i] = u[i])

Marked(t, i, ready) == IF t[i].kind = "bullet" THEN [t EXCEPT ![i].done = ready] ELSE t

LEMMA ToggledIs ==
  ASSUME NEW t \in Seq(K!Lines), NEW i \in 1..Len(t), K!IsTask(t[i]), NEW ready \in BOOLEAN
  PROVE  K!ToggledAtIndex(t, K!Place(t, i), ready) = Marked(t, i, ready)
<1>1. PushedOf(K!Tasks(t), t, Len(t))
  BY TasksAre
<1>2. K!Place(t, i) \in DOMAIN K!Tasks(t) /\ K!Tasks(t)[K!Place(t, i)] = i
  BY <1>1 DEF PushedOf
<1>3. t[i].kind \in {"bullet", "numbered"}
  <2>1. t[i] \in K!Lines
    BY ElementOfSeq
  <2> QED
    BY <2>1 DEF K!Lines, K!IsTask
<1> QED
  BY <1>2, <1>3 DEF K!ToggledAtIndex, K!ToggledAtLine, Marked

LEMMA MarkedIs ==
  ASSUME NEW t \in Seq(K!Lines), NEW i \in 1..Len(t), NEW ready \in BOOLEAN
  PROVE  Marked(t, i, ready) \in Seq(K!Lines) /\ Alike(Marked(t, i, ready), t)
<1>1. CASE t[i].kind = "bullet"
  <2>1. t[i] \in K!Lines
    BY ElementOfSeq
  <2>0. PICK d \in K!Lines : d = t[i]
    BY <2>1
  <2>2. PICK e \in K!Lines : e = [d EXCEPT !.done = ready] /\ e.kind = d.kind
    <3>1. PICK e : e = [d EXCEPT !.done = ready]
      OBVIOUS
    <3>2. e \in K!Lines /\ e.kind = d.kind
      BY <3>1 DEF K!Lines
    <3> QED
      BY <3>1, <3>2
  <2>3. PICK u : u = Marked(t, i, ready)
    OBVIOUS
  <2>4. u = [t EXCEPT ![i] = e]
    BY <1>1, <2>0, <2>2, <2>3 DEF Marked
  <2>5. u \in Seq(K!Lines) /\ Len(u) = Len(t) /\ \A j \in 1..Len(t) : u[j] = IF j = i THEN e ELSE t[j]
    BY <2>4, ExceptSeq
  <2> QED
    BY <1>1, <2>0, <2>2, <2>3, <2>5 DEF Alike
<1>2. CASE t[i].kind # "bullet"
  BY <1>2 DEF Marked, Alike
<1> QED
  BY <1>1, <1>2

LEMMA AlikeTransitive ==
  ASSUME NEW t \in Seq(K!Lines), NEW u \in Seq(K!Lines), NEW v \in Seq(K!Lines), Alike(t, u), Alike(u, v)
  PROVE  Alike(t, v)
BY DEF Alike

LEMMA AlikeSymmetric ==
  ASSUME NEW t \in Seq(K!Lines), NEW u \in Seq(K!Lines), Alike(t, u)
  PROVE  Alike(u, t)
BY DEF Alike

(* All texts are alike. With one change at a time, the text at the server   *)
(* is the one wanted unless an update has been sent, which has it; what is  *)
(* on its way to the page, or is shown there, is the server's text unless   *)
(* an event has still to arrive or the page has taken back a change that    *)
(* was made.                                                                *)
HasRead == Len(refetch) = 2 /\ refetch[2] \in Seq(K!Lines)
RefetchTyped == refetch = <<"none">> \/ refetch = <<"sent">> \/ HasRead

TaskTyped ==
    /\ unhurried \in BOOLEAN /\ inDetail \in BOOLEAN /\ rolledBack \in BOOLEAN
    /\ text \in Seq(K!Lines) /\ read \in Seq(K!Lines) /\ clicked \in Seq(K!Lines)
    /\ RefetchTyped
    /\ update \in [Requests -> [step : {"sent", "done"}, new : Seq(K!Lines), old : Seq(K!Lines)] \cup {K!Free}]

Made(o) == update[o] # K!Free
Sent(o) == Made(o) /\ update[o].step = "sent"

TextsAlike ==
    /\ Alike(text, clicked) /\ Alike(read, clicked)
    /\ Len(refetch) = 2 => Alike(refetch[2], clicked)
    /\ \A o \in Requests : Made(o) => Alike(update[o].new, clicked) /\ Alike(update[o].old, clicked)

InTurn ==
    /\ \A o, p \in Requests : Made(o) /\ Made(p) => o = p
    /\ ~event /\ Len(refetch) = 2 => refetch[2] = text
    /\ (\A o \in Requests : ~Sent(o)) => text = clicked /\ (~event /\ ~rolledBack /\ refetch = <<"none">> => read = text)
    /\ \A o \in Requests : Sent(o) =>
          /\ ~event /\ ~rolledBack /\ refetch = <<"none">> /\ update[o].old = text /\ update[o].new = clicked
          /\ read = IF inDetail THEN update[o].new ELSE update[o].old
    /\ \A o \in Requests : Made(o) /\ ~Sent(o) => update[o].new = text

TaskInv == TaskTyped /\ TextsAlike /\ (unhurried => InTurn)

UpdateOf == [step : {"sent", "done"}, new : Seq(K!Lines), old : Seq(K!Lines)]

LEMMA RefetchKinds ==
  /\ Len(<<"none">>) = 1 /\ Len(<<"sent">>) = 1 /\ <<"none">> # <<"sent">>
  /\ \A t : <<"read", t>> # <<"none">> /\ <<"read", t>> # <<"sent">> /\ Len(<<"read", t>>) = 2 /\ <<"read", t>>[2] = t
<1>1. <<"none">>[1] # <<"sent">>[1]
  OBVIOUS
<1>2. ASSUME NEW t PROVE <<"read", t>> # <<"none">> /\ <<"read", t>> # <<"sent">> /\ Len(<<"read", t>>) = 2 /\ <<"read", t>>[2] = t
  <2>1. Len(<<"read", t>>) = 2 /\ Len(<<"none">>) = 1 /\ Len(<<"sent">>) = 1
    OBVIOUS
  <2> QED
    BY <2>1
<1> QED
  BY <1>1, <1>2

LEMMA TasksStart ==
  ASSUME K!Init, unhurried \in BOOLEAN
  PROVE  TaskInv
<1>1. text \in Seq(K!Lines) /\ read = text /\ clicked = text
  <2>1. TaskTexts \in SUBSET Seq(K!Lines)
    BY DEF TaskTexts, Task, K!Lines
  <2> QED
    BY <2>1 DEF K!Init
<1>2. Alike(text, text)
  BY DEF Alike
<1>3. \A o \in Requests : ~Made(o)
  BY DEF K!Init, Made
<1>4. TaskTyped /\ refetch = <<"none">> /\ event = FALSE
  <2>1. update \in [Requests -> UpdateOf \cup {K!Free}] /\ refetch = <<"none">> /\ event = FALSE
        /\ inDetail \in BOOLEAN /\ rolledBack = FALSE
    BY DEF K!Init
  <2>2. RefetchTyped
    BY <2>1 DEF RefetchTyped
  <2> QED
    BY <1>1, <2>1, <2>2 DEF TaskTyped, UpdateOf
<1>5. Len(refetch) # 2
  BY <1>4, RefetchKinds
<1> QED
  BY <1>1, <1>2, <1>3, <1>4, <1>5 DEF TaskInv, TextsAlike, InTurn, Sent

(* Texts alike stay alike when what is wanted is marked. *)
LEMMA AlikeStays ==
  ASSUME TaskTyped, TextsAlike, NEW wish \in Seq(K!Lines), Alike(wish, clicked)
  PROVE  /\ Alike(text, wish) /\ Alike(read, wish)
         /\ Len(refetch) = 2 => Alike(refetch[2], wish)
         /\ \A o \in Requests : Made(o) => Alike(update[o].new, wish) /\ Alike(update[o].old, wish)
<1>0. clicked \in Seq(K!Lines) /\ text \in Seq(K!Lines) /\ read \in Seq(K!Lines)
  BY DEF TaskTyped
<1>1. Alike(clicked, wish)
  BY <1>0, AlikeSymmetric
<1>2. \A t \in Seq(K!Lines) : Alike(t, clicked) => Alike(t, wish)
  BY <1>0, <1>1, AlikeTransitive
<1>3. Len(refetch) = 2 => refetch[2] \in Seq(K!Lines)
  <2>1. refetch = <<"none">> \/ refetch = <<"sent">> \/ HasRead
    BY DEF TaskTyped, RefetchTyped
  <2>2. refetch = <<"none">> \/ refetch = <<"sent">> => Len(refetch) # 2
    BY RefetchKinds
  <2>3. HasRead => refetch[2] \in Seq(K!Lines)
    BY DEF HasRead
  <2> QED
    BY <2>1, <2>2, <2>3
<1>4. \A o \in Requests : Made(o) => update[o].new \in Seq(K!Lines) /\ update[o].old \in Seq(K!Lines)
  BY DEF TaskTyped, Made
<1> QED
  BY <1>0, <1>2, <1>3, <1>4 DEF TextsAlike

(* What a click on a task sends, and what it is meant to change. *)
LEMMA ClickIs ==
  ASSUME TaskInv, NEW o \in Requests, NEW i \in DOMAIN read, K!Click(o, i)
  PROVE  \E new, wish \in Seq(K!Lines) :
            /\ Alike(new, clicked) /\ Alike(wish, clicked) /\ (read = clicked => wish = new)
            /\ ~Made(o) /\ (unhurried => K!Settled /\ ~rolledBack)
            /\ update' = [update EXCEPT ![o] = [step |-> "sent", new |-> new, old |-> read]]
            /\ clicked' = wish
            /\ IF inDetail THEN read' = new /\ refetch' = <<"none">> ELSE UNCHANGED <<read, refetch>>
            /\ UNCHANGED <<unhurried, inDetail, rolledBack, text, event>>
<1>1. i \in 1..Len(read) /\ read \in Seq(K!Lines) /\ clicked \in Seq(K!Lines) /\ K!IsTask(read[i])
  BY DEF K!Click, TaskInv, TaskTyped
<1>2. PICK ready \in BOOLEAN : ready = ~read[i].done
  OBVIOUS
<1>3. PICK new : new = Marked(read, i, ready)
  OBVIOUS
<1>4. new \in Seq(K!Lines) /\ Alike(new, read)
  BY <1>1, <1>3, MarkedIs
<1>5. K!ToggledAtIndex(read, K!Place(read, i), ~read[i].done) = new
  BY <1>1, <1>2, <1>3, ToggledIs
<1>6. Alike(read, clicked)
  BY DEF TaskInv, TextsAlike
<1>7. Alike(new, clicked) /\ i \in 1..Len(clicked) /\ clicked[i].kind = read[i].kind
  <2>1. Alike(new, clicked)
    BY <1>1, <1>4, <1>6, AlikeTransitive
  <2> QED
    BY <1>1, <1>6, <2>1 DEF Alike
<1>8. PICK wish : wish = Marked(clicked, i, ready)
  OBVIOUS
<1>9. wish \in Seq(K!Lines) /\ Alike(wish, clicked)
  BY <1>1, <1>7, <1>8, MarkedIs
<1>10. read = clicked => wish = new
  BY <1>3, <1>8
<1>11. clicked' = wish
  BY <1>2, <1>7, <1>8 DEF K!Click, Marked
<1>12. /\ ~Made(o) /\ (unhurried => K!Settled /\ ~rolledBack)
       /\ update' = [update EXCEPT ![o] = [step |-> "sent", new |-> new, old |-> read]]
       /\ IF inDetail THEN read' = new /\ refetch' = <<"none">> ELSE UNCHANGED <<read, refetch>>
       /\ UNCHANGED <<unhurried, inDetail, rolledBack, text, event>>
  BY <1>5 DEF K!Click, Made
<1> QED
  BY <1>4, <1>7, <1>9, <1>10, <1>11, <1>12

LEMMA ClickKeeps ==
  ASSUME TaskInv, NEW o \in Requests, NEW i \in DOMAIN read, K!Click(o, i)
  PROVE  TaskInv'
<1>0. TaskTyped /\ TextsAlike
  BY DEF TaskInv
<1>1. PICK new, wish \in Seq(K!Lines) :
            /\ Alike(new, clicked) /\ Alike(wish, clicked) /\ (read = clicked => wish = new)
            /\ ~Made(o) /\ (unhurried => K!Settled /\ ~rolledBack)
            /\ update' = [update EXCEPT ![o] = [step |-> "sent", new |-> new, old |-> read]]
            /\ clicked' = wish
            /\ IF inDetail THEN read' = new /\ refetch' = <<"none">> ELSE UNCHANGED <<read, refetch>>
            /\ UNCHANGED <<unhurried, inDetail, rolledBack, text, event>>
  BY ClickIs
<1>2. PICK u \in UpdateOf : u = [step |-> "sent", new |-> new, old |-> read]
  BY <1>0 DEF UpdateOf, TaskTyped
<1>3. u.step = "sent" /\ u.new = new /\ u.old = read /\ u # K!Free
  BY <1>2 DEF UpdateOf, K!Free
<1>4. /\ update \in [Requests -> UpdateOf \cup {K!Free}]
      /\ update' = [update EXCEPT ![o] = u] /\ update'[o] = u
      /\ \A p \in Requests \ {o} : update'[p] = update[p]
  BY <1>0, <1>1, <1>2 DEF TaskTyped, UpdateOf
<1>5. TaskTyped'
  <2>1. update' \in [Requests -> UpdateOf \cup {K!Free}]
    BY <1>4
  <2>2. /\ unhurried' \in BOOLEAN /\ inDetail' \in BOOLEAN /\ rolledBack' \in BOOLEAN
        /\ text' \in Seq(K!Lines) /\ read' \in Seq(K!Lines) /\ clicked' \in Seq(K!Lines)
    BY <1>0, <1>1 DEF TaskTyped
  <2>3. refetch' = refetch \/ refetch' = <<"none">>
    BY <1>1
  <2>4. RefetchTyped'
    <3>1. RefetchTyped
      BY <1>0 DEF TaskTyped
    <3>2. HasRead /\ refetch' = refetch => HasRead'
      BY DEF HasRead
    <3> QED
      BY <2>3, <3>1, <3>2 DEF RefetchTyped
  <2> QED
    BY <2>1, <2>2, <2>4 DEF TaskTyped, UpdateOf
<1>6. Made(o)' /\ Sent(o)' /\ \A p \in Requests \ {o} : (Made(p)' <=> Made(p)) /\ (Sent(p)' <=> Sent(p))
  BY <1>3, <1>4 DEF Made, Sent
<1>7. Alike(new, wish)
  <2>1. clicked \in Seq(K!Lines)
    BY <1>0 DEF TaskTyped
  <2> QED
    BY <1>1, <2>1, AlikeSymmetric, AlikeTransitive
<1>8. TextsAlike'
  <2>1. /\ Alike(text, wish) /\ Alike(read, wish)
        /\ Len(refetch) = 2 => Alike(refetch[2], wish)
        /\ \A p \in Requests : Made(p) => Alike(update[p].new, wish) /\ Alike(update[p].old, wish)
    BY <1>0, <1>1, AlikeStays
  <2>2. Alike(text', clicked') /\ Alike(read', clicked')
    BY <1>1, <1>7, <2>1
  <2>3. Len(refetch') = 2 => Alike(refetch'[2], clicked')
    BY <1>1, <2>1, RefetchKinds
  <2>4. ASSUME NEW p \in Requests, Made(p)' PROVE Alike(update'[p].new, clicked') /\ Alike(update'[p].old, clicked')
    <3>1. CASE p = o
      BY <1>1, <1>3, <1>4, <1>7, <2>1, <3>1
    <3>2. CASE p # o
      BY <1>1, <1>4, <1>6, <2>1, <2>4, <3>2
    <3> QED
      BY <3>1, <3>2
  <2> QED
    BY <2>2, <2>3, <2>4 DEF TextsAlike
<1>9. ASSUME unhurried PROVE InTurn'
  <2>1. /\ \A p \in Requests : ~Made(p)
        /\ refetch = <<"none">> /\ ~event /\ ~rolledBack
    BY <1>1, <1>9 DEF K!Settled, K!Idle, Made
  <2>2. text = clicked /\ read = text
    BY <1>9, <2>1 DEF TaskInv, InTurn, Sent
  <2>3. wish = new /\ read' = (IF inDetail THEN new ELSE read) /\ refetch' = <<"none">> /\ ~event'
    BY <1>1, <2>1, <2>2
  <2>4. Len(refetch') # 2
    BY <2>3, RefetchKinds
  <2>5. \A p \in Requests : Made(p)' => p = o
    BY <1>6, <2>1
  <2> QED
    BY <1>1, <1>3, <1>4, <1>6, <2>1, <2>2, <2>3, <2>4, <2>5 DEF InTurn, Sent
<1> QED
  BY <1>1, <1>5, <1>8, <1>9 DEF TaskInv

(* An update is served, answered or refused: its slot goes on or is free.   *)
LEMMA SlotsOf ==
  ASSUME TaskTyped, NEW o \in Requests
  PROVE  /\ Made(o) => update[o] \in UpdateOf
         /\ ~Made(o) => update[o].step = "none"
BY DEF TaskTyped, Made, UpdateOf, K!Free

LEMMA ServedKeeps ==
  ASSUME TaskInv, NEW o \in Requests, K!Served(o)
  PROVE  TaskInv'
<1>0. TaskTyped /\ TextsAlike
  BY DEF TaskInv
<1>1. Made(o) /\ Sent(o) /\ update[o] \in UpdateOf
  <2>1. update[o].step = "sent"
    BY DEF K!Served
  <2> QED
    BY <1>0, <2>1, SlotsOf DEF Sent
<1>2. PICK u \in UpdateOf : u = [update[o] EXCEPT !.step = "done"] /\ u.step = "done" /\ u.new = update[o].new /\ u.old = update[o].old
  <2>1. PICK v \in UpdateOf : v = update[o]
    BY <1>1
  <2>2. PICK u : u = [v EXCEPT !.step = "done"]
    OBVIOUS
  <2>3. u \in UpdateOf /\ u.step = "done" /\ u.new = v.new /\ u.old = v.old
    BY <2>2 DEF UpdateOf
  <2> QED
    BY <2>1, <2>2, <2>3
<1>3. u # K!Free
  BY <1>2 DEF K!Free
<1>4. /\ text' = u.new /\ event' = TRUE /\ update' = [update EXCEPT ![o] = u]
      /\ UNCHANGED <<unhurried, inDetail, rolledBack, read, refetch, clicked>>
  BY <1>2 DEF K!Served
<1>5. /\ update' \in [Requests -> UpdateOf \cup {K!Free}] /\ update'[o] = u
      /\ \A p \in Requests \ {o} : update'[p] = update[p]
  BY <1>0, <1>4 DEF TaskTyped, UpdateOf
<1>6. TaskTyped'
  <2>1. u.new \in Seq(K!Lines)
    BY DEF UpdateOf
  <2>2. RefetchTyped'
    BY <1>0, <1>4 DEF TaskTyped, RefetchTyped, HasRead
  <2> QED
    BY <1>0, <1>4, <1>5, <2>1, <2>2 DEF TaskTyped, UpdateOf
<1>7. /\ Made(o)' /\ ~Sent(o)'
      /\ \A p \in Requests \ {o} : (Made(p)' <=> Made(p)) /\ (Sent(p)' <=> Sent(p))
  BY <1>2, <1>3, <1>5 DEF Made, Sent
<1>8. TextsAlike'
  <2>1. Alike(u.new, clicked) /\ Alike(u.old, clicked)
    BY <1>0, <1>1, <1>2 DEF TextsAlike
  <2>2. ASSUME NEW p \in Requests, Made(p)' PROVE Alike(update'[p].new, clicked) /\ Alike(update'[p].old, clicked)
    <3>1. CASE p = o
      BY <1>5, <2>1, <3>1
    <3>2. CASE p # o
      BY <1>0, <1>5, <1>7, <2>2, <3>2 DEF TextsAlike
    <3> QED
      BY <3>1, <3>2
  <2> QED
    BY <1>0, <1>4, <2>1, <2>2 DEF TextsAlike
<1>9. ASSUME unhurried PROVE InTurn'
  <2>1. InTurn
    BY <1>9 DEF TaskInv
  <2>2. update[o].new = clicked /\ \A p \in Requests : Made(p) => p = o
    BY <1>1, <2>1 DEF InTurn
  <2>3. \A p \in Requests : Made(p)' => p = o
    BY <1>7, <2>2
  <2>4. text' = clicked' /\ event' /\ update'[o].new = text'
    BY <1>2, <1>4, <1>5, <2>2
  <2> QED
    BY <1>7, <2>3, <2>4 DEF InTurn, Sent
<1> QED
  BY <1>4, <1>6, <1>8, <1>9 DEF TaskInv

LEMMA SucceedsKeeps ==
  ASSUME TaskInv, NEW o \in Requests, K!Succeeds(o)
  PROVE  TaskInv'
<1>0. TaskTyped /\ TextsAlike
  BY DEF TaskInv
<1>1. Made(o) /\ ~Sent(o) /\ update[o] \in UpdateOf
  <2>1. update[o].step = "done"
    BY DEF K!Succeeds
  <2> QED
    BY <1>0, <2>1, SlotsOf DEF Sent
<1>2. PICK new \in Seq(K!Lines) : new = update[o].new
  BY <1>1 DEF UpdateOf
<1>3. /\ update' = [update EXCEPT ![o] = K!Free]
      /\ IF inDetail THEN read' = new /\ UNCHANGED refetch ELSE refetch' = <<"sent">> /\ UNCHANGED read
      /\ UNCHANGED <<unhurried, inDetail, rolledBack, text, event, clicked>>
  BY <1>2 DEF K!Succeeds
<1>4. /\ update' \in [Requests -> UpdateOf \cup {K!Free}] /\ ~Made(o)'
      /\ \A p \in Requests \ {o} : update'[p] = update[p] /\ (Made(p)' <=> Made(p)) /\ (Sent(p)' <=> Sent(p))
  BY <1>0, <1>3 DEF TaskTyped, UpdateOf, Made, Sent
<1>5. TaskTyped'
  <2>1. RefetchTyped'
    <3>1. RefetchTyped
      BY <1>0 DEF TaskTyped
    <3>2. HasRead /\ refetch' = refetch => HasRead'
      BY DEF HasRead
    <3>3. refetch' = refetch \/ refetch' = <<"sent">>
      BY <1>3
    <3> QED
      BY <3>1, <3>2, <3>3 DEF RefetchTyped
  <2>2. read' \in Seq(K!Lines)
    BY <1>0, <1>3 DEF TaskTyped
  <2> QED
    BY <1>0, <1>3, <1>4, <2>1, <2>2 DEF TaskTyped, UpdateOf
<1>6. TextsAlike'
  <2>1. Alike(new, clicked)
    BY <1>0, <1>1, <1>2 DEF TextsAlike
  <2>2. Alike(text', clicked') /\ Alike(read', clicked')
    BY <1>0, <1>3, <2>1 DEF TextsAlike
  <2>3. Len(refetch') = 2 => Alike(refetch'[2], clicked')
    BY <1>0, <1>3, RefetchKinds DEF TextsAlike
  <2> QED
    BY <1>0, <1>3, <1>4, <2>2, <2>3 DEF TextsAlike
<1>7. ASSUME unhurried PROVE InTurn'
  <2>1. InTurn
    BY <1>7 DEF TaskInv
  <2>2. \A p \in Requests : ~Made(p)'
    BY <1>1, <1>4, <2>1 DEF InTurn
  <2>3. \A p \in Requests : ~Sent(p)
    BY <1>1, <2>1 DEF InTurn, Sent
  <2>4. new = text /\ text = clicked /\ (~event /\ Len(refetch) = 2 => refetch[2] = text)
        /\ (~event /\ ~rolledBack /\ refetch = <<"none">> => read = text)
    BY <1>1, <1>2, <2>1, <2>3 DEF InTurn
  <2>5. ~event' /\ Len(refetch') = 2 => refetch'[2] = text'
    BY <1>3, <2>4, RefetchKinds
  <2>6. ~event' /\ ~rolledBack' /\ refetch' = <<"none">> => read' = text'
    BY <1>3, <2>4, RefetchKinds
  <2> QED
    BY <1>3, <2>2, <2>4, <2>5, <2>6 DEF InTurn, Sent
<1> QED
  BY <1>3, <1>5, <1>6, <1>7 DEF TaskInv

LEMMA RefusedKeeps ==
  ASSUME TaskInv, NEW o \in Requests, K!Fails(o)
  PROVE  TaskInv'
<1>0. TaskTyped /\ TextsAlike
  BY DEF TaskInv
<1>1. Made(o) /\ Sent(o) /\ update[o] \in UpdateOf
  <2>1. update[o].step = "sent"
    BY DEF K!Fails
  <2> QED
    BY <1>0, <2>1, SlotsOf DEF Sent
<1>2. PICK old \in Seq(K!Lines) : old = update[o].old
  BY <1>1 DEF UpdateOf
<1>3. /\ update' = [update EXCEPT ![o] = K!Free] /\ clicked' = text
      /\ read' = IF inDetail THEN old ELSE read
      /\ UNCHANGED <<unhurried, inDetail, rolledBack, text, refetch, event>>
  BY <1>2 DEF K!Fails
<1>4. /\ update' \in [Requests -> UpdateOf \cup {K!Free}] /\ ~Made(o)'
      /\ \A p \in Requests \ {o} : update'[p] = update[p] /\ (Made(p)' <=> Made(p)) /\ (Sent(p)' <=> Sent(p))
  BY <1>0, <1>3 DEF TaskTyped, UpdateOf, Made, Sent
<1>5. TaskTyped'
  <2>1. RefetchTyped'
    <3>1. RefetchTyped
      BY <1>0 DEF TaskTyped
    <3>2. HasRead /\ refetch' = refetch => HasRead'
      BY DEF HasRead
    <3>3. refetch' = refetch \/ refetch' = <<"sent">>
      BY <1>3
    <3> QED
      BY <3>1, <3>2, <3>3 DEF RefetchTyped
  <2>2. read' \in Seq(K!Lines)
    BY <1>0, <1>3 DEF TaskTyped
  <2> QED
    BY <1>0, <1>3, <1>4, <2>1, <2>2 DEF TaskTyped, UpdateOf
<1>6. TextsAlike'
  <2>1. text \in Seq(K!Lines) /\ Alike(text, clicked)
    BY <1>0 DEF TaskTyped, TextsAlike
  <2>2. /\ Alike(text, text) /\ Alike(read, text)
        /\ Len(refetch) = 2 => Alike(refetch[2], text)
        /\ \A p \in Requests : Made(p) => Alike(update[p].new, text) /\ Alike(update[p].old, text)
    BY <1>0, <2>1, AlikeStays
  <2>3. Alike(old, text)
    BY <1>1, <1>2, <2>2
  <2> QED
    BY <1>3, <1>4, <2>2, <2>3 DEF TextsAlike
<1>7. ASSUME unhurried PROVE InTurn'
  <2>1. InTurn
    BY <1>7 DEF TaskInv
  <2>2. \A p \in Requests : ~Made(p)'
    BY <1>1, <1>4, <2>1 DEF InTurn
  <2>3. ~event /\ refetch = <<"none">> /\ old = text /\ read = IF inDetail THEN update[o].new ELSE old
    BY <1>1, <1>2, <2>1 DEF InTurn
  <2>4. read' = text' /\ Len(refetch') # 2
    BY <1>3, <2>3, RefetchKinds
  <2> QED
    BY <1>3, <2>2, <2>4 DEF InTurn, Sent
<1> QED
  BY <1>3, <1>5, <1>6, <1>7 DEF TaskInv

LEMMA LostKeeps ==
  ASSUME TaskInv, NEW o \in Requests, K!AnswerLost(o)
  PROVE  TaskInv'
<1>0. TaskTyped /\ TextsAlike
  BY DEF TaskInv
<1>1. Made(o) /\ ~Sent(o) /\ update[o] \in UpdateOf
  <2>1. update[o].step = "done"
    BY DEF K!AnswerLost
  <2> QED
    BY <1>0, <2>1, SlotsOf DEF Sent
<1>2. PICK old \in Seq(K!Lines) : old = update[o].old
  BY <1>1 DEF UpdateOf
<1>3. /\ update' = [update EXCEPT ![o] = K!Free] /\ rolledBack' \in BOOLEAN
      /\ \/ inDetail /\ read' = old /\ rolledBack'
         \/ read' = read /\ rolledBack' = rolledBack
      /\ UNCHANGED <<unhurried, inDetail, text, clicked, refetch, event>>
  BY <1>0, <1>2 DEF K!AnswerLost, TaskTyped
<1>4. /\ update' \in [Requests -> UpdateOf \cup {K!Free}] /\ ~Made(o)'
      /\ \A p \in Requests \ {o} : update'[p] = update[p] /\ (Made(p)' <=> Made(p)) /\ (Sent(p)' <=> Sent(p))
  BY <1>0, <1>3 DEF TaskTyped, UpdateOf, Made, Sent
<1>5. TaskTyped'
  <2>1. RefetchTyped'
    <3>1. RefetchTyped
      BY <1>0 DEF TaskTyped
    <3>2. HasRead /\ refetch' = refetch => HasRead'
      BY DEF HasRead
    <3>3. refetch' = refetch \/ refetch' = <<"sent">>
      BY <1>3
    <3> QED
      BY <3>1, <3>2, <3>3 DEF RefetchTyped
  <2>2. read' \in Seq(K!Lines)
    BY <1>0, <1>3 DEF TaskTyped
  <2> QED
    BY <1>0, <1>3, <1>4, <2>1, <2>2 DEF TaskTyped, UpdateOf
<1>6. TextsAlike'
  <2>1. Alike(old, clicked)
    BY <1>0, <1>1, <1>2 DEF TextsAlike
  <2>2. Alike(read', clicked)
    BY <1>0, <1>3, <2>1 DEF TextsAlike
  <2>3. \A p \in Requests : Made(p)' => Alike(update'[p].new, clicked) /\ Alike(update'[p].old, clicked)
    BY <1>0, <1>4 DEF TextsAlike
  <2> QED
    BY <1>0, <1>3, <2>2, <2>3 DEF TextsAlike
<1>7. ASSUME unhurried PROVE InTurn'
  <2>1. InTurn
    BY <1>7 DEF TaskInv
  <2>2. (\A p \in Requests : ~Made(p)') /\ (\A p \in Requests : ~Sent(p))
    BY <1>1, <1>4, <2>1 DEF InTurn, Sent
  <2>3. text = clicked /\ (~event /\ ~rolledBack /\ refetch = <<"none">> => read = text)
    BY <2>1, <2>2 DEF InTurn
  <2>4. ~event' /\ ~rolledBack' /\ refetch' = <<"none">> => read' = text'
    BY <1>3, <2>3
  <2>5. ~event' /\ Len(refetch') = 2 => refetch'[2] = text'
    BY <1>3, <2>1 DEF InTurn
  <2> QED
    BY <1>3, <2>2, <2>3, <2>4, <2>5 DEF InTurn, Sent
<1> QED
  BY <1>3, <1>5, <1>6, <1>7 DEF TaskInv

LEMMA OthersKeep ==
  ASSUME TaskInv, NEW i \in DOMAIN text, K!Others(i)
  PROVE  TaskInv'
<1>0. TaskTyped /\ TextsAlike
  BY DEF TaskInv
<1>1. i \in 1..Len(text) /\ text \in Seq(K!Lines) /\ clicked \in Seq(K!Lines) /\ text[i].kind = "bullet"
  BY <1>0 DEF TaskTyped, K!Others
<1>2. PICK ready \in BOOLEAN : ready = ~text[i].done
  OBVIOUS
<1>3. Alike(text, clicked) /\ i \in 1..Len(clicked) /\ clicked[i].kind = "bullet"
  BY <1>0, <1>1 DEF TextsAlike, Alike
<1>4. PICK new : new = Marked(text, i, ready)
  OBVIOUS
<1>5. PICK wish : wish = Marked(clicked, i, ready)
  OBVIOUS
<1>6. new \in Seq(K!Lines) /\ Alike(new, text)
  BY <1>1, <1>4, MarkedIs
<1>7. wish \in Seq(K!Lines) /\ Alike(wish, clicked)
  BY <1>1, <1>3, <1>5, MarkedIs
<1>8. /\ text' = new /\ clicked' = wish /\ event' = TRUE
      /\ UNCHANGED <<unhurried, inDetail, rolledBack, read, refetch, update>>
  BY <1>1, <1>2, <1>3, <1>4, <1>5 DEF K!Others, Marked
<1>9. TaskTyped'
  <2>1. RefetchTyped'
    BY <1>0, <1>8 DEF TaskTyped, RefetchTyped, HasRead
  <2> QED
    BY <1>0, <1>6, <1>7, <1>8, <2>1 DEF TaskTyped
<1>10. TextsAlike'
  <2>1. /\ Alike(text, wish) /\ Alike(read, wish)
        /\ Len(refetch) = 2 => Alike(refetch[2], wish)
        /\ \A p \in Requests : Made(p) => Alike(update[p].new, wish) /\ Alike(update[p].old, wish)
    BY <1>0, <1>7, AlikeStays
  <2>2. Alike(new, wish)
    BY <1>1, <1>6, <1>7, <2>1, AlikeTransitive
  <2> QED
    BY <1>8, <2>1, <2>2 DEF TextsAlike, Made
<1>11. ASSUME unhurried PROVE InTurn'
  <2>1. InTurn
    BY <1>11 DEF TaskInv
  <2>2. \A p \in Requests : ~Made(p)
    BY <1>11 DEF K!Others, K!Idle, Made
  <2>3. text = clicked
    BY <2>1, <2>2 DEF InTurn, Sent
  <2>4. new = wish
    BY <1>4, <1>5, <2>3
  <2> QED
    BY <1>8, <2>2, <2>4 DEF InTurn, Sent, Made
<1> QED
  BY <1>8, <1>9, <1>10, <1>11 DEF TaskInv

LEMMA HearingKeeps ==
  ASSUME TaskInv, K!Hears \/ K!Focus \/ K!Reads \/ K!Arrives
  PROVE  TaskInv'
<1>0. TaskTyped /\ TextsAlike
  BY DEF TaskInv
<1>1. UNCHANGED <<unhurried, inDetail, text, update, clicked>>
  BY DEF K!Hears, K!Focus, K!Reads, K!Arrives
<1>2. \A p \in Requests : (Made(p)' <=> Made(p)) /\ (Sent(p)' <=> Sent(p))
  BY <1>1 DEF Made, Sent
<1>3. CASE K!Hears
  <2>1. event /\ event' = FALSE /\ UNCHANGED rolledBack /\ refetch' = <<"sent">> /\ read' = read /\ Len(refetch') # 2 /\ refetch' # <<"none">>
    BY <1>3, RefetchKinds DEF K!Hears
  <2>2. TaskTyped' /\ TextsAlike'
    <3>1. RefetchTyped'
      BY <2>1 DEF RefetchTyped
    <3>2. TaskTyped'
      BY <1>0, <1>1, <2>1, <3>1 DEF TaskTyped
    <3>3. TextsAlike'
      BY <1>0, <1>1, <1>2, <2>1 DEF TextsAlike
    <3> QED
      BY <3>2, <3>3
  <2>3. ASSUME unhurried PROVE InTurn'
    <3>1. InTurn
      BY <2>3 DEF TaskInv
    <3>2. \A p \in Requests : ~Sent(p)
      BY <2>1, <3>1 DEF InTurn
    <3> QED
      BY <1>1, <1>2, <2>1, <3>1, <3>2 DEF InTurn
  <2> QED
    BY <1>1, <2>2, <2>3 DEF TaskInv
<1>4. CASE K!Reads
  <2>1. /\ refetch = <<"sent">> /\ refetch' = <<"read", text>> /\ UNCHANGED <<read, event, rolledBack>>
        /\ refetch # <<"none">> /\ refetch' # <<"none">> /\ Len(refetch') = 2 /\ refetch'[2] = text
    BY <1>4, RefetchKinds DEF K!Reads
  <2>2. TaskTyped'
    <3>1. RefetchTyped'
      BY <2>1, <1>0 DEF TaskTyped, RefetchTyped, HasRead
    <3> QED
      BY <1>0, <1>1, <2>1, <3>1 DEF TaskTyped
  <2>3. TextsAlike'
    BY <1>0, <1>1, <1>2, <2>1 DEF TextsAlike
  <2>4. ASSUME unhurried PROVE InTurn'
    <3>1. InTurn
      BY <2>4 DEF TaskInv
    <3>2. \A p \in Requests : ~Sent(p)
      BY <2>1, <3>1 DEF InTurn
    <3> QED
      BY <1>1, <1>2, <2>1, <3>1, <3>2 DEF InTurn
  <2> QED
    BY <1>1, <2>2, <2>3, <2>4 DEF TaskInv
<1>5. CASE K!Arrives
  <2>1. /\ Len(refetch) = 2 /\ refetch # <<"none">> /\ read' = refetch[2] /\ refetch' = <<"none">> /\ Len(refetch') # 2
        /\ rolledBack' = FALSE /\ UNCHANGED event
    BY <1>5, RefetchKinds DEF K!Arrives
  <2>2. refetch[2] \in Seq(K!Lines)
    BY <1>0, <2>1, RefetchKinds DEF TaskTyped, RefetchTyped, HasRead
  <2>3. TaskTyped' /\ TextsAlike'
    <3>1. RefetchTyped'
      BY <2>1 DEF RefetchTyped
    <3>2. TaskTyped'
      BY <1>0, <1>1, <2>1, <2>2, <3>1 DEF TaskTyped
    <3>3. TextsAlike'
      BY <1>0, <1>1, <1>2, <2>1 DEF TextsAlike
    <3> QED
      BY <3>2, <3>3
  <2>4. ASSUME unhurried PROVE InTurn'
    <3>1. InTurn
      BY <2>4 DEF TaskInv
    <3>2. \A p \in Requests : ~Sent(p)
      BY <2>1, <3>1 DEF InTurn
    <3> QED
      BY <1>1, <1>2, <2>1, <3>1, <3>2 DEF InTurn
  <2> QED
    BY <1>1, <2>3, <2>4 DEF TaskInv
<1>6. CASE K!Focus
  <2>1. /\ rolledBack /\ refetch = <<"none">> /\ refetch' = <<"sent">> /\ UNCHANGED <<read, event, rolledBack>>
        /\ Len(refetch') # 2 /\ refetch' # <<"none">>
    BY <1>6, RefetchKinds DEF K!Focus
  <2>2. TaskTyped' /\ TextsAlike'
    <3>1. RefetchTyped'
      BY <2>1 DEF RefetchTyped
    <3>2. TaskTyped'
      BY <1>0, <1>1, <2>1, <3>1 DEF TaskTyped
    <3>3. TextsAlike'
      BY <1>0, <1>1, <1>2, <2>1 DEF TextsAlike
    <3> QED
      BY <3>2, <3>3
  <2>3. ASSUME unhurried PROVE InTurn'
    <3>1. InTurn
      BY <2>3 DEF TaskInv
    <3>2. \A p \in Requests : ~Sent(p)
      BY <2>1, <3>1 DEF InTurn
    <3> QED
      BY <1>1, <1>2, <2>1, <3>1, <3>2 DEF InTurn
  <2> QED
    BY <1>1, <2>2, <2>3 DEF TaskInv
<1> QED
  BY <1>3, <1>4, <1>5, <1>6

LEMMA TasksKept ==
  ASSUME TaskInv, [K!Next]_checkboxes
  PROVE  TaskInv'
<1>1. CASE UNCHANGED checkboxes
  BY <1>1 DEF TaskInv, TaskTyped, RefetchTyped, HasRead, TextsAlike, InTurn, Sent, Made, checkboxes
<1> QED
  BY <1>1, ClickKeeps, ServedKeeps, SucceedsKeeps, RefusedKeeps, LostKeeps, OthersKeep, HearingKeeps DEF K!Next

LEMMA TasksShow ==
  ASSUME TaskInv
  PROVE  K!TasksKeepTheirOwn
<1>1. K!OnlyTasksChange
  <2>1. text \in Seq(K!Lines) /\ Alike(text, clicked)
    BY DEF TaskInv, TaskTyped, TextsAlike
  <2> QED
    BY <2>1 DEF Alike, K!OnlyTasksChange
<1>2. K!Idle => \A o \in Requests : ~Sent(o)
  BY DEF K!Idle, Sent, Made
<1>3. K!TogglesKept
  BY <1>2 DEF TaskInv, InTurn, K!TogglesKept, K!Settled
<1> QED
  BY <1>1, <1>3 DEF K!TasksKeepTheirOwn

ItemsInv == OwnInv /\ TaskInv

(* A form that saves one item never has the text of another, and what a     *)
(* click on a checkbox sends changes the task that was clicked, however     *)
(* many there are (Settings lists, TaskListItem.tsx).                       *)
THEOREM ItemsAlwaysKeepTheirOwn == PagesSpec => []ItemsKeepTheirOwn
<1>1. PagesInit => ItemsInv
  <2>1. K!Init => unhurried \in BOOLEAN
    BY MasonryAssumption DEF K!Init
  <2> QED
    BY <2>1, OwnStarts, TasksStart DEF PagesInit, ItemsInv
<1>2. ItemsInv /\ [PagesNext]_allVars => ItemsInv'
  BY StepsOfParts, OwnKept, TasksKept DEF ItemsInv
<1>3. ItemsInv => ItemsKeepTheirOwn
  <2>1. OwnInv => L!ItemsKeepTheirOwn
    BY DEF OwnInv, OwnList, L!ItemsKeepTheirOwn
  <2> QED
    BY <2>1, TasksShow DEF ItemsInv, ItemsKeepTheirOwn
<1> QED
  BY <1>1, <1>2, <1>3, PTL DEF PagesSpec

-------------------------------------------------------------------------------
(* Lists of the settings at rest. With a user who waits there is one        *)
(* request. Until it is written the page shows the server's list, unless an *)
(* answer was lost; what it has read or fetched is that list; and a webhook *)
(* or a token whose deletion is answered is all the page has too much.      *)
FitsServer(k) ==
    /\ k.does = "delete" => k.text = L!Gone /\ k.item # New
    /\ k.step \in {"read", "fetched"} => k.whole = list
    /\ k.step \in {"sent", "read"} => missed \/ listed = list
    /\ k.step \in {"sent", "read", "written"} /\ kind = "webhook" => k.seen = listed
    /\ k.step = "written" /\ k.does = "delete" /\ kind \in {"webhook", "token"} =>
          missed \/ list = [listed EXCEPT ![k.item] = L!Gone]

AloneInv ==
    patient =>
        /\ \A o, p \in Ops : op[o] # L!Idle /\ op[p] # L!Idle => o = p
        /\ (\A o \in Ops : op[o] = L!Idle) => missed \/ listed = list
        /\ \A o \in Ops : op[o] # L!Idle => FitsServer(op[o])

LEMMA AloneStarts ==
  ASSUME L!Init
  PROVE  AloneInv
BY DEF L!Init, AloneInv

(* One slot is taken, moved on or freed while the others are idle.          *)
LEMMA SlotStays ==
  ASSUME NEW o \in Ops, NEW k, op'[o] = k, \A p \in Ops \ {o} : op'[p] = L!Idle,
         k = L!Idle => missed' \/ listed' = list',
         k # L!Idle => FitsServer(k)'
  PROVE  AloneInv'
<1>1. \A p, q \in Ops : op'[p] # L!Idle /\ op'[q] # L!Idle => p = q
  OBVIOUS
<1>2. (\A p \in Ops : op'[p] = L!Idle) => missed' \/ listed' = list'
  OBVIOUS
<1>3. ASSUME NEW p \in Ops, op'[p] # L!Idle PROVE FitsServer(op[p])'
  <2>1. p = o /\ op'[p] = k
    BY <1>3
  <2> QED
    BY <1>3, <2>1 DEF FitsServer
<1> QED
  BY <1>1, <1>2, <1>3 DEF AloneInv

LEMMA AloneIs ==
  ASSUME OwnInv, AloneInv, patient, NEW o \in Ops, op[o] # L!Idle
  PROVE  op[o] \in OwnOp /\ FitsServer(op[o]) /\ \A p \in Ops \ {o} : op[p] = L!Idle
BY DEF OwnInv, AloneInv

LEMMA SlotSet ==
  ASSUME OwnInv, NEW o \in Ops, NEW k, \A p \in Ops \ {o} : op[p] = L!Idle, op' = [op EXCEPT ![o] = k]
  PROVE  op'[o] = k /\ \A p \in Ops \ {o} : op'[p] = L!Idle
BY DEF OwnInv

(* Records of requests, as their steps leave them.                          *)
LEMMA Advanced ==
  ASSUME NEW k \in OwnOp, NEW s, NEW d
  PROVE  /\ [k EXCEPT !.step = s, !.whole = d].step = s /\ [k EXCEPT !.step = s, !.whole = d].whole = d
         /\ [k EXCEPT !.step = s, !.whole = d].does = k.does /\ [k EXCEPT !.step = s, !.whole = d].item = k.item
         /\ [k EXCEPT !.step = s, !.whole = d].text = k.text /\ [k EXCEPT !.step = s, !.whole = d].seen = k.seen
         /\ [k EXCEPT !.step = s, !.seen = d].step = s /\ [k EXCEPT !.step = s, !.seen = d].does = k.does
         /\ [k EXCEPT !.step = s, !.seen = d].item = k.item /\ [k EXCEPT !.step = s, !.seen = d].text = k.text
BY DEF OwnOp

LEMMA RequestAlone ==
  ASSUME OwnInv, AloneInv, patient, NEW o \in Ops, L!Save(o) \/ L!Confirm(o)
  PROVE  AloneInv'
<1>1. (\A p \in Ops : op[p] = L!Idle) /\ (missed \/ listed = list)
  BY DEF L!Save, L!Confirm, L!Free, AloneInv
<1>2. UNCHANGED <<list, listed, missed, kind>>
  BY DEF L!Save, L!Confirm, L!user, L!dialog
<1>3. PICK does, i, t : does \in {"save", "delete"} /\ L!Request(o, does, i, t) /\ (does = "delete" => t = L!Gone /\ i # New)
  <2>1. CASE L!Save(o)
    BY <2>1 DEF L!Save
  <2>2. CASE L!Confirm(o)
    BY <2>2 DEF L!Confirm
  <2> QED
    BY <2>1, <2>2
<1>4. PICK d : d = IF kind = "webhook" THEN listed ELSE L!Nothing
  OBVIOUS
<1>5. PICK k : k = [step |-> "sent", does |-> does, item |-> i, text |-> t, whole |-> L!Nothing, seen |-> d]
  OBVIOUS
<1>6. op'[o] = k /\ \A p \in Ops \ {o} : op'[p] = L!Idle
  <2>1. op' = [op EXCEPT ![o] = k]
    BY <1>3, <1>4, <1>5 DEF L!Request
  <2> QED
    BY <1>1, <2>1, SlotSet
<1>7. k.step = "sent" /\ k.does = does /\ k.item = i /\ k.text = t /\ k.seen = d
  BY <1>5
<1>8. FitsServer(k)'
  BY <1>1, <1>2, <1>3, <1>4, <1>7 DEF FitsServer
<1>9. k # L!Idle
  BY <1>7 DEF L!Idle
<1> QED
  BY <1>6, <1>8, <1>9, SlotStays

LEMMA AskAlone ==
  ASSUME OwnInv, AloneInv, patient, NEW o \in Ops, op[o] # L!Idle, L!Ask(o)
  PROVE  AloneInv'
<1>1. op[o] \in OwnOp /\ \A p \in Ops \ {o} : op[p] = L!Idle
  BY AloneIs
<1>2. PICK k : k = [op[o] EXCEPT !.step = "asked", !.seen = L!Nothing]
  OBVIOUS
<1>3. op'[o] = k /\ \A p \in Ops \ {o} : op'[p] = L!Idle
  <2>1. op' = [p \in Ops |-> IF p = o THEN k
                           ELSE IF kind = "member" /\ op[p].step \in {"asked", "fetched"} THEN L!Idle ELSE op[p]]
    BY <1>2 DEF L!Ask
  <2> QED
    BY <1>1, <2>1
<1>4. PICK j \in OwnOp : j = op[o]
  BY <1>1
<1>5. k.step = "asked" /\ k.does = j.does /\ k.item = j.item /\ k.text = j.text
  BY <1>2, <1>4, Advanced
<1>6. j.does = "delete" => j.text = L!Gone /\ j.item # New
  <2>1. FitsServer(j)
    BY <1>4, AloneIs
  <2> QED
    BY <2>1 DEF FitsServer
<1>7. FitsServer(k)'
  BY <1>5, <1>6 DEF FitsServer
<1>8. k # L!Idle
  BY <1>5 DEF L!Idle
<1> QED
  BY <1>3, <1>7, <1>8, SlotStays

LEMMA ServerAlone ==
  ASSUME OwnInv, AloneInv, patient, NEW o \in Ops, L!Read(o) \/ L!Write(o) \/ L!List(o)
  PROVE  AloneInv'
<1>0. op[o] # L!Idle
  BY DEF L!Read, L!Write, L!List, L!Idle
<1>1. PICK k \in OwnOp : k = op[o]
  BY <1>0, AloneIs
<1>2. FitsServer(k) /\ \A p \in Ops \ {o} : op[p] = L!Idle
  BY <1>0, <1>1, AloneIs
<1>3. CASE L!Read(o)
  <2>1. PICK m : m = [k EXCEPT !.step = "read", !.whole = list]
    OBVIOUS
  <2>2. op'[o] = m /\ \A p \in Ops \ {o} : op'[p] = L!Idle
    <3>1. op' = [op EXCEPT ![o] = m]
      BY <1>1, <1>3, <2>1 DEF L!Read
    <3> QED
      BY <1>2, <3>1, SlotSet
  <2>3. m.step = "read" /\ m.whole = list /\ m.does = k.does /\ m.item = k.item /\ m.text = k.text /\ m.seen = k.seen
    BY <2>1, Advanced
  <2>4. k.step = "sent" /\ UNCHANGED <<list, listed, missed, kind>>
    BY <1>1, <1>3 DEF L!Read, L!user, L!dialog
  <2>5. FitsServer(m)' /\ m # L!Idle
    BY <1>2, <2>3, <2>4 DEF FitsServer, L!Idle
  <2> QED
    BY <2>2, <2>5, SlotStays
<1>4. CASE L!Write(o)
  <2>1. PICK m : m = [k EXCEPT !.step = "written", !.whole = L!Nothing]
    OBVIOUS
  <2>2. op'[o] = m /\ \A p \in Ops \ {o} : op'[p] = L!Idle
    <3>1. op' = [op EXCEPT ![o] = m]
      BY <1>1, <1>4, <2>1 DEF L!Write
    <3> QED
      BY <1>2, <3>1, SlotSet
  <2>3. m.step = "written" /\ m.does = k.does /\ m.item = k.item /\ m.text = k.text /\ m.seen = k.seen
    BY <2>1, Advanced
  <2>4. L!Ready(k) /\ UNCHANGED <<listed, missed, kind>>
    BY <1>1, <1>4 DEF L!Write, L!user, L!dialog
  <2>5. k.step = (IF kind \in L!InOneRow THEN "read" ELSE "sent")
    BY <2>4 DEF L!Ready
  <2>6. kind \in {"webhook", "token"} => k.step = "read" /\ L!Base(k) = list
    BY <1>2, <2>5 DEF FitsServer, L!InOneRow, L!Base
  <2>7. ASSUME k.does = "delete", kind \in {"webhook", "token"}
        PROVE  missed \/ list' = [listed EXCEPT ![k.item] = L!Gone]
    <3>1. k.item # New /\ k.text = L!Gone /\ (missed \/ listed = list)
      BY <1>2, <2>6, <2>7 DEF FitsServer
    <3>2. list' = [L!Base(k) EXCEPT ![k.item] = k.text]
      BY <1>1, <1>4, <3>1 DEF L!Write
    <3> QED
      BY <2>6, <2>7, <3>1, <3>2
  <2>8. kind = "webhook" => k.seen = listed
    BY <1>2, <2>6 DEF FitsServer
  <2>9. k.does = "delete" => k.text = L!Gone /\ k.item # New
    BY <1>2 DEF FitsServer
  <2>10. FitsServer(m)' /\ m # L!Idle
    BY <2>3, <2>4, <2>7, <2>8, <2>9 DEF FitsServer, L!Idle
  <2> QED
    BY <2>2, <2>10, SlotStays
<1>5. CASE L!List(o)
  <2>1. PICK m : m = [k EXCEPT !.step = "fetched", !.whole = list]
    OBVIOUS
  <2>2. op'[o] = m /\ \A p \in Ops \ {o} : op'[p] = L!Idle
    <3>1. op' = [op EXCEPT ![o] = m]
      BY <1>1, <1>5, <2>1 DEF L!List
    <3> QED
      BY <1>2, <3>1, SlotSet
  <2>3. m.step = "fetched" /\ m.whole = list /\ m.does = k.does /\ m.item = k.item /\ m.text = k.text
    BY <2>1, Advanced
  <2>4. UNCHANGED <<list, listed, missed, kind>>
    BY <1>5 DEF L!List, L!user, L!dialog
  <2>5. FitsServer(m)' /\ m # L!Idle
    BY <1>2, <2>3, <2>4 DEF FitsServer, L!Idle
  <2> QED
    BY <2>2, <2>5, SlotStays
<1> QED
  BY <1>3, <1>4, <1>5

LEMMA AnswerAlone ==
  ASSUME OwnInv, AloneInv, patient, NEW o \in Ops, L!Saved(o) \/ L!Deleted(o) \/ L!Take(o) \/ L!Fails(o)
  PROVE  AloneInv'
<1>0. op[o] # L!Idle
  <2>1. L!Idle.step = "none"
    BY DEF L!Idle
  <2>2. CASE L!Fails(o)
    BY <2>2 DEF L!Fails
  <2>3. CASE ~L!Fails(o)
    <3>1. op[o].step # "none"
      BY <2>3 DEF L!Saved, L!Deleted, L!Take
    <3> QED
      BY <2>1, <3>1
  <2> QED
    BY <2>2, <2>3
<1>1. PICK k \in OwnOp : k = op[o]
  BY <1>0, AloneIs
<1>2. FitsServer(k) /\ \A p \in Ops \ {o} : op[p] = L!Idle
  BY <1>0, <1>1, AloneIs
<1>3. CASE L!Ask(o)
  BY <1>0, <1>3, AskAlone
<1>4. ASSUME op' = [op EXCEPT ![o] = L!Idle], missed' \/ listed' = list'
      PROVE  AloneInv'
  <2>1. PICK m : m = L!Idle
    OBVIOUS
  <2>2. op'[o] = m /\ \A p \in Ops \ {o} : op'[p] = L!Idle
    BY <1>2, <1>4, <2>1, SlotSet
  <2> QED
    BY <1>4, <2>1, <2>2, SlotStays
<1>5. CASE L!Deleted(o) /\ ~L!Ask(o)
  <2>1. /\ k.step = "written" /\ k.does = "delete" /\ kind \in {"webhook", "token"}
        /\ listed' = [(IF kind = "webhook" THEN k.seen ELSE listed) EXCEPT ![k.item] = L!Gone]
        /\ op' = [op EXCEPT ![o] = L!Idle] /\ UNCHANGED <<list, missed>>
    BY <1>1, <1>5 DEF L!Deleted
  <2>2. kind = "webhook" => k.seen = listed
    BY <1>2, <2>1 DEF FitsServer
  <2>3. missed \/ list = [listed EXCEPT ![k.item] = L!Gone]
    BY <1>2, <2>1 DEF FitsServer
  <2> QED
    BY <1>4, <2>1, <2>2, <2>3
<1>6. CASE L!Take(o)
  <2>1. k.step = "fetched" /\ listed' = k.whole /\ op' = [op EXCEPT ![o] = L!Idle] /\ UNCHANGED list
    BY <1>1, <1>6 DEF L!Take
  <2> QED
    BY <1>2, <1>4, <2>1 DEF FitsServer
<1>7. CASE L!Fails(o) /\ ~L!Ask(o)
  <2>1. /\ op' = [op EXCEPT ![o] = L!Idle] /\ UNCHANGED <<list, listed>>
        /\ missed' = (missed \/ k.step \in {"written", "asked", "fetched"})
        /\ L!Ready(k) \/ k.step \in {"written", "asked", "fetched"}
    BY <1>1, <1>7 DEF L!Fails
  <2>2. k.step \in {"sent", "read"} \/ k.step \in {"written", "asked", "fetched"}
    BY <2>1 DEF L!Ready
  <2> QED
    BY <1>2, <1>4, <2>1, <2>2 DEF FitsServer
<1> QED
  BY <1>3, <1>5, <1>6, <1>7 DEF L!Saved

LEMMA DialogAlone ==
  ASSUME AloneInv, \/ \E s \in Items \cup {New} : L!OpenDialog(s)
                   \/ L!Type \/ L!Close \/ L!Cancel
                   \/ \E i \in Items : L!AskDelete(i)
  PROVE  AloneInv'
<1>1. UNCHANGED <<kind, patient, list, listed, op, missed>>
  BY DEF L!OpenDialog, L!Type, L!Close, L!Cancel, L!AskDelete, L!user, L!dialog
<1> QED
  BY <1>1 DEF AloneInv, FitsServer

LEMMA AloneKept ==
  ASSUME OwnInv, AloneInv, [L!Next]_lists
  PROVE  AloneInv'
<1>1. CASE UNCHANGED lists
  BY <1>1 DEF AloneInv, FitsServer, lists
<1>2. CASE ~patient /\ L!Next
  <2>1. patient' = patient
    BY <1>2 DEF L!Next, L!OpenDialog, L!Type, L!Close, L!Cancel, L!AskDelete, L!Save, L!Confirm, L!Read,
                L!Write, L!List, L!Saved, L!Deleted, L!Take, L!Fails, L!user
  <2> QED
    BY <1>2, <2>1 DEF AloneInv
<1> QED
  BY <1>1, <1>2, DialogAlone, RequestAlone, ServerAlone, AnswerAlone DEF L!Next

LEMMA ListsSettle ==
  ASSUME AloneInv
  PROVE  L!ListSettles
BY DEF AloneInv, L!ListSettles

-------------------------------------------------------------------------------
(* The page of the attachments. Unless something has happened since that it *)
(* is not told of, what it has listed are the server's first files, the     *)
(* token is where it goes on, a page on its way goes on there too, and no   *)
(* file is about to be deleted but by a sweep.                              *)
FileNames == Files \cup {D!SetToSeq(Files)[i] : i \in Nat}
FileOf == [name : FileNames, used : BOOLEAN]

FilesTyped ==
    /\ files \in Seq(FileOf) /\ filesShown \in Seq(FileOf)
    /\ token \in Nat /\ more \in Nat
    /\ sweep = "swept" => filesListing

Listing == filesListing \/ sweep = "deleting"

FilesInv ==
    /\ FilesTyped
    /\ ~behind /\ ~Listing =>
        /\ Len(filesShown) <= Len(files) /\ \A i \in 1..Len(filesShown) : filesShown[i] = files[i]
        /\ IF token = 0 THEN Len(filesShown) = Len(files) ELSE token = Len(filesShown)
        /\ more \in {0, token}
        /\ doomed = {}

LEMMA FilesStart ==
  ASSUME D!Init
  PROVE  FilesInv
<1>1. files \in Seq(FileOf)
  <2>1. PICK s : s = D!SetToSeq(Files)
    OBVIOUS
  <2>0. PICK n \in 0..D!Cardinality(Files) :
          \E c \in [1..n -> BOOLEAN] : files = [i \in 1..n |-> [name |-> s[i], used |-> c[i]]]
    BY <2>1 DEF D!Init
  <2>2. PICK used1 \in [1..n -> BOOLEAN] : files = [i \in 1..n |-> [name |-> s[i], used |-> used1[i]]]
    BY <2>0
  <2>5. n \in Nat
    OBVIOUS
  <2>3. \A i \in 1..n : [name |-> s[i], used |-> used1[i]] \in FileOf
    BY <2>1, <2>5 DEF FileOf, FileNames
  <2>4. files \in [1..n -> FileOf]
    BY <2>2, <2>3
  <2> QED
    BY <2>4, <2>5, SeqDef
<1>2. filesListing /\ filesShown = <<>> /\ token = 0 /\ more = 0
  BY DEF D!Init
<1> QED
  BY <1>1, <1>2 DEF FilesInv, FilesTyped, Listing

(* A page from an offset, and the token with it.                            *)
LEMMA PageFromIs ==
  ASSUME files \in Seq(FileOf), NEW k \in Nat
  PROVE  /\ D!PageFrom(k) \in Seq(FileOf) /\ D!TokenFrom(k) \in Nat
         /\ k <= Len(files) =>
              /\ k + Len(D!PageFrom(k)) <= Len(files)
              /\ \A i \in 1..Len(D!PageFrom(k)) : D!PageFrom(k)[i] = files[k + i]
              /\ IF D!TokenFrom(k) = 0 THEN k + Len(D!PageFrom(k)) = Len(files)
                 ELSE D!TokenFrom(k) = k + Len(D!PageFrom(k))
<1>0. PageSize \in Nat \ {0}
  BY PagedListAssumption
<1>1. PICK end \in Nat : end = (IF k + PageSize < Len(files) THEN k + PageSize ELSE Len(files)) /\ end <= Len(files)
  BY <1>0
<1>2. PICK part1 : part1 = SubSeq(files, k + 1, end)
  OBVIOUS
<1>3. D!PageFrom(k) = part1
  BY <1>1, <1>2 DEF D!PageFrom
<1>4. /\ part1 \in Seq(FileOf) /\ Len(part1) = (IF k + 1 <= end THEN end - k ELSE 0)
      /\ \A i \in 1..Len(part1) : part1[i] = files[k + i]
  <2>1. CASE k + 1 <= end
    <3>1. part1 \in Seq(FileOf) /\ Len(part1) = end - (k + 1) + 1 /\ \A i \in 1..Len(part1) : part1[i] = files[(k + 1) + i - 1]
      BY <1>1, <1>2, <2>1, SubSeqProperties
    <3>2. \A i \in Nat : (k + 1) + i - 1 = k + i
      OBVIOUS
    <3>3. end - (k + 1) + 1 = end - k /\ 1..Len(part1) \subseteq Nat
      BY <1>1, <3>1
    <3> QED
      BY <2>1, <3>1, <3>2, <3>3
  <2>2. CASE ~(k + 1 <= end)
    <3>1. part1 = <<>>
      BY <1>1, <1>2, <2>2, SubSeqProperties
    <3> QED
      BY <2>2, <3>1
  <2> QED
    BY <2>1, <2>2
<1>5. D!TokenFrom(k) = IF Len(part1) = PageSize THEN k + PageSize ELSE 0
  BY <1>3 DEF D!TokenFrom
<1>6. PICK n \in Nat : n = Len(part1)
  BY <1>4
<1>7. k <= Len(files) => k + n <= Len(files)
  BY <1>0, <1>1, <1>4, <1>6
<1>8. k <= Len(files) => IF n = PageSize THEN k + PageSize = k + n /\ k + PageSize # 0 ELSE k + n = Len(files)
  <2>0. PICK len \in Nat : len = Len(files)
    BY <1>1
  <2>1. PICK size \in Nat \ {0} : size = PageSize
    BY <1>0
  <2>2. n = (IF k + 1 <= end THEN end - k ELSE 0) /\ end = (IF k + size < len THEN k + size ELSE len)
    BY <1>1, <1>4, <1>6, <2>0, <2>1
  <2>3. k <= len => IF n = size THEN k + size = k + n /\ k + size # 0 ELSE k + n = len
    BY <2>2
  <2> QED
    BY <2>0, <2>1, <2>3
<1>9. D!TokenFrom(k) \in Nat
  BY <1>0, <1>5
<1>10. k <= Len(files) => IF D!TokenFrom(k) = 0 THEN k + n = Len(files) ELSE D!TokenFrom(k) = k + n
  BY <1>5, <1>6, <1>8
<1> QED
  BY <1>3, <1>4, <1>6, <1>7, <1>9, <1>10

LEMMA WithoutIs ==
  ASSUME files \in Seq(FileOf), NEW f
  PROVE  D!Without(f, files) \in Seq(FileOf)
<1>1. CASE D!Named(f, files)
  <2>1. PICK i \in DOMAIN files : i = CHOOSE j \in DOMAIN files : files[j].name = f
    BY <1>1 DEF D!Named
  <2>2. i \in 1..Len(files)
    BY <2>1
  <2>3. D!Without(f, files) = SubSeq(files, 1, i - 1) \o SubSeq(files, i + 1, Len(files))
    BY <1>1, <2>1 DEF D!Without, D!RemoveAt
  <2>4. SubSeq(files, 1, i - 1) \in Seq(FileOf) /\ SubSeq(files, i + 1, Len(files)) \in Seq(FileOf)
    BY <2>2, SubSeqProperties
  <2> QED
    BY <2>3, <2>4, ConcatProperties
<1>2. CASE ~D!Named(f, files)
  BY <1>2 DEF D!Without
<1> QED
  BY <1>1, <1>2

LEMMA ElsewhereKeeps ==
  ASSUME FilesInv, NEW f \in Files, D!Upload(f) \/ D!Attach(f)
  PROVE  FilesInv'
<1>1. files \in Seq(FileOf) /\ FilesTyped
  BY DEF FilesInv, FilesTyped
<1>2. PICK used1 \in BOOLEAN, rest \in Seq(FileOf) : files' = <<[name |-> f, used |-> used1]>> \o rest
  BY <1>1, WithoutIs DEF D!Upload, D!Attach
<1>3. <<[name |-> f, used |-> used1]>> \in Seq(FileOf)
  <2>1. [name |-> f, used |-> used1] \in FileOf
    BY DEF FileOf, FileNames
  <2> QED
    BY <2>1
<1>4. files' \in Seq(FileOf)
  BY <1>2, <1>3, ConcatProperties
<1>5. behind' = TRUE /\ UNCHANGED <<filesShown, token, filesListing, more, sweep, doomed>>
  BY DEF D!Upload, D!Attach, D!Elsewhere
<1> QED
  BY <1>1, <1>4, <1>5 DEF FilesInv, FilesTyped

LEMMA ListedKeeps ==
  ASSUME FilesInv, D!Listed \/ D!ListFails
  PROVE  FilesInv'
<1>1. files \in Seq(FileOf) /\ FilesTyped
  BY DEF FilesInv, FilesTyped
<1>2. CASE D!Listed
  <2>1. PICK page, next : page = D!PageFrom(0) /\ next = D!TokenFrom(0)
    OBVIOUS
  <2>2. /\ page \in Seq(FileOf) /\ next \in Nat /\ Len(page) <= Len(files)
        /\ \A i \in 1..Len(page) : page[i] = files[i]
        /\ IF next = 0 THEN Len(page) = Len(files) ELSE next = Len(page)
    <3>1. /\ page \in Seq(FileOf) /\ next \in Nat /\ 0 + Len(page) <= Len(files)
          /\ \A i \in 1..Len(page) : page[i] = files[0 + i]
          /\ IF next = 0 THEN 0 + Len(page) = Len(files) ELSE next = 0 + Len(page)
      <4>1. 0 \in Nat /\ 0 <= Len(files)
        BY <1>1
      <4> QED
        BY <1>1, <2>1, <4>1, PageFromIs
    <3>2. 0 + Len(page) = Len(page) /\ \A i \in 1..Len(page) : 0 + i = i
      BY <3>1
    <3> QED
      BY <3>1, <3>2
  <2>3. filesShown' = page /\ token' = next /\ sweep' = "none" /\ (~behind' => more = 0 /\ doomed = {})
        /\ UNCHANGED <<files, more, doomed>>
    BY <1>2, <2>1 DEF D!Listed
  <2> QED
    BY <1>1, <2>2, <2>3 DEF FilesInv, FilesTyped
<1>3. CASE D!ListFails
  <2>1. behind' = TRUE /\ sweep' = "none" /\ UNCHANGED <<files, filesShown, token, more, doomed>>
    BY <1>3 DEF D!ListFails
  <2> QED
    BY <1>1, <2>1 DEF FilesInv, FilesTyped
<1> QED
  BY <1>2, <1>3

LEMMA MoreKeeps ==
  ASSUME FilesInv, D!LoadMore \/ D!MoreListed \/ D!MoreFails
  PROVE  FilesInv'
<1>1. files \in Seq(FileOf) /\ filesShown \in Seq(FileOf) /\ more \in Nat /\ token \in Nat /\ (sweep = "swept" => filesListing)
  BY DEF FilesInv, FilesTyped
<1>2. UNCHANGED <<files, filesListing, sweep, doomed, behind>>
  BY DEF D!LoadMore, D!MoreListed, D!MoreFails
<1>3. CASE D!LoadMore
  BY <1>1, <1>2, <1>3 DEF D!LoadMore, FilesInv, FilesTyped, Listing
<1>4. CASE D!MoreFails
  BY <1>1, <1>2, <1>4 DEF D!MoreFails, FilesInv, FilesTyped, Listing
<1>5. CASE D!MoreListed
  <2>1. PICK page, next : page = D!PageFrom(more) /\ next = D!TokenFrom(more)
    OBVIOUS
  <2>2. page \in Seq(FileOf) /\ next \in Nat
    BY <1>1, <2>1, PageFromIs
  <2>3. filesShown' = filesShown \o page /\ token' = next /\ more' = 0 /\ more # 0
    BY <1>5, <2>1 DEF D!MoreListed
  <2>4. FilesTyped'
    BY <1>1, <1>2, <2>2, <2>3, ConcatProperties DEF FilesTyped
  <2>5. ASSUME ~behind, ~Listing
        PROVE  /\ Len(filesShown') <= Len(files) /\ \A i \in 1..Len(filesShown') : filesShown'[i] = files[i]
               /\ IF next = 0 THEN Len(filesShown') = Len(files) ELSE next = Len(filesShown')
               /\ doomed = {}
    <3>1. /\ Len(filesShown) <= Len(files) /\ \A i \in 1..Len(filesShown) : filesShown[i] = files[i]
          /\ more = Len(filesShown) /\ doomed = {}
      BY <2>3, <2>5 DEF FilesInv
    <3>2. /\ more + Len(page) <= Len(files) /\ \A i \in 1..Len(page) : page[i] = files[more + i]
          /\ IF next = 0 THEN more + Len(page) = Len(files) ELSE next = more + Len(page)
      BY <1>1, <2>1, <3>1, PageFromIs
    <3>3. Len(filesShown') = more + Len(page)
      BY <1>1, <2>2, <2>3, <3>1, ConcatProperties
    <3>4. ASSUME NEW i \in 1..(more + Len(page)) PROVE filesShown'[i] = files[i]
      <4>1. CASE i <= more
        BY <1>1, <2>2, <2>3, <3>1, <4>1, ConcatProperties
      <4>2. CASE ~(i <= more)
        <5>1. i - more \in 1..Len(page) /\ more + (i - more) = i
          BY <1>1, <2>2, <4>2
        <5>2. (filesShown \o page)[i] = page[i - more]
          BY <1>1, <2>2, <3>1, <4>2, ConcatProperties
        <5> QED
          BY <2>3, <3>2, <5>1, <5>2
      <4> QED
        BY <4>1, <4>2
    <3> QED
      BY <3>1, <3>2, <3>3, <3>4
  <2>6. (~behind /\ ~Listing)' => ~behind /\ ~Listing
    BY <1>2 DEF Listing
  <2> QED
    BY <1>2, <2>3, <2>4, <2>5, <2>6 DEF FilesInv
<1> QED
  BY <1>3, <1>4, <1>5

LEMMA SweepKeeps ==
  ASSUME FilesInv, D!Sweep \/ D!SweepListed \/ D!SweepFails
  PROVE  FilesInv'
<1>1. FilesTyped /\ UNCHANGED <<files, filesShown, token, more, behind>>
  BY DEF FilesInv, D!Sweep, D!SweepListed, D!SweepFails
<1>2. CASE D!Sweep
  BY <1>1, <1>2 DEF D!Sweep, FilesInv, FilesTyped, Listing
<1>3. CASE D!SweepListed \/ D!SweepFails
  BY <1>1, <1>3 DEF D!SweepListed, D!SweepFails, D!Swept, FilesInv, FilesTyped, Listing
<1> QED
  BY <1>2, <1>3

LEMMA DoomedKeeps ==
  ASSUME FilesInv, NEW f \in Files, D!Deleted(f) \/ D!DeleteFails(f)
  PROVE  FilesInv'
<1>1. FilesTyped /\ files \in Seq(FileOf) /\ f \in doomed /\ UNCHANGED <<filesShown, token, more>>
  BY DEF FilesInv, FilesTyped, D!Deleted, D!DeleteFails
<1>2. files' \in Seq(FileOf)
  BY <1>1, WithoutIs DEF D!Deleted, D!DeleteFails
<1>3. D!Swept \/ UNCHANGED <<sweep, filesListing>>
  BY DEF D!Deleted, D!DeleteFails
<1>4. FilesTyped'
  BY <1>1, <1>2, <1>3 DEF FilesTyped, D!Swept
<1>5. behind \/ Listing
  BY <1>1 DEF FilesInv
<1>6. behind' \/ Listing'
  <2>1. CASE D!Swept
    BY <2>1 DEF D!Swept, Listing
  <2>2. CASE UNCHANGED <<sweep, filesListing>>
    <3>1. behind => behind'
      BY DEF D!Deleted, D!DeleteFails
    <3> QED
      BY <1>5, <2>2, <3>1 DEF Listing
  <2> QED
    BY <1>3, <2>1, <2>2
<1> QED
  BY <1>4, <1>6 DEF FilesInv

LEMMA FilesKept ==
  ASSUME FilesInv, [D!Next]_attachments
  PROVE  FilesInv'
<1>1. CASE UNCHANGED attachments
  BY <1>1 DEF attachments, FilesInv, FilesTyped, Listing
<1> QED
  BY <1>1, ElsewhereKeeps, ListedKeeps, MoreKeeps, SweepKeeps, DoomedKeeps DEF D!Next

LEMMA FilesShow ==
  ASSUME FilesInv
  PROVE  D!FilesFresh
<1> SUFFICES ASSUME ~filesListing, more = 0, sweep = "none", ~behind
             PROVE  D!IsPrefix(filesShown, files) /\ (Len(filesShown) < Len(files) => token # 0)
  BY DEF D!FilesFresh
<1>1. /\ files \in Seq(FileOf) /\ filesShown \in Seq(FileOf)
      /\ Len(filesShown) <= Len(files) /\ \A i \in 1..Len(filesShown) : filesShown[i] = files[i]
      /\ token = 0 => Len(filesShown) = Len(files)
  BY DEF FilesInv, FilesTyped, Listing
<1>2. SubSeq(filesShown, 1, Len(filesShown)) = SubSeq(files, 1, Len(filesShown))
  <2>1. PICK n \in Nat : n = Len(filesShown) /\ n <= Len(files)
    BY <1>1
  <2>2. SubSeq(filesShown, 1, n) = [i \in 1..n |-> filesShown[i]] /\ SubSeq(files, 1, n) = [i \in 1..n |-> files[i]]
    BY <1>1, <2>1
  <2> QED
    BY <1>1, <2>1, <2>2
<1> QED
  BY <1>1, <1>2 DEF D!IsPrefix

-------------------------------------------------------------------------------
(* Memos page by page. Once a change is heard of, an order whose refetch is *)
(* not lost is stale, or is being fetched, or has the pages of the server's *)
(* list one after the other from its start: what is fetched of all pages,   *)
(* and what a next page is added to, has them so far, with more to come.    *)
MemoNames == Memos \cup {P!SetToSeq(Memos)[i] : i \in Nat}
MemoOf == [name : MemoNames, edited : BOOLEAN]
PageRec == [memos : Seq(MemoOf), more : BOOLEAN]
FetchAll == [kind : {"all"}, got : Seq(PageRec), left : Int]

PagedTyped ==
    /\ memos \in Seq(MemoOf) /\ order \in P!Orders
    /\ pages \in [P!Orders -> Seq(PageRec)]
    /\ stale \in [P!Orders -> BOOLEAN]
    /\ fetch \in [P!Orders -> FetchAll \cup {P!NoFetch, P!NextOne}]

Whole(o, these) ==
    /\ \A k \in 1..Len(these) : these[k] = P!ListPage(o, k - 1)
    /\ \A k \in 1..(Len(these) - 1) : these[k].more
GoesOn(these) == \A k \in 1..Len(these) : these[k].more

InOrder(o) ==
    /\ fetch[o] = P!NoFetch /\ ~stale[o] => Whole(o, pages[o])
    /\ fetch[o] = P!NextOne => Whole(o, pages[o]) /\ GoesOn(pages[o])
    /\ fetch[o].kind = "all" => Whole(o, fetch[o].got) /\ GoesOn(fetch[o].got)

ShownThere ==
    /\ fetch[order] = P!NoFetch => ~stale[order] /\ pages[order] # <<>>
    /\ ~news => \A o \in P!Orders \ lost : InOrder(o)

PagedInv == PagedTyped /\ ShownThere

LEMMA OrderedIs ==
  ASSUME memos \in Seq(MemoOf), NEW o \in P!Orders
  PROVE  P!Ordered(o) \in Seq(MemoOf) /\ Len(P!Ordered(o)) = Len(memos)
<1>1. CASE o = "desc"
  BY <1>1 DEF P!Ordered
<1>2. CASE o # "desc"
  <2>0. PICK n \in Nat : n = Len(memos)
    OBVIOUS
  <2>1. P!Ordered(o) = [i \in 1..n |-> memos[(n - i) + 1]]
    BY <1>2, <2>0 DEF P!Ordered, P!Reverse
  <2>2. \A i \in 1..n : memos[(n - i) + 1] \in MemoOf
    <3>1. \A i \in 1..n : (n - i) + 1 \in 1..n
      OBVIOUS
    <3> QED
      BY <2>0, <3>1, ElementOfSeq
  <2> QED
    BY <2>0, <2>1, <2>2, SeqDef
<1> QED
  BY <1>1, <1>2

LEMMA LesserIs ==
  ASSUME NEW a \in Int, NEW b \in Int
  PROVE  P!Min({a, b}) = IF a <= b THEN a ELSE b
<1>1. \A x \in {a, b} : (\A y \in {a, b} : x <= y) => x = IF a <= b THEN a ELSE b
  OBVIOUS
<1>2. \E x \in {a, b} : \A y \in {a, b} : x <= y
  OBVIOUS
<1>3. P!Min({a, b}) \in {a, b} /\ \A y \in {a, b} : P!Min({a, b}) <= y
  BY <1>2 DEF P!Min
<1> QED
  BY <1>1, <1>3

LEMMA Times ==
  ASSUME NEW k \in Nat
  PROVE  PageSize \in Nat /\ PageSize > 0 /\ k * PageSize \in Nat /\ (k + 1) * PageSize = k * PageSize + PageSize
BY PagedListAssumption

(* A page of an order, from where the pages before it end.                  *)
Upto(o, n) == IF n <= Len(P!Ordered(o)) THEN n ELSE Len(P!Ordered(o))

LEMMA ListPageIs ==
  ASSUME memos \in Seq(MemoOf), NEW o \in P!Orders, NEW k \in Nat
  PROVE  /\ P!ListPage(o, k) \in PageRec
         /\ P!ListPage(o, k).memos = SubSeq(P!Ordered(o), k * PageSize + 1, Upto(o, (k + 1) * PageSize))
         /\ P!ListPage(o, k).more = (Len(P!Ordered(o)) > (k + 1) * PageSize)
<1>1. PICK all \in Seq(MemoOf) : all = P!Ordered(o)
  BY OrderedIs
<1>2. PICK a \in Nat : a = k * PageSize
  BY Times
<1>3. PICK end \in Nat : end = (k + 1) * PageSize /\ end = a + PageSize
  <2>1. (k + 1) * PageSize = a + PageSize /\ PageSize \in Nat
    BY <1>2, Times
  <2>2. PICK end \in Nat : end = a + PageSize
    BY <2>1
  <2> QED
    BY <2>1, <2>2
<1>4. P!Min({Len(all), a + PageSize}) = Upto(o, end)
  <2>1. Len(all) \in Int /\ a + PageSize \in Int
    BY <1>3
  <2>2. P!Min({Len(all), a + PageSize}) = IF Len(all) <= end THEN Len(all) ELSE end
    BY <1>3, <2>1, LesserIs
  <2> QED
    BY <1>1, <1>3, <2>2 DEF Upto
<1>5. P!ListPage(o, k) = [memos |-> SubSeq(all, a + 1, Upto(o, end)), more |-> Len(all) > end]
  BY <1>1, <1>2, <1>3, <1>4 DEF P!ListPage
<1>6. SubSeq(all, a + 1, Upto(o, end)) \in Seq(MemoOf)
  <2>1. Upto(o, end) \in Int /\ Upto(o, end) <= Len(all)
    BY <1>1, <1>3 DEF Upto
  <2>2. \A i \in (a + 1)..Upto(o, end) : all[i] \in MemoOf
    <3>1. \A i \in (a + 1)..Upto(o, end) : i \in 1..Len(all)
      BY <2>1
    <3> QED
      BY <3>1, ElementOfSeq
  <2>3. a + 1 \in Int
    OBVIOUS
  <2> QED
    BY <2>1, <2>2, <2>3, SubSeqProperties
<1>7. PICK page : page = P!ListPage(o, k)
  OBVIOUS
<1>8. page \in PageRec
  BY <1>5, <1>6, <1>7 DEF PageRec
<1>9. page.memos = SubSeq(all, a + 1, Upto(o, end)) /\ page.more = (Len(all) > end)
  <2>1. PICK part1, b : part1 = SubSeq(all, a + 1, Upto(o, end)) /\ b = (Len(all) > end)
    OBVIOUS
  <2>2. page = [memos |-> part1, more |-> b]
    BY <1>5, <1>7, <2>1
  <2>3. page.memos = part1 /\ page.more = b
    BY <2>2
  <2> QED
    BY <2>1, <2>3
<1>10. P!ListPage(o, k).memos = SubSeq(P!Ordered(o), k * PageSize + 1, Upto(o, (k + 1) * PageSize))
  BY <1>1, <1>2, <1>3, <1>7, <1>9
<1>11. P!ListPage(o, k).more = (Len(P!Ordered(o)) > (k + 1) * PageSize)
  BY <1>1, <1>3, <1>7, <1>9
<1> QED
  BY <1>7, <1>8, <1>10, <1>11

(* Pages one after the other, and a next one.                               *)
LEMMA OnePageMore ==
  ASSUME memos \in Seq(MemoOf), NEW o \in P!Orders, NEW these \in Seq(PageRec), Whole(o, these), GoesOn(these)
  PROVE  /\ Whole(o, Append(these, P!ListPage(o, Len(these))))
         /\ P!ListPage(o, Len(these)).more => GoesOn(Append(these, P!ListPage(o, Len(these))))
<1>1. PICK n \in Nat : n = Len(these)
  OBVIOUS
<1>2. PICK page \in PageRec : page = P!ListPage(o, n)
  BY ListPageIs
<1>3. PICK those : those = Append(these, page)
  OBVIOUS
<1>4. Len(those) = n + 1 /\ those[n + 1] = page /\ \A k \in 1..n : those[k] = these[k]
  BY <1>1, <1>2, <1>3, AppendProperties
<1>5. \A k \in 1..(n + 1) : those[k] = P!ListPage(o, k - 1)
  <2>1. ASSUME NEW k \in 1..(n + 1) PROVE those[k] = P!ListPage(o, k - 1)
    <3>1. CASE k = n + 1
      <4>1. k - 1 = n
        BY <3>1
      <4> QED
        BY <1>2, <1>4, <3>1, <4>1
    <3>2. CASE k # n + 1
      <4>1. k \in 1..n
        BY <3>2
      <4> QED
        BY <1>1, <1>4, <4>1 DEF Whole
    <3> QED
      BY <3>1, <3>2
  <2> QED
    BY <2>1
<1>6. \A k \in 1..n : those[k].more
  BY <1>1, <1>4 DEF GoesOn
<1>7. (n + 1) - 1 = n /\ \A k \in 1..(n + 1) : k \in 1..n \/ k = n + 1
  OBVIOUS
<1>8. Whole(o, those)
  BY <1>4, <1>5, <1>6, <1>7 DEF Whole
<1>9. page.more => GoesOn(those)
  BY <1>4, <1>6, <1>7 DEF GoesOn
<1> QED
  BY <1>1, <1>2, <1>3, <1>8, <1>9

LEMMA NoPages ==
  ASSUME NEW o
  PROVE  Whole(o, <<>>) /\ GoesOn(<<>>)
BY DEF Whole, GoesOn

LEMMA Fetches ==
  /\ P!NoFetch # P!NextOne /\ P!NoFetch.kind = "none" /\ P!NextOne.kind = "next"
  /\ \A f \in FetchAll : f # P!NoFetch /\ f # P!NextOne /\ f.kind = "all" /\ f.got \in Seq(PageRec) /\ f.left \in Int
  /\ \A n \in Int : P!Fresh(n) \in FetchAll /\ P!Fresh(n).got = <<>>
  /\ P!First \in FetchAll /\ P!First.got = <<>>
<1>1. P!NoFetch.kind = "none" /\ P!NextOne.kind = "next"
  BY DEF P!NoFetch, P!NextOne
<1>2. \A f \in FetchAll : f.kind = "all" /\ f.got \in Seq(PageRec) /\ f.left \in Int
  BY DEF FetchAll
<1>3. \A n \in Int : P!Fresh(n) \in FetchAll /\ P!Fresh(n).got = <<>>
  BY DEF FetchAll, P!Fresh
<1>4. P!First \in FetchAll /\ P!First.got = <<>>
  BY DEF FetchAll, P!First
<1> QED
  BY <1>1, <1>2, <1>3, <1>4

LEMMA PagedStarts ==
  ASSUME P!Init
  PROVE  PagedInv
<1>1. memos \in Seq(MemoOf)
  <2>1. PICK s : s = P!SetToSeq(Memos)
    OBVIOUS
  <2>2. PICK n \in 0..P!Cardinality(Memos) : memos = [i \in 1..n |-> [name |-> s[i], edited |-> FALSE]]
    BY <2>1 DEF P!Init
  <2>3. n \in Nat
    OBVIOUS
  <2>4. \A i \in 1..n : [name |-> s[i], edited |-> FALSE] \in MemoOf
    BY <2>1, <2>3 DEF MemoOf, MemoNames
  <2> QED
    BY <2>2, <2>3, <2>4, SeqDef
<1>2. /\ order = "desc" /\ order \in P!Orders /\ pages = [o \in P!Orders |-> <<>>] /\ stale = [o \in P!Orders |-> FALSE]
      /\ fetch = [o \in P!Orders |-> IF o = order THEN P!First ELSE P!NoFetch]
  BY DEF P!Init, P!Orders
<1>3. PagedTyped
  BY <1>1, <1>2, Fetches DEF PagedTyped
<1>4. ShownThere
  BY <1>2, NoPages, Fetches DEF ShownThere, InOrder
<1> QED
  BY <1>3, <1>4 DEF PagedInv

LEMMA ChangeKeeps ==
  ASSUME PagedInv, \/ \E m \in Memos : P!Create(m)
                   \/ \E i \in DOMAIN memos : P!Edit(i) \/ P!Delete(i)
  PROVE  PagedInv'
<1>0. memos \in Seq(MemoOf)
  BY DEF PagedInv, PagedTyped
<1>1. PICK s : P!Change(s) /\ s \in Seq(MemoOf)
  <2>1. ASSUME NEW m \in Memos, P!Create(m)
        PROVE  \E s : P!Change(s) /\ s \in Seq(MemoOf)
    <3>1. PICK d \in MemoOf : d = [name |-> m, edited |-> FALSE]
      BY DEF MemoOf, MemoNames
    <3>2. <<d>> \o memos \in Seq(MemoOf)
      <4>1. <<d>> \in Seq(MemoOf)
        OBVIOUS
      <4> QED
        BY <1>0, <4>1, ConcatProperties
    <3> QED
      BY <2>1, <3>1, <3>2 DEF P!Create
  <2>2. ASSUME NEW i \in DOMAIN memos, P!Edit(i)
        PROVE  \E s : P!Change(s) /\ s \in Seq(MemoOf)
    <3>1. i \in 1..Len(memos)
      BY <1>0
    <3>2. PICK d \in MemoOf : d = memos[i]
      BY <1>0, <3>1, ElementOfSeq
    <3>3. PICK e \in MemoOf : e = [d EXCEPT !.edited = TRUE]
      BY DEF MemoOf
    <3>4. PICK s : s = [memos EXCEPT ![i].edited = TRUE]
      OBVIOUS
    <3>5. s = [memos EXCEPT ![i] = e]
      BY <3>2, <3>3, <3>4
    <3>6. s \in Seq(MemoOf)
      BY <1>0, <3>1, <3>5, ExceptSeq
    <3> QED
      BY <2>2, <3>4, <3>6 DEF P!Edit
  <2>3. ASSUME NEW i \in DOMAIN memos, P!Delete(i)
        PROVE  \E s : P!Change(s) /\ s \in Seq(MemoOf)
    <3>1. i \in 1..Len(memos) /\ i \in Int /\ i - 1 \in Int /\ i + 1 \in Int /\ Len(memos) \in Int /\ 1 \in Int
      BY <1>0
    <3>2. (\A j \in 1..(i - 1) : memos[j] \in MemoOf) /\ \A j \in (i + 1)..Len(memos) : memos[j] \in MemoOf
      <4>1. 1..(i - 1) \subseteq 1..Len(memos) /\ (i + 1)..Len(memos) \subseteq 1..Len(memos)
        BY <3>1
      <4> QED
        BY <1>0, <4>1, ElementOfSeq
    <3>3. SubSeq(memos, 1, i - 1) \in Seq(MemoOf) /\ SubSeq(memos, i + 1, Len(memos)) \in Seq(MemoOf)
      BY <3>1, <3>2, SubSeqProperties
    <3>4. P!RemoveAt(memos, i) \in Seq(MemoOf)
      BY <3>3, ConcatProperties DEF P!RemoveAt
    <3> QED
      BY <2>3, <3>4 DEF P!Delete
  <2> QED
    BY <2>1, <2>2, <2>3
<1>2. memos' = s /\ news' = TRUE /\ UNCHANGED <<order, pages, stale, fetch, lost>>
  BY <1>1 DEF P!Change
<1> QED
  BY <1>1, <1>2 DEF PagedInv, PagedTyped, ShownThere

LEMMA HearKeeps ==
  ASSUME PagedInv, P!Hear
  PROVE  PagedInv'
<1>1. PagedTyped
  BY DEF PagedInv
<1>2. PICK f \in FetchAll : f.got = <<>> /\ fetch' = [fetch EXCEPT ![order] = f]
  <2>1. Len(pages[order]) \in Int
    BY <1>1 DEF PagedTyped
  <2> QED
    BY <2>1, Fetches DEF P!Hear
<1>3. /\ stale' = [o \in P!Orders |-> stale[o] \/ pages[o] # <<>>]
      /\ lost' = (lost \ {order}) \cup {o \in P!Orders \ {order} : fetch[o] # P!NoFetch}
      /\ UNCHANGED <<memos, order, pages>>
  BY <1>1 DEF P!Hear, P!Invalidated, PagedTyped
<1>4. fetch'[order] = f /\ \A o \in P!Orders \ {order} : fetch'[o] = fetch[o]
  BY <1>1, <1>2 DEF PagedTyped
<1>5. PagedTyped'
  <2>1. fetch' \in [P!Orders -> FetchAll \cup {P!NoFetch, P!NextOne}]
    BY <1>1, <1>2 DEF PagedTyped
  <2>2. stale' \in [P!Orders -> BOOLEAN]
    BY <1>1, <1>3 DEF PagedTyped
  <2> QED
    BY <1>1, <1>3, <2>1, <2>2 DEF PagedTyped
<1>6. ASSUME NEW o \in P!Orders \ lost'
      PROVE  InOrder(o)'
  <2>1. CASE o = order
    <3>1. f # P!NoFetch /\ f # P!NextOne
      BY Fetches
    <3>2. Whole(o, f.got)' /\ GoesOn(f.got)'
      BY <1>2 DEF Whole, GoesOn
    <3> QED
      BY <1>4, <2>1, <3>1, <3>2 DEF InOrder
  <2>2. CASE o # order
    <3>1. fetch'[o] = P!NoFetch
      BY <1>3, <1>4, <2>2
    <3>2. ~stale'[o] => pages'[o] = <<>>
      BY <1>3
    <3>3. pages'[o] = <<>> => Whole(o, pages[o])'
      BY DEF Whole
    <3> QED
      BY <3>1, <3>2, <3>3, Fetches DEF InOrder
  <2> QED
    BY <2>1, <2>2
<1>7. fetch'[order'] # P!NoFetch
  BY <1>3, <1>4, Fetches
<1> QED
  BY <1>5, <1>6, <1>7 DEF PagedInv, ShownThere

(* A list that a step leaves alone stays what it was.                       *)
LEMMA InOrderAlone ==
  ASSUME NEW p \in P!Orders, InOrder(p), UNCHANGED memos,
         pages'[p] = pages[p], stale'[p] = stale[p], fetch'[p] = fetch[p]
  PROVE  InOrder(p)'
<1>1. \A k \in Int : P!ListPage(p, k)' = P!ListPage(p, k)
  BY DEF P!ListPage, P!Ordered
<1>2. Whole(p, pages[p]) => Whole(p, pages[p])'
  BY <1>1 DEF Whole
<1>3. Whole(p, fetch[p].got) => Whole(p, fetch[p].got)'
  BY <1>1 DEF Whole
<1>4. GoesOn(pages[p]) => GoesOn(pages[p])'
  BY DEF GoesOn
<1>5. GoesOn(fetch[p].got) => GoesOn(fetch[p].got)'
  BY DEF GoesOn
<1> QED
  BY <1>2, <1>3, <1>4, <1>5 DEF InOrder

(* What a fetch ends with.                                                  *)
LEMMA DoneKeeps ==
  ASSUME PagedInv, NEW o \in P!Orders, NEW result \in Seq(PageRec), result # <<>>, P!Done(o, result),
         UNCHANGED <<memos, news, order, lost>>, ~news /\ o \notin lost => Whole(o, result)
  PROVE  PagedInv'
<1>1. PagedTyped
  BY DEF PagedInv
<1>2. /\ pages' = [pages EXCEPT ![o] = result] /\ stale' = [stale EXCEPT ![o] = FALSE]
      /\ fetch' = [fetch EXCEPT ![o] = P!NoFetch]
  BY DEF P!Done
<1>3. /\ pages'[o] = result /\ ~stale'[o] /\ fetch'[o] = P!NoFetch
      /\ \A p \in P!Orders \ {o} : pages'[p] = pages[p] /\ stale'[p] = stale[p] /\ fetch'[p] = fetch[p]
  BY <1>1, <1>2 DEF PagedTyped
<1>4. PagedTyped'
  BY <1>1, <1>2 DEF PagedTyped
<1>5. fetch'[order'] = P!NoFetch => ~stale'[order'] /\ pages'[order'] # <<>>
  BY <1>1, <1>3 DEF PagedInv, PagedTyped, ShownThere
<1>6. ASSUME ~news', NEW p \in P!Orders \ lost'
      PROVE  InOrder(p)'
  <2>1. CASE p = o
    <3>1. Whole(o, result)'
      BY <1>6, <2>1 DEF Whole, P!ListPage, P!Ordered
    <3>2. fetch'[p] # P!NextOne /\ fetch'[p].kind # "all"
      BY <1>3, <2>1, Fetches
    <3> QED
      BY <1>3, <2>1, <3>1, <3>2 DEF InOrder, Whole
  <2>2. CASE p # o
    <3>1. InOrder(p)
      BY <1>6 DEF PagedInv, ShownThere
    <3> QED
      BY <1>3, <2>2, <3>1, InOrderAlone
  <2> QED
    BY <2>1, <2>2
<1> QED
  BY <1>4, <1>5, <1>6 DEF PagedInv, ShownThere

LEMMA PageAnswered ==
  ASSUME PagedInv, NEW o \in P!Orders, P!Answer(o)
  PROVE  PagedInv'
<1>1. PagedTyped
  BY DEF PagedInv
<1>2. PICK f : f = fetch[o]
  OBVIOUS
<1>3. f # P!NoFetch /\ UNCHANGED <<memos, news, order, lost>>
  BY <1>2 DEF P!Answer
<1>4. ~news /\ o \notin lost => InOrder(o)
  BY DEF PagedInv, ShownThere
<1>5. CASE f = P!NextOne
  <2>1. PICK page \in PageRec : page = P!ListPage(o, Len(pages[o]))
    <3>1. Len(pages[o]) \in Nat /\ memos \in Seq(MemoOf)
      BY <1>1 DEF PagedTyped
    <3> QED
      BY <3>1, ListPageIs
  <2>2. P!Done(o, Append(pages[o], page))
    BY <1>2, <1>5, <2>1, Fetches DEF P!Answer
  <2>3. Append(pages[o], page) \in Seq(PageRec) /\ Append(pages[o], page) # <<>>
    BY <1>1, AppendProperties DEF PagedTyped
  <2>4. ~news /\ o \notin lost => Whole(o, Append(pages[o], page))
    <3>1. ~news /\ o \notin lost => Whole(o, pages[o]) /\ GoesOn(pages[o])
      BY <1>2, <1>4, <1>5 DEF InOrder
    <3> QED
      BY <1>1, <2>1, <3>1, OnePageMore DEF PagedTyped
  <2> QED
    BY <1>3, <2>2, <2>3, <2>4, DoneKeeps
<1>6. CASE f \in FetchAll
  <2>0. f.kind = "all" /\ f.got \in Seq(PageRec) /\ f.left \in Int /\ Len(f.got) \in Nat
    BY <1>6, Fetches
  <2>1. PICK page \in PageRec : page = P!ListPage(o, Len(f.got))
    BY <1>1, <2>0, ListPageIs DEF PagedTyped
  <2>2. PICK got \in Seq(PageRec) : got = Append(f.got, page) /\ got # <<>>
    BY <2>0, AppendProperties
  <2>3. ~news /\ o \notin lost => Whole(o, got) /\ (page.more => GoesOn(got))
    <3>1. ~news /\ o \notin lost => Whole(o, f.got) /\ GoesOn(f.got)
      BY <1>2, <1>4, <2>0 DEF InOrder
    <3> QED
      BY <1>1, <2>0, <2>1, <2>2, <3>1, OnePageMore DEF PagedTyped
  <2>4. CASE f.left = 1 \/ ~page.more
    <3>1. P!Done(o, got)
      BY <1>2, <2>0, <2>1, <2>2, <2>4 DEF P!Answer
    <3> QED
      BY <1>3, <2>2, <2>3, <3>1, DoneKeeps
  <2>5. CASE ~(f.left = 1 \/ ~page.more)
    <3>1. fetch' = [fetch EXCEPT ![o].got = got, ![o].left = @ - 1] /\ UNCHANGED <<pages, stale>>
      BY <1>2, <2>0, <2>1, <2>2, <2>5 DEF P!Answer
    <3>2. PICK g \in FetchAll : g = [f EXCEPT !.got = got, !.left = f.left - 1] /\ g.got = got
      <4>1. PICK d \in FetchAll : d = f
        BY <1>6
      <4>2. PICK n \in Int : n = f.left - 1
        BY <2>0
      <4>3. PICK g : g = [d EXCEPT !.got = got, !.left = n]
        OBVIOUS
      <4>4. g \in FetchAll /\ g.got = got
        BY <4>3 DEF FetchAll
      <4> QED
        BY <4>1, <4>2, <4>3, <4>4
    <3>3. fetch' = [fetch EXCEPT ![o] = g]
      BY <1>1, <1>2, <3>1, <3>2 DEF PagedTyped
    <3>4. fetch'[o] = g /\ \A p \in P!Orders \ {o} : fetch'[p] = fetch[p]
      BY <1>1, <3>3 DEF PagedTyped
    <3>5. PagedTyped'
      BY <1>1, <1>3, <3>1, <3>2, <3>3 DEF PagedTyped
    <3>6. g # P!NoFetch /\ g # P!NextOne
      BY Fetches
    <3>7. fetch'[order'] = P!NoFetch => ~stale'[order'] /\ pages'[order'] # <<>>
      BY <1>1, <1>3, <3>1, <3>4, <3>6 DEF PagedInv, PagedTyped, ShownThere
    <3>8. ASSUME ~news', NEW p \in P!Orders \ lost'
          PROVE  InOrder(p)'
      <4>1. CASE p = o
        <5>1. Whole(o, got) /\ GoesOn(got)
          BY <1>3, <2>3, <2>5, <3>8, <4>1
        <5>2. Whole(o, got)' /\ GoesOn(got)'
          BY <1>3, <5>1 DEF Whole, GoesOn, P!ListPage, P!Ordered
        <5> QED
          BY <3>2, <3>4, <3>6, <4>1, <5>2 DEF InOrder, Whole, GoesOn
      <4>2. CASE p # o
        <5>1. InOrder(p)
          BY <1>3, <3>8 DEF PagedInv, ShownThere
        <5> QED
          BY <1>3, <3>1, <3>4, <4>2, <5>1 DEF InOrder, Whole, GoesOn, P!ListPage, P!Ordered
      <4> QED
        BY <4>1, <4>2
    <3> QED
      BY <3>5, <3>7, <3>8 DEF PagedInv, ShownThere
  <2> QED
    BY <2>4, <2>5
<1> QED
  BY <1>1, <1>2, <1>3, <1>5, <1>6 DEF PagedTyped

LEMMA NextPageKeeps ==
  ASSUME PagedInv, P!NextPage
  PROVE  PagedInv'
<1>1. PagedTyped /\ order \in P!Orders
  BY DEF PagedInv, PagedTyped
<1>2. /\ fetch' = [fetch EXCEPT ![order] = P!NextOne] /\ UNCHANGED <<memos, news, order, pages, stale>>
      /\ pages[order] # <<>> /\ P!Last(pages[order]).more
      /\ lost' = IF fetch[order] = P!NoFetch THEN lost ELSE lost \cup {order}
  BY DEF P!NextPage
<1>3. fetch'[order] = P!NextOne /\ \A p \in P!Orders \ {order} : fetch'[p] = fetch[p]
  BY <1>1, <1>2 DEF PagedTyped
<1>4. PagedTyped'
  BY <1>1, <1>2 DEF PagedTyped
<1>5. fetch'[order'] # P!NoFetch
  BY <1>2, <1>3, Fetches
<1>6. ASSUME ~news', NEW p \in P!Orders \ lost'
      PROVE  InOrder(p)'
  <2>1. p \in P!Orders \ lost /\ ~news
    BY <1>2, <1>6
  <2>2. InOrder(p)
    BY <2>1 DEF PagedInv, ShownThere
  <2>3. CASE p = order
    <3>1. fetch[order] = P!NoFetch /\ ~stale[order]
      BY <1>2, <1>6, <2>3 DEF PagedInv, ShownThere
    <3>2. Whole(order, pages[order])
      BY <2>2, <2>3, <3>1 DEF InOrder
    <3>3. PICK these \in Seq(PageRec) : these = pages[order]
      BY <1>1 DEF PagedTyped
    <3>4. GoesOn(these)
      <4>1. PICK n \in Nat : n = Len(these)
        OBVIOUS
      <4>2. these[n].more
        BY <1>2, <3>3, <4>1 DEF P!Last
      <4>3. \A k \in 1..(n - 1) : these[k].more
        BY <3>2, <3>3, <4>1 DEF Whole
      <4>4. \A k \in 1..n : k = n \/ k \in 1..(n - 1)
        OBVIOUS
      <4> QED
        BY <4>1, <4>2, <4>3, <4>4 DEF GoesOn
    <3>5. Whole(order, pages[order])' /\ GoesOn(pages[order])'
      BY <1>2, <3>2, <3>3, <3>4 DEF Whole, GoesOn, P!ListPage, P!Ordered
    <3> QED
      BY <1>2, <1>3, <2>3, <3>5, Fetches DEF InOrder
  <2>4. CASE p # order
    <3>1. p \in P!Orders \ {order}
      BY <1>6, <2>4
    <3> QED
      BY <1>2, <1>3, <2>2, <3>1, InOrderAlone
  <2> QED
    BY <2>3, <2>4
<1> QED
  BY <1>4, <1>5, <1>6 DEF PagedInv, ShownThere

LEMMA InOrderStays ==
  ASSUME NEW o \in P!Orders, InOrder(o), UNCHANGED <<memos, pages, stale, fetch>>
  PROVE  InOrder(o)'
BY DEF InOrder, Whole, GoesOn, P!ListPage, P!Ordered

LEMMA ToggleKeeps ==
  ASSUME PagedInv, P!Toggle
  PROVE  PagedInv'
<1>1. PagedTyped
  BY DEF PagedInv
<1>2. PICK o \in P!Orders : o = CHOOSE p \in P!Orders : p # order
  <2>1. \E p \in P!Orders : p # order
    BY DEF P!Orders
  <2> QED
    BY <2>1
<1>3. order' = o /\ UNCHANGED <<memos, news, pages, stale>>
  BY <1>2 DEF P!Toggle
<1>4. CASE fetch[o] # P!NoFetch \/ (pages[o] # <<>> /\ ~stale[o])
  <2>1. UNCHANGED <<fetch, lost>>
    BY <1>2, <1>4 DEF P!Toggle
  <2>2. PagedTyped'
    BY <1>1, <1>3, <2>1 DEF PagedTyped
  <2>3. ShownThere'
    <3>1. fetch'[order'] = P!NoFetch => ~stale'[order'] /\ pages'[order'] # <<>>
      BY <1>3, <1>4, <2>1
    <3>2. ASSUME ~news', NEW p \in P!Orders \ lost' PROVE InOrder(p)'
      <4>1. InOrder(p)
        BY <1>3, <2>1, <3>2 DEF PagedInv, ShownThere
      <4> QED
        BY <1>3, <2>1, <4>1, InOrderStays
    <3> QED
      BY <3>1, <3>2 DEF ShownThere
  <2> QED
    BY <2>2, <2>3 DEF PagedInv
<1>5. CASE ~(fetch[o] # P!NoFetch \/ (pages[o] # <<>> /\ ~stale[o]))
  <2>1. PICK f \in FetchAll : f.got = <<>> /\ fetch' = [fetch EXCEPT ![o] = f] /\ lost' = lost \ {o}
    <3>1. Len(pages[o]) \in Int
      BY <1>1 DEF PagedTyped
    <3> QED
      BY <1>2, <1>5, <3>1, Fetches DEF P!Toggle
  <2>2. fetch'[o] = f /\ \A p \in P!Orders \ {o} : fetch'[p] = fetch[p]
    BY <1>1, <2>1 DEF PagedTyped
  <2>3. PagedTyped'
    BY <1>1, <1>3, <2>1 DEF PagedTyped
  <2>4. f # P!NoFetch /\ f # P!NextOne
    BY Fetches
  <2>5. ASSUME ~news', NEW p \in P!Orders \ lost'
        PROVE  InOrder(p)'
    <3>1. CASE p = o
      <4>1. Whole(o, f.got)' /\ GoesOn(f.got)'
        BY <2>1 DEF Whole, GoesOn
      <4> QED
        BY <2>2, <2>4, <3>1, <4>1 DEF InOrder
    <3>2. CASE p # o
      <4>1. InOrder(p)
        BY <1>3, <2>1, <2>5, <3>2 DEF PagedInv, ShownThere
      <4> QED
        BY <1>3, <2>2, <3>2, <4>1 DEF InOrder, Whole, GoesOn, P!ListPage, P!Ordered
    <3> QED
      BY <3>1, <3>2
  <2> QED
    BY <1>3, <2>2, <2>3, <2>4, <2>5 DEF PagedInv, ShownThere
<1> QED
  BY <1>4, <1>5

LEMMA PagedKept ==
  ASSUME PagedInv, [P!Next]_paged
  PROVE  PagedInv'
<1>1. CASE UNCHANGED paged
  <2>1. UNCHANGED <<memos, news, order, pages, stale, fetch, lost>>
    BY <1>1 DEF paged
  <2>2. PagedTyped'
    BY <2>1 DEF PagedInv, PagedTyped
  <2>3. ASSUME ~news', NEW p \in P!Orders \ lost' PROVE InOrder(p)'
    <3>1. InOrder(p)
      BY <2>1, <2>3 DEF PagedInv, ShownThere
    <3> QED
      BY <2>1, <3>1, InOrderStays
  <2> QED
    BY <2>1, <2>2, <2>3 DEF PagedInv, ShownThere
<1> QED
  BY <1>1, ChangeKeeps, PageAnswered, HearKeeps, NextPageKeeps, ToggleKeeps DEF P!Next

(* What is shown of pages one after the other: the list from its start.     *)
LEMMA PartsJoin ==
  ASSUME NEW all \in Seq(MemoOf), NEW a \in Nat, NEW b \in Nat, a <= b, b <= Len(all)
  PROVE  SubSeq(all, 1, a) \o SubSeq(all, a + 1, b) = SubSeq(all, 1, b)
<1>1. ASSUME NEW m \in 1..(b + 1), NEW n \in 0..b, m <= n + 1
      PROVE  /\ SubSeq(all, m, n) \in Seq(MemoOf) /\ Len(SubSeq(all, m, n)) = n - m + 1
             /\ \A i \in 1..(n - m + 1) : SubSeq(all, m, n)[i] = all[m + i - 1]
  <2>1. \A i \in m..n : all[i] \in MemoOf
    <3>1. m..n \subseteq 1..Len(all)
      OBVIOUS
    <3> QED
      BY <3>1, ElementOfSeq
  <2>2. m \in Int /\ n \in Int
    OBVIOUS
  <2>3. PICK part1 : part1 = SubSeq(all, m, n)
    OBVIOUS
  <2>4. part1 \in Seq(MemoOf) /\ Len(part1) = (IF m <= n THEN n - m + 1 ELSE 0) /\ \A i \in 1..(n - m + 1) : part1[i] = all[m + i - 1]
    BY <2>1, <2>2, <2>3, SubSeqProperties
  <2>5. ~(m <= n) => n - m + 1 = 0
    <3>1. m <= n + 1
      BY <1>1
    <3> QED
      BY <2>2, <3>1
  <2> QED
    BY <2>3, <2>4, <2>5
<1>2. PICK s, t, u : s = SubSeq(all, 1, a) /\ t = SubSeq(all, a + 1, b) /\ u = SubSeq(all, 1, b)
  OBVIOUS
<1>3. s \in Seq(MemoOf) /\ Len(s) = a /\ \A i \in 1..a : s[i] = all[i]
  <2>1. 1 \in 1..(b + 1) /\ a \in 0..b /\ 1 <= a + 1 /\ a - 1 + 1 = a /\ \A i \in 1..a : 1 + i - 1 = i
    OBVIOUS
  <2> QED
    BY <1>1, <1>2, <2>1
<1>4. t \in Seq(MemoOf) /\ Len(t) = b - a /\ \A i \in 1..(b - a) : t[i] = all[a + i]
  <2>1. a + 1 \in 1..(b + 1) /\ b \in 0..b /\ a + 1 <= b + 1 /\ b - (a + 1) + 1 = b - a /\ \A i \in 1..(b - a) : (a + 1) + i - 1 = a + i
    OBVIOUS
  <2> QED
    BY <1>1, <1>2, <2>1
<1>5. u \in Seq(MemoOf) /\ Len(u) = b /\ \A i \in 1..b : u[i] = all[i]
  <2>1. 1 \in 1..(b + 1) /\ b \in 0..b /\ 1 <= b + 1 /\ b - 1 + 1 = b /\ \A i \in 1..b : 1 + i - 1 = i
    OBVIOUS
  <2> QED
    BY <1>1, <1>2, <2>1
<1>6. s \o t \in Seq(MemoOf) /\ Len(s \o t) = b /\ \A i \in 1..b : (s \o t)[i] = IF i <= a THEN s[i] ELSE t[i - a]
  <2>1. Len(s) + Len(t) = b
    BY <1>3, <1>4
  <2> QED
    BY <1>3, <1>4, <2>1, ConcatProperties
<1>7. \A i \in 1..b : (s \o t)[i] = u[i]
  <2>1. ASSUME NEW i \in 1..b PROVE (s \o t)[i] = all[i]
    <3>1. CASE i <= a
      <4>1. i \in 1..a
        BY <3>1
      <4> QED
        BY <1>3, <1>6, <3>1, <4>1
    <3>2. CASE ~(i <= a)
      <4>1. i - a \in 1..(b - a) /\ a + (i - a) = i
        BY <3>2
      <4> QED
        BY <1>4, <1>6, <3>2, <4>1
    <3> QED
      BY <3>1, <3>2
  <2> QED
    BY <1>5, <2>1
<1>8. s \o t = u
  BY <1>5, <1>6, <1>7, SeqEqual
<1> QED
  BY <1>2, <1>8

(* g joins the sequences to each other, one after the other: FlattenSeq.    *)
Joins(g, seqs, n) == g = [i \in 1..n |-> IF i = 1 THEN seqs[i] ELSE g[i - 1] \o seqs[i]]

LEMMA FlattenIs ==
  ASSUME NEW n \in Nat \ {0}, NEW seqs, Len(seqs) = n, NEW g, Joins(g, seqs, n)
  PROVE  P!FlattenSeq(seqs) = g[n]
<1>0. g = [i \in 1..n |-> IF i = 1 THEN seqs[i] ELSE g[i - 1] \o seqs[i]]
  BY DEF Joins
<1> DEFINE Eq(f) == f = [i \in 1..n |-> IF i = 1 THEN seqs[i] ELSE f[i - 1] \o seqs[i]]
           flat == CHOOSE f : Eq(f)
<1>1. P!FlattenSeq(seqs) = flat[n]
  BY DEF P!FlattenSeq
<1>2. Eq(flat)
  BY <1>0, Zenon
<1> HIDE DEF flat
<1>3. flat = [i \in 1..n |-> IF i = 1 THEN seqs[i] ELSE flat[i - 1] \o seqs[i]]
  BY <1>2
<1> DEFINE Good == {i \in 0..n : i = 0 \/ flat[i] = g[i]}
<1>4. 0 \in Good
  OBVIOUS
<1>5. ASSUME NEW i \in 1..n, i - 1 \in Good PROVE i \in Good
  <2>1. i \in 0..n
    OBVIOUS
  <2>2. CASE i = 1
    <3>1. flat[i] = seqs[i] /\ g[i] = seqs[i]
      BY <1>0, <1>3, <2>2
    <3> QED
      BY <2>1, <3>1
  <2>3. CASE i # 1
    <3>1. flat[i] = flat[i - 1] \o seqs[i]
      BY <1>3, <2>3
    <3>2. g[i] = g[i - 1] \o seqs[i]
      BY <1>0, <2>3
    <3>3. i - 1 # 0
      BY <2>3
    <3>4. flat[i - 1] = g[i - 1]
      BY <1>5, <3>3
    <3> QED
      BY <2>1, <3>1, <3>2, <3>4
  <2> QED
    BY <2>2, <2>3
<1>6. Good \in SUBSET (0..n) /\ n \in Nat /\ n \in 0..n
  OBVIOUS
<1> HIDE DEF Good
<1>7. Good = 0..n
  BY <1>4, <1>5, <1>6, UpTo
<1>8. flat[n] = g[n]
  BY <1>6, <1>7 DEF Good
<1> QED
  BY <1>1, <1>8

(* Pages one after the other, joined to each other, are the list so far.    *)
LEMMA PagesJoin ==
  ASSUME memos \in Seq(MemoOf), NEW o \in P!Orders, NEW ps \in Seq(PageRec), NEW n \in Nat \ {0}, n = Len(ps), Whole(o, ps)
  PROVE  /\ P!FlattenSeq([i \in DOMAIN ps |-> ps[i].memos]) = SubSeq(P!Ordered(o), 1, Upto(o, n * PageSize))
         /\ ps[n].more = (Len(P!Ordered(o)) > n * PageSize)
<1>1. PICK all \in Seq(MemoOf) : all = P!Ordered(o)
  BY OrderedIs
<1>2. PICK seqs : seqs = [i \in DOMAIN ps |-> ps[i].memos]
  OBVIOUS
<1>3. DOMAIN ps = 1..n /\ Len(seqs) = n /\ \A i \in 1..n : seqs[i] = ps[i].memos
  BY <1>2
<1>4. PICK g : g = [i \in 1..n |-> SubSeq(all, 1, Upto(o, i * PageSize))]
  OBVIOUS
<1>5. ASSUME NEW i \in 1..n
      PROVE  /\ seqs[i] = SubSeq(all, (i - 1) * PageSize + 1, Upto(o, i * PageSize))
             /\ ps[i].more = (Len(all) > i * PageSize)
  <2>1. i - 1 \in Nat /\ (i - 1) + 1 = i
    OBVIOUS
  <2>2. ps[i] = P!ListPage(o, i - 1)
    BY DEF Whole
  <2>3. PICK k \in Nat : k = i - 1 /\ k + 1 = i
    BY <2>1
  <2> QED
    BY <1>1, <1>3, <2>2, <2>3, ListPageIs
<1>6. ASSUME NEW i \in 1..n
      PROVE  g[i] = IF i = 1 THEN seqs[i] ELSE g[i - 1] \o seqs[i]
  <2>1. CASE i = 1
    <3>1. (i - 1) * PageSize + 1 = 1
      BY <2>1, PagedListAssumption
    <3> QED
      BY <1>4, <1>5, <2>1, <3>1
  <2>2. CASE i # 1
    <3>1. PICK k \in Nat : k = i - 1 /\ i = k + 1 /\ k \in 1..n /\ k \in 1..(n - 1)
      BY <2>2
    <3>2. PICK a \in Nat : a = k * PageSize
      BY Times
    <3>3. PICK b \in Nat : b = Upto(o, i * PageSize)
      BY <1>1, <3>1, Times DEF Upto
    <3>4. ps[k].more
      BY <1>3, <3>1 DEF Whole
    <3>5. Len(all) > a
      BY <1>5, <3>1, <3>2, <3>4
    <3>6. a = Upto(o, k * PageSize)
      BY <1>1, <3>2, <3>5 DEF Upto
    <3>7. a <= b /\ b <= Len(all)
      <4>0. PICK e \in Nat : e = (k + 1) * PageSize
        BY <3>1, Times
      <4>1. e = i * PageSize /\ e = a + PageSize /\ PageSize \in Nat
        <5>1. (k + 1) * PageSize = k * PageSize + PageSize /\ PageSize \in Nat
          BY Times
        <5> QED
          BY <3>1, <3>2, <4>0, <5>1
      <4>2. Len(all) \in Nat
        OBVIOUS
      <4> QED
        BY <1>1, <3>3, <3>5, <4>1, <4>2 DEF Upto
    <3>8. SubSeq(all, 1, a) \o SubSeq(all, a + 1, b) = SubSeq(all, 1, b)
      BY <3>7, PartsJoin
    <3>9. g[i - 1] = SubSeq(all, 1, a)
      BY <1>4, <3>1, <3>6
    <3>10. seqs[i] = SubSeq(all, a + 1, b)
      BY <1>5, <3>1, <3>2, <3>3
    <3>11. g[i] = SubSeq(all, 1, b)
      BY <1>4, <3>3
    <3> QED
      BY <2>2, <3>8, <3>9, <3>10, <3>11
  <2> QED
    BY <2>1, <2>2
<1>7. Joins(g, seqs, n)
  <2> DEFINE step(i) == IF i = 1 THEN seqs[i] ELSE g[i - 1] \o seqs[i]
  <2>1. g = [i \in 1..n |-> g[i]]
    BY <1>4
  <2>2. \A i \in 1..n : g[i] = step(i)
    BY <1>6
  <2> HIDE DEF step
  <2>3. g = [i \in 1..n |-> step(i)]
    BY <2>1, <2>2
  <2> QED
    BY <2>3 DEF step, Joins
<1>8. P!FlattenSeq(seqs) = g[n]
  BY <1>3, <1>7, FlattenIs
<1>9. n \in 1..n
  OBVIOUS
<1> QED
  BY <1>1, <1>2, <1>4, <1>5, <1>8, <1>9

LEMMA PagedShows == PagedInv => P!PagesFresh
<1>1. SUFFICES ASSUME PagedInv, ~news, fetch[order] = P!NoFetch, order \notin lost
               PROVE  P!Right
  BY DEF P!PagesFresh, P!UpToDate
<1>2. PagedTyped /\ order \in P!Orders
  BY <1>1 DEF PagedInv, PagedTyped
<1>3. Whole(order, pages[order]) /\ pages[order] # <<>>
  BY <1>1, <1>2 DEF PagedInv, ShownThere, InOrder
<1>4. PICK ps \in Seq(PageRec) : ps = pages[order]
  BY <1>2 DEF PagedTyped
<1>5. PICK n \in Nat \ {0} : n = Len(ps)
  BY <1>3, <1>4, EmptySeq
<1>6. PICK all \in Seq(MemoOf) : all = P!Ordered(order) /\ Len(all) = Len(memos)
  BY <1>2, OrderedIs DEF PagedTyped
<1>7. PICK e \in Nat : e = n * PageSize
  BY Times
<1>8. PICK b \in Nat : b = Upto(order, e)
  BY <1>6 DEF Upto
<1>9. b <= Len(all) /\ (b < Len(all)) = (Len(all) > e)
  <2>1. Len(all) \in Nat
    OBVIOUS
  <2> QED
    BY <1>6, <1>8, <2>1 DEF Upto
<1>10. PICK flat : flat = P!Shown /\ flat = SubSeq(all, 1, b) /\ ps[n].more = (Len(all) > e)
  <2>1. memos \in Seq(MemoOf)
    BY <1>2 DEF PagedTyped
  <2> QED
    BY <1>2, <1>3, <1>4, <1>5, <1>6, <1>7, <1>8, <2>1, PagesJoin DEF P!Shown
<1>11. flat \in Seq(MemoOf) /\ Len(flat) = b
  <2>1. \A i \in 1..b : all[i] \in MemoOf
    <3>1. 1..b \subseteq 1..Len(all)
      BY <1>9
    <3> QED
      BY <3>1, ElementOfSeq
  <2>2. 1 \in Int /\ b \in Int /\ (IF 1 <= b THEN b - 1 + 1 ELSE 0) = b
    OBVIOUS
  <2> QED
    BY <1>10, <2>1, <2>2, SubSeqProperties
<1>12. SubSeq(flat, 1, Len(flat)) = SubSeq(all, 1, Len(flat))
  <2>1. SubSeq(flat, 1, b) = flat
    BY <1>11, SubSeqFull
  <2> QED
    BY <1>10, <1>11, <2>1
<1>13. P!IsPrefix(flat, all)
  BY <1>9, <1>11, <1>12 DEF P!IsPrefix
<1>14. P!Last(ps) = ps[n]
  BY <1>5 DEF P!Last
<1> QED
  BY <1>4, <1>6, <1>9, <1>10, <1>11, <1>13, <1>14 DEF P!Right

-------------------------------------------------------------------------------
ListsInv == OwnInv /\ AloneInv /\ PagedInv /\ FilesInv

(* The lists of the settings, of memos and of attachments show what the     *)
(* server has once they have heard of it and nothing is under way.          *)
THEOREM ListsAlwaysShowTheServer == PagesSpec => []ListsShowTheServer
<1>1. PagesInit => ListsInv
  BY OwnStarts, AloneStarts, PagedStarts, FilesStart DEF PagesInit, ListsInv
<1>2. ListsInv /\ [PagesNext]_allVars => ListsInv'
  BY StepsOfParts, OwnKept, AloneKept, PagedKept, FilesKept DEF ListsInv
<1>3. ListsInv => ListsShowTheServer
  BY ListsSettle, PagedShows, FilesShow DEF ListsInv, ListsShowTheServer
<1> QED
  BY <1>1, <1>2, <1>3, PTL DEF PagesSpec
================================================================================
