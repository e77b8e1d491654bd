------------------------------ MODULE MemoLocation ------------------------------
(***************************************************************************)
(* Choosing the place of a memo in the editor                              *)
(* (web/src/components/MemoEditor/Toolbar/InsertMenu.tsx, hooks/           *)
(* useLocation.ts, components/LocationDialog.tsx, web/src/components/map/  *)
(* LocationPicker.tsx, useReverseGeocoding.ts): a position taken from the  *)
(* device, the map or typed coordinates, and a name that is looked up a    *)
(* second after the position has last changed, unless it is typed.         *)
(*                                                                         *)
(* A position is a pair of coordinates; it stands for its own name.        *)
(***************************************************************************)
EXTENDS Naturals

CONSTANTS
    Lats, Lngs,     \* valid coordinates
    Invalid,        \* a text that is none
    MaxPicks        \* bound: what the user does

VARIABLES
    open,           \* the dialog
    position,
    inputs,         \* the texts of the two coordinates
    placeholder,    \* the name
    initialized,    \* locationInitialized: a position has been chosen
    locating,       \* the device is asked where it is
    waiting,        \* the timer of the debounce is running
    debounced,      \* the position whose name is wanted
    asking,         \* positions whose name is being looked up
    names,          \* positions whose name is in the cache, for ever
    displayName,    \* the name the effect has last seen
    place,          \* the location of the memo in the editor
    picks

vars == <<open, position, inputs, placeholder, initialized, locating, waiting, debounced, asking,
          names, displayName, place, picks>>

Positions == Lats \X Lngs
None == <<>>
Typed == <<"typed">>   \* a name of the user's own
Place == [at : Positions, name : Positions \cup {Typed}]

Init ==
    /\ place \in {None} \cup Place
    /\ position = IF place = None THEN None ELSE place.at
    /\ inputs = position
    /\ placeholder = IF place = None THEN None ELSE place.name
    /\ open = FALSE /\ initialized = FALSE /\ locating = FALSE
    /\ waiting = TRUE /\ debounced = None
    /\ asking = {} /\ names = {} /\ displayName = None
    /\ picks = 0

UserActs == picks < MaxPicks /\ picks' = picks + 1

-------------------------------------------------------------------------------
(* updatePosition, and the debounce that starts again.                     *)
Moved(p) == position' = p /\ inputs' = p /\ waiting' = TRUE

(* The dialog is opened; the device is asked if there is no place yet.     *)
Open ==
    /\ UserActs /\ ~open /\ open' = TRUE
    /\ locating' = (locating \/ (place = None /\ ~initialized))
    /\ UNCHANGED <<position, inputs, placeholder, initialized, waiting, debounced, asking, names,
                   displayName, place>>

(* handlePositionChange: a click on the map, or the answer of the device,  *)
(* which comes whatever has been done meanwhile.                           *)
Positioned(p) ==
    /\ initialized' = TRUE /\ Moved(p)
    /\ UNCHANGED <<open, placeholder, debounced, asking, names, displayName, place>>

Tap(p) == UserActs /\ open /\ Positioned(p) /\ UNCHANGED locating
Located(p) == locating /\ locating' = FALSE /\ Positioned(p) /\ UNCHANGED picks
NotLocated ==
    /\ locating /\ locating' = FALSE
    /\ UNCHANGED <<open, position, inputs, placeholder, initialized, waiting, debounced, asking,
                   names, displayName, place, picks>>

(* updateCoordinate: a valid text moves a position there is, and writes    *)
(* both coordinates anew.                                                  *)
TypeCoordinate(k, text) ==
    /\ UserActs /\ open
    /\ IF text # Invalid /\ position # None
         THEN Moved([position EXCEPT ![k] = text])
         ELSE /\ inputs' = IF inputs = None THEN [i \in 1..2 |-> IF i = k THEN text ELSE Invalid]
                           ELSE [inputs EXCEPT ![k] = text]
              /\ UNCHANGED <<position, waiting>>
    /\ UNCHANGED <<open, placeholder, initialized, locating, debounced, asking, names, displayName, place>>

TypeName ==
    /\ UserActs /\ open /\ position # None
    /\ placeholder' \in {None, Typed}
    /\ UNCHANGED <<open, position, inputs, initialized, locating, waiting, debounced, asking, names,
                   displayName, place>>

Confirm ==
    /\ UserActs /\ open /\ position # None /\ placeholder # None
    /\ place' = [at |-> position, name |-> placeholder]
    /\ open' = FALSE
    /\ UNCHANGED <<position, inputs, placeholder, initialized, locating, waiting, debounced, asking,
                   names, displayName>>

(* The close button resets everything; Escape closes the dialog only.      *)
Cancel ==
    /\ UserActs /\ open /\ open' = FALSE
    /\ Moved(None) /\ placeholder' = None /\ initialized' = FALSE
    /\ UNCHANGED <<locating, debounced, asking, names, displayName, place>>
Dismiss ==
    /\ UserActs /\ open /\ open' = FALSE
    /\ UNCHANGED <<position, inputs, placeholder, initialized, locating, waiting, debounced, asking,
                   names, displayName, place>>

Remove ==
    /\ UserActs /\ ~open /\ place # None /\ place' = None
    /\ UNCHANGED <<open, position, inputs, placeholder, initialized, locating, waiting, debounced,
                   asking, names, displayName>>

-------------------------------------------------------------------------------
(* Mutant: a name that is there already is not written again. *)
NamedOnce(d, known) ==
    LET name == IF d \in known THEN d ELSE None IN
    /\ displayName' = name
    /\ placeholder' = IF name \notin {displayName, None} /\ placeholder = None THEN name ELSE placeholder

(* The effect of displayName: a name that is new to it is written over     *)
(* whatever is in the dialog.                                              *)
NamedAs(d, known) ==
    LET name == IF d \in known THEN d ELSE None IN
    /\ displayName' = name
    /\ placeholder' = IF name \notin {displayName, None} THEN name ELSE placeholder

Debounce ==
    /\ waiting /\ waiting' = FALSE
    /\ debounced' = position
    /\ asking' = asking \cup ({position} \ (names \cup {None}))
    /\ NamedAs(position, names)
    /\ UNCHANGED <<open, position, inputs, initialized, locating, names, place, picks>>

(* A name is found, or the coordinates stand for it.                       *)
Found(p) ==
    /\ p \in asking /\ asking' = asking \ {p}
    /\ names' = names \cup {p}
    /\ NamedAs(debounced, names \cup {p})
    /\ UNCHANGED <<open, position, inputs, initialized, locating, waiting, debounced, place, picks>>

Next ==
    \/ Open \/ NotLocated \/ TypeName \/ Confirm \/ Cancel \/ Dismiss \/ Remove \/ Debounce
    \/ \E p \in Positions : Tap(p) \/ Located(p) \/ Found(p)
    \/ \E text \in Lats \cup {Invalid} : TypeCoordinate(1, text)
    \/ \E text \in Lngs \cup {Invalid} : TypeCoordinate(2, text)

Spec == Init /\ [][Next]_vars

-------------------------------------------------------------------------------
TypeOK ==
    /\ {open, initialized, locating, waiting} \subseteq BOOLEAN
    /\ {position, debounced, displayName} \subseteq Positions \cup {None}
    /\ placeholder \in Positions \cup {None, Typed}
    /\ {asking, names} \subseteq SUBSET Positions
    /\ place \in {None} \cup Place
    /\ picks \in 0..MaxPicks

(* A dialog that is looking nothing up shows no name of another place than *)
(* its own: although lookups end in any order, the device answers late,    *)
(* and the dialog is reset while they are under way.                       *)
NamesSettle ==
    ~waiting /\ asking = {} /\ position # None => placeholder \in {position, Typed, None}

(* Not so, within the second of the debounce and until the name is found:  *)
(* the memo gets a position under the name of the one before.              *)
PlaceHasItsName == place # None => place.name \in {place.at, Typed}

(* Not so for a position chosen again right after a reset, whose name the  *)
(* effect has seen before.                                                 *)
AlwaysNamed ==
    ~waiting /\ asking = {} /\ position # None /\ displayName = position => placeholder # None

(* Not so: a name of the user's own is overwritten when the lookup ends,   *)
(* that of the memo being edited among them.                               *)
TypedNameKept == [][placeholder = Typed /\ picks' = picks => placeholder' = Typed]_vars

(* Not so: the answer of the device moves a position the user has chosen.  *)
ChoiceKept == [][initialized /\ picks' = picks => position' = position]_vars
================================================================================
