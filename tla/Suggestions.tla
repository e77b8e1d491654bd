------------------------------ MODULE Suggestions ------------------------------
(***************************************************************************)
(* The popups of the plain editor that complete tags and commands          *)
(* (web/src/components/MemoEditor/Editor/useSuggestions.ts,                *)
(* TagSuggestions.tsx, SlashCommands.tsx, SuggestionsPopup.tsx, and the    *)
(* actions of Editor/index.tsx they use).  The handlers of the text area   *)
(* are those of the first render and reach what later ones have computed   *)
(* through refs, which only a render brings up to date.                    *)
(*                                                                         *)
(* A word of the text is whether it begins with the trigger, and the items *)
(* it finds; the characters are left out.                                  *)
(***************************************************************************)
EXTENDS Naturals, SequencesExt

CONSTANTS
    Offers,    \* items there can be
    Undefined,  \* an item that is none
    Stray,      \* the cursor and the items may change under a popup, see MoveKey and Fetched
    MaxWords, MaxKeys   \* bounds: words in the text; keys, clicks and fetches

VARIABLES
    words,      \* of the text area
    cursor,     \* the word the cursor is in, 0 between words
    items,      \* tagCount, sorted
    position,   \* the popup has one
    selectedIndex,
    suggestions,\* suggestionsRef, of the last render
    taken,      \* the last item taken and the word it has replaced
    keys

vars == <<words, cursor, items, position, selectedIndex, suggestions, taken, keys>>

Word == [trigger : BOOLEAN, finds : SUBSET Offers]
Blank == [trigger |-> FALSE, finds |-> {}]
Nothing == [item |-> Undefined, word |-> Blank]
Lists == {s \in UNION {[1..n -> Offers] : n \in 0..Cardinality(Offers)} : IsInjective(s)}

Init ==
    /\ words = <<>> /\ cursor = 0
    /\ items \in Lists
    /\ position = FALSE /\ selectedIndex = 0 /\ suggestions = <<>>
    /\ taken = {} /\ keys = 0

-------------------------------------------------------------------------------
(* getCurrentWord, of a text and a cursor.                                 *)
WordAt(text, c) == IF c = 0 THEN Blank ELSE text[c]

(* The members of a list that are in F, in order.                          *)
Keep(list, F) ==
    LET kept[i \in 0..Len(list)] ==
            IF i = 0 THEN <<>>
            ELSE IF list[i] \in F THEN Append(kept[i - 1], list[i]) ELSE kept[i - 1]
    IN  kept[Len(list)]

(* What a render computes.                                                 *)
Found(word, known) == IF word.trigger THEN Keep(known, word.finds) ELSE <<>>
Rendered(text, c, known) == suggestions' = Found(WordAt(text, c), known)

IsVisible == position /\ suggestions # <<>>
Key == keys < MaxKeys /\ keys' = keys + 1

(* Mutant: the selection is kept while the word is being typed. *)
HandleInputKept(word) ==
    /\ UNCHANGED selectedIndex
    /\ \E before \in BOOLEAN : position' = (word.trigger /\ ~before)

(* handleInput: the word now there, and whether the cursor is just before  *)
(* a trigger.                                                              *)
HandleInput(word) ==
    /\ selectedIndex' = 0
    /\ \E before \in BOOLEAN : position' = (word.trigger /\ ~before)

(* The word at the cursor, or a new one, becomes another.                  *)
Type(word) ==
    /\ Key
    /\ LET at == IF cursor = 0 THEN Len(words) + 1 ELSE cursor IN
         /\ at <= MaxWords
         /\ words' = IF cursor = 0 THEN Append(words, word) ELSE [words EXCEPT ![at] = word]
         /\ cursor' = at
    /\ HandleInput(word)
    /\ Rendered(words', cursor', items)
    /\ UNCHANGED <<items, taken>>

(* click, blur, and Escape and the arrows to the left and right hide it.   *)
Hide(c) ==
    /\ Key /\ cursor' = c /\ position' = FALSE
    /\ Rendered(words, c, items)
    /\ UNCHANGED <<words, items, selectedIndex, taken>>

(* Home, End and the page keys move the cursor, and nothing hears of it.    *)
MoveKey(c) ==
    /\ Key /\ (Stray \/ ~IsVisible) /\ cursor' = c
    /\ UNCHANGED <<words, items, position, selectedIndex, suggestions, taken>>

(* handleNavigation *)
Navigate ==
    /\ Key /\ IsVisible
    /\ LET count == Len(suggestions) IN
         selectedIndex' \in {(selectedIndex + 1) % count, ((selectedIndex + count) - 1) % count}
    /\ Rendered(words, cursor, items)
    /\ UNCHANGED <<words, cursor, items, position, taken>>

(* handleAutocomplete: the word at the cursor, whatever it is, is removed  *)
(* and the item written in its place with a space after it.                *)
Take(item) ==
    /\ taken' = {[item |-> item, word |-> WordAt(words, cursor)]}
    /\ LET word == [trigger |-> TRUE, finds |-> {item} \ {Undefined}] IN
         words' = IF cursor = 0 THEN Append(words, word) ELSE [words EXCEPT ![cursor] = word]
    /\ cursor' = 0 /\ position' = FALSE
    /\ Rendered(words', 0, items)
    /\ UNCHANGED <<items, selectedIndex>>

(* Enter and Tab.                                                          *)
Enter ==
    /\ Key /\ IsVisible /\ (cursor = 0 => Len(words) < MaxWords)
    /\ Take(IF selectedIndex < Len(suggestions) THEN suggestions[selectedIndex + 1] ELSE Undefined)

(* A mouse button on an item of the popup.                                 *)
MouseDown(i) ==
    /\ Key /\ IsVisible /\ (cursor = 0 => Len(words) < MaxWords)
    /\ i \in DOMAIN suggestions /\ Take(suggestions[i])

(* The tags are fetched again, after two minutes or when a memo has been   *)
(* saved, and may have become fewer.                                       *)
Fetched(known) ==
    /\ Key /\ (Stray \/ ~IsVisible \/ ToSet(items) \subseteq ToSet(known))
    /\ items' = known
    /\ Rendered(words, cursor, known)
    /\ UNCHANGED <<words, cursor, position, selectedIndex, taken>>

Next ==
    \/ \E word \in Word : Type(word)
    \/ \E c \in 0..Len(words) : Hide(c) \/ MoveKey(c)
    \/ Navigate \/ Enter
    \/ \E i \in DOMAIN suggestions : MouseDown(i)
    \/ \E known \in Lists : Fetched(known)

Spec == Init /\ [][Next]_vars

-------------------------------------------------------------------------------
TypeOK ==
    /\ words \in Seq(Word) /\ Len(words) <= MaxWords /\ cursor \in 0..Len(words)
    /\ items \in Lists /\ suggestions \in Lists
    /\ position \in BOOLEAN
    /\ selectedIndex \in 0..Cardinality(Offers)
    /\ taken \subseteq [item : Offers \cup {Undefined}, word : Word]
    /\ keys \in 0..MaxKeys

(* What is written from a popup is an item, and in place of a word that    *)
(* begins with the trigger and finds it: although words are changed and    *)
(* items come while one of them is selected.                               *)
(* Not so with Stray: a list that has become shorter than the selection    *)
(* writes "undefined", and after Home the first word of the line is        *)
(* replaced.                                                               *)
TakenWhereFound == \A t \in taken : t.item # Undefined /\ t.word.trigger /\ t.item \in t.word.finds
================================================================================
