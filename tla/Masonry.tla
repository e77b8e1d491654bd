-------------------------------- MODULE Masonry --------------------------------
(***************************************************************************)
(* The columns of a list of memos (web/src/components/MasonryView): memos  *)
(* are laid out by the heights they had when last measured, at once when   *)
(* the list or the number of columns changes, and some time after a height *)
(* has changed, by a timer with the list and the columns of its time.      *)
(***************************************************************************)
EXTENDS Naturals, Sequences

CONSTANTS
    Cards,          \* memos
    Heights,        \* positive heights
    MaxColumns,
    Steady,         \* subset of BOOLEAN: whether lists and windows change only at rest
    MaxLayouts      \* bound: changes

VARIABLES
    steady,
    memoList,
    columns,
    tall,           \* the heights of the memos and
    prefix,         \* of the editor above the first column
    itemHeights,    \* the heights last measured, 0 if not yet
    distribution,   \* places in memoList, by column
    laidUnder,      \* the height of the editor when they were laid out
    due,            \* the effect of memoList and columns has not run yet
    timer,          \* redistributionTimeoutRef, with what its function has captured
    layouts

vars == <<steady, memoList, columns, tall, prefix, itemHeights, distribution, laidUnder, due, timer, layouts>>

Lists == {<<>>} \cup {<<m>> : m \in Cards}

(* findShortestColumnIndex: the fewer memos, then the first, of the        *)
(* shortest.                                                               *)
Shortest(heights, of) ==
    LET Less(c, d) ==
            \/ heights[c] < heights[d]
            \/ heights[c] = heights[d] /\ Len(of[c]) < Len(of[d])
            \/ heights[c] = heights[d] /\ Len(of[c]) = Len(of[d]) /\ c < d
    IN  CHOOSE c \in DOMAIN of : \A d \in DOMAIN of \ {c} : Less(c, d)

(* Mutant: the loop begins with the memo that is already there. *)
DistributionFromFirst(list, cols, heights, above) ==
    LET laid[i \in 0..Len(list)] ==
            IF i = 0
            THEN [of |-> [c \in 1..cols |-> IF c = 1 /\ list # <<>> THEN <<1>> ELSE <<>>],
                  tall |-> [c \in 1..cols |-> IF c = 1 THEN above ELSE 0]]
            ELSE LET c == Shortest(laid[i-1].tall, laid[i-1].of)
                 IN  [of |-> [laid[i-1].of EXCEPT ![c] = Append(@, i)],
                      tall |-> [laid[i-1].tall EXCEPT ![c] = @ + heights[list[i]]]]
    IN  laid[Len(list)].of

(* distributeItemsToColumns: the first memo under the editor, every other  *)
(* one in what is the shortest column when its turn comes.                 *)
Distribution(list, cols, heights, above) ==
    LET laid[i \in 0..Len(list)] ==
            IF i = 0
            THEN [of |-> [c \in 1..cols |-> <<>>],
                  tall |-> [c \in 1..cols |-> IF c = 1 THEN above ELSE 0]]
            ELSE LET c == IF i = 1 THEN 1 ELSE Shortest(laid[i-1].tall, laid[i-1].of)
                 IN  [of |-> [laid[i-1].of EXCEPT ![c] = Append(@, i)],
                      tall |-> [laid[i-1].tall EXCEPT ![c] = @ + heights[list[i]]]]
    IN  laid[Len(list)].of

Init ==
    /\ steady \in Steady
    /\ memoList \in Lists
    /\ columns = 1
    /\ tall \in [Cards -> Heights] /\ prefix \in {0} \cup Heights
    /\ itemHeights = [m \in Cards |-> 0]
    /\ distribution = <<<<>>>> /\ laidUnder = 0
    /\ due = TRUE /\ timer = <<>>
    /\ layouts = 0

Layout == layouts < MaxLayouts /\ layouts' = layouts + 1
AtRest == ~due /\ timer = <<>>

(* MasonryColumn: what is not in the list is not shown. *)
ShownIn(c) == {i \in DOMAIN memoList : c \in DOMAIN distribution /\ \E k \in DOMAIN distribution[c] : distribution[c][k] = i}
Mounted == {memoList[i] : i \in UNION {ShownIn(c) : c \in 1..columns}}

-------------------------------------------------------------------------------
(* A new memo, the next page, a memo that is gone or filtered out.         *)
ListChanges ==
    /\ Layout /\ (steady => AtRest)
    /\ \/ \E m \in Cards \ {memoList[i] : i \in DOMAIN memoList} :
            memoList' \in {<<m>> \o memoList, Append(memoList, m)}
       \/ \E i \in DOMAIN memoList :
            memoList' = SubSeq(memoList, 1, i - 1) \o SubSeq(memoList, i + 1, Len(memoList))
    /\ due' = TRUE
    /\ UNCHANGED <<steady, columns, tall, prefix, itemHeights, distribution, laidUnder, timer>>

(* handleResize: the window, or the choice between list and columns.       *)
Resize(n) ==
    /\ Layout /\ (steady => AtRest) /\ n # columns
    /\ columns' = n /\ due' = TRUE
    /\ UNCHANGED <<steady, memoList, tall, prefix, itemHeights, distribution, laidUnder, timer>>

(* Pictures are loaded, comments folded, the editor grows.                 *)
Grows(m, h) ==
    /\ Layout /\ tall[m] # h
    /\ tall' = [tall EXCEPT ![m] = h]
    /\ UNCHANGED <<steady, memoList, columns, prefix, itemHeights, distribution, laidUnder, due, timer>>

EditorGrows(h) ==
    /\ Layout /\ prefix # h
    /\ prefix' = h
    /\ UNCHANGED <<steady, memoList, columns, tall, itemHeights, distribution, laidUnder, due, timer>>

LaidOut(list, cols, heights) ==
    /\ distribution' = Distribution(list, cols, heights, prefix)
    /\ laidUnder' = prefix

(* redistributeMemos *)
Redistribute ==
    /\ due /\ due' = FALSE
    /\ LaidOut(memoList, columns, itemHeights)
    /\ UNCHANGED <<steady, memoList, columns, tall, prefix, itemHeights, timer, layouts>>

(* measureHeight, when a memo is mounted and by its observer, and          *)
(* handleHeightChange: the timer begins again.                             *)
Measure(m) ==
    /\ m \in Mounted /\ tall[m] # itemHeights[m]
    /\ itemHeights' = [itemHeights EXCEPT ![m] = tall[m]]
    /\ timer' = <<[list |-> memoList, cols |-> columns, heights |-> itemHeights']>>
    /\ UNCHANGED <<steady, memoList, columns, tall, prefix, distribution, laidUnder, due, layouts>>

(* debouncedRedistribute, 100 ms later. *)
TimerFires ==
    /\ timer # <<>> /\ timer' = <<>>
    /\ LaidOut(timer[1].list, timer[1].cols, timer[1].heights)
    /\ UNCHANGED <<steady, memoList, columns, tall, prefix, itemHeights, due, layouts>>

Next ==
    \/ ListChanges \/ Redistribute \/ TimerFires
    \/ \E n \in 1..MaxColumns : Resize(n)
    \/ \E m \in Cards : Measure(m) \/ \E h \in Heights : Grows(m, h)
    \/ \E h \in {0} \cup Heights : EditorGrows(h)

Spec == Init /\ [][Next]_vars

-------------------------------------------------------------------------------
TypeOK ==
    /\ steady \in BOOLEAN /\ due \in BOOLEAN
    /\ memoList \in Seq(Cards) /\ columns \in 1..MaxColumns
    /\ tall \in [Cards -> Heights] /\ itemHeights \in [Cards -> Heights \cup {0}]
    /\ {prefix, laidUnder} \subseteq Heights \cup {0}
    /\ distribution \in Seq(Seq(Nat)) /\ Len(timer) <= 1
    /\ layouts \in 0..MaxLayouts

(* A memo is never shown twice, whatever has changed since it was laid out.*)
NoneTwice ==
    \A c, d \in 1..columns : \A j, k \in Nat \cap 1..Len(memoList) :
        c \in DOMAIN distribution /\ d \in DOMAIN distribution
        /\ j \in DOMAIN distribution[c] /\ k \in DOMAIN distribution[d]
        /\ distribution[c][j] = distribution[d][k] => c = d /\ j = k

(* If lists and windows change at rest only, all memos are shown at rest,  *)
(* in their order within a column, the first of all under the editor.      *)
AllShown ==
    steady /\ AtRest =>
        /\ Mounted = {memoList[i] : i \in DOMAIN memoList}
        /\ memoList # <<>> => distribution[1][1] = 1
        /\ \A c \in DOMAIN distribution : \A j, k \in DOMAIN distribution[c] :
              j < k => distribution[c][j] < distribution[c][k]

(* ... and once they are measured no column is longer than another by more *)
(* than its last memo, the editor of the last layout counted.              *)
Balanced ==
    LET last(c) == tall[memoList[distribution[c][Len(distribution[c])]]]
        sum[c \in DOMAIN distribution] ==
            LET upTo[k \in 0..Len(distribution[c])] ==
                    IF k = 0 THEN (IF c = 1 THEN laidUnder ELSE 0)
                    ELSE upTo[k-1] + tall[memoList[distribution[c][k]]]
            IN  upTo[Len(distribution[c])]
    IN  steady /\ AtRest /\ (\A m \in Mounted : tall[m] = itemHeights[m]) =>
            \A c, d \in DOMAIN distribution :
                Len(distribution[c]) > (IF c = 1 THEN 1 ELSE 0) => sum[c] - last(c) <= sum[d]

LayoutSettles == NoneTwice /\ AllShown /\ Balanced
================================================================================
