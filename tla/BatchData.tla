------------------------------ MODULE BatchData ------------------------------
(***************************************************************************)
(* org.jsirenia.data.BatchData: an iterator that reads a table page by     *)
(* page.  The rows are 1, 2, .. in the order of their keys; rows may be    *)
(* added behind the last one while the iteration runs.  The producer reads *)
(* what comes behind the last item that was consumed; it may fail, or      *)
(* return a list that is no ArrayList.                                     *)
(***************************************************************************)
EXTENDS Naturals, SequencesExt, FiniteSetsExt

CONSTANTS
  FetchSize,
  MaxRows,      \* bound: rows of the table
  MaxFails      \* bound: calls of the producer that fail

VARIABLES
  rows,         \* how many rows the table has
  data,         \* the page, <<>> also when there is none
  loaded,       \* data # null
  index,        \* items of the page that were consumed
  prevItem,     \* the last item that was consumed, 0 is null
  handed,       \* history: the last item that next returned, 0 if none
  promised,     \* hasNext has returned true and next was not called since
  ended,        \* the last hasNext has returned false
  atRead,       \* how many rows there were when the page was read
  rejected,     \* a list that is no ArrayList was returned
  fails         \* failed calls of the producer

batchVars == <<rows, data, loaded, index, prevItem, handed, promised, ended, atRead,
               rejected, fails>>

Init ==
  /\ rows \in 0..MaxRows
  /\ data = <<>> /\ loaded = FALSE
  /\ index = 0 /\ prevItem = 0 /\ handed = 0
  /\ promised = FALSE /\ ended = FALSE /\ atRead = 0
  /\ rejected = FALSE /\ fails = 0

\* Mutants: the end of a page is the end; the last item is not remembered.
MoreOfPage == index < Len(data)
PrevForgotten == 0

\* The rows behind prevItem, at most FetchSize of them.
Page == [i \in 1..Min({FetchSize, rows - prevItem}) |-> prevItem + i]

HasMore == index < Len(data) \/ FetchSize = Len(data)

MustFill == ~ loaded \/ (HasMore /\ index >= Len(data))

StartOfPage == 0

NonEmpty == Page # <<>>

Answer(more) ==
  /\ promised' = more
  /\ ended' = ~ more

\* hasNext, with the page it has or with the next one.
HasNext ==
  \/ /\ ~ MustFill
     /\ Answer(HasMore)
     /\ UNCHANGED <<rows, data, loaded, index, prevItem, handed, atRead, rejected, fails>>
  \/ /\ MustFill
     /\ data' = Page /\ loaded' = TRUE /\ atRead' = rows
     /\ index' = StartOfPage
     /\ Answer(NonEmpty)
     /\ UNCHANGED <<rows, prevItem, handed, rejected, fails>>

\* The producer throws: nothing has changed.
ProducerFails ==
  /\ MustFill /\ fails < MaxFails
  /\ fails' = fails + 1
  /\ promised' = FALSE /\ ended' = FALSE
  /\ UNCHANGED <<rows, data, loaded, index, prevItem, handed, atRead, rejected>>

\* The wrong kind of list is refused after it was stored, before index is reset.
ListRefused ==
  /\ MustFill /\ fails < MaxFails
  /\ data' = Page /\ loaded' = TRUE /\ atRead' = rows
  /\ rejected' = TRUE /\ fails' = fails + 1
  /\ promised' = FALSE /\ ended' = FALSE
  /\ UNCHANGED <<rows, index, prevItem, handed>>

Remembered == data[index + 1]

\* next; without a row it throws and changes nothing.
NextItem ==
  /\ index < Len(data)
  /\ index' = index + 1
  /\ prevItem' = Remembered /\ handed' = data[index + 1]
  /\ promised' = FALSE
  /\ UNCHANGED <<rows, data, loaded, ended, atRead, rejected, fails>>

\* external: another transaction adds a row.
AddRow ==
  /\ rows < MaxRows
  /\ rows' = rows + 1
  /\ UNCHANGED <<data, loaded, index, prevItem, handed, promised, ended, atRead, rejected, fails>>

Next == HasNext \/ ProducerFails \/ ListRefused \/ NextItem \/ AddRow

Spec == Init /\ [][Next]_batchVars
-----------------------------------------------------------------------------
\* Type invariant; a page is never longer than was asked for.
TypeOK ==
  /\ rows \in 0..MaxRows /\ data \in Seq(1..MaxRows) /\ Len(data) <= FetchSize
  /\ loaded \in BOOLEAN /\ index \in 0..FetchSize /\ prevItem \in 0..MaxRows /\ handed \in 0..MaxRows
  /\ promised \in BOOLEAN /\ ended \in BOOLEAN /\ atRead \in 0..MaxRows
  /\ rejected \in BOOLEAN /\ fails \in 0..MaxFails

\* Rows are handed out one after the other: none twice, none left out, through
\* page ends, calls of hasNext that are repeated, and reads that failed.
NoGapNoRepeat == handed' \in {handed, handed + 1}

\* After hasNext has returned true, next has a row to return, and it is the next one.
TrueMeansNext ==
  promised => index < Len(data) /\ data[index + 1] = handed + 1

\* After hasNext has returned false every row was handed out that was there when
\* the last page was read; a producer that once returned the wrong kind of list can
\* end the iteration early.
FalseMeansAll == ended /\ ~ rejected => handed = atRead
=============================================================================
