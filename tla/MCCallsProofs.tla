---------------------------- MODULE MCCallsProofs ----------------------------
(***************************************************************************)
(* Theorems about the components of MCCalls, for any depth of calls, any   *)
(* page size and any number of rows, updates and lines.                    *)
(***************************************************************************)
EXTENDS MCCalls, SequenceTheorems, FiniteSetTheorems, TLAPS

-----------------------------------------------------------------------------
(* BatchData                                                               *)

\* What is left of the page comes right behind the last item that was consumed.
PageFollows ==
  /\ prevItem = handed
  /\ \A i \in DOMAIN data : data[i] <= rows
  /\ index < Len(data) => \A i \in DOMAIN data : data[i] + index = prevItem + i

\* As long as every list was taken, the page holds the rows that were there behind the
\* item it was read for, up to the page size.
PageIsFull ==
  loaded /\ ~ rejected =>
    /\ index <= Len(data)
    /\ Len(data) < FetchSize => prevItem + Len(data) = atRead + index

\* What hasNext has answered is still so.
AnswersHold ==
  /\ promised => index < Len(data)
  /\ ended => loaded /\ index >= Len(data) /\ (~ rejected => Len(data) < FetchSize)

BatchInv ==
  /\ Batch!TypeOK /\ PageFollows /\ PageIsFull /\ AnswersHold
  /\ prevItem <= rows /\ (~ loaded => data = <<>> /\ index = 0)

\* A page: rows in their order behind prevItem.
LEMMA PageIs ==
  ASSUME prevItem \in Nat, rows \in 0..MaxRows, prevItem <= rows
  PROVE  LET n == IF FetchSize <= rows - prevItem THEN FetchSize ELSE rows - prevItem
         IN  /\ Batch!Page \in Seq(1..MaxRows) /\ Len(Batch!Page) = n
             /\ \A i \in 1..n : Batch!Page[i] = prevItem + i
  <1> DEFINE n == IF FetchSize <= rows - prevItem THEN FetchSize ELSE rows - prevItem
  <1>1. n \in Nat /\ n <= rows - prevItem
    BY CallsAssumption
  <1>2. Batch!Min({FetchSize, rows - prevItem}) = n
    BY CallsAssumption DEF Batch!Min
  <1>3. Batch!Page = [i \in 1..n |-> prevItem + i]
    BY <1>2 DEF Batch!Page
  <1> HIDE DEF n
  <1>4. \A i \in 1..n : prevItem + i \in 1..MaxRows
    BY <1>1, CallsAssumption
  <1>5. Batch!Page \in Seq(1..MaxRows) /\ Len(Batch!Page) = n
    BY <1>1, <1>3, <1>4
  <1>6. \A i \in 1..n : Batch!Page[i] = prevItem + i
    BY <1>3
  <1> QED
    BY <1>5, <1>6 DEF n

\* Reading a page, wherever index is left.
LEMMA PageRead ==
  ASSUME BatchInv, data' = Batch!Page, loaded' = TRUE, atRead' = rows,
         UNCHANGED <<rows, prevItem, handed>>,
         index' = 0 \/ (index' = index /\ Batch!MustFill /\ rejected' = TRUE),
         rejected' \in BOOLEAN, fails' \in 0..MaxFails,
         promised' = FALSE \/ (index' = 0 /\ promised' = Batch!NonEmpty),
         ended' = FALSE \/ (index' = 0 /\ ended' = ~ Batch!NonEmpty)
  PROVE  BatchInv'
  <1>0. /\ prevItem \in Nat /\ rows \in 0..MaxRows /\ prevItem <= rows
        /\ FetchSize \in Nat \ {0} /\ index \in 0..FetchSize
    BY CallsAssumption DEF BatchInv, Batch!TypeOK
  <1> DEFINE n == IF FetchSize <= rows - prevItem THEN FetchSize ELSE rows - prevItem
  <1>1. /\ data' \in Seq(1..MaxRows) /\ Len(data') = n /\ DOMAIN data' = 1..n
        /\ \A i \in 1..n : data'[i] = prevItem + i
    BY <1>0, PageIs
  <1>2. n \in Nat /\ n <= FetchSize /\ n <= rows - prevItem
        /\ (n < FetchSize => n = rows - prevItem)
    BY <1>0
  <1> HIDE DEF n
  <1>3. index' < Len(data') => index' = 0
    <2>1. CASE index' = index /\ Batch!MustFill
      <3>1. index = 0 \/ index = FetchSize
        <4>1. CASE loaded
          <5>1. Len(data) \in Nat /\ index >= Len(data) /\ (index < Len(data) \/ FetchSize = Len(data))
            BY <2>1, <4>1 DEF Batch!MustFill, Batch!HasMore, BatchInv, Batch!TypeOK
          <5> QED
            BY <1>0, <5>1
        <4>2. CASE ~ loaded
          BY <4>2 DEF BatchInv
        <4> QED
          BY <4>1, <4>2
      <3> QED
        BY <1>0, <1>1, <1>2, <2>1, <3>1
    <2> QED
      BY <2>1
  <1>4. index' \in 0..FetchSize
    BY <1>0
  <1>5. Batch!NonEmpty <=> n > 0
    BY <1>1, <1>2 DEF Batch!NonEmpty
  <1>6. promised' \in BOOLEAN /\ ended' \in BOOLEAN
    BY DEF Batch!NonEmpty
  <1>7. Batch!TypeOK'
    BY <1>0, <1>1, <1>2, <1>4, <1>6 DEF BatchInv, Batch!TypeOK
  <1>8. PageFollows'
    BY <1>0, <1>1, <1>2, <1>3 DEF BatchInv, PageFollows
  <1>9. PageIsFull'
    BY <1>0, <1>1, <1>2 DEF PageIsFull
  <1>10. AnswersHold'
    <2>1. promised' => index' < Len(data')
      BY <1>1, <1>2, <1>5
    <2>2. ASSUME ended' PROVE index' >= Len(data') /\ Len(data') < FetchSize
      <3>1. index' = 0 /\ ~ (n > 0)
        BY <1>5, <2>2
      <3> QED
        BY <1>0, <1>1, <1>2, <3>1
    <2> QED
      BY <2>1, <2>2 DEF AnswersHold
  <1> QED
    BY <1>0, <1>7, <1>8, <1>9, <1>10 DEF BatchInv

LEMMA BatchStep == BatchInv /\ [Batch!Next]_batchVars => BatchInv'
  <1> SUFFICES ASSUME BatchInv, [Batch!Next]_batchVars PROVE BatchInv'
    OBVIOUS
  <1>0. /\ data \in Seq(1..MaxRows) /\ Len(data) \in Nat /\ index \in Nat /\ prevItem \in Nat
        /\ FetchSize \in Nat \ {0} /\ MaxFails \in Nat /\ fails \in 0..MaxFails
        /\ rejected \in BOOLEAN
    BY CallsAssumption DEF BatchInv, Batch!TypeOK
  <1>1. CASE Batch!HasNext
    <2>1. CASE /\ ~ Batch!MustFill
               /\ Batch!Answer(Batch!HasMore)
               /\ UNCHANGED <<rows, data, loaded, index, prevItem, handed, atRead, rejected, fails>>
      <3>1. /\ promised' = Batch!HasMore /\ ended' = ~ Batch!HasMore
            /\ loaded /\ (~ Batch!HasMore \/ index < Len(data))
        BY <1>0, <2>1 DEF Batch!Answer, Batch!MustFill
      <3>2. promised' \in BOOLEAN /\ ended' \in BOOLEAN
        BY <3>1 DEF Batch!HasMore
      <3>3. AnswersHold'
        BY <1>0, <2>1, <3>1 DEF AnswersHold, Batch!HasMore, BatchInv, Batch!TypeOK
      <3> QED
        BY <2>1, <3>2, <3>3 DEF BatchInv, Batch!TypeOK, PageFollows, PageIsFull
    <2>2. CASE /\ Batch!MustFill
               /\ data' = Batch!Page /\ loaded' = TRUE /\ atRead' = rows
               /\ index' = Batch!StartOfPage
               /\ Batch!Answer(Batch!NonEmpty)
               /\ UNCHANGED <<rows, prevItem, handed, rejected, fails>>
      BY <1>0, <2>2, PageRead DEF Batch!Answer, Batch!StartOfPage
    <2> QED
      BY <1>1, <2>1, <2>2 DEF Batch!HasNext
  <1>2. CASE Batch!ListRefused
    <2>1. /\ Batch!MustFill /\ fails < MaxFails /\ fails' = fails + 1
          /\ data' = Batch!Page /\ loaded' = TRUE /\ atRead' = rows /\ rejected' = TRUE
          /\ promised' = FALSE /\ ended' = FALSE
          /\ index' = index /\ UNCHANGED <<rows, prevItem, handed>>
      BY <1>2 DEF Batch!ListRefused
    <2>2. fails' \in 0..MaxFails
      BY <1>0, <2>1
    <2> QED
      BY <2>1, <2>2, PageRead
  <1>3. CASE Batch!ProducerFails
    <2>1. /\ fails < MaxFails /\ fails' = fails + 1 /\ promised' = FALSE /\ ended' = FALSE
          /\ UNCHANGED <<rows, data, loaded, index, prevItem, handed, atRead, rejected>>
      BY <1>3 DEF Batch!ProducerFails
    <2>2. fails' \in 0..MaxFails
      BY <1>0, <2>1
    <2> QED
      BY <2>1, <2>2 DEF BatchInv, Batch!TypeOK, PageFollows, PageIsFull, AnswersHold
  <1>4. CASE Batch!NextItem
    <2>1. /\ index < Len(data) /\ index' = index + 1 /\ prevItem' = data[index + 1]
          /\ handed' = data[index + 1] /\ index + 1 \in DOMAIN data
          /\ promised' = FALSE /\ UNCHANGED <<rows, data, loaded, ended, atRead, rejected, fails>>
      BY <1>0, <1>4 DEF Batch!NextItem, Batch!Remembered
    <2>0. \A i \in DOMAIN data : data[i] \in 1..MaxRows /\ i \in Nat
      <3>1. DOMAIN data = 1..Len(data) /\ \A i \in 1..Len(data) : data[i] \in 1..MaxRows
        BY <1>0, ElementOfSeq, LenProperties
      <3> QED
        BY <1>0, <3>1
    <2>00. data[index + 1] + index = prevItem + (index + 1)
      BY <1>0, <2>1 DEF BatchInv, PageFollows
    <2>2. data[index + 1] = prevItem + 1 /\ data[index + 1] \in 1..MaxRows
      BY <1>0, <2>0, <2>00, <2>1, CallsAssumption
    <2>20. index' \in 0..FetchSize
      BY <1>0, <2>1 DEF BatchInv, Batch!TypeOK
    <2>21. prevItem' \in 0..MaxRows /\ handed' \in 0..MaxRows
      BY <2>1, <2>2, CallsAssumption
    <2>3. Batch!TypeOK'
      BY <2>1, <2>20, <2>21 DEF BatchInv, Batch!TypeOK
    <2>4. ASSUME NEW i \in DOMAIN data PROVE data[i] + index' = prevItem' + i
      <3>1. data[i] + index = prevItem + i /\ data[i] \in Int /\ i \in Int
        BY <2>0, <2>1, CallsAssumption DEF BatchInv, PageFollows
      <3>2. index \in Int /\ prevItem \in Int
        BY <1>0
      <3>3. index' = index + 1 /\ prevItem' = prevItem + 1
        BY <2>1, <2>2
      <3> QED
        BY <3>1, <3>2, <3>3
    <2>5. PageFollows' /\ prevItem' <= rows'
      BY <1>0, <2>1, <2>4 DEF BatchInv, PageFollows
    <2>6. PageIsFull' /\ AnswersHold'
      BY <1>0, <2>1, <2>2 DEF BatchInv, PageIsFull, AnswersHold, Batch!TypeOK
    <2> QED
      BY <2>1, <2>3, <2>5, <2>6 DEF BatchInv
  <1>5. CASE Batch!AddRow
    <2>1. /\ rows < MaxRows /\ rows' = rows + 1
          /\ UNCHANGED <<data, loaded, index, prevItem, handed, promised, ended, atRead,
                         rejected, fails>>
      BY <1>5 DEF Batch!AddRow
    <2>2. rows \in 0..MaxRows /\ MaxRows \in Nat /\ \A i \in DOMAIN data : data[i] \in Nat
      BY <1>0, CallsAssumption DEF BatchInv, Batch!TypeOK
    <2>3. PageFollows' /\ prevItem' <= rows'
      BY <1>0, <2>1, <2>2 DEF BatchInv, PageFollows
    <2> QED
      BY <2>1, <2>2, <2>3 DEF BatchInv, Batch!TypeOK, PageIsFull, AnswersHold
  <1>6. CASE UNCHANGED batchVars
    BY <1>6 DEF batchVars, BatchInv, Batch!TypeOK, PageFollows, PageIsFull, AnswersHold
  <1> QED
    BY <1>1, <1>2, <1>3, <1>4, <1>5, <1>6 DEF Batch!Next
-----------------------------------------------------------------------------
(* JobLogUtil                                                              *)

Starts(s, t) == Len(s) <= Len(t) /\ \A i \in 1..Len(s) : s[i] = t[i]

LogFrame == [kind : Log!Kinds, before : Seq(Log!Part), made : BOOLEAN, plain : BOOLEAN]

LogTypes ==
  /\ given \in BOOLEAN /\ uid \in Seq(Log!Part) /\ ouid \in Seq(Log!Part)
  /\ nextId \in [{"Task", "Data"} -> 0..MaxId]
  /\ logFrames \in Seq(LogFrame) /\ Len(logFrames) <= LogDepth
  /\ calls \in 0..MaxCalls /\ jobs \in 0..calls

\* Only one job at a time has made its uid: the calls within it, and no others, found one.
UidMadeOnce ==
  \A i \in DOMAIN logFrames : logFrames[i].made =>
    /\ logFrames[i].kind = "Job" /\ ~ given
    /\ uid # <<>> /\ uid[1] = <<"Job", jobs - 1>>
    /\ \A j \in DOMAIN logFrames :
         /\ j <= i => logFrames[j].before = <<>>
         /\ j > i => logFrames[j].before # <<>>

\* There is a uid exactly where one was given or a job that made one still runs.
UidIsOwned ==
  /\ uid = <<>> => ouid = <<>> /\ \A i \in DOMAIN logFrames :
                                    ~ logFrames[i].made /\ logFrames[i].before = <<>>
  /\ given => uid # <<>> /\ \A i \in DOMAIN logFrames : logFrames[i].before # <<>>
  /\ ~ given /\ (\A i \in DOMAIN logFrames : ~ logFrames[i].made) => uid = <<>>

\* What is saved is what the innermost withTask or withData found.
SavedByInnermost ==
  /\ \A i \in DOMAIN logFrames : Starts(logFrames[i].before, uid)
  /\ ouid # <<>> =>
       /\ Starts(ouid, uid)
       /\ \E k \in DOMAIN logFrames :
            /\ logFrames[k].kind # "Job"
            /\ \A j \in DOMAIN logFrames :
                 /\ j > k => logFrames[j].kind = "Job" /\ ~ logFrames[j].made
                 /\ j <= k => Starts(logFrames[j].before, ouid)

\* A withTask or withData in which no other has run has its own uid saved.
PlainIsSaved ==
  \A i \in DOMAIN logFrames : logFrames[i].kind # "Job" /\ logFrames[i].plain =>
    /\ ouid = logFrames[i].before
    /\ \A j \in DOMAIN logFrames : j > i => logFrames[j].kind = "Job"

LogInv == LogTypes /\ UidMadeOnce /\ UidIsOwned /\ SavedByInnermost /\ PlainIsSaved

\* A call goes on top of the others, and is plain at first.
OnTop(fs, kind, made) ==
  /\ fs \in Seq(LogFrame) /\ Len(fs) = Len(logFrames) + 1 /\ Len(logFrames) \in Nat
  /\ DOMAIN fs = 1..Len(logFrames) + 1 /\ DOMAIN logFrames = 1..Len(logFrames)
  /\ \A i \in 1..Len(logFrames) :
       /\ fs[i].kind = logFrames[i].kind /\ fs[i].before = logFrames[i].before
       /\ fs[i].made = logFrames[i].made
       /\ fs[i].plain => logFrames[i].plain /\ kind = "Job"
  /\ fs[Len(logFrames) + 1].kind = kind /\ fs[Len(logFrames) + 1].before = uid
  /\ fs[Len(logFrames) + 1].made <=> made

LEMMA EnteredIs ==
  ASSUME LogTypes, NEW kind \in Log!Kinds, NEW made \in BOOLEAN
  PROVE  OnTop(Log!Entered(kind, made), kind, made)
  <1> DEFINE n == Len(logFrames)
             lower == [i \in DOMAIN logFrames |->
                         [logFrames[i] EXCEPT !.plain = @ /\ kind = "Job"]]
             top == [kind |-> kind, before |-> uid, made |-> made, plain |-> TRUE]
  <1>1. n \in Nat /\ DOMAIN logFrames = 1..n /\ \A i \in 1..n : logFrames[i] \in LogFrame
    BY LenProperties, ElementOfSeq DEF LogTypes
  <1>2. top \in LogFrame
    BY DEF LogTypes, LogFrame
  <1>3. \A i \in 1..n :
          /\ lower[i] \in LogFrame
          /\ lower[i].kind = logFrames[i].kind /\ lower[i].before = logFrames[i].before
          /\ lower[i].made = logFrames[i].made
          /\ lower[i].plain => logFrames[i].plain /\ kind = "Job"
    BY <1>1 DEF LogFrame
  <1>4. lower \in [1..n -> LogFrame]
    BY <1>1, <1>3
  <1>5. lower \in Seq(LogFrame) /\ Len(lower) = n
    BY <1>1, <1>4
  <1>6. <<top>> \in Seq(LogFrame) /\ Len(<<top>>) = 1 /\ <<top>>[1] = top
    BY <1>2
  <1> DEFINE fs == Log!Entered(kind, made)
  <1>7. fs = lower \o <<top>>
    BY DEF Log!Entered
  <1> HIDE DEF n, lower, top, fs
  <1>8. fs \in Seq(LogFrame) /\ Len(fs) = n + 1
        /\ \A i \in 1..n + 1 : fs[i] = IF i <= n THEN lower[i] ELSE <<top>>[i - n]
    BY <1>5, <1>6, <1>7, ConcatProperties
  <1>9. DOMAIN fs = 1..n + 1
    BY <1>1, <1>8, LenProperties
  <1>10. fs[n + 1] = top /\ \A i \in 1..n : fs[i] = lower[i]
    BY <1>1, <1>6, <1>8
  <1>11. \A i \in 1..n :
           /\ fs[i].kind = logFrames[i].kind /\ fs[i].before = logFrames[i].before
           /\ fs[i].made = logFrames[i].made
           /\ fs[i].plain => logFrames[i].plain /\ kind = "Job"
    BY <1>3, <1>10
  <1>12. fs[n + 1].kind = kind /\ fs[n + 1].before = uid /\ (fs[n + 1].made <=> made)
    BY <1>10 DEF top
  <1>13. OnTop(fs, kind, made)
    BY <1>1, <1>8, <1>9, <1>11, <1>12 DEF n, OnTop
  <1> QED
    BY <1>13 DEF fs

\* The innermost call is taken away.
LEMMA LeftIs ==
  ASSUME LogTypes, logFrames # <<>>, NEW fs, fs = Log!Front(logFrames)
  PROVE  /\ fs \in Seq(LogFrame) /\ Len(fs) = Len(logFrames) - 1
         /\ Len(logFrames) \in Nat \ {0} /\ DOMAIN logFrames = 1..Len(logFrames)
         /\ DOMAIN fs = 1..Len(logFrames) - 1
         /\ \A i \in 1..Len(logFrames) - 1 : fs[i] = logFrames[i]
         /\ Log!Last(logFrames) = logFrames[Len(logFrames)]
         /\ logFrames[Len(logFrames)] \in LogFrame
  <1> DEFINE n == Len(logFrames)
  <1>1. /\ n \in Nat \ {0} /\ DOMAIN logFrames = 1..n
        /\ \A i \in 1..n : logFrames[i] \in LogFrame
    BY LenProperties, ElementOfSeq, EmptySeq DEF LogTypes
  <1>2. fs = SubSeq(logFrames, 1, n - 1)
    BY DEF Log!Front
  <1> HIDE DEF n
  <1>3. n - 1 \in Int /\ \A i \in 1..n - 1 : logFrames[i] \in LogFrame
    BY <1>1
  <1>4. /\ fs \in Seq(LogFrame) /\ Len(fs) = IF 1 <= n - 1 THEN n - 1 - 1 + 1 ELSE 0
        /\ \A i \in 1..n - 1 - 1 + 1 : fs[i] = logFrames[1 + i - 1]
    BY <1>2, <1>3, SubSeqProperties
  <1>5. Len(fs) = n - 1 /\ \A i \in 1..n - 1 : fs[i] = logFrames[i]
    BY <1>1, <1>4
  <1>6. DOMAIN fs = 1..n - 1
    BY <1>4, <1>5, LenProperties
  <1>7. Log!Last(logFrames) = logFrames[Len(logFrames)]
    BY DEF Log!Last
  <1>8. n \in 1..n
    BY <1>1
  <1> QED
    BY <1>1, <1>4, <1>5, <1>6, <1>7, <1>8 DEF n

LEMMA StartsKept ==
  ASSUME NEW S, NEW s \in Seq(S), NEW t \in Seq(S), NEW e \in S
  PROVE  Starts(s, s) /\ Starts(<<>>, t) /\ (Starts(s, t) => Starts(s, Append(t, e)))
  <1>1. Len(s) \in Nat /\ Len(t) \in Nat /\ Len(<<>>) = 0
    BY LenProperties
  <1>2. Len(Append(t, e)) = Len(t) + 1 /\ \A i \in 1..Len(t) : Append(t, e)[i] = t[i]
    BY AppendProperties
  <1> QED
    BY <1>1, <1>2 DEF Starts

\* A call of withJob, which makes a uid only if there is none.
LEMMA WithJobStep == LogInv /\ Log!WithJob => LogInv'
  <1> SUFFICES ASSUME LogInv, Log!WithJob PROVE LogInv'
    OBVIOUS
  <1> DEFINE n == Len(logFrames)
  <1>0. LogTypes /\ UidMadeOnce /\ UidIsOwned /\ SavedByInnermost /\ PlainIsSaved
    BY DEF LogInv
  <1>1. /\ calls' = calls + 1 /\ n < LogDepth /\ calls < MaxCalls
        /\ logFrames' = Log!Entered("Job", Log!NeedsUid)
        /\ UNCHANGED <<given, ouid, nextId>>
        /\ IF uid = <<>> THEN uid' = <<<<"Job", jobs>>>> /\ jobs' = jobs + 1
                         ELSE uid' = uid /\ jobs' = jobs
        /\ Log!NeedsUid = (uid = <<>>)
    BY DEF Log!WithJob, Log!MayCall, Log!NeedsUid, Log!Empty
  <1>2. "Job" \in Log!Kinds /\ Log!NeedsUid \in BOOLEAN
    BY DEF Log!Kinds, Log!NeedsUid
  <1>3. /\ logFrames' \in Seq(LogFrame) /\ Len(logFrames') = n + 1 /\ n \in Nat
        /\ DOMAIN logFrames' = 1..n + 1 /\ DOMAIN logFrames = 1..n
        /\ \A i \in 1..n :
             /\ logFrames'[i].kind = logFrames[i].kind /\ logFrames'[i].before = logFrames[i].before
             /\ logFrames'[i].made = logFrames[i].made
             /\ logFrames'[i].plain => logFrames[i].plain
        /\ logFrames'[n + 1].kind = "Job" /\ logFrames'[n + 1].before = uid
        /\ logFrames'[n + 1].made <=> uid = <<>>
    <2>1. OnTop(Log!Entered("Job", Log!NeedsUid), "Job", Log!NeedsUid)
      BY <1>0, <1>2, EnteredIs, Zenon
    <2>2. OnTop(logFrames', "Job", Log!NeedsUid)
      BY <1>1, <2>1, Zenon
    <2> QED
      BY <2>2 DEF OnTop, Log!NeedsUid, Log!Empty
  <1> HIDE DEF n
  <1>4. jobs \in Nat /\ calls \in Nat /\ jobs <= calls /\ MaxCalls \in Nat /\ LogDepth \in Nat
    BY <1>0, CallsAssumption DEF LogTypes
  <1>5. LogTypes'
    <2>1. <<"Job", jobs>> \in Log!Part
      BY <1>4 DEF Log!Part, Log!Kinds
    <2>2. uid' \in Seq(Log!Part)
      <3>1. uid \in Seq(Log!Part) /\ <<<<"Job", jobs>>>> \in Seq(Log!Part)
        BY <1>0, <2>1 DEF LogTypes
      <3> QED
        BY <1>1, <3>1
    <2>3. calls' \in 0..MaxCalls /\ jobs' \in 0..calls'
      BY <1>1, <1>4
    <2> QED
      BY <1>0, <1>1, <1>3, <1>4, <2>2, <2>3 DEF LogTypes
  <1>6. \A i \in 1..n + 1 : i \in 1..n \/ i = n + 1
    BY <1>3
  <1>7. CASE uid = <<>>
    <2>1. /\ uid' = <<<<"Job", jobs>>>> /\ jobs' = jobs + 1 /\ ouid = <<>> /\ ouid' = <<>>
          /\ \A i \in 1..n : ~ logFrames'[i].made /\ logFrames'[i].before = <<>>
          /\ logFrames'[n + 1].made /\ logFrames'[n + 1].before = <<>>
          /\ logFrames'[n + 1].kind = "Job" /\ ~ given
      BY <1>0, <1>1, <1>3, <1>7 DEF UidIsOwned
    <2>2. uid' # <<>> /\ uid'[1] = <<"Job", jobs' - 1>>
      BY <1>4, <2>1
    <2>3. UidMadeOnce'
      BY <1>1, <1>3, <1>6, <2>1, <2>2 DEF UidMadeOnce
    <2>4. UidIsOwned'
      BY <1>1, <1>3, <1>6, <2>1, <2>2 DEF UidIsOwned
    <2>5. \A i \in 1..n + 1 : Starts(logFrames'[i].before, uid')
      <3>1. Starts(<<>>, uid')
        BY <2>1 DEF Starts
      <3> QED
        BY <1>6, <2>1, <3>1
    <2>6. SavedByInnermost'
      BY <1>3, <2>1, <2>5 DEF SavedByInnermost
    <2>7. PlainIsSaved'
      <3>1. \A i \in 1..n : logFrames[i].kind # "Job" /\ logFrames[i].plain =>
              /\ ouid = logFrames[i].before
              /\ \A j \in 1..n : j > i => logFrames[j].kind = "Job"
        BY <1>0, <1>3 DEF PlainIsSaved
      <3> QED
        BY <1>3, <1>6, <2>1, <3>1 DEF PlainIsSaved
    <2> QED
      BY <1>5, <2>3, <2>4, <2>6, <2>7 DEF LogInv
  <1>8. CASE uid # <<>>
    <2>1. /\ uid' = uid /\ jobs' = jobs /\ ouid' = ouid /\ given' = given
          /\ ~ logFrames'[n + 1].made /\ logFrames'[n + 1].before = uid
          /\ logFrames'[n + 1].kind = "Job"
      BY <1>1, <1>3, <1>8
    <2>2. UidMadeOnce'
      BY <1>0, <1>3, <1>6, <1>8, <2>1 DEF UidMadeOnce
    <2>3. UidIsOwned'
      BY <1>0, <1>3, <1>6, <1>8, <2>1 DEF UidIsOwned
    <2>4. \A i \in 1..n + 1 : Starts(logFrames'[i].before, uid)
      <3>1. Starts(uid, uid)
        BY <1>0, LenProperties DEF LogTypes, Starts
      <3>2. \A i \in 1..n : Starts(logFrames[i].before, uid)
        BY <1>0, <1>3 DEF SavedByInnermost
      <3> QED
        BY <1>3, <1>6, <2>1, <3>1, <3>2
    <2>5. SavedByInnermost'
      <3>1. ASSUME ouid # <<>>
            PROVE  \E k \in 1..n + 1 :
                     /\ logFrames'[k].kind # "Job"
                     /\ \A j \in 1..n + 1 :
                          /\ j > k => logFrames'[j].kind = "Job" /\ ~ logFrames'[j].made
                          /\ j <= k => Starts(logFrames'[j].before, ouid)
        <4>1. PICK k \in 1..n :
                /\ logFrames[k].kind # "Job"
                /\ \A j \in 1..n :
                     /\ j > k => logFrames[j].kind = "Job" /\ ~ logFrames[j].made
                     /\ j <= k => Starts(logFrames[j].before, ouid)
          BY <1>0, <1>3, <3>1 DEF SavedByInnermost
        <4>2. k \in 1..n + 1 /\ logFrames'[k].kind # "Job" /\ ~ (n + 1 <= k)
          BY <1>3, <1>6, <4>1
        <4>3. ASSUME NEW j \in 1..n + 1
              PROVE  /\ j > k => logFrames'[j].kind = "Job" /\ ~ logFrames'[j].made
                     /\ j <= k => Starts(logFrames'[j].before, ouid)
          <5>1. CASE j \in 1..n
            BY <1>3, <4>1, <5>1
          <5>2. CASE j = n + 1
            BY <1>3, <2>1, <4>2, <5>2
          <5> QED
            BY <1>6, <5>1, <5>2
        <4> QED
          BY <4>2, <4>3
      <3> QED
        BY <1>0, <1>3, <2>1, <2>4, <3>1 DEF SavedByInnermost
    <2>6. PlainIsSaved'
      BY <1>0, <1>3, <1>6, <2>1 DEF PlainIsSaved
    <2> QED
      BY <1>5, <2>2, <2>3, <2>5, <2>6 DEF LogInv
  <1> QED
    BY <1>7, <1>8

\* A call of withTask or withData, which adds a part to the uid if there is one.
LEMMA WithPartStep == ASSUME LogInv, NEW kind \in {"Task", "Data"}, Log!WithPart(kind)
                      PROVE  LogInv'
  <1> DEFINE n == Len(logFrames)
  <1>0. LogTypes /\ UidMadeOnce /\ UidIsOwned /\ SavedByInnermost
    BY DEF LogInv
  <1>1. /\ calls' = calls + 1 /\ n < LogDepth /\ calls < MaxCalls
        /\ logFrames' = Log!Entered(kind, FALSE)
        /\ UNCHANGED <<given, jobs>>
        /\ ouid' = IF uid # <<>> THEN uid ELSE ouid
        /\ uid' = IF uid = <<>> THEN uid ELSE Append(uid, <<kind, nextId[kind]>>)
        /\ nextId' = [nextId EXCEPT ![kind] = Log!CountedUp(@)]
    BY DEF Log!WithPart, Log!MayCall, Log!Saved, Log!Empty
  <1>2. kind \in Log!Kinds /\ FALSE \in BOOLEAN /\ kind # "Job"
    BY DEF Log!Kinds
  <1>3. /\ logFrames' \in Seq(LogFrame) /\ Len(logFrames') = n + 1 /\ n \in Nat
        /\ DOMAIN logFrames' = 1..n + 1 /\ DOMAIN logFrames = 1..n
        /\ \A i \in 1..n :
             /\ logFrames'[i].kind = logFrames[i].kind /\ logFrames'[i].before = logFrames[i].before
             /\ logFrames'[i].made = logFrames[i].made
             /\ ~ logFrames'[i].plain
        /\ logFrames'[n + 1].kind = kind /\ logFrames'[n + 1].before = uid
        /\ ~ logFrames'[n + 1].made
    <2>1. OnTop(Log!Entered(kind, FALSE), kind, FALSE)
      BY <1>0, <1>2, EnteredIs, Zenon
    <2>2. OnTop(logFrames', kind, FALSE)
      BY <1>1, <2>1, Zenon
    <2> QED
      BY <1>2, <2>2 DEF OnTop
  <1> HIDE DEF n
  <1>4. jobs \in Nat /\ calls \in Nat /\ jobs <= calls /\ MaxCalls \in Nat /\ LogDepth \in Nat
        /\ MaxId \in Nat /\ uid \in Seq(Log!Part) /\ ouid \in Seq(Log!Part)
        /\ nextId \in [{"Task", "Data"} -> 0..MaxId]
    BY <1>0, CallsAssumption DEF LogTypes
  <1>5. <<kind, nextId[kind]>> \in Log!Part
    BY <1>2, <1>4 DEF Log!Part
  <1>6. \A i \in 1..n + 1 : i \in 1..n \/ i = n + 1
    BY <1>3
  <1>7. LogTypes'
    <2>1. uid' \in Seq(Log!Part) /\ ouid' \in Seq(Log!Part)
      BY <1>1, <1>4, <1>5, AppendProperties
    <2>2. calls' \in 0..MaxCalls /\ jobs' \in 0..calls'
      BY <1>1, <1>4
    <2>3. nextId' \in [{"Task", "Data"} -> 0..MaxId]
      BY <1>1, <1>4 DEF Log!CountedUp
    <2>4. Len(logFrames') <= LogDepth
      <3>1. n < LogDepth /\ Len(logFrames') = n + 1 /\ n \in Nat
        BY <1>1, <1>3
      <3> QED
        BY <1>4, <3>1
    <2>5. given' \in BOOLEAN
      BY <1>0, <1>1 DEF LogTypes
    <2> QED
      BY <1>3, <2>1, <2>2, <2>3, <2>4, <2>5 DEF LogTypes
  <1>9. /\ uid = <<>> => uid' = <<>>
        /\ uid # <<>> => uid' # <<>> /\ uid'[1] = uid[1]
    <2>1. CASE uid # <<>>
      <3>1. uid' = Append(uid, <<kind, nextId[kind]>>) /\ Len(uid) \in Nat \ {0}
        BY <1>1, <1>4, <2>1, EmptySeq
      <3> QED
        BY <1>4, <1>5, <2>1, <3>1, AppendProperties
    <2> QED
      BY <1>1, <2>1
  <1>10. \A i \in 1..n + 1 : Starts(logFrames'[i].before, uid)
    <2>1. \A i \in 1..n : Starts(logFrames[i].before, uid)
      BY <1>0, <1>3 DEF SavedByInnermost
    <2>2. Starts(uid, uid)
      BY <1>4, LenProperties DEF Starts
    <2> QED
      BY <1>3, <1>6, <2>1, <2>2
  <1>10a. jobs' = jobs /\ (given' <=> given)
    BY <1>1
  <1>11. UidMadeOnce'
    <2> SUFFICES ASSUME NEW i \in 1..n + 1, logFrames'[i].made
                 PROVE  /\ logFrames'[i].kind = "Job" /\ ~ given'
                        /\ uid' # <<>> /\ uid'[1] = <<"Job", jobs' - 1>>
                        /\ \A j \in 1..n + 1 : /\ j <= i => logFrames'[j].before = <<>>
                                               /\ j > i => logFrames'[j].before # <<>>
      BY <1>3 DEF UidMadeOnce
    <2>1. i \in 1..n /\ logFrames[i].made
      BY <1>3, <1>6
    <2>2. /\ logFrames[i].kind = "Job" /\ ~ given
          /\ uid # <<>> /\ uid[1] = <<"Job", jobs - 1>>
          /\ \A j \in 1..n : /\ j <= i => logFrames[j].before = <<>>
                             /\ j > i => logFrames[j].before # <<>>
      BY <1>0, <1>3, <2>1 DEF UidMadeOnce
    <2>3. ~ (n + 1 <= i)
      BY <1>3, <2>1
    <2> QED
      BY <1>3, <1>6, <1>9, <1>10a, <2>1, <2>2, <2>3
  <1>12. UidIsOwned'
    <2>1. uid' = <<>> => uid = <<>>
      BY <1>9
    <2>2. (\A i \in 1..n + 1 : ~ logFrames'[i].made) => \A i \in 1..n : ~ logFrames[i].made
      BY <1>3
    <2>3. uid = <<>> => ouid' = <<>>
      BY <1>0, <1>1 DEF UidIsOwned
    <2> QED
      BY <1>0, <1>3, <1>6, <1>9, <1>10a, <2>1, <2>2, <2>3 DEF UidIsOwned
  <1>13. ouid' = uid
    BY <1>0, <1>1 DEF UidIsOwned
  <1>14. SavedByInnermost'
    <2>1. \A i \in 1..n + 1 : logFrames'[i].before \in Seq(Log!Part)
      <3>1. \A i \in 1..n + 1 : logFrames'[i] \in LogFrame
        BY <1>3, ElementOfSeq
      <3> QED
        BY <3>1 DEF LogFrame
    <2>2. \A i \in 1..n + 1 : Starts(logFrames'[i].before, uid')
      BY <1>1, <1>4, <1>5, <1>10, <2>1, StartsKept
    <2>3. Starts(uid, uid')
      BY <1>1, <1>4, <1>5, StartsKept
    <2>4. n + 1 \in 1..n + 1 /\ \A j \in 1..n + 1 : ~ (j > n + 1)
      BY <1>3
    <2>5. \E k \in 1..n + 1 :
            /\ logFrames'[k].kind # "Job"
            /\ \A j \in 1..n + 1 :
                 /\ j > k => logFrames'[j].kind = "Job" /\ ~ logFrames'[j].made
                 /\ j <= k => Starts(logFrames'[j].before, uid)
      BY <1>2, <1>3, <1>10, <2>4
    <2> QED
      BY <1>3, <1>13, <2>2, <2>3, <2>5 DEF SavedByInnermost
  <1>15. PlainIsSaved'
    BY <1>3, <1>6, <1>13 DEF PlainIsSaved
  <1> QED
    BY <1>7, <1>11, <1>12, <1>14, <1>15 DEF LogInv

\* The end of withJob takes back the uid it has made; nothing is saved then.
LEMMA JobEndsStep == LogInv /\ Log!JobEnds => LogInv'
  <1> SUFFICES ASSUME LogInv, Log!JobEnds PROVE LogInv'
    OBVIOUS
  <1> DEFINE n == Len(logFrames)
  <1>0. LogTypes /\ UidMadeOnce /\ UidIsOwned /\ SavedByInnermost /\ PlainIsSaved
    BY DEF LogInv
  <1>1. /\ logFrames # <<>> /\ Log!Last(logFrames).kind = "Job"
        /\ uid' = IF Log!Last(logFrames).made THEN <<>> ELSE uid
        /\ logFrames' = Log!Front(logFrames)
        /\ given' = given /\ ouid' = ouid /\ nextId' = nextId /\ jobs' = jobs /\ calls' = calls
    BY DEF Log!JobEnds, Log!Empty
  <1>2. /\ logFrames' \in Seq(LogFrame) /\ Len(logFrames') = n - 1
        /\ n \in Nat \ {0} /\ DOMAIN logFrames = 1..n
        /\ DOMAIN logFrames' = 1..n - 1
        /\ \A i \in 1..n - 1 : logFrames'[i] = logFrames[i]
        /\ Log!Last(logFrames) = logFrames[n]
    BY <1>0, <1>1, LeftIs
  <1> HIDE DEF n
  <1>3. logFrames[n].kind = "Job" /\ n \in 1..n /\ \A i \in 1..n - 1 : i \in 1..n /\ i < n
    BY <1>1, <1>2
  <1>4. ASSUME ouid # <<>>
        PROVE  \E k \in 1..n - 1 :
                 /\ logFrames[k].kind # "Job" /\ ~ logFrames[n].made
                 /\ \A j \in 1..n - 1 :
                      /\ j > k => logFrames[j].kind = "Job" /\ ~ logFrames[j].made
                      /\ j <= k => Starts(logFrames[j].before, ouid)
    <2>1. PICK k \in 1..n :
            /\ logFrames[k].kind # "Job"
            /\ \A j \in 1..n :
                 /\ j > k => logFrames[j].kind = "Job" /\ ~ logFrames[j].made
                 /\ j <= k => Starts(logFrames[j].before, ouid)
      BY <1>0, <1>2, <1>4 DEF SavedByInnermost
    <2>2. k \in 1..n - 1 /\ n > k
      BY <1>2, <1>3, <2>1
    <2> QED
      BY <1>3, <2>1, <2>2
  <1>5. LogTypes'
    <2>1. uid' \in Seq(Log!Part)
      BY <1>0, <1>1 DEF LogTypes
    <2>2. Len(logFrames') <= LogDepth
      <3>1. n <= LogDepth
        BY <1>0 DEF LogTypes, n
      <3> QED
        BY <1>2, <3>1, CallsAssumption
    <2> QED
      BY <1>0, <1>1, <1>2, <2>1, <2>2 DEF LogTypes
  <1>6. PlainIsSaved'
    BY <1>0, <1>1, <1>2, <1>3 DEF PlainIsSaved
  <1>7. CASE logFrames[n].made
    <2>1. /\ ~ given /\ uid' = <<>> /\ ouid = <<>>
          /\ \A i \in 1..n - 1 : logFrames[i].before = <<>> /\ i <= n
      BY <1>0, <1>1, <1>2, <1>3, <1>4, <1>7 DEF UidMadeOnce
    <2>2. ASSUME NEW i \in 1..n - 1, logFrames[i].made PROVE FALSE
      <3>1. n > i => logFrames[n].before # <<>>
        BY <1>0, <1>2, <1>3, <2>2 DEF UidMadeOnce
      <3>2. n <= n => logFrames[n].before = <<>>
        BY <1>0, <1>2, <1>3, <1>7 DEF UidMadeOnce
      <3> QED
        BY <1>2, <1>3, <3>1, <3>2
    <2>3. UidMadeOnce' /\ UidIsOwned'
      BY <1>1, <1>2, <2>1, <2>2 DEF UidMadeOnce, UidIsOwned
    <2>4. \A i \in 1..n - 1 : Starts(logFrames'[i].before, uid')
      <3>1. Starts(<<>>, uid')
        BY <2>1 DEF Starts
      <3> QED
        BY <1>2, <2>1, <3>1
    <2>5. SavedByInnermost'
      BY <1>1, <1>2, <2>1, <2>4 DEF SavedByInnermost
    <2> QED
      BY <1>5, <1>6, <2>3, <2>5 DEF LogInv
  <1>8. CASE ~ logFrames[n].made
    <2>1. uid' = uid
      BY <1>1, <1>2, <1>8
    <2>2. UidMadeOnce'
      BY <1>0, <1>1, <1>2, <1>3, <2>1 DEF UidMadeOnce
    <2>3. (\A i \in 1..n - 1 : ~ logFrames[i].made) => \A i \in 1..n : ~ logFrames[i].made
      BY <1>2, <1>8
    <2>4. UidIsOwned'
      BY <1>0, <1>1, <1>2, <1>3, <2>1, <2>3 DEF UidIsOwned
    <2>5. SavedByInnermost'
      BY <1>0, <1>1, <1>2, <1>3, <1>4, <2>1 DEF SavedByInnermost
    <2> QED
      BY <1>5, <1>6, <2>2, <2>4, <2>5 DEF LogInv
  <1> QED
    BY <1>7, <1>8

\* recoverUid gives the saved uid back.
LEMMA PartEndsStep == LogInv /\ Log!PartEnds => LogInv'
  <1> SUFFICES ASSUME LogInv, Log!PartEnds PROVE LogInv'
    OBVIOUS
  <1> DEFINE n == Len(logFrames)
  <1>0. LogTypes /\ UidMadeOnce /\ UidIsOwned /\ SavedByInnermost /\ PlainIsSaved
    BY DEF LogInv
  <1>1. /\ logFrames # <<>> /\ Log!Last(logFrames).kind # "Job"
        /\ uid' = IF ouid = <<>> THEN uid ELSE ouid
        /\ ouid' = <<>>
        /\ logFrames' = Log!Front(logFrames)
        /\ given' = given /\ nextId' = nextId /\ jobs' = jobs /\ calls' = calls
    BY DEF Log!PartEnds, Log!Empty, Log!SavedAfter
  <1>2. /\ logFrames' \in Seq(LogFrame) /\ Len(logFrames') = n - 1
        /\ n \in Nat \ {0} /\ DOMAIN logFrames = 1..n
        /\ DOMAIN logFrames' = 1..n - 1
        /\ \A i \in 1..n - 1 : logFrames'[i] = logFrames[i]
        /\ Log!Last(logFrames) = logFrames[n]
    BY <1>0, <1>1, LeftIs
  <1> HIDE DEF n
  <1>3. logFrames[n].kind # "Job" /\ n \in 1..n /\ \A i \in 1..n - 1 : i \in 1..n /\ i < n
    BY <1>1, <1>2
  <1>4. ~ logFrames[n].made
    BY <1>0, <1>2, <1>3 DEF UidMadeOnce
  <1>5. LogTypes'
    <2>1. uid' \in Seq(Log!Part) /\ ouid' \in Seq(Log!Part)
      BY <1>0, <1>1 DEF LogTypes
    <2>2. Len(logFrames') <= LogDepth
      <3>1. n <= LogDepth
        BY <1>0 DEF LogTypes, n
      <3> QED
        BY <1>2, <3>1, CallsAssumption
    <2> QED
      BY <1>0, <1>1, <1>2, <2>1, <2>2 DEF LogTypes
  <1>6. PlainIsSaved'
    <2>1. \A i \in 1..n - 1 : ~ (logFrames[i].kind # "Job" /\ logFrames[i].plain)
      BY <1>0, <1>2, <1>3 DEF PlainIsSaved
    <2> QED
      BY <1>2, <2>1 DEF PlainIsSaved
  <1>7. /\ uid' = <<>> => uid = <<>>
        /\ uid = <<>> => uid' = <<>>
        /\ uid # <<>> => uid'[1] = uid[1]
        /\ \A i \in 1..n - 1 : Starts(logFrames[i].before, uid')
    <2>1. CASE ouid = <<>>
      BY <1>0, <1>1, <1>2, <1>3, <2>1 DEF SavedByInnermost
    <2>2. CASE ouid # <<>>
      <3>1. PICK k \in 1..n :
              /\ logFrames[k].kind # "Job"
              /\ \A j \in 1..n :
                   /\ j > k => logFrames[j].kind = "Job" /\ ~ logFrames[j].made
                   /\ j <= k => Starts(logFrames[j].before, ouid)
        BY <1>0, <1>2, <2>2 DEF SavedByInnermost
      <3>2. k = n
        BY <1>2, <1>3, <3>1
      <3>3. uid # <<>> /\ Starts(ouid, uid) /\ uid' = ouid
        BY <1>0, <1>1, <2>2 DEF UidIsOwned, SavedByInnermost
      <3>4. Len(ouid) \in Nat \ {0} /\ Len(uid) \in Nat
        BY <1>0, <2>2, EmptySeq, LenProperties DEF LogTypes
      <3>5. ouid[1] = uid[1]
        BY <3>3, <3>4 DEF Starts
      <3> QED
        BY <1>3, <2>2, <3>1, <3>2, <3>3, <3>5
    <2> QED
      BY <2>1, <2>2
  <1>8. UidMadeOnce'
    <2> SUFFICES ASSUME NEW i \in 1..n - 1, logFrames[i].made
                 PROVE  /\ logFrames[i].kind = "Job" /\ ~ given
                        /\ uid' # <<>> /\ uid'[1] = <<"Job", jobs - 1>>
                        /\ \A j \in 1..n - 1 :
                             /\ j <= i => logFrames[j].before = <<>>
                             /\ j > i => logFrames[j].before # <<>>
      BY <1>1, <1>2 DEF UidMadeOnce
    <2>1. /\ logFrames[i].kind = "Job" /\ ~ given
          /\ uid # <<>> /\ uid[1] = <<"Job", jobs - 1>>
          /\ \A j \in 1..n : /\ j <= i => logFrames[j].before = <<>>
                             /\ j > i => logFrames[j].before # <<>>
      BY <1>0, <1>2, <1>3 DEF UidMadeOnce
    <2> QED
      BY <1>3, <1>7, <2>1
  <1>9. UidIsOwned'
    <2>1. (\A i \in 1..n - 1 : ~ logFrames[i].made) => \A i \in 1..n : ~ logFrames[i].made
      BY <1>2, <1>4
    <2> QED
      BY <1>0, <1>1, <1>2, <1>3, <1>7, <2>1 DEF UidIsOwned
  <1>10. SavedByInnermost'
    BY <1>1, <1>2, <1>7 DEF SavedByInnermost
  <1> QED
    BY <1>5, <1>6, <1>8, <1>9, <1>10 DEF LogInv

LEMMA LogStep == LogInv /\ [Log!Next]_logVars => LogInv'
  <1> SUFFICES ASSUME LogInv, [Log!Next]_logVars PROVE LogInv'
    OBVIOUS
  <1>1. ASSUME NEW kind \in {"Task", "Data"}, Log!OtherThreadCounts(kind) PROVE LogInv'
    <2>1. /\ calls < MaxCalls /\ calls' = calls + 1
          /\ nextId' = [nextId EXCEPT ![kind] = Log!CountedUp(@)]
          /\ given' = given /\ uid' = uid /\ ouid' = ouid /\ logFrames' = logFrames /\ jobs' = jobs
      BY <1>1 DEF Log!OtherThreadCounts
    <2>2. LogTypes /\ MaxId \in Nat /\ MaxCalls \in Nat
      BY CallsAssumption DEF LogInv
    <2>3. nextId' \in [{"Task", "Data"} -> 0..MaxId]
      BY <2>1, <2>2 DEF LogTypes, Log!CountedUp
    <2>4. calls' \in 0..MaxCalls /\ jobs' \in 0..calls'
      BY <2>1, <2>2 DEF LogTypes
    <2>5. LogTypes'
      BY <2>1, <2>2, <2>3, <2>4 DEF LogTypes
    <2> QED
      BY <2>1, <2>5 DEF LogInv, UidMadeOnce, UidIsOwned, SavedByInnermost, PlainIsSaved
  <1>2. CASE UNCHANGED logVars
    <2>1. /\ given' = given /\ uid' = uid /\ ouid' = ouid /\ nextId' = nextId
          /\ logFrames' = logFrames /\ jobs' = jobs /\ calls' = calls
      BY <1>2 DEF logVars
    <2> QED
      BY <2>1 DEF LogInv, LogTypes, UidMadeOnce, UidIsOwned, SavedByInnermost, PlainIsSaved
  <1> QED
    BY <1>1, <1>2, WithJobStep, WithPartStep, JobEndsStep, PartEndsStep DEF Log!Next

\* A call in which no other withTask or withData has run finds its uid again.
LEMMA RestoredStep ==
  ASSUME LogInv, Log!PartEnds, Log!Last(logFrames).plain
  PROVE  uid' = Log!Last(logFrames).before
  <1> DEFINE n == Len(logFrames)
  <1>0. LogTypes /\ UidMadeOnce /\ UidIsOwned /\ PlainIsSaved
    BY DEF LogInv
  <1>1. /\ logFrames # <<>> /\ Log!Last(logFrames).kind # "Job"
        /\ uid' = IF ouid = <<>> THEN uid ELSE ouid
    BY DEF Log!PartEnds, Log!Empty
  <1>2. /\ n \in Nat \ {0} /\ DOMAIN logFrames = 1..n /\ Log!Last(logFrames) = logFrames[n]
    BY <1>0, <1>1, LeftIs
  <1> HIDE DEF n
  <1>3. n \in 1..n /\ ouid = logFrames[n].before /\ logFrames[n].kind # "Job"
    BY <1>0, <1>1, <1>2 DEF PlainIsSaved
  <1>4. ASSUME ouid = <<>> PROVE uid = <<>>
    <2>1. ~ given
      BY <1>0, <1>2, <1>3, <1>4 DEF UidIsOwned
    <2>2. ASSUME NEW i \in 1..n, logFrames[i].made PROVE FALSE
      <3>1. i # n /\ i < n
        BY <1>0, <1>2, <1>3, <2>2 DEF UidMadeOnce
      <3> QED
        BY <1>0, <1>2, <1>3, <1>4, <2>2, <3>1 DEF UidMadeOnce
    <2> QED
      BY <1>0, <1>2, <2>1, <2>2 DEF UidIsOwned
  <1> QED
    BY <1>1, <1>2, <1>3, <1>4
-----------------------------------------------------------------------------
(* DbClient                                                                *)

ConnsOf(fs) == {fs[i].conn : i \in 1..Len(fs)}

\* Calls fs over a stack st: every connection of the stack is another one, a statement
\* runs alone, and on top of a connection that withTx has opened runs withTx.
Nested(fs, st) ==
  /\ fs \in Seq(Frame) /\ st \in Seq(Conn)
  /\ Len(st) = Owned(fs, Len(fs))
  /\ \A i \in 1..Len(fs) : Owned(fs, i) > 0 /\ fs[i].conn = st[Owned(fs, i)]
  /\ \A a, b \in 1..Len(st) : st[a] = st[b] => a = b
  /\ \A a \in 1..Len(st) : st[a] \in ConnsOf(fs)
  /\ \A i \in 1..Len(fs) : fs[i].kind \in {"statement", "finish"} => i = 1
  /\ Len(fs) > 1 => fs[1].kind # "statement" /\ (fs[1].kind = "finish" => fs[2].kind = "withTx")

LEMMA OwnedCounts ==
  ASSUME NEW fs, NEW i \in Nat
  PROVE  /\ Owned(fs, 0) = 0 /\ Owned(fs, i) \in 0..i
         /\ Owned(fs, i + 1) = IF fs[i + 1].kind # "withTx" THEN Owned(fs, i) + 1 ELSE Owned(fs, i)
  <1> DEFINE own(k) == {j \in 1..k : fs[j].kind # "withTx"}
  <1>1. \A k \in Nat : own(k) \subseteq 1..k /\ IsFiniteSet(1..k) /\ Cardinality(1..k) = k
    BY FS_Interval
  <1>2. \A k \in Nat : IsFiniteSet(own(k)) /\ Cardinality(own(k)) \in 0..k
    <2> SUFFICES ASSUME NEW k \in Nat PROVE IsFiniteSet(own(k)) /\ Cardinality(own(k)) \in 0..k
      OBVIOUS
    <2>1. IsFiniteSet(own(k)) /\ Cardinality(own(k)) <= Cardinality(1..k)
      BY <1>1, FS_Subset
    <2>2. Cardinality(own(k)) \in Nat
      BY <2>1, FS_CardinalityType
    <2> QED
      BY <1>1, <2>1, <2>2
  <1>3. own(0) = {} /\ Cardinality({}) = 0
    BY FS_EmptySet
  <1>4. CASE fs[i + 1].kind # "withTx"
    <2>1. own(i + 1) = own(i) \cup {i + 1} /\ i + 1 \notin own(i)
      BY <1>4
    <2> HIDE DEF own
    <2>2. Cardinality(own(i) \cup {i + 1}) = Cardinality(own(i)) + 1
      BY <1>2, <2>1, FS_AddElement
    <2>3. Cardinality(own(i + 1)) = Cardinality(own(i)) + 1
      BY <2>1, <2>2
    <2> QED
      BY <1>2, <1>3, <1>4, <2>3 DEF Owned, own
  <1>5. CASE fs[i + 1].kind = "withTx"
    <2>1. own(i + 1) = own(i)
      BY <1>5
    <2> QED
      BY <1>2, <1>3, <1>5, <2>1 DEF Owned
  <1> QED
    BY <1>4, <1>5

LEMMA OwnedSame ==
  ASSUME NEW fs, NEW gs, NEW i \in Nat,
         \A j \in 1..i : fs[j].kind = "withTx" <=> gs[j].kind = "withTx"
  PROVE  Owned(fs, i) = Owned(gs, i)
  <1>1. {j \in 1..i : fs[j].kind # "withTx"} = {j \in 1..i : gs[j].kind # "withTx"}
    OBVIOUS
  <1> QED
    BY <1>1 DEF Owned

LEMMA OwnedGrows ==
  ASSUME NEW fs, NEW n \in Nat, NEW i \in 0..n
  PROVE  Owned(fs, i) \in Nat /\ Owned(fs, n) \in Nat /\ Owned(fs, i) <= Owned(fs, n)
  <1>1. {j \in 1..i : fs[j].kind # "withTx"} \subseteq {j \in 1..n : fs[j].kind # "withTx"}
    OBVIOUS
  <1>2. {j \in 1..n : fs[j].kind # "withTx"} \subseteq 1..n /\ IsFiniteSet(1..n)
    BY FS_Interval
  <1>3. IsFiniteSet({j \in 1..n : fs[j].kind # "withTx"})
    BY <1>2, FS_Subset
  <1>4. Owned(fs, i) <= Owned(fs, n)
    BY <1>1, <1>3, FS_Subset DEF Owned
  <1> QED
    BY <1>4, OwnedCounts

\* The innermost of the calls fs may open the connection c.
MayOpen(fs, st, c, kind) ==
  /\ Nested(fs, st) /\ c \in Conn /\ \A a \in 1..Len(st) : st[a] # c
  /\ kind \in Kinds \ {"withTx"}
  /\ fs = <<>> \/ (kind = "withConn" /\ fs[Len(fs)].kind \in {"withConn", "withTx"})

\* Any call that opens a connection makes the stack higher by one.
LEMMA PushOwn ==
  ASSUME NEW fs, NEW st, NEW c, NEW kind, MayOpen(fs, st, c, kind),
         NEW f, f = [kind |-> kind, conn |-> c]
  PROVE  Nested(Append(fs, f), Append(st, c)) /\ ConnsOf(Append(fs, f)) = ConnsOf(fs) \cup {c}
  <1> DEFINE n == Len(fs)
             m == Len(st)
             gs == Append(fs, f)
             ts == Append(st, c)
  <1>0. /\ Nested(fs, st) /\ c \in Conn /\ \A a \in 1..Len(st) : st[a] # c
        /\ kind \in Kinds \ {"withTx"}
        /\ fs = <<>> \/ (kind = "withConn" /\ fs[Len(fs)].kind \in {"withConn", "withTx"})
    BY DEF MayOpen
  <1>1. n \in Nat /\ m \in Nat /\ f \in Frame /\ fs \in Seq(Frame) /\ st \in Seq(Conn)
    BY <1>0, LenProperties DEF Nested, Frame
  <1>2. /\ gs \in Seq(Frame) /\ Len(gs) = n + 1 /\ gs[n + 1] = f
        /\ \A i \in 1..n : gs[i] = fs[i]
    BY <1>0, <1>1, AppendProperties
  <1>3. /\ ts \in Seq(Conn) /\ Len(ts) = m + 1 /\ ts[m + 1] = c
        /\ \A a \in 1..m : ts[a] = st[a]
    BY <1>0, <1>1, AppendProperties
  <1>4. f.kind = kind /\ f.conn = c
    OBVIOUS
  <1>5. m = Owned(fs, n) /\ \A i \in 1..n : Owned(fs, i) > 0 /\ fs[i].conn = st[Owned(fs, i)]
    BY <1>0 DEF Nested
  <1> HIDE DEF n, m, gs, ts
  <1>6. ASSUME NEW i \in 0..n PROVE Owned(gs, i) = Owned(fs, i)
    <2>1. i \in Nat /\ \A j \in 1..i : gs[j].kind = "withTx" <=> fs[j].kind = "withTx"
      BY <1>1, <1>2
    <2> QED
      BY <2>1, OwnedSame
  <1>7. Owned(gs, n + 1) = m + 1
    <2>1. Owned(gs, n + 1) = IF gs[n + 1].kind # "withTx" THEN Owned(gs, n) + 1 ELSE Owned(gs, n)
      BY <1>1, OwnedCounts
    <2> QED
      BY <1>0, <1>1, <1>2, <1>4, <1>5, <1>6, <2>1
  <1>8. \A i \in 1..n + 1 : i \in 1..n \/ i = n + 1
    BY <1>1
  <1>9. \A i \in 1..n : Owned(fs, i) \in 1..m
    <2> SUFFICES ASSUME NEW i \in 1..n PROVE Owned(fs, i) \in 1..m
      OBVIOUS
    <2>1. Owned(fs, i) \in Nat /\ Owned(fs, i) <= Owned(fs, n)
      BY <1>1, OwnedGrows
    <2> QED
      BY <1>1, <1>5, <2>1
  <1>10. ASSUME NEW i \in 1..n + 1 PROVE Owned(gs, i) > 0 /\ gs[i].conn = ts[Owned(gs, i)]
    <2>1. CASE i = n + 1
      BY <1>1, <1>2, <1>3, <1>4, <1>7, <2>1
    <2>2. CASE i \in 1..n
      <3>1. Owned(gs, i) = Owned(fs, i) /\ gs[i] = fs[i] /\ Owned(fs, i) \in 1..m
        BY <1>1, <1>2, <1>6, <1>9, <2>2
      <3> QED
        BY <1>3, <1>5, <2>2, <3>1
    <2> QED
      BY <1>8, <2>1, <2>2
  <1>11. ConnsOf(gs) = ConnsOf(fs) \cup {c}
    BY <1>1, <1>2, <1>4, <1>8 DEF ConnsOf, n
  <1>12. \A a \in 1..m + 1 : ts[a] \in ConnsOf(gs)
    <2>1. \A a \in 1..m : st[a] \in ConnsOf(fs)
      BY <1>0 DEF Nested, m
    <2>2. \A a \in 1..m + 1 : a \in 1..m \/ a = m + 1
      BY <1>1
    <2> QED
      BY <1>3, <1>11, <2>1, <2>2
  <1>13. \A a, b \in 1..m + 1 : ts[a] = ts[b] => a = b
    BY <1>0, <1>1, <1>3 DEF Nested, m
  <1>14. \A i \in 1..n + 1 : gs[i].kind \in {"statement", "finish"} => i = 1
    BY <1>0, <1>1, <1>2, <1>4, <1>8 DEF Nested, n
  <1>15. n + 1 > 1 => gs[1].kind # "statement" /\ (gs[1].kind = "finish" => gs[2].kind = "withTx")
    <2>1. CASE n = 0
      <3>1. ~ (n + 1 > 1)
        BY <2>1
      <3> QED
        BY <3>1
    <2>2. CASE n = 1
      <3>1. fs # <<>>
        BY <2>2 DEF n
      <3>2. fs[1].kind \in {"withConn", "withTx"} /\ gs[1] = fs[1]
        BY <1>0, <1>2, <2>2, <3>1 DEF n
      <3> QED
        BY <3>2
    <2>3. CASE n > 1
      <3>1. gs[1] = fs[1] /\ gs[2] = fs[2]
        BY <1>1, <1>2, <2>3
      <3> QED
        BY <1>0, <2>3, <3>1 DEF Nested, n
    <2>4. n = 0 \/ n = 1 \/ n > 1
      BY <1>1
    <2> QED
      BY <2>1, <2>2, <2>3, <2>4, Zenon
  <1>16. Nested(gs, ts)
    BY <1>0, <1>2, <1>3, <1>7, <1>10, <1>12, <1>13, <1>14, <1>15 DEF Nested
  <1> QED
    BY <1>11, <1>16 DEF gs, ts

\* A call that joins leaves the stack as it is.
LEMMA PushJoined ==
  ASSUME NEW fs, NEW st, Nested(fs, st), st # <<>>,
         fs[Len(fs)].kind \in {"withConn", "withTx"} \/ (Len(fs) = 1 /\ fs[1].kind = "finish"),
         NEW gs, gs = Append(fs, [kind |-> "withTx", conn |-> st[Len(st)]])
  PROVE  Nested(gs, st) /\ ConnsOf(gs) = ConnsOf(fs)
  <1> DEFINE n == Len(fs)
             m == Len(st)
             f == [kind |-> "withTx", conn |-> st[m]]
  <1>1. n \in Nat /\ m \in Nat \ {0} /\ fs \in Seq(Frame) /\ st \in Seq(Conn) /\ m \in 1..m
        /\ st[m] \in Conn
    BY EmptySeq, LenProperties, ElementOfSeq DEF Nested
  <1>2. f \in Frame /\ f.kind = "withTx" /\ f.conn = st[m]
    BY <1>1 DEF Frame, Kinds
  <1>3. /\ gs \in Seq(Frame) /\ Len(gs) = n + 1 /\ gs[n + 1] = f
        /\ \A i \in 1..n : gs[i] = fs[i]
    BY <1>1, <1>2, AppendProperties
  <1>4. m = Owned(fs, n) /\ \A i \in 1..n : Owned(fs, i) > 0 /\ fs[i].conn = st[Owned(fs, i)]
    BY DEF Nested
  <1> HIDE DEF n, m, f
  <1>5. ASSUME NEW i \in 0..n PROVE Owned(gs, i) = Owned(fs, i)
    <2>1. i \in Nat /\ \A j \in 1..i : gs[j].kind = "withTx" <=> fs[j].kind = "withTx"
      BY <1>1, <1>3
    <2> QED
      BY <2>1, OwnedSame
  <1>6. Owned(gs, n + 1) = m
    <2>1. Owned(gs, n + 1) = IF gs[n + 1].kind # "withTx" THEN Owned(gs, n) + 1 ELSE Owned(gs, n)
      BY <1>1, OwnedCounts
    <2> QED
      BY <1>1, <1>2, <1>3, <1>4, <1>5, <2>1
  <1>7. \A i \in 1..n + 1 : i \in 1..n \/ i = n + 1
    BY <1>1
  <1>8. ASSUME NEW i \in 1..n + 1 PROVE Owned(gs, i) > 0 /\ gs[i].conn = st[Owned(gs, i)]
    <2>1. CASE i = n + 1
      BY <1>1, <1>2, <1>3, <1>6, <2>1
    <2>2. CASE i \in 1..n
      <3>1. Owned(gs, i) = Owned(fs, i) /\ gs[i] = fs[i]
        BY <1>1, <1>3, <1>5, <2>2
      <3> QED
        BY <1>4, <2>2, <3>1
    <2> QED
      BY <1>7, <2>1, <2>2
  <1>9. n > 0
    BY <1>1, <1>4, OwnedCounts
  <1>10. ConnsOf(gs) = ConnsOf(fs)
    <2>1. f.conn \in ConnsOf(fs)
      BY <1>1, <1>2 DEF Nested, m
    <2> QED
      BY <1>1, <1>2, <1>3, <1>7, <2>1 DEF ConnsOf, n
  <1>11. \A i \in 1..n + 1 : gs[i].kind \in {"statement", "finish"} => i = 1
    BY <1>1, <1>2, <1>3, <1>7 DEF Nested, n
  <1>12. gs[1].kind # "statement" /\ (gs[1].kind = "finish" => gs[2].kind = "withTx")
    <2>1. CASE n = 1
      BY <1>2, <1>3, <2>1 DEF n
    <2>2. CASE n > 1
      <3>1. gs[1] = fs[1] /\ gs[2] = fs[2]
        BY <1>1, <1>3, <2>2
      <3> QED
        BY <2>2, <3>1 DEF Nested, n
    <2> QED
      BY <1>1, <1>9, <2>1, <2>2
  <1>13. Nested(gs, st)
    BY <1>3, <1>6, <1>8, <1>10, <1>11, <1>12 DEF Nested, m
  <1> QED
    BY <1>10, <1>13

LEMMA FrontIs ==
  ASSUME NEW S, NEW s \in Seq(S), Len(s) > 0
  PROVE  /\ Front(s) \in Seq(S) /\ Len(Front(s)) = Len(s) - 1
         /\ \A i \in 1..Len(s) - 1 : Front(s)[i] = s[i]
  <1> DEFINE n == Len(s)
  <1>1. n \in Nat \ {0} /\ \A i \in 1..n : s[i] \in S
    BY LenProperties, ElementOfSeq
  <1>2. Front(s) = SubSeq(s, 1, n - 1)
    BY DEF Front
  <1> HIDE DEF n
  <1>3. n - 1 \in Int /\ \A i \in 1..n - 1 : s[i] \in S
    BY <1>1
  <1>4. /\ Front(s) \in Seq(S) /\ Len(Front(s)) = IF 1 <= n - 1 THEN n - 1 - 1 + 1 ELSE 0
        /\ \A i \in 1..n - 1 - 1 + 1 : Front(s)[i] = s[1 + i - 1]
    BY <1>2, <1>3, SubSeqProperties
  <1>5. Len(Front(s)) = n - 1 /\ \A i \in 1..n - 1 : Front(s)[i] = s[i]
    BY <1>1, <1>4
  <1> QED
    BY <1>4, <1>5 DEF n

\* The innermost call ends: one that has opened its connection takes it off the stack,
\* and no other call uses it; one that joined leaves it to the call that has opened it.
LEMMA PopTop ==
  ASSUME NEW fs, NEW st, Nested(fs, st), fs # <<>>
  PROVE  LET n == Len(fs)
             gs == Front(fs)
         IN  /\ n \in Nat \ {0} /\ st # <<>> /\ Last(st) = fs[n].conn /\ fs[n].conn \in Conn
             /\ Len(gs) = n - 1 /\ \A i \in 1..n - 1 : gs[i] = fs[i]
             /\ fs[n].kind # "withTx" => /\ Nested(gs, Front(st))
                                         /\ ConnsOf(gs) = ConnsOf(fs) \ {fs[n].conn}
             /\ fs[n].kind = "withTx" => /\ Nested(gs, st) /\ n > 1
                                         /\ ConnsOf(gs) = ConnsOf(fs)
  <1> DEFINE n == Len(fs)
             gs == Front(fs)
             m == Len(st)
             ts == Front(st)
  <1>1. /\ n \in Nat \ {0} /\ m \in Nat /\ fs \in Seq(Frame) /\ st \in Seq(Conn)
        /\ \A i \in 1..n : fs[i] \in Frame
    BY EmptySeq, LenProperties, ElementOfSeq DEF Nested
  <1>2. m = Owned(fs, n) /\ \A i \in 1..n : Owned(fs, i) > 0 /\ fs[i].conn = st[Owned(fs, i)]
    BY DEF Nested
  <1>3. m > 0 /\ n \in 1..n
    BY <1>1, <1>2
  <1>4. st # <<>> /\ Last(st) = fs[n].conn /\ fs[n].conn \in Conn
    BY <1>1, <1>2, <1>3 DEF Last, Frame
  <1>5. /\ gs \in Seq(Frame) /\ Len(gs) = n - 1 /\ \A i \in 1..n - 1 : gs[i] = fs[i]
    BY <1>1, FrontIs
  <1>6. /\ ts \in Seq(Conn) /\ Len(ts) = m - 1 /\ \A a \in 1..m - 1 : ts[a] = st[a]
    BY <1>1, <1>3, FrontIs
  <1> HIDE DEF n, gs, m, ts
  <1>7. \A i \in 1..n - 1 : i \in 1..n /\ i < n
    BY <1>1
  <1>8. ASSUME NEW i \in 0..n - 1 PROVE Owned(gs, i) = Owned(fs, i)
    <2>1. i \in Nat /\ \A j \in 1..i : gs[j].kind = "withTx" <=> fs[j].kind = "withTx"
      <3>1. i \in Nat /\ \A j \in 1..i : j \in 1..n - 1
        BY <1>1
      <3> QED
        BY <1>5, <3>1
    <2> QED
      BY <2>1, OwnedSame
  <1>9. Owned(fs, n) = IF fs[n].kind # "withTx" THEN Owned(fs, n - 1) + 1 ELSE Owned(fs, n - 1)
    <2>1. n - 1 \in Nat /\ (n - 1) + 1 = n
      BY <1>1
    <2> QED
      BY <2>1, OwnedCounts
  <1>10. Owned(gs, n - 1) = Owned(fs, n - 1) /\ Owned(fs, n - 1) \in Nat
    BY <1>1, <1>8, OwnedCounts
  <1>11. ASSUME NEW i \in 1..n - 1
         PROVE  Owned(gs, i) > 0 /\ Owned(gs, i) \in 1..Owned(fs, n - 1) /\ gs[i].conn = st[Owned(gs, i)]
    <2>1. Owned(gs, i) = Owned(fs, i) /\ Owned(fs, i) > 0 /\ gs[i] = fs[i] /\ i \in 1..n
      BY <1>1, <1>2, <1>5, <1>8
    <2>2. Owned(fs, i) \in Nat /\ Owned(fs, i) <= Owned(fs, n - 1)
      BY <1>1, OwnedGrows
    <2> QED
      BY <1>2, <1>10, <2>1, <2>2
  <1>12. \A i \in 1..n - 1 : gs[i].kind \in {"statement", "finish"} => i = 1
    BY <1>5, <1>7 DEF Nested, n
  <1>13. n - 1 > 1 => gs[1].kind # "statement" /\ (gs[1].kind = "finish" => gs[2].kind = "withTx")
    <2>1. n - 1 > 1 => n > 1 /\ gs[1] = fs[1] /\ gs[2] = fs[2]
      BY <1>1, <1>5
    <2> QED
      BY <2>1 DEF Nested, n
  <1>14. CASE fs[n].kind # "withTx"
    <2>1. m = Owned(fs, n - 1) + 1
      BY <1>2, <1>9, <1>14
    <2>2. \A i \in 1..n - 1 : Owned(gs, i) \in 1..m - 1 /\ gs[i].conn = ts[Owned(gs, i)]
      BY <1>6, <1>10, <1>11, <2>1
    <2>3. \A a, b \in 1..m : st[a] = st[b] => a = b
      BY DEF Nested, m
    <2>4. ASSUME NEW i \in 1..n - 1 PROVE gs[i].conn # fs[n].conn
      <3>1. Owned(gs, i) \in 1..m /\ Owned(gs, i) # m /\ m \in 1..m
        BY <1>1, <1>3, <2>2
      <3>2. gs[i].conn = st[Owned(gs, i)] /\ fs[n].conn = st[m]
        BY <1>2, <1>3, <1>11
      <3> QED
        BY <2>3, <3>1, <3>2
    <2>5. ConnsOf(gs) = ConnsOf(fs) \ {fs[n].conn}
      <3>1. ConnsOf(gs) = {gs[i].conn : i \in 1..n - 1} /\ ConnsOf(fs) = {fs[i].conn : i \in 1..n}
        BY <1>1, <1>5 DEF ConnsOf, n
      <3>2. \A i \in 1..n : i \in 1..n - 1 \/ i = n
        BY <1>1
      <3>3. ASSUME NEW x \in ConnsOf(gs) PROVE x \in ConnsOf(fs) \ {fs[n].conn}
        BY <1>5, <1>7, <2>4, <3>1
      <3>4. ASSUME NEW x \in ConnsOf(fs), x # fs[n].conn PROVE x \in ConnsOf(gs)
        BY <1>5, <3>1, <3>2, <3>4
      <3> QED
        BY <3>3, <3>4
    <2>6. \A a \in 1..m - 1 : ts[a] \in ConnsOf(gs)
      <3> SUFFICES ASSUME NEW a \in 1..m - 1 PROVE ts[a] \in ConnsOf(gs)
        OBVIOUS
      <3>1. a \in 1..m /\ m \in 1..m /\ a # m /\ ts[a] = st[a]
        BY <1>1, <1>3, <1>6
      <3>2. st[a] \in ConnsOf(fs)
        BY <3>1 DEF Nested, m
      <3>3. st[a] # fs[n].conn
        BY <1>2, <1>3, <2>3, <3>1
      <3> QED
        BY <2>5, <3>1, <3>2, <3>3
    <2>7. \A a, b \in 1..m - 1 : ts[a] = ts[b] => a = b
      BY <1>1, <1>6, <2>3
    <2>8. Len(ts) = Owned(gs, n - 1)
      BY <1>6, <1>10, <2>1
    <2>9. \A i \in 1..n - 1 : Owned(gs, i) > 0
      BY <1>11
    <2>10. Nested(gs, ts)
      BY <1>5, <1>6, <1>12, <1>13, <2>2, <2>6, <2>7, <2>8, <2>9 DEF Nested
    <2> QED
      BY <1>1, <1>4, <1>5, <1>14, <2>5, <2>10 DEF n, gs, ts
  <1>15. CASE fs[n].kind = "withTx"
    <2>1. m = Owned(fs, n - 1)
      BY <1>2, <1>9, <1>15
    <2>2. n > 1
      BY <1>1, <1>3, <2>1, OwnedCounts
    <2>3. ConnsOf(gs) = ConnsOf(fs)
      <3>1. n - 1 \in 1..n - 1 /\ n - 1 \in 1..n
        BY <1>1, <2>2
      <3>2. fs[n].conn = st[m] /\ fs[n - 1].conn = st[m] /\ gs[n - 1] = fs[n - 1]
        BY <1>2, <1>3, <1>5, <2>1, <3>1
      <3>3. ConnsOf(gs) = {gs[i].conn : i \in 1..n - 1} /\ ConnsOf(fs) = {fs[i].conn : i \in 1..n}
        BY <1>1, <1>5 DEF ConnsOf, n
      <3>4. \A i \in 1..n : i \in 1..n - 1 \/ i = n
        BY <1>1
      <3> QED
        <4>1. ASSUME NEW x \in ConnsOf(gs) PROVE x \in ConnsOf(fs)
          BY <1>5, <1>7, <3>3
        <4>2. ASSUME NEW x \in ConnsOf(fs) PROVE x \in ConnsOf(gs)
          <5>1. PICK i \in 1..n : x = fs[i].conn
            BY <3>3
          <5>2. CASE i = n
            BY <3>1, <3>2, <3>3, <5>1, <5>2
          <5>3. CASE i \in 1..n - 1
            BY <1>5, <3>3, <5>1, <5>3
          <5> QED
            BY <3>4, <5>2, <5>3
        <4> QED
          BY <4>1, <4>2
    <2>4. \A a \in 1..m : st[a] \in ConnsOf(gs)
      BY <2>3 DEF Nested, m
    <2>5. Nested(gs, st)
      BY <1>1, <1>5, <1>10, <1>11, <1>12, <1>13, <2>1, <2>4 DEF Nested, m
    <2> QED
      BY <1>1, <1>4, <1>5, <1>15, <2>2, <2>3, <2>5 DEF n, gs
  <1> QED
    BY <1>14, <1>15 DEF n, gs

\* Work that is not committed belongs to a connection of a call that runs, and is
\* work of this outermost call.
WorkIsOpen == \A c \in Conn \ ConnsOf(frames) : work[c] = {}
WorkIsOfThisCall ==
  /\ committed \subseteq 1..updates
  /\ \A c \in Conn : work[c] \subseteq 1..updates

\* As long as nothing was thrown, all that was done is committed or still to be so.
NothingLost ==
  ~ caught /\ flow = "callback" /\ (Idle => outcome = "callback") =>
    \A u \in 1..updates : u \in committed \/ \E c \in ConnsOf(frames) : u \in work[c]

\* When something is committed and it was not by a call within another one, the
\* outermost call has returned, or has nothing left to do but to return.
CommittedTold ==
  ~ nested /\ ~ doubtful /\ committed # {} =>
    IF Idle THEN outcome = "callback"
    ELSE flow = "callback" /\ Len(frames) = 1 /\ frames[1].kind = "finish"

DbInv ==
  /\ TypeOK /\ Nested(frames, connStack) /\ inUse \ leaked = ConnsOf(frames)
  /\ Idle => flow = "callback"
  /\ WorkIsOpen /\ WorkIsOfThisCall /\ NothingLost /\ CommittedTold

\* What is appended is the last element.
LEMMA LastOfAppend ==
  ASSUME NEW S, NEW s \in Seq(S), NEW e \in S
  PROVE  Append(s, e) # <<>> /\ Append(s, e)[Len(Append(s, e))] = e
  BY AppendProperties

\* A call that opens a connection is the innermost one, with its connection on top.
LEMMA Opened ==
  ASSUME DbInv, NEW c \in Conn \ inUse, NEW kinds,
         \/ kinds = <<"withConn">> /\ MayCall
         \/ kinds \in {<<"statement">>, <<"finish", "withTx">>} /\ frames = <<>>,
         connStack' = Append(connStack, c),
         frames' = frames \o [i \in DOMAIN kinds |-> [kind |-> kinds[i], conn |-> c]]
  PROVE  /\ Nested(frames', connStack') /\ frames' # <<>>
         /\ ConnsOf(frames') = ConnsOf(frames) \cup {c}
  <1>1. /\ frames \in Seq(Frame) /\ Nested(frames, connStack) /\ connStack \in Seq(Conn)
        /\ \A a \in 1..Len(connStack) : connStack[a] # c
    BY DEF DbInv, Nested, TypeOK
  <1>2. ASSUME NEW kind \in {"withConn", "statement"}, kinds = <<kind>>
        PROVE  /\ Nested(frames', connStack') /\ frames' # <<>>
               /\ ConnsOf(frames') = ConnsOf(frames) \cup {c}
    <2> DEFINE f == [kind |-> kind, conn |-> c]
    <2>1. f \in Frame
      BY DEF Frame, Kinds
    <2>2. [i \in DOMAIN kinds |-> [kind |-> kinds[i], conn |-> c]] = <<f>>
      BY <1>2
    <2>3. frames' = Append(frames, f)
      BY <1>1, <2>1, <2>2, AppendIsConcat
    <2>4. frames' # <<>>
      BY <1>1, <2>1, <2>3
    <2>5. frames = <<>> \/ (kind = "withConn" /\ frames[Len(frames)].kind \in {"withConn", "withTx"})
      BY <1>2 DEF MayCall, InCallback, Idle, Top, Last
    <2>6. kind \in Kinds \ {"withTx"} /\ c \in Conn
      BY DEF Kinds
    <2> QED
      <3>1. MayOpen(frames, connStack, c, kind)
        BY <1>1, <2>5, <2>6 DEF MayOpen
      <3>2. /\ Nested(Append(frames, f), Append(connStack, c))
            /\ ConnsOf(Append(frames, f)) = ConnsOf(frames) \cup {c}
        BY <3>1, PushOwn
      <3> HIDE DEF f
      <3> QED
        BY <2>3, <2>4, <3>2
  <1>3. CASE kinds = <<"finish", "withTx">>
    <2> DEFINE f == [kind |-> "finish", conn |-> c]
               g == [kind |-> "withTx", conn |-> c]
               st == Append(connStack, c)
    <2>1. frames = <<>> /\ f \in Frame /\ g \in Frame
      BY <1>3 DEF Frame, Kinds
    <2>2. "finish" \in Kinds \ {"withTx"} /\ c \in Conn
      BY DEF Kinds
    <2>3. Nested(<<f>>, st) /\ ConnsOf(<<f>>) = ConnsOf(frames) \cup {c}
      <3>1. <<f>> = Append(frames, f) /\ frames = <<>>
        BY <1>3, <2>1
      <3>2. MayOpen(frames, connStack, c, "finish")
        BY <1>1, <2>2, <3>1 DEF MayOpen
      <3>3. /\ Nested(Append(frames, f), Append(connStack, c))
            /\ ConnsOf(Append(frames, f)) = ConnsOf(frames) \cup {c}
        BY <3>2, PushOwn
      <3> HIDE DEF f
      <3> QED
        BY <3>1, <3>3
    <2>4. st # <<>> /\ st[Len(st)] = c
      BY <1>1, <2>2, LastOfAppend
    <2>5. Len(<<f>>) = 1 /\ <<f>>[1].kind = "finish"
      OBVIOUS
    <2>6. frames' = Append(<<f>>, g)
      <3>1. [i \in DOMAIN kinds |-> [kind |-> kinds[i], conn |-> c]] = <<f, g>>
        BY <1>3
      <3>2. <<f, g>> = Append(<<f>>, g) /\ <<f, g>> \in Seq(Frame)
        BY <2>1
      <3> QED
        BY <2>1, <3>1, <3>2, ConcatEmptySeq
    <2>7. frames' # <<>>
      <3>1. Len(frames') = 2
        BY <2>1, <2>6, AppendProperties
      <3> QED
        BY <3>1
    <2>8. frames' = Append(<<f>>, [kind |-> "withTx", conn |-> st[Len(st)]])
      BY <2>4, <2>6
    <2>9. connStack' = st
      OBVIOUS
    <2> HIDE DEF f, g, st
    <2>10. Nested(frames', st) /\ ConnsOf(frames') = ConnsOf(<<f>>)
      BY <2>3, <2>4, <2>5, <2>8, PushJoined, Zenon
    <2> QED
      BY <2>3, <2>7, <2>9, <2>10, Zenon
  <1> QED
    BY <1>2, <1>3

LEMMA Opens ==
  ASSUME DbInv, MayCall, NEW kinds, Open(kinds),
         kinds = <<"withConn">> \/ (connStack = <<>> /\ kinds \in {<<"statement">>, <<"finish", "withTx">>})
  PROVE  DbInv'
  <1>1. connStack = <<>> => frames = <<>>
    <2> SUFFICES ASSUME connStack = <<>>, frames # <<>> PROVE FALSE
      OBVIOUS
    <2> QED
      BY PopTop DEF DbInv
  <1>2. PICK c \in Conn \ inUse :
          /\ inUse' = inUse \cup {c} /\ connStack' = Append(connStack, c)
          /\ frames' = frames \o [i \in DOMAIN kinds |-> [kind |-> kinds[i], conn |-> c]]
          /\ Begin /\ flow' = flow /\ leaked' = leaked /\ work' = work
    BY DEF Open, Pushed
  <1>3. /\ Nested(frames', connStack') /\ frames' # <<>>
        /\ ConnsOf(frames') = ConnsOf(frames) \cup {c}
    BY <1>1, <1>2, Opened
  <1>4. flow = "callback"
    BY DEF DbInv, MayCall, InCallback
  <1>5. CASE Idle
    <2>1. ConnsOf(frames) = {}
      BY <1>5 DEF Idle, ConnsOf
    <2>2. \A d \in Conn : work[d] = {}
      BY <2>1 DEF DbInv, WorkIsOpen
    <2>3. updates' = 0 /\ committed' = {} /\ outcome' = "none"
      BY <1>2, <1>5 DEF Begin
    <2>4. caught' \in BOOLEAN /\ nested' \in BOOLEAN /\ doubtful' \in BOOLEAN
      BY <1>2, <1>5 DEF Begin
    <2>5. TypeOK'
      <3>1. frames' \in Seq(Frame) /\ connStack' \in Seq(Conn)
        BY <1>3 DEF Nested
      <3>2. inUse \subseteq Conn /\ leaked \subseteq inUse /\ work \in [Conn -> SUBSET Update]
        BY DEF DbInv, TypeOK
      <3>3. 0 \in 0..MaxUpdates
        BY DbAssumption
      <3> QED
        BY <1>2, <1>4, <2>3, <2>4, <3>1, <3>2, <3>3 DEF TypeOK
    <2>6. inUse' \ leaked' = ConnsOf(frames')
      BY <1>2, <1>3 DEF DbInv, TypeOK
    <2>7. WorkIsOpen' /\ WorkIsOfThisCall' /\ NothingLost' /\ CommittedTold'
      BY <1>2, <2>2, <2>3 DEF WorkIsOpen, WorkIsOfThisCall, NothingLost, CommittedTold
    <2> QED
      BY <1>2, <1>3, <1>4, <2>5, <2>6, <2>7 DEF DbInv, Idle
  <1>6. CASE ~ Idle
    <2>1. UNCHANGED <<committed, updates, outcome>>
      BY <1>2, <1>6 DEF Begin, call
    <2>2. caught' = caught /\ nested' = nested /\ doubtful' = doubtful
      BY <1>2, <1>6 DEF Begin, call, history
    <2>3. TypeOK'
      BY <1>2, <1>3, <1>4, <2>1, <2>2 DEF DbInv, TypeOK, Nested
    <2>4. inUse' \ leaked' = ConnsOf(frames')
      BY <1>2, <1>3 DEF DbInv, TypeOK
    <2>5. WorkIsOpen' /\ WorkIsOfThisCall'
      BY <1>2, <1>3, <2>1 DEF DbInv, WorkIsOpen, WorkIsOfThisCall
    <2>6. NothingLost'
      BY <1>2, <1>3, <1>4, <1>6, <2>1, <2>2 DEF DbInv, NothingLost
    <2>7. ~ nested /\ ~ doubtful => committed = {}
      <3>1. InCallback
        BY <1>6 DEF MayCall
      <3> QED
        BY <1>6, <3>1 DEF DbInv, CommittedTold, InCallback, Top, Last
    <2>8. CommittedTold'
      BY <2>1, <2>2, <2>7 DEF CommittedTold
    <2> QED
      BY <1>2, <1>3, <1>4, <2>3, <2>4, <2>5, <2>6, <2>8 DEF DbInv, Idle
  <1> QED
    BY <1>5, <1>6

\* What the innermost call may rely on.
LEMMA TopIs ==
  ASSUME DbInv, ~ Idle
  PROVE  /\ Len(frames) \in Nat \ {0} /\ Top = frames[Len(frames)] /\ Top \in Frame
         /\ HasConn /\ Last(connStack) = Top.conn /\ Top.conn \in Conn
         /\ Top.conn \in ConnsOf(frames) /\ Top.conn \in inUse /\ Top.conn \notin leaked
         /\ Pop(Top.conn) = Front(connStack)
         /\ frames \in Seq(Frame)
  <1>1. Nested(frames, connStack) /\ frames # <<>> /\ frames \in Seq(Frame)
    BY DEF DbInv, Idle, Nested
  <1>2. /\ Len(frames) \in Nat \ {0} /\ connStack # <<>>
        /\ Last(connStack) = frames[Len(frames)].conn /\ frames[Len(frames)].conn \in Conn
    BY <1>1, PopTop
  <1>3. Top = frames[Len(frames)] /\ Len(frames) \in 1..Len(frames)
    BY <1>2 DEF Top, Last
  <1>4. Top \in Frame
    BY <1>1, <1>2, <1>3, ElementOfSeq
  <1>5. Top.conn \in ConnsOf(frames)
    BY <1>3 DEF ConnsOf
  <1>6. Top.conn \in inUse /\ Top.conn \notin leaked
    BY <1>5 DEF DbInv
  <1> QED
    BY <1>1, <1>2, <1>3, <1>4, <1>5, <1>6 DEF HasConn, Pop

\* A connection that is not got leaves an exception, and nothing else.
LEMMA NotOpened ==
  ASSUME DbInv, MayCall, OpenFails
  PROVE  DbInv'
  <1>1. /\ frames' = frames /\ work' = work /\ committed' = committed
        /\ updates' = updates /\ outcome' = outcome
        /\ flow' = IF Idle THEN "callback" ELSE "exception"
    BY DEF OpenFails, database, call
  <1>2. caught' = caught /\ nested' = nested /\ doubtful' = doubtful
    BY DEF OpenFails, call, history
  <1>3. connStack' = connStack
    <2>1. ~ Idle => Last(connStack) # NoConn
      BY TopIs, DbAssumption
    <2>2. Idle => connStack = <<>>
      BY OwnedCounts, EmptySeq DEF DbInv, Nested, Idle
    <2> QED
      BY <2>1, <2>2 DEF OpenFails, Pop
  <1>4. leaked' \subseteq inUse' /\ inUse' \subseteq Conn /\ inUse' \ leaked' = inUse \ leaked
    BY DEF OpenFails, pool, DbInv, TypeOK
  <1>5. flow = "callback"
    BY DEF DbInv, MayCall, InCallback
  <1>6. TypeOK'
    BY <1>1, <1>2, <1>3, <1>4 DEF DbInv, TypeOK
  <1>7. WorkIsOpen' /\ WorkIsOfThisCall'
    BY <1>1 DEF DbInv, WorkIsOpen, WorkIsOfThisCall
  <1>8. NothingLost'
    BY <1>1, <1>2, <1>5 DEF DbInv, NothingLost, Idle
  <1>9. CommittedTold'
    <2>1. ~ Idle => Top.kind # "finish"
      BY DEF MayCall, InCallback
    <2> QED
      BY <1>1, <1>2, <2>1 DEF DbInv, CommittedTold, Idle, Top, Last
  <1> QED
    BY <1>1, <1>3, <1>4, <1>6, <1>7, <1>8, <1>9 DEF DbInv, Idle

\* withTx within a call goes on with that call's connection.
LEMMA Joins ==
  ASSUME DbInv, WithTx, HasConn
  PROVE  DbInv'
  <1> DEFINE f == [kind |-> "withTx", conn |-> connStack[Len(connStack)]]
  <1>1. /\ MayCall /\ frames' = Append(frames, f)
        /\ UNCHANGED <<connStack, flow, inUse, leaked, work, committed, updates, outcome>>
    BY DEF WithTx, Last, pool, database, call
  <1>2. caught' = caught /\ nested' = nested /\ doubtful' = doubtful
    BY DEF WithTx, call, history
  <1>3. ~ Idle
    <2> SUFFICES ASSUME Idle PROVE FALSE
      OBVIOUS
    <2> QED
      BY OwnedCounts, EmptySeq DEF DbInv, Nested, Idle, HasConn
  <1>4. flow = "callback" /\ Top.kind \in {"withConn", "withTx"}
    BY <1>1, <1>3 DEF MayCall, InCallback
  <1>5. Nested(frames, connStack) /\ connStack # <<>> /\ frames[Len(frames)].kind \in {"withConn", "withTx"}
    BY <1>3, <1>4, TopIs DEF HasConn, DbInv
  <1>6. Nested(frames', connStack) /\ ConnsOf(frames') = ConnsOf(frames)
    BY <1>1, <1>5, PushJoined, Zenon
  <1>7. frames' # <<>>
    <2>1. frames \in Seq(Frame) /\ f \in Frame
      <3>1. connStack \in Seq(Conn) /\ Last(connStack) \in Conn
        BY <1>3, TopIs DEF DbInv, TypeOK
      <3> QED
        BY <3>1 DEF Frame, Kinds, Last, DbInv, TypeOK
    <2> HIDE DEF f
    <2> QED
      BY <1>1, <2>1
  <1>8. TypeOK'
    <2>1. frames' \in Seq(Frame)
      BY <1>6 DEF Nested
    <2> QED
      BY <1>1, <1>2, <2>1 DEF DbInv, TypeOK
  <1>9. WorkIsOpen' /\ WorkIsOfThisCall'
    BY <1>1, <1>6 DEF DbInv, WorkIsOpen, WorkIsOfThisCall
  <1>10. NothingLost'
    BY <1>1, <1>2, <1>3, <1>6 DEF DbInv, NothingLost
  <1>11. CommittedTold'
    <2>1. ~ nested /\ ~ doubtful => committed = {}
      BY <1>3, <1>4 DEF DbInv, CommittedTold, Top, Last
    <2> QED
      BY <1>1, <1>2, <2>1 DEF CommittedTold
  <1> QED
    BY <1>1, <1>6, <1>7, <1>8, <1>9, <1>10, <1>11 DEF DbInv, Idle

\* A statement that is done is the only call, and stays it.
LEMMA DoneIs ==
  ASSUME DbInv, ~ Idle
  PROVE  Nested(Done, connStack) /\ ConnsOf(Done) = ConnsOf(frames) /\ Done # <<>>
  <1> DEFINE n == Len(frames)
             f == [Top EXCEPT !.kind = "finish"]
             gs == [frames EXCEPT ![n] = f]
  <1>1. n \in Nat \ {0} /\ Top = frames[n] /\ frames \in Seq(Frame) /\ Top \in Frame
    BY TopIs
  <1>2. Nested(frames, connStack) /\ frames # <<>>
    BY DEF DbInv, Idle
  <1>3. CASE Top.kind # "statement"
    BY <1>2, <1>3 DEF Done
  <1>4. CASE Top.kind = "statement"
    <2>1. \A i \in 1..n : frames[i].kind = "statement" => i = 1
      BY <1>2 DEF Nested
    <2>2. f \in Frame /\ f.kind = "finish" /\ f.conn = Top.conn
      BY <1>1 DEF Frame, Kinds
    <2>3. Done = gs
      BY <1>1, <1>4 DEF Done
    <2> HIDE DEF n, f
    <2>4. n = 1 /\ n \in 1..n
      BY <1>1, <1>4, <2>1
    <2>5. gs \in Seq(Frame) /\ Len(gs) = 1 /\ gs[1] = f
      <3>1. frames \in [1..1 -> Frame] /\ \A i \in 1..1 : i = 1
        BY <1>1, <2>4, LenProperties DEF n
      <3>2. gs = [i \in 1..1 |-> f]
        BY <2>4, <3>1
      <3>3. gs = <<f>>
        BY <3>2
      <3> HIDE DEF gs
      <3> QED
        BY <2>2, <3>3
    <2> HIDE DEF gs
    <2>6. \A i \in 1..1 : i = 1
      OBVIOUS
    <2>7. Owned(gs, 1) = Owned(frames, 1)
      <3>1. \A j \in 1..1 : gs[j].kind = "withTx" <=> frames[j].kind = "withTx"
        BY <1>1, <1>4, <2>2, <2>4, <2>5, <2>6
      <3> QED
        BY <3>1, OwnedSame
    <2>8. ConnsOf(gs) = ConnsOf(frames)
      BY <1>1, <2>2, <2>4, <2>5, <2>6 DEF ConnsOf, n
    <2>9. Nested(gs, connStack)
      <3>1. /\ connStack \in Seq(Conn) /\ Len(connStack) = Owned(frames, 1)
            /\ Owned(frames, 1) > 0 /\ frames[1].conn = connStack[Owned(frames, 1)]
            /\ \A a, b \in 1..Len(connStack) : connStack[a] = connStack[b] => a = b
            /\ \A a \in 1..Len(connStack) : connStack[a] \in ConnsOf(frames)
        BY <1>2, <2>4 DEF Nested, n
      <3> QED
        BY <1>1, <2>2, <2>4, <2>5, <2>6, <2>7, <2>8, <3>1 DEF Nested
    <2>10. gs # <<>>
      BY <2>5
    <2> QED
      BY <2>3, <2>8, <2>9, <2>10
  <1> QED
    BY <1>3, <1>4

\* A call that can do more than to return has nothing committed but by others.
LEMMA NotYetTold ==
  ASSUME DbInv, ~ Idle, flow # "callback" \/ Top.kind # "finish"
  PROVE  ~ nested /\ ~ doubtful => committed = {}
  BY DEF DbInv, CommittedTold, Top, Last

LEMMA Executes ==
  ASSUME DbInv, Execute
  PROVE  DbInv'
  <1> DEFINE c == Last(connStack)
  <1>1. /\ flow = "callback" /\ ~ Idle /\ Top.kind # "finish"
        /\ connStack' = connStack /\ inUse' = inUse /\ leaked' = leaked
        /\ committed' = committed /\ outcome' = outcome
    BY DEF Execute, pool
  <1>2. caught' = caught /\ nested' = nested /\ doubtful' = doubtful
    BY DEF Execute, history
  <1>3. c \in Conn /\ c \in ConnsOf(frames)
    BY <1>1, TopIs
  <1> HIDE DEF c
  <1>4. flow' \in {"callback", "exception"} /\ (frames' = Done \/ frames' = frames)
    BY <1>1 DEF Execute
  <1>5. /\ Nested(frames', connStack) /\ ConnsOf(frames') = ConnsOf(frames) /\ frames' # <<>>
    BY <1>1, <1>4, DoneIs DEF DbInv, Idle
  <1>6. \/ /\ updates < MaxUpdates /\ updates' = updates + 1
           /\ work' = [work EXCEPT ![c] = @ \cup {updates'}]
        \/ updates' = updates /\ work' = work /\ flow' = "exception"
    BY DEF Execute, c
  <1>7. /\ updates \in Nat /\ updates' \in 0..MaxUpdates /\ updates <= updates' /\ MaxUpdates \in Nat
        /\ 1..updates \subseteq 1..updates'
    BY <1>6, DbAssumption DEF DbInv, TypeOK
  <1>8. /\ work' \in [Conn -> SUBSET Update]
        /\ \A d \in Conn \ {c} : work'[d] = work[d]
        /\ work'[c] = work[c] \/ (work'[c] = work[c] \cup {updates'} /\ updates' = updates + 1)
    <2>1. work \in [Conn -> SUBSET Update]
      BY DEF DbInv, TypeOK
    <2>2. CASE work' = work
      BY <2>1, <2>2
    <2>3. CASE updates < MaxUpdates /\ updates' = updates + 1 /\ work' = [work EXCEPT ![c] = @ \cup {updates'}]
      <3>1. updates' \in Update
        BY <1>7, <2>3 DEF Update
      <3>2. work[c] \cup {updates'} \in SUBSET Update
        BY <1>3, <2>1, <3>1
      <3> QED
        BY <1>3, <2>1, <2>3, <3>2
    <2> QED
      BY <1>6, <2>2, <2>3
  <1>9. TypeOK'
    <2>1. frames' \in Seq(Frame) /\ flow' \in {"callback", "exception", "error"}
      BY <1>4, <1>5 DEF Nested
    <2> QED
      BY <1>1, <1>2, <1>7, <1>8, <2>1 DEF DbInv, TypeOK
  <1>10. WorkIsOpen'
    <2>1. ASSUME NEW d \in Conn \ ConnsOf(frames') PROVE work'[d] = {}
      <3>1. d # c /\ work[d] = {}
        BY <1>3, <1>5 DEF DbInv, WorkIsOpen
      <3> QED
        BY <1>8, <3>1
    <2> QED
      BY <2>1 DEF WorkIsOpen
  <1>11. WorkIsOfThisCall'
    <2>1. committed \subseteq 1..updates /\ \A d \in Conn : work[d] \subseteq 1..updates
      BY DEF DbInv, WorkIsOfThisCall
    <2>2. updates' = updates + 1 => updates' \in 1..updates'
      BY <1>7
    <2>3. ASSUME NEW d \in Conn PROVE work'[d] \subseteq 1..updates'
      BY <1>7, <1>8, <2>1, <2>2
    <2> QED
      BY <1>1, <1>7, <2>1, <2>3 DEF WorkIsOfThisCall
  <1>12. NothingLost'
    <2> SUFFICES ASSUME ~ caught', flow' = "callback", NEW u \in 1..updates'
                 PROVE  u \in committed' \/ \E d \in ConnsOf(frames') : u \in work'[d]
      BY DEF NothingLost
    <2>1. updates' = updates + 1 /\ work' = [work EXCEPT ![c] = @ \cup {updates'}]
      BY <1>6
    <2>2. work'[c] = work[c] \cup {updates'}
      BY <1>3, <2>1 DEF DbInv, TypeOK
    <2>3. CASE u = updates'
      BY <1>3, <1>5, <2>2, <2>3
    <2>4. CASE u # updates'
      <3>1. u \in 1..updates
        BY <1>7, <2>1, <2>4
      <3>2. u \in committed \/ \E d \in ConnsOf(frames) : u \in work[d]
        BY <1>1, <1>2, <3>1 DEF DbInv, NothingLost
      <3>3. \A d \in ConnsOf(frames) : d \in Conn
        BY DEF DbInv, TypeOK
      <3> QED
        BY <1>1, <1>5, <1>8, <2>2, <3>2, <3>3
    <2> QED
      BY <2>3, <2>4
  <1>13. CommittedTold'
    BY <1>1, <1>2, NotYetTold DEF CommittedTold
  <1> QED
    BY <1>1, <1>5, <1>9, <1>10, <1>11, <1>12, <1>13 DEF DbInv, Idle

\* What is thrown and caught in a callback changes nothing of the database.
LEMMA Throws ==
  ASSUME DbInv, Throw \/ Catch
  PROVE  DbInv'
  <1>1. /\ UNCHANGED <<frames, connStack, inUse, leaked, work, committed, updates, outcome>>
        /\ flow' \in {"callback", "exception", "error"}
    BY DEF Throw, Catch, pool, database, call
  <1>2. nested' = nested /\ doubtful' = doubtful /\ caught' \in BOOLEAN
    BY DEF Throw, Catch, call, history, DbInv, TypeOK
  <1>3. ~ Idle
    BY DEF Throw, Catch, InCallback, DbInv
  <1>4. TypeOK'
    BY <1>1, <1>2 DEF DbInv, TypeOK
  <1>5. WorkIsOpen' /\ WorkIsOfThisCall'
    BY <1>1 DEF DbInv, WorkIsOpen, WorkIsOfThisCall
  <1>6. NothingLost'
    <2>1. CASE Throw
      BY <2>1 DEF Throw, NothingLost
    <2>2. CASE Catch
      BY <2>2 DEF Catch, NothingLost
    <2> QED
      BY <2>1, <2>2
  <1>7. CommittedTold'
    <2>1. flow # "callback" \/ Top.kind # "finish"
      BY DEF Throw, Catch, InCallback
    <2> QED
      BY <1>1, <1>2, <1>3, <2>1, NotYetTold DEF CommittedTold
  <1> QED
    BY <1>1, <1>3, <1>4, <1>5, <1>6, <1>7 DEF DbInv, Idle

\* What the end of the innermost call leaves.
LEMMA LeftAre ==
  ASSUME DbInv, ~ Idle, NEW rest, rest = Front(frames)
  PROVE  /\ Top.kind = "withTx" => /\ Nested(rest, connStack) /\ rest # <<>>
                                   /\ ConnsOf(rest) = ConnsOf(frames)
         /\ Top.kind # "withTx" => /\ Nested(rest, Pop(Top.conn))
                                   /\ ConnsOf(rest) = ConnsOf(frames) \ {Top.conn}
         /\ rest # <<>> /\ Last(rest).kind = "finish" =>
              Len(rest) = 1 /\ rest[1].kind = "finish" /\ Top.kind = "withTx"
  <1> DEFINE n == Len(frames)
  <1>1. Nested(frames, connStack) /\ frames # <<>> /\ n \in Nat \ {0} /\ Top = frames[n]
    BY TopIs DEF DbInv, Idle
  <1>2. /\ Len(rest) = n - 1 /\ \A i \in 1..n - 1 : rest[i] = frames[i]
        /\ frames[n].kind # "withTx" => /\ Nested(rest, Front(connStack))
                                        /\ ConnsOf(rest) = ConnsOf(frames) \ {frames[n].conn}
        /\ frames[n].kind = "withTx" => /\ Nested(rest, connStack) /\ n > 1
                                        /\ ConnsOf(rest) = ConnsOf(frames)
    BY <1>1, PopTop
  <1>3. Pop(Top.conn) = Front(connStack)
    BY TopIs
  <1> HIDE DEF n
  <1>4. n > 1 => rest # <<>>
    <2>1. rest = <<>> => Len(rest) = 0
      OBVIOUS
    <2> QED
      BY <1>1, <1>2, <2>1
  <1>5. ASSUME rest # <<>>, Last(rest).kind = "finish"
        PROVE  Len(rest) = 1 /\ rest[1].kind = "finish" /\ Top.kind = "withTx"
    <2>1. rest \in Seq(Frame)
      BY <1>2 DEF Nested
    <2>2. n > 1
      BY <1>1, <1>2, <1>5, <2>1, EmptySeq
    <2>3. n - 1 \in 1..n - 1 /\ n - 1 \in 1..n
      BY <1>1, <2>2
    <2>4. frames[n - 1].kind = "finish"
      BY <1>2, <1>5, <2>3 DEF Last
    <2>5. n - 1 = 1
      BY <1>1, <2>3, <2>4 DEF Nested, n
    <2>6. n = 2
      BY <1>1, <2>5
    <2>7. frames[2].kind = "withTx"
      <3>1. frames[1].kind = "finish"
        BY <2>4, <2>5
      <3>2. Len(frames) > 1 => (frames[1].kind = "finish" => frames[2].kind = "withTx")
        BY <1>1 DEF Nested
      <3> QED
        BY <2>2, <3>1, <3>2 DEF n
    <2> QED
      BY <1>1, <1>2, <2>3, <2>4, <2>5, <2>6, <2>7
  <1> QED
    BY <1>1, <1>2, <1>3, <1>4, <1>5

\* A commit or a rollback settles the work on one connection.
LEMMA Settled ==
  ASSUME DbInv, NEW c \in Conn, Either(c) \/ UNCHANGED database
  PROVE  /\ work' \in [Conn -> SUBSET Update] /\ committed' \subseteq Update
         /\ committed' \subseteq 1..updates
         /\ \A d \in Conn : work'[d] \subseteq work[d] /\ work'[d] \subseteq 1..updates
         /\ Either(c) => work'[c] = {}
         /\ Commit(c) => /\ committed' = committed \cup work[c]
                         /\ \A d \in Conn \ {c} : work'[d] = work[d]
         /\ Rollback(c) => committed' = committed
  <1>1. /\ work \in [Conn -> SUBSET Update] /\ committed \subseteq Update
        /\ committed \subseteq 1..updates /\ \A d \in Conn : work[d] \subseteq 1..updates
    BY DEF DbInv, TypeOK, WorkIsOfThisCall
  <1>2. CASE work' = [work EXCEPT ![c] = {}] /\ committed' \in {committed, committed \cup work[c]}
    <2>1. /\ work' \in [Conn -> SUBSET Update] /\ work'[c] = {}
          /\ \A d \in Conn \ {c} : work'[d] = work[d]
      BY <1>1, <1>2
    <2>2. work[c] \subseteq Update /\ work[c] \subseteq 1..updates
      BY <1>1
    <2>3. committed' \subseteq Update /\ committed' \subseteq 1..updates
      BY <1>1, <1>2, <2>2
    <2>4. Commit(c) => committed' = committed \cup work[c]
      BY DEF Commit
    <2>5. Rollback(c) => committed' = committed
      BY DEF Rollback
    <2>6. \A d \in Conn : work'[d] \subseteq work[d] /\ work'[d] \subseteq 1..updates
      BY <1>1, <2>1
    <2> QED
      BY <2>1, <2>3, <2>4, <2>5, <2>6
  <1>3. Either(c) => work' = [work EXCEPT ![c] = {}] /\ committed' \in {committed, committed \cup work[c]}
    BY DEF Either, Commit, Rollback
  <1>4. CASE UNCHANGED database /\ ~ Either(c)
    <2>1. work' = work /\ committed' = committed
      BY <1>4 DEF database
    <2> QED
      BY <1>1, <1>4, <2>1 DEF Either
  <1> QED
    BY <1>2, <1>3, <1>4

LEMMA TxEnds ==
  ASSUME DbInv, TxReturns \/ TxThrows
  PROVE  DbInv'
  <1> DEFINE c == Top.conn
             rest == Front(frames)
  <1>1. ~ Idle /\ Top.kind = "withTx"
    <2>1. TxThrows => flow # "callback" /\ Top.kind = "withTx"
      BY DEF TxThrows
    <2>2. TxReturns => ~ Idle /\ Top.kind = "withTx"
      BY DEF TxReturns, InCallback
    <2> QED
      BY <2>1, <2>2 DEF DbInv
  <1>2. Nested(rest, connStack) /\ rest # <<>> /\ ConnsOf(rest) = ConnsOf(frames)
    BY <1>1, LeftAre
  <1>3. Last(rest).kind = "finish" => Len(rest) = 1 /\ rest[1].kind = "finish"
    BY <1>1, <1>2, LeftAre
  <1>4. c \in Conn /\ c \in ConnsOf(frames)
    BY <1>1, TopIs
  <1>5. Either(c) \/ UNCHANGED database
    BY DEF TxReturns, TxThrows, Either
  <1>6. /\ UNCHANGED <<connStack, inUse, leaked, updates>>
        /\ frames' = rest /\ outcome' = outcome /\ flow' \in {"callback", "exception", "error"}
    BY <1>2 DEF TxReturns, TxThrows, End, pool, DbInv, TypeOK
  <1>7. caught' = caught
    BY DEF TxReturns, TxThrows
  <1> HIDE DEF c, rest
  <1>8. nested' \in BOOLEAN /\ doubtful' \in BOOLEAN /\ caught' \in BOOLEAN
    <2>1. nested' \in BOOLEAN
      BY DEF TxReturns, TxThrows, End
    <2>2. doubtful' = doubtful \/ doubtful' = TRUE
      BY DEF TxReturns, TxThrows
    <2> QED
      BY <1>7, <2>1, <2>2 DEF DbInv, TypeOK
  <1>9. TypeOK'
    <2>1. frames' \in Seq(Frame)
      BY <1>2, <1>6 DEF Nested
    <2>2. work' \in [Conn -> SUBSET Update] /\ committed' \subseteq Update
      BY <1>4, <1>5, Settled
    <2> QED
      BY <1>6, <1>8, <2>1, <2>2 DEF DbInv, TypeOK
  <1>10. WorkIsOpen'
    <2>1. \A d \in Conn : work'[d] \subseteq work[d]
      BY <1>4, <1>5, Settled
    <2> QED
      BY <1>2, <1>6, <2>1 DEF DbInv, WorkIsOpen
  <1>11. WorkIsOfThisCall'
    <2>1. committed' \subseteq 1..updates /\ \A d \in Conn : work'[d] \subseteq 1..updates
      BY <1>4, <1>5, Settled
    <2> QED
      BY <1>6, <2>1 DEF WorkIsOfThisCall
  <1>12. NothingLost'
    <2> SUFFICES ASSUME ~ caught', flow' = "callback", NEW u \in 1..updates'
                 PROVE  u \in committed' \/ \E d \in ConnsOf(frames') : u \in work'[d]
      BY DEF NothingLost
    <2>1. Commit(c) /\ flow = "callback"
      BY <1>2 DEF TxReturns, TxThrows, End, InCallback, c, rest
    <2>2. committed' = committed \cup work[c] /\ \A d \in Conn \ {c} : work'[d] = work[d]
      BY <1>4, <1>5, <2>1, Settled
    <2>3. u \in committed \/ \E d \in ConnsOf(frames) : u \in work[d]
      BY <1>1, <1>6, <1>7, <2>1 DEF DbInv, NothingLost
    <2>4. \A d \in ConnsOf(frames) : d \in Conn
      BY DEF DbInv, TypeOK
    <2> QED
      BY <1>2, <1>6, <2>2, <2>3, <2>4
  <1>13. CommittedTold'
    <2> SUFFICES ASSUME ~ nested', ~ doubtful', committed' # {}
                 PROVE  flow' = "callback" /\ Len(frames') = 1 /\ frames'[1].kind = "finish"
      BY <1>2, <1>6 DEF CommittedTold, Idle
    <2>1. CASE TxReturns
      <3>1. End(rest, "callback")
        BY <2>1 DEF TxReturns, rest
      <3>2. flow' = "callback" /\ Last(rest).kind = "finish"
        BY <1>2, <3>1 DEF End
      <3> QED
        BY <1>3, <1>6, <3>2
    <2>2. CASE TxThrows
      <3>1. flow = "exception" /\ Rollback(c) /\ doubtful' = doubtful
        BY <2>2 DEF TxThrows, c
      <3>2. committed' = committed
        BY <3>1 DEF Rollback
      <3>3. ~ nested
        BY <2>2 DEF TxThrows, End
      <3> QED
        BY <1>1, <3>1, <3>2, <3>3, NotYetTold
    <2> QED
      BY <2>1, <2>2
  <1> QED
    BY <1>2, <1>6, <1>9, <1>10, <1>11, <1>12, <1>13 DEF DbInv, Idle

LEMMA ConnEnds ==
  ASSUME DbInv, ConnReturns \/ ConnThrows
  PROVE  DbInv'
  <1> DEFINE c == Top.conn
             rest == Front(frames)
  <1>1. ~ Idle /\ Top.kind # "withTx"
    <2>1. ConnThrows => flow # "callback" /\ Top.kind # "withTx"
      BY DEF ConnThrows
    <2>2. ConnReturns => ~ Idle /\ Top.kind # "withTx"
      BY DEF ConnReturns
    <2> QED
      BY <2>1, <2>2 DEF DbInv
  <1>2. /\ Nested(rest, Pop(c)) /\ ConnsOf(rest) = ConnsOf(frames) \ {c}
        /\ ~ (rest # <<>> /\ Last(rest).kind = "finish")
    BY <1>1, LeftAre
  <1>3. c \in Conn /\ c \in ConnsOf(frames) /\ c \in inUse /\ c \notin leaked
    BY <1>1, TopIs
  <1>4. Either(c)
    BY DEF ConnReturns, ConnThrows, CommitFails, RollbackFails, Either
  <1>5. \/ inUse' = inUse \ {c} /\ leaked' = leaked
        \/ inUse' = inUse /\ leaked' = leaked \cup {c}
    BY DEF ConnReturns, ConnThrows, CommitFails, RollbackFails, Close, CloseFails
  <1>6. /\ connStack' = Pop(c) /\ frames' = rest /\ updates' = updates
        /\ flow' \in {"callback", "exception", "error"}
        /\ outcome' \in {"none", "callback", "exception", "error"}
        /\ rest = <<>> => flow' = "callback"
    BY DEF ConnReturns, ConnThrows, End, DbInv, TypeOK
  <1>7. caught' = caught
    BY DEF ConnReturns, ConnThrows
  <1> HIDE DEF c, rest
  <1>8. nested' \in BOOLEAN /\ doubtful' \in BOOLEAN /\ caught' \in BOOLEAN
    <2>1. nested' \in BOOLEAN
      BY DEF ConnReturns, ConnThrows, End
    <2>2. doubtful' = doubtful \/ doubtful' = TRUE
      BY DEF ConnReturns, ConnThrows, CommitFails, RollbackFails, Close, CloseFails
    <2> QED
      BY <1>7, <2>1, <2>2 DEF DbInv, TypeOK
  <1>9. leaked' \subseteq inUse' /\ inUse' \subseteq Conn /\ inUse' \ leaked' = (inUse \ leaked) \ {c}
    BY <1>3, <1>5 DEF DbInv, TypeOK
  <1>10. TypeOK'
    <2>1. frames' \in Seq(Frame) /\ connStack' \in Seq(Conn)
      BY <1>2, <1>6 DEF Nested
    <2>2. work' \in [Conn -> SUBSET Update] /\ committed' \subseteq Update
      BY <1>3, <1>4, Settled
    <2> QED
      BY <1>6, <1>8, <1>9, <2>1, <2>2 DEF DbInv, TypeOK
  <1>11. WorkIsOpen'
    <2>1. work'[c] = {} /\ \A d \in Conn : work'[d] \subseteq work[d]
      BY <1>3, <1>4, Settled
    <2> QED
      BY <1>2, <1>6, <2>1 DEF DbInv, WorkIsOpen
  <1>12. WorkIsOfThisCall'
    <2>1. committed' \subseteq 1..updates /\ \A d \in Conn : work'[d] \subseteq 1..updates
      BY <1>3, <1>4, Settled
    <2> QED
      BY <1>6, <2>1 DEF WorkIsOfThisCall
  <1>13. NothingLost'
    <2> SUFFICES ASSUME ~ caught', flow' = "callback", Idle' => outcome' = "callback", NEW u \in 1..updates'
                 PROVE  u \in committed' \/ \E d \in ConnsOf(frames') : u \in work'[d]
      BY DEF NothingLost
    <2>1. Commit(c) /\ flow = "callback"
      BY <1>6 DEF ConnReturns, ConnThrows, End, Idle, c, rest
    <2>2. committed' = committed \cup work[c] /\ \A d \in Conn \ {c} : work'[d] = work[d]
      BY <1>3, <1>4, <2>1, Settled
    <2>3. u \in committed \/ \E d \in ConnsOf(frames) : u \in work[d]
      BY <1>1, <1>6, <1>7, <2>1 DEF DbInv, NothingLost
    <2>4. \A d \in ConnsOf(frames) : d \in Conn
      BY DEF DbInv, TypeOK
    <2> QED
      BY <1>2, <1>6, <2>2, <2>3, <2>4
  <1>14. CommittedTold'
    <2> SUFFICES ASSUME ~ nested', ~ doubtful', committed' # {}
                 PROVE  frames' = <<>> /\ outcome' = "callback"
      BY DEF CommittedTold, Idle
    <2>1. CASE ConnReturns
      <3>1. End(rest, "callback")
        BY <2>1 DEF ConnReturns, Close, CloseFails, CommitFails, rest
      <3>2. rest = <<>>
        BY <1>2, <3>1 DEF End
      <3> QED
        BY <1>6, <3>1, <3>2 DEF End
    <2>2. CASE ConnThrows
      <3>1. flow # "callback" /\ Rollback(c) /\ doubtful' = doubtful
        BY <2>2 DEF ConnThrows, Close, CloseFails, RollbackFails, CommitFails, c
      <3>2. committed' = committed
        BY <3>1 DEF Rollback
      <3>3. ~ nested
        BY <2>2 DEF ConnThrows, End
      <3> QED
        BY <1>1, <3>1, <3>2, <3>3, NotYetTold
    <2> QED
      BY <2>1, <2>2
  <1> QED
    BY <1>2, <1>6, <1>9, <1>10, <1>11, <1>12, <1>13, <1>14 DEF DbInv, Idle

LEMMA DbStep ==
  ASSUME DbInv, [Next]_vars
  PROVE  DbInv'
  <1>1. CASE WithConn
    <2>1. MayCall /\ (Open(<<"withConn">>) \/ OpenFails)
      BY <1>1 DEF WithConn
    <2> QED
      BY <2>1, Opens, NotOpened
  <1>2. CASE WithTx
    <2>1. ~ HasConn => MayCall /\ (Open(<<"finish", "withTx">>) \/ OpenFails)
      BY <1>2 DEF WithTx
    <2>2. ~ HasConn => connStack = <<>>
      BY DEF HasConn
    <2> QED
      BY <1>2, <2>1, <2>2, Opens, NotOpened, Joins
  <1>3. CASE Statement
    <2>1. MayCall /\ connStack = <<>> /\ (Open(<<"statement">>) \/ OpenFails)
      BY <1>3 DEF Statement, HasConn
    <2> QED
      BY <2>1, Opens, NotOpened
  <1>4. CASE UNCHANGED vars
    <2>1. UNCHANGED <<frames, connStack, flow, inUse, leaked, work, committed, updates, outcome>>
      BY <1>4 DEF vars, pool, database, call
    <2>2. caught' = caught /\ nested' = nested /\ doubtful' = doubtful
      BY <1>4 DEF vars, call, history
    <2>3. TypeOK'
      BY <2>1, <2>2 DEF DbInv, TypeOK
    <2>4. WorkIsOpen' /\ WorkIsOfThisCall'
      BY <2>1 DEF DbInv, WorkIsOpen, WorkIsOfThisCall
    <2>5. NothingLost'
      BY <2>1, <2>2 DEF DbInv, NothingLost, Idle
    <2>6. CommittedTold'
      BY <2>1, <2>2 DEF DbInv, CommittedTold, Idle
    <2> QED
      BY <2>1, <2>3, <2>4, <2>5, <2>6 DEF DbInv, Idle
  <1> QED
    BY <1>1, <1>2, <1>3, <1>4, Executes, Throws, TxEnds, ConnEnds DEF Next

LEMMA DbBegins ==
  ASSUME Init
  PROVE  DbInv
  <1>1. /\ frames = <<>> /\ connStack = <<>> /\ flow = "callback" /\ inUse = {} /\ leaked = {}
        /\ updates = 0 /\ work = [c \in Conn |-> {}] /\ committed = {} /\ outcome = "none"
    BY DEF Init
  <1>2. caught \in BOOLEAN /\ nested \in BOOLEAN /\ doubtful \in BOOLEAN
    BY DEF Init
  <1>3. ConnsOf(frames) = {} /\ Nested(frames, connStack)
    <2>1. Owned(frames, 0) = 0
      BY OwnedCounts
    <2> QED
      BY <1>1, <2>1 DEF ConnsOf, Nested
  <1>4. TypeOK
    BY <1>1, <1>2, DbAssumption DEF TypeOK
  <1> QED
    BY <1>1, <1>3, <1>4
    DEF DbInv, Idle, WorkIsOpen, WorkIsOfThisCall, NothingLost, CommittedTold

\* Nothing but DbInv is needed to see that the stack matches the calls, that none is
\* left open, and that the end of the outermost call tells the truth.
LEMMA DbHolds ==
  ASSUME DbInv
  PROVE  DbTransactions
  <1>1. StackMatchesCalls
    <2>1. DOMAIN frames = 1..Len(frames)
      BY DEF DbInv, TypeOK
    <2> QED
      BY <2>1 DEF DbInv, Nested, StackMatchesCalls
  <1>2. NoneLeftOpen
    <2>1. DOMAIN frames = 1..Len(frames)
      BY DEF DbInv, TypeOK
    <2> QED
      BY <2>1 DEF DbInv, NoneLeftOpen, ConnsOf
  <1>3. ReturnMeansCommitted
    <2>1. Idle => ConnsOf(frames) = {}
      BY DEF Idle, ConnsOf
    <2> QED
      BY <2>1 DEF DbInv, ReturnMeansCommitted, NothingLost, WorkIsOfThisCall
  <1>4. ThrowMeansNothing
    BY DEF DbInv, ThrowMeansNothing, CommittedTold
  <1> QED
    BY <1>1, <1>2, <1>3, <1>4 DEF DbTransactions
-----------------------------------------------------------------------------
(* ScriptRunner                                                            *)

Lines == Seq(Nat)

ScriptTypes ==
  /\ options \in Script!Options /\ stage \in Script!Stages /\ delimiter \in Script!Delimiters
  /\ Len(script) \in 0..MaxLines /\ script \in Seq(Script!Line)
  /\ pos \in 0..Len(script) /\ command \in Lines
  /\ executed \in Seq(Lines)
  /\ openStatements = 0 \/ (openStatements = 1 /\ stage \in {"failed", "threw"})

\* Where the whole text is one statement, it is executed once.
WholeOnce ==
  options.sendFullScript =>
    /\ command = <<>> /\ Len(executed) <= 1
    /\ stage \in {"setAutoCommit", "lines"} => executed = <<>>

\* The lines with text that were read are executed, in their order, but for those of
\* command; what failed with stopOnError stays in command.
Text(line) == line.kind = "sql" /\ (line.text \/ line.delim # "")
Has(s, i) == \E a \in DOMAIN s : s[a] = i
TextUpTo(s, n, lines) == \A a \in DOMAIN s : s[a] \in 1..n /\ Text(lines[s[a]])
LinesRead ==
  ~ options.sendFullScript =>
    /\ Len(executed) <= pos
    /\ Script!InOrder(executed) /\ Script!Increasing(command) /\ TextUpTo(command, pos, script)
    /\ \A k \in DOMAIN executed : executed[k] # <<>> /\ TextUpTo(executed[k], pos, script)
    /\ \/ \A k \in DOMAIN executed : Script!Before(executed[k], command)
       \/ /\ stage \in {"failed", "threw"} /\ executed # <<>>
          /\ command = executed[Len(executed)]
    /\ \A i \in 1..pos : Text(script[i]) =>
         Has(command, i) \/ \E k \in DOMAIN executed : Has(executed[k], i)

\* What waits and what is committed was executed, in this order.
Some(ss, all) ==
  /\ ss \in Seq(Lines) /\ Len(ss) <= Len(all)
  /\ \A k \in DOMAIN ss : \E l \in DOMAIN all : ss[k] = all[l]
  /\ Script!InOrder(ss)

\* How far the transaction is: nothing of it is committed before the commit, and all
\* that succeeded after it.
Transaction ==
  /\ stage = "setAutoCommit" => pos = 0 /\ scriptCommitted = <<>>
  /\ stage \in {"setAutoCommit", "lines", "commit"} =>
       IF options.autoCommit THEN pending = <<>> ELSE scriptCommitted = <<>>
  /\ stage \in {"commit", "check", "ok"} => pos = Len(script)
  /\ stage \in {"check", "ok"} => pending = <<>>
  /\ stage = "ok" => command = <<>>
  /\ stage \in {"failed", "threw"} /\ ~ options.autoCommit /\ scriptCommitted # <<>> =>
       /\ pos = Len(script) /\ pending = <<>>
       /\ options.stopOnError => executed = scriptCommitted
  /\ options.stopOnError =>
       /\ stage \in {"setAutoCommit", "lines", "commit"} =>
            executed = IF options.autoCommit THEN scriptCommitted ELSE pending
       /\ stage \in {"check", "ok"} => executed = scriptCommitted

ScriptInv ==
  /\ ScriptTypes /\ WholeOnce /\ LinesRead /\ Transaction
  /\ Some(pending, executed) /\ Some(scriptCommitted, executed)

\* One more statement, behind the others.
LEMMA OneMore ==
  ASSUME NEW ss \in Seq(Lines), NEW s \in Lines
  PROVE  /\ Append(ss, s) \in Seq(Lines) /\ Len(ss) \in Nat /\ DOMAIN ss = 1..Len(ss)
         /\ Len(Append(ss, s)) = Len(ss) + 1 /\ DOMAIN Append(ss, s) = 1..Len(ss) + 1
         /\ Append(ss, s)[Len(ss) + 1] = s
         /\ \A k \in DOMAIN ss : Append(ss, s)[k] = ss[k] /\ k \in DOMAIN Append(ss, s)
         /\ \A k \in DOMAIN Append(ss, s) : k \in DOMAIN ss \/ k = Len(ss) + 1
  <1>1. Len(ss) \in Nat /\ DOMAIN ss = 1..Len(ss)
    BY LenProperties
  <1>2. /\ Append(ss, s) \in Seq(Lines) /\ Len(Append(ss, s)) = Len(ss) + 1
        /\ Append(ss, s)[Len(ss) + 1] = s /\ \A k \in 1..Len(ss) : Append(ss, s)[k] = ss[k]
    BY AppendProperties
  <1>3. DOMAIN Append(ss, s) = 1..Len(ss) + 1
    BY <1>2, LenProperties
  <1>4. \A k \in 1..Len(ss) + 1 : k \in 1..Len(ss) \/ k = Len(ss) + 1
    BY <1>1
  <1>5. \A k \in 1..Len(ss) : k \in 1..Len(ss) + 1
    BY <1>1
  <1> QED
    BY <1>1, <1>2, <1>3, <1>4, <1>5

LEMMA InOrderGrows ==
  ASSUME NEW ss \in Seq(Lines), NEW s \in Lines, Script!InOrder(ss), Script!Increasing(s),
         \A k \in DOMAIN ss : Script!Before(ss[k], s)
  PROVE  Script!InOrder(Append(ss, s))
  <1> DEFINE ts == Append(ss, s)
             n == Len(ss)
  <1>1. /\ n \in Nat /\ DOMAIN ss = 1..n /\ ts[n + 1] = s /\ DOMAIN ts = 1..n + 1
        /\ \A k \in DOMAIN ss : ts[k] = ss[k]
        /\ \A k \in DOMAIN ts : k \in DOMAIN ss \/ k = n + 1
    BY OneMore
  <1> HIDE DEF ts, n
  <1>2. ASSUME NEW k \in DOMAIN ts PROVE Script!Increasing(ts[k])
    BY <1>1 DEF Script!InOrder
  <1>3. ASSUME NEW k \in DOMAIN ts, NEW l \in DOMAIN ts, k < l PROVE Script!Before(ts[k], ts[l])
    <2>1. k \in DOMAIN ss
      BY <1>1, <1>3
    <2>2. CASE l \in DOMAIN ss
      BY <1>1, <1>3, <2>1, <2>2 DEF Script!InOrder
    <2>3. CASE l = n + 1
      BY <1>1, <2>1, <2>3
    <2> QED
      BY <1>1, <2>2, <2>3
  <1>4. Script!InOrder(ts)
    BY <1>2, <1>3 DEF Script!InOrder
  <1> QED
    BY <1>4 DEF ts

LEMMA SomeKept ==
  ASSUME NEW ss, NEW all \in Seq(Lines), NEW s \in Lines, Some(ss, all)
  PROVE  Some(ss, Append(all, s))
  <1>1. /\ Len(all) \in Nat /\ Len(Append(all, s)) = Len(all) + 1
        /\ \A k \in DOMAIN all : Append(all, s)[k] = all[k] /\ k \in DOMAIN Append(all, s)
    BY OneMore
  <1>2. /\ ss \in Seq(Lines) /\ Len(ss) <= Len(all) /\ Len(ss) \in Nat
        /\ \A k \in DOMAIN ss : \E l \in DOMAIN all : ss[k] = all[l]
        /\ Script!InOrder(ss)
    BY LenProperties DEF Some
  <1>3. Len(ss) <= Len(Append(all, s))
    BY <1>1, <1>2
  <1>4. \A k \in DOMAIN ss : \E l \in DOMAIN Append(all, s) : ss[k] = Append(all, s)[l]
    BY <1>1, <1>2
  <1> QED
    BY <1>2, <1>3, <1>4 DEF Some

LEMMA SomeMore ==
  ASSUME NEW ss, NEW all \in Seq(Lines), NEW s \in Lines, Some(ss, all),
         Script!Increasing(s), \A k \in DOMAIN all : Script!Before(all[k], s)
  PROVE  Some(Append(ss, s), Append(all, s))
  <1> DEFINE ts == Append(ss, s)
             more == Append(all, s)
  <1>1. /\ Len(all) \in Nat /\ Len(more) = Len(all) + 1
        /\ \A k \in DOMAIN all : more[k] = all[k] /\ k \in DOMAIN more
        /\ more[Len(all) + 1] = s /\ DOMAIN more = 1..Len(all) + 1
    BY OneMore
  <1>2. /\ ss \in Seq(Lines) /\ Len(ss) <= Len(all) /\ Len(ss) \in Nat
        /\ \A k \in DOMAIN ss : \E l \in DOMAIN all : ss[k] = all[l]
        /\ Script!InOrder(ss)
    BY LenProperties DEF Some
  <1>3. /\ ts \in Seq(Lines) /\ Len(ts) = Len(ss) + 1 /\ ts[Len(ss) + 1] = s
        /\ \A k \in DOMAIN ss : ts[k] = ss[k]
        /\ \A k \in DOMAIN ts : k \in DOMAIN ss \/ k = Len(ss) + 1
    BY <1>2, OneMore
  <1>4. Script!InOrder(ts)
    <2>1. \A k \in DOMAIN ss : Script!Before(ss[k], s)
      BY <1>2
    <2> QED
      BY <1>2, <2>1, InOrderGrows
  <1> HIDE DEF ts, more
  <1>5. Len(ts) <= Len(more)
    BY <1>1, <1>2, <1>3
  <1>6. \A k \in DOMAIN ts : \E l \in DOMAIN more : ts[k] = more[l]
    <2>1. Len(all) + 1 \in DOMAIN more
      BY <1>1
    <2> QED
      BY <1>1, <1>2, <1>3, <2>1
  <1>7. Some(ts, more)
    BY <1>3, <1>4, <1>5, <1>6 DEF Some
  <1> QED
    BY <1>7 DEF ts, more

LEMMA ScriptExecutes ==
  ASSUME ScriptInv, stage = "lines", options' = options, NEW s \in Lines,
         NEW next \in {"lines", "commit"}, Script!Execute(s, next),
         Script!Increasing(s), \A k \in DOMAIN executed : Script!Before(executed[k], s)
  PROVE  /\ \/ executed' = Append(executed, s) /\ stage' \in {next, "failed"}
            \/ executed' = executed /\ stage' = "failed"
         /\ executed' \in Seq(Lines)
         /\ openStatements' = 0 \/ (openStatements' = 1 /\ stage' = "failed")
         /\ Some(pending', executed') /\ Some(scriptCommitted', executed')
         /\ IF options.autoCommit THEN pending' = <<>> ELSE scriptCommitted' = <<>>
         /\ options.stopOnError /\ stage' = next =>
              executed' = IF options.autoCommit THEN scriptCommitted' ELSE pending'
  <1>1. /\ openStatements = 0 /\ executed \in Seq(Lines)
        /\ IF options.autoCommit THEN pending = <<>> ELSE scriptCommitted = <<>>
        /\ options.stopOnError => executed = IF options.autoCommit THEN scriptCommitted ELSE pending
        /\ Some(pending, executed) /\ Some(scriptCommitted, executed)
    BY DEF ScriptInv, ScriptTypes, Transaction
  <1>2. CASE /\ UNCHANGED <<executed, pending, scriptCommitted>>
             /\ stage' = "failed" /\ openStatements' \in {openStatements, openStatements + 1}
    BY <1>1, <1>2
  <1>3. ASSUME executed' = Append(executed, s)
        PROVE  /\ Some(pending, executed') /\ Some(scriptCommitted, executed')
               /\ Some(Append(pending, s), executed')
               /\ Some(Append(scriptCommitted, s), executed')
               /\ executed' \in Seq(Lines)
    BY <1>1, <1>3, SomeKept, SomeMore, OneMore
  <1>4. ASSUME executed' = Append(executed, s), Script!Succeeded(s)
        PROVE  /\ Some(pending', executed') /\ Some(scriptCommitted', executed')
               /\ IF options.autoCommit THEN pending' = <<>> ELSE scriptCommitted' = <<>>
               /\ options.stopOnError =>
                    executed' = IF options.autoCommit THEN scriptCommitted' ELSE pending'
    <2>1. CASE options.autoCommit
      <3>1. scriptCommitted' = Append(scriptCommitted, s) /\ pending' = pending
        BY <1>4, <2>1 DEF Script!Succeeded
      <3> QED
        BY <1>1, <1>3, <1>4, <2>1, <3>1
    <2>2. CASE ~ options.autoCommit
      <3>1. pending' = Append(pending, s) /\ scriptCommitted' = scriptCommitted
        BY <1>4, <2>2 DEF Script!Succeeded
      <3> QED
        BY <1>1, <1>3, <1>4, <2>2, <3>1
    <2> QED
      BY <2>1, <2>2
  <1>5. CASE /\ executed' = Append(executed, s)
             /\ Script!Succeeded(s) /\ stage' = next /\ openStatements' = openStatements
    BY <1>1, <1>3, <1>4, <1>5
  <1>6. CASE /\ executed' = Append(executed, s)
             /\ Script!Succeeded(s) \/ UNCHANGED <<pending, scriptCommitted>>
             /\ \/ options.stopOnError /\ stage' = "failed" /\ openStatements' = openStatements + 1
                \/ ~ options.stopOnError /\ stage' = next /\ openStatements' = openStatements
    <2>1. /\ Some(pending', executed') /\ Some(scriptCommitted', executed')
          /\ IF options.autoCommit THEN pending' = <<>> ELSE scriptCommitted' = <<>>
      BY <1>1, <1>3, <1>4, <1>6
    <2>2. stage' # next \/ ~ options.stopOnError
      BY <1>6
    <2> QED
      BY <1>1, <1>3, <1>6, <2>1, <2>2
  <1> QED
    BY <1>2, <1>5, <1>6 DEF Script!Execute, Script!AfterError, Script!StopsOnError

LEMMA BelowNext ==
  ASSUME NEW p \in Nat, NEW i \in 1..p
  PROVE  i < p + 1
  OBVIOUS

\* A line with text, read behind the others of its statement.
LEMMA LineIsTaken ==
  ASSUME ScriptInv, stage = "lines", ~ options.sendFullScript, pos < Len(script),
         Text(script[pos + 1]), NEW s, s = Append(command, pos + 1)
  PROVE  /\ s \in Lines /\ s # <<>> /\ Script!Increasing(s) /\ TextUpTo(s, pos + 1, script)
         /\ \A k \in DOMAIN executed : Script!Before(executed[k], s)
         /\ Has(s, pos + 1) /\ \A i \in 1..pos : Has(command, i) => Has(s, i)
  <1> DEFINE n == Len(command)
  <1>1. /\ pos \in Nat /\ command \in Lines /\ TextUpTo(command, pos, script)
        /\ Script!Increasing(command)
        /\ \A k \in DOMAIN executed : TextUpTo(executed[k], pos, script)
        /\ \A k \in DOMAIN executed : Script!Before(executed[k], command)
    BY DEF ScriptInv, ScriptTypes, LinesRead
  <1>2. pos + 1 \in Nat /\ n \in Nat /\ DOMAIN command = 1..n
    BY <1>1, LenProperties DEF Lines
  <1>3. /\ s \in Lines /\ Len(s) = n + 1 /\ s[n + 1] = pos + 1
        /\ \A a \in 1..n : s[a] = command[a]
    BY <1>1, <1>2, AppendProperties DEF Lines
  <1>4. DOMAIN s = 1..n + 1
    BY <1>3, LenProperties DEF Lines
  <1> HIDE DEF n
  <1>5. \A a \in 1..n + 1 : a \in 1..n \/ a = n + 1
    BY <1>2
  <1>6. s # <<>>
    BY <1>2, <1>3
  <1>7. \A a \in 1..n : command[a] \in 1..pos /\ Text(script[command[a]]) /\ s[a] < pos + 1
    <2> SUFFICES ASSUME NEW a \in 1..n
                 PROVE  command[a] \in 1..pos /\ Text(script[command[a]]) /\ s[a] < pos + 1
      OBVIOUS
    <2>1. command[a] \in 1..pos /\ Text(script[command[a]]) /\ s[a] = command[a]
      BY <1>1, <1>2, <1>3 DEF TextUpTo
    <2>2. command[a] < pos + 1
      BY <1>1, <2>1, BelowNext, Zenon
    <2> QED
      BY <2>1, <2>2
  <1>8. Script!Increasing(s)
    <2> SUFFICES ASSUME NEW a \in 1..n + 1, NEW b \in 1..n + 1, a < b PROVE s[a] < s[b]
      BY <1>4 DEF Script!Increasing
    <2>1. a \in 1..n
      BY <1>2
    <2>2. CASE b \in 1..n
      BY <1>1, <1>2, <1>3, <2>1, <2>2 DEF Script!Increasing
    <2>3. CASE b = n + 1
      BY <1>3, <1>7, <2>1, <2>3
    <2> QED
      BY <1>5, <2>2, <2>3
  <1>9. TextUpTo(s, pos + 1, script)
    <2> SUFFICES ASSUME NEW a \in 1..n + 1 PROVE s[a] \in 1..pos + 1 /\ Text(script[s[a]])
      BY <1>4 DEF TextUpTo
    <2>1. CASE a \in 1..n
      BY <1>1, <1>3, <1>7, <2>1
    <2>2. CASE a = n + 1
      BY <1>1, <1>3, <2>2
    <2> QED
      BY <1>5, <2>1, <2>2
  <1>10. ASSUME NEW k \in DOMAIN executed PROVE Script!Before(executed[k], s)
    <2> SUFFICES ASSUME NEW b \in DOMAIN executed[k], NEW a \in 1..n + 1 PROVE executed[k][b] < s[a]
      BY <1>4 DEF Script!Before
    <2>1. CASE a \in 1..n
      BY <1>1, <1>2, <1>3, <2>1 DEF Script!Before
    <2>2. CASE a = n + 1
      <3>1. executed[k][b] \in 1..pos
        BY <1>1 DEF TextUpTo
      <3> QED
        BY <1>1, <1>3, <2>2, <3>1
    <2> QED
      BY <1>5, <2>1, <2>2
  <1>11. n + 1 \in 1..n + 1 /\ \A a \in 1..n : a \in 1..n + 1
    BY <1>2
  <1>12. Has(s, pos + 1)
    BY <1>3, <1>4, <1>11 DEF Has
  <1>13. \A i \in 1..pos : Has(command, i) => Has(s, i)
    BY <1>2, <1>3, <1>4, <1>11 DEF Has
  <1> QED
    BY <1>3, <1>6, <1>8, <1>9, <1>10, <1>12, <1>13

\* A line that leaves the statements as they are, and adds at most itself to command.
LEMMA LineIsRead ==
  ASSUME ScriptInv, stage = "lines", ~ options.sendFullScript, pos < Len(script), pos' = pos + 1,
         UNCHANGED <<options, script, executed>>, stage' \in {"lines", "failed"},
         \/ command' = command /\ ~ Text(script[pos + 1])
         \/ command' = Append(command, pos + 1) /\ Text(script[pos + 1])
  PROVE  LinesRead' /\ command' \in Lines
  <1>1. /\ pos \in Nat /\ command \in Lines /\ TextUpTo(command, pos, script)
        /\ Script!InOrder(executed) /\ Script!Increasing(command)
        /\ \A k \in DOMAIN executed : executed[k] # <<>> /\ TextUpTo(executed[k], pos, script)
        /\ \A k \in DOMAIN executed : Script!Before(executed[k], command)
        /\ Len(executed) <= pos /\ Len(executed) \in Nat
        /\ \A i \in 1..pos : Text(script[i]) =>
             Has(command, i) \/ \E k \in DOMAIN executed : Has(executed[k], i)
    BY LenProperties DEF ScriptInv, ScriptTypes, LinesRead
  <1>2. Len(executed) <= pos + 1 /\ \A i \in 1..pos + 1 : i \in 1..pos \/ i = pos + 1
    BY <1>1
  <1>3. \A i \in 1..pos : i \in 1..pos + 1
    BY <1>1
  <1>4. \A k \in DOMAIN executed : TextUpTo(executed[k], pos + 1, script)
    BY <1>1, <1>3 DEF TextUpTo
  <1>5. CASE command' = command /\ ~ Text(script[pos + 1])
    <2>1. TextUpTo(command, pos + 1, script)
      BY <1>1, <1>3 DEF TextUpTo
    <2>2. \A i \in 1..pos + 1 : Text(script[i]) =>
            Has(command, i) \/ \E k \in DOMAIN executed : Has(executed[k], i)
      BY <1>1, <1>2, <1>5
    <2> QED
      BY <1>1, <1>2, <1>4, <1>5, <2>1, <2>2 DEF LinesRead
  <1>6. CASE command' = Append(command, pos + 1) /\ Text(script[pos + 1])
    <2>1. /\ command' \in Lines /\ Script!Increasing(command') /\ TextUpTo(command', pos + 1, script)
          /\ \A k \in DOMAIN executed : Script!Before(executed[k], command')
          /\ Has(command', pos + 1) /\ \A i \in 1..pos : Has(command, i) => Has(command', i)
      BY <1>6, LineIsTaken
    <2>2. \A i \in 1..pos + 1 : Text(script[i]) =>
            Has(command', i) \/ \E k \in DOMAIN executed : Has(executed[k], i)
      BY <1>1, <1>2, <2>1
    <2> QED
      BY <1>1, <1>2, <1>4, <2>1, <2>2 DEF LinesRead
  <1> QED
    BY <1>5, <1>6

\* The line that completes a statement.
LEMMA LineIsSent ==
  ASSUME ScriptInv, stage = "lines", ~ options.sendFullScript, pos < Len(script), pos' = pos + 1,
         UNCHANGED <<options, script>>, Text(script[pos + 1]),
         NEW s, s = Append(command, pos + 1), executed' = Append(executed, s),
         \/ stage' = "lines" /\ command' = <<>>
         \/ stage' = "failed" /\ command' = s
  PROVE  LinesRead' /\ command' \in Lines
  <1> DEFINE n == Len(executed)
  <1>1. /\ pos \in Nat /\ command \in Lines /\ executed \in Seq(Lines)
        /\ Script!InOrder(executed)
        /\ \A k \in DOMAIN executed : executed[k] # <<>> /\ TextUpTo(executed[k], pos, script)
        /\ n <= pos
        /\ \A i \in 1..pos : Text(script[i]) =>
             Has(command, i) \/ \E k \in DOMAIN executed : Has(executed[k], i)
    BY DEF ScriptInv, ScriptTypes, LinesRead
  <1>2. /\ s \in Lines /\ s # <<>> /\ Script!Increasing(s) /\ TextUpTo(s, pos + 1, script)
        /\ \A k \in DOMAIN executed : Script!Before(executed[k], s)
        /\ Has(s, pos + 1) /\ \A i \in 1..pos : Has(command, i) => Has(s, i)
    BY LineIsTaken
  <1>3. /\ n \in Nat /\ Len(executed') = n + 1 /\ executed'[n + 1] = s /\ n + 1 \in DOMAIN executed'
        /\ \A k \in DOMAIN executed : executed'[k] = executed[k] /\ k \in DOMAIN executed'
        /\ \A k \in DOMAIN executed' : k \in DOMAIN executed \/ k = n + 1
    <2>1. /\ n \in Nat /\ Len(executed') = n + 1 /\ executed'[n + 1] = s
          /\ DOMAIN executed' = 1..n + 1
          /\ \A k \in DOMAIN executed : executed'[k] = executed[k] /\ k \in DOMAIN executed'
          /\ \A k \in DOMAIN executed' : k \in DOMAIN executed \/ k = n + 1
      BY <1>1, <1>2, OneMore
    <2> QED
      BY <2>1
  <1>4. Script!InOrder(executed')
    BY <1>1, <1>2, InOrderGrows
  <1> HIDE DEF n
  <1>5. Len(executed') <= pos + 1 /\ \A i \in 1..pos : i \in 1..pos + 1
    BY <1>1, <1>3
  <1>6. \A k \in DOMAIN executed' : executed'[k] # <<>> /\ TextUpTo(executed'[k], pos + 1, script)
    <2>1. \A k \in DOMAIN executed : TextUpTo(executed[k], pos + 1, script)
      BY <1>1, <1>5 DEF TextUpTo
    <2> QED
      BY <1>1, <1>2, <1>3, <2>1
  <1>7. \A i \in 1..pos + 1 : Text(script[i]) => \E k \in DOMAIN executed' : Has(executed'[k], i)
    <2> SUFFICES ASSUME NEW i \in 1..pos + 1, Text(script[i])
                 PROVE  \E k \in DOMAIN executed' : Has(executed'[k], i)
      OBVIOUS
    <2>1. CASE Has(s, i)
      BY <1>3, <2>1
    <2>2. CASE ~ Has(s, i)
      <3>1. i \in 1..pos /\ ~ Has(command, i)
        BY <1>1, <1>2, <2>2
      <3> QED
        BY <1>1, <1>3, <3>1
    <2> QED
      BY <2>1, <2>2
  <1>8. CASE stage' = "lines" /\ command' = <<>>
    <2>1. /\ command' \in Lines /\ Script!Increasing(command') /\ TextUpTo(command', pos + 1, script)
          /\ \A k \in DOMAIN executed' : Script!Before(executed'[k], command')
      BY <1>8 DEF Lines, Script!Increasing, Script!Before, TextUpTo
    <2> QED
      BY <1>4, <1>5, <1>6, <1>7, <2>1 DEF LinesRead
  <1>9. CASE stage' = "failed" /\ command' = s
    <2>1. executed' # <<>> /\ command' = executed'[Len(executed')]
      <3>1. executed' = <<>> => Len(executed') = 0
        OBVIOUS
      <3> QED
        BY <1>3, <1>9, <3>1
    <2> QED
      BY <1>2, <1>4, <1>5, <1>6, <1>7, <1>9, <2>1 DEF LinesRead
  <1> QED
    BY <1>8, <1>9

LEMMA HandlesLine ==
  ASSUME ScriptInv, Script!HandleLine
  PROVE  ScriptInv'
  <1> DEFINE line == script[pos + 1]
  <1>1. /\ stage = "lines" /\ ~ options.sendFullScript /\ pos < Len(script) /\ pos' = pos + 1
        /\ options' = options /\ script' = script
    BY DEF Script!HandleLine
  <1>2. /\ pos \in Nat /\ Len(script) \in Nat /\ script \in Seq(Script!Line)
        /\ delimiter \in Script!Delimiters /\ command \in Lines /\ executed \in Seq(Lines)
        /\ openStatements = 0
        /\ Some(pending, executed) /\ Some(scriptCommitted, executed)
    BY <1>1 DEF ScriptInv, ScriptTypes
  <1>3. pos + 1 \in 1..Len(script) /\ pos + 1 \in 0..Len(script)
    BY <1>1, <1>2
  <1>4. line \in Script!Line
    BY <1>2, <1>3, ElementOfSeq
  <1> HIDE DEF line
  <1>5. ASSUME UNCHANGED <<executed, pending, scriptCommitted, openStatements>>,
               stage' \in {"lines", "failed"}, delimiter' \in Script!Delimiters,
               \/ command' = command /\ ~ Text(line)
               \/ command' = Append(command, pos + 1) /\ Text(line)
        PROVE  ScriptInv'
    <2>1. LinesRead' /\ command' \in Lines
      BY <1>1, <1>5, LineIsRead DEF line
    <2>2. ScriptTypes'
      BY <1>1, <1>2, <1>3, <1>5, <2>1 DEF ScriptInv, ScriptTypes, Script!Stages
    <2>3. WholeOnce'
      BY <1>1 DEF WholeOnce
    <2>4. Transaction'
      BY <1>1, <1>5 DEF ScriptInv, Transaction
    <2> QED
      BY <1>1, <1>2, <1>5, <2>1, <2>2, <2>3, <2>4 DEF ScriptInv
  <1>6. CASE /\ line.kind = "comment"
             /\ UNCHANGED <<delimiter, command, executed, pending, scriptCommitted, openStatements, stage>>
    <2>1. ~ Text(line)
      BY <1>6 DEF Text
    <2> QED
      BY <1>1, <1>2, <1>5, <1>6, <2>1
  <1>7. CASE /\ line.kind = "@DELIMITER"
             /\ UNCHANGED <<command, executed, pending, scriptCommitted, openStatements>>
             /\ \/ line.delim # "" /\ delimiter' = line.delim /\ stage' = stage
                \/ stage' = "failed" /\ delimiter' = delimiter
    <2>1. ~ Text(line)
      BY <1>7 DEF Text
    <2>2. line.delim \in Script!Delimiters \cup {""}
      <3>1. line \in Script!Sql \/ line \in Script!SetDelimiter \/ line = [kind |-> "comment"]
        BY <1>4 DEF Script!Line
      <3>2. line \in Script!Sql => line.kind = "sql"
        BY DEF Script!Sql
      <3>3. line = [kind |-> "comment"] => line.kind = "comment"
        OBVIOUS
      <3>4. line \in Script!SetDelimiter
        BY <1>7, <3>1, <3>2, <3>3
      <3> QED
        BY <3>4 DEF Script!SetDelimiter
    <2> QED
      BY <1>1, <1>2, <1>5, <1>7, <2>1, <2>2
  <1>8. CASE /\ line.kind = "sql"
             /\ command' = IF line.text \/ line.delim # "" THEN Append(command, pos + 1) ELSE command
             /\ UNCHANGED <<delimiter, executed, pending, scriptCommitted, openStatements, stage>>
    <2>1. CASE Text(line)
      <3>1. command' = Append(command, pos + 1)
        BY <1>8, <2>1 DEF Text
      <3> QED
        BY <1>1, <1>2, <1>5, <1>8, <2>1, <3>1
    <2>2. CASE ~ Text(line)
      <3>1. command' = command
        BY <1>8, <2>2 DEF Text
      <3> QED
        BY <1>1, <1>2, <1>5, <1>8, <2>2, <3>1
    <2> QED
      BY <2>1, <2>2
  <1>9. CASE /\ line.kind = "sql" /\ line.delim = delimiter
             /\ Script!Execute(Append(command, pos + 1), "lines")
             /\ command' = IF stage' = "lines" THEN <<>> ELSE Append(command, pos + 1)
             /\ delimiter' = delimiter
    <2> DEFINE s == Append(command, pos + 1)
    <2>1. Text(line)
      BY <1>2, <1>9 DEF Text, Script!Delimiters
    <2>2. /\ s \in Lines /\ Script!Increasing(s)
          /\ \A k \in DOMAIN executed : Script!Before(executed[k], s)
      BY <1>1, <2>1, LineIsTaken DEF line
    <2>3. Script!Execute(s, "lines")
      BY <1>9
    <2> HIDE DEF s
    <2>4. /\ \/ executed' = Append(executed, s) /\ stage' \in {"lines", "failed"}
             \/ executed' = executed /\ stage' = "failed"
          /\ executed' \in Seq(Lines)
          /\ openStatements' = 0 \/ (openStatements' = 1 /\ stage' = "failed")
          /\ Some(pending', executed') /\ Some(scriptCommitted', executed')
          /\ IF options.autoCommit THEN pending' = <<>> ELSE scriptCommitted' = <<>>
          /\ options.stopOnError /\ stage' = "lines" =>
               executed' = IF options.autoCommit THEN scriptCommitted' ELSE pending'
      BY <1>1, <2>2, <2>3, ScriptExecutes
    <2>5. \/ stage' = "lines" /\ command' = <<>>
          \/ stage' = "failed" /\ command' = s
      BY <1>9, <2>4 DEF s
    <2>6. LinesRead' /\ command' \in Lines
      <3>1. CASE executed' = Append(executed, s)
        BY <1>1, <2>1, <2>5, <3>1, LineIsSent DEF line, s
      <3>2. CASE executed' = executed /\ stage' = "failed"
        BY <1>1, <2>1, <2>5, <3>2, LineIsRead DEF line, s
      <3> QED
        BY <2>4, <3>1, <3>2
    <2>7. ScriptTypes'
      BY <1>1, <1>2, <1>3, <1>9, <2>4, <2>6 DEF ScriptInv, ScriptTypes, Script!Stages
    <2>8. WholeOnce'
      BY <1>1 DEF WholeOnce
    <2>9. Transaction'
      BY <1>1, <2>4 DEF Transaction
    <2> QED
      BY <1>1, <2>4, <2>6, <2>7, <2>8, <2>9 DEF ScriptInv
  <1> QED
    BY <1>6, <1>7, <1>8, <1>9 DEF Script!HandleLine, Script!Ready, Script!Emptied, line

\* executeFullScript.
LEMMA SendsWhole ==
  ASSUME ScriptInv, Script!FullScript
  PROVE  ScriptInv'
  <1> DEFINE s == [i \in 1..Len(script) |-> i]
  <1>1. /\ stage = "lines" /\ options.sendFullScript /\ pos' = Len(script)
        /\ options' = options /\ script' = script /\ delimiter' = delimiter /\ command' = command
        /\ Script!Execute(s, "commit")
    BY DEF Script!FullScript
  <1>2. executed = <<>> /\ command = <<>> /\ Len(script) \in Nat
    BY <1>1 DEF ScriptInv, ScriptTypes, WholeOnce
  <1>3. s \in Lines /\ Script!Increasing(s) /\ DOMAIN executed = {}
    BY <1>2 DEF Lines, Script!Increasing
  <1> HIDE DEF s
  <1>4. /\ \/ executed' = Append(executed, s) /\ stage' \in {"commit", "failed"}
           \/ executed' = executed /\ stage' = "failed"
        /\ executed' \in Seq(Lines)
        /\ openStatements' = 0 \/ (openStatements' = 1 /\ stage' = "failed")
        /\ Some(pending', executed') /\ Some(scriptCommitted', executed')
        /\ IF options.autoCommit THEN pending' = <<>> ELSE scriptCommitted' = <<>>
        /\ options.stopOnError /\ stage' = "commit" =>
             executed' = IF options.autoCommit THEN scriptCommitted' ELSE pending'
    BY <1>1, <1>3, ScriptExecutes
  <1>5. Len(executed') <= 1
    <2>1. CASE executed' = Append(executed, s)
      BY <1>2, <1>3, <2>1
    <2>2. CASE executed' = executed
      BY <1>2, <2>2
    <2> QED
      BY <1>4, <2>1, <2>2
  <1>6. ScriptTypes'
    BY <1>1, <1>2, <1>4, <1>5 DEF ScriptInv, ScriptTypes, Script!Stages
  <1>7. WholeOnce' /\ LinesRead'
    BY <1>1, <1>2, <1>4, <1>5 DEF WholeOnce, LinesRead
  <1>8. Transaction'
    BY <1>1, <1>4 DEF Transaction
  <1> QED
    BY <1>1, <1>4, <1>6, <1>7, <1>8 DEF ScriptInv

\* A line that cannot be read, and the end of the run: all of the transaction is
\* committed or none of it.
LEMMA ScriptEnds ==
  ASSUME ScriptInv, \/ Script!SetAutoCommit \/ Script!EndOfLines \/ Script!ReadFails
                    \/ Script!Commit \/ Script!Check \/ Script!Failed
  PROVE  ScriptInv'
  <1>1. UNCHANGED <<options, script, pos, delimiter, command, executed, openStatements>>
    BY DEF Script!SetAutoCommit, Script!EndOfLines, Script!ReadFails, Script!Commit, Script!Check, Script!Failed
  <1>2. /\ Some(pending, executed) /\ Some(scriptCommitted, executed)
        /\ pending \in Seq(Lines) /\ scriptCommitted \in Seq(Lines)
        /\ pos \in 0..Len(script) /\ Len(script) \in Nat
    BY DEF ScriptInv, ScriptTypes, Some
  <1>3. Some(<<>>, executed)
    <2>1. <<>> \in Seq(Lines) /\ Len(<<>>) = 0 /\ Len(executed) \in Nat /\ DOMAIN <<>> = {}
      BY LenProperties, EmptySeq DEF ScriptInv, ScriptTypes
    <2> QED
      BY <2>1 DEF Some, Script!InOrder
  <1>4. /\ Some(pending', executed') /\ Some(scriptCommitted', executed')
        /\ Transaction' /\ stage' \in Script!Stages /\ stage' \notin {"setAutoCommit"}
    <2>1. CASE Script!SetAutoCommit \/ Script!EndOfLines \/ Script!ReadFails
      <3>1. /\ UNCHANGED <<pending, scriptCommitted>>
            /\ \/ stage = "setAutoCommit" /\ stage' \in {"lines", "threw"}
               \/ stage = "lines" /\ stage' = "commit" /\ pos = Len(script)
               \/ stage = "lines" /\ stage' = "failed"
        BY <2>1 DEF Script!SetAutoCommit, Script!EndOfLines, Script!ReadFails
      <3>2. stage = "setAutoCommit" => pending = <<>> /\ scriptCommitted = <<>> 
        <4> SUFFICES ASSUME stage = "setAutoCommit" PROVE pending = <<>> /\ scriptCommitted = <<>>
          OBVIOUS
        <4>1. scriptCommitted = <<>>
          BY DEF ScriptInv, Transaction
        <4>2. Len(executed) <= 0
          BY DEF ScriptInv, Transaction, WholeOnce, LinesRead
        <4>3. Len(pending) <= Len(executed) /\ Len(pending) \in Nat /\ Len(executed) \in Nat
          BY <1>2, LenProperties DEF Some, ScriptInv, ScriptTypes
        <4> QED
          BY <1>2, <4>1, <4>2, <4>3, EmptySeq
      <3> QED
        BY <1>1, <1>2, <3>1, <3>2 DEF ScriptInv, Transaction, Script!Stages
    <2>2. CASE Script!Commit
      <3>1. stage = "commit" /\ pos = Len(script)
        BY <2>2 DEF Script!Commit, ScriptInv, Transaction
      <3>2. /\ IF options.autoCommit THEN pending = <<>> ELSE scriptCommitted = <<>>
            /\ options.stopOnError => executed = IF options.autoCommit THEN scriptCommitted ELSE pending
        BY <3>1 DEF ScriptInv, Transaction
      <3>3. CASE /\ scriptCommitted' = scriptCommitted \o pending /\ pending' = <<>>
                 /\ stage' \in {"check", "failed"}
        <4>1. scriptCommitted' = IF options.autoCommit THEN scriptCommitted ELSE pending
          BY <1>2, <3>2, <3>3, ConcatEmptySeq
        <4> QED
          BY <1>1, <1>2, <1>3, <3>1, <3>2, <3>3, <4>1 DEF Transaction, Script!Stages
      <3>4. CASE UNCHANGED <<pending, scriptCommitted>> /\ stage' = "failed"
        BY <1>1, <1>2, <3>1, <3>2, <3>4 DEF Transaction, Script!Stages
      <3> QED
        BY <2>2, <3>3, <3>4 DEF Script!Commit
    <2>3. CASE Script!Check
      <3>1. /\ stage = "check" /\ pending' \in {<<>>, pending} /\ scriptCommitted' = scriptCommitted
            /\ stage' = IF command # <<>> THEN "threw" ELSE "ok"
        BY <2>3 DEF Script!Check, Script!RollBack, Script!Missing
      <3> QED
        BY <1>1, <1>2, <1>3, <3>1 DEF ScriptInv, Transaction, Script!Stages
    <2>4. CASE Script!Failed
      <3>1. /\ stage = "failed" /\ pending' \in {<<>>, pending}
            /\ scriptCommitted' = scriptCommitted /\ stage' = "threw"
        BY <2>4 DEF Script!Failed, Script!RollBack
      <3> QED
        BY <1>1, <1>2, <1>3, <3>1 DEF ScriptInv, Transaction, Script!Stages
    <2> QED
      BY <2>1, <2>2, <2>3, <2>4
  <1>5. stage \in {"failed", "threw"} => stage' \in {"failed", "threw"}
    BY DEF Script!SetAutoCommit, Script!EndOfLines, Script!ReadFails, Script!Commit, Script!Check, Script!Failed
  <1>6. stage' = "lines" => stage = "setAutoCommit"
    BY DEF Script!SetAutoCommit, Script!EndOfLines, Script!ReadFails, Script!Commit, Script!Check, Script!Failed,
           Script!Missing
  <1>7. ScriptTypes'
    BY <1>1, <1>4, <1>5 DEF ScriptInv, ScriptTypes
  <1>8. WholeOnce' /\ LinesRead'
    <2>1. WholeOnce'
      BY <1>1, <1>4, <1>6 DEF ScriptInv, WholeOnce
    <2>2. LinesRead'
      BY <1>1, <1>5 DEF ScriptInv, LinesRead
    <2> QED
      BY <2>1, <2>2
  <1> QED
    BY <1>4, <1>7, <1>8 DEF ScriptInv

LEMMA ScriptStep ==
  ASSUME ScriptInv, [Script!Next]_scriptVars
  PROVE  ScriptInv'
  <1>1. CASE UNCHANGED scriptVars
    <2>1. /\ UNCHANGED <<options, script, pos, delimiter, command, executed, pending,
                         scriptCommitted, openStatements, stage>>
      BY <1>1 DEF scriptVars
    <2>2. ScriptTypes' /\ WholeOnce' /\ Transaction'
      BY <2>1 DEF ScriptInv, ScriptTypes, WholeOnce, Transaction
    <2>3. LinesRead'
      BY <2>1 DEF ScriptInv, LinesRead
    <2> QED
      BY <2>1, <2>2, <2>3 DEF ScriptInv
  <1>2. CASE Script!Next
    BY <1>2, HandlesLine, SendsWhole, ScriptEnds DEF Script!Next
  <1> QED
    BY <1>1, <1>2

LEMMA ScriptHolds ==
  ASSUME ScriptInv
  PROVE  ScriptTransactions /\ Script!TypeOK
  <1>1. /\ executed \in Seq(Lines) /\ Len(executed) \in Nat /\ DOMAIN executed = 1..Len(executed)
        /\ pending \in Seq(Lines) /\ scriptCommitted \in Seq(Lines) /\ command \in Lines
        /\ DOMAIN command = 1..Len(command) /\ Len(command) \in Nat /\ Len(script) \in 0..MaxLines
    BY LenProperties DEF ScriptInv, ScriptTypes, Some, Lines
  <1>2. ASSUME ~ options.sendFullScript
        PROVE  LET unsent == IF executed # <<>> /\ Script!Last(executed) = command THEN <<>> ELSE command
                   statements == Append(executed, unsent)
               IN  /\ Script!InOrder(statements)
                   /\ UNION {Script!Range(statements[k]) : k \in DOMAIN statements} = Script!StatementLines
    <2> DEFINE unsent == IF executed # <<>> /\ Script!Last(executed) = command THEN <<>> ELSE command
               statements == Append(executed, unsent)
               n == Len(executed)
    <2>1. /\ Script!InOrder(executed) /\ Script!Increasing(command) /\ TextUpTo(command, pos, script)
          /\ \A k \in DOMAIN executed : executed[k] # <<>> /\ TextUpTo(executed[k], pos, script)
          /\ \A i \in 1..pos : Text(script[i]) =>
               Has(command, i) \/ \E k \in DOMAIN executed : Has(executed[k], i)
      BY <1>2 DEF ScriptInv, LinesRead
    <2>2. Script!Last(executed) = executed[n]
      BY DEF Script!Last
    <2>3. unsent \in Lines /\ Script!Increasing(unsent) /\ TextUpTo(unsent, pos, script)
      <3>1. <<>> \in Lines /\ Script!Increasing(<<>>) /\ TextUpTo(<<>>, pos, script)
        BY DEF Lines, Script!Increasing, TextUpTo
      <3> QED
        BY <1>1, <2>1, <3>1
    <2>4. \A k \in DOMAIN executed : Script!Before(executed[k], unsent)
      <3>1. CASE unsent = <<>>
        BY <3>1 DEF Script!Before
      <3>2. CASE unsent = command /\ ~ (executed # <<>> /\ command = executed[n])
        BY <1>2, <3>2 DEF ScriptInv, LinesRead
      <3> QED
        BY <2>2, <3>1, <3>2
    <2>5. \A i \in 1..pos : Has(command, i) =>
            Has(unsent, i) \/ \E k \in DOMAIN executed : Has(executed[k], i)
      <3>1. executed # <<>> => n \in DOMAIN executed
        BY <1>1, EmptySeq
      <3>2. unsent = command \/ (executed # <<>> /\ command = executed[n])
        BY <2>2
      <3> QED
        BY <3>1, <3>2
    <2> HIDE DEF unsent
    <2>6. Script!InOrder(statements)
      BY <1>1, <2>1, <2>3, <2>4, InOrderGrows
    <2>7. /\ statements[n + 1] = unsent /\ n + 1 \in DOMAIN statements
          /\ \A k \in DOMAIN executed : statements[k] = executed[k] /\ k \in DOMAIN statements
          /\ \A k \in DOMAIN statements : k \in DOMAIN executed \/ k = n + 1
      <3>1. /\ statements[n + 1] = unsent /\ DOMAIN statements = 1..n + 1
            /\ \A k \in DOMAIN executed : statements[k] = executed[k] /\ k \in DOMAIN statements
            /\ \A k \in DOMAIN statements : k \in DOMAIN executed \/ k = n + 1
        BY <1>1, <2>3, OneMore
      <3> QED
        BY <1>1, <3>1
    <2> HIDE DEF statements, n
    <2>8. \A k \in DOMAIN statements : TextUpTo(statements[k], pos, script)
      BY <2>1, <2>3, <2>7
    <2>9. \A i \in 1..pos : Text(script[i]) => \E k \in DOMAIN statements : Has(statements[k], i)
      BY <2>1, <2>5, <2>7
    <2>10. Script!StatementLines = {i \in 1..pos : Text(script[i])}
      BY DEF Script!StatementLines, Text
    <2>11. UNION {Script!Range(statements[k]) : k \in DOMAIN statements} = Script!StatementLines
      <3>1. ASSUME NEW k \in DOMAIN statements, NEW i \in Script!Range(statements[k])
            PROVE  i \in Script!StatementLines
        BY <2>8, <2>10 DEF Script!Range, TextUpTo
      <3>2. ASSUME NEW i \in Script!StatementLines
            PROVE  \E k \in DOMAIN statements : i \in Script!Range(statements[k])
        BY <2>9, <2>10 DEF Script!Range, Has
      <3> QED
        BY <3>1, <3>2
    <2> QED
      BY <2>6, <2>11 DEF statements, unsent
  <1>3. Script!LinesInOrder
    BY <1>2 DEF Script!LinesInOrder
  <1>4. Script!ThrowMeansNothing
    <2> SUFFICES ASSUME stage = "threw", ~ options.autoCommit, scriptCommitted # <<>>
                 PROVE  /\ pos = Len(script) /\ pending = <<>>
                        /\ Script!Range(scriptCommitted) \subseteq Script!Range(executed)
                        /\ Script!InOrder(scriptCommitted)
                        /\ options.stopOnError => scriptCommitted = executed
      BY DEF Script!ThrowMeansNothing
    <2>1. /\ pos = Len(script) /\ pending = <<>>
          /\ options.stopOnError => scriptCommitted = executed
      BY DEF ScriptInv, Transaction
    <2>2. /\ \A k \in DOMAIN scriptCommitted : \E l \in DOMAIN executed : scriptCommitted[k] = executed[l]
          /\ Script!InOrder(scriptCommitted)
      BY DEF ScriptInv, Some
    <2> QED
      BY <2>1, <2>2 DEF Script!Range
  <1>5. Script!ReturnMeansCommitted
    BY DEF ScriptInv, ScriptTypes, Transaction, Script!ReturnMeansCommitted
  <1>6. Script!TypeOK
    <2>1. Len(executed) <= MaxLines + 1
      <3>1. Len(executed) <= pos \/ Len(executed) <= 1
        BY DEF ScriptInv, WholeOnce, LinesRead
      <3> QED
        BY <1>1, <3>1, CallsAssumption DEF ScriptInv, ScriptTypes
    <2>2. Len(pending) <= Len(executed) /\ Len(scriptCommitted) <= Len(executed)
      BY DEF ScriptInv, Some
    <2>3. Len(pending) \in Nat /\ Len(scriptCommitted) \in Nat
      BY <1>1, LenProperties
    <2>4. \A ss \in {executed, pending, scriptCommitted} : Len(ss) <= MaxLines + 1
      BY <1>1, <2>1, <2>2, <2>3, CallsAssumption
    <2> QED
      BY <2>4 DEF Script!TypeOK, ScriptInv, ScriptTypes
  <1> QED
    BY <1>3, <1>4, <1>5, <1>6 DEF ScriptTransactions
-----------------------------------------------------------------------------
(* The parts side by side                                                  *)

Inv == DbInv /\ LogInv /\ BatchInv /\ ScriptInv

LEMMA LogBegins ==
  ASSUME Log!Init
  PROVE  LogInv
  <1>1. /\ given \in BOOLEAN /\ ouid = <<>> /\ logFrames = <<>> /\ jobs = 0 /\ calls = 0
        /\ nextId = [k \in {"Task", "Data"} |-> 0]
        /\ uid = IF given THEN <<<<"Given", 0>>>> ELSE <<>>
    BY DEF Log!Init, Log!Empty, Log!GivenUid
  <1>2. <<"Given", 0>> \in Log!Part
    BY DEF Log!Part
  <1>3. uid \in Seq(Log!Part) /\ (uid = <<>> <=> ~ given)
    BY <1>1, <1>2
  <1>4. LogTypes
    BY <1>1, <1>3, CallsAssumption DEF LogTypes
  <1>5. DOMAIN logFrames = {}
    BY <1>1
  <1> QED
    BY <1>1, <1>3, <1>4, <1>5
    DEF LogInv, UidMadeOnce, UidIsOwned, SavedByInnermost, PlainIsSaved

LEMMA BatchBegins ==
  ASSUME Batch!Init
  PROVE  BatchInv
  <1>1. /\ rows \in 0..MaxRows /\ data = <<>> /\ loaded = FALSE /\ index = 0 /\ prevItem = 0
        /\ handed = 0 /\ promised = FALSE /\ ended = FALSE /\ atRead = 0
        /\ rejected = FALSE /\ fails = 0
    BY DEF Batch!Init
  <1>2. Batch!TypeOK
    <2>1. /\ 0 \in 0..FetchSize /\ 0 \in 0..MaxRows /\ 0 \in 0..MaxFails /\ 0 <= FetchSize
          /\ <<>> \in Seq(1..MaxRows) /\ Len(<<>>) = 0
      BY CallsAssumption
    <2> QED
      BY <1>1, <2>1 DEF Batch!TypeOK
  <1> QED
    BY <1>1, <1>2 DEF BatchInv, PageFollows, PageIsFull, AnswersHold

LEMMA ScriptBegins ==
  ASSUME Script!Begun, options \in Script!Options,
         script \in UNION {[1..n -> Script!Line] : n \in 0..MaxLines}
  PROVE  ScriptInv
  <1>1. PICK n \in 0..MaxLines : script \in [1..n -> Script!Line]
    OBVIOUS
  <1>2. n \in Nat /\ script \in Seq(Script!Line) /\ Len(script) = n
    BY <1>1, CallsAssumption
  <1>3. /\ pos = 0 /\ delimiter = ";" /\ command = <<>> /\ executed = <<>> /\ pending = <<>>
        /\ scriptCommitted = <<>> /\ openStatements = 0 /\ stage = "setAutoCommit"
    BY DEF Script!Begun
  <1>4. <<>> \in Lines /\ <<>> \in Seq(Lines) /\ Len(<<>>) = 0 /\ DOMAIN <<>> = {}
    BY DEF Lines
  <1>5. ScriptTypes
    <2>1. pos \in 0..Len(script) /\ Len(script) \in 0..MaxLines
      <3>1. 0 \in 0..n /\ n \in 0..MaxLines
        BY <1>2
      <3> QED
        BY <1>2, <1>3, <3>1, Zenon
    <2>2. stage \in Script!Stages /\ delimiter \in Script!Delimiters
      BY <1>3 DEF Script!Stages, Script!Delimiters
    <2> QED
      BY <1>2, <1>3, <1>4, <2>1, <2>2 DEF ScriptTypes
  <1>6. Some(<<>>, <<>>)
    BY <1>4 DEF Some, Script!InOrder
  <1>7. WholeOnce
    <2>1. Len(executed) <= 1
      <3>1. Len(executed) = 0
        BY <1>3, <1>4, Zenon
      <3> QED
        BY <3>1
    <2> QED
      BY <1>3, <2>1 DEF WholeOnce
  <1>8. Transaction
    <2>1. executed = IF options.autoCommit THEN scriptCommitted ELSE pending
      BY <1>3
    <2> QED
      BY <1>3, <2>1 DEF Transaction
  <1>9. LinesRead
    <2>1. Script!InOrder(executed) /\ Script!Increasing(command) /\ TextUpTo(command, pos, script)
      BY <1>3, <1>4 DEF Script!InOrder, Script!Increasing, TextUpTo
    <2>2. Len(executed) <= pos /\ DOMAIN executed = {} /\ 1..pos = {}
      <3>1. Len(executed) = 0 /\ DOMAIN executed = {} /\ pos = 0
        BY <1>3, <1>4, Zenon
      <3> QED
        BY <3>1
    <2> QED
      BY <2>1, <2>2 DEF LinesRead
  <1> QED
    BY <1>3, <1>5, <1>6, <1>7, <1>8, <1>9 DEF ScriptInv

LEMMA AllBegin ==
  ASSUME MCInit
  PROVE  Inv
  <1>1. DbInv /\ LogInv /\ BatchInv
    BY DbBegins, LogBegins, BatchBegins DEF MCInit
  <1>2. ScriptInv
    <2>1. CASE Script!Init
      BY <2>1, ScriptBegins DEF Script!Init
    <2>2. CASE /\ Script!Begun /\ script = <<>>
               /\ options = CHOOSE o \in Script!Options : TRUE
      <3>1. [autoCommit |-> TRUE, stopOnError |-> TRUE,
             sendFullScript |-> TRUE, fullLineDelimiter |-> TRUE] \in Script!Options
        BY DEF Script!Options
      <3>2. options \in Script!Options
        BY <2>2, <3>1
      <3>3. script \in [1..0 -> Script!Line] /\ 0 \in 0..MaxLines
        BY <2>2, CallsAssumption
      <3> QED
        BY <2>2, <3>2, <3>3, ScriptBegins
    <2> QED
      BY <2>1, <2>2 DEF MCInit
  <1> QED
    BY <1>1, <1>2 DEF Inv

\* A step of one part leaves the others alone.
LEMMA PartsStep ==
  ASSUME [MCNext]_allVars
  PROVE  /\ [Next]_vars /\ [Log!Next]_logVars /\ [Batch!Next]_batchVars
         /\ [Script!Next]_scriptVars
  BY DEF MCNext, DbPart, LogPart, BatchPart, ScriptPart, Over, allVars

LEMMA AllStep ==
  ASSUME Inv, [MCNext]_allVars
  PROVE  Inv'
  BY PartsStep, DbStep, LogStep, BatchStep, ScriptStep DEF Inv

\* The inductive invariants of the four parts, whichever of them runs.
THEOREM InvHolds == MCSpec => []Inv
  <1>1. MCInit => Inv
    BY AllBegin
  <1>2. Inv /\ [MCNext]_allVars => Inv'
    BY AllStep
  <1> QED
    BY <1>1, <1>2, PTL DEF MCSpec

\* However connections and transactions are nested and whichever call fails: the
\* stack is that of the calls that run, no connection stays open, and the way the
\* outermost call ends tells what is committed.
THEOREM DbTransactionsHold == MCSpec => []DbTransactions
  <1>1. Inv => DbTransactions
    BY DbHolds DEF Inv
  <1> QED
    BY <1>1, InvHolds, PTL

\* However often the delimiter changes and whichever statement fails: every line goes
\* to the database once and in order, and the transaction ends as the caller is told.
THEOREM ScriptTransactionsHold == MCSpec => []ScriptTransactions
  <1>1. Inv => ScriptTransactions
    BY ScriptHolds DEF Inv
  <1> QED
    BY <1>1, InvHolds, PTL

\* However calls of withJob, withTask and withData are nested: a thread goes back to
\* its pool without a uid, and all lines carry the uid of the job they belong to.
THEOREM LogContextsHold == MCSpec => []LogContexts
  <1>1. LogInv => LogContexts
    <2> SUFFICES ASSUME LogInv PROVE LogContexts
      OBVIOUS
    <2>1. Log!PoolThreadIsClean
      BY DEF LogInv, UidIsOwned, Log!PoolThreadIsClean, Log!Empty
    <2>2. ASSUME NEW i \in DOMAIN logFrames
          PROVE  /\ Log!IsPrefix(logFrames[i].before, uid)
                 /\ logFrames[i].made => uid # <<>> /\ Head(uid) = <<"Job", jobs - 1>>
      <3> DEFINE s == logFrames[i].before
                 n == Len(s)
      <3>1. s \in Seq(Log!Part) /\ uid \in Seq(Log!Part) /\ n \in Nat
        <4>1. logFrames \in Seq(LogFrame) /\ uid \in Seq(Log!Part) /\ i \in 1..Len(logFrames)
          BY LenProperties DEF LogInv, LogTypes
        <4>2. logFrames[i] \in LogFrame
          BY <4>1, ElementOfSeq
        <4>3. s \in Seq(Log!Part)
          BY <4>2 DEF LogFrame
        <4> HIDE DEF s
        <4> QED
          BY <4>1, <4>3, LenProperties
      <3>2. n <= Len(uid) /\ \A j \in 1..n : s[j] = uid[j]
        BY DEF LogInv, SavedByInnermost, Starts
      <3> HIDE DEF s
      <3>3. \A j \in 1..n : s[j] \in Log!Part /\ uid[j] \in Log!Part
        BY <3>1, <3>2, ElementOfSeq
      <3> HIDE DEF n
      <3>4. /\ SubSeq(s, 1, n) \in Seq(Log!Part) /\ Len(SubSeq(s, 1, n)) = n
            /\ \A j \in 1..n : SubSeq(s, 1, n)[j] = s[j]
        <4>1. /\ SubSeq(s, 1, n) \in Seq(Log!Part)
              /\ Len(SubSeq(s, 1, n)) = IF 1 <= n THEN n - 1 + 1 ELSE 0
              /\ \A j \in 1..n - 1 + 1 : SubSeq(s, 1, n)[j] = s[1 + j - 1]
          BY <3>1, <3>3, SubSeqProperties
        <4> QED
          BY <3>1, <4>1
      <3>5. /\ SubSeq(uid, 1, n) \in Seq(Log!Part) /\ Len(SubSeq(uid, 1, n)) = n
            /\ \A j \in 1..n : SubSeq(uid, 1, n)[j] = uid[j]
        <4>1. /\ SubSeq(uid, 1, n) \in Seq(Log!Part)
              /\ Len(SubSeq(uid, 1, n)) = IF 1 <= n THEN n - 1 + 1 ELSE 0
              /\ \A j \in 1..n - 1 + 1 : SubSeq(uid, 1, n)[j] = uid[1 + j - 1]
          BY <3>1, <3>3, SubSeqProperties
        <4> QED
          BY <3>1, <4>1
      <3>6. SubSeq(s, 1, n) = SubSeq(uid, 1, n)
        BY <3>2, <3>4, <3>5, SeqEqual
      <3>7. Log!IsPrefix(s, uid)
        BY <3>2, <3>6 DEF Log!IsPrefix, n
      <3>8. logFrames[i].made => uid # <<>> /\ uid[1] = <<"Job", jobs - 1>>
        BY DEF LogInv, UidMadeOnce
      <3>9. uid # <<>> => Head(uid) = uid[1]
        BY <3>1
      <3> QED
        BY <3>7, <3>8, <3>9 DEF s
    <2>3. Log!LinesCarryTheirJob
      BY <2>2 DEF Log!LinesCarryTheirJob, Log!Empty
    <2> QED
      BY <2>1, <2>3 DEF LogContexts
  <1>2. Inv => LogContexts
    BY <1>1 DEF Inv
  <1> QED
    BY <1>2, InvHolds, PTL

\* Whatever the page size, however many rows there are and however often the producer
\* fails: what hasNext has said of the rows is true.
THEOREM BatchRowsHold == MCSpec => []BatchRows
  <1>1. BatchInv => BatchRows
    <2> SUFFICES ASSUME BatchInv PROVE BatchRows
      OBVIOUS
    <2>1. /\ data \in Seq(1..MaxRows) /\ Len(data) \in Nat /\ DOMAIN data = 1..Len(data)
          /\ index \in Nat /\ prevItem = handed /\ handed \in Nat /\ atRead \in Nat
      BY LenProperties DEF BatchInv, Batch!TypeOK, PageFollows
    <2>2. Batch!TrueMeansNext
      <3> SUFFICES ASSUME promised PROVE index < Len(data) /\ data[index + 1] = handed + 1
        BY DEF Batch!TrueMeansNext
      <3>1. index < Len(data)
        BY DEF BatchInv, AnswersHold
      <3>2. index + 1 \in DOMAIN data
        BY <2>1, <3>1
      <3>3. data[index + 1] + index = prevItem + (index + 1) /\ data[index + 1] \in 1..MaxRows
        BY <2>1, <3>1, <3>2, ElementOfSeq DEF BatchInv, PageFollows
      <3> QED
        BY <2>1, <3>1, <3>3
    <2>3. Batch!FalseMeansAll
      <3> SUFFICES ASSUME ended, ~ rejected PROVE handed = atRead
        BY DEF Batch!FalseMeansAll
      <3>1. loaded /\ index >= Len(data) /\ Len(data) < FetchSize
        BY DEF BatchInv, AnswersHold
      <3>2. index <= Len(data) /\ prevItem + Len(data) = atRead + index
        BY <3>1 DEF BatchInv, PageIsFull
      <3> QED
        BY <2>1, <3>1, <3>2
    <2> QED
      BY <2>2, <2>3 DEF BatchRows
  <1>2. Inv => BatchRows
    BY <1>1 DEF Inv
  <1> QED
    BY <1>2, InvHolds, PTL

\* No row is left out or handed out twice, and a withTask or withData without others
\* inside gives its uid back.
THEOREM StepsToldHold == MCSpec => StepsTold
  <1>1. ASSUME Inv, [MCNext]_allVars PROVE Batch!NoGapNoRepeat /\ Log!PlainCallRestored
    <2>1. Batch!NoGapNoRepeat
      <3>1. [Batch!Next]_batchVars /\ BatchInv
        BY <1>1, PartsStep DEF Inv
      <3>2. CASE Batch!NextItem
        <4>1. /\ data \in Seq(1..MaxRows) /\ Len(data) \in Nat /\ DOMAIN data = 1..Len(data)
              /\ index \in Nat /\ prevItem = handed /\ handed \in Nat
          BY <3>1, LenProperties DEF BatchInv, Batch!TypeOK, PageFollows
        <4>2. index < Len(data) /\ handed' = data[index + 1]
          BY <3>2 DEF Batch!NextItem
        <4>3. index + 1 \in DOMAIN data
          BY <4>1, <4>2
        <4>4. data[index + 1] + index = prevItem + (index + 1) /\ data[index + 1] \in 1..MaxRows
          BY <3>1, <4>1, <4>2, <4>3, ElementOfSeq DEF BatchInv, PageFollows
        <4>5. handed' = handed + 1
          BY <4>1, <4>2, <4>4
        <4> QED
          BY <4>5 DEF Batch!NoGapNoRepeat
      <3>3. CASE handed' = handed
        BY <3>3 DEF Batch!NoGapNoRepeat
      <3> QED
        BY <3>1, <3>2, <3>3 DEF Batch!Next, Batch!HasNext, Batch!ProducerFails,
           Batch!ListRefused, Batch!AddRow, batchVars
    <2>2. Log!PlainCallRestored
      BY <1>1, RestoredStep DEF Inv, Log!PlainCallRestored
    <2> QED
      BY <2>1, <2>2
  <1>2. Inv /\ [MCNext]_allVars => [Batch!NoGapNoRepeat /\ Log!PlainCallRestored]_allVars
    BY <1>1
  <1> QED
    BY <1>2, InvHolds, PTL DEF MCSpec, StepsTold

\* The type invariants of the four parts.
THEOREM TypesCorrect == MCSpec => []TypesOK
  <1>1. LogInv => Log!TypeOK
    <2> SUFFICES ASSUME LogInv PROVE Log!TypeOK
      OBVIOUS
    <2>1. LogTypes /\ \A i \in DOMAIN logFrames : logFrames[i] \in LogFrame
      BY LenProperties, ElementOfSeq DEF LogInv, LogTypes
    <2>2. jobs \in 0..MaxCalls
      BY <2>1, CallsAssumption DEF LogTypes
    <2> QED
      BY <2>1, <2>2 DEF LogTypes, LogFrame, Log!TypeOK
  <1>2. Inv => TypesOK
    BY <1>1, ScriptHolds DEF Inv, DbInv, BatchInv, TypesOK
  <1> QED
    BY <1>2, InvHolds, PTL
=============================================================================
