------------------------- MODULE ClickHistoryProofs -------------------------
(***************************************************************************)
(* Theorems about ClickHistory, for every size of the history and every    *)
(* interleaving of the worker and the report task.                         *)
(*                                                                         *)
(* RingOK is what the writer keeps: going back from the head, the ring has *)
(* the latest clicks, then zeros.  With it a report that no push overlaps  *)
(* is exact (QuietOK), and any entry a disturbed report reads is recent    *)
(* (RecentOK): while a report is made, pushed and overlaps grow together.  *)
(***************************************************************************)
EXTENDS ClickHistory, Integers, TLAPS

\* The index j places before h, for j up to History.
Back(h, j) == IF h >= j THEN h - j ELSE h + History - j

Kept == IF pushed < History THEN pushed ELSE History

RingOK ==
  /\ CountAfter = Kept
  /\ writer # "click" => pushed > 0
  /\ \A k \in 0 .. History - 1 :
       click[Back(HeadAfter, k + 1)] = IF k < pushed THEN pushed - k ELSE 0

\* A report that no push overlaps.
QuietOK ==
  reader # "idle" /\ overlaps = 0 =>
    /\ writer = "click" /\ seenHead = click_head
    /\ reader # "first" => first = Back(click_head, click_count)
    /\ \A k \in 1 .. Len(report) : report[k] = pushed - click_count + k
    /\ reader = "done" => Len(report) = click_count

\* Any report.
RecentOK ==
  /\ overlaps <= pushed
  /\ Len(report) <= click_count
  /\ reader = "entry" => Len(report) < click_count
  /\ reader \in {"idle", "first"} => report = <<>>
  /\ \A k \in 1 .. Len(report) :
       \/ pushed <= report[k] + History + overlaps - 1 /\ report[k] > 0
       \/ report[k] = 0 /\ pushed < History + overlaps

ClickInv == TypeOK /\ RingOK /\ QuietOK /\ RecentOK

-----------------------------------------------------------------------------
(* Indices. *)

LEMMA Sizes == History \in Nat /\ History > 0 /\ MaxClicks \in Nat
BY HistoryAssumption, MaxClicksAssumption

LEMMA Multiples ==
  ASSUME NEW i \in Int, NEW j \in Int, NEW d \in Nat \ {0}, i < j
  PROVE  (d * i) + d <= d * j
<1>1. j - i - 1 \in Nat
  OBVIOUS
<1>2. d * (j - i - 1) >= 0
  BY <1>1
<1>3. d * (j - i - 1) = (d * j) - (d * i) - d
  OBVIOUS
<1>4. d * i \in Int /\ d * j \in Int
  OBVIOUS
<1> QED BY <1>2, <1>3, <1>4

LEMMA Remainder ==
  ASSUME NEW n \in Int, NEW d \in Nat \ {0}, NEW k \in Int, NEW r \in 0 .. d - 1,
         n = (d * k) + r
  PROVE  n % d = r
<1> DEFINE q == n \div d
           m == n % d
<1>1. q \in Int /\ m \in 0 .. d - 1 /\ n = (d * q) + m
  OBVIOUS
<1> HIDE DEF q, m
<1>2. d * k \in Int /\ d * q \in Int
  BY <1>1
<1>3. q < k => FALSE
  <2>1. q < k => (d * q) + d <= d * k
    BY <1>1, Multiples
  <2> QED BY <1>1, <1>2, <2>1
<1>4. k < q => FALSE
  <2>1. k < q => (d * k) + d <= d * q
    BY <1>1, Multiples
  <2> QED BY <1>1, <1>2, <2>1
<1>5. q = k
  BY <1>1, <1>3, <1>4
<1> QED BY <1>1, <1>2, <1>5 DEF m

\* One wrap is all an index ever takes.
LEMMA Wrap ==
  ASSUME NEW x \in Nat, x < 2 * History
  PROVE  x % History = IF x < History THEN x ELSE x - History
<1>1. CASE x < History
  <2>1. x = (History * 0) + x /\ x \in 0 .. History - 1 /\ x \in Int
    BY <1>1, Sizes
  <2> QED BY <1>1, <2>1, Remainder, HistoryAssumption
<1>2. CASE x >= History
  <2>1. x = (History * 1) + (x - History) /\ x - History \in 0 .. History - 1 /\ x \in Int
    BY <1>2, Sizes
  <2>2. x % History = x - History
    BY <2>1, Remainder, HistoryAssumption
  <2> QED BY <1>2, <2>2, Sizes
<1> QED BY <1>1, <1>2, Sizes

LEMMA NextIndex ==
  ASSUME NEW h \in Index
  PROVE  /\ (h + 1) % History = IF h + 1 < History THEN h + 1 ELSE 0
         /\ (h + 1) % History \in Index
<1>1. h + 1 \in Nat /\ h + 1 < 2 * History /\ h + 1 <= History
  BY Sizes DEF Index
<1> QED BY <1>1, Wrap, Sizes DEF Index

LEMMA BackIndex ==
  ASSUME NEW h \in Index, NEW j \in 0 .. History
  PROVE  /\ (h + History - j) % History = Back(h, j)
         /\ Back(h, j) \in Index
<1>1. h + History - j \in Nat /\ h + History - j < 2 * History
  BY Sizes DEF Index
<1> QED BY <1>1, Wrap, Sizes DEF Index, Back

\* Every index lies so far before the head.
LEMMA AllBack ==
  ASSUME NEW h \in Index, NEW i \in Index
  PROVE  \E k \in 0 .. History - 1 : i = Back(h, k + 1)
<1>1. CASE i < h
  <2>1. h - i - 1 \in 0 .. History - 1 /\ i = Back(h, (h - i - 1) + 1)
    BY <1>1, Sizes DEF Index, Back
  <2> QED BY <2>1
<1>2. CASE i >= h
  <2>1. h + History - i - 1 \in 0 .. History - 1 /\ i = Back(h, (h + History - i - 1) + 1)
    BY <1>2, Sizes DEF Index, Back
  <2> QED BY <2>1
<1> QED BY <1>1, <1>2, Sizes DEF Index

-----------------------------------------------------------------------------
(* The writer. *)

LEMMA ClickTypes ==
  ASSUME ClickInv
  PROVE  /\ click \in [Index -> 0 .. MaxClicks] /\ click_head \in Index
         /\ click_count \in 0 .. History /\ pushed \in 0 .. MaxClicks
         /\ first \in Index /\ seenHead \in Index
         /\ report \in Seq(0 .. MaxClicks) /\ Len(report) \in Nat
         /\ overlaps \in 0 .. MaxClicks
         /\ HeadAfter \in Index /\ CountAfter \in 0 .. History
<1>1. /\ click_head \in Index /\ click_count \in 0 .. History
  BY DEF ClickInv, TypeOK
<1>2. HeadAfter \in Index
  BY <1>1, NextIndex DEF HeadAfter
<1>3. CountAfter \in 0 .. History
  BY <1>1, Sizes DEF CountAfter
<1> QED BY <1>2, <1>3 DEF ClickInv, TypeOK

\* An entry of the ring is one of the latest clicks, or was never written.
LEMMA AnyEntry ==
  ASSUME ClickInv, NEW i \in Index
  PROVE  \/ click[i] > 0 /\ pushed < click[i] + History
         \/ click[i] = 0 /\ pushed < History
<1>1. PICK k \in 0 .. History - 1 : i = Back(HeadAfter, k + 1)
  BY ClickTypes, AllBack
<1>2. click[i] = IF k < pushed THEN pushed - k ELSE 0
  BY <1>1 DEF ClickInv, RingOK
<1> QED BY <1>2, ClickTypes, Sizes

LEMMA EntryOfSequence ==
  ASSUME NEW S, NEW s \in Seq(S), NEW k \in 1 .. Len(s)
  PROVE  s[k] \in S
OBVIOUS

LEMMA StoreClickRing ==
  ASSUME ClickInv, StoreClick
  PROVE  RingOK'
<1> DEFINE h == click_head
           g == HeadAfter'
<1>1. /\ writer = "click" /\ writer' = "head" /\ pushed' = pushed + 1
      /\ click_head' = h /\ click_count' = click_count
      /\ click' = [click EXCEPT ![h] = pushed + 1]
      /\ h \in Index /\ click \in [Index -> 0 .. MaxClicks]
      /\ pushed \in Nat /\ click_count \in 0 .. History
  BY ClickTypes DEF StoreClick, state
<1>2. g = (h + 1) % History /\ g \in Index /\ HeadAfter = h
      /\ g = IF h + 1 < History THEN h + 1 ELSE 0
  BY <1>1, NextIndex DEF HeadAfter
<1>3. CountAfter' = Kept'
  <2>1. click_count = Kept
    BY <1>1 DEF ClickInv, RingOK, CountAfter
  <2> QED BY <1>1, <2>1, Sizes DEF CountAfter, Kept
<1>4. \A k \in 0 .. History - 1 : click[Back(h, k + 1)] = IF k < pushed THEN pushed - k ELSE 0
  BY <1>2 DEF ClickInv, RingOK
<1> HIDE DEF g, h
<1>5. ASSUME NEW k \in 0 .. History - 1
      PROVE  click'[Back(g, k + 1)] = IF k < pushed' THEN pushed' - k ELSE 0
  <2>1. CASE k = 0
    <3>1. Back(g, k + 1) = h
      BY <1>1, <1>2, <2>1, Sizes DEF Back, Index
    <3> QED BY <1>1, <2>1, <3>1
  <2>2. CASE k # 0
    <3>1. Back(g, k + 1) = Back(h, k) /\ Back(h, k) # h /\ Back(h, k) \in Index
      BY <1>1, <1>2, <2>2, Sizes DEF Back, Index
    <3>2. k - 1 \in 0 .. History - 1 /\ (k - 1) + 1 = k
      BY <2>2, Sizes
    <3>3. click[Back(h, k)] = IF k - 1 < pushed THEN pushed - (k - 1) ELSE 0
      BY <1>4, <3>2
    <3>4. click'[Back(g, k + 1)] = click[Back(h, k)]
      BY <1>1, <3>1
    <3> QED BY <1>1, <3>2, <3>3, <3>4
  <2> QED BY <2>1, <2>2
<1>6. pushed' > 0
  BY <1>1
<1>7. \A k \in 0 .. History - 1 : click'[Back(HeadAfter', k + 1)] = IF k < pushed' THEN pushed' - k ELSE 0
  BY <1>5 DEF g
<1> QED BY <1>3, <1>6, <1>7 DEF RingOK, Back

\* A push overlaps whatever report is being made; what the report holds ages by
\* one click, and is allowed to.
LEMMA StoreClickKeeps ==
  ASSUME ClickInv, StoreClick
  PROVE  ClickInv'
<1>1. /\ pushed' = pushed + 1 /\ pushed < MaxClicks /\ writer' = "head"
      /\ click_head' = click_head /\ click_count' = click_count
      /\ click' = [click EXCEPT ![click_head] = pushed + 1]
      /\ overlaps' = IF reader = "idle" THEN 0 ELSE overlaps + 1
      /\ reader' = reader /\ first' = first /\ seenHead' = seenHead /\ report' = report
  BY DEF StoreClick, readerVars
<1>2. overlaps <= pushed /\ overlaps \in Nat /\ pushed \in Nat
  BY ClickTypes DEF ClickInv, RecentOK
<1>3. TypeOK'
  <2>1. overlaps' \in 0 .. MaxClicks /\ pushed' \in 0 .. MaxClicks
    BY <1>1, <1>2, Sizes
  <2>2. click' \in [Index -> 0 .. MaxClicks]
    BY <1>1, <2>1, ClickTypes
  <2> QED BY <1>1, <2>1, <2>2 DEF ClickInv, TypeOK
<1>4. QuietOK'
  BY <1>1, <1>2 DEF QuietOK
<1>5. RecentOK'
  <2>1. overlaps' <= pushed'
    BY <1>1, <1>2
  <2>2. /\ Len(report) <= click_count
        /\ reader = "entry" => Len(report) < click_count
        /\ reader \in {"idle", "first"} => report = <<>>
    BY DEF ClickInv, RecentOK
  <2>3. ASSUME NEW k \in 1 .. Len(report)
        PROVE  \/ pushed' <= report[k] + History + overlaps' - 1 /\ report[k] > 0
               \/ report[k] = 0 /\ pushed' < History + overlaps'
    <3>1. reader # "idle"
      <4>1. report # <<>>
        OBVIOUS
      <4> QED BY <2>2, <4>1
    <3>2. \/ pushed <= report[k] + History + overlaps - 1 /\ report[k] > 0
          \/ report[k] = 0 /\ pushed < History + overlaps
      BY DEF ClickInv, RecentOK
    <3>3. report[k] \in Nat
      <4>1. report \in Seq(0 .. MaxClicks)
        BY ClickTypes
      <4>2. report[k] \in 0 .. MaxClicks
        BY <4>1, EntryOfSequence
      <4> QED BY <4>2, Sizes
    <3> QED BY <1>1, <1>2, <3>1, <3>2, <3>3, Sizes
  <2> QED BY <1>1, <2>1, <2>2, <2>3 DEF RecentOK
<1> QED BY <1>3, <1>4, <1>5, StoreClickRing DEF ClickInv

LEMMA StoreHeadKeeps ==
  ASSUME ClickInv, StoreHead
  PROVE  ClickInv'
<1>1. /\ writer = "head" /\ writer' = "count"
      /\ click_head' = (click_head + 1) % History
      /\ click' = click /\ click_count' = click_count /\ pushed' = pushed /\ overlaps' = overlaps
      /\ reader' = reader /\ first' = first /\ seenHead' = seenHead /\ report' = report
  BY DEF StoreHead, readerVars
<1>2. TypeOK'
  <2>1. click_head' \in Index
    BY <1>1, ClickTypes, NextIndex
  <2> QED BY <1>1, <2>1 DEF ClickInv, TypeOK
<1>3. RingOK'
  <2>1. HeadAfter' = HeadAfter /\ CountAfter' = CountAfter /\ Kept' = Kept
    BY <1>1 DEF HeadAfter, CountAfter, Kept
  <2> QED BY <1>1, <2>1 DEF ClickInv, RingOK, Back
<1>4. QuietOK'
  BY <1>1 DEF ClickInv, QuietOK
<1>5. RecentOK'
  BY <1>1 DEF ClickInv, RecentOK
<1> QED BY <1>2, <1>3, <1>4, <1>5 DEF ClickInv

LEMMA StoreCountKeeps ==
  ASSUME ClickInv, StoreCount
  PROVE  ClickInv'
<1>1. /\ writer = "count" /\ writer' = "click"
      /\ click_count' = IF click_count < History THEN click_count + 1 ELSE click_count
      /\ click_head' = click_head
      /\ click' = click /\ pushed' = pushed /\ overlaps' = overlaps
      /\ reader' = reader /\ first' = first /\ seenHead' = seenHead /\ report' = report
  BY DEF StoreCount, readerVars
<1>2. click_count' \in 0 .. History /\ click_count' >= click_count /\ click_count \in Nat
      /\ Len(report) \in Nat
  BY <1>1, ClickTypes, Sizes
<1>3. TypeOK'
  BY <1>1, <1>2 DEF ClickInv, TypeOK
<1>4. RingOK'
  <2>1. HeadAfter' = HeadAfter /\ CountAfter' = CountAfter /\ Kept' = Kept
    BY <1>1 DEF HeadAfter, CountAfter, Kept
  <2> QED BY <1>1, <2>1 DEF ClickInv, RingOK, Back
<1>5. QuietOK'
  BY <1>1 DEF ClickInv, QuietOK
<1>6. RecentOK'
  <2>1. /\ overlaps <= pushed /\ Len(report) <= click_count
        /\ reader = "entry" => Len(report) < click_count
        /\ reader \in {"idle", "first"} => report = <<>>
        /\ \A k \in 1 .. Len(report) :
             \/ pushed <= report[k] + History + overlaps - 1 /\ report[k] > 0
             \/ report[k] = 0 /\ pushed < History + overlaps
    BY DEF ClickInv, RecentOK
  <2>2. Len(report) <= click_count' /\ (reader = "entry" => Len(report) < click_count')
    BY <1>2, <2>1
  <2> QED BY <1>1, <2>1, <2>2 DEF RecentOK
<1> QED BY <1>3, <1>4, <1>5, <1>6 DEF ClickInv

-----------------------------------------------------------------------------
(* The reader: it leaves the ring alone. *)

LEMMA ReaderLeavesRing ==
  ASSUME ClickInv, UNCHANGED <<state, writer, pushed>>
  PROVE  /\ RingOK' /\ click' = click /\ click_head' = click_head /\ click_count' = click_count
         /\ writer' = writer /\ pushed' = pushed
<1>1. /\ click' = click /\ click_head' = click_head /\ click_count' = click_count
      /\ writer' = writer /\ pushed' = pushed
  BY DEF state
<1>2. HeadAfter' = HeadAfter /\ CountAfter' = CountAfter /\ Kept' = Kept
  BY <1>1 DEF HeadAfter, CountAfter, Kept
<1> QED BY <1>1, <1>2 DEF ClickInv, RingOK, Back

LEMMA BeginReportKeeps ==
  ASSUME ClickInv, BeginReport
  PROVE  ClickInv'
<1>1. UNCHANGED <<state, writer, pushed>>
  BY DEF BeginReport
<1>2. /\ reader' = "first" /\ report' = <<>> /\ seenHead' = click_head /\ first' = first
      /\ overlaps' = IF writer = "click" THEN 0 ELSE 1
  BY DEF BeginReport
<1>3. overlaps' \in Nat /\ overlaps' <= pushed /\ pushed \in 0 .. MaxClicks
      /\ click_count \in Nat
  BY <1>2, ClickTypes DEF ClickInv, RingOK
<1>4. <<>> \in Seq(0 .. MaxClicks) /\ Len(<<>>) = 0
  OBVIOUS
<1>5. TypeOK'
  <2>1. overlaps' \in 0 .. MaxClicks
    BY <1>3, Sizes
  <2> QED BY <1>1, <1>2, <1>4, <2>1, ReaderLeavesRing DEF ClickInv, TypeOK
<1>6. QuietOK'
  BY <1>1, <1>2, <1>4, ReaderLeavesRing DEF QuietOK
<1>7. RecentOK'
  BY <1>1, <1>2, <1>3, <1>4, ReaderLeavesRing DEF RecentOK
<1> QED BY <1>1, <1>5, <1>6, <1>7, ReaderLeavesRing DEF ClickInv

LEMMA ReadFirstKeeps ==
  ASSUME ClickInv, ReadFirst
  PROVE  ClickInv'
<1>1. UNCHANGED <<state, writer, pushed>>
  BY DEF ReadFirst
<1>2. /\ reader = "first" /\ reader' = "test" /\ report' = report /\ seenHead' = seenHead
      /\ overlaps' = overlaps
      /\ first' = (seenHead + History - click_count) % History
  BY DEF ReadFirst
<1>3. first' = Back(seenHead, click_count) /\ first' \in Index
  BY <1>2, ClickTypes, BackIndex
<1>4. TypeOK'
  BY <1>1, <1>2, <1>3, ReaderLeavesRing DEF ClickInv, TypeOK
<1>5. QuietOK'
  BY <1>1, <1>2, <1>3, ReaderLeavesRing DEF ClickInv, QuietOK, Back
<1>6. RecentOK'
  BY <1>1, <1>2, ReaderLeavesRing DEF ClickInv, RecentOK
<1> QED BY <1>1, <1>4, <1>5, <1>6, ReaderLeavesRing DEF ClickInv

LEMMA TestCountKeeps ==
  ASSUME ClickInv, TestCount
  PROVE  ClickInv'
<1>1. UNCHANGED <<state, writer, pushed>>
  BY DEF TestCount
<1>2. /\ reader = "test" /\ first' = first /\ report' = report /\ seenHead' = seenHead
      /\ overlaps' = overlaps
      /\ reader' = IF Len(report) < click_count THEN "entry" ELSE "done"
  BY DEF TestCount
<1>3. Len(report) \in Nat /\ click_count \in Nat /\ Len(report) <= click_count
  BY ClickTypes DEF ClickInv, RecentOK
<1>4. /\ reader' \in {"entry", "done"}
      /\ reader' = "entry" => Len(report) < click_count
      /\ reader' = "done" => Len(report) = click_count
  BY <1>2, <1>3
<1>5. TypeOK'
  BY <1>1, <1>2, <1>4, ReaderLeavesRing DEF ClickInv, TypeOK
<1>6. QuietOK'
  BY <1>1, <1>2, <1>4, ReaderLeavesRing DEF ClickInv, QuietOK, Back
<1>7. RecentOK'
  BY <1>1, <1>2, <1>4, ReaderLeavesRing DEF ClickInv, RecentOK
<1> QED BY <1>1, <1>5, <1>6, <1>7, ReaderLeavesRing DEF ClickInv

LEMMA EndReportKeeps ==
  ASSUME ClickInv, EndReport
  PROVE  ClickInv'
<1>1. UNCHANGED <<state, writer, pushed>>
  BY DEF EndReport
<1>2. /\ reader' = "idle" /\ first' = 0 /\ seenHead' = 0 /\ report' = <<>> /\ overlaps' = 0
  BY DEF EndReport
<1>3. <<>> \in Seq(0 .. MaxClicks) /\ Len(<<>>) = 0 /\ 0 \in Index /\ 0 \in 0 .. MaxClicks
  BY Sizes DEF Index
<1>4. pushed \in Nat /\ click_count \in Nat
  BY ClickTypes
<1>5. TypeOK'
  BY <1>1, <1>2, <1>3, ReaderLeavesRing DEF ClickInv, TypeOK
<1>6. QuietOK'
  BY <1>2 DEF QuietOK
<1>7. RecentOK'
  BY <1>1, <1>2, <1>3, <1>4, ReaderLeavesRing DEF RecentOK
<1> QED BY <1>1, <1>5, <1>6, <1>7, ReaderLeavesRing DEF ClickInv

\* What the report takes from the ring when no push overlaps it.
LEMMA QuietEntry ==
  ASSUME ClickInv, reader = "entry", overlaps = 0
  PROVE  click[(first + Len(report)) % History] = pushed - click_count + Len(report) + 1
<1> DEFINE n == click_count
           l == Len(report)
           h == click_head
<1>1. /\ writer = "click" /\ first = Back(h, n) /\ l < n /\ l \in Nat
      /\ n \in 0 .. History /\ h \in Index /\ pushed \in Nat
  BY ClickTypes DEF ClickInv, QuietOK, RecentOK
<1>2. n = Kept /\ HeadAfter = h
  BY <1>1 DEF ClickInv, RingOK, CountAfter, HeadAfter
<1>3. \A k \in 0 .. History - 1 : click[Back(h, k + 1)] = IF k < pushed THEN pushed - k ELSE 0
  BY <1>2 DEF ClickInv, RingOK
<1> HIDE DEF n, l, h
<1>4. (first + l) % History = Back(h, n - l)
  <2>1. first + l \in Nat /\ first + l < 2 * History /\ h \in Nat /\ h < History
    BY <1>1, Sizes DEF Back, Index
  <2> DEFINE x == first + l
  <2>2. x % History = IF x < History THEN x ELSE x - History
    <3> HIDE DEF x
    <3>1. x \in Nat /\ x < 2 * History
      BY <2>1 DEF x
    <3> QED BY <3>1, Wrap
  <2> QED BY <1>1, <2>1, <2>2, Sizes DEF Back
<1>5. n - l - 1 \in 0 .. History - 1 /\ (n - l - 1) + 1 = n - l /\ n - l - 1 < pushed
  BY <1>1, <1>2, Sizes DEF Kept
<1>6. click[Back(h, n - l)] = pushed - (n - l - 1)
  <2>1. click[Back(h, (n - l - 1) + 1)] = IF n - l - 1 < pushed THEN pushed - (n - l - 1) ELSE 0
    BY <1>3, <1>5
  <2> QED BY <1>5, <2>1
<1>7. pushed - (n - l - 1) = pushed - n + l + 1
  BY <1>1
<1> QED BY <1>4, <1>6, <1>7 DEF n, l

LEMMA ReadEntryKeeps ==
  ASSUME ClickInv, ReadEntry
  PROVE  ClickInv'
<1> DEFINE l == Len(report)
           v == click[(first + l) % History]
<1>1. UNCHANGED <<state, writer, pushed>>
  BY DEF ReadEntry
<1>2. /\ reader = "entry" /\ reader' = "test" /\ first' = first /\ seenHead' = seenHead
      /\ overlaps' = overlaps /\ report' = Append(report, v)
  BY DEF ReadEntry
<1>3. l \in Nat /\ click_count \in 0 .. History /\ l < click_count /\ first \in Index
      /\ overlaps \in Nat /\ pushed \in Nat
  BY <1>2, ClickTypes DEF ClickInv, RecentOK
<1>4. (first + l) % History \in Index
  <2>1. first + l \in Nat /\ first + l < 2 * History
    BY <1>3, Sizes DEF Index
  <2> QED BY <2>1, Wrap, Sizes DEF Index
<1>5. /\ v \in 0 .. MaxClicks /\ v \in Nat
      /\ \/ v > 0 /\ pushed < v + History
         \/ v = 0 /\ pushed < History
  <2>1. v \in 0 .. MaxClicks
    BY <1>4, ClickTypes
  <2>2. \/ v > 0 /\ pushed < v + History
        \/ v = 0 /\ pushed < History
    BY <1>4, AnyEntry
  <2> QED BY <2>1, <2>2, Sizes
<1>6. overlaps = 0 => v = pushed - click_count + (l + 1)
  BY <1>2, <1>3, QuietEntry
<1> HIDE DEF v
<1>7. /\ report' \in Seq(0 .. MaxClicks) /\ Len(report') = l + 1 /\ report'[l + 1] = v
      /\ \A k \in 1 .. l : report'[k] = report[k]
  <2>1. report \in Seq(0 .. MaxClicks)
    BY ClickTypes
  <2> QED BY <1>2, <1>5, <2>1
<1> HIDE DEF l
<1>8. \A k \in 1 .. l + 1 : k \in 1 .. l \/ k = l + 1
  BY <1>3
<1>9. TypeOK'
  BY <1>1, <1>2, <1>7, ReaderLeavesRing DEF ClickInv, TypeOK
<1>10. QuietOK'
  <2> SUFFICES ASSUME overlaps = 0
               PROVE  QuietOK'
    BY <1>2 DEF QuietOK
  <2>1. /\ writer = "click" /\ seenHead = click_head /\ first = Back(click_head, click_count)
        /\ \A k \in 1 .. l : report[k] = pushed - click_count + k
    BY <1>2 DEF ClickInv, QuietOK, l
  <2>2. \A k \in 1 .. l + 1 : report'[k] = pushed - click_count + k
    BY <1>6, <1>7, <1>8, <2>1
  <2> QED BY <1>1, <1>2, <1>7, <2>1, <2>2, ReaderLeavesRing DEF QuietOK, Back
<1>11. RecentOK'
  <2>1. overlaps <= pushed
    BY DEF ClickInv, RecentOK
  <2>2. \A k \in 1 .. l :
          \/ pushed <= report[k] + History + overlaps - 1 /\ report[k] > 0
          \/ report[k] = 0 /\ pushed < History + overlaps
    BY DEF ClickInv, RecentOK, l
  <2>3. \/ pushed <= v + History + overlaps - 1 /\ v > 0
        \/ v = 0 /\ pushed < History + overlaps
    BY <1>3, <1>5, Sizes
  <2>4. \A k \in 1 .. l + 1 :
          \/ pushed <= report'[k] + History + overlaps - 1 /\ report'[k] > 0
          \/ report'[k] = 0 /\ pushed < History + overlaps
    BY <1>7, <1>8, <2>2, <2>3
  <2>5. Len(report') <= click_count
    BY <1>3, <1>7
  <2> QED BY <1>1, <1>2, <1>7, <2>1, <2>4, <2>5, ReaderLeavesRing DEF RecentOK
<1> QED BY <1>1, <1>9, <1>10, <1>11, ReaderLeavesRing DEF ClickInv

-----------------------------------------------------------------------------
(* The invariant, and what follows. *)

LEMMA ClickInvInit == Init => ClickInv
<1> SUFFICES ASSUME Init
             PROVE  ClickInv
  OBVIOUS
<1>1. /\ click = [i \in Index |-> 0] /\ click_head = 0 /\ click_count = 0
      /\ writer = "click" /\ pushed = 0
      /\ reader = "idle" /\ first = 0 /\ seenHead = 0 /\ report = <<>> /\ overlaps = 0
  BY DEF Init
<1>2. 0 \in Index /\ 0 \in 0 .. MaxClicks /\ 0 \in 0 .. History
      /\ <<>> \in Seq(0 .. MaxClicks) /\ Len(<<>>) = 0
  BY Sizes DEF Index
<1>3. TypeOK
  BY <1>1, <1>2 DEF TypeOK
<1>4. RingOK
  <2>1. HeadAfter = 0 /\ CountAfter = 0 /\ Kept = 0
    BY <1>1, Sizes DEF HeadAfter, CountAfter, Kept
  <2>2. ASSUME NEW k \in 0 .. History - 1
        PROVE  click[Back(0, k + 1)] = 0
    <3>1. Back(0, k + 1) \in Index
      BY <2>2, Sizes DEF Back, Index
    <3> QED BY <1>1, <3>1
  <2> QED BY <1>1, <2>1, <2>2 DEF RingOK
<1>5. QuietOK /\ RecentOK
  BY <1>1, <1>2 DEF QuietOK, RecentOK
<1> QED BY <1>3, <1>4, <1>5 DEF ClickInv

LEMMA ClickInvStep == ClickInv /\ [Next]_vars => ClickInv'
<1> SUFFICES ASSUME ClickInv, [Next]_vars
             PROVE  ClickInv'
  OBVIOUS
<1>1. CASE Push
  BY <1>1, StoreClickKeeps, StoreHeadKeeps, StoreCountKeeps DEF Push
<1>2. CASE Report
  BY <1>2, BeginReportKeeps, ReadFirstKeeps, TestCountKeeps, ReadEntryKeeps, EndReportKeeps DEF Report
<1>3. CASE UNCHANGED vars
  <2>1. /\ UNCHANGED <<state, writer, pushed>> /\ reader' = reader /\ first' = first
        /\ seenHead' = seenHead /\ report' = report /\ overlaps' = overlaps
    BY <1>3 DEF vars, readerVars
  <2>2. TypeOK'
    BY <2>1, ReaderLeavesRing DEF ClickInv, TypeOK
  <2>3. QuietOK'
    BY <2>1, ReaderLeavesRing DEF ClickInv, QuietOK, Back
  <2>4. RecentOK'
    BY <2>1, ReaderLeavesRing DEF ClickInv, RecentOK
  <2> QED BY <2>1, <2>2, <2>3, <2>4, ReaderLeavesRing DEF ClickInv
<1> QED BY <1>1, <1>2, <1>3 DEF Next

LEMMA ClickInvAlways == Spec => []ClickInv
BY ClickInvInit, ClickInvStep, PTL DEF Spec

\* Every index of the ring stays inside it, and the count never exceeds it.
THEOREM TypeCorrect == Spec => []TypeOK
<1>1. ClickInv => TypeOK
  BY DEF ClickInv
<1> QED BY <1>1, ClickInvAlways, PTL

\* A report no push overlapped is the latest clicks, oldest first, and all of
\* them that fit.
THEOREM QuietReportsAreExact == Spec => []UndisturbedReportIsExact
<1>1. ClickInv => UndisturbedReportIsExact
  <2> SUFFICES ASSUME ClickInv, reader = "done", overlaps = 0
               PROVE  LET n == IF pushed < History THEN pushed ELSE History
                      IN report = [k \in 1 .. n |-> pushed - n + k]
    BY DEF UndisturbedReportIsExact
  <2>1. /\ writer = "click" /\ Len(report) = click_count
        /\ \A k \in 1 .. Len(report) : report[k] = pushed - click_count + k
    BY DEF ClickInv, QuietOK
  <2>2. click_count = Kept
    BY <2>1 DEF ClickInv, RingOK, CountAfter
  <2>3. report = [k \in 1 .. Len(report) |-> report[k]]
    <3>1. report \in Seq(0 .. MaxClicks)
      BY ClickTypes
    <3> QED BY <3>1
  <2>4. report = [k \in 1 .. Kept |-> pushed - Kept + k]
    BY <2>1, <2>2, <2>3
  <2> QED BY <2>4 DEF Kept
<1> QED BY <1>1, ClickInvAlways, PTL

\* However pushes and a report interleave, the report fits the history and holds
\* no click older than the history was when it began.
THEOREM AllReportsAreRecent == Spec => []DisturbedReportIsRecent
<1>1. ClickInv => DisturbedReportIsRecent
  <2> SUFFICES ASSUME ClickInv, reader = "done"
               PROVE  DisturbedReportIsRecent
    BY DEF DisturbedReportIsRecent
  <2>1. Len(report) <= History
    BY ClickTypes, Sizes DEF ClickInv, RecentOK
  <2> QED BY <2>1 DEF ClickInv, RecentOK, DisturbedReportIsRecent
<1> QED BY <1>1, ClickInvAlways, PTL

-----------------------------------------------------------------------------
(* The ring implements ClickWindow. *)

\* n clicks, from click b + 1 on.
Numbers(b, n) == [k \in 1 .. n |-> b + k]

LEMMA NumbersAre ==
  ASSUME NEW b \in Nat, NEW n \in Nat
  PROVE  /\ Numbers(b, n) \in Seq(Nat) /\ Len(Numbers(b, n)) = n
         /\ \A k \in 1 .. n : Numbers(b, n)[k] = b + k
<1>1. \A k \in 1 .. n : b + k \in Nat
  OBVIOUS
<1> QED BY <1>1 DEF Numbers

LEMMA NumbersGrow ==
  ASSUME NEW b \in Nat, NEW n \in Nat
  PROVE  Append(Numbers(b, n), b + n + 1) = Numbers(b, n + 1)
<1> DEFINE w == Numbers(b, n)
           v == Numbers(b, n + 1)
           t == b + n + 1
<1>1. w \in Seq(Nat) /\ Len(w) = n /\ \A k \in 1 .. n : w[k] = b + k
  BY NumbersAre
<1>2. v \in Seq(Nat) /\ Len(v) = n + 1 /\ \A k \in 1 .. n + 1 : v[k] = b + k
  BY NumbersAre
<1>3. t \in Nat /\ t = b + (n + 1) /\ \A k \in 1 .. n + 1 : k \in 1 .. n \/ k = n + 1
  OBVIOUS
<1> HIDE DEF w, v, t
<1>4. /\ Append(w, t) \in Seq(Nat) /\ Len(Append(w, t)) = n + 1 /\ Append(w, t)[n + 1] = t
      /\ \A k \in 1 .. n : Append(w, t)[k] = w[k]
  BY <1>1, <1>3
<1>5. \A k \in 1 .. n + 1 : Append(w, t)[k] = v[k]
  BY <1>1, <1>2, <1>3, <1>4
<1>6. Append(w, t) = v
  BY <1>2, <1>4, <1>5
<1> QED BY <1>6 DEF w, v, t

LEMMA NumbersShrink ==
  ASSUME NEW b \in Nat, NEW n \in Nat
  PROVE  Tail(Numbers(b, n + 1)) = Numbers(b + 1, n)
<1> DEFINE w == Numbers(b, n + 1)
           v == Numbers(b + 1, n)
<1>1. w \in Seq(Nat) /\ Len(w) = n + 1 /\ \A k \in 1 .. n + 1 : w[k] = b + k
  BY NumbersAre
<1>2. v \in Seq(Nat) /\ Len(v) = n /\ \A k \in 1 .. n : v[k] = b + 1 + k
  BY NumbersAre
<1> HIDE DEF w, v
<1>3. Tail(w) \in Seq(Nat) /\ Len(Tail(w)) = n /\ \A k \in 1 .. n : Tail(w)[k] = w[k + 1]
  BY <1>1
<1>4. \A k \in 1 .. n : Tail(w)[k] = v[k]
  <2>1. \A k \in 1 .. n : k + 1 \in 1 .. n + 1 /\ b + (k + 1) = b + 1 + k
    OBVIOUS
  <2> QED BY <1>1, <1>2, <1>3, <2>1
<1>5. Tail(w) = v
  BY <1>2, <1>3, <1>4
<1> QED BY <1>5 DEF w, v

LEMMA WindowIs ==
  ASSUME ClickInv
  PROVE  Window = Numbers(pushed - Kept, Kept)
<1> DEFINE h == HeadAfter
           n == Kept
<1>1. /\ CountAfter = n /\ n \in 0 .. History /\ h \in Index /\ pushed \in Nat /\ n <= pushed
      /\ \A k \in 0 .. History - 1 : click[Back(h, k + 1)] = IF k < pushed THEN pushed - k ELSE 0
  BY ClickTypes, Sizes DEF ClickInv, RingOK, Kept
<1> HIDE DEF h, n
<1>2. ASSUME NEW k \in 1 .. n
      PROVE  click[(h + History - n + k - 1) % History] = pushed - n + k
  <2>1. n - k \in 0 .. History - 1 /\ n - k < pushed /\ (n - k) + 1 \in 0 .. History
    BY <1>1, Sizes
  <2>2. click[Back(h, (n - k) + 1)] = pushed - (n - k)
    BY <1>1, <2>1
  <2>3. (h + History - ((n - k) + 1)) % History = Back(h, (n - k) + 1)
    BY <1>1, <2>1, BackIndex
  <2>4. /\ h + History - ((n - k) + 1) = h + History - n + k - 1
        /\ pushed - (n - k) = pushed - n + k
    BY <1>1, Sizes DEF Index
  <2> QED BY <2>2, <2>3, <2>4
<1>3. Window = [k \in 1 .. n |-> click[(h + History - n + k - 1) % History]]
  BY <1>1 DEF Window, h
<1>4. Window = Numbers(pushed - n, n)
  BY <1>2, <1>3 DEF Numbers
<1> QED BY <1>4 DEF n

\* Whatever steps of the worker and the report task come between, the history is
\* a window on the latest clicks that moves one click at a time.
THEOREM WindowImplemented == Spec => ImplementsWindow
<1>1. Init => Promise!Init
  <2> SUFFICES ASSUME Init
               PROVE  Window = <<>>
    BY DEF Promise!Init
  <2>1. ClickInv /\ pushed = 0
    BY ClickInvInit DEF Init
  <2>2. Kept = 0
    BY <2>1, Sizes DEF Kept
  <2>3. Numbers(pushed - 0, 0) = <<>>
    BY DEF Numbers
  <2> QED BY <2>1, <2>2, <2>3, WindowIs
<1>2. ClickInv /\ ClickInv' /\ [Next]_vars => [Promise!Next]_Window
  <2> SUFFICES ASSUME ClickInv, ClickInv', [Next]_vars
               PROVE  [Promise!Next]_Window
    OBVIOUS
  <2>1. Window = Numbers(pushed - Kept, Kept)
    BY WindowIs
  <2>2. Window' = Numbers(pushed' - Kept', Kept')
    <3>1. (ClickInv => Window = Numbers(pushed - Kept, Kept))'
      BY WindowIs, PTL
    <3> QED BY <3>1 DEF Numbers
  <2>3. CASE StoreClick
    <3>1. pushed' = pushed + 1 /\ pushed < MaxClicks /\ pushed \in Nat
      BY <2>3, ClickTypes DEF StoreClick
    <3>2. Kept' = IF pushed + 1 < History THEN pushed + 1 ELSE History
      BY <3>1 DEF Kept
    <3>3. Kept = IF pushed < History THEN pushed ELSE History
      BY DEF Kept
    <3>4. Len(Window) = Kept
      <4>1. Kept \in Nat /\ pushed - Kept \in Nat
        BY <3>1, <3>3, Sizes
      <4>2. Len(Numbers(pushed - Kept, Kept)) = Kept
        BY <4>1, NumbersAre
      <4> QED BY <2>1, <4>2
    <3>5. Window' = IF Len(Window) < History THEN Append(Window, pushed + 1)
                    ELSE Append(Tail(Window), pushed + 1)
      <4>1. CASE pushed < History
        <5>1. Window = Numbers(0, pushed) /\ Window' = Numbers(0, pushed + 1) /\ Kept = pushed
          BY <2>1, <2>2, <3>1, <3>2, <3>3, <4>1, Sizes
        <5>2. Append(Numbers(0, pushed), 0 + pushed + 1) = Numbers(0, pushed + 1)
          BY <3>1, NumbersGrow
        <5>3. 0 + pushed + 1 = pushed + 1
          BY <3>1
        <5> QED BY <3>4, <4>1, <5>1, <5>2, <5>3
      <4>2. CASE ~(pushed < History)
        <5> DEFINE b == pushed - History
                   m == History - 1
        <5>1. b \in Nat /\ b + 1 \in Nat /\ m \in Nat /\ m + 1 = History
              /\ b + 1 + m + 1 = pushed + 1 /\ pushed + 1 - History = b + 1
          BY <3>1, <4>2, Sizes
        <5>2. Kept = History /\ Kept' = History
          BY <3>1, <3>2, <3>3, <4>2, Sizes
        <5>3. Window = Numbers(b, m + 1) /\ Window' = Numbers(b + 1, m + 1)
          BY <2>1, <2>2, <3>1, <5>1, <5>2
        <5> HIDE DEF b, m
        <5>4. Tail(Numbers(b, m + 1)) = Numbers(b + 1, m)
          BY <5>1, NumbersShrink
        <5>5. Append(Numbers(b + 1, m), b + 1 + m + 1) = Numbers(b + 1, m + 1)
          BY <5>1, NumbersGrow
        <5>6. ~(Len(Window) < History)
          BY <3>4, <5>2, Sizes
        <5> QED BY <5>1, <5>3, <5>4, <5>5, <5>6
      <4> QED BY <4>1, <4>2
    <3>6. pushed + 1 \in 1 .. MaxClicks
      BY <3>1, Sizes
    <3> QED BY <3>5, <3>6 DEF Promise!Next, Promise!Push
  <2>4. CASE pushed' = pushed
    <3>1. Kept' = Kept
      BY <2>4 DEF Kept
    <3> QED BY <2>1, <2>2, <2>4, <3>1
  <2>5. StoreClick \/ pushed' = pushed
    BY DEF Next, Push, Report, StoreHead, StoreCount, BeginReport, ReadFirst, TestCount,
           ReadEntry, EndReport, vars
  <2> QED BY <2>3, <2>4, <2>5
<1> QED BY <1>1, <1>2, ClickInvAlways, PTL DEF Spec, ImplementsWindow, Promise!Spec
=============================================================================
