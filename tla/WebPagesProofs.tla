---------------------------- MODULE WebPagesProofs ----------------------------
(***************************************************************************)
(* Proofs about the pages of the web server, for any policies, edits,      *)
(* dates, hosts and order of the answers: what the form of a policy saves  *)
(* is what it showed and what it opens is what was saved; the page of      *)
(* graphs settles on the date selected, with a list of filters that fits   *)
(* it, and nothing is stored for a host but what was typed for it.         *)
(***************************************************************************)
EXTENDS WebPages, FiniteSetTheorems, WellFoundedInduction, TLAPS


-----------------------------------------------------------------------------
(* What a filter keeps *)

\* The positions kept have the ranks 1, 2, ..., one each.
LEMMA RanksOfKept ==
  ASSUME NEW n \in Nat, NEW kept \in SUBSET (1 .. n)
  PROVE  /\ Cardinality(kept) \in Nat
         /\ \A i \in kept : Rank(kept, i) \in 1 .. Cardinality(kept)
         /\ \A i, j \in kept : Rank(kept, i) = Rank(kept, j) => i = j
         /\ \A k \in 1 .. Cardinality(kept) : \E i \in kept : Rank(kept, i) = k
<1> DEFINE Below(i) == {j \in kept : j <= i}
           rank == [i \in kept |-> Cardinality(Below(i))]
           C == Cardinality(kept)
<1>1. IsFiniteSet(kept) /\ C \in Nat
  <2>1. IsFiniteSet(1 .. n)
    BY FS_Interval
  <2>2. IsFiniteSet(kept)
    BY <2>1, FS_Subset
  <2>3. QED
    BY <2>2, FS_CardinalityType
<1>2. ASSUME NEW i \in kept
      PROVE  IsFiniteSet(Below(i)) /\ Cardinality(Below(i)) \in 1 .. C
  <2>1. Below(i) \in SUBSET kept /\ i \in Below(i)
    OBVIOUS
  <2>2. IsFiniteSet(Below(i)) /\ Cardinality(Below(i)) <= C
    BY <1>1, <2>1, FS_Subset
  <2>3. Cardinality(Below(i)) \in Nat /\ Cardinality(Below(i)) # 0
    BY <2>1, <2>2, FS_CardinalityType, FS_EmptySet
  <2>4. QED
    BY <1>1, <2>2, <2>3
<1>3. rank \in [kept -> 1 .. C]
  BY <1>2
<1>4. ASSUME NEW i \in kept, NEW j \in kept, i < j PROVE rank[i] # rank[j]
  <2>1. \A x \in kept : x \in Nat
    OBVIOUS
  <2>2. j \in Below(j) /\ j \notin Below(i)
    BY <1>4, <2>1
  <2>3. Below(i) \in SUBSET Below(j)
    <3>1. ASSUME NEW x \in Below(i) PROVE x \in Below(j)
      BY <1>4, <2>1
    <3>2. QED
      BY <3>1
  <2>4. Cardinality(Below(i)) # Cardinality(Below(j))
    BY <1>2, <2>2, <2>3, FS_Subset
  <2>5. QED
    BY <2>4
<1> HIDE DEF rank
<1>5. \A i, j \in kept : rank[i] = rank[j] => i = j
  <2>1. \A i, j \in kept : i # j => i < j \/ j < i
    OBVIOUS
  <2>2. QED
    BY <1>4, <2>1
<1>6. rank \in Injection(kept, 1 .. C)
  BY <1>3, <1>5 DEF Injection, IsInjective
<1>7. IsFiniteSet(1 .. C) /\ Cardinality(1 .. C) = C
  BY <1>1, FS_Interval
<1>8. rank \in Surjection(kept, 1 .. C)
  BY <1>6, <1>7, FS_Injection
<1>9. \A i \in kept : Rank(kept, i) = rank[i]
  BY DEF Rank, rank
<1>10. QED
  BY <1>1, <1>3, <1>5, <1>8, <1>9 DEF Surjection

\* What a filter keeps of a sequence are its elements at the positions kept, no others.
LEMMA FilteredOK ==
  ASSUME NEW T, NEW seq \in Seq(T), NEW kept \in SUBSET DOMAIN seq
  PROVE  /\ Filtered(seq, kept) \in Seq(T)
         /\ Range(Filtered(seq, kept)) = {seq[i] : i \in kept}
<1> DEFINE C == Cardinality(kept)
           at(k) == CHOOSE i \in kept : Rank(kept, i) = k
           f == [k \in 1 .. C |-> seq[at(k)]]
<1>1. Len(seq) \in Nat /\ kept \in SUBSET (1 .. Len(seq)) /\ \A i \in kept : seq[i] \in T
  OBVIOUS
<1>2. /\ C \in Nat
      /\ \A i \in kept : Rank(kept, i) \in 1 .. C
      /\ \A i, j \in kept : Rank(kept, i) = Rank(kept, j) => i = j
      /\ \A k \in 1 .. C : \E i \in kept : Rank(kept, i) = k
  BY <1>1, RanksOfKept
<1>3. \A k \in 1 .. C : at(k) \in kept
  BY <1>2
<1>4. \A i \in kept : at(Rank(kept, i)) = i
  BY <1>2
<1>5. Filtered(seq, kept) = f
  BY DEF Filtered
<1> HIDE DEF at, C
<1>6. f \in [1 .. C -> T]
  BY <1>1, <1>3
<1>7. f \in Seq(T)
  BY <1>2, <1>6
<1>8. \A i \in kept : \E k \in DOMAIN f : f[k] = seq[i]
  BY <1>2, <1>4
<1>9. \A k \in DOMAIN f : f[k] \in {seq[i] : i \in kept}
  BY <1>3
<1>10. Range(f) = {seq[i] : i \in kept}
  BY <1>8, <1>9 DEF Range
<1>11. QED
  BY <1>5, <1>7, <1>10

\* Of the positions with a property, there is a first.
LEMMA FirstPosition ==
  ASSUME NEW S \in SUBSET Nat, S # {}
  PROVE  \E i \in S : \A j \in S : i <= j
<1> DEFINE Less == {ss \in Nat \X Nat : ss[1] < ss[2]}
<1>1. IsWellFoundedOn(Less, Nat)
  BY NatLessThanWellFounded DEF OpToRel
<1>2. PICK i \in S : \A j \in S : << j, i >> \notin Less
  BY <1>1, WFMin, Zenon
<1>3. \A j \in S : j \in Nat /\ i \in Nat /\ ~(j < i)
  BY <1>2
<1>4. QED
  BY <1>3

-----------------------------------------------------------------------------
(* The form of a policy *)

Periods == [start : Clock, stop : Clock]
FormRow == [num : Int, start : Fields, stop : Fields]
AnyForm == [open : BOOLEAN, id : Policies \cup {NoPolicy}, boxes : SUBSET Boxes,
            rows : Seq(FormRow), nodes : Int, old : Nat, edits : Nat]
SavedPolicy == [labels : SUBSET Boxes, periods : Seq(Periods)]

\* The boxes of groups follow those of the days, but in a form just opened for a new policy.
Consistent(boxes) == boxes = {"Daily"} \/ \E days \in SUBSET Daily : boxes = WithGroups(days)
Days(boxes) == IF boxes = {"Daily"} THEN Daily ELSE boxes \cap Daily

\* The rows a policy is opened with.
RowsOf(periods) ==
  [k \in DOMAIN Kept(periods) |-> Row(k - 1, Kept(periods)[k].start, Kept(periods)[k].stop)]

\* A form that was not edited yet shows the policy that is saved.
Opened ==
  form.open /\ form.id # NoPolicy /\ form.edits = 0 =>
    /\ form.id \in DOMAIN saved
    /\ form.boxes = WithGroups(Meaning(saved[form.id].labels))
    /\ form.rows = RowsOf(saved[form.id].periods)

FormInv ==
  /\ form \in AnyForm
  /\ form.open => Consistent(form.boxes)
  /\ DOMAIN saved \subseteq Policies /\ DOMAIN shown = DOMAIN saved
  /\ \A id \in DOMAIN saved : saved[id] \in SavedPolicy /\ Meaning(saved[id].labels) \subseteq Daily
  /\ SavedAsShown
  /\ Opened

LEMMA MeaningOfLabels ==
  ASSUME NEW labels \in SUBSET Boxes PROVE Meaning(labels) \subseteq Daily
<1>1. \A l \in Boxes : DaysOf(l) \subseteq Daily
  BY DEF Boxes, Daily, Weekdays, Weekends, DaysOf
<1>2. QED
  BY <1>1 DEF Meaning

\* The labels of a policy mean the days whose boxes are checked (updatePolicyConfig).
LEMMA LabelsMeanDays ==
  ASSUME NEW boxes, Consistent(boxes)
  PROVE  /\ Labels(boxes) \in SUBSET Boxes
         /\ Meaning(Labels(boxes)) = Days(boxes)
<1>1. CASE boxes = {"Daily"}
  <2>1. Labels(boxes) = {"Daily"} /\ DaysOf("Daily") = Daily
    BY <1>1 DEF Labels, DaysOf
  <2>2. QED
    BY <1>1, <2>1 DEF Meaning, Days, Boxes
<1>2. ASSUME NEW days \in SUBSET Daily, boxes = WithGroups(days)
      PROVE  Labels(boxes) \in SUBSET Boxes /\ Meaning(Labels(boxes)) = Days(boxes)
  <2> DEFINE week == IF "Weekday" \in boxes THEN {"Weekday"} ELSE boxes \cap Weekdays
             rest == IF "Weekend" \in boxes THEN {"Weekend"} ELSE boxes \cap Weekends
  <2>1. /\ "Daily" \in boxes <=> Daily \subseteq days
        /\ "Weekday" \in boxes <=> Weekdays \subseteq days
        /\ "Weekend" \in boxes <=> Weekends \subseteq days
        /\ boxes \cap Daily = days
        /\ boxes \cap Weekdays = days \cap Weekdays /\ boxes \cap Weekends = days \cap Weekends
    BY <1>2 DEF WithGroups, GroupBoxes, DaysOf, Daily, Weekdays, Weekends
  <2>2. Days(boxes) = days
    BY <1>2, <2>1 DEF Days, Daily, Weekdays, Weekends
  <2>3. CASE "Daily" \in boxes
    <3>1. Labels(boxes) = {"Daily"} /\ DaysOf("Daily") = Daily
      BY <2>3 DEF Labels, DaysOf
    <3>2. QED
      BY <2>1, <2>2, <2>3, <3>1 DEF Meaning, Boxes
  <2>4. CASE "Daily" \notin boxes
    <3>1. Labels(boxes) = week \cup rest
      BY <2>4 DEF Labels
    <3>2. UNION {DaysOf(l) : l \in week} = days \cap Weekdays
      <4>1. CASE "Weekday" \in boxes
        BY <2>1, <4>1 DEF DaysOf
      <4>2. CASE "Weekday" \notin boxes
        <5>1. \A l \in Weekdays : DaysOf(l) = {l}
          BY DEF DaysOf, Weekdays
        <5>2. QED
          BY <2>1, <4>2, <5>1
      <4>3. QED
        BY <4>1, <4>2
    <3>3. UNION {DaysOf(l) : l \in rest} = days \cap Weekends
      <4>1. CASE "Weekend" \in boxes
        BY <2>1, <4>1 DEF DaysOf
      <4>2. CASE "Weekend" \notin boxes
        <5>1. \A l \in Weekends : DaysOf(l) = {l}
          BY DEF DaysOf, Weekends
        <5>2. QED
          BY <2>1, <4>2, <5>1
      <4>3. QED
        BY <4>1, <4>2
    <3>4. Meaning(Labels(boxes)) = days
      BY <3>1, <3>2, <3>3 DEF Meaning, Daily
    <3>5. week \cup rest \in SUBSET Boxes
      BY DEF Boxes, Daily
    <3>6. QED
      BY <2>2, <3>1, <3>4, <3>5
  <2>5. QED
    BY <2>3, <2>4
<1>3. QED
  BY <1>1, <1>2 DEF Consistent

\* A click leaves the boxes of groups in step with those of the days.
LEMMA ClickConsistent ==
  ASSUME NEW boxes, NEW box \in Boxes
  PROVE  LET days == boxes \cap Daily
         IN \E new \in SUBSET Daily :
              WithGroups(IF box \in boxes THEN days \ DaysOf(box) ELSE days \cup DaysOf(box))
                = WithGroups(new)
<1>1. DaysOf(box) \subseteq Daily
  BY DEF Boxes, Daily, Weekdays, Weekends, DaysOf
<1>2. QED
  BY <1>1

\* The first of the rows with a number that is read is one of the form's.
LEMMA PeriodRead ==
  ASSUME NEW rows \in Seq(FormRow), NEW n \in NumsRead(rows)
  PROVE  \E i \in DOMAIN rows :
           /\ rows[i].num = n /\ \A j \in 1 .. i - 1 : rows[j].num # n
           /\ PeriodOf(rows, n) = Filled(rows[i])
<1> DEFINE S == {i \in DOMAIN rows : rows[i].num = n}
<1>1. S \in SUBSET Nat /\ S # {}
  BY DEF NumsRead, Range
<1>2. PICK i \in S : \A j \in S : i <= j
  BY <1>1, FirstPosition
<1>3. i \in DOMAIN rows /\ rows[i].num = n /\ \A j \in 1 .. i - 1 : rows[j].num # n
  <2>1. ASSUME NEW j \in 1 .. i - 1 PROVE j \notin S /\ j \in DOMAIN rows
    BY <1>1, <1>2
  <2>2. QED
    BY <1>2, <2>1
<1>4. \E k \in DOMAIN rows : rows[k].num = n /\ \A j \in 1 .. k - 1 : rows[j].num # n
  BY <1>3
<1>5. QED
  BY <1>4 DEF PeriodOf

LEMMA FilledType == ASSUME NEW r \in FormRow PROVE Filled(r) \in Periods
BY PolicyFormAssumption DEF Filled, FormRow, Periods, Period, Fields, Clock, Blank

LEMMA KeptOK ==
  ASSUME NEW ps \in Seq(Periods)
  PROVE  Kept(ps) \in Seq(Periods) /\ Range(Kept(ps)) \subseteq Range(ps)
<1> DEFINE kept == {k \in DOMAIN ps : ~ /\ \E j \in 1 .. k - 1 : ps[j].start = ps[k].start
                                        /\ \E j \in 1 .. k - 1 : ps[j].stop = ps[k].stop}
<1>1. kept \in SUBSET DOMAIN ps /\ Kept(ps) = Filtered(ps, kept)
  BY DEF Kept
<1> HIDE DEF kept
<1>2. Kept(ps) \in Seq(Periods) /\ Range(Kept(ps)) = {ps[i] : i \in kept}
  BY <1>1, FilteredOK
<1>3. QED
  BY <1>1, <1>2 DEF Range

LEMMA RowsOfType ==
  ASSUME NEW ps \in Seq(Periods)
  PROVE  RowsOf(ps) \in Seq(FormRow)
<1>1. Kept(ps) \in Seq(Periods)
  BY KeptOK
<1> DEFINE kept == Kept(ps)
<1> HIDE DEF kept
<1>2. \A k \in DOMAIN kept : Row(k - 1, kept[k].start, kept[k].stop) \in FormRow
  <2>1. \A k \in DOMAIN kept : k \in Nat /\ kept[k] \in Periods
    BY <1>1 DEF kept
  <2>2. QED
    BY <2>1 DEF Row, FormRow, Periods, Fields
<1>3. DOMAIN kept = 1 .. Len(kept) /\ Len(kept) \in Nat
  BY <1>1 DEF kept
<1>4. [k \in DOMAIN kept |-> Row(k - 1, kept[k].start, kept[k].stop)] \in Seq(FormRow)
  BY <1>2, <1>3
<1>5. QED
  BY <1>4 DEF RowsOf, kept

LEMMA FormInitOK == FormInit => FormInv
<1> SUFFICES ASSUME FormInit PROVE FormInv
  OBVIOUS
<1>1. form \in AnyForm /\ ~form.open
  BY DEF FormInit, Closed, AnyForm
<1>2. DOMAIN saved = {} /\ DOMAIN shown = {}
  BY DEF FormInit
<1>3. QED
  BY <1>1, <1>2 DEF FormInv, SavedAsShown, Opened

\* An edit changes nothing that is saved, and the form is not as it was opened any more.
LEMMA EditOK ==
  ASSUME FormInv, form' \in AnyForm, form'.edits = form.edits + 1,
         Consistent(form'.boxes), UNCHANGED file
  PROVE  FormInv'
<1>1. form'.edits # 0
  BY DEF FormInv, AnyForm
<1>2. UNCHANGED << saved, shown >>
  BY DEF file
<1>3. Opened'
  BY <1>1 DEF Opened
<1>4. SavedAsShown'
  BY <1>2 DEF FormInv, SavedAsShown
<1>5. QED
  BY <1>2, <1>3, <1>4 DEF FormInv

LEMMA ClickOK == ASSUME FormInv, NEW box \in Boxes, Click(box) PROVE FormInv'
<1> DEFINE days == form.boxes \cap Daily
           new == WithGroups(IF box \in form.boxes THEN days \ DaysOf(box)
                             ELSE days \cup DaysOf(box))
<1>1. form' = [form EXCEPT !.edits = @ + 1, !.boxes = new] /\ UNCHANGED file
  BY DEF Click
<1>2. PICK d \in SUBSET Daily : new = WithGroups(d)
  BY ClickConsistent
<1> HIDE DEF new, days
<1>3. Consistent(new)
  BY <1>2 DEF Consistent
<1>4. new \in SUBSET Boxes
  BY <1>2 DEF WithGroups, GroupBoxes, Boxes
<1>5. form \in AnyForm
  BY DEF FormInv
<1>6. form' \in AnyForm /\ form'.boxes = new /\ form'.edits = form.edits + 1
  <2>1. form' = [open |-> form.open, id |-> form.id, boxes |-> new, rows |-> form.rows,
                 nodes |-> form.nodes, old |-> form.old, edits |-> form.edits + 1]
    BY <1>1, <1>5 DEF AnyForm
  <2>2. form.edits + 1 \in Nat
    BY <1>5 DEF AnyForm
  <2>3. QED
    BY <1>4, <1>5, <2>1, <2>2 DEF AnyForm
<1>7. QED
  BY <1>1, <1>3, <1>6, EditOK

LEMMA ChangeRowsOK ==
  ASSUME FormInv, NEW rows \in Seq(FormRow), NEW nodes \in Int, ChangeRows(rows, nodes)
  PROVE  FormInv'
<1>1. form \in AnyForm /\ form.open /\ Consistent(form.boxes)
  BY DEF FormInv, ChangeRows, MayEdit
<1>2. form' = [form EXCEPT !.rows = rows, !.nodes = nodes, !.edits = @ + 1] /\ UNCHANGED file
  BY DEF ChangeRows
<1>3. form' \in AnyForm /\ form'.boxes = form.boxes /\ form'.edits = form.edits + 1
  <2>1. form' = [open |-> form.open, id |-> form.id, boxes |-> form.boxes, rows |-> rows,
                 nodes |-> nodes, old |-> form.old, edits |-> form.edits + 1]
    BY <1>1, <1>2 DEF AnyForm
  <2>2. form.edits + 1 \in Nat
    BY <1>1 DEF AnyForm
  <2>3. QED
    BY <1>1, <2>1, <2>2 DEF AnyForm
<1>4. QED
  BY <1>1, <1>2, <1>3, EditOK

LEMMA PutInSeq ==
  ASSUME NEW T, NEW seq \in Seq(T), NEW i, NEW x \in T
  PROVE  [seq EXCEPT ![i] = x] \in Seq(T)
<1>1. Len(seq) \in Nat /\ DOMAIN seq = 1 .. Len(seq) /\ \A k \in 1 .. Len(seq) : seq[k] \in T
  OBVIOUS
<1>2. [seq EXCEPT ![i] = x] = [k \in 1 .. Len(seq) |-> IF k = i THEN x ELSE seq[k]]
  BY <1>1
<1> DEFINE new == [k \in 1 .. Len(seq) |-> IF k = i THEN x ELSE seq[k]]
<1>3. new \in [1 .. Len(seq) -> T]
  BY <1>1
<1> HIDE DEF new
<1>4. new \in Seq(T)
  BY <1>1, <1>3
<1>5. QED
  BY <1>2, <1>4 DEF new

LEMMA RowTyped ==
  ASSUME NEW r \in FormRow, NEW a, NEW b, NEW s, s = [r EXCEPT !.start = a, !.stop = b]
  PROVE  s = [num |-> r.num, start |-> a, stop |-> b]
BY DEF FormRow

LEMMA RowEditsOK ==
  ASSUME FormInv
  PROVE  /\ AddRow => FormInv'
         /\ \A i \in 1 .. MaxEdits + 1 : RemoveRow(i) => FormInv'
         /\ \A i \in 1 .. MaxEdits + 1 : \A times \in Typed : Type(i, times) => FormInv'
         /\ \A check \in BOOLEAN : AnyTime(check) => FormInv'
<1>1. form.rows \in Seq(FormRow) /\ form.nodes \in Int
  BY DEF FormInv, AnyForm
<1>2. Blank \in Fields /\ 0 \in Fields /\ EndOfDay \in Fields
  BY PolicyFormAssumption DEF Fields, Blank, Clock
<1>3. ASSUME AddRow PROVE FormInv'
  <2>1. Row(form.nodes - 6, Blank, Blank) \in FormRow
    BY <1>1, <1>2 DEF Row, FormRow
  <2>2. Append(form.rows, Row(form.nodes - 6, Blank, Blank)) \in Seq(FormRow)
    BY <1>1, <2>1
  <2>3. /\ ChangeRows(Append(form.rows, Row(form.nodes - 6, Blank, Blank)), form.nodes + 1)
        /\ form.nodes + 1 \in Int
    BY <1>1, <1>3 DEF AddRow
  <2>4. QED
    BY <2>2, <2>3, ChangeRowsOK
<1>4. ASSUME NEW i \in 1 .. MaxEdits + 1, RemoveRow(i) PROVE FormInv'
  <2>1. i \in 1 .. Len(form.rows) /\ Len(form.rows) \in Nat
    BY <1>1, <1>4 DEF RemoveRow
  <2>2. RemoveAt(form.rows, i) \in Seq(FormRow)
    BY <1>1, <2>1 DEF RemoveAt
  <2>3. ChangeRows(RemoveAt(form.rows, i), form.nodes - 1) /\ form.nodes - 1 \in Int
    BY <1>1, <1>4 DEF RemoveRow
  <2>4. QED
    BY <2>2, <2>3, ChangeRowsOK
<1>5. ASSUME NEW i \in 1 .. MaxEdits + 1, NEW times \in Typed, Type(i, times) PROVE FormInv'
  <2> DEFINE rows == [form.rows EXCEPT ![i].start = times[1], ![i].stop = times[2]]
  <2>1. times[1] \in Fields /\ times[2] \in Fields /\ i \in DOMAIN form.rows
    BY <1>5, PolicyFormAssumption DEF Type, Fields
  <2> DEFINE new == [num |-> form.rows[i].num, start |-> times[1], stop |-> times[2]]
  <2>2. form.rows[i] \in FormRow
    BY <1>1, <2>1
  <2>3. new \in FormRow
    BY <2>1, <2>2 DEF FormRow
  <2>4. rows \in Seq(FormRow)
    <3>1. rows = [form.rows EXCEPT ![i] = new]
      <4>1. rows[i] = [form.rows[i] EXCEPT !.start = times[1], !.stop = times[2]]
        BY <2>1
      <4>2. rows[i] = new
        BY <2>2, <4>1, RowTyped
      <4>3. QED
        BY <2>1, <4>2
    <3>2. QED
      BY <1>1, <2>3, <3>1, PutInSeq
  <2> HIDE DEF new, rows
  <2>5. QED
    BY <1>1, <1>5, <2>4, ChangeRowsOK DEF Type, rows
<1>6. ASSUME NEW check \in BOOLEAN, AnyTime(check) PROVE FormInv'
  <2> DEFINE gone == IF check THEN NumsToRemove ELSE {}
             first == IF check THEN Row(0, 0, EndOfDay) ELSE Row(0, Blank, Blank)
             rows == [form.rows EXCEPT ![1] = first]
             kept == {i \in DOMAIN rows : \/ rows[i].num \notin gone
                                          \/ \E j \in 1 .. i - 1 : rows[j].num = rows[i].num}
  <2>1. first \in FormRow
    BY <1>2 DEF Row, FormRow
  <2>2. rows \in Seq(FormRow)
    <3> HIDE DEF first
    <3>1. QED
      BY <1>1, <2>1, PutInSeq
  <2>3. Cardinality(gone) \in Nat
    <3>1. IsFiniteSet(1 .. form.nodes - 7)
      BY <1>1, FS_Interval
    <3>2. gone \subseteq 1 .. form.nodes - 7
      BY DEF NumsToRemove
    <3>3. IsFiniteSet(gone)
      BY <3>1, <3>2, FS_Subset
    <3>4. QED
      BY <3>3, FS_CardinalityType
  <2>4. ChangeRows(WithoutNums(gone, rows), form.nodes - Cardinality(gone))
    BY <1>6 DEF AnyTime
  <2>5. WithoutNums(gone, rows) = Filtered(rows, kept)
    BY DEF WithoutNums
  <2>6. kept \in SUBSET DOMAIN rows
    OBVIOUS
  <2> HIDE DEF gone, first, rows, kept
  <2>7. WithoutNums(gone, rows) \in Seq(FormRow)
    BY <2>2, <2>5, <2>6, FilteredOK
  <2>8. form.nodes - Cardinality(gone) \in Int
    BY <1>1, <2>3
  <2>9. QED
    BY <2>4, <2>7, <2>8, ChangeRowsOK
<1>7. QED
  BY <1>3, <1>4, <1>5, <1>6

\* What is submitted is saved as it was shown.
LEMMA SubmitOK == ASSUME FormInv, NEW id \in Policies, Submit(id) PROVE FormInv'
<1> DEFINE periods(nums) == [k \in DOMAIN nums |-> PeriodOf(form.rows, nums[k])]
<1>1. form \in AnyForm /\ Consistent(form.boxes) /\ form.rows \in Seq(FormRow)
  BY DEF FormInv, Submit, AnyForm
<1>2. PICK nums \in SetToSeqs(NumsRead(form.rows)) :
        saved' = Put(saved, id, [labels |-> Labels(form.boxes), periods |-> periods(nums)])
  BY DEF Submit
<1>3. shown' = Put(shown, id, [days |-> DaysShown, periods |-> PeriodsShown]) /\ form' = Closed
  BY DEF Submit
<1>4. DOMAIN nums = 1 .. Cardinality(NumsRead(form.rows))
      /\ \A k \in DOMAIN nums : nums[k] \in NumsRead(form.rows)
  BY <1>2 DEF SetToSeqs
<1>5. Cardinality(NumsRead(form.rows)) \in Nat
  <2>1. IsFiniteSet(1 .. Len(form.rows)) /\ Len(form.rows) \in Nat
    BY <1>1, FS_Interval
  <2>2. Range(form.rows) = {form.rows[i] : i \in 1 .. Len(form.rows)}
    BY <1>1 DEF Range
  <2>3. {r.num : r \in Range(form.rows)} = {form.rows[i].num : i \in 1 .. Len(form.rows)}
    BY <2>2
  <2> DEFINE Nums == {form.rows[i].num : i \in 1 .. Len(form.rows)}
             numOf == [i \in 1 .. Len(form.rows) |-> form.rows[i].num]
  <2>4. IsFiniteSet(Nums)
    <3>1. numOf \in Surjection(1 .. Len(form.rows), Nums)
      BY DEF Surjection
    <3>2. QED
      BY <2>1, <3>1, FS_Surjection
  <2>5. IsFiniteSet(NumsRead(form.rows))
    BY <2>3, <2>4, FS_Subset DEF NumsRead
  <2>6. QED
    BY <2>5, FS_CardinalityType
<1>6. ASSUME NEW n \in NumsRead(form.rows)
      PROVE  PeriodOf(form.rows, n) \in Periods /\ PeriodOf(form.rows, n) \in PeriodsShown
  <2>1. PICK i \in DOMAIN form.rows : PeriodOf(form.rows, n) = Filled(form.rows[i])
    BY <1>1, <1>6, PeriodRead
  <2>2. form.rows[i] \in FormRow /\ form.rows[i] \in Range(form.rows)
    BY <1>1 DEF Range
  <2>3. QED
    BY <2>1, <2>2, FilledType DEF PeriodsShown
<1>7. periods(nums) \in Seq(Periods) /\ Range(periods(nums)) \subseteq PeriodsShown
  <2> DEFINE ps == periods(nums)
             N == Cardinality(NumsRead(form.rows))
  <2>1. ps \in [1 .. N -> Periods] /\ \A k \in 1 .. N : ps[k] \in PeriodsShown
    BY <1>4, <1>6
  <2> HIDE DEF ps, N
  <2>2. Range(ps) \subseteq PeriodsShown
    BY <2>1 DEF Range
  <2>3. ps \in Seq(Periods)
    BY <2>1, <1>5 DEF N
  <2>4. QED
    BY <2>2, <2>3 DEF ps
<1>8. Labels(form.boxes) \in SUBSET Boxes /\ Meaning(Labels(form.boxes)) = DaysShown
      /\ DaysShown \subseteq Daily
  BY <1>1, LabelsMeanDays DEF Days, DaysShown
<1> DEFINE policy == [labels |-> Labels(form.boxes), periods |-> periods(nums)]
           seen == [days |-> DaysShown, periods |-> PeriodsShown]
<1>9. /\ policy \in SavedPolicy /\ Meaning(policy.labels) \subseteq Daily
      /\ Meaning(policy.labels) = seen.days /\ Range(policy.periods) \subseteq seen.periods
  BY <1>7, <1>8 DEF SavedPolicy
<1>10. saved' = Put(saved, id, policy) /\ shown' = Put(shown, id, seen)
  BY <1>2, <1>3
<1> HIDE DEF policy, seen
<1>11. DOMAIN saved' = DOMAIN saved \cup {id} /\ DOMAIN shown' = DOMAIN shown \cup {id}
       /\ (\A i \in DOMAIN saved' : saved'[i] = (IF i = id THEN policy ELSE saved[i]))
       /\ (\A i \in DOMAIN shown' : shown'[i] = (IF i = id THEN seen ELSE shown[i]))
  BY <1>10 DEF Put
<1>12. SavedAsShown'
  BY <1>9, <1>11 DEF FormInv, SavedAsShown
<1>13. form' \in AnyForm /\ ~form'.open
  BY <1>3 DEF Closed, AnyForm
<1>14. Opened'
  BY <1>13 DEF Opened
<1>15. QED
  BY <1>9, <1>11, <1>12, <1>13, <1>14 DEF FormInv

LEMMA DeleteOK == ASSUME FormInv, NEW id \in Policies, Delete(id) PROVE FormInv'
<1>1. DOMAIN saved' = DOMAIN saved \ {id} /\ DOMAIN shown' = DOMAIN shown \ {id}
      /\ (\A i \in DOMAIN saved' : saved'[i] = saved[i])
      /\ (\A i \in DOMAIN shown' : shown'[i] = shown[i])
  BY DEF Delete, Without
<1>2. form' = form /\ ~form.open
  BY DEF Delete
<1>3. SavedAsShown'
  BY <1>1 DEF FormInv, SavedAsShown
<1>4. QED
  BY <1>1, <1>2, <1>3 DEF FormInv, Opened

LEMMA OpenOK ==
  ASSUME FormInv, NEW id \in Policies \cup {NoPolicy}, NEW boxes \in SUBSET Boxes,
         NEW rows \in Seq(FormRow), Open(id, boxes, rows), Consistent(boxes),
         id # NoPolicy => /\ id \in DOMAIN saved
                          /\ boxes = WithGroups(Meaning(saved[id].labels))
                          /\ rows = RowsOf(saved[id].periods)
  PROVE  FormInv'
<1>1. form' = [open |-> TRUE, id |-> id, boxes |-> boxes, rows |-> rows,
               nodes |-> 3 + 2 * Len(rows), old |-> Len(rows), edits |-> 0]
  BY DEF Open
<1>2. Len(rows) \in Nat /\ 3 + 2 * Len(rows) \in Int
  OBVIOUS
<1>3. form' \in AnyForm /\ UNCHANGED << saved, shown >>
  BY <1>1, <1>2 DEF AnyForm, Open
<1>4. Opened'
  BY <1>1, <1>3 DEF Opened
<1>5. SavedAsShown'
  BY <1>3 DEF FormInv, SavedAsShown
<1>6. QED
  BY <1>1, <1>3, <1>4, <1>5 DEF FormInv

LEMMA OpensOK ==
  ASSUME FormInv
  PROVE  /\ OpenNew => FormInv'
         /\ \A id \in Policies : OpenEdit(id) => FormInv'
<1>1. ASSUME OpenNew PROVE FormInv'
  <2>1. Row(0, Blank, Blank) \in FormRow
    BY DEF Row, FormRow, Fields
  <2>2. << Row(0, Blank, Blank) >> \in Seq(FormRow)
    BY <2>1
  <2>3. {"Daily"} \in SUBSET Boxes /\ Consistent({"Daily"})
    BY DEF Boxes, Consistent
  <2>4. QED
    BY <1>1, <2>2, <2>3, OpenOK DEF OpenNew
<1>2. ASSUME NEW id \in Policies, OpenEdit(id) PROVE FormInv'
  <2> DEFINE days == Meaning(saved[id].labels)
             rows == RowsOf(saved[id].periods)
  <2>1. id \in DOMAIN saved /\ saved[id] \in SavedPolicy /\ days \subseteq Daily
    BY <1>2 DEF OpenEdit, FormInv
  <2>2. rows \in Seq(FormRow)
    BY <2>1, RowsOfType DEF SavedPolicy
  <2>3. Open(id, WithGroups(days), rows)
    BY <1>2 DEF OpenEdit, RowsOf
  <2>4. Consistent(WithGroups(days)) /\ WithGroups(days) \in SUBSET Boxes
    BY <2>1 DEF Consistent, WithGroups, GroupBoxes, Boxes
  <2> HIDE DEF days, rows
  <2>5. QED
    BY <2>1, <2>2, <2>3, <2>4, OpenOK DEF days, rows
<1>3. QED
  BY <1>1, <1>2

LEMMA FormStepOK == FormInv /\ [FormNext]_formVars => FormInv'
<1> SUFFICES ASSUME FormInv, [FormNext]_formVars PROVE FormInv'
  OBVIOUS
<1>1. CASE UNCHANGED formVars
  BY <1>1 DEF formVars, FormInv, SavedAsShown, Opened
<1>2. QED
  BY <1>1, OpensOK, SubmitOK, DeleteOK, ClickOK, RowEditsOK DEF FormNext

\* Unless a period crosses two others, each is kept where it comes first (getPolicy).
LEMMA KeptAll ==
  ASSUME NEW ps \in Seq(Periods), ~Crossing(Range(ps))
  PROVE  Range(Kept(ps)) = Range(ps)
<1> DEFINE kept == {k \in DOMAIN ps : ~ /\ \E j \in 1 .. k - 1 : ps[j].start = ps[k].start
                                        /\ \E j \in 1 .. k - 1 : ps[j].stop = ps[k].stop}
<1>1. kept \in SUBSET DOMAIN ps /\ Kept(ps) = Filtered(ps, kept)
  BY DEF Kept
<1>2. ASSUME NEW t \in Range(ps) PROVE \E k \in kept : ps[k] = t
  <2> DEFINE S == {k \in DOMAIN ps : ps[k] = t}
  <2>1. S \in SUBSET Nat /\ S # {}
    BY DEF Range
  <2>2. PICK k \in S : \A j \in S : k <= j
    BY <2>1, FirstPosition
  <2>3. \A j \in 1 .. k - 1 : j \in DOMAIN ps /\ ps[j] \in Range(ps) \ {t}
    <3>1. ASSUME NEW j \in 1 .. k - 1 PROVE j \in DOMAIN ps /\ j \notin S
      BY <2>1, <2>2
    <3>2. QED
      BY <3>1 DEF Range
  <2>4. ASSUME k \notin kept PROVE FALSE
    <3>1. /\ \E j \in 1 .. k - 1 : ps[j].start = t.start
          /\ \E j \in 1 .. k - 1 : ps[j].stop = t.stop
      BY <2>2, <2>4
    <3>2. /\ \E u \in Range(ps) \ {t} : u.start = t.start
          /\ \E u \in Range(ps) \ {t} : u.stop = t.stop
      BY <2>3, <3>1
    <3>3. QED
      BY <3>2 DEF Crossing
  <2>5. QED
    BY <2>2, <2>4
<1>3. kept \subseteq DOMAIN ps
  OBVIOUS
<1> HIDE DEF kept
<1>4. Range(Kept(ps)) = {ps[i] : i \in kept}
  BY <1>1, FilteredOK
<1>5. QED
  BY <1>2, <1>3, <1>4 DEF Range

\* The rows a policy is opened with are numbered from 0, and read as what they show.
LEMMA RowsReadBack ==
  ASSUME NEW ps \in Seq(Periods)
  PROVE  {PeriodOf(RowsOf(ps), n) : n \in NumsRead(RowsOf(ps))} = Range(Kept(ps))
<1> DEFINE rows == RowsOf(ps)
           kept == Kept(ps)
<1>1. kept \in Seq(Periods) /\ rows \in Seq(FormRow)
  BY KeptOK, RowsOfType
<1>2. DOMAIN rows = DOMAIN kept
      /\ \A i \in DOMAIN kept : rows[i] = Row(i - 1, kept[i].start, kept[i].stop)
  BY DEF RowsOf
<1> HIDE DEF rows, kept
<1>3. \A i \in DOMAIN kept : i \in Nat /\ i >= 1 /\ kept[i] \in Periods
  BY <1>1
<1>4. ASSUME NEW i \in DOMAIN kept PROVE rows[i].num = i - 1 /\ Filled(rows[i]) = kept[i]
  <2>1. kept[i].start # Blank /\ kept[i].stop # Blank
    BY <1>3, PolicyFormAssumption DEF Periods, Clock, Blank
  <2>2. kept[i] = [start |-> kept[i].start, stop |-> kept[i].stop]
    BY <1>3 DEF Periods
  <2>3. rows[i] = [num |-> i - 1, start |-> kept[i].start, stop |-> kept[i].stop]
    BY <1>2 DEF Row
  <2>4. QED
    BY <2>1, <2>2, <2>3 DEF Filled, Period
<1>5. ASSUME NEW n \in NumsRead(rows) PROVE PeriodOf(rows, n) \in Range(kept)
  <2>1. PICK i \in DOMAIN rows : PeriodOf(rows, n) = Filled(rows[i])
    BY <1>1, PeriodRead
  <2>2. QED
    BY <1>2, <1>4, <2>1 DEF Range
<1>6. ASSUME NEW i \in DOMAIN kept
      PROVE  i - 1 \in NumsRead(rows) /\ PeriodOf(rows, i - 1) = kept[i]
  <2>1. rows[i] \in Range(rows) /\ rows[i].num = i - 1 /\ i - 1 \in Nat
    BY <1>2, <1>3, <1>4 DEF Range
  <2>2. i - 1 \in NumsRead(rows)
    BY <2>1 DEF NumsRead
  <2>3. PICK k \in DOMAIN rows : rows[k].num = i - 1 /\ PeriodOf(rows, i - 1) = Filled(rows[k])
    BY <1>1, <2>2, PeriodRead
  <2>4. k - 1 = i - 1 /\ k \in Nat
    BY <1>2, <1>3, <1>4, <2>3
  <2>5. k = i
    BY <1>3, <2>4
  <2>6. QED
    BY <1>4, <2>2, <2>3, <2>5
<1>7. {PeriodOf(rows, n) : n \in NumsRead(rows)} = Range(kept)
  BY <1>5, <1>6 DEF Range
<1>8. QED
  BY <1>7 DEF rows, kept

LEMMA EditKeeps == FormInv => EditKeepsPolicy
<1> SUFFICES ASSUME FormInv, form.open, form.id # NoPolicy, form.edits = 0
             PROVE  LET policy == saved[form.id]
                    IN /\ Meaning(Labels(form.boxes)) = Meaning(policy.labels)
                       /\ Crossing(Range(policy.periods)) \/
                            {PeriodOf(form.rows, n) : n \in NumsRead(form.rows)}
                              = Range(policy.periods)
  BY DEF EditKeepsPolicy
<1> DEFINE policy == saved[form.id]
           days == Meaning(policy.labels)
<1>1. /\ policy \in SavedPolicy /\ days \subseteq Daily
      /\ form.boxes = WithGroups(days) /\ form.rows = RowsOf(policy.periods)
      /\ Consistent(form.boxes)
  BY DEF FormInv, Opened
<1> HIDE DEF policy, days
<1>2. Meaning(Labels(form.boxes)) = days
  <2>1. form.boxes \cap Daily = days /\ form.boxes # {"Daily"}
    BY <1>1 DEF WithGroups, GroupBoxes, DaysOf, Daily, Weekdays, Weekends
  <2>2. QED
    BY <1>1, <2>1, LabelsMeanDays DEF Days
<1>3. policy.periods \in Seq(Periods)
  BY <1>1 DEF SavedPolicy
<1>4. Crossing(Range(policy.periods)) \/
        {PeriodOf(form.rows, n) : n \in NumsRead(form.rows)} = Range(policy.periods)
  BY <1>1, <1>3, KeptAll, RowsReadBack
<1>5. QED
  BY <1>2, <1>4 DEF policy, days

-----------------------------------------------------------------------------
(* The list of filters *)

\* What a graph may be of: nothing yet, a date, or two compared.
Single(dates) == {<< d >> : d \in dates}
Pair == {<< p[1], p[2] >> : p \in DateSet \X DateSet}
Drawn == {<< >>} \cup Single(DateSet) \cup Pair

\* What a page asks the server for, and tells it about a host.
Selections == DateSet \cup Range(BarDates) \cup {"", NoDate}
Asked == [kind : {"dates", "bars"}, of : {<< >>}]
Logs == [kind : {"draw"}, of : Single(Selections) \cup Pair]
Posts == {m \in [kind : {"post"}, of : Single(Selections), field : NodeFields,
                 host : Hosts \cup {NoDate}, label : Hosts \cup {NoDate, ""}] :
            m.label \in {"", m.host}}
Requests == Asked \cup Logs \cup Posts

GraphTypes ==
  /\ page \in {"graph", "anomalies"} /\ listed \in BOOLEAN /\ overtaken \in BOOLEAN
  /\ selected \in Selections
  /\ graph \in [of : Drawn, hidden : SUBSET Links, texts : Seq(Hosts \cup {NoDate})]
  /\ Len(graph.texts) = Len(HostsShown(graph.of))
  /\ graph.hidden \subseteq Range(LinksShown(graph.of))
  /\ dialog \in [id : Nat, host : Hosts \cup {NoDate}]
  /\ network \in Seq(Requests)
  /\ failures \in Nat

Entries(of) == [option : Range(OptionsOf(of)), labelled : BOOLEAN]

FilterInv ==
  /\ options \in Drawn
  /\ graph.of # << >> => options = graph.of
  /\ checked \in Seq(Entries(options))

\* While the user still sees an earlier list, all of the new one is checked.
FreshInv == old # << >> => options # << >> /\ checked = AllChecked(options)

LEMMA RangeOfConcat ==
  ASSUME NEW S, NEW T, NEW s \in Seq(S), NEW t \in Seq(T)
  PROVE  Range(s \o t) = Range(s) \cup Range(t)
<1>1. /\ Len(s) \in Nat /\ Len(t) \in Nat /\ Len(s \o t) = Len(s) + Len(t)
      /\ DOMAIN s = 1 .. Len(s) /\ DOMAIN t = 1 .. Len(t)
      /\ DOMAIN (s \o t) = 1 .. Len(s) + Len(t)
      /\ \A i \in 1 .. Len(s) : (s \o t)[i] = s[i]
      /\ \A i \in 1 .. Len(t) : (s \o t)[Len(s) + i] = t[i]
  <2>1. s \in Seq(S \cup T) /\ t \in Seq(S \cup T)
    OBVIOUS
  <2>2. QED
    BY <2>1
<1> DEFINE u == s \o t
<1> HIDE DEF u
<1>2. ASSUME NEW x \in Range(u) PROVE x \in Range(s) \cup Range(t)
  <2>1. PICK i \in 1 .. Len(s) + Len(t) : u[i] = x
    BY <1>1 DEF Range, u
  <2>2. CASE i <= Len(s)
    BY <1>1, <2>1, <2>2 DEF Range, u
  <2>3. CASE i > Len(s)
    <3>1. i - Len(s) \in 1 .. Len(t) /\ i = Len(s) + (i - Len(s))
      BY <1>1, <2>1, <2>3
    <3>2. u[i] = t[i - Len(s)]
      BY <1>1, <3>1 DEF u
    <3>3. QED
      BY <1>1, <2>1, <3>1, <3>2 DEF Range
  <2>4. QED
    BY <1>1, <2>1, <2>2, <2>3
<1>3. ASSUME NEW x \in Range(s) \cup Range(t) PROVE x \in Range(u)
  <2>1. CASE x \in Range(s)
    <3>1. PICK i \in 1 .. Len(s) : s[i] = x
      BY <1>1, <2>1 DEF Range
    <3>2. i \in 1 .. Len(s) + Len(t) /\ u[i] = x
      BY <1>1, <3>1 DEF u
    <3>3. QED
      BY <1>1, <3>2 DEF Range, u
  <2>2. CASE x \in Range(t)
    <3>1. PICK i \in 1 .. Len(t) : t[i] = x
      BY <1>1, <2>2 DEF Range
    <3>2. Len(s) + i \in 1 .. Len(s) + Len(t) /\ u[Len(s) + i] = x
      BY <1>1, <3>1 DEF u
    <3>3. QED
      BY <1>1, <3>2 DEF Range, u
  <2>3. QED
    BY <1>3, <2>1, <2>2
<1>4. QED
  BY <1>1, <1>2, <1>3 DEF u

LEMMA DatesOK ==
  /\ Dates[1] \in DateSet /\ First \in DateSet
  /\ BarDates[Len(BarDates)] \in Range(BarDates)
  /\ NoDate \notin DateSet /\ "" \notin DateSet /\ NoDate # ""
<1>1. Dates \in Seq(STRING) /\ First \in DateSet /\ {NoDate, ""} \cap DateSet = {}
  BY GraphAssumption
<1>2. Len(Dates) \in Nat /\ DOMAIN Dates = 1 .. Len(Dates)
  <2>1. \A T : Dates \in Seq(T) => Len(Dates) \in Nat /\ DOMAIN Dates = 1 .. Len(Dates)
    OBVIOUS
  <2>2. QED
    BY <1>1, <2>1
<1>3. PICK i \in DOMAIN Dates : Dates[i] = First
  BY <1>1 DEF DateSet, Range
<1>4. 1 \in DOMAIN Dates
  BY <1>2, <1>3
<1>5. BarDates[Len(BarDates)] \in Range(BarDates)
  <2>1. BarDates \in Seq(STRING) /\ BarDates # << >>
    BY GraphAssumption
  <2>2. Len(BarDates) \in DOMAIN BarDates
    BY <2>1
  <2>3. QED
    BY <2>2 DEF Range
<1>6. QED
  BY <1>1, <1>4, <1>5 DEF DateSet, Range, NoDate

\* What is shown of the logs of some dates is in those logs, a comparison included.
LEMMA ShownOK ==
  ASSUME NEW T, NEW part, \A d \in DateSet : part[d] \in Seq(T), NEW of \in Drawn
  PROVE  Shown(part, of) \in Seq(T)
<1>1. CASE of = << >>
  BY <1>1 DEF Shown
<1>2. ASSUME NEW d \in DateSet, of = << d >> PROVE Shown(part, of) \in Seq(T)
  <2>1. of # << >> /\ Len(of) = 1 /\ of[1] = d
    BY <1>2
  <2>2. Shown(part, of) = part[d]
    BY <2>1 DEF Shown
  <2>3. QED
    BY <2>2
<1>3. ASSUME NEW d \in DateSet, NEW e \in DateSet, of = << d, e >>
      PROVE  Shown(part, of) \in Seq(T)
  <2> DEFINE new == {i \in DOMAIN part[e] : part[e][i] \notin Range(part[d])}
  <2>1. of # << >> /\ Len(of) # 1 /\ of[1] = d /\ of[2] = e
    BY <1>3
  <2>2. Shown(part, of) = part[d] \o Filtered(part[e], new)
    BY <2>1 DEF Shown
  <2>3. new \in SUBSET DOMAIN part[e] /\ part[d] \in Seq(T) /\ part[e] \in Seq(T)
    OBVIOUS
  <2> HIDE DEF new
  <2>4. Filtered(part[e], new) \in Seq(T)
    BY <2>3, FilteredOK
  <2>5. QED
    BY <2>2, <2>3, <2>4
<1>4. QED
  BY <1>1, <1>2, <1>3 DEF Drawn, Single, Pair

LEMMA HostsAndLinks ==
  ASSUME NEW of \in Drawn
  PROVE  HostsShown(of) \in Seq(Hosts) /\ LinksShown(of) \in Seq(Links)
<1>1. /\ \A d \in DateSet : HostsOf[d] \in Seq(Hosts)
      /\ \A d \in DateSet : LinksOf[d] \in Seq(Links)
  BY GraphAssumption
<1>2. HostsShown(of) \in Seq(Hosts)
  BY <1>1, ShownOK DEF HostsShown
<1>3. LinksShown(of) \in Seq(Links)
  BY <1>1, ShownOK DEF LinksShown
<1>4. QED
  BY <1>2, <1>3

LEMMA Alone == ASSUME NEW x PROVE << x >> \in Seq({x}) /\ Range(<< x >>) = {x}
<1>1. << x >> \in Seq({x}) /\ DOMAIN << x >> = {1} /\ << x >>[1] = x
  OBVIOUS
<1>2. QED
  BY <1>1 DEF Range

Named(kind, names) == [i \in DOMAIN names |-> << kind, names[i] >>]
AllNamed(kind, names) == {<< kind, x >> : x \in names}

LEMMA NamedOK ==
  ASSUME NEW T, NEW kind, NEW names \in Seq(T)
  PROVE  /\ Named(kind, names) \in Seq(AllNamed(kind, T))
         /\ Range(Named(kind, names)) = AllNamed(kind, Range(names))
<1>1. Len(names) \in Nat /\ DOMAIN names = 1 .. Len(names)
      /\ \A i \in DOMAIN names : names[i] \in T
  OBVIOUS
<1>2. Named(kind, names) \in [1 .. Len(names) -> AllNamed(kind, T)]
  BY <1>1 DEF Named, AllNamed
<1>3. Named(kind, names) \in Seq(AllNamed(kind, T))
  BY <1>1, <1>2
<1>4. Range(Named(kind, names)) = AllNamed(kind, Range(names))
  BY DEF Named, AllNamed, Range
<1>5. QED
  BY <1>3, <1>4

\* The protocols of the links shown, and no others (parse_json_col).
LEMMA ProtocolsOK ==
  ASSUME NEW of \in Drawn
  PROVE  /\ ProtocolsShown(of) \in Seq(STRING)
         /\ Range(ProtocolsShown(of)) = {l.protocol : l \in Range(LinksShown(of))}
<1> DEFINE kept == {i \in DOMAIN Protocols :
                      \E l \in Range(LinksShown(of)) : l.protocol = Protocols[i]}
<1>1. Protocols \in Seq(STRING)
  BY GraphAssumption
<1>2. ProtocolsShown(of) = Filtered(Protocols, kept) /\ kept \in SUBSET DOMAIN Protocols
  BY DEF ProtocolsShown
<1>3. ASSUME NEW l \in Range(LinksShown(of)) PROVE \E i \in kept : Protocols[i] = l.protocol
  <2>1. l \in Links
    BY HostsAndLinks DEF Range
  <2>2. PICK i \in DOMAIN Protocols : Protocols[i] = l.protocol
    BY <2>1 DEF Links, Range
  <2>3. QED
    BY <2>2
<1>4. \A i \in kept : \E l \in Range(LinksShown(of)) : Protocols[i] = l.protocol
  OBVIOUS
<1> HIDE DEF kept
<1>5. /\ Filtered(Protocols, kept) \in Seq(STRING)
      /\ Range(Filtered(Protocols, kept)) = {Protocols[i] : i \in kept}
  BY <1>1, <1>2, FilteredOK
<1>6. QED
  BY <1>2, <1>3, <1>4, <1>5

\* What the list of filters offers for a graph (updateGraphFilters).
LEMMA OptionsOffered ==
  ASSUME NEW of \in Drawn
  PROVE  Range(OptionsOf(of)) =
           AllNamed("labels", {""}) \cup AllNamed("nodes", Range(HostsShown(of)))
             \cup AllNamed("links", Range(LinksShown(of)))
             \cup AllNamed("protocols", {l.protocol : l \in Range(LinksShown(of))})
             \cup AllNamed("functions", Range(LinksShown(of)))
         /\ \E T : OptionsOf(of) \in Seq(T)
<1> DEFINE hosts == HostsShown(of)
           links == LinksShown(of)
           protocols == ProtocolsShown(of)
           a == Named("labels", << "" >>)
           b == Named("nodes", hosts)
           c == Named("links", links)
           d == Named("protocols", protocols)
           e == Named("functions", links)
<1>1. hosts \in Seq(Hosts) /\ links \in Seq(Links) /\ protocols \in Seq(STRING)
  BY HostsAndLinks, ProtocolsOK
<1>2. Range(protocols) = {l.protocol : l \in Range(links)}
  BY ProtocolsOK
<1>3. << "" >> \in Seq({""}) /\ Range(<< "" >>) = {""}
  BY Alone
<1>4. OptionsOf(of) = a \o b \o c \o d \o e
  BY DEF OptionsOf, Named
<1> HIDE DEF hosts, links, protocols
<1>5. /\ a \in Seq(AllNamed("labels", {""})) /\ Range(a) = AllNamed("labels", {""})
      /\ b \in Seq(AllNamed("nodes", Hosts)) /\ Range(b) = AllNamed("nodes", Range(hosts))
      /\ c \in Seq(AllNamed("links", Links)) /\ Range(c) = AllNamed("links", Range(links))
      /\ d \in Seq(AllNamed("protocols", STRING))
      /\ Range(d) = AllNamed("protocols", Range(protocols))
      /\ e \in Seq(AllNamed("functions", Links)) /\ Range(e) = AllNamed("functions", Range(links))
  BY <1>1, <1>3, NamedOK
<1> DEFINE A == AllNamed("labels", {""})
           B == AllNamed("nodes", Hosts)
           C == AllNamed("links", Links)
           D == AllNamed("protocols", STRING)
           E == AllNamed("functions", Links)
<1>6. a \in Seq(A) /\ b \in Seq(B) /\ c \in Seq(C) /\ d \in Seq(D) /\ e \in Seq(E)
  BY <1>5
<1> HIDE DEF a, b, c, d, e, A, B, C, D, E
<1> DEFINE ab == a \o b
           abc == ab \o c
           abcd == abc \o d
<1>7. ab \in Seq(A \cup B) /\ Range(ab) = Range(a) \cup Range(b)
  BY <1>6, RangeOfConcat
<1> HIDE DEF ab
<1>8. abc \in Seq(A \cup B \cup C) /\ Range(abc) = Range(ab) \cup Range(c)
  BY <1>6, <1>7, RangeOfConcat
<1> HIDE DEF abc
<1>9. abcd \in Seq(A \cup B \cup C \cup D) /\ Range(abcd) = Range(abc) \cup Range(d)
  BY <1>6, <1>8, RangeOfConcat
<1> HIDE DEF abcd
<1>10. /\ abcd \o e \in Seq(A \cup B \cup C \cup D \cup E)
       /\ Range(abcd \o e) = Range(abcd) \cup Range(e)
  BY <1>6, <1>9, RangeOfConcat
<1>11. QED
  <2>1. OptionsOf(of) = abcd \o e
    BY <1>4 DEF ab, abc, abcd
  <2>2. Range(OptionsOf(of)) = Range(a) \cup Range(b) \cup Range(c) \cup Range(d) \cup Range(e)
    BY <1>7, <1>8, <1>9, <1>10, <2>1
  <2>3. QED
    BY <1>2, <1>5, <1>10, <2>1, <2>2 DEF hosts, links, protocols

\* A function is offered with its protocol.
LEMMA ProtocolOffered ==
  ASSUME NEW of \in Drawn, NEW option \in Range(OptionsOf(of)), option[1] = "functions"
  PROVE  << "protocols", option[2].protocol >> \in Range(OptionsOf(of))
<1> DEFINE links == Range(LinksShown(of))
<1>1. Range(OptionsOf(of)) =
           AllNamed("labels", {""}) \cup AllNamed("nodes", Range(HostsShown(of)))
             \cup AllNamed("links", links)
             \cup AllNamed("protocols", {l.protocol : l \in links})
             \cup AllNamed("functions", links)
  BY OptionsOffered
<1>2. \A kind, names : \A x \in AllNamed(kind, names) : x[1] = kind
  BY DEF AllNamed
<1>3. option \in AllNamed("functions", links)
  <2>1. option \notin AllNamed("labels", {""})
    BY <1>2
  <2>2. /\ option \notin AllNamed("nodes", Range(HostsShown(of)))
        /\ option \notin AllNamed("links", links)
        /\ option \notin AllNamed("protocols", {l.protocol : l \in links})
    BY <1>2
  <2>3. QED
    BY <1>1, <2>1, <2>2
<1>4. PICK l \in links : option = << "functions", l >>
  BY <1>3 DEF AllNamed
<1>5. << "protocols", l.protocol >> \in AllNamed("protocols", {k.protocol : k \in links})
  BY DEF AllNamed
<1> HIDE DEF links
<1>6. option[2] = l
  BY <1>4
<1>7. QED
  BY <1>1, <1>5, <1>6

\* A label is unchecked where it comes first, and nothing is checked by it.
LEMMA FilterListOK ==
  ASSUME NEW T, NEW list \in Seq(T), NEW option
  PROVE  Unchecked(option, list) \in Seq(T) /\ Pruned(list, option) \in Seq(T)
<1> DEFINE a == {i \in DOMAIN list : \/ list[i].option # option
                                     \/ \E j \in 1 .. i - 1 : list[j].option = option}
           b == {i \in DOMAIN list :
                   i > Readable(list) \/ ~IsOf(list[i].option, option)}
<1>1. a \in SUBSET DOMAIN list /\ b \in SUBSET DOMAIN list
  OBVIOUS
<1>2. Unchecked(option, list) = Filtered(list, a) /\ Pruned(list, option) = Filtered(list, b)
  BY DEF Unchecked, Pruned
<1> HIDE DEF a, b
<1>3. Filtered(list, a) \in Seq(T) /\ Filtered(list, b) \in Seq(T)
  BY <1>1, FilteredOK
<1>4. QED
  BY <1>2, <1>3

\* A click in the list hides or shows links, and checks what is offered.
LEMMA FilterOK ==
  ASSUME GraphTypes, FilterInv, Filter
  PROVE  /\ FilterInv' /\ graph'.of = graph.of
         /\ graph' \in [of : Drawn, hidden : SUBSET Links, texts : Seq(Hosts \cup {NoDate})]
         /\ Len(graph'.texts) = Len(HostsShown(graph'.of))
         /\ graph'.hidden \subseteq Range(LinksShown(graph'.of))
<1> DEFINE offered == Range(OptionsOf(options))
           E == Entries(options)
           drawn == Range(LinksShown(graph.of))
<1>1. /\ graph \in [of : Drawn, hidden : SUBSET Links, texts : Seq(Hosts \cup {NoDate})]
      /\ options \in Drawn /\ checked \in Seq(E) /\ graph.of \in Drawn
      /\ Len(graph.texts) = Len(HostsShown(graph.of)) /\ graph.hidden \subseteq drawn
  BY DEF GraphTypes, FilterInv
<1>2. /\ \A option : Matching(option) \subseteq drawn
      /\ drawn \subseteq Links
  <2>1. drawn \subseteq Links
    BY <1>1, HostsAndLinks DEF Range
  <2>2. QED
    BY <2>1 DEF Matching
<1>3. ASSUME NEW S \in SUBSET drawn, graph' = [graph EXCEPT !.hidden = S],
             options' = options, checked' \in Seq(E)
      PROVE  /\ FilterInv' /\ graph'.of = graph.of
             /\ graph' \in [of : Drawn, hidden : SUBSET Links, texts : Seq(Hosts \cup {NoDate})]
             /\ Len(graph'.texts) = Len(HostsShown(graph'.of))
             /\ graph'.hidden \subseteq Range(LinksShown(graph'.of))
  <2>1. /\ graph'.of = graph.of /\ graph'.texts = graph.texts /\ graph'.hidden = S
        /\ graph' \in [of : Drawn, hidden : SUBSET Links, texts : Seq(Hosts \cup {NoDate})]
    <3>1. S \in SUBSET Links
      BY <1>2
    <3> HIDE DEF drawn
    <3>2. QED
      BY <1>1, <1>3, <3>1
  <2>2. FilterInv'
    BY <1>3, <2>1 DEF FilterInv, Entries
  <2>3. QED
    BY <1>1, <2>1, <2>2
<1>4. options' = options
  BY DEF Filter, Check, Uncheck, ClickAll, Clicked
<1>9. ASSUME NEW list \in Seq(E) PROVE Toggled(list) \in Seq(E)
  BY <1>1, <1>9 DEF Toggled
<1>5. ASSUME NEW option \in offered, SelectItem(option)
      PROVE  \E S \in SUBSET drawn : graph' = [graph EXCEPT !.hidden = S] /\ checked' \in Seq(E)
  <2> DEFINE new == [option |-> option, labelled |-> FALSE]
             list == Toggled(Append(checked, new))
             protocol == << "protocols", ProtocolOf(option) >>
             other == [option |-> protocol, labelled |-> TRUE]
  <2>1. new \in E
    BY DEF Entries
  <2>2. list \in Seq(E)
    <3> HIDE DEF new, E
    <3>1. Append(checked, new) \in Seq(E)
      BY <1>1, <2>1
    <3>2. QED
      BY <1>9, <3>1
  <2>3. ASSUME option[1] = "functions" PROVE other \in E
    <3>1. protocol \in offered
      BY <1>1, <2>3, ProtocolOffered DEF ProtocolOf
    <3>2. QED
      BY <3>1 DEF Entries
  <2>4. checked' = list \/ (option[1] = "functions" /\ checked' = Append(list, other))
    BY <1>5 DEF SelectItem
  <2> HIDE DEF new, list, other, E
  <2>5. checked' \in Seq(E)
    <3>1. CASE checked' = list
      BY <2>2, <3>1
    <3>2. CASE option[1] = "functions" /\ checked' = Append(list, other)
      BY <2>2, <2>3, <3>2
    <3>3. QED
      BY <2>4, <3>1, <3>2
  <2>6. graph' = [graph EXCEPT !.hidden = graph.hidden \ Matching(option)]
    BY <1>5 DEF SelectItem
  <2>7. graph.hidden \ Matching(option) \in SUBSET drawn
    BY <1>1
  <2>8. QED
    BY <2>5, <2>6, <2>7
<1>6. ASSUME NEW option \in offered, DeselectItem(option)
      PROVE  \E S \in SUBSET drawn : graph' = [graph EXCEPT !.hidden = S] /\ checked' \in Seq(E)
  <2> DEFINE list == Toggled(Unchecked(option, checked))
  <2>1. list \in Seq(E)
    <3>1. Unchecked(option, checked) \in Seq(E)
      BY <1>1, FilterListOK
    <3>2. QED
      BY <1>9, <3>1
  <2>2. checked' = list \/ checked' = Pruned(list, ProtocolOf(option))
    BY <1>6 DEF DeselectItem
  <2> HIDE DEF list, E
  <2>3. checked' \in Seq(E)
    BY <2>1, <2>2, FilterListOK
  <2>4. graph' = [graph EXCEPT !.hidden = graph.hidden \cup Matching(option)]
    BY <1>6 DEF DeselectItem
  <2>5. graph.hidden \cup Matching(option) \in SUBSET drawn
    BY <1>1, <1>2
  <2>6. QED
    BY <2>3, <2>4, <2>5
<1>7. ASSUME NEW check \in BOOLEAN, ClickAll(check)
      PROVE  \E S \in SUBSET drawn : graph' = [graph EXCEPT !.hidden = S] /\ checked' \in Seq(E)
  <2>1. CASE options = << >>
    <3>1. graph' = [graph EXCEPT !.hidden = graph.hidden]
      BY <1>1, <1>7, <2>1 DEF ClickAll
    <3>2. OnlyLabels \in E
      <4>1. << "labels", "" >> \in offered
        BY <1>1, OptionsOffered DEF AllNamed
      <4>2. QED
        BY <4>1 DEF OnlyLabels, Entries
    <3>3. checked' \in Seq(E)
      <4>1. checked' = << OnlyLabels >> \/ checked' = << >>
        BY <1>7, <2>1 DEF ClickAll
      <4> HIDE DEF E
      <4>2. << OnlyLabels >> \in Seq(E) /\ << >> \in Seq(E)
        BY <3>2
      <4>3. QED
        BY <4>1, <4>2
    <3>4. QED
      BY <1>1, <3>1, <3>3
  <2>2. CASE options # << >>
    <3> DEFINE m == Matching(<< "protocols", Head(ProtocolsShown(options)) >>)
    <3>1. graph' = [graph EXCEPT !.hidden = graph.hidden \cup m] /\ checked' = checked
      BY <1>7, <2>2 DEF ClickAll
    <3>2. graph.hidden \cup m \in SUBSET drawn
      BY <1>1, <1>2
    <3>3. QED
      BY <1>1, <3>1, <3>2
  <2>3. QED
    BY <2>1, <2>2
<1>10. ASSUME NEW id, Unknown(id)
       PROVE  \E S \in SUBSET drawn : graph' = [graph EXCEPT !.hidden = S] /\ checked' \in Seq(E)
  <2>1. graph' = [graph EXCEPT !.hidden = graph.hidden] /\ checked' = checked
    BY <1>1, <1>10 DEF Unknown
  <2>2. QED
    BY <1>1, <2>1
<1>11. ASSUME NEW id, Check(id) \/ Uncheck(id)
       PROVE  \E S \in SUBSET drawn : graph' = [graph EXCEPT !.hidden = S] /\ checked' \in Seq(E)
  <2>1. CASE Unknown(id)
    BY <1>10, <2>1
  <2>2. CASE ~Unknown(id)
    <3>1. PICK option \in offered : SelectItem(option) \/ DeselectItem(option)
      BY <1>11, <2>2 DEF Check, Uncheck, Range
    <3>2. QED
      BY <1>5, <1>6, <3>1
  <2>3. QED
    BY <2>1, <2>2
<1>8. QED
  <2>1. \E S \in SUBSET drawn : graph' = [graph EXCEPT !.hidden = S] /\ checked' \in Seq(E)
    BY <1>7, <1>11 DEF Filter
  <2>2. QED
    BY <1>3, <1>4, <2>1

-----------------------------------------------------------------------------
(* The page of graphs *)

\* What is stored of the hosts of the logs, about any host.
StoredInv == DOMAIN stored = DateSet /\ StoredForTheHost

\* The answers that draw, and the last of those awaited.
Drawing(m) == m.kind = "draw" /\ Brings(m.of) # << >>
IsLast(s, k) == Drawing(s[k]) /\ \A j \in DOMAIN s : Drawing(s[j]) => j <= k
Settled(of) == of # << >> /\ of[1] = selected

\* While no answer is lost or overtaken and what is selected can be drawn, the last
\* answer awaited that draws is of what is selected, and so is the graph when none is
\* awaited.
Settling ==
  failures = 0 /\ ~overtaken /\ selected \in Drawable =>
    /\ \A k \in DOMAIN network : IsLast(network, k) => Settled(network[k].of)
    /\ (\A k \in DOMAIN network : ~Drawing(network[k])) => Settled(graph.of)

SelectInv ==
  page = "graph" => /\ selected \in DateSet \cup {""}
                    /\ listed => selected \in DateSet

GraphInv == GraphTypes /\ FilterInv /\ FreshInv /\ StoredInv /\ SelectInv /\ Settling

LEMMA RemoveAtOK ==
  ASSUME NEW T, NEW s \in Seq(T), NEW k \in DOMAIN s
  PROVE  /\ RemoveAt(s, k) \in Seq(T)
         /\ DOMAIN RemoveAt(s, k) = 1 .. Len(s) - 1
         /\ \A j \in 1 .. Len(s) - 1 : RemoveAt(s, k)[j] = IF j < k THEN s[j] ELSE s[j + 1]
<1>1. k \in 1 .. Len(s) /\ Len(s) \in Nat
  OBVIOUS
<1> DEFINE a == SubSeq(s, 1, k - 1)
           b == SubSeq(s, k + 1, Len(s))
<1>2. a \in Seq(T) /\ Len(a) = k - 1 /\ \A j \in 1 .. k - 1 : a[j] = s[j]
  BY <1>1
<1>3. b \in Seq(T) /\ Len(b) = Len(s) - k /\ \A j \in 1 .. Len(s) - k : b[j] = s[k + j]
  BY <1>1
<1>4. RemoveAt(s, k) = a \o b
  BY DEF RemoveAt
<1> HIDE DEF a, b
<1>5. a \o b \in Seq(T) /\ Len(a \o b) = Len(s) - 1
  BY <1>1, <1>2, <1>3
<1>6. ASSUME NEW j \in 1 .. Len(s) - 1
      PROVE  (a \o b)[j] = IF j < k THEN s[j] ELSE s[j + 1]
  <2>1. CASE j < k
    BY <1>1, <1>2, <1>3, <2>1
  <2>2. CASE ~(j < k)
    <3>1. j - (k - 1) \in 1 .. Len(s) - k /\ k + (j - (k - 1)) = j + 1
      BY <1>1, <2>2
    <3>2. (a \o b)[j] = b[j - (k - 1)]
      BY <1>1, <1>2, <1>3, <2>2
    <3>3. b[j - (k - 1)] = s[k + (j - (k - 1))]
      BY <1>3, <3>1
    <3>4. QED
      BY <2>2, <3>1, <3>2, <3>3
  <2>3. QED
    BY <2>1, <2>2
<1>7. QED
  BY <1>4, <1>5, <1>6

\* What is left when a request is answered is as it was, in the order it was in.
LEMMA OthersKept ==
  ASSUME NEW T, NEW s \in Seq(T), NEW k \in DOMAIN s, NEW r, r = RemoveAt(s, k)
  PROVE  /\ \A i \in DOMAIN s \ {k} : \E j \in DOMAIN r : r[j] = s[i]
         /\ \A j \in DOMAIN r : \E i \in DOMAIN s \ {k} : r[j] = s[i]
         /\ \A j \in DOMAIN r : IsLast(r, j) =>
              \E i \in DOMAIN s \ {k} : /\ r[j] = s[i]
                                        /\ \A m \in DOMAIN s \ {k} : Drawing(s[m]) => m <= i
<1>1. /\ Len(s) \in Nat /\ DOMAIN s = 1 .. Len(s) /\ k \in 1 .. Len(s)
      /\ DOMAIN r = 1 .. Len(s) - 1
      /\ \A j \in 1 .. Len(s) - 1 : r[j] = IF j < k THEN s[j] ELSE s[j + 1]
  BY RemoveAtOK
<1> DEFINE was(j) == IF j < k THEN j ELSE j + 1
           is(i) == IF i < k THEN i ELSE i - 1
<1>2. ASSUME NEW j \in DOMAIN r PROVE was(j) \in DOMAIN s \ {k} /\ r[j] = s[was(j)]
  BY <1>1
<1>3. ASSUME NEW i \in DOMAIN s \ {k}
      PROVE  is(i) \in DOMAIN r /\ r[is(i)] = s[i] /\ was(is(i)) = i
  BY <1>1
<1>4. ASSUME NEW j \in DOMAIN r, NEW i \in DOMAIN s \ {k}, is(i) <= j PROVE i <= was(j)
  BY <1>1, <1>4
<1> HIDE DEF was, is
<1>5. ASSUME NEW j \in DOMAIN r, IsLast(r, j), NEW m \in DOMAIN s \ {k}, Drawing(s[m])
      PROVE  m <= was(j)
  <2>1. is(m) \in DOMAIN r /\ Drawing(r[is(m)])
    BY <1>3, <1>5
  <2>2. is(m) <= j
    BY <1>5, <2>1 DEF IsLast
  <2>3. QED
    BY <1>4, <2>2
<1>6. QED
  BY <1>2, <1>3, <1>5

LEMMA AppendOK ==
  ASSUME NEW T, NEW s \in Seq(T), NEW m \in T
  PROVE  /\ Append(s, m) \in Seq(T) /\ Len(s) \in Nat
         /\ DOMAIN s = 1 .. Len(s) /\ DOMAIN Append(s, m) = 1 .. Len(s) + 1
         /\ \A k \in 1 .. Len(s) : Append(s, m)[k] = s[k]
         /\ Append(s, m)[Len(s) + 1] = m
OBVIOUS

LEMMA RequestsOK ==
  /\ \A d \in Selections : LogOf(d) \in Requests /\ LogOf(d).kind = "draw" /\ LogOf(d).of = << d >>
  /\ \A d, e \in DateSet : /\ ComparisonOf(d, e) \in Requests
                           /\ ComparisonOf(d, e).kind = "draw"
                           /\ ComparisonOf(d, e).of = << d, e >> /\ << d, e >> \in Pair
  /\ \A m \in Requests : m \in Logs \/ m.kind # "draw"
  /\ \A m \in Requests : m \in Posts \/ m.kind # "post"
  /\ \A m \in Requests : m.kind \in {"dates", "bars", "draw", "post"}
<1>1. ASSUME NEW d \in Selections
      PROVE  LogOf(d) \in Requests /\ LogOf(d).kind = "draw" /\ LogOf(d).of = << d >>
  BY DEF LogOf, Requests, Logs, Single
<1>2. ASSUME NEW d \in DateSet, NEW e \in DateSet
      PROVE  /\ ComparisonOf(d, e) \in Requests /\ ComparisonOf(d, e).kind = "draw"
             /\ ComparisonOf(d, e).of = << d, e >> /\ << d, e >> \in Pair
  <2>1. << d, e >> \in Pair
    <3>1. << d, e >> \in DateSet \X DateSet /\ << d, e >>[1] = d /\ << d, e >>[2] = e
      OBVIOUS
    <3>2. QED
      BY <3>1 DEF Pair
  <2>2. QED
    BY <2>1 DEF ComparisonOf, Requests, Logs
<1>3. \A m \in Asked : m.kind \in {"dates", "bars"}
  BY DEF Asked
<1>4. \A m \in Logs : m.kind = "draw"
  BY DEF Logs
<1>5. \A m \in Posts : m.kind = "post"
  BY DEF Posts
<1>6. QED
  BY <1>1, <1>2, <1>3, <1>4, <1>5 DEF Requests

LEMMA PostOK ==
  ASSUME NEW field \in NodeFields, NEW date \in Selections,
         NEW host \in Hosts \cup {NoDate}, NEW label \in {"", host}
  PROVE  Post(field, date, host, label) \in Requests /\ Post(field, date, host, label).kind = "post"
<1> DEFINE m == Post(field, date, host, label)
<1>1. m \in [kind : {"post"}, of : Single(Selections), field : NodeFields,
             host : Hosts \cup {NoDate}, label : Hosts \cup {NoDate, ""}]
  BY DEF Post, Single
<1>2. m.label = label /\ m.host = host /\ m.kind = "post"
  BY DEF Post
<1> HIDE DEF m
<1>3. m \in Posts
  BY <1>1, <1>2 DEF Posts
<1>4. QED
  BY <1>2, <1>3 DEF Requests, m

\* A date alone, or two of the logs, is brought if all can be drawn.
LEMMA BroughtOK ==
  /\ \A d \in Drawable : Brings(<< d >>) = << d >> /\ << d >> # << >> /\ << d >>[1] = d
  /\ \A of : Brings(of) # << >> => Brings(of) = of \/ of = << "" >>
<1>1. ASSUME NEW d \in Drawable PROVE Brings(<< d >>) = << d >>
  <2>1. d \in DateSet /\ d # ""
    BY DatesOK DEF Drawable
  <2>2. << d >> # << "" >>
    <3>1. << d >>[1] = d /\ << "" >>[1] = ""
      OBVIOUS
    <3>2. QED
      BY <2>1, <3>1
  <2>3. Range(<< d >>) \subseteq Drawable
    BY Alone
  <2>4. QED
    BY <2>2, <2>3 DEF Brings
<1>2. \A of : Brings(of) # << >> => Brings(of) = of \/ of = << "" >>
  BY DEF Brings
<1>3. QED
  BY <1>1, <1>2

\* The request sent last is the last to draw, if what it asks for can be drawn.
LEMMA LastAsked ==
  ASSUME NEW others \in Seq(Requests), NEW m \in Requests, network' = Append(others, m),
         selected' \in Drawable => Drawing(m) /\ m.of # << >> /\ m.of[1] = selected'
  PROVE  network' \in Seq(Requests) /\ Settling'
<1> DEFINE n == Len(others) + 1
<1>1. /\ network' \in Seq(Requests) /\ n \in Nat /\ DOMAIN network' = 1 .. n
      /\ network'[n] = m
  BY AppendOK
<1>2. ASSUME selected' \in Drawable, NEW k \in DOMAIN network', IsLast(network', k)
      PROVE  network'[k] = m
  <2>1. n <= k
    BY <1>1, <1>2 DEF IsLast
  <2>2. k = n
    BY <1>1, <2>1
  <2>3. QED
    BY <1>1, <2>2
<1>3. selected' \in Drawable => \E k \in DOMAIN network' : Drawing(network'[k])
  BY <1>1
<1>4. Settling'
  <2> SUFFICES ASSUME selected' \in Drawable
               PROVE  /\ \A k \in DOMAIN network' : IsLast(network', k) =>
                           network'[k].of # << >> /\ network'[k].of[1] = selected'
                      /\ \E k \in DOMAIN network' : Drawing(network'[k])
    BY DEF Settling, Settled
  <2>1. QED
    BY <1>2, <1>3
<1>5. QED
  BY <1>1, <1>4

LEMMA ShowOK ==
  ASSUME NEW others \in Seq(Requests), NEW date \in Selections, Show(date, others)
  PROVE  selected' = date /\ network' \in Seq(Requests) /\ graph' = NoGraph /\ Settling'
<1>1. selected' = date /\ graph' = NoGraph /\ network' = Append(others, LogOf(date))
  BY DEF Show
<1>2. /\ LogOf(date) \in Requests /\ LogOf(date).kind = "draw"
      /\ LogOf(date).of = << date >>
  BY RequestsOK
<1> DEFINE m == LogOf(date)
<1>3. ASSUME date \in Drawable PROVE Drawing(m) /\ m.of # << >> /\ m.of[1] = date
  BY <1>2, <1>3, BroughtOK DEF Drawing
<1>4. m \in Requests /\ network' = Append(others, m)
  BY <1>1, <1>2
<1> HIDE DEF m
<1>5. network' \in Seq(Requests) /\ Settling'
  BY <1>1, <1>3, <1>4, LastAsked
<1>6. QED
  BY <1>1, <1>5

\* A request that will draw nothing, sent or not, changes nothing of what is awaited.
LEMMA PostedOK ==
  ASSUME GraphTypes, Settling,
         NEW m \in Requests, ~Drawing(m),
         network' = network \/ network' = Append(network, m),
         UNCHANGED << selected, failures, overtaken >>, graph'.of = graph.of
  PROVE  network' \in Seq(Requests) /\ Settling'
<1>1. network \in Seq(Requests)
  BY DEF GraphTypes
<1>2. CASE network' = network
  BY <1>1, <1>2 DEF Settling, Settled, IsLast
<1>3. CASE network' = Append(network, m)
  <2> DEFINE n == Len(network)
  <2>1. /\ network' \in Seq(Requests) /\ n \in Nat
        /\ DOMAIN network = 1 .. n /\ DOMAIN network' = 1 .. n + 1
        /\ \A k \in 1 .. n : network'[k] = network[k]
        /\ network'[n + 1] = m
    BY <1>1, <1>3, AppendOK
  <2>2. \A k \in DOMAIN network : k \in DOMAIN network' /\ network'[k] = network[k]
    BY <2>1
  <2>4. \A k \in DOMAIN network' : Drawing(network'[k]) =>
          k \in DOMAIN network /\ network'[k] = network[k]
    BY <2>1
  <2>5. Settling'
    <3>1. \A k \in DOMAIN network' : IsLast(network', k) =>
            k \in DOMAIN network /\ IsLast(network, k) /\ network'[k] = network[k]
      BY <2>2, <2>4 DEF IsLast
    <3>2. (\A k \in DOMAIN network' : ~Drawing(network'[k])) =>
            \A k \in DOMAIN network : ~Drawing(network[k])
      BY <2>2
    <3>3. QED
      BY <3>1, <3>2 DEF Settling, Settled
  <2>6. QED
    BY <2>1, <2>5
<1>4. QED
  BY <1>2, <1>3

\* Nor does an answer that draws nothing.
LEMMA AnsweredOK ==
  ASSUME GraphTypes, Settling, NEW k \in DOMAIN network,
         network' = RemoveAt(network, k), ~Drawing(network[k]),
         UNCHANGED << selected, failures, overtaken >>, graph'.of = graph.of
  PROVE  Settling'
<1>1. network \in Seq(Requests)
  BY DEF GraphTypes
<1>2. /\ \A i \in DOMAIN network \ {k} : \E j \in DOMAIN network' : network'[j] = network[i]
      /\ \A j \in DOMAIN network' : IsLast(network', j) =>
           \E i \in DOMAIN network \ {k} :
             /\ network'[j] = network[i]
             /\ \A m \in DOMAIN network \ {k} : Drawing(network[m]) => m <= i
  BY <1>1, OthersKept
<1>3. ASSUME NEW j \in DOMAIN network', IsLast(network', j)
      PROVE  \E i \in DOMAIN network : IsLast(network, i) /\ network'[j] = network[i]
  <2>1. PICK i \in DOMAIN network \ {k} :
          /\ network'[j] = network[i]
          /\ \A m \in DOMAIN network \ {k} : Drawing(network[m]) => m <= i
    BY <1>2, <1>3
  <2>2. QED
    BY <1>3, <2>1 DEF IsLast
<1>4. (\A j \in DOMAIN network' : ~Drawing(network'[j])) =>
        \A i \in DOMAIN network : ~Drawing(network[i])
  BY <1>2
<1>5. QED
  BY <1>3, <1>4 DEF Settling, Settled

\* A log that is drawn without overtaking another is that of the selection, if no other
\* that can be drawn is awaited.
LEMMA LogsOK ==
  ASSUME GraphInv, NEW k \in DOMAIN network, LogsArrive(k)
  PROVE  Settling'
<1> DEFINE of == network[k].of
<1>1. /\ network \in Seq(Requests) /\ network' = RemoveAt(network, k)
      /\ network[k].kind = "draw" /\ UNCHANGED << selected, failures >>
      /\ GraphTypes /\ Settling
  BY DEF GraphInv, GraphTypes, LogsArrive, counters
<1>2. CASE Brings(of) = << >>
  <2>1. ~Drawing(network[k]) /\ overtaken' = overtaken /\ graph' = graph
    BY <1>2 DEF LogsArrive, Drawing, view
  <2>2. QED
    BY <1>1, <2>1, AnsweredOK
<1>3. CASE Brings(of) # << >>
  <2>1. /\ \A i \in DOMAIN network \ {k} : \E j \in DOMAIN network' : network'[j] = network[i]
        /\ \A j \in DOMAIN network' : IsLast(network', j) =>
             \E i \in DOMAIN network \ {k} :
               /\ network'[j] = network[i]
               /\ \A m \in DOMAIN network \ {k} : Drawing(network[m]) => m <= i
    BY <1>1, OthersKept
  <2>2. DOMAIN network = 1 .. Len(network) /\ Len(network) \in Nat /\ k \in 1 .. Len(network)
    BY <1>1
  <2>3. /\ graph'.of = Brings(of)
        /\ overtaken' = (overtaken \/ \E j \in 1 .. k - 1 : network[j].kind = "draw")
    BY <1>3 DEF LogsArrive, Draw
  <2> SUFFICES ASSUME failures' = 0, ~overtaken', selected' \in Drawable
               PROVE  /\ \A j \in DOMAIN network' : IsLast(network', j) => Settled(network'[j].of)
                      /\ (\A j \in DOMAIN network' : ~Drawing(network'[j])) => Settled(Brings(of))
    BY <1>1, <2>3 DEF Settling, Settled
  <2>4. /\ failures = 0 /\ ~overtaken /\ selected \in Drawable
        /\ \A j \in 1 .. k - 1 : ~Drawing(network[j])
    BY <1>1, <2>3 DEF Drawing
  <2>5. \A i \in DOMAIN network : IsLast(network, i) => Settled(network[i].of)
    BY <1>1, <2>4 DEF Settling
  <2>6. ASSUME NEW j \in DOMAIN network', IsLast(network', j) PROVE Settled(network'[j].of)
    <3>1. PICK i \in DOMAIN network \ {k} :
            /\ network'[j] = network[i]
            /\ \A m \in DOMAIN network \ {k} : Drawing(network[m]) => m <= i
      BY <2>1, <2>6
    <3>2. Drawing(network[i])
      BY <2>6, <3>1 DEF IsLast
    <3>3. k < i
      BY <2>2, <2>4, <3>2
    <3>4. IsLast(network, i)
      BY <2>2, <3>1, <3>2, <3>3 DEF IsLast
    <3>5. QED
      BY <2>5, <3>1, <3>4
  <2>7. ASSUME \A j \in DOMAIN network' : ~Drawing(network'[j]) PROVE Settled(Brings(of))
    <3>1. Drawing(network[k])
      BY <1>1, <1>3 DEF Drawing
    <3>2. IsLast(network, k)
      BY <2>1, <2>2, <2>7, <3>1 DEF IsLast
    <3>3. Settled(of)
      BY <2>5, <3>2
    <3>4. of # << "" >>
      <4>1. selected # ""
        BY <2>4, DatesOK DEF Drawable
      <4>2. << "" >>[1] = ""
        OBVIOUS
      <4>3. QED
        BY <3>3, <4>1, <4>2 DEF Settled
    <3>5. QED
      BY <1>3, <3>3, <3>4, BroughtOK
  <2>8. QED
    BY <2>6, <2>7
<1>4. QED
  BY <1>2, <1>3

LEMMA NoGraphOK ==
  /\ NoGraph \in [of : Drawn, hidden : SUBSET Links, texts : Seq(Hosts \cup {NoDate})]
  /\ NoGraph.of = << >> /\ NoGraph.hidden = {}
  /\ Len(NoGraph.texts) = Len(HostsShown(NoGraph.of))
<1>1. HostsShown(<< >>) = << >>
  BY DEF HostsShown, Shown
<1>2. << >> \in Drawn
  BY DEF Drawn
<1>3. QED
  BY <1>1, <1>2 DEF NoGraph

LEMMA LabelsOffered ==
  ASSUME NEW of \in Drawn
  PROVE  OnlyLabels \in Entries(of) /\ << OnlyLabels >> \in Seq(Entries(of))
<1>1. << "labels", "" >> \in Range(OptionsOf(of))
  BY OptionsOffered DEF AllNamed
<1>2. OnlyLabels \in Entries(of)
  BY <1>1 DEF OnlyLabels, Entries
<1> HIDE DEF OnlyLabels, Entries
<1>3. QED
  BY <1>2

LEMMA TwoOf ==
  ASSUME NEW T, NEW x \in T, NEW y \in T, NEW s, s = << x, y >>
  PROVE  s \in Seq(T) /\ DOMAIN s = {1, 2} /\ s[1] = x /\ s[2] = y
OBVIOUS

LEMMA GraphInitOK == GraphInit => GraphInv
<1> SUFFICES ASSUME GraphInit PROVE GraphInv
  OBVIOUS
<1> USE DEF GraphInit
<1>1. << >> \in Drawn
  BY DEF Drawn
<1>2. FilterInv
  <2>1. checked \in Seq(Entries(options)) /\ options = << >>
    BY <1>1, LabelsOffered
  <2>2. QED
    BY <1>1, <2>1, NoGraphOK DEF FilterInv
<1>3. StoredInv
  <2>1. DOMAIN stored = DateSet
    OBVIOUS
  <2>2. \A d \in DateSet : \A hf \in DOMAIN stored[d] : stored[d][hf] = NoDate
    OBVIOUS
  <2>3. QED
    BY <2>1, <2>2 DEF StoredInv, StoredForTheHost
<1>4. SelectInv /\ FreshInv
  BY DatesOK DEF SelectInv, FreshInv
<1> DEFINE dates == Request("dates")
           bars == Request("bars")
<1>5. /\ dates \in Requests /\ bars \in Requests
      /\ dates.kind = "dates" /\ bars.kind = "bars"
  BY DEF Request, Requests, Asked
<1>6. \A d \in Selections : LogOf(d) \in Requests /\ LogOf(d).kind = "draw" /\ LogOf(d).of = << d >>
  BY RequestsOK
<1>7. selected \in Selections /\ selected \notin DateSet
  BY DatesOK DEF Selections
<1>8. network \in Seq(Requests)
  <2> DEFINE log == LogOf(selected)
  <2>1. log \in Requests
    BY <1>6, <1>7
  <2>2. network = << dates, log >> \/ network = << dates, bars >>
    OBVIOUS
  <2> HIDE DEF dates, bars, log, GraphInit
  <2>3. QED
    BY <1>5, <2>1, <2>2
<1> HIDE DEF dates, bars
<1>9. GraphTypes
  <2>1. dialog \in [id : Nat, host : Hosts \cup {NoDate}]
    BY DEF NoDialog
  <2>2. QED
    BY <1>7, <1>8, <2>1, NoGraphOK DEF GraphTypes
<1>10. Settling
  BY <1>7 DEF Settling, Drawable
<1>11. QED
  BY <1>2, <1>3, <1>4, <1>9, <1>10 DEF GraphInv

\* The steps by which the user picks a date, or the server's answers do.
LEMMA ShownStepOK ==
  ASSUME GraphInv, NEW others \in Seq(Requests), NEW date \in Selections, Show(date, others),
         page = "graph" => date \in DateSet, Digested,
         listed' \in BOOLEAN, UNCHANGED << page, options, checked, dialog, stored, overtaken >>,
         failures' \in Nat
  PROVE  GraphInv'
<1>1. selected' = date /\ network' \in Seq(Requests) /\ graph' = NoGraph /\ Settling'
  BY ShowOK
<1>2. GraphTypes'
  BY <1>1, NoGraphOK DEF GraphInv, GraphTypes
<1>3. FilterInv' /\ FreshInv'
  BY <1>1, NoGraphOK DEF GraphInv, FilterInv, Entries, FreshInv, Digested
<1>4. StoredInv'
  BY DEF GraphInv, StoredInv, StoredForTheHost
<1>5. SelectInv'
  BY <1>1 DEF SelectInv
<1>6. QED
  BY <1>1, <1>2, <1>3, <1>4, <1>5 DEF GraphInv

LEMMA PickOK == ASSUME GraphInv, NEW d, Pick(d) PROVE GraphInv'
<1>1. /\ network \in Seq(Requests) /\ Show(d, network) /\ listed' \in BOOLEAN /\ failures' \in Nat
      /\ UNCHANGED << page, options, checked, dialog, stored, overtaken >>
      /\ Digested /\ d \in Selections /\ (page = "graph" => d \in DateSet)
  BY DEF Pick, GraphInv, GraphTypes, Selections
<1>2. QED
  BY <1>1, ShownStepOK

LEMMA CompareOK == ASSUME GraphInv, NEW d \in DateSet, Compare(d) PROVE GraphInv'
<1> DEFINE m == ComparisonOf(selected, d)
<1>1. /\ selected \in DateSet /\ network \in Seq(Requests)
      /\ network' = Append(network, m) /\ Digested
      /\ UNCHANGED << page, selected, listed, graph, options, checked, dialog, stored,
                      failures, overtaken >>
  BY DEF Compare, GraphInv, GraphTypes, SelectInv
<1>2. m \in Requests /\ m.kind = "draw" /\ m.of = << selected, d >>
  BY <1>1, RequestsOK
<1>3. network' \in Seq(Requests) /\ Settling'
  <2> HIDE DEF m
  <2>1. CASE Brings(m.of) # << >>
    <3>1. Drawing(m) /\ m.of # << >> /\ m.of[1] = selected'
      BY <1>1, <1>2, <2>1 DEF Drawing
    <3>2. QED
      BY <1>1, <1>2, <3>1, LastAsked
  <2>2. CASE Brings(m.of) = << >>
    <3>1. ~Drawing(m)
      BY <2>2 DEF Drawing
    <3>2. GraphTypes /\ Settling /\ graph'.of = graph.of
      BY <1>1 DEF GraphInv
    <3>3. QED
      BY <1>1, <1>2, <3>1, <3>2, PostedOK
  <2>3. QED
    BY <2>1, <2>2
<1>7. GraphTypes'
  BY <1>1, <1>3 DEF GraphInv, GraphTypes
<1>8. FilterInv' /\ FreshInv' /\ StoredInv' /\ SelectInv'
  BY <1>1 DEF GraphInv, FilterInv, Entries, FreshInv, Digested, StoredInv, StoredForTheHost, SelectInv
<1>9. QED
  BY <1>3, <1>7, <1>8 DEF GraphInv

LEMMA FilterStepOK == ASSUME GraphInv, Filter PROVE GraphInv'
<1>1. GraphTypes /\ FilterInv
  BY DEF GraphInv
<1>2. /\ FilterInv' /\ graph'.of = graph.of
      /\ graph' \in [of : Drawn, hidden : SUBSET Links, texts : Seq(Hosts \cup {NoDate})]
      /\ Len(graph'.texts) = Len(HostsShown(graph'.of))
      /\ graph'.hidden \subseteq Range(LinksShown(graph'.of))
  BY <1>1, FilterOK
<1>3. UNCHANGED << page, selected, listed, options, dialog, network, stored, failures, overtaken >>
  BY DEF Filter, Check, Uncheck, ClickAll, Clicked
<1>4. GraphTypes'
  BY <1>1, <1>2, <1>3 DEF GraphTypes
<1>5. FreshInv' /\ StoredInv' /\ SelectInv'
  <2>1. Digested
    BY DEF Filter, Check, Uncheck, ClickAll, Clicked
  <2>2. QED
    BY <1>3, <2>1 DEF GraphInv, FreshInv, Digested, StoredInv, StoredForTheHost, SelectInv
<1>6. Settling'
  BY <1>2, <1>3 DEF GraphInv, Settling, Settled, IsLast
<1>7. QED
  BY <1>2, <1>4, <1>5, <1>6 DEF GraphInv

LEMMA OpenDialogOK == ASSUME GraphInv, NEW id \in Nat, OpenDialog(id) PROVE GraphInv'
<1>1. /\ graph.of \in Drawn /\ graph.texts \in Seq(Hosts \cup {NoDate})
      /\ Len(graph.texts) = Len(HostsShown(graph.of))
  BY DEF GraphInv, GraphTypes
<1>2. HostsShown(graph.of) \in Seq(Hosts)
  BY <1>1, HostsAndLinks
<1>3. id \in DOMAIN HostsShown(graph.of)
  <2>1. id \in DOMAIN graph.texts
    BY DEF OpenDialog
  <2>2. QED
    BY <1>1, <1>2, <2>1
<1>4. HostsShown(graph.of)[id] \in Hosts
  BY <1>2, <1>3
<1>5. /\ dialog' \in [id : Nat, host : Hosts \cup {NoDate}]
      /\ UNCHANGED << page, selected, listed, graph, options, checked, old, network, stored,
                      failures, overtaken >>
  BY <1>4 DEF OpenDialog, view
<1>6. GraphTypes'
  BY <1>5 DEF GraphInv, GraphTypes
<1>7. FilterInv' /\ FreshInv' /\ StoredInv' /\ SelectInv'
  BY <1>5 DEF GraphInv, FilterInv, Entries, FreshInv, StoredInv, StoredForTheHost, SelectInv
<1>8. Settling'
  BY <1>5 DEF GraphInv, Settling, Settled, IsLast
<1>9. QED
  BY <1>6, <1>7, <1>8 DEF GraphInv

\* A dialog that closes may have sent a message, and changed the text of a node.
LEMMA CloseOK ==
  ASSUME GraphInv, CloseDialog, NEW m \in Requests, m.kind = "post",
         network' = network \/ network' = Append(network, m),
         \/ graph' = graph
         \/ /\ dialog.id \in DOMAIN graph.texts
            /\ graph' = [graph EXCEPT !.texts[dialog.id] = dialog.host]
  PROVE  GraphInv'
<1>1. /\ GraphTypes /\ Settling /\ Digested
      /\ graph \in [of : Drawn, hidden : SUBSET Links, texts : Seq(Hosts \cup {NoDate})]
      /\ dialog.host \in Hosts \cup {NoDate}
      /\ UNCHANGED << page, selected, listed, options, checked, stored, failures, overtaken >>
      /\ dialog' \in [id : Nat, host : Hosts \cup {NoDate}]
  BY DEF GraphInv, GraphTypes, CloseDialog, counters, NoDialog
<1>2. /\ graph' \in [of : Drawn, hidden : SUBSET Links, texts : Seq(Hosts \cup {NoDate})]
      /\ graph'.of = graph.of /\ graph'.hidden = graph.hidden
      /\ Len(graph'.texts) = Len(graph.texts)
  <2>1. CASE graph' = graph
    BY <1>1, <2>1
  <2>2. CASE /\ dialog.id \in DOMAIN graph.texts
             /\ graph' = [graph EXCEPT !.texts[dialog.id] = dialog.host]
    <3> DEFINE t == [graph.texts EXCEPT ![dialog.id] = dialog.host]
    <3>1. t \in Seq(Hosts \cup {NoDate}) /\ Len(t) = Len(graph.texts)
      BY <1>1, <2>2, PutInSeq
    <3>2. graph' = [graph EXCEPT !.texts = t]
      BY <1>1, <2>2
    <3> HIDE DEF t
    <3>3. QED
      BY <1>1, <3>1, <3>2
  <2>3. QED
    BY <2>1, <2>2
<1>3. network' \in Seq(Requests) /\ Settling'
  <2>1. ~Drawing(m)
    BY DEF Drawing
  <2>2. QED
    BY <1>1, <1>2, <2>1, PostedOK
<1>4. GraphTypes'
  BY <1>1, <1>2, <1>3 DEF GraphTypes
<1>5. FilterInv' /\ FreshInv' /\ StoredInv' /\ SelectInv'
  BY <1>1, <1>2 DEF GraphInv, FilterInv, Entries, FreshInv, Digested, StoredInv, StoredForTheHost, SelectInv
<1>6. QED
  BY <1>3, <1>4, <1>5 DEF GraphInv

LEMMA DialogsOK ==
  ASSUME GraphInv,
         \/ \E label \in {dialog.host, "", NoDate} : Rename(label)
         \/ ChangeType \/ Cancel
  PROVE  GraphInv'
<1>1. /\ dialog.host \in Hosts \cup {NoDate} /\ selected \in Selections
      /\ "label" \in NodeFields /\ "node_type" \in NodeFields
  BY DEF GraphInv, GraphTypes, NodeFields
<1>2. ASSUME NEW label \in {dialog.host, "", NoDate}, Rename(label) PROVE GraphInv'
  <2> DEFINE m == Post("label", selected, HostMeant, label)
             n == Post("label", selected, HostMeant, "")
  <2>1. n \in Requests /\ n.kind = "post"
    BY <1>1, PostOK DEF HostMeant
  <2>2. label = NoDate \/ (m \in Requests /\ m.kind = "post")
    <3>1. label = NoDate \/ label \in {"", HostMeant}
      BY <1>2 DEF HostMeant
    <3>2. HostMeant \in Hosts \cup {NoDate}
      BY <1>1 DEF HostMeant
    <3>3. QED
      BY <1>1, <3>1, <3>2, PostOK
  <2>3. /\ CloseDialog
        /\ network' = IF label = NoDate THEN network ELSE Append(network, m)
        /\ \/ graph' = graph
           \/ /\ dialog.id \in DOMAIN graph.texts
              /\ graph' = [graph EXCEPT !.texts[dialog.id] = dialog.host]
    BY <1>2 DEF Rename
  <2> HIDE DEF m, n
  <2>4. CASE label = NoDate
    BY <2>1, <2>3, <2>4, CloseOK
  <2>5. CASE label # NoDate
    BY <2>2, <2>3, <2>5, CloseOK
  <2>6. QED
    BY <2>4, <2>5
<1>3. CASE ChangeType
  <2> DEFINE m == Post("node_type", selected, HostMeant, dialog.host)
  <2>1. m \in Requests /\ m.kind = "post"
    BY <1>1, PostOK DEF HostMeant
  <2>2. CloseDialog /\ network' = Append(network, m) /\ graph' = graph
    BY <1>3 DEF ChangeType
  <2> HIDE DEF m
  <2>3. QED
    BY <2>1, <2>2, CloseOK
<1>4. CASE Cancel
  <2> DEFINE m == Post("label", selected, HostMeant, "")
  <2>1. m \in Requests /\ m.kind = "post"
    BY <1>1, PostOK DEF HostMeant
  <2>2. CloseDialog /\ network' = network /\ graph' = graph
    BY <1>4 DEF Cancel
  <2> HIDE DEF m
  <2>3. QED
    BY <2>1, <2>2, CloseOK
<1>5. QED
  BY <1>2, <1>3, <1>4

LEMMA DatesArriveOK ==
  ASSUME GraphInv, NEW k \in DOMAIN network, DatesArrive(k)
  PROVE  GraphInv'
<1> DEFINE others == RemoveAt(network, k)
<1>1. /\ network \in Seq(Requests) /\ others \in Seq(Requests) /\ listed' \in BOOLEAN
      /\ UNCHANGED << page, options, checked, dialog, stored, failures, overtaken >>
      /\ failures' \in Nat /\ Dates[1] \in DateSet /\ Dates[1] \in Selections /\ Digested
  BY RemoveAtOK, DatesOK DEF GraphInv, GraphTypes, DatesArrive, counters, Selections
<1>2. CASE selected = ""
  <2>1. Show(Dates[1], others)
    BY <1>2 DEF DatesArrive
  <2> HIDE DEF others
  <2>2. QED
    BY <1>1, <2>1, ShownStepOK
<1>3. CASE selected # ""
  <2>1. /\ network' = others /\ selected' = selected /\ graph' = graph
        /\ network[k].kind = "dates" /\ (listed' => listed \/ page = "graph")
    BY <1>3 DEF DatesArrive
  <2>2. selected \in DateSet \/ page # "graph"
    BY <1>3 DEF GraphInv, SelectInv
  <2>4. Settling'
    <3>1. GraphTypes /\ Settling /\ ~Drawing(network[k])
      BY <2>1 DEF GraphInv, Drawing
    <3>2. network' = RemoveAt(network, k) /\ graph'.of = graph.of
      BY <2>1
    <3>3. QED
      BY <1>1, <2>1, <3>1, <3>2, AnsweredOK
  <2> HIDE DEF others
  <2>5. GraphTypes'
    BY <1>1, <2>1 DEF GraphInv, GraphTypes
  <2>6. FilterInv' /\ FreshInv' /\ StoredInv'
    BY <1>1, <2>1 DEF GraphInv, FilterInv, Entries, FreshInv, Digested, StoredInv, StoredForTheHost
  <2>7. SelectInv'
    BY <1>1, <1>3, <2>1, <2>2 DEF GraphInv, SelectInv
  <2>8. QED
    BY <2>4, <2>5, <2>6, <2>7 DEF GraphInv
<1>4. QED
  BY <1>2, <1>3

LEMMA BarsArriveOK ==
  ASSUME GraphInv, NEW k \in DOMAIN network, BarsArrive(k)
  PROVE  GraphInv'
<1> DEFINE others == RemoveAt(network, k)
           last == BarDates[Len(BarDates)]
<1>1. /\ others \in Seq(Requests) /\ listed' \in BOOLEAN /\ failures' \in Nat
      /\ last \in Selections /\ Show(last, others) /\ Digested
      /\ UNCHANGED << page, options, checked, dialog, stored, overtaken >>
  BY RemoveAtOK, DatesOK DEF GraphInv, GraphTypes, BarsArrive, counters, Selections
<1>2. page # "graph"
  BY DEF BarsArrive
<1> HIDE DEF others, last
<1>3. QED
  BY <1>1, <1>2, ShownStepOK

LEMMA BringsOK == ASSUME NEW of \in Single(Selections) \cup Pair PROVE Brings(of) \in Drawn
<1>1. First \in DateSet /\ Drawable \subseteq DateSet
  BY DatesOK DEF Drawable
<1>2. << First >> \in Drawn /\ << >> \in Drawn
  BY <1>1 DEF Drawn, Single
<1>3. ASSUME Range(of) \subseteq Drawable PROVE of \in Drawn
  <2>1. CASE of \in Single(Selections)
    <3>1. PICK d \in Selections : of = << d >>
      BY <2>1 DEF Single
    <3>2. d \in DateSet
      BY <1>1, <1>3, <3>1, Alone
    <3>3. QED
      BY <3>1, <3>2 DEF Drawn, Single
  <2>2. CASE of \in Pair
    BY <2>2 DEF Drawn
  <2>3. QED
    BY <2>1, <2>2
<1>4. QED
  BY <1>2, <1>3 DEF Brings

LEMMA LogsArriveOK ==
  ASSUME GraphInv, NEW k \in DOMAIN network, LogsArrive(k)
  PROVE  GraphInv'
<1> DEFINE of == Brings(network[k].of)
<1>1. /\ network \in Seq(Requests) /\ network' = RemoveAt(network, k)
      /\ network[k].kind = "draw"
      /\ UNCHANGED << page, selected, listed, dialog, stored, failures >>
  BY DEF GraphInv, GraphTypes, LogsArrive, counters
<1>2. network' \in Seq(Requests)
  BY <1>1, RemoveAtOK
<1>3. Settling'
  BY LogsOK
<1>4. StoredInv' /\ SelectInv'
  BY <1>1 DEF GraphInv, StoredInv, StoredForTheHost, SelectInv
<1>5. CASE of = << >>
  <2>1. UNCHANGED << graph, options, checked, old, overtaken >>
    BY <1>5 DEF LogsArrive, view
  <2>2. GraphTypes' /\ FilterInv' /\ FreshInv'
    BY <1>1, <1>2, <2>1 DEF GraphInv, GraphTypes, FilterInv, Entries, FreshInv
  <2>3. QED
    BY <1>3, <1>4, <2>2 DEF GraphInv
<1>6. CASE of # << >>
  <2>1. /\ graph' = [of |-> of, hidden |-> {}, texts |-> HostsShown(of)]
        /\ options' = of /\ checked' = AllChecked(of)
        /\ overtaken' = (overtaken \/ \E j \in 1 .. k - 1 : network[j].kind = "draw")
    BY <1>6 DEF LogsArrive, Draw
  <2>2. of \in Drawn
    <3>1. network[k] \in Logs
      BY <1>1, RequestsOK
    <3>2. QED
      BY <3>1, BringsOK DEF Logs
  <2> HIDE DEF of
  <2>3. HostsShown(of) \in Seq(Hosts) /\ HostsShown(of) \in Seq(Hosts \cup {NoDate})
    <3>1. HostsShown(of) \in Seq(Hosts)
      BY <2>2, HostsAndLinks
    <3>2. QED
      BY <3>1
  <2>4. /\ graph' \in [of : Drawn, hidden : SUBSET Links, texts : Seq(Hosts \cup {NoDate})]
        /\ graph'.of = of /\ graph'.hidden = {} /\ graph'.texts = HostsShown(of)
    BY <2>1, <2>2, <2>3
  <2>5. overtaken' \in BOOLEAN
    BY <2>1
  <2>6. GraphTypes'
    BY <1>1, <1>2, <2>4, <2>5 DEF GraphInv, GraphTypes
  <2>7. checked' \in Seq(Entries(of))
    <3> DEFINE all == OptionsOf(of)
    <3>1. PICK T : all \in Seq(T)
      BY <2>2, OptionsOffered
    <3>2. Len(all) \in Nat /\ DOMAIN all = 1 .. Len(all)
      BY <3>1
    <3>3. checked' = [i \in DOMAIN all |-> [option |-> all[i], labelled |-> TRUE]]
      BY <2>1 DEF AllChecked
    <3>4. \A i \in DOMAIN all : [option |-> all[i], labelled |-> TRUE] \in Entries(of)
      BY DEF Entries, Range
    <3> HIDE DEF all
    <3>5. checked' \in [1 .. Len(all) -> Entries(of)]
      BY <3>2, <3>3, <3>4
    <3>6. QED
      BY <3>2, <3>5
  <2>8. FilterInv'
    BY <2>1, <2>2, <2>4, <2>7 DEF FilterInv, Entries
  <2>9. FreshInv'
    <3>1. of # << >>
      BY <1>6
    <3>2. AllChecked(options') = AllChecked(of)
      BY <2>1
    <3>3. QED
      BY <2>1, <3>1, <3>2 DEF FreshInv
  <2>10. QED
    BY <1>3, <1>4, <2>6, <2>8, <2>9 DEF GraphInv
<1>7. QED
  BY <1>5, <1>6

LEMMA PostArrivesOK ==
  ASSUME GraphInv, NEW k \in DOMAIN network, PostArrives(k)
  PROVE  GraphInv'
<1> DEFINE m == network[k]
           d == m.of[1]
           hf == << m.host, m.field >>
<1>1. /\ network \in Seq(Requests) /\ network' = RemoveAt(network, k)
      /\ m.kind = "post" /\ Digested
      /\ UNCHANGED << page, selected, listed, graph, options, checked, dialog, failures, overtaken >>
  BY DEF GraphInv, GraphTypes, PostArrives, counters, view
<1>2. network' \in Seq(Requests)
  BY <1>1, RemoveAtOK
<1>3. m.label \in {"", m.host}
  <2>1. m \in Posts
    BY <1>1, RequestsOK
  <2>2. QED
    BY <2>1 DEF Posts
<1>4. Settling'
  <2>1. GraphTypes /\ Settling /\ ~Drawing(m) /\ graph'.of = graph.of
    BY <1>1 DEF GraphInv, Drawing
  <2>2. QED
    BY <1>1, <2>1, AnsweredOK
<1>5. StoredInv'
  <2>1. StoredInv
    BY DEF GraphInv
  <2>2. \/ stored' = stored
        \/ /\ d \in DateSet /\ hf \in DOMAIN stored[d]
           /\ stored' = [stored EXCEPT ![d][hf] = m.label]
    BY DEF PostArrives
  <2>3. CASE stored' = stored
    BY <2>1, <2>3 DEF StoredInv, StoredForTheHost
  <2>4. CASE /\ d \in DateSet /\ hf \in DOMAIN stored[d]
             /\ stored' = [stored EXCEPT ![d][hf] = m.label]
    <3>1. hf[1] = m.host
      OBVIOUS
    <3> HIDE DEF m, d, hf
    <3>2. DOMAIN stored' = DateSet
      BY <2>1, <2>4 DEF StoredInv
    <3>3. \A e \in DateSet : DOMAIN stored'[e] = DOMAIN stored[e]
      BY <2>1, <2>4 DEF StoredInv
    <3>4. \A e \in DateSet : \A g \in DOMAIN stored[e] :
            stored'[e][g] = IF e = d /\ g = hf THEN m.label ELSE stored[e][g]
      BY <2>1, <2>4 DEF StoredInv
    <3>5. \A e \in DateSet : \A g \in DOMAIN stored[e] : stored[e][g] \in {NoDate, "", g[1]}
      BY <2>1 DEF StoredInv, StoredForTheHost
    <3>6. \A e \in DateSet : \A g \in DOMAIN stored'[e] : stored'[e][g] \in {NoDate, "", g[1]}
      BY <1>3, <3>1, <3>3, <3>4, <3>5
    <3>7. QED
      BY <3>2, <3>6 DEF StoredInv, StoredForTheHost
  <2>5. QED
    BY <2>2, <2>3, <2>4
<1> HIDE DEF m
<1>6. GraphTypes'
  BY <1>1, <1>2 DEF GraphInv, GraphTypes
<1>7. FilterInv' /\ FreshInv' /\ SelectInv'
  BY <1>1 DEF GraphInv, FilterInv, Entries, FreshInv, Digested, SelectInv
<1>8. QED
  BY <1>4, <1>5, <1>6, <1>7 DEF GraphInv

LEMMA FailOK == ASSUME GraphInv, NEW k \in DOMAIN network, Fail(k) PROVE GraphInv'
<1>1. /\ network \in Seq(Requests) /\ network' = RemoveAt(network, k)
      /\ failures \in Nat /\ failures' = failures + 1
      /\ UNCHANGED << page, selected, listed, graph, options, checked, old, dialog, stored,
                      overtaken >>
  BY DEF GraphInv, GraphTypes, Fail, view
<1>2. network' \in Seq(Requests)
  BY <1>1, RemoveAtOK
<1>3. failures' \in Nat /\ failures' # 0
  BY <1>1
<1>4. Settling'
  BY <1>3 DEF Settling
<1>5. GraphTypes'
  BY <1>1, <1>2, <1>3 DEF GraphInv, GraphTypes
<1>6. FilterInv' /\ FreshInv' /\ StoredInv' /\ SelectInv'
  BY <1>1 DEF GraphInv, FilterInv, Entries, FreshInv, StoredInv, StoredForTheHost, SelectInv
<1>7. QED
  BY <1>4, <1>5, <1>6 DEF GraphInv

LEMMA GraphStillOK == ASSUME GraphInv, UNCHANGED graphVars PROVE GraphInv'
<1>1. UNCHANGED << page, selected, listed, graph, options, checked, old, dialog, network,
                   stored, failures, overtaken >>
  BY DEF graphVars
<1>2. GraphTypes'
  BY <1>1 DEF GraphInv, GraphTypes
<1>3. FilterInv' /\ FreshInv' /\ StoredInv' /\ SelectInv'
  BY <1>1 DEF GraphInv, FilterInv, Entries, FreshInv, StoredInv, StoredForTheHost, SelectInv
<1>4. Settling'
  BY <1>1 DEF GraphInv, Settling, Settled, IsLast
<1>5. QED
  BY <1>2, <1>3, <1>4 DEF GraphInv

LEMMA DigestOK == ASSUME GraphInv, Digest PROVE GraphInv'
<1>1. /\ UNCHANGED << page, selected, listed, graph, options, checked, dialog, network,
                      stored, failures, overtaken >>
      /\ Digested
  BY DEF Digest, counters
<1>2. GraphTypes'
  BY <1>1 DEF GraphInv, GraphTypes
<1>3. FilterInv' /\ FreshInv' /\ StoredInv' /\ SelectInv'
  BY <1>1 DEF GraphInv, FilterInv, Entries, FreshInv, Digested, StoredInv, StoredForTheHost, SelectInv
<1>4. Settling'
  BY <1>1 DEF GraphInv, Settling, Settled, IsLast
<1>5. QED
  BY <1>2, <1>3, <1>4 DEF GraphInv

LEMMA GraphStepOK == GraphInv /\ [GraphNext]_graphVars => GraphInv'
<1> SUFFICES ASSUME GraphInv, [GraphNext]_graphVars PROVE GraphInv'
  OBVIOUS
<1>1. CASE \/ \E d \in DateSet \cup Range(BarDates) : Pick(d)
           \/ \E d \in DateSet : Compare(d)
  BY <1>1, PickOK, CompareOK
<1>2. CASE Filter \/ Digest
  BY <1>2, FilterStepOK, DigestOK
<1>3. ASSUME NEW id \in 1 .. Cardinality(Hosts), OpenDialog(id) PROVE GraphInv'
  <2>1. id \in Nat
    <3>1. id \in DOMAIN graph.texts
      BY <1>3 DEF OpenDialog
    <3>2. graph.texts \in Seq(Hosts \cup {NoDate})
      BY DEF GraphInv, GraphTypes
    <3>3. QED
      BY <3>1, <3>2
  <2>2. QED
    BY <1>3, <2>1, OpenDialogOK
<1>4. CASE \/ \E label \in {dialog.host, "", NoDate} : Rename(label)
           \/ ChangeType \/ Cancel
  BY <1>4, DialogsOK
<1>5. ASSUME NEW k \in DOMAIN network,
             DatesArrive(k) \/ BarsArrive(k) \/ LogsArrive(k) \/ PostArrives(k) \/ Fail(k)
      PROVE  GraphInv'
  BY <1>5, DatesArriveOK, BarsArriveOK, LogsArriveOK, PostArrivesOK, FailOK
<1>6. CASE UNCHANGED graphVars
  BY <1>6, GraphStillOK
<1>7. QED
  BY <1>1, <1>2, <1>3, <1>4, <1>5, <1>6 DEF GraphNext

LEMMA Settles == GraphInv => SettledShowsSelected
<1> SUFFICES ASSUME GraphInv, AllAnswered, failures = 0, ~overtaken, selected \in Drawable
             PROVE  graph.of # << >> /\ graph.of[1] = selected
  BY DEF SettledShowsSelected
<1>1. \A k \in DOMAIN network : ~Drawing(network[k])
  BY DEF AllAnswered, Drawing
<1>2. QED
  BY <1>1 DEF GraphInv, Settling, Settled

\* The first part of FilterFitsGraph.
ListFits ==
  /\ graph.of # << >> => options = graph.of
  /\ {e.option : e \in Range(checked)} \subseteq Range(OptionsOf(options))

LEMMA FiltersFit == GraphInv => ListFits
<1> SUFFICES ASSUME GraphInv PROVE ListFits
  OBVIOUS
<1>1. (graph.of # << >> => options = graph.of) /\ checked \in Seq(Entries(options))
  BY DEF GraphInv, FilterInv
<1>2. ASSUME NEW e \in Range(checked) PROVE e.option \in Range(OptionsOf(options))
  <2>1. e \in Entries(options)
    BY <1>1, <1>2 DEF Range
  <2>2. QED
    BY <2>1 DEF Entries
<1>3. QED
  BY <1>1, <1>2 DEF ListFits

\* In a list of which all is checked, with labels, a function has its protocol's label
\* and is itself one of the protocol's.
LEMMA AllCheckedOK ==
  ASSUME NEW of \in Drawn, NEW list, list = AllChecked(of),
         NEW option \in Range(OptionsOf(of)), option[1] = "functions"
  PROVE  /\ IsLabelled(<< "protocols", ProtocolOf(option) >>, list)
         /\ \E k \in DOMAIN list : /\ list[k].labelled /\ list[k].option[1] = "functions"
                                   /\ IsOf(list[k].option, ProtocolOf(option))
<1> DEFINE all == OptionsOf(of)
<1>1. /\ DOMAIN list = DOMAIN all
      /\ \A i \in DOMAIN all : list[i].option = all[i] /\ list[i].labelled
  BY DEF AllChecked
<1>2. << "protocols", ProtocolOf(option) >> \in Range(all)
  BY ProtocolOffered DEF ProtocolOf
<1> HIDE DEF all
<1>3. PICK i \in DOMAIN all : all[i] = << "protocols", ProtocolOf(option) >>
  BY <1>2 DEF Range
<1>4. IsLabelled(<< "protocols", ProtocolOf(option) >>, list)
  BY <1>1, <1>3 DEF IsLabelled
<1>5. PICK k \in DOMAIN all : all[k] = option
  BY DEF Range, all
<1>6. IsOf(option, ProtocolOf(option))
  BY DEF IsOf
<1>7. QED
  BY <1>1, <1>4, <1>5, <1>6

\* The second part: all of the new list is checked, with labels, so that a handler
\* finds nothing to add and nothing to remove.
LEMMA OldClickOK ==
  ASSUME GraphInv, old # << >>, clicks' # clicks, [GraphNext]_graphVars
  PROVE  checked' = checked
<1>1. options \in Drawn /\ options # << >> /\ checked = AllChecked(options)
  BY DEF GraphInv, FilterInv, FreshInv
<1>2. \A list : Toggled(list) = checked
  BY DEF Toggled
<1>3. ASSUME NEW option \in Range(OptionsOf(options)), SelectItem(option)
      PROVE  checked' = checked
  <2>1. CASE option[1] = "functions"
    <3>1. IsLabelled(<< "protocols", ProtocolOf(option) >>, checked)
      BY <1>1, <2>1, AllCheckedOK
    <3>2. QED
      BY <1>2, <1>3, <3>1 DEF SelectItem
  <2>2. CASE option[1] # "functions"
    BY <1>2, <1>3, <2>2 DEF SelectItem
  <2>3. QED
    BY <2>1, <2>2
<1>4. ASSUME NEW option \in Range(OptionsOf(options)), DeselectItem(option)
      PROVE  checked' = checked
  <2>1. CASE option[1] = "functions"
    <3>1. \E k \in DOMAIN checked : /\ checked[k].labelled /\ checked[k].option[1] = "functions"
                                    /\ IsOf(checked[k].option, ProtocolOf(option))
      BY <1>1, <2>1, AllCheckedOK
    <3>2. QED
      BY <1>2, <1>4, <3>1 DEF DeselectItem
  <2>2. CASE option[1] # "functions"
    BY <1>2, <1>4, <2>2 DEF DeselectItem
  <2>3. QED
    BY <2>1, <2>2
<1>5. ASSUME NEW id, Check(id) \/ Uncheck(id) PROVE checked' = checked
  <2>1. CASE Unknown(id)
    BY <2>1 DEF Unknown
  <2>2. CASE ~Unknown(id)
    <3>1. PICK option \in Range(OptionsOf(options)) : SelectItem(option) \/ DeselectItem(option)
      BY <1>5, <2>2 DEF Check, Uncheck, Range
    <3>2. QED
      BY <1>3, <1>4, <3>1
  <2>3. QED
    BY <2>1, <2>2
<1>6. ASSUME NEW check \in BOOLEAN, ClickAll(check) PROVE checked' = checked
  BY <1>1, <1>6 DEF ClickAll
<1>7. CASE Filter
  BY <1>5, <1>6, <1>7 DEF Filter
<1>8. ASSUME ~Filter, GraphNext PROVE FALSE
  <2>1. ASSUME NEW d, Pick(d) \/ Compare(d) PROVE FALSE
    BY <2>1 DEF Pick, Compare
  <2>2. ASSUME NEW id, OpenDialog(id) PROVE FALSE
    BY <2>2 DEF OpenDialog
  <2>3. ASSUME Digest \/ (\E label : Rename(label)) \/ ChangeType \/ Cancel PROVE FALSE
    BY <2>3 DEF Digest, Rename, ChangeType, Cancel, CloseDialog, counters
  <2>4. ASSUME NEW k, DatesArrive(k) \/ BarsArrive(k) \/ LogsArrive(k) \/ PostArrives(k) \/ Fail(k)
        PROVE  FALSE
    BY <2>4 DEF DatesArrive, BarsArrive, LogsArrive, PostArrives, Fail, counters
  <2>5. QED
    BY <1>8, <2>1, <2>2, <2>3, <2>4 DEF GraphNext
<1>9. QED
  BY <1>7, <1>8 DEF graphVars

-----------------------------------------------------------------------------
(* Both pages *)

LEMMA GraphTyped == GraphInv => GraphTypeOK
<1> SUFFICES ASSUME GraphInv PROVE GraphTypeOK
  OBVIOUS
<1>1. GraphTypes /\ FilterInv
  BY DEF GraphInv
<1>2. \A of \in Drawn : of \in Seq(DateSet)
  <2>1. << >> \in Seq(DateSet)
    OBVIOUS
  <2>2. \A d \in DateSet : << d >> \in Seq(DateSet)
    OBVIOUS
  <2>3. \A d, e \in DateSet : << d, e >> \in Seq(DateSet)
    OBVIOUS
  <2>4. QED
    BY <2>1, <2>2, <2>3 DEF Drawn, Single, Pair
<1>3. graph.of \in Seq(DateSet) /\ options \in Seq(DateSet)
  BY <1>1, <1>2 DEF GraphTypes, FilterInv
<1>4. \A k \in DOMAIN network : network[k].kind \in {"dates", "bars", "draw", "post"}
  <2>1. \A k \in DOMAIN network : network[k] \in Requests
    BY <1>1 DEF GraphTypes
  <2>2. QED
    BY <2>1, RequestsOK
<1>5. QED
  BY <1>1, <1>3, <1>4 DEF GraphTypes, GraphTypeOK, Selections

LEMMA Invariant == Spec => [](FormInv /\ GraphInv)
<1>1. Init => FormInv /\ GraphInv
  BY FormInitOK, GraphInitOK DEF Init
<1>2. (FormInv /\ GraphInv) /\ [Next]_vars => (FormInv /\ GraphInv)'
  <2>1. [Next]_vars => [FormNext]_formVars /\ [GraphNext]_graphVars
    BY DEF Next, vars
  <2>2. QED
    BY <2>1, FormStepOK, GraphStepOK
<1>3. QED
  BY <1>1, <1>2, PTL DEF Spec

\* What the server stores of a policy is what its form held when it was submitted,
\* whatever was clicked, typed and removed before (updatePolicyConfig).
THEOREM SavedAsShownCorrect == Spec => []SavedAsShown
<1>1. FormInv => SavedAsShown
  BY DEF FormInv
<1>2. QED
  BY <1>1, Invariant, PTL

\* A policy opened to be edited, and submitted as it is, stays the policy it was, if no
\* period of it crosses two others (getPolicy, updatePolicyConfig).
THEOREM EditKeepsPolicyCorrect == Spec => []EditKeepsPolicy
BY EditKeeps, Invariant, PTL

\* The page's state has its types; every node drawn has a text and only links that are
\* drawn are hidden (drawGraph, graphRenameNode, filterLinks).
THEOREM GraphTypeCorrect == Spec => []GraphTypeOK
BY GraphTyped, Invariant, PTL

\* With every answer arrived, none lost and none overtaken, a selected date whose log
\* can be drawn is what the graph is of, alone or compared with another (drawGraph,
\* CollectionController).
THEOREM SettledShowsSelectedCorrect == Spec => []SettledShowsSelected
BY Settles, Invariant, PTL

\* The page's list of filters is that of the graph drawn and checks only what it offers,
\* and a click in the list from before leaves it as it is (updateGraphFilters,
\* filterSelectItem, filterDeselectItem).
THEOREM FilterFitsGraphCorrect == Spec => FilterFitsGraph
<1> DEFINE Unmoved == old # << >> /\ clicks' # clicks => checked' = checked
<1>1. GraphInv /\ [Next]_vars => [Unmoved]_graphVars
  <2>1. [Next]_vars => [GraphNext]_graphVars
    BY DEF Next, vars
  <2>2. QED
    BY <2>1, OldClickOK
<1>2. Spec => [][Unmoved]_graphVars
  BY <1>1, Invariant, PTL DEF Spec
<1>3. Spec => []ListFits
  BY FiltersFit, Invariant, PTL
<1>4. QED
  BY <1>2, <1>3, PTL DEF FilterFitsGraph, ListFits

\* What is stored about a host was typed for that host (graphRenameNode, updateNode).
THEOREM StoredForTheHostCorrect == Spec => []StoredForTheHost
<1>1. GraphInv => StoredForTheHost
  BY DEF GraphInv, StoredInv
<1>2. QED
  BY <1>1, Invariant, PTL

=============================================================================
