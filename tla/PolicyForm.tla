------------------------------ MODULE PolicyForm ------------------------------
(***************************************************************************)
(* The form that adds and edits a policy: the boxes for the days and the   *)
(* rows for the times that armore.js keeps in the page, and what policy.py *)
(* makes of the submitted form and of a saved policy that is opened again. *)
(*                                                                         *)
(* The server knows a row by the number at the end of the names of its two *)
(* fields; armore.js takes the number of a new row from the count of the   *)
(* nodes under divTimeRows.                                                *)
(***************************************************************************)
EXTENDS Integers, SequencesExt, Positions

CONSTANTS
  Policies, \* the uuids there are
  EndOfDay,     \* times of day are 0 .. EndOfDay, which is 23:59:59
  Typed,    \* what the user types into a row: pairs of times
  MaxEdits, \* bound: changes the user makes in one form
  MaxForms  \* bound: forms opened

Weekdays == {"Mon", "Tue", "Wed", "Thu", "Fri"}
Weekends == {"Sat", "Sun"}
Daily == Weekdays \cup Weekends
Boxes == Daily \cup {"Daily", "Weekday", "Weekend"}
Clock == 0 .. EndOfDay
Blank == -1 \* an empty field
Fields == Clock \cup {Blank}

ASSUME PolicyFormAssumption ==
  /\ EndOfDay \in Nat \ {0}
  /\ Typed \subseteq Clock \X Clock
  /\ MaxEdits \in Nat /\ MaxForms \in Nat

NoPolicy == "none"

\* A time period, and a row of the form: a period with the number of its fields.
Period(start, stop) == [start |-> start, stop |-> stop]
Row(num, start, stop) == [num |-> num, start |-> start, stop |-> stop]

VARIABLES
  form,  \* the form in the page, or Closed
  saved, \* the policies in the file: the labels and periods of their times
  shown, \* history: the days and periods the form showed when it was submitted
  forms  \* forms opened so far

formVars == << form, saved, shown, forms >>
file == << saved, shown, forms >>

Closed == [open |-> FALSE, id |-> NoPolicy, boxes |-> {}, rows |-> << >>,
           nodes |-> 0, old |-> 0, edits |-> 0]

FormInit ==
  /\ form = Closed
  /\ saved = << >> /\ shown = << >>
  /\ forms = 0

MayEdit == form.open /\ form.edits < MaxEdits

-----------------------------------------------------------------------------
(* The boxes: updateTimePeriodCheckBoxes *)

GroupBoxes == {"Daily", "Weekday", "Weekend"}

\* The days a box stands for.
DaysOf(box) ==
  CASE box = "Daily" -> Daily
    [] box = "Weekday" -> Weekdays
    [] box = "Weekend" -> Weekends
    [] OTHER -> {box}

Meaning(labels) == UNION {DaysOf(l) : l \in labels}

\* A group's box is checked when all of its days are.
WithGroups(days) == days \cup {g \in GroupBoxes : DaysOf(g) \subseteq days}

\* The days a box stands for follow it; the boxes of groups follow the days.
Click(box) ==
  /\ MayEdit
  /\ LET days == form.boxes \cap Daily
     IN form' = [form EXCEPT !.edits = @ + 1,
                   !.boxes = WithGroups(IF box \in @ THEN days \ DaysOf(box)
                                                     ELSE days \cup DaysOf(box))]
  /\ UNCHANGED file

-----------------------------------------------------------------------------
(* The rows *)

ChangeRows(rows, nodes) ==
  /\ MayEdit
  /\ form' = [form EXCEPT !.rows = rows, !.nodes = nodes, !.edits = @ + 1]
  /\ UNCHANGED file

\* policyAddTimeRow: a blank row, with a number from the count of nodes.
AddRow == ChangeRows(Append(form.rows, Row(form.nodes - 6, Blank, Blank)), form.nodes + 1)

\* policyRemoveTimeRow; the first row has no button for it.
RemoveRow(i) ==
  /\ i \in 2 .. Len(form.rows)
  /\ ChangeRows(RemoveAt(form.rows, i), form.nodes - 1)

Type(i, times) ==
  /\ i \in DOMAIN form.rows
  /\ ChangeRows([form.rows EXCEPT ![i].start = times[1], ![i].stop = times[2]], form.nodes)

\* The numbers updateField removes the rows of: from 1 up to a limit taken from the
\* count of nodes, and no further than the first number that no row has.
NumsToRemove ==
  {n \in 1 .. form.nodes - 7 :
     \A m \in 1 .. n : \E i \in DOMAIN form.rows : form.rows[i].num = m}

\* Of the rows with a number, the first is removed.
WithoutNums(nums, rows) ==
  Filtered(rows, {i \in DOMAIN rows : \/ rows[i].num \notin nums
                                      \/ \E j \in 1 .. i - 1 : rows[j].num = rows[i].num})

\* updateField, for "Any Time" in a form opened with one row.
AnyTime(checked) ==
  /\ form.old = 1
  /\ LET gone == IF checked THEN NumsToRemove ELSE {}
         first == IF checked THEN Row(0, 0, EndOfDay) ELSE Row(0, Blank, Blank)
     IN ChangeRows(WithoutNums(gone, [form.rows EXCEPT ![1] = first]),
                   form.nodes - Cardinality(gone))

-----------------------------------------------------------------------------
(* The server: updatePolicyConfig, getPolicy and delPolicy *)

Filled(r) == Period(IF r.start = Blank THEN 0 ELSE r.start,
                    IF r.stop = Blank THEN EndOfDay ELSE r.stop)

\* Faulty variant: of two fields of one name, the last is read for the stop.
PeriodOf_Mixed(rows, n) ==
  LET named == SelectSeq(rows, LAMBDA r : r.num = n)
  IN Filled(Row(n, Head(named).start, named[Len(named)].stop))

\* Of two fields of one name, the first is read.
PeriodOf(rows, n) ==
  Filled(rows[CHOOSE i \in DOMAIN rows :
                rows[i].num = n /\ \A j \in 1 .. i - 1 : rows[j].num # n])

\* The numbers the server finds: digits, which a minus is not.
NumsRead(rows) == {r.num : r \in Range(rows)} \cap Nat

Labels(boxes) ==
  IF "Daily" \in boxes THEN {"Daily"}
  ELSE (IF "Weekday" \in boxes THEN {"Weekday"} ELSE boxes \cap Weekdays)
       \cup (IF "Weekend" \in boxes THEN {"Weekend"} ELSE boxes \cap Weekends)

\* What a reader of the form sees; a new one has only its box "Daily" checked.
DaysShown == IF form.boxes = {"Daily"} THEN Daily ELSE form.boxes \cap Daily
PeriodsShown == {Filled(r) : r \in Range(form.rows)}

Put(f, id, value) == [i \in DOMAIN f \cup {id} |-> IF i = id THEN value ELSE f[i]]

\* The rows are written in the order of a dictionary: any.
Submit(id) ==
  /\ form.open
  /\ form.id \in {id, NoPolicy} \/ id \notin DOMAIN saved
  /\ form.id = NoPolicy => id \notin DOMAIN saved
  /\ \E nums \in SetToSeqs(NumsRead(form.rows)) :
       saved' = Put(saved, id, [labels  |-> Labels(form.boxes),
                                periods |-> [k \in DOMAIN nums |-> PeriodOf(form.rows, nums[k])]])
  /\ shown' = Put(shown, id, [days |-> DaysShown, periods |-> PeriodsShown])
  /\ form' = Closed
  /\ UNCHANGED forms

Without(f, id) == [i \in DOMAIN f \ {id} |-> f[i]]

Delete(id) ==
  /\ ~form.open /\ id \in DOMAIN saved
  /\ saved' = Without(saved, id) /\ shown' = Without(shown, id)
  /\ UNCHANGED << form, forms >>

\* The form has two nodes for a row and three of its own.
Open(id, boxes, rows) ==
  /\ ~form.open /\ forms < MaxForms
  /\ form' = [open |-> TRUE, id |-> id, boxes |-> boxes, rows |-> rows,
              nodes |-> 3 + 2 * Len(rows), old |-> Len(rows), edits |-> 0]
  /\ forms' = forms + 1
  /\ UNCHANGED << saved, shown >>

OpenNew == Open(NoPolicy, {"Daily"}, << Row(0, Blank, Blank) >>)

\* Faulty variant: a period is left out when either of its ends was seen.
Kept_EitherEnd(ps) ==
  Filtered(ps, {k \in DOMAIN ps :
                  ~ \E j \in 1 .. k - 1 : ps[j].start = ps[k].start \/ ps[j].stop = ps[k].stop})

\* A period is left out when its start was seen, and its stop was.
Kept(ps) ==
  Filtered(ps, {k \in DOMAIN ps : ~ /\ \E j \in 1 .. k - 1 : ps[j].start = ps[k].start
                                    /\ \E j \in 1 .. k - 1 : ps[j].stop = ps[k].stop})

\* A policy without a day is a line that cannot be read.
OpenEdit(id) ==
  /\ id \in DOMAIN saved /\ saved[id].labels # {}
  /\ LET kept == Kept(saved[id].periods)
     IN Open(id, WithGroups(Meaning(saved[id].labels)),
             [k \in DOMAIN kept |-> Row(k - 1, kept[k].start, kept[k].stop)])

FormNext ==
  \/ OpenNew
  \/ \E id \in Policies : OpenEdit(id) \/ Submit(id) \/ Delete(id)
  \/ \E box \in Boxes : Click(box)
  \/ AddRow
  \/ \E i \in 1 .. MaxEdits + 1 : RemoveRow(i) \/ \E times \in Typed : Type(i, times)
  \/ \E checked \in BOOLEAN : AnyTime(checked)

FormSpec == FormInit /\ [][FormNext]_formVars

-----------------------------------------------------------------------------
(* Properties *)

\* The types; a form has its first row and the nodes of its rows (addPolicy.html).
FormTypeOK ==
  /\ form.boxes \subseteq Boxes
  /\ form.rows \in Seq([num : Int, start : Fields, stop : Fields])
  /\ form.open => /\ form.rows # << >> /\ form.rows[1].num = 0
                  /\ form.nodes = 3 + form.old + Len(form.rows)
  /\ form.edits \in 0 .. MaxEdits /\ forms \in 0 .. MaxForms
  /\ DOMAIN saved \subseteq Policies /\ DOMAIN shown = DOMAIN saved

\* A saved policy has the days whose boxes were checked when the form was submitted,
\* although the server believes the boxes of groups before those of the days, and no
\* period the form did not show: none is made of the start of one row and the stop of
\* another (updateTimePeriodCheckBoxes, updatePolicyConfig).
SavedAsShown ==
  \A id \in DOMAIN saved :
    /\ Meaning(saved[id].labels) = shown[id].days
    /\ Range(saved[id].periods) \subseteq shown[id].periods

\* A period with the start of one other and the stop of another.
Crossing(periods) ==
  \E t \in periods :
    /\ \E u \in periods \ {t} : u.start = t.start
    /\ \E u \in periods \ {t} : u.stop = t.stop

\* A policy opened and submitted as it is stays as it was, if no period crosses
\* two others (getPolicy, addPolicy.html, updatePolicyConfig).
EditKeepsPolicy ==
  form.open /\ form.id # NoPolicy /\ form.edits = 0 =>
    LET policy == saved[form.id]
    IN /\ Meaning(Labels(form.boxes)) = Meaning(policy.labels)
       /\ Crossing(Range(policy.periods)) \/
            {PeriodOf(form.rows, n) : n \in NumsRead(form.rows)} = Range(policy.periods)

-----------------------------------------------------------------------------
(* What a comment says and the code does not do *)

\* "6 elements already exist in child nodes" (armore.js:408): so that a new row gets
\* a number of its own, and every row the form shows is saved.
RowsAreSaved ==
  \A id \in DOMAIN saved : Range(saved[id].periods) = shown[id].periods

=============================================================================
