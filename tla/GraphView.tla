------------------------------ MODULE GraphView ------------------------------
(***************************************************************************)
(* The graph of a time period in the browser (visualization.js,            *)
(* visualization_graph.js): the page asks the web server for the log of    *)
(* the selected date, or for the comparison of two, and draws whichever    *)
(* answer arrives; the user picks dates, filters the links and renames the *)
(* hosts of the graph that is drawn.  Answers may overtake each other.     *)
(*                                                                         *)
(* A label stands for the host the user typed it for, and a node's text    *)
(* for the host whose name or label it is; a link for its first protocol   *)
(* and function, by which a comparison tells it from another too.  The     *)
(* tree beside the graph, the display of labels and the options of         *)
(* targets, which follow the others, are left out.                         *)
(***************************************************************************)
EXTENDS Integers, SequencesExt, Positions

CONSTANTS
  Hosts,
  Dates,      \* times of the stored logs, in the order the server lists them
  First,      \* the date of the log that comes first when all are asked for
  BarDates,   \* times of the anomalies, in the order of the histogram's bars
  HostsOf,    \* the hosts of each date's log, in its order; some have no devices
  LinksOf,    \* the links of each date's log, by their first protocol and function
  Protocols,  \* the protocols, in alphabetical order
  MaxPicks,   \* bound: dates the user picks, to show or to compare
  MaxClicks,  \* bound: clicks in the list of filters
  MaxDialogs, \* bound: dialogs opened
  MaxFailures \* bound: requests that fail

DateSet == Range(Dates)
Links == [protocol : Range(Protocols), function : STRING]
NodeFields == {"label", "node_type"}
NoDate == "n/a"  \* the selection before the page has one; "" when the page gives none

ASSUME GraphAssumption ==
  /\ Dates \in Seq(STRING) /\ Protocols \in Seq(STRING)
  /\ First \in DateSet /\ {NoDate, ""} \cap DateSet = {}
  /\ BarDates \in Seq(STRING) /\ BarDates # << >>
  /\ \A d \in DateSet : HostsOf[d] \in Seq(Hosts) /\ IsInjective(HostsOf[d])
  /\ \A d \in DateSet : LinksOf[d] \in Seq(Links)
  /\ MaxPicks \in Nat /\ MaxClicks \in Nat /\ MaxDialogs \in Nat /\ MaxFailures \in Nat

VARIABLES
  page,      \* which page it is: of the graph, or of the anomalies
  selected,  \* model.selectedDate
  listed,    \* whether the page has the dates, or the histogram's bars
  graph,     \* the graph drawn: of which dates, hidden links, text of the nodes
  options,   \* the dates whose hosts, links and protocols the filter list offers
  checked,   \* filterListModel: the checked options, and which of them have a label
  old,       \* the list of filters the user still sees, or << >>: the one above
  dialog,    \* the dialog about a node: its id and the host's name, or NoDialog
  network,   \* requests in flight, in the order they were sent
  stored,    \* what users gave the hosts of each log
  picks, clicks, dialogs, failures,
  overtaken  \* history: an answer that draws arrived before an earlier one

view == << graph, options, checked, old >>
counters == << picks, clicks, dialogs, failures >>
graphVars == << page, selected, listed, graph, options, checked, old, dialog, network,
                stored, picks, clicks, dialogs, failures, overtaken >>

OnlyLabels == [option |-> << "labels", "" >>, labelled |-> FALSE]
NoGraph == [of |-> << >>, hidden |-> {}, texts |-> << >>]
NoDialog == [id |-> 0, host |-> NoDate]

\* diffColLogs: what is in the first log, then what only the second one has.
Shown(part, of) ==
  IF of = << >> THEN << >>
  ELSE IF Len(of) = 1 THEN part[of[1]]
  ELSE LET new == {i \in DOMAIN part[of[2]] : part[of[2]][i] \notin Range(part[of[1]])}
       IN part[of[1]] \o Filtered(part[of[2]], new)
HostsShown(of) == Shown(HostsOf, of)
LinksShown(of) == Shown(LinksOf, of)
ProtocolsShown(of) ==
  Filtered(Protocols, {i \in DOMAIN Protocols :
                         \E l \in Range(LinksShown(of)) : l.protocol = Protocols[i]})

-----------------------------------------------------------------------------
(* Requests *)

Request(kind) == [kind |-> kind, of |-> << >>]
LogOf(date) == [kind |-> "draw", of |-> << date >>]
ComparisonOf(d, e) == [kind |-> "draw", of |-> << d, e >>]
Post(field, date, host, label) ==
  [kind |-> "post", of |-> << date >>, field |-> field, host |-> host, label |-> label]

GraphInit ==
  /\ \/ /\ page = "graph" /\ selected = ""
        /\ network = << Request("dates"), LogOf("") >>
     \/ /\ page = "anomalies" /\ selected = NoDate
        /\ network = << Request("dates"), Request("bars") >>
  /\ listed = FALSE
  /\ graph = NoGraph /\ options = << >> /\ checked = << OnlyLabels >> /\ old = << >>
  /\ dialog = NoDialog
  /\ stored = [d \in DateSet |-> [hf \in Range(HostsOf[d]) \X NodeFields |-> NoDate]]
  /\ picks = 0 /\ clicks = 0 /\ dialogs = 0 /\ failures = 0
  /\ overtaken = FALSE

\* Faulty variant: nothing is asked for while an answer is awaited.
Show_Once(date, others) ==
  /\ selected' = date
  /\ graph' = NoGraph
  /\ network' = IF \E k \in DOMAIN others : others[k].kind = "draw"
                THEN others ELSE Append(others, LogOf(date))

\* The watch of selectedDate clears the graph and asks for the date's log.
Show(date, others) ==
  /\ selected' = date
  /\ graph' = NoGraph
  /\ network' = Append(others, LogOf(date))

\* Angular's digest renews the list of filters that the user sees.  It ends every
\* click in the page and every answer to $http, but no callback of d3.json; without
\* those, the clock of the page brings one within a second.
Digested == old' = << >>

Digest ==
  /\ old # << >> /\ Digested
  /\ UNCHANGED << page, selected, listed, graph, options, checked, dialog, network,
                  stored, counters, overtaken >>

\* onItemSelect of the list of dates, or a click on a bar of the histogram
Pick(date) ==
  /\ date \in IF page = "graph" THEN DateSet ELSE Range(BarDates)
  /\ listed /\ picks < MaxPicks
  /\ date # selected
  /\ Show(date, network)
  /\ Digested
  /\ picks' = picks + 1
  /\ UNCHANGED << page, listed, options, checked, dialog, stored, clicks, dialogs,
                  failures, overtaken >>

\* onItemSelect of the list of dates to compare with
Compare(date) ==
  /\ page = "graph" /\ listed /\ picks < MaxPicks
  /\ date # selected
  /\ network' = Append(network, ComparisonOf(selected, date))
  /\ Digested
  /\ picks' = picks + 1
  /\ UNCHANGED << page, selected, listed, graph, options, checked, dialog, stored, clicks, dialogs,
                  failures, overtaken >>

-----------------------------------------------------------------------------
(* The filter list *)

\* updateGraphFilters: the option of labels, then those of the graph.
OptionsOf(of) ==
  LET OfKind(kind, names) == [i \in DOMAIN names |-> << kind, names[i] >>]
  IN OfKind("labels", << "" >>)
       \o OfKind("nodes", HostsShown(of)) \o OfKind("links", LinksShown(of))
       \o OfKind("protocols", ProtocolsShown(of)) \o OfKind("functions", LinksShown(of))

\* Faulty variant: the list of checked options is left as it was.
AllChecked_Kept(of) == checked

\* All are checked, with their labels.
AllChecked(of) ==
  LET all == OptionsOf(of)
  IN [i \in DOMAIN all |-> [option |-> all[i], labelled |-> TRUE]]

ProtocolOf(option) == IF option[1] = "functions" THEN option[2].protocol ELSE option[2]
IsOf(option, protocol) ==
  option[1] \in {"protocols", "functions"} /\ ProtocolOf(option) = protocol

\* filterLinks: the links of an option, in the graph that is drawn
Matching(option) ==
  {l \in Range(LinksShown(graph.of)) :
     option \in {<< "protocols", l.protocol >>, << "functions", l >>}}

IsChecked(option, list) == \E k \in DOMAIN list : list[k].option = option
IsLabelled(option, list) ==
  \E k \in DOMAIN list : list[k].option = option /\ list[k].labelled

\* The list up to the first entry whose label is no text, which ends a handler.
Readable(list) ==
  LET bad == {k \in DOMAIN list :
                ~list[k].labelled \/ list[k].option[1] \in {"nodes", "links"}}
  IN IF bad = {} THEN Len(list) ELSE Min(bad) - 1

Pruned(list, protocol) ==
  Filtered(list, {i \in DOMAIN list :
                    i > Readable(list) \/ ~IsOf(list[i].option, protocol)})

\* The first entry of the option is removed.
Unchecked(option, list) ==
  Filtered(list, {i \in DOMAIN list : \/ list[i].option # option
                                      \/ \E j \in 1 .. i - 1 : list[j].option = option})

\* The list the user clicks in, with what is checked there: an id is that of the
\* option at its place.
Offered == OptionsOf(IF old = << >> THEN options ELSE old[1].of)
Seen == IF old = << >> THEN checked ELSE old[1].checked

\* setSelectedItem of the dropdown: it adds to or removes from the list it shows,
\* which is lost when the page has another.
Toggled(list) == IF old = << >> THEN list ELSE checked

Clicked ==
  /\ page = "graph" /\ clicks < MaxClicks
  /\ clicks' = clicks + 1
  /\ Digested
  /\ UNCHANGED << page, selected, listed, options, dialog, network, stored, picks,
                  dialogs, failures, overtaken >>

\* The handlers look an id up in filterOptionsByIndex, and fail on one it has not.
Unknown(id) ==
  /\ id \notin DOMAIN OptionsOf(options)
  /\ UNCHANGED << graph, checked >>

\* filterSelectItem.  A protocol's functions are not checked with it: looking for
\* them fails on the first host, whose label is no text.
SelectItem(option) ==
  /\ LET list == Toggled(Append(checked, [option |-> option, labelled |-> FALSE]))
         protocol == << "protocols", ProtocolOf(option) >>
     IN checked' = IF option[1] = "functions" /\ ~IsLabelled(protocol, list)
                   THEN Append(list, [option |-> protocol, labelled |-> TRUE])
                   ELSE list
  /\ graph' = [graph EXCEPT !.hidden = @ \ Matching(option)]

Check(id) ==
  /\ Clicked
  /\ ~IsChecked(Offered[id], Seen)
  /\ \/ id \in DOMAIN OptionsOf(options) /\ SelectItem(OptionsOf(options)[id])
     \/ Unknown(id)

\* filterDeselectItem.  A protocol's functions stay checked; with the last function
\* that still has its label, the protocol goes if the search gets that far.
DeselectItem(option) ==
  /\ LET list == Toggled(Unchecked(option, checked))
         others == {k \in DOMAIN list : /\ list[k].labelled /\ list[k].option[1] = "functions"
                                         /\ IsOf(list[k].option, ProtocolOf(option))}
     IN checked' = IF option[1] = "functions" /\ others = {}
                   THEN Pruned(list, ProtocolOf(option)) ELSE list
  /\ graph' = [graph EXCEPT !.hidden = @ \cup Matching(option)]

Uncheck(id) ==
  /\ Clicked
  /\ IsChecked(Offered[id], Seen)
  /\ \/ id \in DOMAIN OptionsOf(options) /\ DeselectItem(OptionsOf(options)[id])
     \/ Unknown(id)

\* "Check All" and "Uncheck All" both go through filterDeselectAll, which hides the
\* links of the first protocol and fails there; before a graph there is none.
ClickAll(check) ==
  /\ Clicked
  /\ IF options = << >>
     THEN /\ checked' = IF check THEN << OnlyLabels >> ELSE << >>
          /\ graph' = graph
     ELSE /\ checked' = checked
          /\ graph' = [graph EXCEPT !.hidden =
                         @ \cup Matching(<< "protocols", Head(ProtocolsShown(options)) >>)]

Filter ==
  \/ \E id \in DOMAIN Offered : Check(id) \/ Uncheck(id)
  \/ \E check \in BOOLEAN : ClickAll(check)

-----------------------------------------------------------------------------
(* The dialogs about a node *)

\* nodepopup
OpenDialog(id) ==
  /\ page = "graph" /\ dialog = NoDialog /\ dialogs < MaxDialogs
  /\ id \in DOMAIN graph.texts
  /\ dialog' = [id |-> id, host |-> HostsShown(graph.of)[id]]
  /\ dialogs' = dialogs + 1
  /\ UNCHANGED << page, selected, listed, view, network, stored, picks, clicks,
                  failures, overtaken >>

\* Faulty variant: the host is the one the node has by now.
HostMeant_ByNode ==
  IF dialog.id \in DOMAIN graph.texts THEN HostsShown(graph.of)[dialog.id] ELSE dialog.host

\* The host is the one the dialog was opened for.
HostMeant == dialog.host

CloseDialog ==
  /\ dialog # NoDialog
  /\ dialog' = NoDialog
  /\ Digested
  /\ UNCHANGED << page, selected, listed, options, checked, stored, counters, overtaken >>

\* graphRenameNode: with the host's own name as the new one nothing is sent, with an
\* empty one an empty label; whatever node has the id by now gets the text.
Rename(label) ==
  /\ CloseDialog
  /\ network' = IF label = NoDate THEN network
                ELSE Append(network, Post("label", selected, HostMeant, label))
  /\ graph' = IF dialog.id \in DOMAIN graph.texts
              THEN [graph EXCEPT !.texts[dialog.id] = dialog.host] ELSE graph

\* graphChangeNodeType, which shows nothing: no element has the id it looks for.
ChangeType ==
  /\ CloseDialog
  /\ network' = Append(network, Post("node_type", selected, HostMeant, dialog.host))
  /\ UNCHANGED graph

Cancel == CloseDialog /\ UNCHANGED << graph, network >>

-----------------------------------------------------------------------------
(* Answers *)

\* A graph is drawn, with its own list of filters; the user sees the list from before.
Draw(of) ==
  /\ graph' = [of |-> of, hidden |-> {}, texts |-> HostsShown(of)]
  /\ options' = of
  /\ checked' = AllChecked(of)
  /\ old' = IF old = << >> THEN << [of |-> options, checked |-> checked] >> ELSE old

\* The dates arrive; the first is selected unless the page came with a selection.
DatesArrive(k) ==
  /\ network[k].kind = "dates"
  /\ listed' = (listed \/ page = "graph")
  /\ IF selected = "" THEN Show(Dates[1], RemoveAt(network, k))
     ELSE network' = RemoveAt(network, k) /\ UNCHANGED << selected, graph >>
  /\ Digested
  /\ UNCHANGED << page, options, checked, dialog, stored, counters, overtaken >>

\* The anomalies arrive; the next digest selects the last bar and asks for its log.
BarsArrive(k) ==
  /\ page = "anomalies" /\ network[k].kind = "bars"
  /\ listed' = TRUE
  /\ Show(BarDates[Len(BarDates)], RemoveAt(network, k))
  /\ Digested
  /\ UNCHANGED << page, options, checked, dialog, stored, counters, overtaken >>

\* What a request for logs brings that can be drawn.  All logs come if it names no
\* date, and the first is taken; nothing is drawn of a log that is not stored, or of
\* one without devices, which is reported and leaves the page as it is.
Drawable == {d \in DateSet : HostsOf[d] # << >>}
Brings(of) ==
  LET logs == IF of = << "" >> THEN << First >> ELSE of
  IN IF Range(logs) \subseteq Drawable THEN logs ELSE << >>

LogsArrive(k) ==
  /\ network[k].kind = "draw"
  /\ network' = RemoveAt(network, k)
  /\ IF Brings(network[k].of) = << >> THEN UNCHANGED << view, overtaken >>
     ELSE /\ Draw(Brings(network[k].of))
          /\ overtaken' = (overtaken \/ \E j \in 1 .. k - 1 : network[j].kind = "draw")
  /\ UNCHANGED << page, selected, listed, dialog, stored, counters >>

\* updateNode in the web server changes the host in the log of the date, if it has it.
PostArrives(k) ==
  /\ network[k].kind = "post"
  /\ network' = RemoveAt(network, k)
  /\ LET m == network[k]
         d == m.of[1]
     IN stored' = IF d \in DateSet /\ << m.host, m.field >> \in DOMAIN stored[d]
                  THEN [stored EXCEPT ![d][<< m.host, m.field >>] = m.label] ELSE stored
  /\ Digested
  /\ UNCHANGED << page, selected, listed, graph, options, checked, dialog, counters,
                  overtaken >>

\* A request is lost or answered with an error: nothing is done about it.
Fail(k) ==
  /\ failures < MaxFailures
  /\ network' = RemoveAt(network, k)
  /\ failures' = failures + 1
  /\ UNCHANGED << page, selected, listed, view, dialog, stored, picks, clicks, dialogs,
                  overtaken >>

GraphNext ==
  \/ \E d \in DateSet \cup Range(BarDates) : Pick(d)
  \/ \E d \in DateSet : Compare(d)
  \/ Filter \/ Digest
  \/ \E id \in 1 .. Cardinality(Hosts) : OpenDialog(id)
  \/ \E label \in {dialog.host, "", NoDate} : Rename(label)
  \/ ChangeType \/ Cancel
  \/ \E k \in DOMAIN network :
       DatesArrive(k) \/ BarsArrive(k) \/ LogsArrive(k) \/ PostArrives(k) \/ Fail(k)

GraphSpec == GraphInit /\ [][GraphNext]_graphVars

-----------------------------------------------------------------------------
(* Properties *)

\* The types; a node that can be seen has a text, and only drawn links are hidden.
GraphTypeOK ==
  /\ page \in {"graph", "anomalies"} /\ listed \in BOOLEAN /\ overtaken \in BOOLEAN
  /\ selected \in DateSet \cup Range(BarDates) \cup {"", NoDate}
  /\ graph.of \in Seq(DateSet) /\ options \in Seq(DateSet)
  /\ Len(graph.texts) = Len(HostsShown(graph.of))
  /\ graph.hidden \subseteq Range(LinksShown(graph.of))
  /\ \A k \in DOMAIN network : network[k].kind \in {"dates", "bars", "draw", "post"}
  /\ dialog.host \in Hosts \cup {NoDate}

AllAnswered == \A k \in DOMAIN network : network[k].kind = "post"

\* When every request has been answered, none failed and none was overtaken, the graph
\* is that of the selected date, alone or compared with another, if the date has a log
\* that can be drawn.  Otherwise an earlier graph may stay (drawGraph, dateListEvents,
\* compare2DateListEvents, drawHistoAnomalies, parse_json_col).
SettledShowsSelected ==
  AllAnswered /\ failures = 0 /\ ~overtaken /\ selected \in Drawable =>
    graph.of # << >> /\ graph.of[1] = selected

\* The page's list of filters is that of the graph drawn, and checks only what it
\* offers; a click in the list of an earlier graph, which the user still sees, may
\* hide or show links but leaves the new list as it is (updateGraphFilters,
\* filterSelectItem, filterDeselectItem, setSelectedItem).
FilterFitsGraph ==
  /\ [](/\ graph.of # << >> => options = graph.of
        /\ {e.option : e \in Range(checked)} \subseteq Range(OptionsOf(options)))
  /\ [][old # << >> /\ clicks' # clicks => checked' = checked]_graphVars

\* What is stored for a host was typed for that host, whatever was drawn between
\* opening the dialog and submitting it (nodepopup, graphRenameNode, updateNode).
StoredForTheHost ==
  \A d \in DateSet : \A hf \in DOMAIN stored[d] : stored[d][hf] \in {NoDate, "", hf[1]}

=============================================================================
