-------------------------- MODULE PolicyEnforcement --------------------------
(***************************************************************************)
(* How the web server enforces its policies: policy.py rewrites the file   *)
(* of policies, flushes the firewall and walks the file; ipfw.py adds the  *)
(* deny rule of a policy that holds all day at once and writes cron jobs   *)
(* that add and delete the rules of the others.  The cron daemon runs its  *)
(* jobs whatever the web server is doing, and the firewall process loses   *)
(* its rules when the service is restarted.                                *)
(*                                                                         *)
(* A week is a cycle of moments, Slots to a day: moment 0 of a day stands  *)
(* for 00:00, and the time 23:59 of the code is the boundary Slots.        *)
(***************************************************************************)
EXTENDS Integers, Sequences, Positions

CONSTANTS
  Ids,         \* policies: the uuids there are
  Offers,      \* what a form may ask for: records [filtering, times]
  Slots,       \* moments in a day
  MaxRequests, \* bound: requests that change the policies
  MaxFailures  \* bound: kills of the web server and restarts of the firewall

Days == 0 .. 6
Week == 7 * Slots
Moments == 0 .. Week - 1
Labels == {"Daily", "Weekday", "Named"}
Rows == {r \in [start : 0 .. Slots - 1, stop : 1 .. Slots] : r.start < r.stop}
Times == [label : Labels, days : SUBSET Days, rows : SUBSET Rows]

ASSUME PolicyAssumption ==
  /\ Slots \in Nat \ {0}
  /\ MaxRequests \in Nat /\ MaxFailures \in Nat
  /\ Offers \subseteq [filtering : {"active", "passive"}, times : Times]
  /\ \A o \in Offers : o.times.label = "Daily" => o.times.days = Days

VARIABLES
  header,    \* whether the file has its header line; without it, it is empty
  policies,  \* the policies in the file, in its order
  request,   \* the request being served and how far it is
  rules,     \* deny rules of the firewall: numbers with the policy they are for
  cronFile,  \* the jobs in the cron file
  now,       \* the moment of the week
  due,       \* jobs the cron daemon has begun and that have not run
  requests,  \* requests served so far
  failures,  \* kills and restarts so far
  intact,    \* history: the last request ended well, and nothing hit the rules since
  settled    \* history: moments since the last request, at most a week

store == << header, policies >>
history == << requests, failures, intact, settled >>
vars == << header, policies, request, rules, cronFile, now, due,
           requests, failures, intact, settled >>

-----------------------------------------------------------------------------
(* ipfw.py: from the times of a policy to cron jobs                        *)

\* Faulty variant: every day starts at 00:00 and is taken for the day before.
StartDays_DayBefore(t, slot) ==
  IF slot = 0 THEN {d \in t.days : (d + 1) % 7 \notin t.days} ELSE t.days

\* A row that starts at 00:00 goes on from the day before, if that is a day too.
StartDays(t, slot) ==
  IF slot = 0 /\ t.days # Days THEN {d \in t.days : (d + 6) % 7 \notin t.days} ELSE t.days

\* A row that ends at 23:59 stops on the day after, unless that is a day too.
StopDays(t, slot) ==
  IF slot = Slots THEN {(d + 1) % 7 : d \in {e \in t.days : (e + 1) % 7 \notin t.days}}
                  ELSE t.days

Starts(t) == UNION {{d * Slots + r.start : d \in StartDays(t, r.start)} : r \in t.rows}
Stops(t) == UNION {{d * Slots + (r.stop % Slots) : d \in StopDays(t, r.stop)} : r \in t.rows}

AllDay(t) == t.label = "Daily" /\ [start |-> 0, stop |-> Slots] \in t.rows

\* Faulty variant: an empty list of days is skipped.
Raises_SkipsEmpty(t) == t.label = "Weekday"

\* The form's "Weekday" is not the "weekdays" that parseTime knows, and a list
\* of days that came out empty cannot be read back.
Raises(t) ==
  \/ t.label = "Weekday"
  \/ ~AllDay(t) /\ \E r \in t.rows : StartDays(t, r.start) = {} \/ StopDays(t, r.stop) = {}

Timed(p) == p.filtering = "active" /\ ~AllDay(p.times)
NoJobs == [start |-> {}, stop |-> {}]

WithJobs(cron, p, num) ==
  [start |-> cron.start \cup {[at |-> m, num |-> num, id |-> p.id] : m \in Starts(p.times)},
   stop  |-> cron.stop \cup {[at |-> m, num |-> num] : m \in Stops(p.times)}]

-----------------------------------------------------------------------------
(* policy.py: serving a request                                            *)

Idle == [step |-> "idle", lines |-> << >>, next |-> 0, num |-> 0, cron |-> NoJobs]

Init ==
  /\ header = FALSE /\ policies = << >>
  /\ request = Idle
  /\ rules = {} /\ cronFile = NoJobs
  /\ now = 0 /\ due = NoJobs
  /\ requests = 0 /\ failures = 0
  /\ intact = FALSE /\ settled = 0

\* The file is opened for writing, which empties it, to be written with lines.
Rewrite(lines) ==
  /\ requests < MaxRequests
  /\ request' = [Idle EXCEPT !.step = "write", !.lines = lines]
  /\ header' = FALSE /\ policies' = << >>
  /\ requests' = requests + 1
  /\ intact' = (due = NoJobs)
  /\ settled' = 0
  /\ UNCHANGED << rules, cronFile, now, due, failures >>

\* updatePolicyConfig: the line of policy id is replaced, or appended if it is
\* not in the file: it is new, or was deleted after the form was opened.
Save(id, offer) ==
  /\ request.step = "idle"
  /\ LET line == [id |-> id, filtering |-> offer.filtering, times |-> offer.times]
         at == {i \in DOMAIN policies : policies[i].id = id}
     IN Rewrite(IF at = {} THEN Append(policies, line)
                ELSE [i \in DOMAIN policies |-> IF i \in at THEN line ELSE policies[i]])

\* delPolicy, which fails on a file without its header
Delete(id) ==
  /\ request.step = "idle"
  /\ header
  /\ Rewrite(Filtered(policies, {i \in DOMAIN policies : policies[i].id # id}))

\* verifyPolicyFileExists, when a page shows the policies
View ==
  /\ request.step = "idle" /\ ~header
  /\ header' = TRUE
  /\ UNCHANGED << policies, request, rules, cronFile, now, due, history >>

WriteFile ==
  /\ request.step = "write"
  /\ header' = TRUE /\ policies' = request.lines
  /\ request' = [request EXCEPT !.step = "flush"]
  /\ UNCHANGED << rules, cronFile, now, due, history >>

\* Faulty variant: the firewall is not flushed.
Flush_KeepsRules ==
  /\ request.step = "flush"
  /\ request' = [request EXCEPT !.step = "parse", !.next = 1]
  /\ UNCHANGED << store, rules, cronFile, now, due, history >>

\* parseIPFW flushes the firewall and starts from an empty list of jobs.
Flush ==
  /\ request.step = "flush"
  /\ rules' = {}
  /\ request' = [request EXCEPT !.step = "parse", !.next = 1]
  /\ UNCHANGED << store, cronFile, now, due, history >>

CurrentLine == policies[request.next]
HasLine == request.step = "parse" /\ request.next <= Len(policies)

SkipPassive ==
  /\ HasLine /\ CurrentLine.filtering = "passive"
  /\ request' = [request EXCEPT !.next = @ + 1]
  /\ UNCHANGED << store, rules, cronFile, now, due, history >>

\* createCronJob for a policy that holds all day
AddRule ==
  /\ HasLine /\ CurrentLine.filtering = "active"
  /\ ~Raises(CurrentLine.times) /\ AllDay(CurrentLine.times)
  /\ rules' = rules \cup {[num |-> request.num, id |-> CurrentLine.id]}
  /\ request' = [request EXCEPT !.next = @ + 1, !.num = @ + 1]
  /\ UNCHANGED << store, cronFile, now, due, history >>

\* createCronJob for another: the jobs so far are written to the cron file.
AddJobs ==
  /\ HasLine /\ Timed(CurrentLine) /\ ~Raises(CurrentLine.times)
  /\ LET cron == WithJobs(request.cron, CurrentLine, request.num)
     IN /\ cronFile' = cron
        /\ request' = [request EXCEPT !.next = @ + 1, !.num = @ + 1, !.cron = cron]
  /\ UNCHANGED << store, rules, now, due, history >>

\* An exception in parseTime or createCronJob ends the request.
Raise ==
  /\ HasLine /\ CurrentLine.filtering = "active" /\ Raises(CurrentLine.times)
  /\ request' = Idle
  /\ intact' = FALSE
  /\ UNCHANGED << store, rules, cronFile, now, due, requests, failures, settled >>

EndRequest ==
  /\ request.step = "parse" /\ request.next > Len(policies)
  /\ request' = Idle
  /\ UNCHANGED << store, rules, cronFile, now, due, history >>

Serve == WriteFile \/ Flush \/ SkipPassive \/ AddRule \/ AddJobs \/ Raise \/ EndRequest

-----------------------------------------------------------------------------
(* The cron daemon, and failures                                           *)

\* The jobs of the new moment begin.  Those that begin while a request is served
\* are of the generation before.
Tick ==
  /\ due = NoJobs
  /\ now' = (now + 1) % Week
  /\ due' = [start |-> {j \in cronFile.start : j.at = now'},
             stop  |-> {j \in cronFile.stop : j.at = now'}]
  /\ settled' = IF request.step = "idle" /\ settled < Week THEN settled + 1 ELSE settled
  /\ intact' = (intact /\ (request.step = "idle" \/ due' = NoJobs))
  /\ UNCHANGED << store, request, rules, cronFile, requests, failures >>

StartJob(j) ==
  /\ due' = [due EXCEPT !.start = @ \ {j}]
  /\ rules' = rules \cup {[num |-> j.num, id |-> j.id]}
  /\ UNCHANGED << store, request, cronFile, now, history >>

StopJob(j) ==
  /\ due' = [due EXCEPT !.stop = @ \ {j}]
  /\ rules' = {r \in rules : r.num # j.num}
  /\ UNCHANGED << store, request, cronFile, now, history >>

RunJob == (\E j \in due.start : StartJob(j)) \/ (\E j \in due.stop : StopJob(j))

\* The web server dies in the middle of a request; nothing is done when it is back.
Kill ==
  /\ failures < MaxFailures /\ request.step # "idle"
  /\ request' = Idle
  /\ failures' = failures + 1 /\ intact' = FALSE
  /\ UNCHANGED << store, rules, cronFile, now, due, requests, settled >>

\* The service script stops the firewall process and starts it, without rules.
RestartFirewall ==
  /\ failures < MaxFailures
  /\ rules' = {}
  /\ failures' = failures + 1 /\ intact' = FALSE
  /\ UNCHANGED << store, request, cronFile, now, due, requests, settled >>

Next ==
  \/ \E id \in Ids, offer \in Offers : Save(id, offer)
  \/ \E id \in Ids : Delete(id)
  \/ View
  \/ Serve
  \/ Tick
  \/ RunJob
  \/ Kill
  \/ RestartFirewall

Spec == Init /\ [][Next]_vars

-----------------------------------------------------------------------------
(* Properties *)

Steps == {"idle", "write", "flush", "parse"}
JobsOK(jobs) ==
  /\ jobs.start \subseteq [at : Moments, num : Nat, id : Ids]
  /\ jobs.stop \subseteq [at : Moments, num : Nat]

\* The types, and a file without its header is empty (policy.py, ipfw.py).
TypeOK ==
  /\ header \in BOOLEAN /\ intact \in BOOLEAN
  /\ policies \in Seq([id : Ids, filtering : {"active", "passive"}, times : Times])
  /\ ~header => policies = << >>
  /\ request.step \in Steps
  /\ rules \subseteq [num : Nat, id : Ids]
  /\ JobsOK(cronFile) /\ JobsOK(due) /\ JobsOK(request.cron)
  /\ now \in Moments /\ settled \in 0 .. Week
  /\ requests \in 0 .. MaxRequests /\ failures \in 0 .. MaxFailures

InForce(id) == \E r \in rules : r.id = id

\* What a policy's times mean: some row of them holds at moment m.
Covers(t, m) ==
  /\ (m \div Slots) \in t.days
  /\ \E r \in t.rows : r.start <= m % Slots /\ m % Slots < r.stop

Active(id, Holds(_)) ==
  \E i \in DOMAIN policies :
    policies[i].id = id /\ policies[i].filtering = "active" /\ Holds(policies[i].times)

\* The times the jobs are right for: rows that leave a gap between them, and on
\* consecutive days a row up to midnight if and only if there is one from midnight.
WellTimed(t) ==
  /\ ~Raises(t)
  /\ AllDay(t) \/
       /\ \A r, s \in t.rows : r = s \/ r.stop < s.start \/ s.stop < r.start
       /\ t.days # Days /\ (\E d \in t.days : (d + 1) % 7 \in t.days) =>
            ((\E r \in t.rows : r.start = 0) <=> (\E r \in t.rows : r.stop = Slots))

\* The cron file is written only when some policy needs a job.
Fresh == cronFile = NoJobs \/ \E i \in DOMAIN policies : Timed(policies[i])

Undisturbed == request.step = "idle" /\ due = NoJobs /\ intact /\ Fresh

\* A week after a request that ended well, if nothing disturbed the firewall, a
\* rule is in force exactly for the active policies whose times cover the moment
\* (updatePolicyConfig, parseIPFW, createCronJob, parseTime).
ExactEnforcement ==
  Undisturbed /\ settled = Week /\ (\A i \in DOMAIN policies : WellTimed(policies[i].times)) =>
    \A id \in Ids : InForce(id) <=> Active(id, LAMBDA t : Covers(t, now))

\* From the end of the request on, the policies that hold all day are in force,
\* and nothing is for a policy that was deleted or made passive: what a request
\* renumbers, no job of another policy deletes (parseIPFW, createCronJob).
AllDayAtOnce ==
  Undisturbed =>
    \A id \in Ids :
      /\ Active(id, AllDay) => InForce(id)
      /\ InForce(id) => Active(id, LAMBDA t : TRUE)

\* A job that begins a block is never written without one that ends it, wherever
\* a request fails or is killed (createCronJob).
BlocksEnd == \A s \in cronFile.start : \E e \in cronFile.stop : e.num = s.num

=============================================================================
