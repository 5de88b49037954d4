----------------------- MODULE PolicyEnforcementProofs ------------------------
(***************************************************************************)
(* Proofs about PolicyEnforcement for any policies, times and number of    *)
(* moments in a day: a block of traffic that a cron job begins has a job   *)
(* that ends it, and a request that ends well leaves the policies that     *)
(* hold all day in force, whatever the cron daemon does afterwards.        *)
(***************************************************************************)
EXTENDS PolicyEnforcement, FiniteSetTheorems, TLAPS

USE PolicyAssumption

Ended(cron) == \A s \in cron.start : \E e \in cron.stop : e.num = s.num

\* The jobs in the file, and those collected for it.
IInv == Ended(cronFile) /\ Ended(request.cron)

\* The jobs of one policy: a row whose days could be read has days on which it
\* stops, so whatever begins has an end under the same number (createCronJob).
LEMMA JobsEnd ==
  ASSUME NEW cron, Ended(cron), NEW p, NEW num, Timed(p), ~Raises(p.times)
  PROVE  Ended(WithJobs(cron, p, num))
<1> DEFINE new == WithJobs(cron, p, num)
           t == p.times
<1>1. /\ new.start = cron.start \cup {[at |-> m, num |-> num, id |-> p.id] : m \in Starts(t)}
      /\ new.stop = cron.stop \cup {[at |-> m, num |-> num] : m \in Stops(t)}
  BY DEF WithJobs
<1>2. ASSUME NEW s \in new.start PROVE \E e \in new.stop : e.num = s.num
  <2>1. CASE s \in cron.start
    BY <1>1, <2>1 DEF Ended
  <2>2. CASE s \in {[at |-> m, num |-> num, id |-> p.id] : m \in Starts(t)}
    <3>1. s.num = num /\ Starts(t) # {}
      BY <2>2
    <3>2. PICK r \in t.rows : TRUE
      BY <3>1 DEF Starts
    <3>3. StopDays(t, r.stop) # {}
      BY <3>2 DEF Timed, Raises
    <3>4. PICK m : m \in Stops(t)
      <4>1. PICK d : d \in StopDays(t, r.stop)
        BY <3>3
      <4>2. d * Slots + (r.stop % Slots) \in Stops(t)
        BY <4>1, <3>2 DEF Stops
      <4>3. QED
        BY <4>2
    <3>5. [at |-> m, num |-> num] \in new.stop
      BY <1>1, <3>4
    <3>6. QED
      BY <3>1, <3>5
  <2>3. QED
    BY <1>1, <2>1, <2>2
<1>3. QED
  BY <1>2 DEF Ended

LEMMA InitOK == Init => IInv
BY DEF Init, IInv, Ended, Idle, NoJobs

LEMMA IdleEnds == Ended(Idle.cron)
BY DEF Idle, Ended, NoJobs

\* Serving a request: only AddJobs collects jobs and writes them.
LEMMA ServeOK == ASSUME IInv, Serve PROVE IInv'
<1>1. CASE WriteFile
  BY <1>1 DEF IInv, Ended, WriteFile, history
<1>2. CASE Flush
  BY <1>2 DEF IInv, Ended, Flush, history
<1>3. CASE SkipPassive
  BY <1>3 DEF IInv, Ended, SkipPassive, history
<1>4. CASE AddRule
  BY <1>4 DEF IInv, Ended, AddRule, history
<1>5. CASE AddJobs
  <2> DEFINE cron == WithJobs(request.cron, CurrentLine, request.num)
  <2>1. cronFile' = cron /\ request' = [request EXCEPT !.next = @ + 1, !.num = @ + 1, !.cron = cron]
    BY <1>5 DEF AddJobs
  <2>2. Timed(CurrentLine) /\ ~Raises(CurrentLine.times) /\ Ended(request.cron)
    BY <1>5 DEF AddJobs, IInv
  <2>3. Ended(cron)
    BY <2>2, JobsEnd
  <2>4. QED
    BY <2>1, <2>3 DEF IInv
<1>6. CASE Raise
  BY <1>6, IdleEnds DEF IInv, Ended, Raise
<1>7. CASE EndRequest
  BY <1>7, IdleEnds DEF IInv, Ended, EndRequest, history
<1>8. QED
  BY <1>1, <1>2, <1>3, <1>4, <1>5, <1>6, <1>7 DEF Serve

LEMMA StepOK == IInv /\ [Next]_vars => IInv'
<1> SUFFICES ASSUME IInv, [Next]_vars PROVE IInv'
  OBVIOUS
<1>1. ASSUME NEW lines, Rewrite(lines) PROVE IInv'
  <2>1. request'.cron = NoJobs /\ cronFile' = cronFile
    BY <1>1 DEF Rewrite, Idle
  <2>2. QED
    BY <2>1 DEF IInv, Ended, NoJobs
<1>2. ASSUME NEW id \in Ids, NEW offer \in Offers, Save(id, offer) PROVE IInv'
  BY <1>1, <1>2 DEF Save
<1>3. ASSUME NEW id \in Ids, Delete(id) PROVE IInv'
  BY <1>1, <1>3 DEF Delete
<1>4. CASE Serve
  BY <1>4, ServeOK
<1>5. CASE View \/ Tick \/ RunJob \/ RestartFirewall
  BY <1>5 DEF IInv, Ended, View, Tick, RunJob, StartJob, StopJob, RestartFirewall, history
<1>6. CASE Kill
  BY <1>6, IdleEnds DEF IInv, Ended, Kill
<1>7. CASE UNCHANGED vars
  BY <1>7 DEF IInv, Ended, vars
<1>8. QED
  BY <1>2, <1>3, <1>4, <1>5, <1>6, <1>7 DEF Next

\* Whatever policies are saved, and wherever a request raises an exception or is
\* killed, a block that a job of the cron file begins is ended by another.
THEOREM BlocksEndCorrect == Spec => []BlocksEnd
<1>1. IInv => BlocksEnd
  BY DEF IInv, Ended, BlocksEnd
<1>2. QED
  BY InitOK, StepOK, <1>1, PTL DEF Spec

-----------------------------------------------------------------------------
(* Types *)

\* What a form can ask for: "Daily" means every day.
Offered == {t \in Times : t.label = "Daily" => t.days = Days}

Line == [id : Ids, filtering : {"active", "passive"}, times : Offered]
StartJobs == [at : Moments, num : Nat, id : Ids]
StopJobs == [at : Moments, num : Nat]
Jobs == [start : SUBSET StartJobs, stop : SUBSET StopJobs]
Requests == [step : Steps, lines : Seq(Line), next : Nat, num : Nat, cron : Jobs]

TypeInv ==
  /\ header \in BOOLEAN /\ intact \in BOOLEAN
  /\ policies \in Seq(Line)
  /\ ~header => policies = << >>
  /\ request \in Requests
  /\ rules \in SUBSET [num : Nat, id : Ids]
  /\ cronFile \in Jobs /\ due \in Jobs
  /\ now \in Moments /\ settled \in 0 .. Week
  /\ requests \in 0 .. MaxRequests /\ failures \in 0 .. MaxFailures

-----------------------------------------------------------------------------
(* All-day policies *)

IsActive(id) == \E i \in DOMAIN policies : policies[i].id = id /\ policies[i].filtering = "active"
AllDayLine(line) == line.filtering = "active" /\ AllDay(line.times)

\* What is in force is for active policies, and so are the jobs of cron; the first n
\* lines that hold all day are in force under numbers that no job of cron deletes.
Enforced(n, cron) ==
  /\ \A r \in rules : IsActive(r.id)
  /\ \A j \in cron.start : IsActive(j.id)
  /\ \A i \in DOMAIN policies : i <= n /\ AllDayLine(policies[i]) =>
       \E r \in rules : r.id = policies[i].id /\ \A e \in cron.stop : e.num # r.num

\* A request starts from nothing, at the first line ...
Beginning ==
  /\ request.step \in {"write", "flush"} => request.num = 0 /\ request.cron = NoJobs
  /\ request.step = "parse" => request.next >= 1

\* ... and gives every policy it comes to a number of its own; the cron file has all
\* the jobs so far as soon as there are some to be run.
Serving ==
  intact /\ request.step = "parse" =>
    /\ Enforced(request.next - 1, request.cron)
    /\ \A r \in rules : r.num < request.num
    /\ \A e \in request.cron.stop : e.num < request.num
    /\ (\E i \in DOMAIN policies : i < request.next /\ Timed(policies[i])) =>
         cronFile = request.cron

\* Once it is served, the daemon begins jobs of the file only.
Served ==
  intact /\ request.step = "idle" /\ Fresh =>
    /\ Enforced(Len(policies), cronFile)
    /\ due.start \subseteq cronFile.start /\ due.stop \subseteq cronFile.stop

Quiet == intact /\ request.step # "idle" => due = NoJobs

EInv == TypeInv /\ Beginning /\ Serving /\ Served /\ Quiet

\* The positions kept have ranks 1, 2, ...: a position is found for each of them.
LEMMA RankExists ==
  ASSUME NEW n \in Nat, NEW kept \in SUBSET (1 .. n), NEW k \in 1 .. Cardinality(kept)
  PROVE  \E i \in kept : Rank(kept, i) = k
<1> DEFINE Below(i) == {j \in kept : j <= i}
           rank == [i \in kept |-> Cardinality(Below(i))]
           C == Cardinality(kept)
<1>1. IsFiniteSet(kept) /\ C \in Nat
  <2>1. IsFiniteSet(1 .. n)
    BY FS_Interval
  <2>2. IsFiniteSet(kept)
    BY <2>1, FS_Subset
  <2>3. QED
    BY <2>2, FS_CardinalityType
<1>2. ASSUME NEW i \in kept
      PROVE  IsFiniteSet(Below(i)) /\ Cardinality(Below(i)) \in 1 .. C
  <2>1. Below(i) \in SUBSET kept /\ i \in Below(i)
    OBVIOUS
  <2>2. IsFiniteSet(Below(i)) /\ Cardinality(Below(i)) <= C
    BY <1>1, <2>1, FS_Subset
  <2>3. Cardinality(Below(i)) \in Nat /\ Cardinality(Below(i)) # 0
    BY <2>1, <2>2, FS_CardinalityType, FS_EmptySet
  <2>4. QED
    BY <1>1, <2>2, <2>3
<1>3. rank \in [kept -> 1 .. C]
  BY <1>2
<1>4. ASSUME NEW i \in kept, NEW j \in kept, i < j PROVE rank[i] # rank[j]
  <2>1. Below(i) \in SUBSET Below(j) /\ j \in Below(j) /\ j \notin Below(i)
    <3>1. \A x \in kept : x \in Nat
      OBVIOUS
    <3>2. j \in Below(j) /\ j \notin Below(i)
      BY <1>4, <3>1
    <3>3. ASSUME NEW x \in Below(i) PROVE x \in Below(j)
      BY <1>4, <3>1
    <3>4. QED
      BY <3>2, <3>3
  <2>2. Cardinality(Below(i)) # Cardinality(Below(j))
    BY <1>2, <2>1, FS_Subset
  <2>3. QED
    BY <2>2
<1> HIDE DEF rank
<1>5. rank \in Injection(kept, 1 .. C)
  <2>1. ASSUME NEW i \in kept, NEW j \in kept, i # j PROVE rank[i] # rank[j]
    <3>1. i \in Nat /\ j \in Nat /\ (i < j \/ j < i)
      BY <2>1
    <3>2. QED
      BY <1>4, <3>1
  <2>2. QED
    BY <1>3, <2>1 DEF Injection, IsInjective
<1>6. IsFiniteSet(1 .. C) /\ Cardinality(1 .. C) = C
  BY <1>1, FS_Interval
<1>7. rank \in Surjection(kept, 1 .. C)
  BY <1>5, <1>6, FS_Injection
<1>8. QED
  BY <1>7 DEF Surjection, Rank, rank

\* What a filter keeps of the file are lines.
LEMMA LinesOK ==
  ASSUME policies \in Seq(Line), NEW kept \in SUBSET DOMAIN policies
  PROVE  Filtered(policies, kept) \in Seq(Line)
<1>1. Len(policies) \in Nat /\ kept \in SUBSET (1 .. Len(policies))
  OBVIOUS
<1>2. Cardinality(kept) \in Nat
  <2>1. IsFiniteSet(1 .. Len(policies))
    BY <1>1, FS_Interval
  <2>2. IsFiniteSet(kept)
    BY <1>1, <2>1, FS_Subset
  <2>3. QED
    BY <2>2, FS_CardinalityType
<1>3. ASSUME NEW k \in 1 .. Cardinality(kept)
      PROVE  policies[CHOOSE i \in kept : Rank(kept, i) = k] \in Line
  <2>1. \E i \in kept : Rank(kept, i) = k
    BY <1>1, RankExists
  <2>2. (CHOOSE i \in kept : Rank(kept, i) = k) \in kept
    BY <2>1
  <2>3. QED
    BY <2>2
<1>4. Filtered(policies, kept) \in [1 .. Cardinality(kept) -> Line]
  BY <1>3 DEF Filtered
<1>5. QED
  BY <1>2, <1>4

\* A day and a moment of it make a moment of the week.
LEMMA MomentOfDay ==
  ASSUME NEW d \in Days, NEW slot \in 0 .. Slots - 1
  PROVE  d * Slots + slot \in Moments
<1>1. d = 0 \/ d = 1 \/ d = 2 \/ d = 3 \/ d = 4 \/ d = 5 \/ d = 6
  BY DEF Days
<1>2. QED
  BY <1>1 DEF Moments, Week

\* The jobs of a policy are at moments of the week (parseTime).
LEMMA JobTimes ==
  ASSUME NEW t \in Times
  PROVE  Starts(t) \subseteq Moments /\ Stops(t) \subseteq Moments
<1>1. t.days \subseteq Days /\ t.rows \subseteq Rows
  BY DEF Times
<1>2. ASSUME NEW r \in t.rows
      PROVE  /\ r.start \in 0 .. Slots - 1 /\ r.stop % Slots \in 0 .. Slots - 1
             /\ StartDays(t, r.start) \subseteq Days /\ StopDays(t, r.stop) \subseteq Days
  <2>1. r.start \in 0 .. Slots - 1 /\ r.stop \in 1 .. Slots
    BY <1>1 DEF Rows
  <2>2. r.stop % Slots \in 0 .. Slots - 1
    BY <2>1
  <2>3. \A d \in Days : (d + 1) % 7 \in Days
    BY DEF Days
  <2>4. QED
    BY <1>1, <2>1, <2>2, <2>3 DEF StartDays, StopDays
<1>3. ASSUME NEW m \in Starts(t) PROVE m \in Moments
  <2>1. PICK r \in t.rows : \E d \in StartDays(t, r.start) : m = d * Slots + r.start
    BY DEF Starts
  <2>2. QED
    BY <1>2, <2>1, MomentOfDay
<1>4. ASSUME NEW m \in Stops(t) PROVE m \in Moments
  <2>1. PICK r \in t.rows : \E d \in StopDays(t, r.stop) : m = d * Slots + (r.stop % Slots)
    BY DEF Stops
  <2>2. QED
    BY <1>2, <2>1, MomentOfDay
<1>5. QED
  BY <1>3, <1>4

LEMMA WithJobsType ==
  ASSUME NEW cron \in Jobs, NEW line \in Line, NEW num \in Nat
  PROVE  WithJobs(cron, line, num) \in Jobs
<1>1. line.id \in Ids /\ line.times \in Times
  BY DEF Line, Offered
<1>2. {[at |-> m, num |-> num, id |-> line.id] : m \in Starts(line.times)} \subseteq StartJobs
  BY <1>1, JobTimes DEF StartJobs
<1>3. {[at |-> m, num |-> num] : m \in Stops(line.times)} \subseteq StopJobs
  BY <1>1, JobTimes DEF StopJobs
<1>4. QED
  BY <1>2, <1>3 DEF WithJobs, Jobs

\* A request begins with the lines that it will write.
LEMMA RewriteType ==
  ASSUME TypeInv, NEW lines \in Seq(Line), Rewrite(lines)
  PROVE  TypeInv'
<1>1. NoJobs \in Jobs
  BY DEF NoJobs, Jobs
<1>2. request' = [step |-> "write", lines |-> lines, next |-> 0, num |-> 0, cron |-> NoJobs]
  BY DEF Rewrite, Idle
<1>3. request' \in Requests
  BY <1>1, <1>2 DEF Requests, Steps
<1>4. header' = FALSE /\ policies' = << >> /\ intact' \in BOOLEAN
  BY DEF Rewrite
<1>5. requests' \in 0 .. MaxRequests /\ failures' \in 0 .. MaxFailures /\ settled' \in 0 .. Week
  BY DEF Rewrite, TypeInv, Week
<1>6. UNCHANGED << rules, cronFile, now, due >>
  BY DEF Rewrite
<1>7. policies' \in Seq(Line)
  BY <1>4
<1>8. QED
  BY <1>3, <1>4, <1>5, <1>6, <1>7 DEF TypeInv

LEMMA SaveType ==
  ASSUME TypeInv, NEW id \in Ids, NEW offer \in Offers, Save(id, offer)
  PROVE  TypeInv'
<1> DEFINE line == [id |-> id, filtering |-> offer.filtering, times |-> offer.times]
           at == {i \in DOMAIN policies : policies[i].id = id}
           lines == IF at = {} THEN Append(policies, line)
                    ELSE [i \in DOMAIN policies |-> IF i \in at THEN line ELSE policies[i]]
<1>1. line \in Line /\ policies \in Seq(Line)
  <2>1. offer.filtering \in {"active", "passive"} /\ offer.times \in Offered
    BY DEF Offered
  <2>2. QED
    BY <2>1 DEF Line, TypeInv
<1>2. Append(policies, line) \in Seq(Line)
  BY <1>1
<1>3. [i \in DOMAIN policies |-> IF i \in at THEN line ELSE policies[i]] \in Seq(Line)
  <2>1. Len(policies) \in Nat /\ DOMAIN policies = 1 .. Len(policies)
    BY <1>1
  <2>2. \A i \in DOMAIN policies : policies[i] \in Line
    BY <1>1
  <2> HIDE DEF line, at
  <2>3. [i \in DOMAIN policies |-> IF i \in at THEN line ELSE policies[i]]
          \in [1 .. Len(policies) -> Line]
    BY <1>1, <2>1, <2>2
  <2>4. QED
    BY <2>1, <2>3
<1>4. Rewrite(lines)
  BY DEF Save
<1>5. QED
  BY <1>2, <1>3, <1>4, RewriteType

LEMMA DeleteType == ASSUME TypeInv, NEW id \in Ids, Delete(id) PROVE TypeInv'
<1>1. policies \in Seq(Line)
  BY DEF TypeInv
<1>2. Filtered(policies, {i \in DOMAIN policies : policies[i].id # id}) \in Seq(Line)
  BY <1>1, LinesOK
<1>3. QED
  BY <1>2, RewriteType DEF Delete

\* The line that a request has come to is one of the file's.
LEMMA CurrentLineType ==
  ASSUME TypeInv, Beginning, HasLine
  PROVE  request.next \in DOMAIN policies /\ CurrentLine \in Line
<1>1. request.next \in Nat /\ policies \in Seq(Line)
  BY DEF TypeInv, Requests
<1>2. request.next >= 1
  BY DEF Beginning, HasLine
<1>3. QED
  BY <1>1, <1>2 DEF HasLine, CurrentLine

\* Serving a request keeps the types.
LEMMA ServeType == ASSUME TypeInv, Beginning, Serve PROVE TypeInv' /\ Beginning'
<1>1. request \in Requests /\ policies \in Seq(Line)
  BY DEF TypeInv
<1>2. NoJobs \in Jobs /\ Idle \in Requests /\ Idle.step = "idle"
  BY DEF NoJobs, Jobs, Idle, Requests, Steps
<1>3. CASE WriteFile
  <2>1. /\ request'.step = "flush" /\ request'.num = request.num /\ request'.cron = request.cron
        /\ request' \in Requests
    BY <1>1, <1>3 DEF WriteFile, Requests, Steps
  <2>2. header' = TRUE /\ policies' \in Seq(Line)
    BY <1>1, <1>3 DEF WriteFile, Requests
  <2>3. UNCHANGED << rules, cronFile, now, due, history >>
    BY <1>3 DEF WriteFile
  <2>4. TypeInv'
    BY <2>1, <2>2, <2>3 DEF TypeInv, history
  <2>5. QED
    BY <1>3, <2>1, <2>4 DEF Beginning, WriteFile
<1>4. CASE Flush
  <2>1. request'.step = "parse" /\ request'.next = 1 /\ request' \in Requests
    BY <1>1, <1>4 DEF Flush, Requests, Steps
  <2>2. rules' = {} /\ UNCHANGED << store, cronFile, now, due, history >>
    BY <1>4 DEF Flush
  <2>3. TypeInv'
    BY <2>1, <2>2 DEF TypeInv, store, history
  <2>4. QED
    BY <2>1, <2>3 DEF Beginning
<1>5. CASE SkipPassive
  <2>1. request' = [request EXCEPT !.next = @ + 1] /\ request.step = "parse"
    BY <1>5 DEF SkipPassive, HasLine
  <2>2. request'.step = "parse" /\ request'.next = request.next + 1 /\ request' \in Requests
    BY <1>1, <2>1 DEF Requests
  <2>3. UNCHANGED << store, rules, cronFile, now, due, history >>
    BY <1>5 DEF SkipPassive
  <2>4. TypeInv'
    BY <2>2, <2>3 DEF TypeInv, store, history
  <2>5. QED
    BY <1>1, <2>1, <2>2, <2>4 DEF Beginning, Requests
<1>6. CASE AddRule
  <2>1. request' = [request EXCEPT !.next = @ + 1, !.num = @ + 1] /\ request.step = "parse"
    BY <1>6 DEF AddRule, HasLine
  <2>2. request'.step = "parse" /\ request'.next = request.next + 1 /\ request' \in Requests
    <3>1. request.next + 1 \in Nat /\ request.num + 1 \in Nat
      BY <1>1 DEF Requests
    <3>2. request' = [step |-> request.step, lines |-> request.lines, next |-> request.next + 1,
                      num |-> request.num + 1, cron |-> request.cron]
      BY <1>1, <2>1 DEF Requests
    <3>3. QED
      BY <1>1, <2>1, <3>1, <3>2 DEF Requests
  <2>3. UNCHANGED << store, cronFile, now, due, history >>
    BY <1>6 DEF AddRule
  <2>4. CurrentLine \in Line
    BY <1>6, CurrentLineType DEF AddRule
  <2>5. rules' \in SUBSET [num : Nat, id : Ids]
    BY <1>1, <1>6, <2>4 DEF AddRule, TypeInv, Line, Requests
  <2>6. TypeInv'
    BY <2>2, <2>3, <2>5 DEF TypeInv, store, history
  <2>7. QED
    BY <1>1, <2>1, <2>2, <2>6 DEF Beginning, Requests
<1>7. CASE AddJobs
  <2> DEFINE cron == WithJobs(request.cron, CurrentLine, request.num)
  <2>1. /\ request' = [request EXCEPT !.next = @ + 1, !.num = @ + 1, !.cron = cron]
        /\ request.step = "parse" /\ cronFile' = cron
    BY <1>7 DEF AddJobs, HasLine
  <2>2. CurrentLine \in Line
    BY <1>7, CurrentLineType DEF AddJobs
  <2>3. cron \in Jobs
    BY <1>1, <2>2, WithJobsType DEF Requests
  <2> HIDE DEF cron
  <2>4. request'.step = "parse" /\ request'.next = request.next + 1 /\ request' \in Requests
    <3>1. request.next + 1 \in Nat /\ request.num + 1 \in Nat
      BY <1>1 DEF Requests
    <3>2. request' = [step |-> request.step, lines |-> request.lines, next |-> request.next + 1,
                      num |-> request.num + 1, cron |-> cron]
      BY <1>1, <2>1 DEF Requests
    <3>3. QED
      BY <1>1, <2>1, <2>3, <3>1, <3>2 DEF Requests
  <2>5. UNCHANGED << store, rules, now, due, history >>
    BY <1>7 DEF AddJobs
  <2>6. TypeInv'
    BY <2>1, <2>3, <2>4, <2>5 DEF TypeInv, store, history
  <2>7. QED
    BY <1>1, <2>1, <2>4, <2>6 DEF Beginning, Requests
<1>8. CASE Raise
  <2>1. request' = Idle /\ intact' = FALSE
    BY <1>8 DEF Raise
  <2>2. UNCHANGED << store, rules, cronFile, now, due, requests, failures, settled >>
    BY <1>8 DEF Raise
  <2>3. QED
    BY <1>2, <2>1, <2>2 DEF TypeInv, Beginning, store
<1>9. CASE EndRequest
  <2>1. request' = Idle /\ UNCHANGED << store, rules, cronFile, now, due, history >>
    BY <1>9 DEF EndRequest
  <2>2. QED
    BY <1>2, <2>1 DEF TypeInv, Beginning, store, history
<1>10. QED
  BY <1>3, <1>4, <1>5, <1>6, <1>7, <1>8, <1>9 DEF Serve

\* The steps of the cron daemon, of the service script and of a page keep the types.
LEMMA DaemonType ==
  ASSUME TypeInv, View \/ Tick \/ RunJob \/ Kill \/ RestartFirewall
  PROVE  TypeInv'
<1>1. CASE View
  BY <1>1 DEF View, TypeInv, history
<1>2. CASE Tick
  <2>1. Week \in Nat /\ Week # 0
    BY DEF Week
  <2>2. now' \in Moments
    <3>1. now \in Nat
      BY <2>1 DEF TypeInv, Moments
    <3>2. (now + 1) % Week \in 0 .. Week - 1
      BY <2>1, <3>1
    <3>3. QED
      BY <1>2, <3>2 DEF Tick, Moments
  <2>3. due' \in Jobs
    BY <1>2 DEF Tick, TypeInv, Jobs
  <2>4. settled' \in 0 .. Week
    <3>1. settled \in 0 .. Week
      BY DEF TypeInv
    <3>2. settled' = settled \/ (settled < Week /\ settled' = settled + 1)
      BY <1>2 DEF Tick
    <3>3. QED
      BY <2>1, <3>1, <3>2
  <2>5. intact' \in BOOLEAN
    BY <1>2 DEF Tick
  <2>6. UNCHANGED << store, request, rules, cronFile, requests, failures >>
    BY <1>2 DEF Tick
  <2>7. QED
    BY <2>2, <2>3, <2>4, <2>5, <2>6 DEF TypeInv, store
<1>3. ASSUME NEW j \in due.start, StartJob(j) PROVE TypeInv'
  <2>1. j \in StartJobs /\ due \in Jobs
    BY DEF TypeInv, Jobs
  <2>2. rules' \in SUBSET [num : Nat, id : Ids]
    BY <1>3, <2>1 DEF StartJob, TypeInv, StartJobs
  <2>3. due' \in Jobs
    BY <1>3, <2>1 DEF StartJob, Jobs
  <2>4. UNCHANGED << store, request, cronFile, now, history >>
    BY <1>3 DEF StartJob
  <2>5. QED
    BY <2>2, <2>3, <2>4 DEF TypeInv, store, history
<1>4. ASSUME NEW j \in due.stop, StopJob(j) PROVE TypeInv'
  <2>1. due \in Jobs
    BY DEF TypeInv
  <2>2. rules' \in SUBSET [num : Nat, id : Ids]
    BY <1>4 DEF StopJob, TypeInv
  <2>3. due' \in Jobs
    BY <1>4, <2>1 DEF StopJob, Jobs
  <2>4. UNCHANGED << store, request, cronFile, now, history >>
    BY <1>4 DEF StopJob
  <2>5. QED
    BY <2>2, <2>3, <2>4 DEF TypeInv, store, history
<1>5. CASE Kill
  <2>1. NoJobs \in Jobs /\ Idle \in Requests
    BY DEF NoJobs, Jobs, Idle, Requests, Steps
  <2>2. failures' \in 0 .. MaxFailures
    BY <1>5 DEF Kill, TypeInv
  <2>3. QED
    BY <1>5, <2>1, <2>2 DEF Kill, TypeInv, store
<1>6. CASE RestartFirewall
  <2>1. failures' \in 0 .. MaxFailures
    BY <1>6 DEF RestartFirewall, TypeInv
  <2>2. QED
    BY <1>6, <2>1 DEF RestartFirewall, TypeInv, store
<1>7. QED
  BY <1>1, <1>2, <1>3, <1>4, <1>5, <1>6 DEF RunJob

-----------------------------------------------------------------------------
(* Jobs and times *)

\* The day and the slot of a moment.
LEMMA SlotOfMoment ==
  ASSUME NEW m \in Moments
  PROVE  /\ m \div Slots \in Days /\ m % Slots \in 0 .. Slots - 1
         /\ m = (m \div Slots) * Slots + (m % Slots)
<1>1. m \in Nat /\ m < 7 * Slots /\ Slots \in Nat /\ Slots > 0
  BY DEF Moments, Week
<1>2. m % Slots \in 0 .. Slots - 1 /\ m = (m \div Slots) * Slots + (m % Slots)
  BY <1>1
<1>3. m \div Slots \in Nat
  BY <1>1
<1>4. m \div Slots < 7
  BY <1>1, <1>2, <1>3
<1>5. m \div Slots \in Days
  <2>1. PICK q \in Nat : q = m \div Slots
    BY <1>3
  <2>2. q < 7
    BY <1>4, <2>1
  <2>3. q \in Days
    BY <2>2 DEF Days
  <2>4. QED
    BY <2>1, <2>3
<1>6. QED
  BY <1>2, <1>5, Zenon

LEMMA DayAndSlot ==
  ASSUME NEW d \in Days, NEW slot \in 0 .. Slots - 1
  PROVE  /\ (d * Slots + slot) \in Moments
         /\ (d * Slots + slot) \div Slots = d /\ (d * Slots + slot) % Slots = slot
<1> DEFINE m == d * Slots + slot
<1>1. m \in Moments
  BY MomentOfDay
<1>2. PICK q \in Days, r \in 0 .. Slots - 1 : q = m \div Slots /\ r = m % Slots /\ m = q * Slots + r
  BY <1>1, SlotOfMoment
<1>3. Slots \in Nat /\ Slots > 0 /\ d * Slots + slot = q * Slots + r
  BY <1>2
<1>4. /\ d = 0 \/ d = 1 \/ d = 2 \/ d = 3 \/ d = 4 \/ d = 5 \/ d = 6
      /\ q = 0 \/ q = 1 \/ q = 2 \/ q = 3 \/ q = 4 \/ q = 5 \/ q = 6
  BY DEF Days
<1>5. q = d /\ r = slot
  BY <1>3, <1>4
<1>6. QED
  BY <1>1, <1>2, <1>5

\* The moment after one is the next slot of its day, or the first one of the next day.
LEMMA NextMoment ==
  ASSUME NEW m \in Moments, NEW d \in Days, NEW slot \in 0 .. Slots - 1, m = d * Slots + slot
  PROVE  /\ slot + 1 < Slots => (m + 1) % Week = d * Slots + (slot + 1)
         /\ slot + 1 = Slots => (m + 1) % Week = ((d + 1) % 7) * Slots
<1>1. Slots \in Nat /\ Slots > 0 /\ slot \in Nat /\ slot < Slots /\ Week = 7 * Slots
  BY DEF Week
<1>2. d = 0 \/ d = 1 \/ d = 2 \/ d = 3 \/ d = 4 \/ d = 5 \/ d = 6
  BY DEF Days
<1>3. slot + 1 < Slots => (m + 1) % Week = d * Slots + (slot + 1)
  BY <1>1, <1>2
<1>4. slot + 1 = Slots => (m + 1) % Week = ((d + 1) % 7) * Slots
  <2>1. SUFFICES ASSUME slot + 1 = Slots PROVE (m + 1) % Week = ((d + 1) % 7) * Slots
    OBVIOUS
  <2>2. CASE d = 6
    <3>1. m + 1 = Week /\ (d + 1) % 7 = 0
      BY <1>1, <2>1, <2>2
    <3>2. Week % Week = 0
      BY <1>1
    <3>3. QED
      BY <1>1, <3>1, <3>2
  <2>3. CASE d # 6
    <3>1. (d + 1) % 7 = d + 1 /\ m + 1 = (d + 1) * Slots
      BY <1>1, <1>2, <2>1, <2>3
    <3>2. m + 1 \in 0 .. Week - 1
      BY <1>1, <1>2, <2>1, <2>3
    <3>3. QED
      BY <1>1, <3>1, <3>2
  <2>4. QED
    BY <2>2, <2>3
<1>5. QED
  BY <1>3, <1>4

\* What a policy's times say of a moment given as a day and a slot.
LEMMA CoversAt ==
  ASSUME NEW t \in Times, NEW d \in Days, NEW slot \in 0 .. Slots - 1
  PROVE  Covers(t, d * Slots + slot) <=>
           d \in t.days /\ \E r \in t.rows : r.start <= slot /\ slot < r.stop
<1>1. (d * Slots + slot) \div Slots = d /\ (d * Slots + slot) % Slots = slot
  BY DayAndSlot
<1>2. QED
  BY <1>1 DEF Covers

LEMMA RowType ==
  ASSUME NEW t \in Times, NEW r \in t.rows
  PROVE  /\ r.start \in 0 .. Slots - 1 /\ r.stop \in 1 .. Slots /\ r.start < r.stop
         /\ t.days \subseteq Days
         /\ StartDays(t, r.start) \subseteq t.days
         /\ r.stop < Slots => r.stop % Slots = r.stop /\ StopDays(t, r.stop) = t.days
         /\ r.stop = Slots => r.stop % Slots = 0
<1>1. r.start \in 0 .. Slots - 1 /\ r.stop \in 1 .. Slots /\ r.start < r.stop /\ t.days \subseteq Days
  BY DEF Times, Rows
<1>2. StartDays(t, r.start) \subseteq t.days
  BY DEF StartDays
<1>3. r.stop < Slots => r.stop % Slots = r.stop /\ StopDays(t, r.stop) = t.days
  BY <1>1 DEF StopDays
<1>4. Slots % Slots = 0
  OBVIOUS
<1>5. QED
  BY <1>1, <1>2, <1>3, <1>4

\* A job begins where the times cover the moment ...
LEMMA StartsCover ==
  ASSUME NEW t \in Times, NEW m \in Starts(t)
  PROVE  Covers(t, m)
<1>1. PICK r \in t.rows : \E d \in StartDays(t, r.start) : m = d * Slots + r.start
  BY DEF Starts
<1>2. PICK d \in StartDays(t, r.start) : m = d * Slots + r.start
  BY <1>1
<1>3. d \in t.days /\ d \in Days /\ r.start \in 0 .. Slots - 1 /\ r.start < r.stop
  BY RowType
<1>4. r.start <= r.start
  BY <1>3
<1>5. QED
  BY <1>2, <1>3, <1>4, CoversAt

\* ... and ends where they do not.
LEMMA StopsUncover ==
  ASSUME NEW t \in Times, WellTimed(t), ~AllDay(t), NEW m \in Stops(t)
  PROVE  ~Covers(t, m)
<1>1. PICK r \in t.rows : \E d \in StopDays(t, r.stop) : m = d * Slots + (r.stop % Slots)
  BY DEF Stops
<1>2. PICK d \in StopDays(t, r.stop) : m = d * Slots + (r.stop % Slots)
  BY <1>1
<1>3. r.start \in 0 .. Slots - 1 /\ r.stop \in 1 .. Slots /\ r.start < r.stop /\ t.days \subseteq Days
  BY RowType
<1>4. CASE r.stop < Slots
  <2>1. d \in Days /\ r.stop \in 0 .. Slots - 1 /\ m = d * Slots + r.stop
    BY <1>2, <1>3, <1>4, RowType
  <2>2. ASSUME NEW q \in t.rows, q.start <= r.stop, r.stop < q.stop PROVE FALSE
    <3>1. q = r \/ r.stop < q.start \/ q.stop < r.start
      BY DEF WellTimed
    <3>2. q.start \in Nat /\ q.stop \in Nat
      BY RowType
    <3>3. QED
      BY <1>3, <2>2, <3>1, <3>2
  <2>3. QED
    BY <2>1, <2>2, CoversAt
<1>5. CASE r.stop = Slots
  <2>1. d \in StopDays(t, Slots) /\ d \notin t.days /\ d \in Days
    <3>1. d \in {(e + 1) % 7 : e \in {x \in t.days : (x + 1) % 7 \notin t.days}}
      BY <1>5 DEF StopDays
    <3>2. PICK e \in t.days : d = (e + 1) % 7 /\ (e + 1) % 7 \notin t.days
      BY <3>1
    <3>3. (e + 1) % 7 \in Days
      BY <1>3 DEF Days
    <3>4. QED
      BY <1>5, <3>2, <3>3
  <2>2. m = d * Slots + 0 /\ 0 \in 0 .. Slots - 1
    BY <1>2, <1>5, RowType
  <2>3. QED
    BY <2>1, <2>2, CoversAt
<1>6. QED
  BY <1>3, <1>4, <1>5

\* Times that cover a moment have a job that begins.
LEMMA CoveredStarts ==
  ASSUME NEW t \in Times, WellTimed(t), ~AllDay(t), NEW m, Covers(t, m)
  PROVE  Starts(t) # {}
<1>1. PICK r \in t.rows : TRUE
  BY DEF Covers
<1>2. PICK d \in StartDays(t, r.start) : TRUE
  BY DEF WellTimed, Raises
<1>3. d * Slots + r.start \in Starts(t)
  BY DEF Starts
<1>4. QED
  BY <1>3

\* Where no job begins or ends, nothing changes.
LEMMA CoversOn ==
  ASSUME NEW t \in Times, WellTimed(t), ~AllDay(t), NEW m \in Moments,
         (m + 1) % Week \notin Starts(t) \cup Stops(t)
  PROVE  Covers(t, (m + 1) % Week) <=> Covers(t, m)
<1> DEFINE next == (m + 1) % Week
<1>1. PICK d \in Days, slot \in 0 .. Slots - 1 : m = d * Slots + slot
  BY SlotOfMoment
<1>2. t.days \subseteq Days /\ Slots \in Nat /\ slot \in Nat
  BY <1>1 DEF Times
<1>3. \A r \in t.rows : \A x \in StartDays(t, r.start) : next # x * Slots + r.start
  BY DEF Starts
<1>4. \A r \in t.rows : \A x \in StopDays(t, r.stop) : next # x * Slots + (r.stop % Slots)
  BY DEF Stops
<1>5. /\ slot + 1 < Slots => next = d * Slots + (slot + 1)
      /\ slot + 1 = Slots => next = ((d + 1) % 7) * Slots
  BY <1>1, NextMoment
<1> HIDE DEF next
<1>6. CASE slot + 1 < Slots
  <2>1. slot + 1 \in 0 .. Slots - 1 /\ next = d * Slots + (slot + 1) /\ slot + 1 # 0
    BY <1>2, <1>5, <1>6
  <2>2. ASSUME NEW r \in t.rows, d \in t.days
        PROVE  r.start <= slot + 1 /\ slot + 1 < r.stop <=> r.start <= slot /\ slot < r.stop
    <3>1. r.start \in Nat /\ r.stop \in Nat
      BY RowType
    <3>2. r.start # slot + 1
      <4>1. r.start = slot + 1 => StartDays(t, r.start) = t.days
        BY <2>1 DEF StartDays
      <4>2. QED
        BY <1>3, <2>1, <2>2, <4>1
    <3>3. r.stop # slot + 1
      <4>1. r.stop = slot + 1 => StopDays(t, r.stop) = t.days /\ r.stop % Slots = slot + 1
        BY <1>6, RowType
      <4>2. QED
        BY <1>4, <2>1, <2>2, <4>1
    <3>4. QED
      BY <1>2, <3>1, <3>2, <3>3
  <2>3. QED
    BY <1>1, <2>1, <2>2, CoversAt DEF next
<1>7. CASE slot + 1 = Slots
  <2> DEFINE e == (d + 1) % 7
  <2>1. e \in Days /\ (e + 6) % 7 = d
    BY DEF Days
  <2>2. 0 \in 0 .. Slots - 1 /\ next = e * Slots + 0
    BY <1>2, <1>5, <1>7, <2>1 DEF Days
  <2>3. Covers(t, next) <=> e \in t.days /\ \E r \in t.rows : r.start = 0
    <3>1. \A r \in t.rows : r.start <= 0 /\ 0 < r.stop <=> r.start = 0
      BY RowType
    <3>2. QED
      BY <2>1, <2>2, <3>1, CoversAt
  <2>4. Covers(t, m) <=> d \in t.days /\ \E r \in t.rows : r.stop = Slots
    <3>1. \A r \in t.rows : r.start <= slot /\ slot < r.stop <=> r.stop = Slots
      BY <1>2, <1>7, RowType
    <3>2. QED
      BY <1>1, <3>1, CoversAt
  <2> HIDE DEF e
  <2>5. ASSUME d \in t.days, e \in t.days, t.days # Days
        PROVE  (\E r \in t.rows : r.start = 0) <=> (\E r \in t.rows : r.stop = Slots)
    BY <2>5 DEF WellTimed, e
  <2>6. ASSUME e \in t.days, NEW r \in t.rows, r.start = 0 PROVE d \in t.days /\ t.days # Days
    <3>1. e \notin StartDays(t, 0)
      BY <1>3, <2>2, <2>6
    <3>2. QED
      BY <2>1, <2>6, <3>1 DEF StartDays
  <2>7. ASSUME d \in t.days, NEW r \in t.rows, r.stop = Slots PROVE e \in t.days /\ t.days # Days
    <3>1. e \notin StopDays(t, Slots)
      BY <1>4, <2>2, <2>7, RowType
    <3>2. e \in t.days
      BY <2>7, <3>1 DEF StopDays, e
    <3>3. t.days # Days
      <4>1. StopDays(t, Slots) # {}
        BY <2>7 DEF WellTimed, Raises
      <4>2. \A x \in Days : (x + 1) % 7 \in Days
        BY DEF Days
      <4>3. QED
        BY <4>1, <4>2 DEF StopDays
    <3>4. QED
      BY <3>2, <3>3
  <2>8. QED
    BY <2>3, <2>4, <2>5, <2>6, <2>7 DEF next
<1>8. QED
  BY <1>1, <1>2, <1>6, <1>7

-----------------------------------------------------------------------------
(* The invariant, step by step *)

LEMMA InitEInv == Init => EInv
<1> SUFFICES ASSUME Init PROVE EInv
  OBVIOUS
<1>1. request = Idle /\ intact = FALSE /\ due = NoJobs
  BY DEF Init
<1>2. NoJobs \in Jobs /\ Idle \in Requests /\ Idle.step = "idle"
  BY DEF NoJobs, Jobs, Idle, Requests, Steps
<1>3. now \in Moments /\ settled \in 0 .. Week
  BY DEF Init, Moments, Week
<1>4. TypeInv
  <2>1. << >> \in Seq(Line) /\ {} \in SUBSET [num : Nat, id : Ids]
    OBVIOUS
  <2>2. 0 \in 0 .. MaxRequests /\ 0 \in 0 .. MaxFailures
    OBVIOUS
  <2>3. QED
    BY <1>2, <1>3, <2>1, <2>2 DEF Init, TypeInv
<1>5. QED
  BY <1>1, <1>2, <1>4 DEF EInv, Beginning, Serving, Served, Quiet

\* The file is emptied: nothing is promised until the request has come to the lines.
LEMMA RewriteEnforces ==
  ASSUME EInv, NEW lines, Rewrite(lines)
  PROVE  Beginning' /\ Serving' /\ Served' /\ Quiet'
<1>1. request'.step = "write" /\ request'.num = 0 /\ request'.cron = NoJobs
  BY DEF Rewrite, Idle
<1>2. intact' = (due = NoJobs) /\ due' = due
  BY DEF Rewrite
<1>3. QED
  BY <1>1, <1>2 DEF Beginning, Serving, Served, Quiet

\* The firewall is flushed: there is nothing in force, and no line was read.
LEMMA FlushEnforces == ASSUME EInv, Flush PROVE Serving' /\ Served' /\ Quiet'
<1>1. request \in Requests /\ policies \in Seq(Line)
  BY DEF EInv, TypeInv
<1>2. request'.step = "parse" /\ request'.next = 1 /\ request'.num = 0 /\ request'.cron = NoJobs
  BY <1>1 DEF Flush, EInv, Beginning, Requests
<1>3. rules' = {} /\ policies' = policies /\ intact' = intact /\ due' = due
  BY DEF Flush, store, history
<1>4. request.step # "idle"
  BY DEF Flush
<1>5. \A i \in DOMAIN policies : i >= 1
  BY <1>1
<1>6. Enforced(request.next - 1, request.cron)'
  <2>1. request'.next - 1 = 0 /\ \A i \in DOMAIN policies : ~(i <= 0)
    BY <1>1, <1>2, <1>5
  <2>2. request'.cron.start = {}
    BY <1>2 DEF NoJobs
  <2>3. QED
    BY <1>3, <2>1, <2>2 DEF Enforced
<1>7. Serving'
  <2>1. \A i \in DOMAIN policies' : ~(i < request'.next)
    BY <1>1, <1>2, <1>3, <1>5
  <2>2. request'.cron.stop = {}
    BY <1>2 DEF NoJobs
  <2>3. QED
    BY <1>3, <1>6, <2>1, <2>2 DEF Serving
<1>8. QED
  BY <1>2, <1>3, <1>4, <1>7 DEF EInv, Served, Quiet

LEMMA SkipEnforces == ASSUME EInv, SkipPassive PROVE Serving' /\ Served' /\ Quiet'
<1>1. request \in Requests /\ policies \in Seq(Line) /\ request.step = "parse"
  BY DEF EInv, TypeInv, SkipPassive, HasLine
<1>2. /\ request'.step = "parse" /\ request'.next = request.next + 1
      /\ request'.num = request.num /\ request'.cron = request.cron
  BY <1>1 DEF SkipPassive, Requests
<1>3. UNCHANGED << rules, policies, cronFile, due, intact >>
  BY DEF SkipPassive, store, history
<1>4. policies[request.next].filtering = "passive"
  BY DEF SkipPassive, CurrentLine
<1>5. ASSUME intact PROVE Serving'
  <2>1. /\ Enforced(request.next - 1, request.cron)
        /\ \A r \in rules : r.num < request.num
        /\ \A e \in request.cron.stop : e.num < request.num
        /\ (\E i \in DOMAIN policies : i < request.next /\ Timed(policies[i])) =>
             cronFile = request.cron
    BY <1>1, <1>5 DEF EInv, Serving
  <2>2. \A i \in DOMAIN policies :
          i < request.next + 1 => i < request.next \/ policies[i].filtering = "passive"
    BY <1>1, <1>4 DEF Requests
  <2>3. ASSUME NEW i \in DOMAIN policies, i <= request.next, AllDayLine(policies[i])
        PROVE  \E r \in rules : r.id = policies[i].id /\ \A e \in request.cron.stop : e.num # r.num
    <3>1. i <= request.next - 1
      BY <1>1, <2>2, <2>3 DEF AllDayLine, Requests
    <3>2. QED
      BY <2>1, <2>3, <3>1 DEF Enforced
  <2>4. request'.next - 1 = request.next
    BY <1>1, <1>2 DEF Requests
  <2>5. Enforced(request.next - 1, request.cron)'
    BY <1>2, <1>3, <2>1, <2>3, <2>4 DEF Enforced, IsActive
  <2>6. (\E i \in DOMAIN policies : i < request.next + 1 /\ Timed(policies[i])) =>
             cronFile = request.cron
    BY <2>1, <2>2 DEF Timed
  <2>7. QED
    BY <1>2, <1>3, <2>1, <2>5, <2>6 DEF Serving
<1>6. QED
  BY <1>1, <1>2, <1>3, <1>5 DEF EInv, Serving, Served, Quiet

\* A policy that holds all day is in force at once, under a number of its own.
LEMMA AddRuleEnforces == ASSUME EInv, AddRule PROVE Serving' /\ Served' /\ Quiet'
<1> DEFINE new == [num |-> request.num, id |-> CurrentLine.id]
<1>1. /\ request \in Requests /\ policies \in Seq(Line) /\ request.step = "parse"
      /\ rules \in SUBSET [num : Nat, id : Ids]
  BY DEF EInv, TypeInv, AddRule, HasLine
<1>2. /\ request'.step = "parse" /\ request'.next = request.next + 1
      /\ request'.num = request.num + 1 /\ request'.cron = request.cron
  BY <1>1 DEF AddRule, Requests
<1>3. UNCHANGED << policies, cronFile, due, intact >> /\ rules' = rules \cup {new}
  BY DEF AddRule, store, history
<1>4. request.next \in DOMAIN policies /\ CurrentLine = policies[request.next]
  BY CurrentLineType DEF EInv, AddRule, CurrentLine
<1>5. IsActive(CurrentLine.id) /\ ~Timed(CurrentLine)
  BY <1>4 DEF AddRule, IsActive, Timed
<1>6. ASSUME intact PROVE Serving'
  <2>1. /\ Enforced(request.next - 1, request.cron)
        /\ \A r \in rules : r.num < request.num
        /\ \A e \in request.cron.stop : e.num < request.num
        /\ (\E i \in DOMAIN policies : i < request.next /\ Timed(policies[i])) =>
             cronFile = request.cron
    BY <1>1, <1>6 DEF EInv, Serving
  <2>2. \A i \in DOMAIN policies :
          i < request.next + 1 => i < request.next \/ i = request.next
    BY <1>1 DEF Requests
  <2>3. ASSUME NEW i \in DOMAIN policies, i <= request.next, AllDayLine(policies[i])
        PROVE  \E r \in rules' : r.id = policies[i].id /\ \A e \in request.cron.stop : e.num # r.num
    <3>1. CASE i = request.next
      <4>1. new.id = policies[i].id /\ new \in rules'
        BY <1>3, <1>4, <3>1
      <4>2. \A e \in request.cron.stop : e.num # new.num
        <5>1. \A e \in request.cron.stop : e.num \in Nat
          BY <1>1 DEF Requests, Jobs, StopJobs
        <5>2. QED
          BY <1>1, <2>1, <5>1 DEF Requests
      <4>3. QED
        BY <4>1, <4>2
    <3>2. CASE i <= request.next - 1
      BY <1>3, <2>1, <2>3, <3>2 DEF Enforced
    <3>3. QED
      BY <1>1, <2>3, <3>1, <3>2 DEF Requests
  <2>4. request'.next - 1 = request.next
    BY <1>1, <1>2 DEF Requests
  <2>5. Enforced(request.next - 1, request.cron)'
    <3>1. \A r \in rules' : IsActive(r.id)
      BY <1>3, <1>5, <2>1 DEF Enforced
    <3>2. QED
      BY <1>2, <1>3, <2>1, <2>3, <2>4, <3>1 DEF Enforced, IsActive
  <2>6. (\E i \in DOMAIN policies : i < request.next + 1 /\ Timed(policies[i])) =>
             cronFile = request.cron
    BY <1>4, <1>5, <2>1, <2>2
  <2>7. /\ \A r \in rules' : r.num < request.num + 1
        /\ \A e \in request.cron.stop : e.num < request.num + 1
    <3>1. \A e \in request.cron.stop : e.num \in Nat
      BY <1>1 DEF Requests, Jobs, StopJobs
    <3>2. \A r \in rules' : r = new \/ (r.num \in Nat /\ r.num < request.num)
      BY <1>1, <1>3, <2>1
    <3>3. request.num \in Nat /\ new.num = request.num
      BY <1>1 DEF Requests
    <3>4. QED
      BY <2>1, <3>1, <3>2, <3>3
  <2>8. QED
    BY <1>2, <1>3, <2>5, <2>6, <2>7 DEF Serving
<1>7. QED
  BY <1>1, <1>2, <1>3, <1>6 DEF EInv, Serving, Served, Quiet

\* The jobs of the other policies delete their own numbers, which no policy before them has.
LEMMA AddJobsEnforces == ASSUME EInv, AddJobs PROVE Serving' /\ Served' /\ Quiet'
<1> DEFINE cron == WithJobs(request.cron, CurrentLine, request.num)
           times == CurrentLine.times
<1>1. /\ request \in Requests /\ policies \in Seq(Line) /\ request.step = "parse"
      /\ rules \in SUBSET [num : Nat, id : Ids]
  BY DEF EInv, TypeInv, AddJobs, HasLine
<1>2. /\ cron.start = request.cron.start
                        \cup {[at |-> m, num |-> request.num, id |-> CurrentLine.id] : m \in Starts(times)}
      /\ cron.stop = request.cron.stop \cup {[at |-> m, num |-> request.num] : m \in Stops(times)}
  BY DEF WithJobs
<1>3. request' = [request EXCEPT !.next = @ + 1, !.num = @ + 1, !.cron = cron]
  BY DEF AddJobs
<1>4. UNCHANGED << policies, rules, due, intact >> /\ cronFile' = cron
  BY DEF AddJobs, store, history
<1>5. request.next \in DOMAIN policies /\ CurrentLine = policies[request.next]
  BY CurrentLineType DEF EInv, AddJobs, CurrentLine
<1>6. IsActive(CurrentLine.id) /\ ~AllDayLine(CurrentLine)
  BY <1>5 DEF AddJobs, IsActive, Timed, AllDayLine
<1> HIDE DEF cron, times
<1>7. /\ request'.step = "parse" /\ request'.next = request.next + 1
      /\ request'.num = request.num + 1 /\ request'.cron = cron
  BY <1>1, <1>3 DEF Requests
<1>8. ASSUME intact PROVE Serving'
  <2>1. /\ Enforced(request.next - 1, request.cron)
        /\ \A r \in rules : r.num < request.num
        /\ \A e \in request.cron.stop : e.num < request.num
    BY <1>1, <1>8 DEF EInv, Serving
  <2>2. request.num \in Nat /\ request.next \in Nat /\ request'.next - 1 = request.next
    BY <1>1, <1>7 DEF Requests
  <2>3. \A e \in cron.stop : e \in request.cron.stop \/ e.num = request.num
    BY <1>2
  <2>4. \A e \in request.cron.stop : e.num \in Nat
    BY <1>1 DEF Requests, Jobs, StopJobs
  <2>5. ASSUME NEW i \in DOMAIN policies, i <= request.next, AllDayLine(policies[i])
        PROVE  \E r \in rules : r.id = policies[i].id /\ \A e \in cron.stop : e.num # r.num
    <3>1. i # request.next
      BY <1>5, <1>6, <2>5
    <3>2. i <= request.next - 1
      BY <1>1, <2>2, <2>5, <3>1
    <3>3. PICK r \in rules : r.id = policies[i].id /\ \A e \in request.cron.stop : e.num # r.num
      BY <2>1, <2>5, <3>2 DEF Enforced
    <3>4. r.num \in Nat /\ r.num < request.num
      BY <1>1, <2>1
    <3>5. r.num # request.num
      BY <2>2, <3>4
    <3>6. QED
      BY <2>3, <3>3, <3>5
  <2>6. \A j \in cron.start : IsActive(j.id)
    BY <1>2, <1>6, <2>1 DEF Enforced
  <2>7. Enforced(request.next - 1, request.cron)'
    BY <1>4, <1>7, <2>1, <2>2, <2>5, <2>6 DEF Enforced, IsActive
  <2>8. \A r \in rules : r.num < request.num + 1
    BY <1>1, <2>1, <2>2
  <2>9. \A e \in cron.stop : e.num < request.num + 1
    BY <2>1, <2>2, <2>3, <2>4
  <2>10. QED
    BY <1>4, <1>7, <2>7, <2>8, <2>9 DEF Serving
<1>9. QED
  BY <1>1, <1>4, <1>7, <1>8 DEF EInv, Serving, Served, Quiet

\* At the end of the file, what was read is all there is.
LEMMA EndEnforces == ASSUME EInv, EndRequest PROVE Serving' /\ Served' /\ Quiet'
<1>1. /\ request \in Requests /\ policies \in Seq(Line) /\ request.step = "parse"
      /\ request.next > Len(policies)
  BY DEF EInv, TypeInv, EndRequest
<1>2. request'.step = "idle" /\ UNCHANGED << policies, rules, cronFile, due, intact >>
  BY DEF EndRequest, Idle, store, history
<1>3. ASSUME intact, Fresh
      PROVE  Enforced(Len(policies), cronFile) /\ due = NoJobs
  <2>1. /\ Enforced(request.next - 1, request.cron)
        /\ (\E i \in DOMAIN policies : i < request.next /\ Timed(policies[i])) =>
             cronFile = request.cron
    BY <1>1, <1>3 DEF EInv, Serving
  <2>2. \A i \in DOMAIN policies : i < request.next /\ i <= request.next - 1
    BY <1>1 DEF Requests
  <2>3. cronFile = NoJobs \/ cronFile = request.cron
    BY <1>3, <2>1, <2>2 DEF Fresh
  <2>4. Enforced(Len(policies), cronFile)
    BY <2>1, <2>2, <2>3 DEF Enforced, NoJobs
  <2>5. QED
    BY <1>1, <1>3, <2>4 DEF EInv, Quiet
<1>4. ASSUME intact', Fresh' PROVE intact /\ Fresh
  BY <1>2, <1>4 DEF Fresh
<1>5. Served'
  BY <1>2, <1>3, <1>4 DEF Served, Enforced, IsActive, NoJobs
<1>6. QED
  BY <1>2, <1>5 DEF Serving, Quiet

\* Between requests the daemon begins and runs jobs of the file: they add rules of
\* active policies, and delete no number of a policy that holds all day.
LEMMA DaemonEnforces ==
  ASSUME EInv, Tick \/ RunJob
  PROVE  Beginning' /\ Serving' /\ Served' /\ Quiet'
<1>1. UNCHANGED << policies, request, cronFile >>
  BY DEF Tick, RunJob, StartJob, StopJob, store
<1>2. Beginning'
  BY <1>1 DEF EInv, Beginning
<1>3. Fresh' = Fresh
  BY <1>1 DEF Fresh
<1>4. CASE Tick
  <2>1. rules' = rules /\ (intact' => intact)
    BY <1>4 DEF Tick
  <2>2. due'.start \subseteq cronFile.start /\ due'.stop \subseteq cronFile.stop
    BY <1>4 DEF Tick
  <2>3. Quiet'
    BY <1>1, <1>4 DEF Tick, Quiet
  <2>4. Serving'
    BY <1>1, <2>1 DEF EInv, Serving, Enforced, IsActive
  <2>5. Served'
    BY <1>1, <1>3, <2>1, <2>2 DEF EInv, Served, Enforced, IsActive
  <2>6. QED
    BY <1>2, <2>3, <2>4, <2>5
<1>5. CASE RunJob
  <2>1. intact' = intact /\ due # NoJobs
    BY <1>5 DEF RunJob, StartJob, StopJob, history, NoJobs
  <2>2. intact => request.step = "idle"
    BY <2>1 DEF EInv, Quiet
  <2>3. due'.start \subseteq due.start /\ due'.stop \subseteq due.stop
    BY <1>5 DEF RunJob, StartJob, StopJob, EInv, TypeInv, Jobs
  <2>4. ASSUME intact, Fresh PROVE Enforced(Len(policies), cronFile)'
    <3>1. /\ Enforced(Len(policies), cronFile)
          /\ due.start \subseteq cronFile.start /\ due.stop \subseteq cronFile.stop
      BY <2>2, <2>4 DEF EInv, Served
    <3>2. ASSUME NEW j \in due.start, StartJob(j) PROVE Enforced(Len(policies), cronFile)'
      <4>1. rules' = rules \cup {[num |-> j.num, id |-> j.id]}
        BY <3>2 DEF StartJob
      <4>2. \A r \in rules' : IsActive(r.id)
        BY <3>1, <4>1 DEF Enforced
      <4>3. QED
        BY <1>1, <3>1, <4>1, <4>2 DEF Enforced, IsActive
    <3>3. ASSUME NEW j \in due.stop, StopJob(j) PROVE Enforced(Len(policies), cronFile)'
      <4>1. rules' = {r \in rules : r.num # j.num} /\ j \in cronFile.stop
        BY <3>1, <3>3 DEF StopJob
      <4>2. QED
        BY <1>1, <3>1, <4>1 DEF Enforced, IsActive
    <3>4. QED
      BY <1>5, <3>2, <3>3 DEF RunJob
  <2>5. Served'
    BY <1>1, <1>3, <2>1, <2>2, <2>3, <2>4 DEF EInv, Served
  <2>6. Serving' /\ Quiet'
    BY <1>1, <2>1, <2>2 DEF Serving, Quiet
  <2>7. QED
    BY <1>2, <2>5, <2>6
<1>6. QED
  BY <1>4, <1>5

LEMMA ServeEInv == ASSUME EInv, Serve PROVE EInv'
<1>1. TypeInv' /\ Beginning'
  BY ServeType DEF EInv
<1>2. CASE WriteFile
  <2>1. /\ request.step = "write" /\ request'.step = "flush"
        /\ UNCHANGED << due, intact >>
    BY <1>2 DEF WriteFile, EInv, TypeInv, Requests, history
  <2>2. QED
    BY <1>1, <2>1 DEF EInv, Serving, Served, Quiet
<1>3. CASE Raise
  BY <1>1, <1>3 DEF Raise, EInv, Serving, Served, Quiet
<1>4. QED
  BY <1>1, <1>2, <1>3, FlushEnforces, SkipEnforces, AddRuleEnforces, AddJobsEnforces, EndEnforces
     DEF Serve, EInv

LEMMA NextEInv == EInv /\ [Next]_vars => EInv'
<1> SUFFICES ASSUME EInv, [Next]_vars PROVE EInv'
  OBVIOUS
<1>1. ASSUME NEW id \in Ids, NEW offer \in Offers, Save(id, offer) PROVE EInv'
  BY <1>1, SaveType, RewriteEnforces DEF EInv, Save
<1>2. ASSUME NEW id \in Ids, Delete(id) PROVE EInv'
  BY <1>2, DeleteType, RewriteEnforces DEF EInv, Delete
<1>3. CASE View
  <2>1. UNCHANGED << policies, request, rules, cronFile, due, intact >>
    <3>1. policies = << >>
      BY <1>3 DEF View, EInv, TypeInv
    <3>2. QED
      BY <1>3, <3>1 DEF View, history
  <2>2. QED
    BY <1>3, <2>1, DaemonType
       DEF EInv, Beginning, Serving, Served, Quiet, Enforced, IsActive, Fresh
<1>4. CASE Serve
  BY <1>4, ServeEInv
<1>5. CASE Tick \/ RunJob
  BY <1>5, DaemonType, DaemonEnforces DEF EInv
<1>6. CASE Kill \/ RestartFirewall
  <2>1. intact' = FALSE /\ (request' = Idle \/ request' = request)
    BY <1>6 DEF Kill, RestartFirewall
  <2>2. Beginning'
    BY <2>1 DEF EInv, Beginning, Idle
  <2>3. TypeInv'
    BY <1>6, DaemonType DEF EInv
  <2>4. QED
    BY <2>1, <2>2, <2>3 DEF EInv, Serving, Served, Quiet
<1>7. CASE UNCHANGED vars
  BY <1>7 DEF vars, EInv, TypeInv, Beginning, Serving, Served, Quiet, Enforced, IsActive, Fresh
<1>8. QED
  BY <1>1, <1>2, <1>3, <1>4, <1>5, <1>6, <1>7 DEF Next

\* Every variable keeps its type, and the file has policies only under its header
\* (policy.py, ipfw.py).
THEOREM TypeCorrect == Spec => []TypeOK
<1>1. EInv => TypeOK
  <2>1. Line \subseteq [id : Ids, filtering : {"active", "passive"}, times : Times]
    BY DEF Line, Offered
  <2>2. TypeInv => policies \in Seq([id : Ids, filtering : {"active", "passive"}, times : Times])
    <3>1. SUFFICES ASSUME TypeInv
          PROVE policies \in Seq([id : Ids, filtering : {"active", "passive"}, times : Times])
      OBVIOUS
    <3>2. policies \in [1 .. Len(policies) -> Line] /\ Len(policies) \in Nat
      BY <3>1 DEF TypeInv
    <3> DEFINE S == [id : Ids, filtering : {"active", "passive"}, times : Times]
    <3> HIDE DEF S
    <3>3. policies \in [1 .. Len(policies) -> S]
      BY <2>1, <3>2 DEF S
    <3>4. policies \in Seq(S)
      BY <3>2, <3>3
    <3>5. QED
      BY <3>4 DEF S
  <2>3. QED
    BY <2>2 DEF EInv, TypeInv, TypeOK, JobsOK, Jobs, StartJobs, StopJobs, Requests
<1>2. QED
  BY InitEInv, NextEInv, <1>1, PTL DEF Spec

\* From the end of a request that nothing disturbed, the policies that hold all day
\* are in force and nothing is in force for a policy that was deleted or made
\* passive, however many policies there are, whatever their times, and whatever jobs
\* the cron daemon has run since (parseIPFW, createCronJob).
THEOREM AllDayAtOnceCorrect == Spec => []AllDayAtOnce
<1>1. ASSUME EInv, Undisturbed, NEW id \in Ids
      PROVE  /\ Active(id, AllDay) => InForce(id)
             /\ InForce(id) => Active(id, LAMBDA t : TRUE)
  <2>1. Enforced(Len(policies), cronFile) /\ policies \in Seq(Line)
    BY <1>1 DEF EInv, TypeInv, Served, Undisturbed
  <2>2. \A i \in DOMAIN policies : i <= Len(policies)
    BY <2>1
  <2>3. ASSUME Active(id, AllDay) PROVE InForce(id)
    <3>1. PICK i \in DOMAIN policies : policies[i].id = id /\ AllDayLine(policies[i])
      BY <2>3 DEF Active, AllDayLine
    <3>2. QED
      BY <2>1, <2>2, <3>1 DEF Enforced, InForce
  <2>4. ASSUME InForce(id) PROVE Active(id, LAMBDA t : TRUE)
    BY <2>1, <2>4 DEF Enforced, InForce, IsActive, Active
  <2>5. QED
    BY <2>3, <2>4
<1>2. EInv => AllDayAtOnce
  BY <1>1 DEF AllDayAtOnce
<1>3. QED
  BY InitEInv, NextEInv, <1>2, PTL DEF Spec

-----------------------------------------------------------------------------
(* Which rule is in force when *)

\* The jobs numbered n are those of a line.
JobsOf(line, n, cron) ==
  /\ \A j \in cron.start : j.num = n => j.id = line.id /\ j.at \in Starts(line.times)
  /\ \A e \in cron.stop : e.num = n => e.at \in Stops(line.times)
  /\ \A m \in Starts(line.times) : \E j \in cron.start : j.num = n /\ j.at = m
  /\ \A m \in Stops(line.times) : \E e \in cron.stop : e.num = n /\ e.at = m

\* Every job is of one of the lines before next, and every one of them that needs jobs
\* has them, under a number below num.
Numbered(lines, next, num, cron) ==
  /\ \A j \in cron.start :
       /\ j.num < num
       /\ \E i \in DOMAIN lines : i < next /\ Timed(lines[i]) /\ JobsOf(lines[i], j.num, cron)
  /\ \A i \in DOMAIN lines : i < next /\ Timed(lines[i]) =>
       \E n \in Nat : n < num /\ JobsOf(lines[i], n, cron)

\* A rule that a request has added itself
AllDayRule(r, lines, cron) ==
  /\ \E i \in DOMAIN lines : lines[i].id = r.id /\ AllDayLine(lines[i])
  /\ \A j \in cron.start : j.num # r.num

Numbering ==
  intact /\ request.step = "parse" =>
    /\ Numbered(policies, request.next, request.num, request.cron)
    /\ \A r \in rules : AllDayRule(r, policies, request.cron)

\* The moments that have been since the last request, and whether a job of the times
\* was due at one of them.
Seen(m) == IF m <= now THEN now - m < settled ELSE now + Week - m < settled
Anchored(t) == \E m \in Starts(t) \cup Stops(t) : Seen(m)

On(n) == \E r \in rules : r.num = n
Awaited(n) == \E j \in due.start \cup due.stop : j.num = n

\* From the first job of a policy on, its rule is in force exactly when its times
\* cover the moment, unless a job of it is due.
Follows(line) ==
  \A n \in Nat :
    /\ Timed(line) /\ WellTimed(line.times) /\ JobsOf(line, n, cronFile)
    /\ \E j \in cronFile.start : j.num = n
    /\ ~Awaited(n)
    => (On(n) <=> Covers(line.times, now) /\ Anchored(line.times))

Following ==
  intact /\ request.step = "idle" /\ Fresh =>
    /\ \E num \in Nat : Numbered(policies, Len(policies) + 1, num, cronFile)
    /\ \A r \in rules : \/ AllDayRule(r, policies, cronFile)
                        \/ \E j \in cronFile.start : j.num = r.num /\ j.id = r.id
    /\ \A j \in due.start \cup due.stop : j.at = now /\ settled > 0
    /\ \A i \in DOMAIN policies : Follows(policies[i])

Unsettled == request.step # "idle" => settled = 0

FInv == Numbering /\ Following /\ Unsettled

\* A line without jobs changes nothing ...
LEMMA NumberedSkip ==
  ASSUME NEW lines, NEW next \in Nat, NEW num \in Nat, NEW cron \in Jobs, NEW more \in Nat,
         lines \in Seq(Line), Numbered(lines, next, num, cron), ~Timed(lines[next]), num <= more
  PROVE  Numbered(lines, next + 1, more, cron)
<1>1. \A i \in DOMAIN lines : i < next + 1 /\ Timed(lines[i]) <=> i < next /\ Timed(lines[i])
  OBVIOUS
<1>2. \A n \in Nat : n < num => n < more
  OBVIOUS
<1>3. \A j \in cron.start : j.num \in Nat
  BY DEF Jobs, StartJobs
<1>4. QED
  BY <1>1, <1>2, <1>3 DEF Numbered

\* ... and the jobs of another have a number that no other job has.
LEMMA NumberedMore ==
  ASSUME NEW lines, NEW next \in Nat, NEW num \in Nat, NEW cron \in Jobs,
         lines \in Seq(Line), Numbered(lines, next, num, cron), next \in DOMAIN lines,
         Timed(lines[next]), \A e \in cron.stop : e.num < num
  PROVE  Numbered(lines, next + 1, num + 1, WithJobs(cron, lines[next], num))
<1> DEFINE line == lines[next]
           more == WithJobs(cron, line, num)
<1>1. /\ more.start = cron.start
                        \cup {[at |-> m, num |-> num, id |-> line.id] : m \in Starts(line.times)}
      /\ more.stop = cron.stop \cup {[at |-> m, num |-> num] : m \in Stops(line.times)}
  BY DEF WithJobs
<1>2. /\ \A j \in cron.start : j.num \in Nat /\ j.num < num
      /\ \A e \in cron.stop : e.num \in Nat /\ e.num < num
  BY DEF Jobs, StartJobs, StopJobs, Numbered
<1> HIDE DEF line, more
<1>3. /\ \A j \in more.start : j \in cron.start \/ (j.num = num /\ j.id = line.id /\ j.at \in Starts(line.times))
      /\ \A e \in more.stop : e \in cron.stop \/ (e.num = num /\ e.at \in Stops(line.times))
      /\ cron.start \subseteq more.start /\ cron.stop \subseteq more.stop
  BY <1>1
<1>4. ~(num < num) /\ num < num + 1 /\ \A n \in Nat : n < num => n < num + 1 /\ n # num
  OBVIOUS
<1>5. JobsOf(line, num, more)
  <2>1. \A j \in more.start : j.num = num => j.id = line.id /\ j.at \in Starts(line.times)
    BY <1>2, <1>3, <1>4
  <2>2. \A e \in more.stop : e.num = num => e.at \in Stops(line.times)
    BY <1>2, <1>3, <1>4
  <2>3. ASSUME NEW m \in Starts(line.times) PROVE \E j \in more.start : j.num = num /\ j.at = m
    <3>1. [at |-> m, num |-> num, id |-> line.id] \in more.start
      BY <1>1
    <3>2. QED
      BY <3>1
  <2>4. ASSUME NEW m \in Stops(line.times) PROVE \E e \in more.stop : e.num = num /\ e.at = m
    <3>1. [at |-> m, num |-> num] \in more.stop
      BY <1>1
    <3>2. QED
      BY <3>1
  <2>5. QED
    BY <2>1, <2>2, <2>3, <2>4 DEF JobsOf
<1>6. ASSUME NEW i \in DOMAIN lines, NEW n \in Nat, n < num, JobsOf(lines[i], n, cron)
      PROVE  JobsOf(lines[i], n, more)
  <2>1. /\ \A j \in more.start : j.num = n => j \in cron.start
        /\ \A e \in more.stop : e.num = n => e \in cron.stop
    BY <1>3, <1>4, <1>6
  <2>2. QED
    BY <1>3, <1>6, <2>1 DEF JobsOf
<1>7. ASSUME NEW j \in more.start
      PROVE  /\ j.num < num + 1
             /\ \E i \in DOMAIN lines : i < next + 1 /\ Timed(lines[i]) /\ JobsOf(lines[i], j.num, more)
  <2>1. CASE j \in cron.start
    <3>1. PICK i \in DOMAIN lines : i < next /\ Timed(lines[i]) /\ JobsOf(lines[i], j.num, cron)
      BY <2>1 DEF Numbered
    <3>2. i < next + 1
      BY <3>1
    <3>3. QED
      BY <1>2, <1>4, <1>6, <2>1, <3>1, <3>2
  <2>2. CASE j.num = num
    <3>1. next < next + 1
      OBVIOUS
    <3>2. QED
      BY <1>4, <1>5, <2>2, <3>1 DEF line
  <2>3. QED
    BY <1>3, <2>1, <2>2
<1>8. ASSUME NEW i \in DOMAIN lines, i < next + 1, Timed(lines[i])
      PROVE  \E n \in Nat : n < num + 1 /\ JobsOf(lines[i], n, more)
  <2>1. CASE i = next
    BY <1>4, <1>5, <2>1 DEF line
  <2>2. CASE i < next
    BY <1>4, <1>6, <1>8, <2>2 DEF Numbered
  <2>3. QED
    BY <1>8, <2>1, <2>2
<1>9. Numbered(lines, next + 1, num + 1, more)
  BY <1>7, <1>8 DEF Numbered
<1>10. QED
  BY <1>9 DEF more, line

LEMMA InitFInv == Init => FInv
<1> SUFFICES ASSUME Init PROVE FInv
  OBVIOUS
<1>1. request.step = "idle" /\ intact = FALSE
  BY DEF Init, Idle
<1>2. QED
  BY <1>1 DEF FInv, Numbering, Following, Unsettled

LEMMA RewriteFollows == ASSUME NEW lines, Rewrite(lines) PROVE FInv'
<1>1. request'.step = "write" /\ settled' = 0
  BY DEF Rewrite, Idle
<1>2. QED
  BY <1>1 DEF FInv, Numbering, Following, Unsettled

\* A request that has just flushed the firewall has numbered nothing.
LEMMA FlushFollows == ASSUME EInv, FInv, Flush PROVE FInv'
<1>1. request \in Requests /\ policies \in Seq(Line) /\ request.step = "flush"
  BY DEF EInv, TypeInv, Flush
<1>2. request'.step = "parse" /\ request'.next = 1 /\ request'.num = 0 /\ request'.cron = NoJobs
  BY <1>1 DEF Flush, EInv, Beginning, Requests
<1>3. rules' = {} /\ UNCHANGED << policies, settled >>
  BY DEF Flush, store, history
<1>4. \A i \in DOMAIN policies : ~(i < 1)
  BY <1>1
<1>5. Numbered(policies', 1, 0, NoJobs)
  BY <1>3, <1>4 DEF Numbered, NoJobs
<1>6. Numbering'
  BY <1>2, <1>3, <1>5 DEF Numbering
<1>7. QED
  BY <1>1, <1>2, <1>3, <1>6 DEF FInv, Following, Unsettled

LEMMA SkipFollows == ASSUME EInv, FInv, SkipPassive PROVE FInv'
<1>1. request \in Requests /\ policies \in Seq(Line) /\ request.step = "parse"
  BY DEF EInv, TypeInv, SkipPassive, HasLine
<1>2. /\ request'.step = "parse" /\ request'.next = request.next + 1
      /\ request'.num = request.num /\ request'.cron = request.cron
  BY <1>1 DEF SkipPassive, Requests
<1>3. UNCHANGED << rules, policies, intact, settled >>
  BY DEF SkipPassive, store, history
<1>4. ~Timed(policies[request.next])
  BY DEF SkipPassive, CurrentLine, Timed
<1>5. request.next \in Nat /\ request.num \in Nat /\ request.cron \in Jobs /\ request.num <= request.num
  BY <1>1 DEF Requests
<1>6. ASSUME intact
      PROVE  /\ Numbered(policies, request.next + 1, request.num, request.cron)
             /\ \A r \in rules : AllDayRule(r, policies, request.cron)
  <2>1. /\ Numbered(policies, request.next, request.num, request.cron)
        /\ \A r \in rules : AllDayRule(r, policies, request.cron)
    BY <1>1, <1>6 DEF FInv, Numbering
  <2>2. QED
    BY <1>1, <1>4, <1>5, <2>1, NumberedSkip
<1>7. Numbering'
  BY <1>2, <1>3, <1>6 DEF Numbering
<1>8. QED
  BY <1>1, <1>2, <1>3, <1>7 DEF FInv, Following, Unsettled

\* The number of a rule that a request adds is no job's.
LEMMA AddRuleFollows == ASSUME EInv, FInv, AddRule PROVE FInv'
<1> DEFINE new == [num |-> request.num, id |-> CurrentLine.id]
<1>1. /\ request \in Requests /\ policies \in Seq(Line) /\ request.step = "parse"
  BY DEF EInv, TypeInv, AddRule, HasLine
<1>2. /\ request'.step = "parse" /\ request'.next = request.next + 1
      /\ request'.num = request.num + 1 /\ request'.cron = request.cron
  BY <1>1 DEF AddRule, Requests
<1>3. UNCHANGED << policies, intact, settled >> /\ rules' = rules \cup {new}
  BY DEF AddRule, store, history
<1>4. request.next \in DOMAIN policies /\ CurrentLine = policies[request.next]
  BY CurrentLineType DEF EInv, AddRule, CurrentLine
<1>5. ~Timed(policies[request.next]) /\ AllDayLine(policies[request.next])
  BY <1>4 DEF AddRule, Timed, AllDayLine
<1>6. request.next \in Nat /\ request.num \in Nat /\ request.cron \in Jobs
  BY <1>1 DEF Requests
<1>7. ASSUME intact
      PROVE  /\ Numbered(policies, request.next + 1, request.num + 1, request.cron)
             /\ \A r \in rules' : AllDayRule(r, policies, request.cron)
  <2>1. /\ Numbered(policies, request.next, request.num, request.cron)
        /\ \A r \in rules : AllDayRule(r, policies, request.cron)
    BY <1>1, <1>7 DEF FInv, Numbering
  <2>2. request.num + 1 \in Nat /\ request.num <= request.num + 1
    BY <1>6
  <2>3. Numbered(policies, request.next + 1, request.num + 1, request.cron)
    BY <1>1, <1>5, <1>6, <2>1, <2>2, NumberedSkip
  <2>4. \A j \in request.cron.start : j.num # request.num
    <3>1. \A j \in request.cron.start : j.num \in Nat /\ j.num < request.num
      BY <1>6, <2>1 DEF Jobs, StartJobs, Numbered
    <3>2. QED
      BY <1>6, <3>1
  <2>5. AllDayRule(new, policies, request.cron)
    BY <1>4, <1>5, <2>4 DEF AllDayRule
  <2>6. QED
    BY <1>3, <2>1, <2>3, <2>5
<1>8. Numbering'
  BY <1>2, <1>3, <1>7 DEF Numbering
<1>9. QED
  BY <1>1, <1>2, <1>3, <1>8 DEF FInv, Following, Unsettled

\* The jobs that a request adds have a number that no rule has yet.
LEMMA AddJobsFollows == ASSUME EInv, FInv, AddJobs PROVE FInv'
<1> DEFINE cron == WithJobs(request.cron, CurrentLine, request.num)
<1>1. /\ request \in Requests /\ policies \in Seq(Line) /\ request.step = "parse"
      /\ rules \in SUBSET [num : Nat, id : Ids]
  BY DEF EInv, TypeInv, AddJobs, HasLine
<1>2. request' = [request EXCEPT !.next = @ + 1, !.num = @ + 1, !.cron = cron]
  BY DEF AddJobs
<1>3. UNCHANGED << policies, rules, intact, settled >>
  BY DEF AddJobs, store, history
<1>4. request.next \in DOMAIN policies /\ CurrentLine = policies[request.next]
  BY CurrentLineType DEF EInv, AddJobs, CurrentLine
<1>5. Timed(policies[request.next])
  BY <1>4 DEF AddJobs
<1>6. request.next \in Nat /\ request.num \in Nat /\ request.cron \in Jobs
  BY <1>1 DEF Requests
<1>7. \A j \in cron.start : j \in request.cron.start \/ j.num = request.num
  BY DEF WithJobs
<1>8. cron = WithJobs(request.cron, policies[request.next], request.num)
  BY <1>4
<1> HIDE DEF cron
<1>9. /\ request'.step = "parse" /\ request'.next = request.next + 1
      /\ request'.num = request.num + 1 /\ request'.cron = cron
  BY <1>1, <1>2 DEF Requests
<1>10. ASSUME intact
       PROVE  /\ Numbered(policies, request.next + 1, request.num + 1, cron)
              /\ \A r \in rules : AllDayRule(r, policies, cron)
  <2>1. /\ Numbered(policies, request.next, request.num, request.cron)
        /\ \A r \in rules : AllDayRule(r, policies, request.cron)
    BY <1>1, <1>10 DEF FInv, Numbering
  <2>2. /\ \A r \in rules : r.num < request.num
        /\ \A e \in request.cron.stop : e.num < request.num
    BY <1>1, <1>10 DEF EInv, Serving
  <2>3. Numbered(policies, request.next + 1, request.num + 1, cron)
    BY <1>1, <1>4, <1>5, <1>6, <1>8, <2>1, <2>2, NumberedMore
  <2>4. \A r \in rules : r.num # request.num
    <3>1. \A r \in rules : r.num \in Nat
      BY <1>1
    <3>2. QED
      BY <1>6, <2>2, <3>1
  <2>5. \A r \in rules : AllDayRule(r, policies, cron)
    BY <1>7, <2>1, <2>4 DEF AllDayRule
  <2>6. QED
    BY <2>3, <2>5
<1>11. Numbering'
  BY <1>3, <1>9, <1>10 DEF Numbering
<1>12. QED
  BY <1>1, <1>3, <1>9, <1>11 DEF FInv, Following, Unsettled

LEMMA TimesOK ==
  ASSUME TypeInv, NEW i \in DOMAIN policies
  PROVE  /\ policies[i].times \in Times
         /\ policies[i].times.label = "Daily" => policies[i].times.days = Days
         /\ Starts(policies[i].times) \cup Stops(policies[i].times) \subseteq Moments
<1>1. policies[i] \in Line
  BY DEF TypeInv
<1>2. policies[i].times \in Offered
  BY <1>1 DEF Line
<1>3. policies[i].times \in Times
  BY <1>2 DEF Offered
<1>4. Starts(policies[i].times) \cup Stops(policies[i].times) \subseteq Moments
  BY <1>3, JobTimes
<1>5. QED
  BY <1>2, <1>3, <1>4 DEF Offered

\* What is in force when a request ends are rules for whole days; no job has begun.
LEMMA EndFollows == ASSUME EInv, FInv, EndRequest PROVE FInv'
<1>1. /\ request \in Requests /\ policies \in Seq(Line) /\ request.step = "parse"
      /\ request.next > Len(policies)
  BY DEF EInv, TypeInv, EndRequest
<1>2. request'.step = "idle" /\ UNCHANGED << policies, rules, cronFile, due, now, intact, settled >>
  BY DEF EndRequest, Idle, store, history
<1>3. settled = 0
  BY <1>1 DEF FInv, Unsettled
<1>4. request.num \in Nat /\ request.next \in Nat /\ request.cron \in Jobs
  BY <1>1 DEF Requests
<1>5. \A i \in DOMAIN policies : i < request.next /\ i < Len(policies) + 1
  BY <1>1, <1>4
<1>6. ASSUME intact, Fresh
      PROVE  /\ Numbered(policies, Len(policies) + 1, request.num, cronFile)
             /\ \A r \in rules : AllDayRule(r, policies, cronFile)
             /\ due = NoJobs
  <2>1. /\ Numbered(policies, request.next, request.num, request.cron)
        /\ \A r \in rules : AllDayRule(r, policies, request.cron)
    BY <1>1, <1>6 DEF FInv, Numbering
  <2>2. (\E i \in DOMAIN policies : i < request.next /\ Timed(policies[i])) =>
           cronFile = request.cron
    BY <1>1, <1>6 DEF EInv, Serving
  <2>3. due = NoJobs
    BY <1>1, <1>6 DEF EInv, Quiet
  <2>4. CASE \E i \in DOMAIN policies : Timed(policies[i])
    <3>1. cronFile = request.cron
      BY <1>5, <2>2, <2>4
    <3>2. Numbered(policies, Len(policies) + 1, request.num, cronFile)
      BY <1>5, <2>1, <3>1 DEF Numbered
    <3>3. QED
      BY <2>1, <2>3, <3>1, <3>2
  <2>5. CASE ~ \E i \in DOMAIN policies : Timed(policies[i])
    <3>1. cronFile.start = {}
      BY <1>6, <2>5 DEF Fresh, NoJobs
    <3>2. Numbered(policies, Len(policies) + 1, request.num, cronFile)
      BY <2>5, <3>1 DEF Numbered
    <3>3. \A r \in rules : AllDayRule(r, policies, cronFile)
      BY <2>1, <3>1 DEF AllDayRule
    <3>4. QED
      BY <2>3, <3>2, <3>3
  <2>6. QED
    BY <2>4, <2>5
<1>7. ASSUME intact, Fresh, NEW i \in DOMAIN policies PROVE Follows(policies[i])
  <2>1. ~Anchored(policies[i].times)
    <3>1. Starts(policies[i].times) \cup Stops(policies[i].times) \subseteq Moments
      BY TimesOK DEF EInv
    <3>2. \A m \in Moments : ~Seen(m)
      <4>1. now \in Moments
        BY DEF EInv, TypeInv
      <4>2. QED
        BY <1>3, <4>1 DEF Seen, Moments, Week
    <3>3. QED
      BY <3>1, <3>2 DEF Anchored
  <2>2. ASSUME NEW n \in Nat, \E j \in cronFile.start : j.num = n PROVE ~On(n)
    BY <1>6, <1>7, <2>2 DEF On, AllDayRule
  <2>3. QED
    BY <2>1, <2>2 DEF Follows
<1>8. ASSUME intact', Fresh'
      PROVE  intact /\ Fresh
  BY <1>2, <1>8 DEF Fresh
<1>9. Following'
  <2>1. ASSUME intact', Fresh'
        PROVE /\ Numbered(policies', Len(policies') + 1, request.num, cronFile')
              /\ \A r \in rules' : AllDayRule(r, policies', cronFile')
              /\ due'.start = {} /\ due'.stop = {}
              /\ \A i \in DOMAIN policies' : Follows(policies[i])'
    <3>1. \A i \in DOMAIN policies : Follows(policies[i])
      BY <1>7, <1>8, <2>1
    <3>2. \A i \in DOMAIN policies' : Follows(policies[i])'
      BY <1>2, <3>1 DEF Follows, On, Awaited, Anchored, Seen
    <3>3. QED
      BY <1>2, <1>6, <1>8, <2>1, <3>2 DEF NoJobs
  <2>2. QED
    BY <1>4, <2>1 DEF Following
<1>10. QED
  BY <1>2, <1>9 DEF FInv, Numbering, Unsettled

\* A moment passes: it is seen, and so is what was seen before.
LEMMA SeenOn ==
  ASSUME NEW m \in Moments, now \in Moments, settled \in 0 .. Week,
         now' = (now + 1) % Week, settled' = IF settled < Week THEN settled + 1 ELSE settled
  PROVE  Seen(m)' <=> m = now' \/ Seen(m)
<1>1. Week \in Nat /\ Week > 0 /\ m \in 0 .. Week - 1 /\ now \in 0 .. Week - 1
  BY DEF Moments, Week
<1>2. now + 1 = Week => now' = 0
  <2>1. Week % Week = 0
    BY <1>1
  <2>2. QED
    BY <2>1
<1>3. now + 1 < Week => now' = now + 1
  BY <1>1
<1>4. now + 1 = Week \/ now + 1 < Week
  BY <1>1
<1>5. CASE now + 1 = Week
  BY <1>1, <1>2, <1>5 DEF Seen
<1>6. CASE now + 1 < Week
  BY <1>1, <1>3, <1>6 DEF Seen
<1>7. QED
  BY <1>4, <1>5, <1>6

\* Between jobs a moment changes nothing for a policy that has none at it.
LEMMA TickFollows == ASSUME EInv, FInv, Tick PROVE FInv'
<1>1. /\ due = NoJobs /\ now' = (now + 1) % Week
      /\ due' = [start |-> {j \in cronFile.start : j.at = now'},
                 stop  |-> {j \in cronFile.stop : j.at = now'}]
      /\ UNCHANGED << policies, request, rules, cronFile >>
      /\ intact' => intact
  BY DEF Tick, store
<1>2. settled' = IF request.step = "idle" /\ settled < Week THEN settled + 1 ELSE settled
  BY DEF Tick
<1>3. TypeInv /\ now \in Moments /\ settled \in 0 .. Week
  BY DEF EInv, TypeInv
<1>4. Numbering' /\ Unsettled'
  BY <1>1, <1>2 DEF FInv, Numbering, Unsettled
<1>5. ASSUME intact', request.step = "idle", Fresh' PROVE intact /\ Fresh
  BY <1>1, <1>5 DEF Fresh
<1>6. ASSUME intact, request.step = "idle", Fresh, NEW i \in DOMAIN policies
      PROVE  Follows(policies[i])'
  <2>1. Follows(policies[i])
    BY <1>6 DEF FInv, Following
  <2>2. PICK line : line = policies[i]
    OBVIOUS
  <2>3. line.times \in Times /\ Starts(line.times) \cup Stops(line.times) \subseteq Moments
    BY <1>3, <2>2, TimesOK
  <2>4. ASSUME NEW n \in Nat, Timed(line), WellTimed(line.times), JobsOf(line, n, cronFile),
               NEW j \in cronFile.start, j.num = n, ~Awaited(n)'
        PROVE  On(n)' <=> (Covers(line.times, now') /\ Anchored(line.times)')
    <3>1. ~Awaited(n)
      BY <1>1 DEF Awaited, NoJobs
    <3>2. On(n) <=> Covers(line.times, now) /\ Anchored(line.times)
      BY <2>1, <2>2, <2>4, <3>1 DEF Follows
    <3>3. now' \notin Starts(line.times) \cup Stops(line.times)
      <4>1. /\ \A x \in cronFile.start : x.at = now' => x.num # n
            /\ \A x \in cronFile.stop : x.at = now' => x.num # n
        BY <1>1, <2>4 DEF Awaited
      <4>2. QED
        BY <2>4, <4>1 DEF JobsOf
    <3>4. Covers(line.times, now') <=> Covers(line.times, now)
      <4>1. ~AllDay(line.times)
        BY <2>4 DEF Timed
      <4>2. QED
        BY <1>1, <1>3, <2>3, <2>4, <3>3, <4>1, CoversOn
    <3>5. Anchored(line.times)' <=> Anchored(line.times)
      <4>1. settled' = IF settled < Week THEN settled + 1 ELSE settled
        BY <1>2, <1>6
      <4>2. \A m \in Moments : Seen(m)' <=> m = now' \/ Seen(m)
        BY <1>1, <1>3, <4>1, SeenOn
      <4>3. (\E m \in Starts(line.times) \cup Stops(line.times) : Seen(m)')
              <=> Anchored(line.times)
        BY <2>3, <3>3, <4>2 DEF Anchored
      <4>4. QED
        BY <4>3 DEF Anchored
    <3>6. On(n)' <=> On(n)
      BY <1>1 DEF On
    <3>7. QED
      BY <3>2, <3>4, <3>5, <3>6
  <2>5. policies'[i] = line
    BY <1>1, <2>2
  <2>6. QED
    BY <1>1, <2>4, <2>5 DEF Follows
<1>7. ASSUME intact, request.step = "idle", Fresh
      PROVE  \A j \in due'.start \cup due'.stop : j.at = now' /\ settled' > 0
  <2>1. settled' > 0
    <3>1. Week > 0 /\ Week \in Nat
      BY DEF Week
    <3>2. QED
      BY <1>2, <1>3, <1>7, <3>1
  <2>2. QED
    BY <1>1, <2>1
<1>8. Following'
  <2>1. ASSUME intact, request.step = "idle", Fresh
        PROVE  /\ \E num \in Nat : Numbered(policies, Len(policies) + 1, num, cronFile)
               /\ \A r \in rules : \/ AllDayRule(r, policies, cronFile)
                                   \/ \E j \in cronFile.start : j.num = r.num /\ j.id = r.id
    BY <2>1 DEF FInv, Following
  <2>2. \A i \in DOMAIN policies : intact /\ request.step = "idle" /\ Fresh => Follows(policies[i])'
    BY <1>6
  <2>3. QED
    BY <1>1, <1>5, <1>7, <2>1, <2>2 DEF Following
<1>9. QED
  BY <1>4, <1>8 DEF FInv

\* A job that begins a block brings its policy in force where its times begin to
\* cover; one that ends it takes it out where they stop.
LEMMA JobFollows ==
  ASSUME EInv, FInv, intact, request.step = "idle", Fresh, NEW i \in DOMAIN policies,
         UNCHANGED << policies, cronFile, now, settled >>,
         NEW n \in Nat, NEW more \in BOOLEAN,
         \/ /\ more
            /\ \E j \in due.start : j.num = n
            /\ On(n)'
         \/ /\ ~more
            /\ \E j \in due.stop : j.num = n
            /\ ~On(n)',
         \A k \in Nat \ {n} : (On(k)' <=> On(k)) /\ (Awaited(k)' <=> Awaited(k))
  PROVE  Follows(policies[i])'
<1>1. /\ due.start \subseteq cronFile.start /\ due.stop \subseteq cronFile.stop
      /\ \A j \in due.start \cup due.stop : j.at = now /\ settled > 0
      /\ Follows(policies[i])
  BY DEF EInv, Served, FInv, Following
<1>2. PICK line : line = policies[i]
  OBVIOUS
<1>3. line.times \in Times /\ now \in Moments
  BY <1>2, TimesOK DEF EInv, TypeInv
<1>4. ASSUME Timed(line), WellTimed(line.times), JobsOf(line, n, cronFile)
      PROVE  On(n)' <=> (Covers(line.times, now) /\ Anchored(line.times))
  <2>1. CASE more
    <3>1. PICK j \in due.start : j.num = n
      BY <2>1
    <3>2. now \in Starts(line.times) /\ settled > 0
      BY <1>1, <1>4, <3>1 DEF JobsOf
    <3>3. Covers(line.times, now)
      BY <1>3, <3>2, StartsCover
    <3>4. Seen(now)
      BY <1>3, <3>2 DEF Seen, Moments
    <3>5. QED
      BY <2>1, <3>2, <3>3, <3>4 DEF Anchored
  <2>2. CASE ~more
    <3>1. PICK j \in due.stop : j.num = n
      BY <2>2
    <3>2. now \in Stops(line.times)
      BY <1>1, <1>4, <3>1 DEF JobsOf
    <3>3. ~AllDay(line.times)
      BY <1>4 DEF Timed
    <3>4. ~Covers(line.times, now)
      BY <1>3, <1>4, <3>2, <3>3, StopsUncover
    <3>5. QED
      BY <2>2, <3>4
  <2>3. QED
    BY <2>1, <2>2
<1>5. Anchored(line.times)' <=> Anchored(line.times)
  BY DEF Anchored, Seen
<1>6. ASSUME NEW k \in Nat, Timed(line), WellTimed(line.times), JobsOf(line, k, cronFile),
             \E j \in cronFile.start : j.num = k, ~Awaited(k)'
      PROVE  On(k)' <=> (Covers(line.times, now) /\ Anchored(line.times))
  <2>1. CASE k = n
    BY <1>4, <1>6, <2>1
  <2>2. CASE k # n
    <3>1. (On(k)' <=> On(k)) /\ (Awaited(k)' <=> Awaited(k))
      BY <2>2
    <3>2. QED
      BY <1>1, <1>2, <1>6, <3>1 DEF Follows
  <2>3. QED
    BY <2>1, <2>2
<1>7. policies'[i] = line
  BY <1>2
<1>8. QED
  BY <1>5, <1>6, <1>7 DEF Follows

LEMMA RunFollows == ASSUME EInv, FInv, RunJob PROVE FInv'
<1>1. UNCHANGED << policies, request, cronFile, now, intact, settled >>
  BY DEF RunJob, StartJob, StopJob, store, history
<1>2. intact => request.step = "idle"
  <2>1. due # NoJobs
    BY DEF RunJob, NoJobs
  <2>2. QED
    BY <2>1 DEF EInv, Quiet
<1>3. due \in Jobs /\ rules \in SUBSET [num : Nat, id : Ids]
  BY DEF EInv, TypeInv
<1>4. Numbering' /\ Unsettled'
  BY <1>1, <1>2 DEF FInv, Numbering, Unsettled
<1>5. Fresh' <=> Fresh
  BY <1>1 DEF Fresh
<1>6. ASSUME intact, request.step = "idle", Fresh
      PROVE  /\ \E num \in Nat : Numbered(policies, Len(policies) + 1, num, cronFile)
             /\ \A r \in rules : \/ AllDayRule(r, policies, cronFile)
                                 \/ \E j \in cronFile.start : j.num = r.num /\ j.id = r.id
             /\ \A j \in due.start \cup due.stop : j.at = now /\ settled > 0
             /\ due.start \subseteq cronFile.start
  BY <1>6 DEF FInv, Following, EInv, Served
<1>7. ASSUME NEW j \in due.start, StartJob(j), intact, request.step = "idle", Fresh
      PROVE  /\ \A r \in rules' : \/ AllDayRule(r, policies, cronFile)
                                  \/ \E x \in cronFile.start : x.num = r.num /\ x.id = r.id
             /\ due'.start \cup due'.stop \subseteq due.start \cup due.stop
             /\ \A i \in DOMAIN policies : Follows(policies[i])'
  <2>1. rules' = rules \cup {[num |-> j.num, id |-> j.id]}
    BY <1>7 DEF StartJob
  <2>2. due'.start = due.start \ {j} /\ due'.stop = due.stop
    BY <1>3, <1>7 DEF StartJob, Jobs
  <2>3. \A r \in rules' : \/ AllDayRule(r, policies, cronFile)
                          \/ \E x \in cronFile.start : x.num = r.num /\ x.id = r.id
    <3>1. j \in cronFile.start
      BY <1>6, <1>7
    <3>2. \A r \in rules' : r \in rules \/ (r.num = j.num /\ r.id = j.id)
      BY <2>1
    <3>3. QED
      BY <1>6, <1>7, <3>1, <3>2
  <2>4. PICK n \in Nat : n = j.num
    BY <1>3 DEF Jobs, StartJobs
  <2>5. On(n)'
    <3>1. [num |-> j.num, id |-> j.id] \in rules'
      BY <2>1
    <3>2. QED
      BY <2>4, <3>1 DEF On
  <2>6. \A k \in Nat \ {n} : (On(k)' <=> On(k)) /\ (Awaited(k)' <=> Awaited(k))
    <3>1. \A k \in Nat \ {n} : On(k)' <=> On(k)
      BY <2>1, <2>4 DEF On
    <3>2. \A k \in Nat \ {n} : Awaited(k)' <=> Awaited(k)
      BY <2>2, <2>4 DEF Awaited
    <3>3. QED
      BY <3>1, <3>2
  <2>7. \A i \in DOMAIN policies : Follows(policies[i])'
    <3>1. SUFFICES ASSUME NEW i \in DOMAIN policies PROVE Follows(policies[i])'
      OBVIOUS
    <3>2. \E x \in due.start : x.num = n
      BY <2>4
    <3>3. TRUE \in BOOLEAN
      OBVIOUS
    <3>4. QED
      BY <1>1, <1>7, <2>5, <2>6, <3>2, <3>3, JobFollows
  <2>8. QED
    BY <2>2, <2>3, <2>7
<1>8. ASSUME NEW e \in due.stop, StopJob(e), intact, request.step = "idle", Fresh
      PROVE  /\ \A r \in rules' : \/ AllDayRule(r, policies, cronFile)
                                  \/ \E x \in cronFile.start : x.num = r.num /\ x.id = r.id
             /\ due'.start \cup due'.stop \subseteq due.start \cup due.stop
             /\ \A i \in DOMAIN policies : Follows(policies[i])'
  <2>1. rules' = {r \in rules : r.num # e.num}
    BY <1>8 DEF StopJob
  <2>2. due'.start = due.start /\ due'.stop = due.stop \ {e}
    BY <1>3, <1>8 DEF StopJob, Jobs
  <2>3. \A r \in rules' : \/ AllDayRule(r, policies, cronFile)
                          \/ \E x \in cronFile.start : x.num = r.num /\ x.id = r.id
    BY <1>6, <1>8, <2>1
  <2>4. PICK n \in Nat : n = e.num
    BY <1>3 DEF Jobs, StopJobs
  <2>5. ~On(n)'
    BY <2>1, <2>4 DEF On
  <2>6. \A k \in Nat \ {n} : (On(k)' <=> On(k)) /\ (Awaited(k)' <=> Awaited(k))
    <3>1. \A k \in Nat \ {n} : On(k)' <=> On(k)
      BY <2>1, <2>4 DEF On
    <3>2. \A k \in Nat \ {n} : Awaited(k)' <=> Awaited(k)
      BY <2>2, <2>4 DEF Awaited
    <3>3. QED
      BY <3>1, <3>2
  <2>7. \A i \in DOMAIN policies : Follows(policies[i])'
    <3>1. SUFFICES ASSUME NEW i \in DOMAIN policies PROVE Follows(policies[i])'
      OBVIOUS
    <3>2. \E x \in due.stop : x.num = n
      BY <2>4
    <3>3. FALSE \in BOOLEAN
      OBVIOUS
    <3>4. QED
      BY <1>1, <1>8, <2>5, <2>6, <3>2, <3>3, JobFollows
  <2>8. QED
    BY <2>2, <2>3, <2>7
<1>9. Following'
  <2>1. ASSUME intact, request.step = "idle", Fresh
        PROVE  /\ \A r \in rules' : \/ AllDayRule(r, policies, cronFile)
                                    \/ \E x \in cronFile.start : x.num = r.num /\ x.id = r.id
               /\ due'.start \cup due'.stop \subseteq due.start \cup due.stop
               /\ \A i \in DOMAIN policies : Follows(policies[i])'
    BY <1>7, <1>8, <2>1 DEF RunJob
  <2>2. QED
    BY <1>1, <1>5, <1>6, <2>1 DEF Following
<1>10. QED
  BY <1>4, <1>9 DEF FInv

LEMMA NextFInv == EInv /\ FInv /\ [Next]_vars => FInv'
<1> SUFFICES ASSUME EInv, FInv, [Next]_vars PROVE FInv'
  OBVIOUS
<1>1. ASSUME NEW id \in Ids, NEW offer \in Offers, Save(id, offer) PROVE FInv'
  BY <1>1, RewriteFollows DEF Save
<1>2. ASSUME NEW id \in Ids, Delete(id) PROVE FInv'
  BY <1>2, RewriteFollows DEF Delete
<1>3. CASE UNCHANGED << policies, request, rules, cronFile, now, due, intact, settled >>
  <2>1. \A i \in DOMAIN policies : Follows(policies[i]) => Follows(policies[i])'
    BY <1>3 DEF Follows, On, Awaited, Anchored, Seen
  <2>2. Following => Following'
    BY <1>3, <2>1 DEF Following, Fresh
  <2>3. QED
    BY <1>3, <2>2 DEF FInv, Numbering, Unsettled
<1>4. CASE View
  <2>1. policies = << >>
    BY <1>4 DEF View, EInv, TypeInv
  <2>2. QED
    BY <1>3, <1>4, <2>1 DEF View, history
<1>5. CASE WriteFile
  <2>1. request'.step = "flush" /\ request.step = "write" /\ UNCHANGED settled
    BY <1>5 DEF WriteFile, EInv, TypeInv, Requests, history
  <2>2. QED
    BY <2>1 DEF FInv, Numbering, Following, Unsettled
<1>6. CASE Raise \/ Kill
  <2>1. intact' = FALSE /\ request'.step = "idle"
    BY <1>6 DEF Raise, Kill, Idle
  <2>2. QED
    BY <2>1 DEF FInv, Numbering, Following, Unsettled
<1>7. CASE RestartFirewall
  <2>1. intact' = FALSE /\ UNCHANGED << request, settled >>
    BY <1>7 DEF RestartFirewall
  <2>2. QED
    BY <2>1 DEF FInv, Numbering, Following, Unsettled
<1>8. CASE Serve
  BY <1>5, <1>6, <1>8, FlushFollows, SkipFollows, AddRuleFollows, AddJobsFollows, EndFollows
     DEF Serve
<1>9. CASE Tick \/ RunJob
  BY <1>9, TickFollows, RunFollows
<1>10. CASE UNCHANGED vars
  BY <1>3, <1>10 DEF vars
<1>11. QED
  BY <1>1, <1>2, <1>4, <1>6, <1>7, <1>8, <1>9, <1>10 DEF Next

\* A week after a request that ended well, if nothing disturbed the firewall, a rule
\* is in force exactly for the active policies whose times cover the moment, however
\* many policies there are and however fine the moments: the numbers that a request
\* gives its jobs are one policy's each, and from the first job on the rule under a
\* number follows the times of its policy (updatePolicyConfig, parseIPFW,
\* createCronJob, parseTime).
THEOREM ExactEnforcementCorrect == Spec => []ExactEnforcement
<1>1. ASSUME EInv, FInv, Undisturbed, settled = Week,
             \A i \in DOMAIN policies : WellTimed(policies[i].times), NEW id \in Ids
      PROVE  InForce(id) <=> Active(id, LAMBDA t : Covers(t, now))
  <2>1. /\ intact /\ request.step = "idle" /\ Fresh /\ due = NoJobs
        /\ policies \in Seq(Line) /\ rules \in SUBSET [num : Nat, id : Ids] /\ cronFile \in Jobs
        /\ TypeInv
    BY <1>1 DEF EInv, TypeInv, Undisturbed
  <2>2. PICK num \in Nat : Numbered(policies, Len(policies) + 1, num, cronFile)
    BY <1>1, <2>1 DEF FInv, Following
  <2>3. /\ \A r \in rules : \/ AllDayRule(r, policies, cronFile)
                            \/ \E j \in cronFile.start : j.num = r.num /\ j.id = r.id
        /\ \A i \in DOMAIN policies : Follows(policies[i])
        /\ Enforced(Len(policies), cronFile)
    BY <1>1, <2>1 DEF FInv, Following, EInv, Served
  <2>4. \A n : ~Awaited(n)
    BY <2>1 DEF Awaited, NoJobs
  <2>5. \A m \in Moments : Seen(m)
    <3>1. now \in 0 .. Week - 1 /\ Week \in Nat
      BY <2>1 DEF TypeInv, Moments, Week
    <3>2. QED
      BY <1>1, <3>1 DEF Seen, Moments
  <2>6. ASSUME NEW i \in DOMAIN policies, AllDayLine(policies[i])
        PROVE  Covers(policies[i].times, now)
    <3>1. PICK t \in Times : t = policies[i].times /\ (t.label = "Daily" => t.days = Days)
      BY <2>1, TimesOK
    <3>2. AllDay(t)
      BY <2>6, <3>1 DEF AllDayLine
    <3>3. t.days = Days /\ [start |-> 0, stop |-> Slots] \in t.rows
      BY <3>1, <3>2 DEF AllDay
    <3>4. now \div Slots \in Days /\ now % Slots \in 0 .. Slots - 1
      BY <2>1, SlotOfMoment DEF TypeInv
    <3>5. 0 <= now % Slots /\ now % Slots < Slots
      BY <3>4
    <3>6. QED
      BY <3>1, <3>3, <3>4, <3>5 DEF Covers
  <2>7. ASSUME NEW i \in DOMAIN policies, Timed(policies[i]), NEW n \in Nat,
               JobsOf(policies[i], n, cronFile), NEW j \in cronFile.start, j.num = n
        PROVE  On(n) <=> Covers(policies[i].times, now)
    <3>1. PICK line : line = policies[i]
      OBVIOUS
    <3>2. j.at \in Starts(line.times)
      BY <2>7, <3>1 DEF JobsOf
    <3>3. Anchored(line.times)
      BY <2>1, <2>5, <3>1, <3>2, TimesOK DEF Anchored
    <3>4. QED
      BY <1>1, <2>3, <2>4, <2>7, <3>1, <3>3 DEF Follows
  <2>8. ASSUME InForce(id) PROVE Active(id, LAMBDA t : Covers(t, now))
    <3>1. PICK r \in rules : r.id = id
      BY <2>8 DEF InForce
    <3>2. CASE AllDayRule(r, policies, cronFile)
      <4>1. PICK i \in DOMAIN policies : policies[i].id = id /\ AllDayLine(policies[i])
        BY <3>1, <3>2 DEF AllDayRule
      <4>2. Covers(policies[i].times, now)
        BY <2>6, <4>1
      <4>3. QED
        BY <4>1, <4>2 DEF Active, AllDayLine
    <3>3. CASE \E j \in cronFile.start : j.num = r.num /\ j.id = r.id
      <4>1. PICK j \in cronFile.start : j.num = r.num /\ j.id = id
        BY <3>1, <3>3
      <4>2. PICK i \in DOMAIN policies : Timed(policies[i]) /\ JobsOf(policies[i], j.num, cronFile)
        BY <2>2 DEF Numbered
      <4>3. j.num \in Nat /\ On(j.num)
        BY <2>1, <3>1, <4>1 DEF On
      <4>4. Covers(policies[i].times, now)
        BY <2>7, <4>2, <4>3
      <4>5. policies[i].id = id /\ policies[i].filtering = "active"
        BY <4>1, <4>2 DEF JobsOf, Timed
      <4>6. QED
        BY <4>4, <4>5 DEF Active
    <3>4. QED
      BY <2>3, <3>1, <3>2, <3>3
  <2>9. ASSUME Active(id, LAMBDA t : Covers(t, now)) PROVE InForce(id)
    <3>1. PICK i \in DOMAIN policies : /\ policies[i].id = id /\ policies[i].filtering = "active"
                                       /\ Covers(policies[i].times, now)
      BY <2>9 DEF Active
    <3>2. i <= Len(policies) /\ i < Len(policies) + 1
      BY <2>1
    <3>3. CASE AllDay(policies[i].times)
      BY <2>3, <3>1, <3>2, <3>3 DEF Enforced, InForce, AllDayLine
    <3>4. CASE ~AllDay(policies[i].times)
      <4>1. Timed(policies[i])
        BY <3>1, <3>4 DEF Timed
      <4>2. PICK n \in Nat : JobsOf(policies[i], n, cronFile)
        BY <2>2, <3>2, <4>1 DEF Numbered
      <4>3. PICK m \in Starts(policies[i].times) : TRUE
        BY <1>1, <2>1, <3>1, <3>4, TimesOK, CoveredStarts
      <4>4. PICK j \in cronFile.start : j.num = n
        BY <4>2, <4>3 DEF JobsOf
      <4>5. On(n)
        BY <2>7, <3>1, <4>1, <4>2, <4>4
      <4>6. PICK r \in rules : r.num = n
        BY <4>5 DEF On
      <4>7. ~AllDayRule(r, policies, cronFile)
        BY <4>4, <4>6 DEF AllDayRule
      <4>8. PICK x \in cronFile.start : x.num = n /\ x.id = r.id
        BY <2>3, <4>6, <4>7
      <4>9. r.id = id
        BY <3>1, <4>2, <4>8 DEF JobsOf
      <4>10. QED
        BY <4>9 DEF InForce
    <3>5. QED
      BY <3>3, <3>4
  <2>10. QED
    BY <2>8, <2>9
<1>2. EInv /\ FInv => ExactEnforcement
  BY <1>1 DEF ExactEnforcement
<1>3. QED
  BY InitEInv, NextEInv, InitFInv, NextFInv, <1>2, PTL DEF Spec

=============================================================================
