---------------------- MODULE IntegrationHealth_proofs ----------------------
(***************************************************************************)
(* Proofs about IntegrationHealth, for any numbers of integrations, cron   *)
(* runs, tasks and faults.                                                 *)
(*                                                                         *)
(* Base is one inductive invariant: types, what the positions of processes *)
(* say about them (Working, Judging), the errors of an expired row and the *)
(* circuits.  TokenInv is inductive relative to Base.  Its core is Alone:  *)
(* who is about to store a rotated token is the only one who has it, so    *)
(* that two stores of one row never meet and nothing older than the newest *)
(* token is ever stored.                                                   *)
(*                                                                         *)
(* Revival, too, is inductive relative to Base: who has a disconnected row *)
(* in hand had it when the row was disconnected, or acts for a user.       *)
(***************************************************************************)
EXTENDS IntegrationHealth, TLAPS

-----------------------------------------------------------------------------
(* The inductive invariant of rows, processes and circuit. *)

\* A process that is past its selection has a row in hand.
Working == \A p \in Procs : pc[p] \notin {"idle", "cycle", "next", "reset"} => cur[p] \in Rows

\* Only checks insert and judge results, and they have one to insert or to judge.
Judging ==
  \A p \in Procs :
    /\ pc[p] \in {"check", "wait", "insert", "score", "update"} => p \in Checks
    /\ pc[p] = "insert" => verdict[p] \in {"pass", "fail"}
    /\ pc[p] = "update" => verdict[p] \in {"connected", "degraded", "disconnected"}

Results == {"pass", "fail"}

RowTypes ==
  /\ status \in [Rows -> Statuses]
  /\ errors \in [Rows -> 0 .. MaxErrors]
  /\ expiring \in [Rows -> BOOLEAN]
  /\ stored \in [Rows -> BOOLEAN]
  /\ pending \in [Rows -> BOOLEAN]
  /\ log \in [Rows -> Seq(Results)]
  /\ \A i \in Rows : Len(log[i]) <= Window

ProcTypes ==
  /\ pc \in [Procs -> Positions]
  /\ todo \in [Procs -> SUBSET Rows]
  /\ cur \in [Procs -> Rows \cup {NoRow}]
  /\ got \in [Procs -> Tokens]
  /\ seen \in [Procs -> [Rows -> 0 .. MaxErrors]]
  /\ verdict \in [Procs -> {"none", "pass", "fail"} \cup Statuses]
  /\ tenants \in [Procs -> SUBSET Tenants]
  /\ healed \in [Procs -> SUBSET Platforms]
  /\ holders \in [Rows -> SUBSET Procs]

\* What processes know has its type and fits their positions.
Sound == ProcTypes /\ Working /\ Judging

HistoryTypes == lost \in [Rows -> BOOLEAN] /\ faults \in 0 .. MaxFaults

\* An expired row has all its errors.
Exhausted == \A i \in Rows : status[i] = "expired" => errors[i] = MaxErrors

RowsSound == RowTypes /\ Exhausted

CircuitSound == circuit \in [Platforms -> Circuits] /\ TrippedByFailures

Base == Sound /\ RowTypes /\ HistoryTypes /\ CircuitSound /\ Exhausted

\* TypeOK in the parts that steps leave alone together.
LEMMA TypeParts == TypeOK <=> RowTypes /\ ProcTypes /\ HistoryTypes /\ circuit \in [Platforms -> Circuits]
BY DEF TypeOK, RowTypes, ProcTypes, HistoryTypes, Results

-----------------------------------------------------------------------------
(* Operators. *)

\* Whatever happens to a circuit, it is closed exactly below its threshold.
LEMMA CircuitSteps ==
  ASSUME NEW c \in Circuits, c.state = "closed" <=> c.failures < Threshold
  PROVE  \A d \in {FreshCircuit, Admit(c), OnSuccess(c), OnFailure(c), OnFailure(OnSuccess(c)), Cool(c)} :
            d \in Circuits /\ (d.state = "closed" <=> d.failures < Threshold)
<1> DEFINE Good(d) == d \in Circuits /\ (d.state = "closed" <=> d.failures < Threshold)
<1>1. Good(FreshCircuit)
  BY ThresholdAssumption DEF FreshCircuit, Circuits, CircuitStates
<1>2. Good(Admit(c))
  BY DEF Admit, Circuits, CircuitStates
<1>3. Good(OnSuccess(c))
  <2>1. OnSuccess(c) \in Circuits
    <3>1. \A d \in Circuits : [d EXCEPT !.failures = 0] \in Circuits
      BY ThresholdAssumption DEF Circuits
    <3>2. \A d \in Circuits : [d EXCEPT !.state = "closed"] \in Circuits
      BY DEF Circuits, CircuitStates
    <3>3. \A d \in Circuits : [d EXCEPT !.cooled = FALSE] \in Circuits
      BY DEF Circuits
    <3>4. OnSuccess(c) = [[[c EXCEPT !.failures = 0] EXCEPT !.state = "closed"] EXCEPT !.cooled = FALSE]
      BY DEF OnSuccess, Circuits
    <3>5. QED
      BY <3>1, <3>2, <3>3, <3>4
  <2>2. OnSuccess(c).state = "closed" /\ OnSuccess(c).failures = 0
    BY DEF OnSuccess, Circuits
  <2>3. QED
    BY <2>1, <2>2, ThresholdAssumption
<1>4. Good(Cool(c))
  BY DEF Cool, Circuits, CircuitStates
<1>5. \A d : Good(d) => Good(OnFailure(d))
  BY ThresholdAssumption DEF OnFailure, Circuits, CircuitStates
<1>6. QED
  BY <1>1, <1>2, <1>3, <1>4, <1>5

\* The smaller of two numbers.
LEMMA MinOf ==
  ASSUME NEW a \in Nat, NEW b \in Nat
  PROVE  Min({a, b}) \in {a, b} /\ Min({a, b}) <= a /\ Min({a, b}) <= b
<1>1. \E x \in {a, b} : \A y \in {a, b} : x <= y
  BY SMT
<1>2. QED
  BY <1>1 DEF Min

\* A log stays a log of the window's length.
LEMMA LoggedType ==
  ASSUME NEW l \in Seq(Results), NEW r \in Results
  PROVE  Logged(l, r) \in Seq(Results) /\ Len(Logged(l, r)) <= Window
<1> DEFINE m == Min({Window, Len(l) + 1})
           s == <<r>> \o l
<1>1. Len(l) \in Nat /\ Window \in Nat /\ Window > 0
  BY IntegrationAssumption
<1>2. m \in 1 .. Len(l) + 1 /\ m <= Window
  BY <1>1, MinOf
<1>3. s \in Seq(Results) /\ Len(s) = Len(l) + 1
  OBVIOUS
<1> HIDE DEF m, s
<1>4. SubSeq(s, 1, m) \in Seq(Results) /\ Len(SubSeq(s, 1, m)) = m
  BY <1>1, <1>2, <1>3
<1>5. QED
  BY <1>2, <1>4 DEF Logged, m, s

\* Where a call to the platform leads.
LEMMA Positioned ==
  /\ DOMAIN Sent = {"check", "check1", "check2"}
  /\ DOMAIN Passing = {"wait", "wait1", "wait2"}
  /\ Sent["check"] = "wait" /\ Sent["check1"] = "wait1" /\ Sent["check2"] = "wait2"
  /\ Passing["wait"] = "insert" /\ Passing["wait1"] = "connect1" /\ Passing["wait2"] = "connect2"
  /\ Failing["check"] = "insert" /\ Failing["check1"] = "check2" /\ Failing["check2"] = "link"
  /\ Failing["wait"] = "insert" /\ Failing["wait1"] = "check2" /\ Failing["wait2"] = "link"
BY DEF Sent, Passing, Failing

-----------------------------------------------------------------------------
(* What steps have in common. *)

\* A process that is done with its row.
LEMMA ReleaseSound ==
  ASSUME Sound, NEW p \in Procs, NEW left \in SUBSET Rows,
         NEW platforms \in SUBSET Platforms, Release(p, left, platforms)
  PROVE  Sound'
<1>1. ProcTypes'
  <2>1. Turn(left, platforms, tenants[p]) \in Positions
    BY DEF Turn, Positions
  <2>2. QED
    BY <2>1, IntegrationAssumption DEF Sound, ProcTypes, Release, Tokens, Statuses
<1>2. Working' /\ Judging'
  BY DEF Sound, ProcTypes, Release, Working, Judging, Turn
<1>3. QED
  BY <1>1, <1>2 DEF Sound

\* A process that goes on with its row.
LEMMA GotoSound ==
  ASSUME Sound, NEW p \in Procs, NEW position \in Positions \ {"insert", "update", "check", "wait", "score"},
         cur[p] \in Rows, Goto(p, position), UNCHANGED <<todo, cur, seen, verdict, healing, holders>>,
         got' \in [Procs -> Tokens]
  PROVE  Sound'
<1>1. ProcTypes'
  BY DEF Sound, ProcTypes, Goto, healing
<1>2. Working' /\ Judging'
  BY DEF Sound, ProcTypes, Goto, Working, Judging
<1>3. QED
  BY <1>1, <1>2 DEF Sound

\* A row that becomes connected loses its errors.
LEMMA ConnectSound ==
  ASSUME RowsSound, NEW i \in Rows, Connect(i), UNCHANGED <<expiring, stored, pending, log>>
  PROVE  RowsSound'
BY IntegrationAssumption DEF RowsSound, RowTypes, Exhausted, Connect, Statuses

\* Rows that nobody writes.
LEMMA QuietRows ==
  ASSUME RowsSound, UNCHANGED row
  PROVE  RowsSound'
BY DEF RowsSound, RowTypes, Exhausted, row

\* A score never makes a row 'expired'.
LEMMA StatusOfRange ==
  ASSUME NEW l
  PROVE  StatusOf(l) \in {"connected", "degraded", "disconnected"}
BY DEF StatusOf

\* A process that asks the platform or has its answer.
LEMMA AskingSound ==
  ASSUME Sound, NEW p \in Procs, pc[p] \in DOMAIN Sent \cup DOMAIN Passing,
         NEW result \in Results,
         \/ pc[p] \in DOMAIN Sent /\ Goto(p, Sent[pc[p]]) /\ UNCHANGED verdict
         \/ pc[p] \in DOMAIN Passing /\ Goto(p, Passing[pc[p]]) /\ Result(p, result)
         \/ Goto(p, Failing[pc[p]]) /\ Result(p, result),
         UNCHANGED <<todo, cur, got, seen, healing, holders>>
  PROVE  Sound'
<1>1. PICK position \in Positions :
         /\ Goto(p, position)
         /\ position \notin {"idle", "cycle", "next", "reset", "check", "score", "update"}
         /\ position \in {"wait", "insert"} => pc[p] \in {"check", "wait"}
         /\ position = "insert" => Result(p, result)
         /\ UNCHANGED verdict \/ Result(p, result)
  BY Positioned DEF Positions
<1>2. verdict' \in [Procs -> {"none", "pass", "fail"} \cup Statuses]
  BY <1>1 DEF Sound, ProcTypes, Result, Results
<1>3. ProcTypes'
  BY <1>1, <1>2 DEF Sound, ProcTypes, Goto, healing
<1>4. Working'
  BY <1>1, Positioned DEF Sound, ProcTypes, Working, Goto
<1>5. Judging'
  <2> SUFFICES ASSUME NEW q \in Procs
               PROVE  /\ pc'[q] \in {"check", "wait", "insert", "score", "update"} => q \in Checks
                      /\ pc'[q] = "insert" => verdict'[q] \in {"pass", "fail"}
                      /\ pc'[q] = "update" => verdict'[q] \in {"connected", "degraded", "disconnected"}
    BY DEF Judging
  <2>1. CASE q = p
    BY <1>1, <2>1 DEF Sound, ProcTypes, Judging, Goto, Result, Results
  <2>2. CASE q # p
    <3>1. pc'[q] = pc[q] /\ verdict'[q] = verdict[q]
      BY <1>1, <2>2 DEF Sound, ProcTypes, Goto, Result
    <3>2. QED
      BY <3>1 DEF Sound, Judging
  <2>3. QED
    BY <2>1, <2>2
<1>6. QED
  BY <1>3, <1>4, <1>5 DEF Sound

\* A step that does to a circuit one of the things that are done to it.
LEMMA CircuitStep ==
  ASSUME CircuitSound, NEW x \in Platforms, NEW d,
         d \in {FreshCircuit, Admit(circuit[x]), OnSuccess(circuit[x]), OnFailure(circuit[x]),
                OnFailure(OnSuccess(circuit[x])), Cool(circuit[x])},
         circuit' = [circuit EXCEPT ![x] = d]
  PROVE  CircuitSound'
<1>1. d \in Circuits /\ (d.state = "closed" <=> d.failures < Threshold)
  BY CircuitSteps DEF CircuitSound, TrippedByFailures
<1>2. QED
  BY <1>1 DEF CircuitSound, TrippedByFailures

\* Circuits that are reset.
LEMMA ResetStep ==
  ASSUME CircuitSound, NEW S, circuit' = [x \in Platforms |-> IF x \in S THEN FreshCircuit ELSE circuit[x]]
  PROVE  CircuitSound'
<1>1. FreshCircuit \in Circuits /\ FreshCircuit.state = "closed" /\ FreshCircuit.failures < Threshold
  BY ThresholdAssumption DEF FreshCircuit, Circuits, CircuitStates
<1>2. QED
  BY <1>1 DEF CircuitSound, TrippedByFailures

-----------------------------------------------------------------------------
(* Base is inductive. *)

LEMMA InitBase == Init => Base
<1> SUFFICES ASSUME Init PROVE Base
  OBVIOUS
<1>1. RowTypes /\ Exhausted
  BY IntegrationAssumption DEF Init, RowTypes, Exhausted, Statuses
<1>2. Sound
  BY IntegrationAssumption DEF Init, Sound, ProcTypes, Working, Judging, Positions, Tokens, Statuses
<1>3. HistoryTypes
  BY IntegrationAssumption DEF Init, HistoryTypes
<1>4. CircuitSound
  BY ThresholdAssumption DEF Init, CircuitSound, TrippedByFailures, FreshCircuit, Circuits, CircuitStates
<1>5. QED
  BY <1>1, <1>2, <1>3, <1>4 DEF Base

\* One step per action; what an action leaves alone is settled by <1>h to <1>f.
LEMMA StepBase == Base /\ [Next]_vars => Base'
<1> SUFFICES ASSUME Base, [Next]_vars PROVE Base'
  OBVIOUS
<1> USE DEF Base
<1>0. RowsSound
  BY DEF RowsSound
<1>h. ASSUME UNCHANGED <<lost, faults>> PROVE HistoryTypes'
  BY <1>h DEF HistoryTypes
<1>r. ASSUME RowsSound' PROVE RowTypes' /\ Exhausted'
  BY <1>r DEF RowsSound
<1>c. ASSUME UNCHANGED circuit PROVE CircuitSound'
  BY <1>c DEF CircuitSound, TrippedByFailures
<1>u. ASSUME UNCHANGED row PROVE RowTypes' /\ Exhausted'
  BY <1>0, <1>u, QuietRows DEF RowsSound
<1>f. ASSUME Fault, lost' \in [Rows -> BOOLEAN] PROVE HistoryTypes'
  BY <1>f, IntegrationAssumption DEF HistoryTypes, Fault
<1>1. ASSUME NEW p \in Procs, NEW i \in Rows, NextRefresh(p, i) PROVE Base'
  <2>1. UNCHANGED <<row, circuit, lost, faults>>
    BY <1>1 DEF NextRefresh
  <2>2. Sound'
    BY <1>1 DEF NextRefresh, Sound, ProcTypes, Working, Judging, Goto, Positions, Tokens, healing
  <2>3. QED
    BY <2>1, <2>2, <1>h, <1>c, <1>u
<1>2. ASSUME NEW p \in Procs, NEW i \in Rows, SkipRefresh(p, i) \/ NextHeal(p, i) PROVE Base'
  <2>1. UNCHANGED <<row, circuit, lost, faults>>
    BY <1>2 DEF SkipRefresh, NextHeal
  <2>2. CASE SkipRefresh(p, i)
    <3>1. Release(p, todo[p] \ {i}, {}) /\ todo[p] \ {i} \in SUBSET Rows
      BY <2>2 DEF SkipRefresh, Sound, ProcTypes
    <3>2. QED
      BY <2>1, <3>1, <1>h, <1>c, <1>u, ReleaseSound
  <2>3. CASE NextHeal(p, i)
    <3>1. Sound'
      BY <2>3 DEF NextHeal, Sound, ProcTypes, Working, Judging, Goto, Positions, healing
    <3>2. QED
      BY <2>1, <3>1, <1>h, <1>c, <1>u
  <2>4. QED
    BY <1>2, <2>2, <2>3
<1>28. ASSUME NEW p \in Procs, NEW t \in Tenants, CycleSelect(p, t) \/ CycleThrows(p, t) PROVE Base'
  <2>t. \A left : Turn(left, {}, tenants'[p]) \in {"next", "cycle", "idle"}
    BY DEF Turn
  <2>1. \E left \in SUBSET Rows : todo' = [todo EXCEPT ![p] = left]
    BY <1>28 DEF CycleSelect, CycleThrows, Sound, ProcTypes
  <2>2. /\ \E position \in {"next", "cycle", "idle"} : pc' = [pc EXCEPT ![p] = position]
        /\ tenants' = [tenants EXCEPT ![p] = @ \ {t}]
    BY <1>28, <2>t DEF CycleSelect, CycleThrows, Goto
  <2>3. UNCHANGED <<row, circuit, cur, got, seen, verdict, healed, lost, holders>>
    BY <1>28 DEF CycleSelect, CycleThrows
  <2>4. Sound'
    BY <2>1, <2>2, <2>3 DEF Sound, ProcTypes, Working, Judging, Positions
  <2>5. HistoryTypes'
    BY <1>28, <1>h, <1>f DEF CycleSelect, CycleThrows, HistoryTypes
  <2>6. QED
    BY <2>3, <2>4, <2>5, <1>c, <1>u
<1>3. ASSUME NEW p \in Procs, RecordFailure(p) PROVE Base'
  <2>1. UNCHANGED <<circuit, lost, faults>> /\ Release(p, todo[p], {}) /\ todo[p] \in SUBSET Rows
    BY <1>3 DEF RecordFailure, Sound, ProcTypes
  <2>2. cur[p] \in Rows /\ seen[p][cur[p]] \in 0 .. MaxErrors
    BY <1>3 DEF RecordFailure, Sound, ProcTypes, Working
  <2>5. PICK count \in 1 .. MaxErrors :
          /\ errors' = [errors EXCEPT ![cur[p]] = count]
          /\ status' = [status EXCEPT ![cur[p]] = IF count >= MaxErrors THEN "expired" ELSE "degraded"]
          /\ UNCHANGED <<expiring, stored, pending, log>>
    <3>1. (IF seen[p][cur[p]] < MaxErrors THEN seen[p][cur[p]] + 1 ELSE MaxErrors) \in 1 .. MaxErrors
      BY <2>2, IntegrationAssumption
    <3>2. QED
      BY <1>3, <3>1 DEF RecordFailure
  <2>3. RowTypes' /\ Exhausted'
    BY <2>2, <2>5, IntegrationAssumption DEF RowTypes, Exhausted, Statuses
  <2>4. QED
    BY <2>1, <2>3, <1>h, <1>c, ReleaseSound
<1>4. ASSUME NEW p \in Procs, Retrieve(p) PROVE Base'
  <2>1. UNCHANGED <<row, circuit, lost, faults>>
    BY <1>4 DEF Retrieve
  <2>2. got' \in [Procs -> Tokens] /\ cur[p] \in Rows
    BY <1>4 DEF Retrieve, Sound, ProcTypes, Working, Tokens
  <2>5. PICK position \in {"exchange", "check1"} : Goto(p, position)
    BY <1>4 DEF Retrieve
  <2>3. Sound'
    BY <1>4, <2>2, <2>5, GotoSound DEF Retrieve, Positions
  <2>4. QED
    BY <2>1, <2>3, <1>h, <1>c, <1>u
<1>5. ASSUME NEW p \in Procs, Exchange(p) PROVE Base'
  <2>1. UNCHANGED <<circuit, lost, faults>>
    BY <1>5 DEF Exchange
  <2>2. got' \in [Procs -> Tokens] /\ cur[p] \in Rows
    BY <1>5 DEF Exchange, Rotate, Sound, ProcTypes, Working, Tokens
  <2>3. Sound'
    BY <1>5, <2>2, GotoSound DEF Exchange, Positions
  <2>4. RowTypes' /\ Exhausted'
    BY <1>5 DEF Exchange, Rotate, RowTypes, Exhausted
  <2>5. QED
    BY <2>1, <2>3, <2>4, <1>h, <1>c
<1>6. ASSUME NEW p \in Procs, ExchangeRejected(p) PROVE Base'
  <2>1. UNCHANGED <<row, circuit, lost, faults>>
    BY <1>6 DEF ExchangeRejected
  <2>2. got' \in [Procs -> Tokens] /\ cur[p] \in Rows
    BY <1>6 DEF ExchangeRejected, Sound, ProcTypes, Working, Tokens
  <2>3. Sound'
    BY <1>6, <2>2, GotoSound DEF ExchangeRejected, Caught, Positions
  <2>4. QED
    BY <2>1, <2>3, <1>h, <1>c, <1>u
<1>7. ASSUME NEW p \in Procs, Store(p) PROVE Base'
  <2>1. UNCHANGED <<circuit, lost, faults>>
    BY <1>7 DEF Store
  <2>2. got' \in [Procs -> Tokens] /\ cur[p] \in Rows
    BY <1>7 DEF Store, Sound, ProcTypes, Working, Tokens
  <2>3. Sound'
    BY <1>7, <2>2, GotoSound DEF Store, Positions
  <2>4. RowTypes' /\ Exhausted'
    BY <1>7 DEF Store, RowTypes, Exhausted
  <2>5. QED
    BY <2>1, <2>3, <2>4, <1>h, <1>c
<1>8. ASSUME NEW p \in Procs, MarkRefreshed(p) PROVE Base'
  <2>1. UNCHANGED <<circuit, lost, faults, expiring, stored, pending, log>> /\ cur[p] \in Rows /\ Connect(cur[p])
    BY <1>8 DEF MarkRefreshed, Sound, Working
  <2>2. RowTypes' /\ Exhausted'
    BY <2>1, <1>0, <1>r, ConnectSound
  <2>3. CASE p \in Refreshers
    <3>1. Release(p, todo[p], {}) /\ todo[p] \in SUBSET Rows
      BY <1>8, <2>3 DEF MarkRefreshed, Sound, ProcTypes
    <3>2. QED
      BY <2>1, <2>2, <3>1, <1>h, <1>c, ReleaseSound
  <2>4. CASE p \notin Refreshers
    <3>1. Goto(p, "check1") /\ UNCHANGED <<todo, cur, got, seen, verdict, healing, holders>>
      BY <1>8, <2>4 DEF MarkRefreshed
    <3>2. Sound'
      BY <2>1, <3>1, GotoSound DEF Positions, Sound, ProcTypes
    <3>3. QED
      BY <2>1, <2>2, <3>2, <1>h, <1>c
  <2>5. QED
    BY <2>3, <2>4
<1>9. ASSUME NEW p \in Procs, InsertResult(p) PROVE Base'
  <2>1. UNCHANGED <<circuit, lost, faults>> /\ cur[p] \in Rows /\ verdict[p] \in Results
    BY <1>9 DEF InsertResult, Sound, Working, Judging, Results
  <2>2. Logged(log[cur[p]], verdict[p]) \in Seq(Results) /\ Len(Logged(log[cur[p]], verdict[p])) <= Window
    BY <2>1, LoggedType DEF RowTypes
  <2>3. log' \in [Rows -> Seq(Results)] /\ \A i \in Rows : Len(log'[i]) <= Window
    BY <1>9, <2>1, <2>2 DEF InsertResult, RowTypes
  <2>4. RowTypes' /\ Exhausted'
    BY <1>9, <2>3 DEF InsertResult, RowTypes, Exhausted
  <2>5. Sound'
    BY <1>9 DEF InsertResult, Sound, ProcTypes, Working, Judging, Goto, Positions, healing
  <2>6. QED
    BY <2>1, <2>4, <2>5, <1>h, <1>c
<1>10. ASSUME NEW p \in Procs, Score(p) PROVE Base'
  <2>1. UNCHANGED <<row, circuit, lost, faults>>
    BY <1>10 DEF Score
  <2>2. PICK s \in {"connected", "degraded", "disconnected"} : verdict' = [verdict EXCEPT ![p] = s]
    BY <1>10, StatusOfRange DEF Score
  <2>3. Sound'
    BY <1>10, <2>2 DEF Score, Sound, ProcTypes, Working, Judging, Goto, Positions, Statuses, healing
  <2>4. QED
    BY <2>1, <2>3, <1>h, <1>c, <1>u
<1>11. ASSUME NEW p \in Procs, UpdateStatus(p) PROVE Base'
  <2>1. UNCHANGED <<circuit, lost, faults>> /\ cur[p] \in Rows
        /\ verdict[p] \in {"connected", "degraded", "disconnected"}
    BY <1>11 DEF UpdateStatus, Sound, Working, Judging
  <2>2. RowTypes' /\ Exhausted'
    BY <1>11, <2>1, IntegrationAssumption DEF UpdateStatus, RowTypes, Exhausted, Statuses
  <2>3. Sound'
    BY <1>11, <2>1 DEF UpdateStatus, Sound, ProcTypes, Working, Judging, Positions, healing
  <2>4. QED
    BY <2>1, <2>2, <2>3, <1>h, <1>c
<1>12. ASSUME NEW p \in Procs,
              Send(p) \/ FailFast(p) \/ AnswerOk(p) \/ AnswerClientError(p) \/ AnswerFailure(p) \/ AnswerUnreadable(p)
       PROVE  Base'
  <2>1. UNCHANGED <<row, lost, faults>>
    BY <1>12 DEF Send, FailFast, AnswerOk, AnswerClientError, AnswerFailure, AnswerUnreadable
  <2>5. PlatformOf[cur[p]] \in Platforms
    BY <1>12, Positioned, IntegrationAssumption
       DEF Send, FailFast, AnswerOk, AnswerClientError, AnswerFailure, AnswerUnreadable, Sound, Working
  <2>2. CircuitSound'
    BY <1>12, <2>5, <1>c, CircuitStep
       DEF Send, FailFast, AnswerOk, AnswerClientError, AnswerFailure, AnswerUnreadable, SetCircuit, Asked
  <2>3. Sound'
    BY <1>12, AskingSound DEF Send, FailFast, AnswerOk, AnswerClientError, AnswerFailure, AnswerUnreadable, Results
  <2>4. QED
    BY <2>1, <2>2, <2>3, <1>h, <1>u
<1>13. ASSUME NEW p \in Procs, Reconnected(p) PROVE Base'
  <2>1. UNCHANGED <<lost, faults, expiring, stored, pending, log>> /\ cur[p] \in Rows /\ Connect(cur[p])
        /\ todo[p] \in SUBSET Rows
    BY <1>13 DEF Reconnected, Sound, Working, ProcTypes
  <2>2. RowTypes' /\ Exhausted'
    BY <2>1, <1>0, <1>r, ConnectSound
  <2>3. PlatformOf[cur[p]] \in Platforms
    BY <2>1, IntegrationAssumption
  <2>4. CircuitSound'
    BY <1>13, <2>3, <1>c, CircuitStep DEF Reconnected, SetCircuit
  <2>5. PICK platforms \in SUBSET Platforms : Release(p, todo[p], platforms)
    BY <1>13, <2>3 DEF Reconnected, Sound, ProcTypes
  <2>6. QED
    BY <2>1, <2>2, <2>4, <2>5, <1>h, ReleaseSound
<1>14. ASSUME NEW p \in Procs, ResetTripped(p) PROVE Base'
  <2>1. CircuitSound'
    <3>1. circuit' = [x \in Platforms |->
                       IF x \in {y \in healed[p] : circuit[y].state = "open"} THEN FreshCircuit ELSE circuit[x]]
      BY <1>14 DEF ResetTripped
    <3>2. QED
      BY <3>1, ResetStep
  <2>2. QED
    BY <1>14, <2>1, <1>h, <1>u, ReleaseSound DEF ResetTripped
<1>29. ASSUME NEW p \in Procs, GenerateLink(p) \/ NoLink(p) PROVE Base'
  <2>1. UNCHANGED <<row, circuit, lost, faults>>
        /\ \E left \in SUBSET Rows, platforms \in SUBSET Platforms : Release(p, left, platforms)
    BY <1>29 DEF GenerateLink, NoLink, Sound, ProcTypes
  <2>2. QED
    BY <2>1, <1>h, <1>c, <1>u, ReleaseSound
<1>30. ASSUME NEW p \in Procs, Unreadable(p) PROVE Base'
  <2>1. UNCHANGED <<row, circuit, lost, faults>>
    BY <1>30 DEF Unreadable
  <2>2. CASE pc[p] = "check"
    BY <1>30, <2>1, <2>2, <1>h, <1>c, <1>u, ReleaseSound DEF Unreadable
  <2>3. CASE pc[p] # "check"
    <3>1. cur[p] \in Rows /\ \E position \in {"link", "check2"} : Goto(p, position)
      BY <1>30, <2>3, Positioned DEF Unreadable, Sound, Working
    <3>2. UNCHANGED <<todo, cur, got, seen, verdict, healing, holders>>
      BY <1>30, <2>3 DEF Unreadable
    <3>3. Sound'
      BY <3>1, <3>2, GotoSound DEF Positions, Sound, ProcTypes
    <3>4. QED
      BY <2>1, <3>3, <1>h, <1>c, <1>u
  <2>4. QED
    BY <2>2, <2>3
<1>15. ASSUME NEW p \in Procs, RefreshSelect(p) PROVE Base'
  <2>1. UNCHANGED <<row, circuit, lost, faults>>
    BY <1>15 DEF RefreshSelect
  <2>2. PICK s \in SUBSET Rows :
          /\ todo' = [todo EXCEPT ![p] = s]
          /\ seen' = [seen EXCEPT ![p] = [i \in Rows |-> IF i \in s THEN errors[i] ELSE 0]]
    BY <1>15, IntegrationAssumption DEF RefreshSelect
  <2>3. [i \in Rows |-> IF i \in s THEN errors[i] ELSE 0] \in [Rows -> 0 .. MaxErrors]
    BY IntegrationAssumption DEF RowTypes
  <2>4. Sound'
    BY <1>15, <2>2, <2>3 DEF RefreshSelect, Sound, ProcTypes, Working, Judging, Goto, Positions, healing
  <2>5. QED
    BY <2>1, <2>4, <1>h, <1>c, <1>u
<1>16. ASSUME NEW p \in Procs, HealSelect(p) PROVE Base'
  <2>1. UNCHANGED <<row, circuit, lost, faults>>
    BY <1>16 DEF HealSelect
  <2>2. Sound'
    BY <1>16 DEF HealSelect, Sound, ProcTypes, Working, Judging, Goto, Positions
  <2>3. QED
    BY <2>1, <2>2, <1>h, <1>c, <1>u
<1>17. ASSUME NEW p \in Procs, ExchangeFails(p) PROVE Base'
  <2>1. UNCHANGED <<status, errors, expiring, pending, log, circuit, todo, cur, seen, verdict, healing, holders>>
        /\ Fault /\ cur[p] \in Rows /\ Goto(p, Caught(p))
    BY <1>17 DEF ExchangeFails, Sound, Working
  <2>2. lost' \in [Rows -> BOOLEAN] /\ stored' \in [Rows -> BOOLEAN] /\ got' \in [Procs -> Tokens]
    <3>1. CASE got' = [got EXCEPT ![p] = "none"] /\ UNCHANGED <<stored, lost>>
      BY <3>1 DEF HistoryTypes, RowTypes, Sound, ProcTypes, Tokens
    <3>2. CASE cur[p] \in Rotating /\ Rotate(p, "none") /\ lost' = [lost EXCEPT ![cur[p]] = TRUE]
      <4>1. got' \in [Procs -> Tokens] /\ stored' = [stored EXCEPT ![cur[p]] = FALSE]
        BY <3>2 DEF Rotate, Sound, ProcTypes, Tokens
      <4>2. QED
        BY <3>2, <4>1 DEF HistoryTypes, RowTypes
    <3>3. QED
      BY <1>17, <3>1, <3>2 DEF ExchangeFails
  <2>3. RowTypes' /\ Exhausted'
    BY <2>1, <2>2 DEF RowTypes, Exhausted
  <2>4. Sound'
    BY <2>1, <2>2, GotoSound DEF Caught, Positions
  <2>5. QED
    BY <2>1, <2>2, <2>3, <2>4, <1>c, <1>f
<1>18. ASSUME NEW p \in Procs, CallThrows(p) PROVE Base'
  <2>1. UNCHANGED <<row, circuit, todo, cur, seen, verdict, healing, holders>> /\ Fault /\ Goto(p, Thrown(p))
    BY <1>18 DEF CallThrows
  <2>2. pc[p] \in {"store", "mark", "check1", "connect1", "check2", "connect2"}
        /\ Thrown(p) \in {"fail", "check2", "link"}
    BY <1>18 DEF CallThrows, Thrown, Caught
  <2>3. lost' \in [Rows -> BOOLEAN] /\ got' \in [Procs -> Tokens] /\ cur[p] \in Rows
    BY <1>18, <2>2 DEF CallThrows, HistoryTypes, Sound, ProcTypes, Working, Tokens, Unsaved
  <2>4. Sound'
    BY <2>1, <2>2, <2>3, GotoSound DEF Positions
  <2>5. QED
    BY <2>1, <2>3, <2>4, <1>c, <1>f, <1>u
<1>19. ASSUME NEW p \in Procs, RunThrows(p) PROVE Base'
  BY <1>19, <1>c, <1>f, <1>u, ReleaseSound DEF RunThrows, HistoryTypes
<1>20. ASSUME NEW p \in Procs, NEW i \in Rows, Reconnect(p, i) PROVE Base'
  <2>1. UNCHANGED <<row, circuit, lost, faults>>
    BY <1>20 DEF Reconnect
  <2>2. Sound'
    BY <1>20 DEF Reconnect, Sound, ProcTypes, Working, Judging, Goto, Positions, healing
  <2>3. QED
    BY <2>1, <2>2, <1>h, <1>c, <1>u
<1>21. ASSUME NEW s \in Sweeps, SweepSelect(s) PROVE Base'
  <2> DEFINE Sel(p) == p \in Checks /\ p[1] = s /\ status[p[2]] # "disconnected"
  <2>1. UNCHANGED <<row, circuit, lost, faults>>
    BY <1>21 DEF SweepSelect
  <2>2. /\ pc' = [p \in Procs |-> IF Sel(p) THEN "check" ELSE pc[p]]
        /\ cur' = [p \in Procs |-> IF Sel(p) THEN p[2] ELSE cur[p]]
        /\ UNCHANGED <<todo, got, seen, verdict, healing, holders>>
    BY <1>21 DEF SweepSelect
  <2>3. \A p \in Procs : Sel(p) => p \in Checks /\ p[2] \in Rows
    BY DEF Checks
  <2> HIDE DEF Sel
  <2>4. Sound'
    BY <2>2, <2>3 DEF Sound, ProcTypes, Working, Judging, Positions, healing
  <2>5. QED
    BY <2>1, <2>4, <1>h, <1>c, <1>u
<1>22. ASSUME NEW i \in Rows, Disconnect(i) PROVE Base'
  <2>1. UNCHANGED <<circuit, lost, faults>>
    BY <1>22 DEF Disconnect
  <2>2. RowTypes' /\ Exhausted'
    BY <1>22 DEF Disconnect, RowTypes, Exhausted, Statuses
  <2>3. Sound'
    BY <1>22 DEF Disconnect, proc, healing, Sound, ProcTypes, Working, Judging
  <2>4. QED
    BY <2>1, <2>2, <2>3, <1>h, <1>c
<1>q. ASSUME UNCHANGED <<proc, holders>> PROVE Sound'
  BY <1>q DEF proc, healing, Sound, ProcTypes, Working, Judging
<1>23. ASSUME NEW i \in Rows, Expire(i) PROVE Base'
  <2>1. UNCHANGED <<circuit, lost, faults, proc, holders>>
    BY <1>23 DEF Expire
  <2>2. RowTypes' /\ Exhausted'
    BY <1>23 DEF Expire, RowTypes, Exhausted
  <2>3. QED
    BY <2>1, <2>2, <1>h, <1>c, <1>q
<1>31. ASSUME NEW i \in Rows, ConnectApiKey(i) PROVE Base'
  <2>1. UNCHANGED <<circuit, lost, faults, proc, holders>>
    BY <1>31 DEF ConnectApiKey
  <2>2. RowTypes' /\ Exhausted'
    BY <1>31 DEF ConnectApiKey, RowTypes, Exhausted, Statuses
  <2>3. QED
    BY <2>1, <2>2, <1>h, <1>c, <1>q
<1>24. ASSUME NEW x \in Platforms, CoolDown(x) \/ Elsewhere(x) PROVE Base'
  <2>1. PICK d \in {Admit(circuit[x]), OnSuccess(circuit[x]), OnFailure(circuit[x]), Cool(circuit[x])} :
          circuit' = [circuit EXCEPT ![x] = d]
    BY <1>24 DEF CoolDown, Elsewhere
  <2>2. UNCHANGED <<row, proc, lost, holders, faults>>
    BY <1>24 DEF CoolDown, Elsewhere
  <2>3. QED
    BY <2>1, <2>2, <1>h, <1>u, <1>q, CircuitStep
<1>25. CASE Restart
  <2>1. Sound'
    BY <1>25, IntegrationAssumption
       DEF Restart, Sound, ProcTypes, Working, Judging, Positions, Tokens, Statuses
  <2>2. lost' \in [Rows -> BOOLEAN]
    BY <1>25 DEF Restart, HistoryTypes, Unsaved
  <2>3. CircuitSound'
    <3>1. circuit' = [x \in Platforms |-> IF x \in Platforms THEN FreshCircuit ELSE circuit[x]]
      BY <1>25 DEF Restart
    <3>2. QED
      BY <3>1, ResetStep
  <2>4. QED
    BY <1>25, <2>1, <2>2, <2>3, <1>f, <1>u DEF Restart
<1>26. CASE UNCHANGED vars
  BY <1>26, <1>h, <1>c, <1>u, <1>q DEF vars
<1>27. QED
  BY <1>1, <1>2, <1>3, <1>4, <1>5, <1>6, <1>7, <1>8, <1>9, <1>10, <1>11, <1>12, <1>13, <1>14, <1>15,
     <1>16, <1>17, <1>18, <1>19, <1>20, <1>21, <1>22, <1>23, <1>24, <1>25, <1>26,
     <1>28, <1>29, <1>30, <1>31
     DEF Next, Step, Tick

-----------------------------------------------------------------------------
(* The refresh tokens. *)

\* A token is in a process's hands only while it is exchanged or stored.
Hands == \A p \in Procs : got[p] # "none" => pc[p] \in {"exchange", "store"}

\* What is about to be stored is the newest token: nobody has replaced it since.
HoldsNewest == \A p \in Procs : pc[p] = "store" => got[p] = "current"

\* Tokens that do not rotate stay valid.
Unrotated == \A i \in Rows \ Rotating : stored[i]

\* Who is about to store a rotated token is the only one who has it.
Alone ==
  \A p \in Procs :
    pc[p] = "store" /\ cur[p] \in Rotating =>
      /\ ~stored[cur[p]]
      /\ \A q \in Procs \ {p} : cur[q] = cur[p] => got[q] # "current"

TokenInv == Hands /\ HoldsNewest /\ Unrotated /\ Alone /\ NewestTokenIsHeld

\* q does not come near the token.
Apart(q) ==
  \/ pc'[q] = pc[q] /\ cur'[q] = cur[q] /\ got'[q] = got[q]
  \/ pc[q] # "store" /\ pc'[q] \notin {"exchange", "store"} /\ got'[q] = "none"

\* Steps apart from the tokens.
LEMMA QuietTokens ==
  ASSUME TokenInv, UNCHANGED <<stored, lost>>, \A q \in Procs : Apart(q)
  PROVE  TokenInv'
<1>1. Hands' /\ HoldsNewest' /\ Unrotated'
  BY DEF TokenInv, Hands, HoldsNewest, Unrotated, Apart
<1>2. Alone'
  <2> SUFFICES ASSUME NEW p \in Procs, pc'[p] = "store", cur'[p] \in Rotating,
                      NEW q \in Procs \ {p}
               PROVE  ~stored'[cur'[p]] /\ (cur'[q] = cur'[p] => got'[q] # "current")
    BY DEF TokenInv, Alone, Apart
  <2>1. pc[p] = "store" /\ cur[p] = cur'[p]
    BY DEF Apart
  <2>2. QED
    BY <2>1 DEF TokenInv, Alone, Apart
<1>3. NewestTokenIsHeld'
  <2> SUFFICES ASSUME NEW i \in Rows, ~stored[i], ~lost[i]
               PROVE  \E p \in Procs : cur'[p] = i /\ pc'[p] = "store" /\ got'[p] = "current"
    BY DEF NewestTokenIsHeld
  <2>1. PICK p \in Procs : cur[p] = i /\ pc[p] = "store" /\ got[p] = "current"
    BY DEF TokenInv, NewestTokenIsHeld
  <2>2. QED
    BY <2>1 DEF Apart
<1>4. QED
  BY <1>1, <1>2, <1>3 DEF TokenInv

\* p takes the token of its row out of the database.
LEMMA TakeToken ==
  ASSUME TokenInv, ProcTypes, NEW p \in Procs, NEW i \in Rows,
         pc[p] \notin {"exchange", "store"}, pc' = [pc EXCEPT ![p] = "exchange"],
         cur' = [cur EXCEPT ![p] = i],
         got' = [got EXCEPT ![p] = IF stored[i] THEN "current" ELSE "stale"],
         UNCHANGED <<stored, lost>>
  PROVE  TokenInv'
<1>1. Hands' /\ HoldsNewest' /\ Unrotated'
  BY DEF TokenInv, ProcTypes, Hands, HoldsNewest, Unrotated
<1>2. Alone'
  BY DEF TokenInv, ProcTypes, Alone
<1>3. NewestTokenIsHeld'
  <2> SUFFICES ASSUME NEW j \in Rows, ~stored[j], ~lost[j]
               PROVE  \E q \in Procs : cur'[q] = j /\ pc'[q] = "store" /\ got'[q] = "current"
    BY DEF NewestTokenIsHeld
  <2>1. PICK q \in Procs : cur[q] = j /\ pc[q] = "store" /\ got[q] = "current"
    BY DEF TokenInv, NewestTokenIsHeld
  <2>2. q # p
    BY <2>1
  <2>3. QED
    BY <2>1, <2>2 DEF ProcTypes
<1>4. QED
  BY <1>1, <1>2, <1>3 DEF TokenInv

\* The provider rotates the token that p presents; p keeps the new one or loses it.
LEMMA RotateToken ==
  ASSUME TokenInv, Base, NEW p \in Procs, NEW mine \in {"none", "current"},
         pc[p] = "exchange", got[p] = "current", cur[p] \in Rotating, Rotate(p, mine),
         UNCHANGED cur,
         \/ mine = "current" /\ pc' = [pc EXCEPT ![p] = "store"] /\ UNCHANGED lost
         \/ /\ mine = "none" /\ lost' = [lost EXCEPT ![cur[p]] = TRUE]
            /\ \E t \in {"fail", "check2"} : pc' = [pc EXCEPT ![p] = t]
  PROVE  TokenInv'
<1>0. cur[p] \in Rows
  BY DEF Base, Sound, Working
<1>1. stored' = [stored EXCEPT ![cur[p]] = FALSE]
  BY DEF Rotate
<1>2. got' = [q \in Procs |-> IF q = p THEN mine
                             ELSE IF cur[q] = cur[p] /\ got[q] = "current" THEN "stale"
                             ELSE got[q]]
  BY DEF Rotate
<1>t. pc \in [Procs -> Positions] /\ stored \in [Rows -> BOOLEAN] /\ lost \in [Rows -> BOOLEAN]
  BY DEF Base, Sound, ProcTypes, RowTypes, HistoryTypes
\* Nobody else is about to store a token of this row: two would both be the only one.
<1>3. \A q \in Procs \ {p} : pc[q] = "store" => cur[q] # cur[p]
  BY DEF TokenInv, Alone
<1>4. Hands' /\ HoldsNewest'
  BY <1>2, <1>3, <1>t DEF TokenInv, Hands, HoldsNewest
<1>5. Unrotated'
  BY <1>1, <1>t DEF TokenInv, Unrotated
<1>6. Alone'
  <2> SUFFICES ASSUME NEW q \in Procs, pc'[q] = "store", cur[q] \in Rotating
               PROVE  /\ ~stored'[cur[q]]
                      /\ \A r \in Procs \ {q} : cur[r] = cur[q] => got'[r] # "current"
    BY DEF Alone
  <2>1. CASE q = p
    BY <1>0, <1>1, <1>2, <1>t, <2>1
  <2>2. CASE q # p
    <3>1. pc[q] = "store" /\ cur[q] # cur[p]
      BY <1>3, <1>t, <2>2
    <3>2. QED
      BY <1>1, <1>2, <3>1 DEF TokenInv, Alone
  <2>3. QED
    BY <2>1, <2>2
<1>7. NewestTokenIsHeld'
  <2> SUFFICES ASSUME NEW j \in Rows, ~stored'[j], ~lost'[j]
               PROVE  \E q \in Procs : cur'[q] = j /\ pc'[q] = "store" /\ got'[q] = "current"
    BY DEF NewestTokenIsHeld
  <2>1. CASE j = cur[p]
    BY <1>0, <1>2, <1>t, <2>1
  <2>2. CASE j # cur[p]
    <3>1. ~stored[j] /\ ~lost[j]
      BY <1>1, <1>t, <2>2
    <3>2. PICK q \in Procs : cur[q] = j /\ pc[q] = "store" /\ got[q] = "current"
      BY <3>1 DEF TokenInv, NewestTokenIsHeld
    <3>3. QED
      BY <1>2, <1>t, <2>2, <3>2
  <2>3. QED
    BY <2>1, <2>2
<1>8. QED
  BY <1>4, <1>5, <1>6, <1>7 DEF TokenInv

\* p stores the newest token.
LEMMA StoreToken ==
  ASSUME TokenInv, Base, NEW p \in Procs, Store(p)
  PROVE  TokenInv'
<1>0. cur[p] \in Rows /\ pc[p] = "store" /\ got[p] = "current"
  BY DEF Base, Sound, Working, Store, TokenInv, HoldsNewest
<1>1. /\ stored' = [stored EXCEPT ![cur[p]] = TRUE]
      /\ got' = [got EXCEPT ![p] = "none"]
      /\ pc' = [pc EXCEPT ![p] = "mark"]
      /\ UNCHANGED <<cur, lost>>
  BY <1>0 DEF Store, Goto
<1>t. /\ pc \in [Procs -> Positions] /\ got \in [Procs -> Tokens]
      /\ stored \in [Rows -> BOOLEAN]
  BY DEF Base, Sound, ProcTypes, RowTypes
<1>3. \A q \in Procs \ {p} : pc[q] = "store" /\ cur[q] \in Rotating => cur[q] # cur[p]
  BY <1>0 DEF TokenInv, Alone
<1>4. Hands' /\ HoldsNewest' /\ Unrotated'
  BY <1>1, <1>t DEF TokenInv, Hands, HoldsNewest, Unrotated
<1>5. Alone'
  <2> SUFFICES ASSUME NEW q \in Procs, pc'[q] = "store", cur[q] \in Rotating
               PROVE  /\ ~stored'[cur[q]]
                      /\ \A r \in Procs \ {q} : cur[r] = cur[q] => got'[r] # "current"
    BY <1>1 DEF Alone
  <2>1. q # p /\ pc[q] = "store" /\ cur[q] # cur[p]
    BY <1>1, <1>3, <1>t
  <2>2. QED
    BY <1>1, <1>t, <2>1 DEF TokenInv, Alone
<1>6. NewestTokenIsHeld'
  <2> SUFFICES ASSUME NEW j \in Rows, ~stored'[j], ~lost'[j]
               PROVE  \E q \in Procs : cur'[q] = j /\ pc'[q] = "store" /\ got'[q] = "current"
    BY DEF NewestTokenIsHeld
  <2>1. j # cur[p] /\ ~stored[j] /\ ~lost[j]
    BY <1>0, <1>1, <1>t
  <2>2. PICK q \in Procs : cur[q] = j /\ pc[q] = "store" /\ got[q] = "current"
    BY <2>1 DEF TokenInv, NewestTokenIsHeld
  <2>3. QED
    BY <1>1, <1>t, <2>1, <2>2
<1>7. QED
  BY <1>4, <1>5, <1>6 DEF TokenInv

\* p gives up before it has stored its token: a rotated one is then lost.
LEMMA DropToken ==
  ASSUME TokenInv, Base, NEW p \in Procs, pc[p] = "store", CallThrows(p)
  PROVE  TokenInv'
<1>1. /\ lost' = [i \in Rows |-> lost[i] \/ (Unsaved(p) /\ cur[p] = i)]
      /\ got' = [got EXCEPT ![p] = "none"]
      /\ \E t \in {"fail", "check2"} : pc' = [pc EXCEPT ![p] = t]
      /\ UNCHANGED <<stored, cur>>
  BY DEF CallThrows, Thrown, Caught, Goto, row
<1>t. pc \in [Procs -> Positions] /\ got \in [Procs -> Tokens]
  BY DEF Base, Sound, ProcTypes
<1>2. Hands' /\ HoldsNewest' /\ Unrotated'
  BY <1>1, <1>t DEF TokenInv, Hands, HoldsNewest, Unrotated
<1>3. Alone'
  BY <1>1, <1>t DEF TokenInv, Alone
<1>4. NewestTokenIsHeld'
  <2> SUFFICES ASSUME NEW j \in Rows, ~stored[j], ~lost'[j]
               PROVE  \E q \in Procs : cur'[q] = j /\ pc'[q] = "store" /\ got'[q] = "current"
    BY <1>1 DEF NewestTokenIsHeld
  <2>1. ~lost[j] /\ ~(Unsaved(p) /\ cur[p] = j)
    BY <1>1
  <2>2. PICK q \in Procs : cur[q] = j /\ pc[q] = "store" /\ got[q] = "current"
    BY <2>1 DEF TokenInv, NewestTokenIsHeld
  <2>3. j \in Rotating
    BY DEF TokenInv, Unrotated
  <2>4. q # p
    BY <2>1, <2>2, <2>3 DEF Unsaved
  <2>5. QED
    BY <1>1, <1>t, <2>2, <2>4
<1>5. QED
  BY <1>2, <1>3, <1>4 DEF TokenInv

-----------------------------------------------------------------------------
(* TokenInv is inductive relative to Base. *)

LEMMA InitTokens == Init => TokenInv
BY IntegrationAssumption DEF Init, TokenInv, Hands, HoldsNewest, Unrotated, Alone, NewestTokenIsHeld

\* A run that is done with a row, not having its token, is apart from it.
LEMMA ReleaseApart ==
  ASSUME ProcTypes, NEW p \in Procs, NEW left, NEW platforms, Release(p, left, platforms), pc[p] # "store"
  PROVE  \A q \in Procs : Apart(q)
BY DEF ProcTypes, Release, Turn, Apart

\* So is one that goes on without it.
LEMMA GotoApart ==
  ASSUME ProcTypes, Hands, NEW p \in Procs, NEW position \in Positions \ {"exchange", "store"},
         pc[p] \notin {"exchange", "store"}, Goto(p, position),
         \A q \in Procs \ {p} : cur'[q] = cur[q],
         UNCHANGED got
  PROVE  \A q \in Procs : Apart(q)
BY DEF ProcTypes, Hands, Goto, Apart

LEMMA StepTokens == TokenInv /\ Base /\ [Next]_vars => TokenInv'
<1> SUFFICES ASSUME TokenInv, Base, [Next]_vars PROVE TokenInv'
  OBVIOUS
<1>t. ProcTypes /\ Hands /\ (\A i \in Rows : stored[i] \in BOOLEAN)
  BY DEF Base, Sound, TokenInv, RowTypes
<1>q. ASSUME UNCHANGED <<stored, lost>>, \A q \in Procs : Apart(q) PROVE TokenInv'
  BY <1>q, QuietTokens
<1>r. ASSUME NEW p \in Procs, NEW left, NEW platforms, Release(p, left, platforms), pc[p] # "store",
             UNCHANGED <<stored, lost>>
      PROVE  TokenInv'
  BY <1>r, <1>t, <1>q, ReleaseApart
<1>g. ASSUME NEW p \in Procs, NEW position \in Positions \ {"exchange", "store"}, Goto(p, position),
             pc[p] \notin {"exchange", "store"}, \A q \in Procs \ {p} : cur'[q] = cur[q],
             UNCHANGED <<got, stored, lost>>
      PROVE  TokenInv'
  BY <1>g, <1>t, <1>q, GotoApart
\* The token is touched.
<1>1. ASSUME NEW p \in Procs, NEW i \in Rows, NextRefresh(p, i) PROVE TokenInv'
  <2>1. CASE pending[i]
    BY <1>1, <2>1, <1>t, <1>g DEF NextRefresh, ProcTypes, Positions, row
  <2>2. CASE ~pending[i]
    BY <1>1, <2>2, <1>t, TakeToken DEF NextRefresh, Goto, row
  <2>3. QED
    BY <2>1, <2>2
<1>2. ASSUME NEW p \in Procs, Retrieve(p) PROVE TokenInv'
  <2>1. cur[p] \in Rows /\ cur' = [cur EXCEPT ![p] = cur[p]]
    BY <1>2, <1>t DEF Retrieve, Base, Sound, Working, ProcTypes
  <2>2. CASE cur[p] \in Tokened \cap Refreshable
    BY <1>2, <1>t, <2>1, <2>2, TakeToken DEF Retrieve, Goto, row
  <2>3. CASE cur[p] \notin Tokened \cap Refreshable
    BY <1>2, <2>3, <1>g DEF Retrieve, Positions, row
  <2>4. QED
    BY <2>2, <2>3
<1>3. ASSUME NEW p \in Procs, Exchange(p) PROVE TokenInv'
  <2>1. CASE cur[p] \in Rotating
    BY <1>3, <2>1, RotateToken DEF Exchange, Goto
  <2>2. CASE cur[p] \notin Rotating
    <3>1. pc' = [pc EXCEPT ![p] = "store"] /\ got[p] = "current" /\ UNCHANGED <<stored, got, cur, lost>>
      BY <1>3, <2>2 DEF Exchange, Rotate, Goto
    <3>2. Hands' /\ HoldsNewest' /\ Unrotated' /\ Alone'
      BY <3>1, <2>2, <1>t DEF TokenInv, Hands, HoldsNewest, Unrotated, Alone, ProcTypes
    <3>3. NewestTokenIsHeld'
      BY <3>1, <1>t DEF TokenInv, NewestTokenIsHeld, ProcTypes
    <3>4. QED
      BY <3>2, <3>3 DEF TokenInv
  <2>3. QED
    BY <2>1, <2>2
<1>4. ASSUME NEW p \in Procs, ExchangeRejected(p) PROVE TokenInv'
  BY <1>4, <1>t, <1>q DEF ExchangeRejected, Caught, Goto, Apart, ProcTypes, row
<1>5. ASSUME NEW p \in Procs, Store(p) PROVE TokenInv'
  BY <1>5, StoreToken
<1>6. ASSUME NEW p \in Procs, ExchangeFails(p) PROVE TokenInv'
  <2>1. Caught(p) \in {"fail", "check2"} /\ pc[p] = "exchange" /\ pc' = [pc EXCEPT ![p] = Caught(p)]
        /\ UNCHANGED cur
    BY <1>6 DEF ExchangeFails, Caught, Goto
  <2>2. CASE got' = [got EXCEPT ![p] = "none"] /\ UNCHANGED <<stored, lost>>
    BY <2>1, <2>2, <1>t, <1>q DEF Apart, ProcTypes
  <2>3. CASE /\ got[p] = "current" /\ cur[p] \in Rotating
             /\ Rotate(p, "none")
             /\ lost' = [lost EXCEPT ![cur[p]] = TRUE]
    BY <2>1, <2>3, RotateToken
  <2>4. QED
    BY <1>6, <2>2, <2>3 DEF ExchangeFails
<1>7. ASSUME NEW p \in Procs, CallThrows(p) PROVE TokenInv'
  <2>1. CASE pc[p] = "store"
    BY <1>7, <2>1, DropToken
  <2>2. CASE pc[p] # "store"
    <3>1. pc' = [pc EXCEPT ![p] = Thrown(p)] /\ Thrown(p) \in {"fail", "check2", "link"}
          /\ got' = [got EXCEPT ![p] = "none"] /\ UNCHANGED <<stored, cur>>
      BY <1>7 DEF CallThrows, Thrown, Caught, Goto, row
    <3>2. UNCHANGED lost
      BY <1>7, <2>2 DEF CallThrows, Unsaved, Base, HistoryTypes
    <3>3. QED
      BY <2>2, <3>1, <3>2, <1>t, <1>q DEF Apart, ProcTypes
  <2>3. QED
    BY <2>1, <2>2
<1>8. CASE Restart
  <2>1. /\ UNCHANGED stored
        /\ pc' = [p \in Procs |-> "idle"]
        /\ got' = [p \in Procs |-> "none"]
        /\ lost' = [i \in Rows |-> lost[i] \/ \E p \in Procs : Unsaved(p) /\ cur[p] = i]
    BY <1>8 DEF Restart, row
  <2>2. Hands' /\ HoldsNewest' /\ Unrotated' /\ Alone'
    BY <2>1 DEF TokenInv, Hands, HoldsNewest, Unrotated, Alone
  <2>3. NewestTokenIsHeld'
    BY <2>1 DEF TokenInv, NewestTokenIsHeld, Unrotated, Unsaved
  <2>4. QED
    BY <2>2, <2>3 DEF TokenInv
\* The other steps stay apart from it.
<1>9. ASSUME NEW p \in Procs, NEW i \in Rows, SkipRefresh(p, i) \/ NextHeal(p, i) PROVE TokenInv'
  BY <1>9, <1>t, <1>r, <1>g DEF SkipRefresh, NextHeal, ProcTypes, Positions, row
<1>23. ASSUME NEW p \in Procs, NEW t \in Tenants, CycleSelect(p, t) \/ CycleThrows(p, t) PROVE TokenInv'
  <2>1. \A left : Turn(left, {}, tenants'[p]) \in Positions \ {"exchange", "store"}
    BY DEF Turn, Positions
  <2>2. PICK position \in Positions \ {"exchange", "store"} : Goto(p, position)
    BY <1>23, <2>1 DEF CycleSelect, CycleThrows
  <2>3. QED
    BY <1>23, <2>2, <1>g DEF CycleSelect, CycleThrows, row
<1>24. ASSUME NEW p \in Procs, Unreadable(p) PROVE TokenInv'
  <2>1. pc[p] \notin {"exchange", "store"} /\ UNCHANGED <<stored, lost>>
    BY <1>24, Positioned DEF Unreadable, row
  <2>2. \/ Release(p, {}, {})
        \/ /\ \E position \in {"link", "check2"} : Goto(p, position)
           /\ UNCHANGED <<cur, got>>
    BY <1>24 DEF Unreadable
  <2>3. QED
    BY <2>1, <2>2, <1>r, <1>g DEF Positions
<1>10. ASSUME NEW p \in Procs, RecordFailure(p) PROVE TokenInv'
  BY <1>10, <1>r DEF RecordFailure
<1>11. ASSUME NEW p \in Procs, MarkRefreshed(p) PROVE TokenInv'
  BY <1>11, <1>r, <1>g DEF MarkRefreshed, Positions
<1>12. ASSUME NEW p \in Procs, InsertResult(p) \/ Score(p) PROVE TokenInv'
  BY <1>12, <1>g DEF InsertResult, Score, Positions, row
<1>13. ASSUME NEW p \in Procs, UpdateStatus(p) PROVE TokenInv'
  BY <1>13, <1>t, <1>q DEF UpdateStatus, Apart, ProcTypes, Hands
<1>14. ASSUME NEW p \in Procs,
              Send(p) \/ FailFast(p) \/ AnswerOk(p) \/ AnswerClientError(p) \/ AnswerFailure(p) \/ AnswerUnreadable(p)
       PROVE  TokenInv'
  <2>1. PICK position \in Positions \ {"exchange", "store"} : Goto(p, position)
    BY <1>14, Positioned
       DEF Send, FailFast, AnswerOk, AnswerClientError, AnswerFailure, AnswerUnreadable, Positions
  <2>2. pc[p] \notin {"exchange", "store"} /\ UNCHANGED <<stored, lost, got, cur>>
    BY <1>14, Positioned
       DEF Send, FailFast, AnswerOk, AnswerClientError, AnswerFailure, AnswerUnreadable, row
  <2>3. QED
    BY <2>1, <2>2, <1>g
<1>15. ASSUME NEW p \in Procs, Reconnected(p) \/ ResetTripped(p) \/ GenerateLink(p) \/ NoLink(p) PROVE TokenInv'
  BY <1>15, <1>r DEF Reconnected, ResetTripped, GenerateLink, NoLink, row
<1>16. ASSUME NEW p \in Procs, RefreshSelect(p) \/ HealSelect(p) PROVE TokenInv'
  BY <1>16, <1>g DEF RefreshSelect, HealSelect, Positions, row
<1>17. ASSUME NEW p \in Procs, RunThrows(p) PROVE TokenInv'
  BY <1>17, <1>r DEF RunThrows, row
<1>18. ASSUME NEW p \in Procs, NEW i \in Rows, Reconnect(p, i) PROVE TokenInv'
  BY <1>18, <1>t, <1>g DEF Reconnect, ProcTypes, Positions, row
<1>19. ASSUME NEW s \in Sweeps, SweepSelect(s) PROVE TokenInv'
  <2>1. ASSUME NEW q \in Procs PROVE Apart(q)
    <3>1. got'[q] = got[q]
      BY <1>19 DEF SweepSelect
    <3>2. CASE pc'[q] = pc[q] /\ cur'[q] = cur[q]
      BY <3>1, <3>2 DEF Apart
    <3>3. CASE ~(pc'[q] = pc[q] /\ cur'[q] = cur[q])
      <4>1. pc'[q] = "check" /\ q \in Checks /\ q[1] = s
        BY <1>19, <3>3 DEF SweepSelect
      <4>2. pc[q] = "idle"
        BY <1>19, <4>1 DEF SweepSelect, Checks
      <4>3. QED
        BY <3>1, <4>1, <4>2, <1>t DEF Apart, Hands
    <3>4. QED
      BY <3>2, <3>3
  <2>2. QED
    BY <1>19, <2>1, <1>q DEF SweepSelect, row
<1>20. ASSUME UNCHANGED <<stored, lost, proc>> PROVE TokenInv'
  BY <1>20, <1>q DEF Apart, proc
<1>21. CASE \/ \E i \in Rows : Disconnect(i) \/ ConnectApiKey(i) \/ Expire(i)
            \/ \E x \in Platforms : CoolDown(x) \/ Elsewhere(x)
            \/ UNCHANGED vars
  BY <1>20, <1>21 DEF Disconnect, ConnectApiKey, Expire, CoolDown, Elsewhere, vars, row
<1>22. QED
  BY <1>1, <1>2, <1>3, <1>4, <1>5, <1>6, <1>7, <1>8, <1>9, <1>10, <1>11, <1>12, <1>13, <1>14, <1>15,
     <1>16, <1>17, <1>18, <1>19, <1>21, <1>23, <1>24
     DEF Next, Step, Tick

-----------------------------------------------------------------------------
(* Who may bring a disconnected row back. *)

\* A process that is idle, or checks one row, has no rows waiting.
NoBacklog ==
  \A p \in Procs : pc[p] \in {"idle", "cycle", "check", "wait", "insert", "score", "update"} => todo[p] = {}

\* Who has a disconnected row in hand had it when it was disconnected, or acts for
\* a user.
HeldBefore ==
  \A i \in Rows : status[i] = "disconnected" =>
    \A p \in Procs \ Reconnects : Holds(p, i) => p \in holders[i]

Revival == NoBacklog /\ HeldBefore

\* A step after which p has the rows of left, and no row that it had not before.
LEMMA ReleaseRevival ==
  ASSUME Base, Revival, NEW p \in Procs, NEW left \in SUBSET Rows, left \subseteq todo[p],
         NEW platforms, Release(p, left, platforms),
         \A i \in Rows : status'[i] = "disconnected" => status[i] = "disconnected"
  PROVE  Revival'
<1> USE DEF Base, Sound, ProcTypes
<1>1. /\ todo'[p] = left /\ cur'[p] = NoRow
      /\ \A q \in Procs \ {p} : pc'[q] = pc[q] /\ todo'[q] = todo[q] /\ cur'[q] = cur[q]
      /\ pc'[p] \in {"next", "reset", "cycle", "idle"} /\ (left # {} => pc'[p] = "next")
  BY DEF Release, Turn
<1>2. NoBacklog'
  BY <1>1 DEF Revival, NoBacklog
<1>3. ASSUME NEW i \in Rows, status'[i] = "disconnected", NEW q \in Procs \ Reconnects, Holds(q, i)'
      PROVE  q \in holders'[i]
  <2>1. Holds(q, i) /\ (q = p => i \in left)
    BY <1>1, <1>3, IntegrationAssumption DEF Holds
  <2>2. q \in holders[i]
    BY <1>3, <2>1 DEF Revival, HeldBefore
  <2>3. QED
    BY <2>1, <2>2 DEF Release
<1>4. QED
  BY <1>2, <1>3 DEF Revival, HeldBefore

\* A step that gives p no row, and leaves its waiting rows alone.
LEMMA QuietRevival ==
  ASSUME Base, Revival, UNCHANGED <<todo, cur, holders>>,
         \A i \in Rows : status'[i] = "disconnected" => status[i] = "disconnected",
         \A q \in Procs : pc'[q] \in {"idle", "cycle", "check", "wait", "insert", "score", "update"} =>
           pc[q] \in {"idle", "cycle", "check", "wait", "insert", "score", "update"}
  PROVE  Revival'
BY DEF Revival, NoBacklog, HeldBefore, Holds

\* A process takes, or selects, rows that are not disconnected, or that it has.
LEMMA SelectRevival ==
  ASSUME Base, Revival, NEW p \in Procs, UNCHANGED <<status, holders>>,
         pc' = [pc EXCEPT ![p] = pc'[p]],
         pc'[p] \in {"next", "retrieve", "exchange", "fail"} \/ (pc'[p] \in {"idle", "cycle"} /\ todo'[p] = {}),
         \A q \in Procs \ {p} : todo'[q] = todo[q] /\ cur'[q] = cur[q],
         p \notin Reconnects => \A i \in Rows :
            Holds(p, i)' => Holds(p, i) \/ status[i] # "disconnected"
  PROVE  Revival'
<1>1. NoBacklog'
  BY DEF Base, Sound, ProcTypes, Revival, NoBacklog
<1>2. ASSUME NEW i \in Rows, status[i] = "disconnected", NEW q \in Procs \ Reconnects, Holds(q, i)'
      PROVE  q \in holders[i]
  <2>1. Holds(q, i)
    BY <1>2 DEF Holds
  <2>2. QED
    BY <1>2, <2>1 DEF Revival, HeldBefore
<1>3. QED
  BY <1>1, <1>2 DEF Revival, HeldBefore

LEMMA InitRevival == Init => Revival
BY DEF Init, Revival, NoBacklog, HeldBefore

LEMMA UpdateRevival ==
  ASSUME Base, Revival, NEW p \in Procs, UpdateStatus(p)
  PROVE  Revival'
<1> USE DEF Base, Sound, ProcTypes, RowTypes
<1> DEFINE c == cur[p]
<1>1. c \in Rows /\ todo[p] = {}
  BY DEF UpdateStatus, Working, Revival, NoBacklog
<1>2. /\ status' = [status EXCEPT ![c] = verdict[p]]
      /\ holders' = [holders EXCEPT ![c] =
                       IF verdict[p] = "disconnected" THEN {q \in Procs : Holds(q, c)} \ {p} ELSE @ \ {p}]
      /\ pc'[p] = "idle" /\ cur'[p] = NoRow /\ UNCHANGED todo
      /\ \A q \in Procs \ {p} : pc'[q] = pc[q] /\ cur'[q] = cur[q]
  BY DEF UpdateStatus
<1> HIDE DEF c
<1>3. NoBacklog'
  BY <1>1, <1>2 DEF Revival, NoBacklog
<1>4. ASSUME NEW i \in Rows, status'[i] = "disconnected", NEW q \in Procs \ Reconnects, Holds(q, i)'
      PROVE  q \in holders'[i]
  <2>1. q # p /\ Holds(q, i)
    BY <1>1, <1>2, <1>4, IntegrationAssumption DEF Holds
  <2>2. CASE i = c
    BY <1>1, <1>2, <1>4, <2>1, <2>2
  <2>3. CASE i # c
    BY <1>2, <1>4, <2>1, <2>3 DEF Revival, HeldBefore
  <2>4. QED
    BY <2>2, <2>3
<1>5. QED
  BY <1>3, <1>4 DEF Revival, HeldBefore

LEMMA StepRevival == Revival /\ Base /\ [Next]_vars => Revival'
<1> SUFFICES ASSUME Revival, Base, [Next]_vars PROVE Revival'
  OBVIOUS
<1> DEFINE Free == {"idle", "cycle", "check", "wait", "insert", "score", "update"}
<1>t. /\ ProcTypes /\ RowTypes
      /\ \A p \in Procs : todo[p] \in SUBSET Rows /\ todo[p] \subseteq todo[p]
      /\ \A p \in Procs : pc[p] \notin {"idle", "cycle", "next", "reset"} => cur[p] \in Rows
  BY DEF Base, Sound, ProcTypes, Working
<1>s. ASSUME UNCHANGED row \/ UNCHANGED status
      PROVE  \A i \in Rows : status'[i] = "disconnected" => status[i] = "disconnected"
  BY <1>s DEF row
<1>g. ASSUME NEW p \in Procs, NEW position, Goto(p, position), position \in Free => pc[p] \in Free
      PROVE  \A q \in Procs : pc'[q] \in Free => pc[q] \in Free
  BY <1>g, <1>t DEF Goto, ProcTypes
<1>c. ASSUME NEW p \in Procs, cur[p] \in Rows, Connect(cur[p])
      PROVE  \A i \in Rows : status'[i] = "disconnected" => status[i] = "disconnected"
  BY <1>c, <1>t DEF Connect, RowTypes
<1> HIDE DEF Free
<1>1. ASSUME NEW p \in Procs, NEW i \in Rows, NextRefresh(p, i) PROVE Revival'
  <2>1. /\ i \in todo[p] /\ UNCHANGED <<status, holders>>
        /\ \E position \in {"exchange", "fail"} : pc' = [pc EXCEPT ![p] = position]
        /\ cur' = [cur EXCEPT ![p] = i] /\ todo' = [todo EXCEPT ![p] = @ \ {i}]
    BY <1>1 DEF NextRefresh, Goto, row
  <2>2. /\ pc'[p] \in {"exchange", "fail"} /\ pc' = [pc EXCEPT ![p] = pc'[p]] /\ cur'[p] = i /\ todo'[p] = todo[p] \ {i}
        /\ \A q \in Procs \ {p} : todo'[q] = todo[q] /\ cur'[q] = cur[q]
    BY <2>1, <1>t DEF ProcTypes
  <2>3. \A j \in Rows : Holds(p, j)' => Holds(p, j)
    BY <2>1, <2>2 DEF Holds
  <2>4. QED
    BY <2>1, <2>2, <2>3, SelectRevival
<1>2. ASSUME NEW p \in Procs, NEW i \in Rows, SkipRefresh(p, i) \/ NextHeal(p, i) PROVE Revival'
  <2>1. UNCHANGED row /\ i \in todo[p]
    BY <1>2 DEF SkipRefresh, NextHeal
  <2>2. CASE NextHeal(p, i)
    <3>1. /\ cur' = [cur EXCEPT ![p] = i] /\ todo' = [todo EXCEPT ![p] = @ \ {i}]
          /\ pc' = [pc EXCEPT ![p] = "retrieve"] /\ UNCHANGED <<status, holders>>
      BY <2>2 DEF NextHeal, Goto, row
    <3>2. /\ pc' = [pc EXCEPT ![p] = pc'[p]] /\ pc'[p] = "retrieve"
          /\ \A q \in Procs \ {p} : todo'[q] = todo[q] /\ cur'[q] = cur[q]
          /\ \A j \in Rows : Holds(p, j)' => Holds(p, j)
      BY <2>1, <3>1, <1>t DEF ProcTypes, Holds
    <3>3. QED
      BY <3>1, <3>2, SelectRevival
  <2>3. CASE SkipRefresh(p, i)
    <3>1. Release(p, todo[p] \ {i}, {}) /\ todo[p] \ {i} \in SUBSET Rows
      BY <2>3, <1>t DEF SkipRefresh
    <3>2. QED
      BY <2>1, <3>1, <1>s, ReleaseRevival
  <2>4. QED
    BY <1>2, <2>2, <2>3
<1>18. ASSUME NEW p \in Procs, NEW t \in Tenants, CycleSelect(p, t) PROVE Revival'
  <2>1. PICK S \in SUBSET Rows : /\ todo' = [todo EXCEPT ![p] = S]
                                 /\ \A i \in S : status[i] # "disconnected"
                                 /\ pc' = [pc EXCEPT ![p] = Turn(S, {}, tenants'[p])]
    BY <1>18 DEF CycleSelect, Goto, Unhealthy
  <2>2. UNCHANGED <<status, cur, holders>>
    BY <1>18 DEF CycleSelect, row
  <2>3. /\ pc' = [pc EXCEPT ![p] = pc'[p]] /\ todo'[p] = S
        /\ pc'[p] = "next" \/ (pc'[p] \in {"idle", "cycle"} /\ todo'[p] = {})
        /\ \A q \in Procs \ {p} : todo'[q] = todo[q] /\ cur'[q] = cur[q]
    BY <2>1, <2>2, <1>t DEF ProcTypes, Turn
  <2>4. \A i \in Rows : Holds(p, i)' => Holds(p, i) \/ status[i] # "disconnected"
    BY <2>1, <2>2, <2>3 DEF Holds
  <2>5. QED
    BY <2>2, <2>3, <2>4, SelectRevival
<1>19. ASSUME NEW p \in Procs, NEW t \in Tenants, CycleThrows(p, t) PROVE Revival'
  <2>1. UNCHANGED <<status, todo, cur, holders>> /\ pc' = [pc EXCEPT ![p] = Turn({}, {}, tenants'[p])]
        /\ pc[p] = "cycle"
    BY <1>19 DEF CycleThrows, Goto, row
  <2>2. todo[p] = {}
    BY <2>1 DEF Revival, NoBacklog
  <2>3. /\ pc' = [pc EXCEPT ![p] = pc'[p]] /\ todo'[p] = {}
        /\ pc'[p] \in {"cycle", "idle"}
    BY <2>1, <2>2, <1>t DEF ProcTypes, Turn
  <2>4. \A i \in Rows : Holds(p, i)' => Holds(p, i)
    BY <2>1 DEF Holds
  <2>5. QED
    BY <2>1, <2>3, <2>4, SelectRevival
<1>20. ASSUME NEW p \in Procs, Unreadable(p) PROVE Revival'
  <2>1. UNCHANGED row
    BY <1>20 DEF Unreadable
  <2>2. CASE pc[p] = "check"
    <3>1. Release(p, {}, {})
      BY <1>20, <2>2 DEF Unreadable
    <3>2. QED
      BY <2>1, <3>1, <1>s, <1>t, ReleaseRevival
  <2>3. CASE pc[p] # "check"
    <3>1. UNCHANGED <<todo, cur, holders>> /\ \E position \in {"link", "check2"} : Goto(p, position)
      BY <1>20, <2>3 DEF Unreadable
    <3>2. QED
      BY <2>1, <3>1, <1>s, <1>g, QuietRevival DEF Free
  <2>4. QED
    BY <2>2, <2>3
<1>3. ASSUME NEW p \in Procs, RecordFailure(p) PROVE Revival'
  <2>1. cur[p] \in Rows /\ Release(p, todo[p], {})
    BY <1>3, <1>t DEF RecordFailure
  <2>2. PICK s \in Unhealthy : status' = [status EXCEPT ![cur[p]] = s]
    BY <1>3 DEF RecordFailure, Unhealthy
  <2>3. \A i \in Rows : status'[i] = "disconnected" => status[i] = "disconnected"
    BY <2>2, <1>t DEF RowTypes, Unhealthy
  <2>4. QED
    BY <2>1, <2>3, <1>t, ReleaseRevival
<1>4. ASSUME NEW p \in Procs, Retrieve(p) \/ Exchange(p) \/ ExchangeRejected(p) \/ Store(p) \/ ExchangeFails(p)
      PROVE  Revival'
  <2>1. UNCHANGED <<status, todo, cur, holders>>
    BY <1>4 DEF Retrieve, Exchange, ExchangeRejected, Store, ExchangeFails, row
  <2>2. PICK position \in {"exchange", "store", "mark", "fail", "check1", "check2"} : Goto(p, position)
    BY <1>4 DEF Retrieve, Exchange, ExchangeRejected, Store, ExchangeFails, Caught
  <2>3. QED
    BY <2>1, <2>2, <1>s, <1>g, QuietRevival DEF Free
<1>5. ASSUME NEW p \in Procs, MarkRefreshed(p) \/ Reconnected(p) PROVE Revival'
  <2>1. \A i \in Rows : status'[i] = "disconnected" => status[i] = "disconnected"
    BY <1>5, <1>t, <1>c DEF MarkRefreshed, Reconnected
  <2>2. \/ \E platforms : Release(p, todo[p], platforms)
        \/ Goto(p, "check1") /\ UNCHANGED <<todo, cur, holders>>
    BY <1>5 DEF MarkRefreshed, Reconnected
  <2>3. CASE \E platforms : Release(p, todo[p], platforms)
    BY <2>1, <2>3, <1>t, ReleaseRevival
  <2>4. CASE Goto(p, "check1") /\ UNCHANGED <<todo, cur, holders>>
    BY <2>1, <2>4, <1>g, QuietRevival DEF Free
  <2>5. QED
    BY <2>2, <2>3, <2>4
<1>6. ASSUME NEW p \in Procs, InsertResult(p) \/ Score(p) PROVE Revival'
  <2>1. UNCHANGED <<status, todo, cur, holders>> /\ pc[p] \in Free
    BY <1>6 DEF InsertResult, Score, row, Free
  <2>2. \A q \in Procs : pc'[q] \in Free => pc[q] \in Free
    BY <1>6, <2>1, <1>g DEF InsertResult, Score
  <2>3. QED
    BY <2>1, <2>2, <1>s, QuietRevival DEF Free
<1>7. ASSUME NEW p \in Procs, UpdateStatus(p) PROVE Revival'
  BY <1>7, UpdateRevival
<1>8. ASSUME NEW p \in Procs,
             Send(p) \/ FailFast(p) \/ AnswerOk(p) \/ AnswerClientError(p) \/ AnswerFailure(p) \/ AnswerUnreadable(p)
      PROVE  Revival'
  <2>1. UNCHANGED <<row, todo, cur, holders>>
    BY <1>8 DEF Send, FailFast, AnswerOk, AnswerClientError, AnswerFailure, AnswerUnreadable
  <2>2. PICK position : Goto(p, position) /\ (position \in Free => pc[p] \in Free)
    BY <1>8, Positioned
       DEF Send, FailFast, AnswerOk, AnswerClientError, AnswerFailure, AnswerUnreadable, Free
  <2>3. QED
    BY <2>1, <2>2, <1>s, <1>g, QuietRevival DEF Free
<1>9. ASSUME NEW p \in Procs, ResetTripped(p) \/ GenerateLink(p) \/ NoLink(p) \/ RunThrows(p) PROVE Revival'
  <2>1. UNCHANGED row /\ \E platforms : Release(p, todo[p], platforms) \/ Release(p, {}, platforms)
    BY <1>9 DEF ResetTripped, GenerateLink, NoLink, RunThrows
  <2>2. QED
    BY <2>1, <1>s, <1>t, ReleaseRevival
<1>10. ASSUME NEW p \in Procs, RefreshSelect(p) PROVE Revival'
  <2>1. /\ UNCHANGED <<status, cur, holders>> /\ pc' = [pc EXCEPT ![p] = "next"]
    BY <1>10 DEF RefreshSelect, Goto, row
  <2>2. PICK S \in SUBSET Rows : /\ todo' = [todo EXCEPT ![p] = S]
                                 /\ \A i \in S : status[i] # "disconnected"
    <3> DEFINE due == {i \in Tokened : expiring[i] /\ status[i] # "disconnected"}
    <3>1. due \in SUBSET Rows /\ \A i \in due : status[i] # "disconnected"
      BY IntegrationAssumption
    <3>2. todo' = [todo EXCEPT ![p] = due]
      BY <1>10 DEF RefreshSelect
    <3>3. QED
      BY <3>1, <3>2
  <2>3. /\ pc'[p] = "next" /\ todo'[p] = S
        /\ \A q \in Procs \ {p} : todo'[q] = todo[q]
    BY <2>1, <2>2, <1>t DEF ProcTypes
  <2>4. \A i \in Rows : Holds(p, i)' => Holds(p, i) \/ status[i] # "disconnected"
    BY <2>1, <2>2, <2>3 DEF Holds
  <2>5. QED
    BY <2>1, <2>3, <2>4, SelectRevival
<1>21. ASSUME NEW p \in Procs, HealSelect(p) PROVE Revival'
  <2>1. UNCHANGED <<status, todo, cur, holders>> /\ Goto(p, "cycle") /\ todo[p] = {}
    BY <1>21 DEF HealSelect, Revival, NoBacklog, row
  <2>2. \A i \in Rows : Holds(p, i)' => Holds(p, i)
    BY <2>1 DEF Holds
  <2>3. QED
    BY <2>1, <2>2, <1>t, SelectRevival DEF Goto, ProcTypes
<1>11. ASSUME NEW p \in Procs, NEW i \in Rows, Reconnect(p, i) PROVE Revival'
  BY <1>11, <1>t, SelectRevival DEF Reconnect, Goto, ProcTypes, row
<1>12. ASSUME NEW p \in Procs, CallThrows(p) PROVE Revival'
  <2>1. UNCHANGED <<row, todo, cur, holders>> /\ Goto(p, Thrown(p)) /\ Thrown(p) \notin Free
    BY <1>12 DEF CallThrows, Thrown, Caught, Free
  <2>2. QED
    BY <2>1, <1>s, <1>g, QuietRevival DEF Free
<1>13. ASSUME NEW s \in Sweeps, SweepSelect(s) PROVE Revival'
  <2>1. /\ UNCHANGED <<status, todo, holders>>
        /\ \A q \in Procs :
             \/ pc'[q] = pc[q] /\ cur'[q] = cur[q]
             \/ /\ pc[q] = "idle" /\ q \in Checks
                /\ cur'[q] = q[2] /\ status[q[2]] # "disconnected"
    BY <1>13 DEF SweepSelect, Checks, row
  <2>2. NoBacklog'
    BY <2>1 DEF Revival, NoBacklog
  <2>3. ASSUME NEW i \in Rows, status[i] = "disconnected", NEW q \in Procs \ Reconnects, Holds(q, i)'
        PROVE  q \in holders[i]
    <3>1. Holds(q, i)
      BY <2>1, <2>3 DEF Holds
    <3>2. QED
      BY <2>3, <3>1 DEF Revival, HeldBefore
  <2>4. QED
    BY <2>1, <2>2, <2>3 DEF Revival, HeldBefore
<1>14. ASSUME NEW i \in Rows, Disconnect(i) PROVE Revival'
  <2>1. /\ UNCHANGED <<pc, todo, cur>>
        /\ status' = [status EXCEPT ![i] = "disconnected"]
        /\ holders' = [holders EXCEPT ![i] = {p \in Procs : Holds(p, i)}]
    BY <1>14 DEF Disconnect, proc
  <2>2. QED
    BY <2>1, <1>t DEF Revival, NoBacklog, HeldBefore, Holds, ProcTypes, RowTypes
<1>15. CASE Restart
  BY <1>15, IntegrationAssumption DEF Restart, Revival, NoBacklog, HeldBefore, Holds
<1>22. ASSUME NEW i \in Rows, ConnectApiKey(i) PROVE Revival'
  <2>1. UNCHANGED <<pc, todo, cur, holders>> /\ status' = [status EXCEPT ![i] = "connected"]
    BY <1>22 DEF ConnectApiKey, proc
  <2>2. \A j \in Rows : status'[j] = "disconnected" => status[j] = "disconnected"
    BY <2>1, <1>t DEF RowTypes
  <2>3. QED
    BY <2>1, <2>2, QuietRevival
<1>16. CASE \/ \E i \in Rows : Expire(i)
            \/ \E x \in Platforms : CoolDown(x) \/ Elsewhere(x)
            \/ UNCHANGED vars
  BY <1>16, QuietRevival DEF Expire, CoolDown, Elsewhere, vars, proc, row
<1>17. QED
  BY <1>1, <1>2, <1>3, <1>4, <1>5, <1>6, <1>7, <1>8, <1>9, <1>10, <1>11, <1>12, <1>13, <1>14, <1>15, <1>16,
     <1>18, <1>19, <1>20, <1>21, <1>22
     DEF Next, Step, Tick

-----------------------------------------------------------------------------
(* The theorems. *)

\* Every variable keeps its type, whatever the cron runs, users and faults do.
THEOREM TypeCorrect == Spec => []TypeOK
<1>1. Base => TypeOK
  BY TypeParts DEF Base, Sound, CircuitSound
<1>2. QED
  BY InitBase, StepBase, <1>1, PTL DEF Spec

\* The writers of a row, unaware of each other, keep its status and its count of
\* errors in agreement (token-refresher.ts, health-monitor.ts, auto-reconnector.ts):
\* only an API key put in place of its tokens connects it with errors left.
THEOREM StatusAgreesWithErrors == Spec => StatusMatchesErrors
<1>1. Base /\ Base' /\ [Next]_vars =>
        [\A i \in Rows :
           /\ status'[i] = "expired" => errors'[i] = MaxErrors
           /\ status'[i] = "connected" /\ errors'[i] # 0
                => ConnectApiKey(i) \/ (status[i] = "connected" /\ errors'[i] = errors[i])]_vars
  <2> SUFFICES ASSUME Base, Base', Next, NEW i \in Rows
               PROVE  /\ status'[i] = "expired" => errors'[i] = MaxErrors
                      /\ status'[i] = "connected" /\ errors'[i] # 0
                           => ConnectApiKey(i) \/ (status[i] = "connected" /\ errors'[i] = errors[i])
    OBVIOUS
  <2>1. status'[i] = "expired" => errors'[i] = MaxErrors
    BY DEF Base, Exhausted
  <2> SUFFICES ASSUME status'[i] = "connected", errors'[i] # 0
               PROVE  ConnectApiKey(i) \/ (status[i] = "connected" /\ errors'[i] = errors[i])
    BY <2>1
  <2> DEFINE Same == status'[i] = status[i] /\ errors'[i] = errors[i]
  <2>t. RowTypes
    BY DEF Base
  <2>2. ASSUME NEW p \in Procs, MarkRefreshed(p) \/ Reconnected(p) PROVE Same
    BY <2>2, <2>t DEF MarkRefreshed, Reconnected, Connect, RowTypes
  <2>3. ASSUME NEW p \in Procs, RecordFailure(p) PROVE Same
    <3>1. PICK s \in Unhealthy :
            status' = [status EXCEPT ![cur[p]] = s] /\ \E e : errors' = [errors EXCEPT ![cur[p]] = e]
      BY <2>3 DEF RecordFailure, Unhealthy
    <3>2. QED
      BY <3>1, <2>t DEF RowTypes, Unhealthy
  <2>4. ASSUME NEW p \in Procs, UpdateStatus(p) PROVE Same
    BY <2>4, <2>t DEF UpdateStatus, RowTypes
  <2>5. ASSUME NEW p \in Procs,
               \/ Step(p) /\ ~(RecordFailure(p) \/ MarkRefreshed(p) \/ UpdateStatus(p) \/ Reconnected(p))
               \/ Tick(p) \/ ExchangeFails(p) \/ CallThrows(p) \/ RunThrows(p)
               \/ \E t \in Tenants : CycleThrows(p, t)
               \/ \E j \in Rows : Reconnect(p, j)
        PROVE  Same
    BY <2>5 DEF Step, Tick, ExchangeFails, CallThrows, RunThrows, CycleThrows, Reconnect, NextRefresh,
       SkipRefresh, NextHeal, CycleSelect, Retrieve, Exchange, ExchangeRejected, Store, InsertResult, Score,
       Unreadable, Send, FailFast, AnswerOk, AnswerClientError, AnswerFailure, AnswerUnreadable,
       ResetTripped, GenerateLink, NoLink, RefreshSelect, HealSelect, row
  <2>6. ASSUME NEW j \in Rows, Disconnect(j) PROVE Same
    BY <2>6, <2>t DEF Disconnect, RowTypes
  <2>7. ASSUME NEW j \in Rows, ConnectApiKey(j) PROVE j = i \/ Same
    BY <2>7, <2>t DEF ConnectApiKey, RowTypes
  <2>8. CASE \/ \E s \in Sweeps : SweepSelect(s)
             \/ \E j \in Rows : Expire(j)
             \/ \E x \in Platforms : CoolDown(x) \/ Elsewhere(x)
             \/ Restart
    BY <2>8 DEF SweepSelect, Expire, CoolDown, Elsewhere, Restart, row
  <2>9. QED
    BY <2>2, <2>3, <2>4, <2>5, <2>6, <2>7, <2>8 DEF Next
<1>2. QED
  BY InitBase, StepBase, <1>1, PTL DEF Spec, StatusMatchesErrors

\* The circuit of a connector is closed exactly while it counts fewer failures than
\* its threshold, whoever shares it (base-connector.ts).
THEOREM CircuitTripsByFailures == Spec => []TrippedByFailures
<1>1. Base => TrippedByFailures
  BY DEF Base, CircuitSound
<1>2. QED
  BY InitBase, StepBase, <1>1, PTL DEF Spec

\* Concurrent refreshes of one row never lose the newest refresh token
\* (token-refresher.ts): it is stored, or about to be, unless a fault lost it.
THEOREM RacesLoseNoToken == Spec => []NewestTokenIsHeld
<1>1. TokenInv => NewestTokenIsHeld
  BY DEF TokenInv
<1>2. QED
  BY InitBase, StepBase, InitTokens, StepTokens, <1>1, PTL DEF Spec

\* A disconnected row is brought back only by a run that had it in hand when it was
\* disconnected, or for a user: the selections of the cron jobs skip it, and the
\* updates of token-refresher.ts, health-monitor.ts and auto-reconnector.ts, which
\* write its status unconditionally, have been on their way for as long.
THEOREM RevivedByRunning == Spec => OnlyRunningRevives
<1>1. Revival /\ Base /\ [Next]_vars =>
        [\A i \in Rows :
           status[i] = "disconnected" /\ status'[i] # "disconnected"
             => \/ \E p \in holders[i] \cup Reconnects : cur[p] = i /\ pc'[p] # pc[p]
                \/ ConnectApiKey(i)]_vars
  <2> SUFFICES ASSUME Revival, Base, Next, NEW i \in Rows,
                      status[i] = "disconnected", status'[i] # "disconnected"
               PROVE  \/ \E p \in holders[i] \cup Reconnects : cur[p] = i /\ pc'[p] # pc[p]
                      \/ ConnectApiKey(i)
    OBVIOUS
  <2>1. ASSUME NEW p \in Procs, cur[p] = i, pc'[p] # pc[p]
        PROVE  \E q \in holders[i] \cup Reconnects : cur[q] = i /\ pc'[q] # pc[q]
    <3>1. p \in holders[i] \cup Reconnects
      BY <2>1 DEF Revival, HeldBefore, Holds
    <3>2. QED
      BY <2>1, <3>1
  <2>2. ASSUME NEW p \in Procs,
               RecordFailure(p) \/ MarkRefreshed(p) \/ UpdateStatus(p) \/ Reconnected(p)
        PROVE  cur[p] = i /\ pc'[p] # pc[p]
    <3>1. PICK s : status' = [status EXCEPT ![cur[p]] = s]
      BY <2>2 DEF RecordFailure, MarkRefreshed, UpdateStatus, Reconnected, Connect
    <3>2. cur[p] = i
      BY <3>1 DEF Base, RowTypes
    <3>3. pc[p] \in {"fail", "mark", "update", "connect1", "connect2"} /\ pc' = [pc EXCEPT ![p] = pc'[p]]
          /\ pc'[p] \in {"idle", "next", "check1", "reset", "cycle"}
      BY <2>2 DEF RecordFailure, MarkRefreshed, UpdateStatus, Reconnected, Release, Turn, Goto, Base, Sound, ProcTypes
    <3>4. QED
      BY <3>2, <3>3
  <2>3. ASSUME NEW p \in Procs,
               \/ Step(p) /\ ~(RecordFailure(p) \/ MarkRefreshed(p) \/ UpdateStatus(p) \/ Reconnected(p))
               \/ Tick(p) \/ ExchangeFails(p) \/ CallThrows(p) \/ RunThrows(p)
               \/ \E u \in Tenants : CycleThrows(p, u)
               \/ \E j \in Rows : Reconnect(p, j)
        PROVE  UNCHANGED status
    BY <2>3 DEF Step, Tick, ExchangeFails, CallThrows, RunThrows, CycleThrows, Reconnect, NextRefresh,
       SkipRefresh, NextHeal, CycleSelect, Retrieve, Exchange, ExchangeRejected, Store, InsertResult, Score,
       Unreadable, Send, FailFast, AnswerOk, AnswerClientError, AnswerFailure, AnswerUnreadable,
       ResetTripped, GenerateLink, NoLink, RefreshSelect, HealSelect, row
  <2>4. ASSUME NEW j \in Rows, Disconnect(j) PROVE FALSE
    BY <2>4 DEF Disconnect, Base, RowTypes
  <2>5. ASSUME NEW j \in Rows, ConnectApiKey(j) PROVE j = i
    BY <2>5 DEF ConnectApiKey, Base, RowTypes
  <2>6. CASE \/ \E s \in Sweeps : SweepSelect(s)
             \/ \E j \in Rows : Expire(j)
             \/ \E x \in Platforms : CoolDown(x) \/ Elsewhere(x)
             \/ Restart
    BY <2>6 DEF SweepSelect, Expire, CoolDown, Elsewhere, Restart, row
  <2>7. QED
    BY <2>1, <2>2, <2>3, <2>4, <2>5, <2>6 DEF Next
<1>2. QED
  BY InitBase, StepBase, InitRevival, StepRevival, <1>1, PTL DEF Spec, OnlyRunningRevives

=============================================================================
