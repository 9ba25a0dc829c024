------------------------- MODULE IntegrationHealth -------------------------
(***************************************************************************)
(* The health of the tenants' integrations, and what the compatibility     *)
(* agent does about it: refreshing tokens before they expire, checking     *)
(* connections and healing those that fail                                 *)
(* (apps/compatibility-agent/src: oauth/token-refresher.ts,                *)
(* oauth/token-vault.ts, health/health-monitor.ts, health-scorer.ts,       *)
(* healing/healing-orchestrator.ts, healing/auto-reconnector.ts).          *)
(*                                                                         *)
(* A process is one run of a cron job or of an agent task.  Nothing keeps  *)
(* two of them from working on one row, and each of their calls to the     *)
(* database, to the provider or to the platform is a step.  The rows of    *)
(* all tenants with one platform share its connector and so its circuit.   *)
(***************************************************************************)
EXTENDS Circuit, Sequences, FiniteSetsExt

CONSTANTS
  Rows,         \* the integrations
  Platforms,
  Tenants,
  PlatformOf,   \* the platform of each row
  TenantOf,     \* the tenant of each row
  Tokened,      \* the rows with a refresh token
  Refreshable,  \* those whose platform lets tokens be refreshed
  Configured,   \* those whose platform has OAuth and its client credentials
  Rotating,     \* those whose provider replaces the refresh token at each use
  Busy,         \* platforms asked by others, such as findFallback, as well
  Refreshers,   \* runs of refreshExpiringTokens
  Sweeps,       \* runs of runHealthSweep
  Healers,      \* runs of runGlobalHealingSweep
  Reconnects,   \* auto_reconnect tasks for one row, asked for by a user
  MaxErrors,    \* failures that make a row 'expired' (5)
  Window,       \* checks that make the score (MAX_CHECKS_FOR_SCORE)
  MaxFaults,    \* exceptions, crashes and lost replies in a behaviour
  NoRow

ASSUME IntegrationAssumption ==
  /\ PlatformOf \in [Rows -> Platforms]
  /\ TenantOf \in [Rows -> Tenants]
  /\ Tokened \cup Configured \subseteq Rows
  /\ MaxErrors \in Nat \ {0}
  /\ Window \in Nat \ {0}
  /\ MaxFaults \in Nat
  /\ NoRow \notin Rows

VARIABLES
  status,     \* integrations.status
  errors,     \* integrations.errorCount
  expiring,   \* integrations.tokenExpiresAt is within the refresh buffer
  stored,     \* the row's refresh token is the one its provider accepts
  pending,    \* the access token is a placeholder that cannot be decrypted
  log,        \* integration_health: the latest results, newest first
  circuit,    \* the circuit of each platform's connector
  pc, todo, cur,   \* the position of a process, its remaining rows, its row
  got,        \* the refresh token in a process's hands
  seen,       \* errorCount as refreshExpiringTokens selected it
  verdict,    \* the result of a check, then the status computed from it
  tenants,    \* the tenants a healing sweep has still to come to
  healed,     \* the platforms reconnected in the healing cycle of one tenant
  lost,       \* history: the newest refresh token is nowhere
  holders,    \* history: who had the row in hand when it was disconnected
  faults

row     == <<status, errors, expiring, stored, pending, log>>
healing == <<tenants, healed>>
proc    == <<pc, todo, cur, got, seen, verdict, healing>>
vars    == <<row, circuit, proc, lost, holders, faults>>

\* A sweep checks the rows of a batch at the same time (Promise.allSettled).
Checks == Sweeps \X Rows

Procs == Refreshers \cup Checks \cup Healers \cup Reconnects

Statuses  == {"connected", "degraded", "expired", "disconnected"}
Unhealthy == {"degraded", "expired"}
Tokens    == {"none", "current", "stale"}

Positions == {"idle", "cycle", "next", "retrieve", "exchange", "store", "mark", "fail",
              "check1", "wait1", "connect1", "check2", "wait2", "connect2", "link",
              "reset", "check", "wait", "insert", "score", "update"}

Holds(p, i) == cur[p] = i \/ i \in todo[p]

----------------------------------------------------------------------------
\* The score of health-scorer.ts over a log, newest first, scaled to integers:
\* the k-th newest check weighs 0.8^(k - 1).

Weight(k) == 4^(k - 1) * 5^(Window - k)

Passed(l) == MapThenSumSet(Weight, {k \in DOMAIN l : l[k] = "pass"})
Total(l)  == MapThenSumSet(Weight, DOMAIN l)

\* checkIntegration: 50 % and more is connected, 20 % and more degraded.
StatusOf(l) ==
  IF 2 * Passed(l) >= Total(l) THEN "connected"
  ELSE IF 5 * Passed(l) >= Total(l) THEN "degraded"
  ELSE "disconnected"

\* Mutant: the older results are kept.
LoggedForever(l, result) == <<result>> \o l

\* The insertion of a result; older ones no longer count.
Logged(l, result) == SubSeq(<<result>> \o l, 1, Min({Window, Len(l) + 1}))

----------------------------------------------------------------------------
TypeOK ==
  /\ status \in [Rows -> Statuses]
  /\ errors \in [Rows -> 0 .. MaxErrors]
  /\ expiring \in [Rows -> BOOLEAN]
  /\ stored \in [Rows -> BOOLEAN]
  /\ pending \in [Rows -> BOOLEAN]
  /\ log \in [Rows -> Seq({"pass", "fail"})]
  /\ \A i \in Rows : Len(log[i]) <= Window
  /\ circuit \in [Platforms -> Circuits]
  /\ pc \in [Procs -> Positions]
  /\ todo \in [Procs -> SUBSET Rows]
  /\ cur \in [Procs -> Rows \cup {NoRow}]
  /\ got \in [Procs -> Tokens]
  /\ seen \in [Procs -> [Rows -> 0 .. MaxErrors]]
  /\ verdict \in [Procs -> {"none", "pass", "fail"} \cup Statuses]
  /\ tenants \in [Procs -> SUBSET Tenants]
  /\ healed \in [Procs -> SUBSET Platforms]
  /\ lost \in [Rows -> BOOLEAN]
  /\ holders \in [Rows -> SUBSET Procs]
  /\ faults \in 0 .. MaxFaults

Init ==
  /\ status = [i \in Rows |-> "connected"]
  /\ errors = [i \in Rows |-> 0]
  /\ expiring = [i \in Rows |-> FALSE]
  /\ stored = [i \in Rows |-> TRUE]
  /\ pending = [i \in Rows |-> FALSE]
  /\ log = [i \in Rows |-> <<>>]
  /\ circuit = [x \in Platforms |-> FreshCircuit]
  /\ pc = [p \in Procs |-> "idle"]
  /\ todo = [p \in Procs |-> {}]
  /\ cur = [p \in Procs |-> NoRow]
  /\ got = [p \in Procs |-> "none"]
  /\ seen = [p \in Procs |-> [i \in Rows |-> 0]]
  /\ verdict = [p \in Procs |-> "none"]
  /\ tenants = [p \in Procs |-> {}]
  /\ healed = [p \in Procs |-> {}]
  /\ lost = [i \in Rows |-> FALSE]
  /\ holders = [i \in Rows |-> {}]
  /\ faults = 0

----------------------------------------------------------------------------
(* What a process's steps have in common. *)

Goto(p, position) == pc' = [pc EXCEPT ![p] = position]

\* What a run turns to with rows left, or platforms to look after, or tenants left.
Turn(left, platforms, tenantsLeft) ==
  IF left # {} THEN "next"
  ELSE IF platforms # {} THEN "reset"
  ELSE IF tenantsLeft # {} THEN "cycle" ELSE "idle"

\* p is done with its row; left are the rows it goes on with, platforms those it
\* has reconnected.
Release(p, left, platforms) ==
  /\ pc' = [pc EXCEPT ![p] = Turn(left, platforms, tenants[p])]
  /\ healed' = [healed EXCEPT ![p] = platforms]
  /\ UNCHANGED tenants
  /\ todo' = [todo EXCEPT ![p] = left]
  /\ cur' = [cur EXCEPT ![p] = NoRow]
  /\ got' = [got EXCEPT ![p] = "none"]
  /\ verdict' = [verdict EXCEPT ![p] = "none"]
  /\ seen' = [seen EXCEPT ![p] = [i \in Rows |-> IF i \in left THEN @[i] ELSE 0]]
  /\ holders' = [i \in Rows |-> IF i \in left THEN holders[i] ELSE holders[i] \ {p}]

\* Mutant: the count of errors is not reset.
ConnectKeepsErrors(i) == status' = [status EXCEPT ![i] = "connected"] /\ UNCHANGED errors

\* status: 'connected', errorCount: 0
Connect(i) ==
  /\ status' = [status EXCEPT ![i] = "connected"]
  /\ errors' = [errors EXCEPT ![i] = 0]

\* The circuit of the platform that p asks.
Asked(p) == circuit[PlatformOf[cur[p]]]

SetCircuit(p, c) == circuit' = [circuit EXCEPT ![PlatformOf[cur[p]]] = c]

Fault == faults < MaxFaults /\ faults' = faults + 1

----------------------------------------------------------------------------
(* refreshExpiringTokens *)

RefreshSelect(p) ==
  /\ p \in Refreshers /\ pc[p] = "idle"
  /\ LET expiringRows == {i \in Tokened : expiring[i] /\ status[i] # "disconnected"}
     IN  /\ expiringRows # {}
         /\ todo' = [todo EXCEPT ![p] = expiringRows]
         /\ seen' = [seen EXCEPT ![p] = [i \in Rows |-> IF i \in expiringRows THEN errors[i] ELSE 0]]
  /\ Goto(p, "next")
  /\ UNCHANGED <<row, circuit, cur, got, verdict, healing, lost, holders, faults>>

\* retrieveTokens throws if the access token cannot be decrypted.
NextRefresh(p, i) ==
  /\ p \in Refreshers /\ pc[p] = "next" /\ i \in todo[p] /\ (pending[i] \/ i \in Refreshable)
  /\ cur' = [cur EXCEPT ![p] = i]
  /\ todo' = [todo EXCEPT ![p] = @ \ {i}]
  /\ IF pending[i]
     THEN Goto(p, "fail") /\ UNCHANGED got
     ELSE /\ got' = [got EXCEPT ![p] = IF stored[i] THEN "current" ELSE "stale"]
          /\ Goto(p, "exchange")
  /\ UNCHANGED <<row, circuit, seen, verdict, healing, lost, holders, faults>>

\* The platform does not let its tokens be refreshed: the result is null.
SkipRefresh(p, i) ==
  /\ p \in Refreshers /\ pc[p] = "next" /\ i \in todo[p] /\ ~pending[i] /\ i \notin Refreshable
  /\ Release(p, todo[p] \ {i}, {})
  /\ UNCHANGED <<row, circuit, lost, faults>>

\* The catch block: errorCount as it was selected, and one more.
RecordFailure(p) ==
  /\ pc[p] = "fail"
  /\ LET i == cur[p]
         count == IF seen[p][i] < MaxErrors THEN seen[p][i] + 1 ELSE MaxErrors
     IN  /\ errors' = [errors EXCEPT ![i] = count]
         /\ status' = [status EXCEPT ![i] = IF count >= MaxErrors THEN "expired" ELSE "degraded"]
  /\ Release(p, todo[p], {})
  /\ UNCHANGED <<expiring, stored, pending, log, circuit, lost, faults>>

----------------------------------------------------------------------------
(* refreshTokenForIntegration, for a refresher and in attemptReconnection *)

\* The provider accepts the token of p's hands and, if it rotates them, no older one.
Rotate(p, mine) ==
  IF cur[p] \in Rotating
  THEN /\ stored' = [stored EXCEPT ![cur[p]] = FALSE]
       /\ got' = [q \in Procs |-> IF q = p THEN mine
                                 ELSE IF cur[q] = cur[p] /\ got[q] = "current" THEN "stale"
                                 ELSE got[q]]
  ELSE UNCHANGED <<stored, got>>

\* Without a refresh token, or where tokens cannot be refreshed, the result is null.
Retrieve(p) ==
  /\ pc[p] = "retrieve" /\ ~pending[cur[p]]
  /\ IF cur[p] \in Tokened \cap Refreshable
     THEN /\ got' = [got EXCEPT ![p] = IF stored[cur[p]] THEN "current" ELSE "stale"]
          /\ Goto(p, "exchange")
     ELSE Goto(p, "check1") /\ UNCHANGED got
  /\ UNCHANGED <<row, circuit, todo, cur, seen, verdict, healing, lost, holders, faults>>

\* Mutant: the refresh token of the answer is dropped, the old one kept.
ExchangeKeepsToken(p) ==
  /\ pc[p] = "exchange" /\ got[p] = "current" /\ cur[p] \in Configured
  /\ Rotate(p, "stale")
  /\ Goto(p, "store")
  /\ UNCHANGED <<status, errors, expiring, pending, log, circuit, todo, cur, seen, verdict, healing,
                 lost, holders, faults>>

Exchange(p) ==
  /\ pc[p] = "exchange" /\ got[p] = "current" /\ cur[p] \in Configured
  /\ Rotate(p, "current")
  /\ Goto(p, "store")
  /\ UNCHANGED <<status, errors, expiring, pending, log, circuit, todo, cur, seen, verdict, healing,
                 lost, holders, faults>>

\* Where an exception leads: the catch block of the refresher, strategy 2 of a mender.
Caught(p) == IF p \in Refreshers THEN "fail" ELSE "check2"

\* The provider does not know the token, or there are no credentials to ask it with.
ExchangeRejected(p) ==
  /\ pc[p] = "exchange" /\ (got[p] = "stale" \/ cur[p] \notin Configured)
  /\ Goto(p, Caught(p))
  /\ got' = [got EXCEPT ![p] = "none"]
  /\ UNCHANGED <<row, circuit, todo, cur, seen, verdict, healing, lost, holders, faults>>

\* Mutant: the tokens are stored without their new expiry.
StoreTokensOnly(p) ==
  /\ pc[p] = "store"
  /\ stored' = [stored EXCEPT ![cur[p]] = got[p] = "current"]
  /\ got' = [got EXCEPT ![p] = "none"]
  /\ Goto(p, "mark")
  /\ UNCHANGED <<status, errors, expiring, pending, log, circuit, todo, cur, seen, verdict, healing,
                 lost, holders, faults>>

\* storeTokens
Store(p) ==
  /\ pc[p] = "store"
  /\ stored' = [stored EXCEPT ![cur[p]] = got[p] = "current"]
  /\ expiring' = [expiring EXCEPT ![cur[p]] = FALSE]
  /\ pending' = [pending EXCEPT ![cur[p]] = FALSE]
  /\ got' = [got EXCEPT ![p] = "none"]
  /\ Goto(p, "mark")
  /\ UNCHANGED <<status, errors, log, circuit, todo, cur, seen, verdict, healing, lost, holders, faults>>

MarkRefreshed(p) ==
  /\ pc[p] = "mark"
  /\ Connect(cur[p])
  /\ IF p \in Refreshers
     THEN Release(p, todo[p], {})
     ELSE Goto(p, "check1") /\ UNCHANGED <<todo, cur, got, seen, verdict, healing, holders>>
  /\ UNCHANGED <<expiring, stored, pending, log, circuit, lost, faults>>

----------------------------------------------------------------------------
(* runHealthSweep *)

SweepSelect(s) ==
  /\ \A i \in Rows : pc[<<s, i>>] = "idle"
  /\ \E i \in Rows : status[i] # "disconnected"
  /\ LET Selected(p) == p \in Checks /\ p[1] = s /\ status[p[2]] # "disconnected"
     IN  /\ pc' = [p \in Procs |-> IF Selected(p) THEN "check" ELSE pc[p]]
         /\ cur' = [p \in Procs |-> IF Selected(p) THEN p[2] ELSE cur[p]]
  /\ UNCHANGED <<row, circuit, todo, got, seen, verdict, healing, lost, holders, faults>>

\* The three calls of checkIntegration after the check.
InsertResult(p) ==
  /\ pc[p] = "insert"
  /\ log' = [log EXCEPT ![cur[p]] = Logged(@, verdict[p])]
  /\ verdict' = [verdict EXCEPT ![p] = "none"]
  /\ Goto(p, "score")
  /\ UNCHANGED <<status, errors, expiring, stored, pending, circuit, todo, cur, got, seen, healing,
                 lost, holders, faults>>

Score(p) ==
  /\ pc[p] = "score"
  /\ verdict' = [verdict EXCEPT ![p] = StatusOf(log[cur[p]])]
  /\ Goto(p, "update")
  /\ UNCHANGED <<row, circuit, todo, cur, got, seen, healing, lost, holders, faults>>

\* updateIntegrationStatus, unconditionally
UpdateStatus(p) ==
  /\ pc[p] = "update"
  /\ LET i == cur[p] IN
     /\ status' = [status EXCEPT ![i] = verdict[p]]
     /\ errors' = [errors EXCEPT ![i] = IF verdict[p] = "connected" THEN 0 ELSE @]
     /\ pc' = [pc EXCEPT ![p] = "idle"]
     /\ cur' = [cur EXCEPT ![p] = NoRow]
     /\ verdict' = [verdict EXCEPT ![p] = "none"]
     /\ holders' = [holders EXCEPT ![i] =
                      IF verdict[p] = "disconnected" THEN {q \in Procs : Holds(q, i)} \ {p}
                      ELSE @ \ {p}]
  /\ UNCHANGED <<expiring, stored, pending, log, circuit, todo, got, seen, healing, lost, faults>>

----------------------------------------------------------------------------
(* connector.healthCheck: request, with its exceptions turned into a result *)

Passing == [wait |-> "insert", wait1 |-> "connect1", wait2 |-> "connect2"]
Failing == [check |-> "insert", check1 |-> "check2", check2 |-> "link",
            wait |-> "insert", wait1 |-> "check2", wait2 |-> "link"]
Sent    == [check |-> "wait", check1 |-> "wait1", check2 |-> "wait2"]

\* Only checkIntegration keeps the result.
Result(p, result) ==
  verdict' = [verdict EXCEPT ![p] = IF p \in Checks THEN result ELSE @]

\* retrieveTokens throws before the platform is asked.
Unreadable(p) ==
  /\ pc[p] \in {"retrieve"} \cup DOMAIN Sent
  /\ pending[cur[p]]
  /\ IF pc[p] = "check"
     THEN Release(p, {}, {})
     ELSE /\ Goto(p, IF pc[p] = "check2" THEN "link" ELSE "check2")
          /\ UNCHANGED <<todo, cur, got, seen, verdict, healing, holders>>
  /\ UNCHANGED <<row, circuit, lost, faults>>

Send(p) ==
  /\ pc[p] \in DOMAIN Sent /\ ~pending[cur[p]]
  /\ Admits(Asked(p))
  /\ SetCircuit(p, Admit(Asked(p)))
  /\ Goto(p, Sent[pc[p]])
  /\ UNCHANGED <<row, todo, cur, got, seen, verdict, healing, lost, holders, faults>>

\* The circuit is open: the platform is not asked.
FailFast(p) ==
  /\ pc[p] \in DOMAIN Sent /\ ~pending[cur[p]]
  /\ ~Admits(Asked(p))
  /\ Result(p, "fail")
  /\ Goto(p, Failing[pc[p]])
  /\ UNCHANGED <<row, circuit, todo, cur, got, seen, healing, lost, holders, faults>>

AnswerOk(p) ==
  /\ pc[p] \in DOMAIN Passing
  /\ SetCircuit(p, OnSuccess(Asked(p)))
  /\ Result(p, "pass")
  /\ Goto(p, Passing[pc[p]])
  /\ UNCHANGED <<row, todo, cur, got, seen, healing, lost, holders, faults>>

\* A client error, as for a revoked token, says that the platform works.
AnswerClientError(p) ==
  /\ pc[p] \in DOMAIN Passing
  /\ SetCircuit(p, OnSuccess(Asked(p)))
  /\ Result(p, "fail")
  /\ Goto(p, Failing[pc[p]])
  /\ UNCHANGED <<row, todo, cur, got, seen, healing, lost, holders, faults>>

\* The retries are used up.
AnswerFailure(p) ==
  /\ pc[p] \in DOMAIN Passing
  /\ SetCircuit(p, OnFailure(Asked(p)))
  /\ Result(p, "fail")
  /\ Goto(p, Failing[pc[p]])
  /\ UNCHANGED <<row, todo, cur, got, seen, healing, lost, holders, faults>>

\* The platform answers with success, every time with a body that cannot be read.
AnswerUnreadable(p) ==
  /\ pc[p] \in DOMAIN Passing
  /\ SetCircuit(p, OnFailure(OnSuccess(Asked(p))))
  /\ Result(p, "fail")
  /\ Goto(p, Failing[pc[p]])
  /\ UNCHANGED <<row, todo, cur, got, seen, healing, lost, holders, faults>>

----------------------------------------------------------------------------
(* runGlobalHealingSweep, runHealingCycle and attemptReconnection *)

\* Mutant: disconnected rows are healed, too.
CycleSelectAll(p, t) ==
  /\ p \in Healers /\ pc[p] = "cycle" /\ t \in tenants[p]
  /\ tenants' = [tenants EXCEPT ![p] = @ \ {t}]
  /\ LET unhealthy == {i \in Rows : TenantOf[i] = t /\ status[i] \in Unhealthy \cup {"disconnected"}}
     IN  /\ todo' = [todo EXCEPT ![p] = unhealthy]
         /\ Goto(p, Turn(unhealthy, {}, tenants'[p]))
  /\ UNCHANGED <<row, circuit, cur, got, seen, verdict, healed, lost, holders, faults>>

\* The tenants with unhealthy rows.
HealSelect(p) ==
  /\ p \in Healers /\ pc[p] = "idle"
  /\ LET unwell == {t \in Tenants : \E i \in Rows : TenantOf[i] = t /\ status[i] \in Unhealthy}
     IN  unwell # {} /\ tenants' = [tenants EXCEPT ![p] = unwell]
  /\ Goto(p, "cycle")
  /\ UNCHANGED <<row, circuit, todo, cur, got, seen, verdict, healed, lost, holders, faults>>

\* runHealingCycle selects the unhealthy rows of one tenant.
CycleSelect(p, t) ==
  /\ p \in Healers /\ pc[p] = "cycle" /\ t \in tenants[p]
  /\ tenants' = [tenants EXCEPT ![p] = @ \ {t}]
  /\ LET unhealthy == {i \in Rows : TenantOf[i] = t /\ status[i] \in Unhealthy}
     IN  /\ todo' = [todo EXCEPT ![p] = unhealthy]
         /\ Goto(p, Turn(unhealthy, {}, tenants'[p]))
  /\ UNCHANGED <<row, circuit, cur, got, seen, verdict, healed, lost, holders, faults>>

NextHeal(p, i) ==
  /\ p \in Healers /\ pc[p] = "next" /\ i \in todo[p]
  /\ cur' = [cur EXCEPT ![p] = i]
  /\ todo' = [todo EXCEPT ![p] = @ \ {i}]
  /\ Goto(p, "retrieve")
  /\ UNCHANGED <<row, circuit, got, seen, verdict, healing, lost, holders, faults>>

\* A success of attemptReconnection; a healing cycle resets the circuit at once.
Reconnected(p) ==
  /\ pc[p] \in {"connect1", "connect2"}
  /\ Connect(cur[p])
  /\ IF p \in Healers
     THEN /\ SetCircuit(p, FreshCircuit)
          /\ Release(p, todo[p], healed[p] \cup {PlatformOf[cur[p]]})
     ELSE Release(p, todo[p], {}) /\ UNCHANGED circuit
  /\ UNCHANGED <<expiring, stored, pending, log, lost, faults>>

\* ... and again after the tenant's last row, if it is open by then.
ResetTripped(p) ==
  /\ pc[p] = "reset"
  /\ circuit' = [x \in Platforms |->
                   IF x \in healed[p] /\ circuit[x].state = "open" THEN FreshCircuit ELSE circuit[x]]
  /\ Release(p, {}, {})
  /\ UNCHANGED <<row, lost, faults>>

\* Strategy 3: a link is written, the row is left as it is.
GenerateLink(p) ==
  /\ pc[p] = "link" /\ cur[p] \in Configured
  /\ Release(p, todo[p], healed[p])
  /\ UNCHANGED <<row, circuit, lost, faults>>

\* Another row of the tenant whose token findFallback cannot decrypt.
FallbackThrows(p) ==
  p \in Healers /\ \E j \in Rows \ {cur[p]} : TenantOf[j] = TenantOf[cur[p]] /\ pending[j]

\* Mutant: an exception in one tenant's cycle ends the whole sweep.
NoLinkEndsSweep(p) ==
  /\ pc[p] = "link"
  /\ cur[p] \notin Configured \/ FallbackThrows(p)
  /\ pc' = [pc EXCEPT ![p] = "idle"]
  /\ tenants' = [tenants EXCEPT ![p] = {}]
  /\ healed' = [healed EXCEPT ![p] = {}]
  /\ todo' = [todo EXCEPT ![p] = {}]
  /\ cur' = [cur EXCEPT ![p] = NoRow]
  /\ holders' = [i \in Rows |-> holders[i] \ {p}]
  /\ UNCHANGED <<row, circuit, got, seen, verdict, lost, faults>>

\* generateAuthUrl or findFallback throws, and nobody catches it in the tenant's
\* cycle: its other rows are left out, and no circuit is reset.
NoLink(p) ==
  /\ pc[p] = "link"
  /\ cur[p] \notin Configured \/ FallbackThrows(p)
  /\ Release(p, {}, {})
  /\ UNCHANGED <<row, circuit, lost, faults>>

----------------------------------------------------------------------------
(* The users of the dashboard, the provider and the clock *)

\* DELETE /integrations/:platform
Disconnect(i) ==
  /\ status[i] # "disconnected"
  /\ status' = [status EXCEPT ![i] = "disconnected"]
  /\ holders' = [holders EXCEPT ![i] = {p \in Procs : Holds(p, i)}]
  /\ UNCHANGED <<errors, expiring, stored, pending, log, circuit, proc, lost, faults>>

\* POST /integrations/connect/api-key, of a platform that the tenant has a row for
ConnectApiKey(i) ==
  /\ status' = [status EXCEPT ![i] = "connected"]
  /\ pending' = [pending EXCEPT ![i] = TRUE]
  /\ UNCHANGED <<errors, expiring, stored, log, circuit, proc, lost, holders, faults>>

\* POST /integrations/reconnect/:platform and handleAutoReconnect
Reconnect(p, i) ==
  /\ p \in Reconnects /\ pc[p] = "idle"
  /\ cur' = [cur EXCEPT ![p] = i]
  /\ Goto(p, "retrieve")
  /\ UNCHANGED <<row, circuit, todo, got, seen, verdict, healing, lost, holders, faults>>

Expire(i) ==
  /\ ~expiring[i]
  /\ expiring' = [expiring EXCEPT ![i] = TRUE]
  /\ UNCHANGED <<status, errors, stored, pending, log, circuit, proc, lost, holders, faults>>

CoolDown(x) ==
  /\ circuit[x].state = "open" /\ ~circuit[x].cooled
  /\ circuit' = [circuit EXCEPT ![x] = Cool(@)]
  /\ UNCHANGED <<row, proc, lost, holders, faults>>

\* Requests that leave the rows alone are sent, and answered when it may be.
Elsewhere(x) ==
  /\ x \in Busy
  /\ \/ Admits(circuit[x]) /\ circuit' = [circuit EXCEPT ![x] = Admit(@)]
     \/ circuit' = [circuit EXCEPT ![x] = OnSuccess(@)]
     \/ circuit' = [circuit EXCEPT ![x] = OnFailure(@)]
  /\ UNCHANGED <<row, proc, lost, holders, faults>>

----------------------------------------------------------------------------
(* Faults.  A call that reads throws with the effect of the step after it. *)

\* The provider's answer is an error, or does not come: it may have rotated the token.
ExchangeFails(p) ==
  /\ pc[p] = "exchange"
  /\ Fault
  /\ \/ got' = [got EXCEPT ![p] = "none"] /\ UNCHANGED <<stored, lost>>
     \/ /\ got[p] = "current" /\ cur[p] \in Configured \cap Rotating
        /\ Rotate(p, "none")
        /\ lost' = [lost EXCEPT ![cur[p]] = TRUE]
  /\ Goto(p, Caught(p))
  /\ UNCHANGED <<status, errors, expiring, pending, log, circuit, todo, cur, seen, verdict, healing, holders>>

\* The newest token of the row of p is in p's hands only.
Unsaved(p) == pc[p] = "store" /\ got[p] = "current" /\ cur[p] \in Rotating

\* Where a call of the database or of Redis that throws leads.
Thrown(p) ==
  CASE pc[p] \in {"store", "mark"}      -> Caught(p)
    [] pc[p] \in {"check1", "connect1"} -> "check2"
    [] pc[p] \in {"check2", "connect2"} -> "link"
    [] OTHER -> "none"

CallThrows(p) ==
  /\ Thrown(p) # "none"
  /\ Fault
  /\ lost' = [i \in Rows |-> lost[i] \/ (Unsaved(p) /\ cur[p] = i)]
  /\ got' = [got EXCEPT ![p] = "none"]
  /\ Goto(p, Thrown(p))
  /\ UNCHANGED <<row, circuit, todo, cur, seen, verdict, healing, holders>>

\* An exception nobody catches ends a refresh, a task, the check of one row or the
\* healing cycle of one tenant.
RunThrows(p) ==
  /\ pc[p] \in {"fail", "link"} \/ (p \in Checks /\ pc[p] \in {"check", "insert", "score", "update"})
  /\ Fault
  /\ Release(p, {}, {})
  /\ UNCHANGED <<row, circuit, lost>>

\* The selection of runHealingCycle throws.
CycleThrows(p, t) ==
  /\ p \in Healers /\ pc[p] = "cycle" /\ t \in tenants[p]
  /\ Fault
  /\ tenants' = [tenants EXCEPT ![p] = @ \ {t}]
  /\ Goto(p, Turn({}, {}, tenants'[p]))
  /\ UNCHANGED <<row, circuit, todo, cur, got, seen, verdict, healed, lost, holders>>

\* The service is restarted.
Restart ==
  /\ Fault
  /\ circuit' = [x \in Platforms |-> FreshCircuit]
  /\ pc' = [p \in Procs |-> "idle"]
  /\ todo' = [p \in Procs |-> {}]
  /\ cur' = [p \in Procs |-> NoRow]
  /\ got' = [p \in Procs |-> "none"]
  /\ seen' = [p \in Procs |-> [i \in Rows |-> 0]]
  /\ verdict' = [p \in Procs |-> "none"]
  /\ tenants' = [p \in Procs |-> {}]
  /\ healed' = [p \in Procs |-> {}]
  /\ lost' = [i \in Rows |-> lost[i] \/ \E p \in Procs : Unsaved(p) /\ cur[p] = i]
  /\ holders' = [i \in Rows |-> {}]
  /\ UNCHANGED row

----------------------------------------------------------------------------
\* A run that has begun goes on: every call has a timeout.
Step(p) ==
  \/ \E t \in Tenants : CycleSelect(p, t)
  \/ \E i \in Rows : NextRefresh(p, i) \/ SkipRefresh(p, i) \/ NextHeal(p, i)
  \/ RecordFailure(p) \/ Retrieve(p) \/ Exchange(p) \/ ExchangeRejected(p)
  \/ Store(p) \/ MarkRefreshed(p)
  \/ InsertResult(p) \/ Score(p) \/ UpdateStatus(p)
  \/ Unreadable(p) \/ Send(p) \/ FailFast(p)
  \/ AnswerOk(p) \/ AnswerClientError(p) \/ AnswerFailure(p) \/ AnswerUnreadable(p)
  \/ Reconnected(p) \/ ResetTripped(p) \/ GenerateLink(p) \/ NoLink(p)

\* cron starts it.
Tick(p) == RefreshSelect(p) \/ HealSelect(p)

Next ==
  \/ \E p \in Procs :
       \/ Step(p) \/ Tick(p)
       \/ ExchangeFails(p) \/ CallThrows(p) \/ RunThrows(p)
       \/ \E t \in Tenants : CycleThrows(p, t)
       \/ \E i \in Rows : Reconnect(p, i)
  \/ \E s \in Sweeps : SweepSelect(s)
  \/ \E i \in Rows : Disconnect(i) \/ ConnectApiKey(i) \/ Expire(i)
  \/ \E x \in Platforms : CoolDown(x) \/ Elsewhere(x)
  \/ Restart

\* Health checks may stop anywhere: nothing waits for them.
Fairness == \A p \in Refreshers \cup Healers \cup Reconnects : WF_vars(Step(p) \/ Tick(p))

Spec == Init /\ [][Next]_vars /\ Fairness

----------------------------------------------------------------------------
(* Properties *)

\* Runs that refresh one row at the same time never lose the token that the
\* provider rotates: the newest one is in the row, or in the hands of the run that
\* is about to store it, unless its reply, its update or its process was lost.
NewestTokenIsHeld ==
  \A i \in Rows :
    \/ stored[i] \/ lost[i]
    \/ \E p \in Procs : cur[p] = i /\ pc[p] = "store" /\ got[p] = "current"

\* status and errorCount are written by runs that know nothing of each other, and
\* still agree: a row becomes 'expired' only with all its errors, and whatever
\* connects it clears them, but for an API key put in its place by the user.
StatusMatchesErrors ==
  [][\A i \in Rows :
       /\ status'[i] = "expired" => errors'[i] = MaxErrors
       /\ status'[i] = "connected" /\ errors'[i] # 0
            => ConnectApiKey(i) \/ (status[i] = "connected" /\ errors'[i] = errors[i])]_vars

\* The circuit of a platform lets requests through freely exactly while it has
\* counted fewer failures than the threshold, however the answers of concurrent
\* requests and the resets of healing cycles interleave.
TrippedByFailures ==
  \A x \in Platforms : circuit[x].state = "closed" <=> circuit[x].failures < Threshold

\* A disconnected row comes back only by a run that had it in hand when it was
\* disconnected, or because a user asks for it: no sweep takes it up again.
OnlyRunningRevives ==
  [][\A i \in Rows :
       status[i] = "disconnected" /\ status'[i] # "disconnected"
         => \/ \E p \in holders[i] \cup Reconnects : cur[p] = i /\ pc'[p] # pc[p]
            \/ ConnectApiKey(i)]_vars

\* A token that is about to expire, and can be refreshed, is refreshed, unless its row
\* is disconnected or given an API key, or the refresh token has been lost: runs that
\* beat each other to the provider do not keep each other from it.
ExpiringIsRefreshed ==
  \A i \in Tokened \cap Refreshable \cap Configured :
     expiring[i] ~> ~expiring[i] \/ status[i] = "disconnected" \/ pending[i] \/ lost[i]

\* No healing cycle of i's tenant ends with an exception because of another row.
Undisturbed(i) ==
  \A j \in Rows \ {i} : TenantOf[j] = TenantOf[i] => j \in Configured /\ ~pending[j]

\* A degraded or expired row is tried again by a healing sweep, or has changed
\* meanwhile, although the cycles of other tenants in the sweep end with exceptions.
UnhealthyIsTried ==
  \A i \in Configured : status[i] \in Unhealthy ~>
     status[i] \notin Unhealthy \/ (\E p \in Healers : cur[p] = i) \/ ~Undisturbed(i)

=============================================================================
