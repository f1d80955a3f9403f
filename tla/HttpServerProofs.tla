-------------------------- MODULE HttpServerProofs --------------------------
(***************************************************************************)
(* Proofs about HttpServer and the health reports it serves, for any       *)
(* checks, errors, configurations and number of requests.                  *)
(*                                                                         *)
(* About reports the argument is that one which runs alone sees no breaker *)
(* open that it has not shown: those of the checks it has yet to reach can *)
(* only be closed meanwhile (Expected), since only a report fails a check, *)
(* and another report would have marked both (Apart).                      *)
(***************************************************************************)
EXTENDS HttpServer, FiniteSetTheorems, SequenceTheorems, WellFoundedInduction, TLAPS

(* The parts of the state that reports live on. *)
BreakersTyped ==
    /\ breaker \in [Names -> Breaker]
    /\ config \in [Names -> ConfigType \cup {Absent}]
    /\ report \in [Reports -> Report]
    /\ overlapped \subseteq Reports

UnusedIsClosed == \A s \in Names : config[s] = Absent => breaker[s].state = "CLOSED"

Kept(p) ==
    /\ report[p].asleep => report[p].tries = 1
    /\ UnderWay(p) => config[Checks[report[p].at]] # Absent

Apart ==
    \A p, q \in Reports : p # q /\ UnderWay(p) /\ UnderWay(q) => p \in overlapped

Foreseen(r, c) == breaker[c].state = "OPEN" => r.shown[c] = "OPEN"

Told(r) == \A c \in CheckNames : r.services[c] = "refused" => r.shown[c] = "OPEN"

Expected(p) ==
    p \notin overlapped =>
        /\ Told(report[p])
        /\ UnderWay(p) => \A k \in report[p].at + 1 .. Len(Checks) :
                             Foreseen(report[p], Checks[k])

HealthInv ==
    /\ BreakersTyped
    /\ UnusedIsClosed
    /\ \A p \in Reports : Kept(p) /\ Expected(p)
    /\ Apart

IInv == /\ HealthInv
        /\ RetryAfterFits
        /\ now \in 0 .. MaxTime
        /\ requests \in Nat

-----------------------------------------------------------------------------
(* Facts about the constants. *)
LEMMA ChecksTyped ==
    /\ Len(Checks) \in Nat /\ DOMAIN Checks = 1 .. Len(Checks)
    /\ \A k \in 1 .. Len(Checks) : Checks[k] \in CheckNames /\ Checks[k] \in Names
    /\ CheckNames \subseteq Names
    /\ Finished = Len(Checks) + 1
BY CheckAssumption DEF CheckNames, Finished

(* The check that a report awaits next is the first whose breaker lets it  *)
(* in; those before it refuse.                                             *)
LEMMA AwaitedIsFirst ==
    ASSUME NEW n \in 1 .. Finished
    PROVE  /\ Awaited(n) \in n .. Finished
           /\ \A k \in n .. Awaited(n) - 1 : Refuses(k)
<1> DEFINE T == {m \in n .. Finished : m = Finished \/ ~Refuses(m)}
<1>1. Finished \in Nat /\ n \in Nat
  BY ChecksTyped
<1>2. T \subseteq Nat /\ T # {}
  BY <1>1
<1>3. PICK m \in T : \A y \in T : ~(<<y, m>> \in OpToRel(<, Nat))
  BY <1>2, NatLessThanWellFounded, WFMin
<1>4. \A y \in T : ~(y < m)
  BY <1>2, <1>3 DEF OpToRel
<1>5. \A k \in n .. m - 1 : Refuses(k)
  BY <1>1, <1>2, <1>4
<1>6. /\ m \in n .. Finished
      /\ m = Finished \/ ~Refuses(m)
      /\ \A k \in n .. m - 1 : Refuses(k)
  BY <1>5
<1>7. QED BY <1>6 DEF Awaited

(* The sections of the class CircuitBreaker return breakers. *)
LEMMA AdmittedTyped ==
    ASSUME NEW b \in Breaker
    PROVE  /\ Admitted(b) \in Breaker
           /\ b.state = "CLOSED" => Admitted(b) = b
BY DEF Admitted, Breaker, States

LEMMA SucceededTyped ==
    ASSUME NEW b \in Breaker
    PROVE  /\ Succeeded(b) \in Breaker
           /\ b.state = "CLOSED" => Succeeded(b).state = "CLOSED"
           /\ Succeeded(b).failureCount = 0
<1> DEFINE c == [b EXCEPT !.failureCount = 0]
<1>1. c \in Breaker /\ c.state = b.state /\ c.failureCount = 0
  BY DEF Breaker
<1>2. Succeeded(b) = IF b.state = "HALF_OPEN" THEN [c EXCEPT !.state = "CLOSED"] ELSE c
  BY DEF Succeeded
<1> HIDE DEF c
<1>3. CASE b.state = "HALF_OPEN"
  BY <1>1, <1>2, <1>3 DEF Breaker, States
<1>4. CASE b.state # "HALF_OPEN"
  BY <1>1, <1>2, <1>4
<1>5. QED BY <1>3, <1>4

LEMMA FailedTyped ==
    ASSUME NEW b \in Breaker, NEW cfg \in ConfigType, NEW t \in Nat
    PROVE  FailedAt(b, cfg, t) \in Breaker
<1> DEFINE n == b.failureCount + 1
           counted == [b EXCEPT !.failureCount = n, !.lastFailureTime = t]
<1>1. n \in Nat
  BY DEF Breaker
<1>2. FailedAt(b, cfg, t) =
         IF AtLeast(counted.failureCount, cfg.threshold)
         THEN [counted EXCEPT !.state = "OPEN", !.nextAttemptTime = Plus(t, cfg.recovery)]
         ELSE counted
  BY DEF FailedAt
<1>3. counted \in Breaker
  BY <1>1 DEF Breaker
<1> HIDE DEF counted
<1>4. Plus(t, cfg.recovery) \in Nat \cup {NaN}
  BY DEF Plus, ConfigType
<1>5. [counted EXCEPT !.state = "OPEN", !.nextAttemptTime = Plus(t, cfg.recovery)] \in Breaker
  BY <1>3, <1>4 DEF Breaker, States
<1>6. QED BY <1>2, <1>3, <1>5

LEMMA ResetTyped == NewBreaker \in Breaker /\ NewBreaker.state = "CLOSED"
                                           /\ NewBreaker.failureCount = 0
BY DEF NewBreaker, Breaker, States

-----------------------------------------------------------------------------
(* Steps of requests that are not reports: they may reset the breaker of a *)
(* check, and give it a configuration. *)
LEMMA RequestKeepsHealth ==
    ASSUME HealthInv, UNCHANGED <<report, overlapped>>, BreakersTyped', UnusedIsClosed',
           \A s \in Names : config[s] # Absent => config'[s] # Absent,
           \A c \in CheckNames : breaker'[c] \in {breaker[c], NewBreaker}
    PROVE  HealthInv'
<1>1. ASSUME NEW p \in Reports
      PROVE  Kept(p)' /\ Expected(p)'
  <2>1. report'[p] = report[p] /\ report[p] \in Report
    BY DEF HealthInv, BreakersTyped
  <2>2. UnderWay(p)' = UnderWay(p)
    BY <2>1 DEF UnderWay
  <2>3. Kept(p)'
    BY <2>1, <2>2, ChecksTyped DEF HealthInv, Kept, UnderWay
  <2>4. ASSUME NEW c \in CheckNames, Foreseen(report[p], c)
        PROVE  Foreseen(report[p], c)'
    BY <2>1, <2>4, ResetTyped DEF Foreseen
  <2>5. Expected(p)
    BY DEF HealthInv
  <2>6. UnderWay(p) => \A k \in report[p].at + 1 .. Len(Checks) : Checks[k] \in CheckNames
    BY ChecksTyped DEF UnderWay
  <2>7. Told(report[p])' = Told(report[p])
    BY <2>1 DEF Told
  <2>8. UnderWay(p) /\ p \notin overlapped =>
           \A k \in report[p].at + 1 .. Len(Checks) : Foreseen(report[p], Checks[k])'
    BY <2>4, <2>5, <2>6 DEF Expected
  <2>9. Expected(p)'
    BY <2>1, <2>2, <2>5, <2>7, <2>8 DEF Expected, Foreseen
  <2>10. QED BY <2>3, <2>9
<1>2. Apart'
  BY DEF HealthInv, Apart, UnderWay
<1>3. QED BY <1>1, <1>2 DEF HealthInv

(* A report that is told where it is and what its checks were. *)
LEMMA ReportUpdated ==
    ASSUME NEW A, NEW S, NEW T, NEW m, NEW sv,
           NEW r \in [at : A, tries : 1 .. 2, asleep : BOOLEAN, shown : S, services : T,
                      since : Nat, request : Nat],
           NEW e, e = [r EXCEPT !.at = m, !.tries = 1, !.asleep = FALSE, !.services = sv]
    PROVE  e = [at |-> m, tries |-> 1, asleep |-> FALSE, shown |-> r.shown,
                services |-> sv, since |-> r.since, request |-> r.request]
OBVIOUS

LEMMA ReportMade ==
    ASSUME NEW m \in 0 .. Finished, NEW r \in Report,
           NEW sv \in [CheckNames -> Statuses \cup {"refused", "none"}]
    PROVE  [at |-> m, tries |-> 1, asleep |-> FALSE, shown |-> r.shown,
            services |-> sv, since |-> r.since, request |-> r.request] \in Report
BY DEF Report

(* A report comes to its nth check: r is what it has by then, and b holds  *)
(* the breakers after its last check.                                      *)
LEMMA ComeToKeepsHealth ==
    ASSUME HealthInv,
           NEW p \in Reports, NEW r \in Report, NEW n \in 1 .. Finished,
           NEW b \in [Names -> Breaker], ComeTo(p, r, n, b),
           \A s \in Names : b[s] = breaker[s] \/ (n > 1 /\ s = Checks[n - 1]),
           \A s \in Names : config[s] = Absent => b[s].state = "CLOSED",
           overlapped' \subseteq Reports, overlapped \subseteq overlapped' \cup {p},
           \A q \in Reports \ {p} : UnderWay(q) => {p, q} \subseteq overlapped',
           p \notin overlapped' =>
               Told(r) /\ \A k \in n .. Len(Checks) : Foreseen(r, Checks[k])
    PROVE  HealthInv'
<1>1. PICK m : m = Awaited(n)
  OBVIOUS
<1>2. /\ m \in n .. Finished /\ n \in Nat /\ m \in Nat /\ Finished = Len(Checks) + 1
      /\ Len(Checks) \in Nat
      /\ \A k \in n .. m - 1 : Refuses(k)
  BY <1>1, AwaitedIsFirst, ChecksTyped
<1>3. PICK sv : sv = [c \in CheckNames |->
                        IF \E k \in n .. m - 1 : c = Checks[k] THEN "refused" ELSE r.services[c]]
  OBVIOUS
<1>4. m \in 0 .. Finished /\ sv \in [CheckNames -> Statuses \cup {"refused", "none"}]
  <2>1. m \in 0 .. Finished
    BY <1>2
  <2>2. sv \in [CheckNames -> Statuses \cup {"refused", "none"}]
    BY <1>3 DEF Report
  <2>3. QED BY <2>1, <2>2
<1>5. PICK e : /\ e = [at |-> m, tries |-> 1, asleep |-> FALSE, shown |-> r.shown,
                       services |-> sv, since |-> r.since, request |-> r.request]
               /\ report' = [report EXCEPT ![p] = e]
  <2>1. PICK e : /\ e = [r EXCEPT !.at = m, !.tries = 1, !.asleep = FALSE, !.services = sv]
                 /\ report' = [report EXCEPT ![p] = e]
    BY <1>1, <1>3 DEF ComeTo
  <2>2. e = [at |-> m, tries |-> 1, asleep |-> FALSE, shown |-> r.shown,
             services |-> sv, since |-> r.since, request |-> r.request]
    BY <2>1, ReportUpdated DEF Report
  <2>3. QED BY <2>1, <2>2
<1>6. /\ e \in Report /\ e.at = m /\ e.tries = 1 /\ e.asleep = FALSE
      /\ e.services = sv /\ e.shown = r.shown
  BY <1>4, <1>5, ReportMade
<1>7. \A q \in Reports : report'[q] = IF q = p THEN e ELSE report[q]
  BY <1>5 DEF HealthInv, BreakersTyped
<1>8. IF m = Finished THEN breaker' = b /\ UNCHANGED config
      ELSE /\ breaker' = [b EXCEPT ![Checks[m]] = Admitted(@)]
           /\ config' = [config EXCEPT ![Checks[m]] = IF @ = Absent THEN CheckConfig ELSE @]
  BY <1>1 DEF ComeTo
<1>9. m # Finished => m \in 1 .. Len(Checks) /\ Checks[m] \in CheckNames /\ Checks[m] \in Names
  BY <1>2, ChecksTyped
<1>10. /\ breaker' \in [Names -> Breaker] /\ config' \in [Names -> ConfigType \cup {Absent}]
       /\ \A s \in Names : breaker'[s] = b[s]
                           \/ (m # Finished /\ s = Checks[m] /\ breaker'[s] = Admitted(b[s]))
       /\ \A s \in Names : config'[s] # Absent \/ (config'[s] = config[s]
                                                   /\ (m # Finished => s # Checks[m]))
       /\ \A s \in Names : config[s] # Absent => config'[s] # Absent
       /\ m # Finished => config'[Checks[m]] # Absent
  <2>1. CASE m = Finished
    BY <1>8, <2>1 DEF HealthInv, BreakersTyped
  <2>2. CASE m # Finished
    BY <1>8, <1>9, <2>2, AdmittedTyped, CheckAssumption DEF HealthInv, BreakersTyped
  <2>3. QED BY <2>1, <2>2
<1>11. BreakersTyped'
  BY <1>5, <1>6, <1>10 DEF HealthInv, BreakersTyped
<1>12. UnusedIsClosed'
  BY <1>10 DEF UnusedIsClosed
<1>13. \A q \in Reports : q # p => UnderWay(q)' = UnderWay(q)
  BY <1>7 DEF UnderWay
<1>14. Apart'
  BY <1>13 DEF Apart
<1>15. \A c \in CheckNames : sv[c] = "refused" =>
          r.services[c] = "refused" \/ \E k \in n .. Len(Checks) :
                                          c = Checks[k] /\ breaker[c].state = "OPEN"
  BY <1>2, <1>3 DEF Refuses, RejectsAt
<1>16. Kept(p)' /\ Expected(p)'
  <2>1. report'[p] = e
    BY <1>7
  <2>2. Kept(p)'
    BY <1>2, <1>6, <1>10, <2>1 DEF Kept, UnderWay
  <2>3. ASSUME p \notin overlapped'
        PROVE  Told(e)
    BY <1>6, <1>15, <2>3 DEF Told, Foreseen
  <2>4. ASSUME p \notin overlapped', NEW k \in m + 1 .. Len(Checks)
        PROVE  breaker'[Checks[k]].state = "OPEN" => e.shown[Checks[k]] = "OPEN"
    <3>1. k \in n .. Len(Checks) /\ k \in 1 .. Len(Checks) /\ k # n - 1 /\ k # m
          /\ m # Finished /\ m \in 1 .. Len(Checks)
      BY <1>2
    <3>2. Checks[k] # Checks[m] /\ Checks[k] \in Names
      BY <3>1, ChecksTyped, CheckAssumption
    <3>3. n > 1 => n - 1 \in 1 .. Len(Checks)
      BY <1>2
    <3>4. n > 1 => Checks[k] # Checks[n - 1]
      BY <3>1, <3>3, ChecksTyped, CheckAssumption
    <3>5. breaker'[Checks[k]] = breaker[Checks[k]]
      BY <1>10, <3>2, <3>4
    <3>6. QED BY <1>6, <2>4, <3>1, <3>5 DEF Foreseen
  <2>5. Expected(p)'
    BY <1>6, <2>1, <2>3, <2>4 DEF Expected, Foreseen, Told
  <2>6. QED BY <2>2, <2>5
<1>17. ASSUME NEW q \in Reports, q # p
       PROVE  Kept(q)' /\ Expected(q)'
  <2>1. report'[q] = report[q] /\ UnderWay(q)' = UnderWay(q) /\ Kept(q) /\ Expected(q)
    BY <1>7, <1>13, <1>17 DEF HealthInv
  <2>2. Kept(q)'
    <3>1. UnderWay(q) => Checks[report[q].at] \in Names
      BY ChecksTyped DEF UnderWay
    <3>2. QED BY <1>10, <2>1, <3>1 DEF Kept
  <2>3. Expected(q)'
    <3>1. CASE UnderWay(q)
      BY <1>17, <3>1 DEF Expected
    <3>2. CASE ~UnderWay(q)
      BY <1>17, <2>1, <3>2 DEF Expected, Told
    <3>3. QED BY <3>1, <3>2
  <2>4. QED BY <2>2, <2>3
<1>18. QED BY <1>11, <1>12, <1>14, <1>16, <1>17 DEF HealthInv

(* The steps of a report, one by one. *)
LEMMA BeginKeepsHealth ==
    ASSUME HealthInv, now \in Nat, NEW p \in Reports, NEW i \in Nat, BeginReport(p, i)
    PROVE  HealthInv'
<1>1. PICK sh : sh = [c \in CheckNames |-> Shown(c)]
  OBVIOUS
<1>2. PICK r : /\ r = [NoReport EXCEPT !.shown = sh, !.since = now, !.request = i]
               /\ ComeTo(p, r, 1, breaker)
  BY <1>1 DEF BeginReport
<1>3. sh \in [CheckNames -> States \cup {"none"}]
  BY <1>1, ChecksTyped DEF Shown, HealthInv, BreakersTyped, Breaker
<1>4. r = [at |-> 0, tries |-> 1, asleep |-> FALSE, shown |-> sh,
           services |-> [c \in CheckNames |-> "none"], since |-> now, request |-> i]
  BY <1>2 DEF NoReport
<1>5. r \in Report /\ r.shown = sh /\ Told(r)
  <2>1. r \in Report
    BY <1>3, <1>4, ChecksTyped DEF Report
  <2>2. QED BY <1>4, <2>1 DEF Told
<1>6. \A k \in 1 .. Len(Checks) : Foreseen(r, Checks[k])
  BY <1>1, <1>5, ChecksTyped DEF Foreseen, Shown, HealthInv, UnusedIsClosed
<1>7. PICK others : /\ others = {q \in Reports \ {p} : UnderWay(q)}
                    /\ overlapped' = IF others = {} THEN overlapped \ {p}
                                     ELSE overlapped \cup others \cup {p}
  BY DEF BeginReport
<1>8. /\ overlapped' \subseteq Reports /\ overlapped \subseteq overlapped' \cup {p}
      /\ \A q \in Reports \ {p} : UnderWay(q) => {p, q} \subseteq overlapped'
  BY <1>7 DEF HealthInv, BreakersTyped
<1>9. 1 \in 1 .. Finished /\ breaker \in [Names -> Breaker]
  BY ChecksTyped DEF HealthInv, BreakersTyped
<1>10. \A s \in Names : config[s] = Absent => breaker[s].state = "CLOSED"
  BY DEF HealthInv, UnusedIsClosed
<1>11. QED BY <1>2, <1>5, <1>6, <1>8, <1>9, <1>10, ComeToKeepsHealth

(* A check has ended with a, and its breaker is as in b. *)
LEMMA CheckEndKeepsHealth ==
    ASSUME HealthInv, NEW p \in Reports, UnderWay(p), UNCHANGED overlapped,
           NEW c, c = Checks[report[p].at], NEW a \in Statuses,
           NEW b \in [Names -> Breaker], \A s \in Names : s # c => b[s] = breaker[s],
           NEW r, r = [report[p] EXCEPT !.services[c] = a],
           ComeTo(p, r, report[p].at + 1, b)
    PROVE  HealthInv'
<1>1. PICK n : n = report[p].at + 1
  OBVIOUS
<1>2. /\ report[p] \in Report /\ Kept(p) /\ Expected(p)
      /\ c \in CheckNames /\ c \in Names /\ n \in 1 .. Finished /\ n > 1 /\ c = Checks[n - 1]
  BY <1>1, ChecksTyped DEF HealthInv, BreakersTyped, UnderWay
<1>3. /\ r \in Report /\ r.shown = report[p].shown
      /\ r.services = [report[p].services EXCEPT ![c] = a]
  BY <1>1, <1>2 DEF Report
<1>4. p \notin overlapped => Told(r)
  <2>1. ASSUME p \notin overlapped, NEW d \in CheckNames, r.services[d] = "refused"
        PROVE  r.shown[d] = "OPEN"
    <3>1. report[p].services \in [CheckNames -> Statuses \cup {"refused", "none"}]
      BY <1>2 DEF Report
    <3>2. report[p].services[d] = "refused"
      BY <1>3, <2>1, <3>1 DEF Statuses
    <3>3. QED BY <1>2, <1>3, <2>1, <3>2 DEF Expected, Told
  <2>2. QED BY <2>1 DEF Told
<1>5. p \notin overlapped => \A k \in n .. Len(Checks) : Foreseen(r, Checks[k])
  BY <1>1, <1>2, <1>3 DEF Expected, Foreseen
<1>6. \A q \in Reports \ {p} : UnderWay(q) => {p, q} \subseteq overlapped'
  BY DEF HealthInv, Apart
<1>7. overlapped' \subseteq Reports /\ overlapped \subseteq overlapped' \cup {p}
  BY DEF HealthInv, BreakersTyped
<1>8. \A s \in Names : config[s] = Absent => b[s].state = "CLOSED"
  BY <1>2 DEF HealthInv, UnusedIsClosed, Kept
<1>9. \A s \in Names : b[s] = breaker[s] \/ (n > 1 /\ s = Checks[n - 1])
  BY <1>2
<1>10. QED BY <1>1, <1>2, <1>3, <1>4, <1>5, <1>6, <1>7, <1>8, <1>9, ComeToKeepsHealth

LEMMA CheckAnswersKeepsHealth ==
    ASSUME HealthInv, NEW p \in Reports, CheckAnswers(p)
    PROVE  HealthInv'
<1>1. PICK c : c = Checks[report[p].at]
  OBVIOUS
<1>2. /\ UnderWay(p) /\ UNCHANGED overlapped
      /\ report[p] \in Report /\ c \in CheckNames /\ c \in Names
  BY <1>1, ChecksTyped DEF CheckAnswers, HealthInv, BreakersTyped, UnderWay
<1>3. PICK a, b, r : /\ a \in Statuses
                     /\ b = [breaker EXCEPT ![c] = Succeeded(@)]
                     /\ r = [report[p] EXCEPT !.services[c] = a]
                     /\ ComeTo(p, r, report[p].at + 1, b)
  BY <1>1 DEF CheckAnswers
<1>4. b \in [Names -> Breaker] /\ \A s \in Names : s # c => b[s] = breaker[s]
  BY <1>2, <1>3, SucceededTyped DEF HealthInv, BreakersTyped
<1>5. QED BY <1>1, <1>2, <1>3, <1>4, CheckEndKeepsHealth

LEMMA CheckFailsKeepsHealth ==
    ASSUME HealthInv, now \in Nat, NEW p \in Reports, CheckFails(p)
    PROVE  HealthInv'
<1>1. PICK c : c = Checks[report[p].at]
  OBVIOUS
<1>2. /\ UnderWay(p) /\ UNCHANGED overlapped
      /\ report[p] \in Report /\ c \in CheckNames /\ c \in Names /\ Kept(p)
  BY <1>1, ChecksTyped DEF CheckFails, HealthInv, BreakersTyped, UnderWay
<1>3. PICK b, r : /\ b = [breaker EXCEPT ![c] = FailedAt(@, config[c], now)]
                  /\ r = [report[p] EXCEPT !.services[c] = "down"]
                  /\ ComeTo(p, r, report[p].at + 1, b)
  BY <1>1 DEF CheckFails
<1>4. b \in [Names -> Breaker] /\ \A s \in Names : s # c => b[s] = breaker[s]
  BY <1>1, <1>2, <1>3, FailedTyped DEF HealthInv, BreakersTyped, Kept
<1>5. "down" \in Statuses
  BY DEF Statuses
<1>6. QED BY <1>1, <1>2, <1>3, <1>4, <1>5, CheckEndKeepsHealth

LEMMA RetryKeepsHealth ==
    ASSUME HealthInv, NEW p \in Reports, CheckWaits(p) \/ CheckAgain(p)
    PROVE  HealthInv'
<1>1. /\ report[p] \in Report /\ Kept(p) /\ UNCHANGED <<breaker, config, overlapped>>
  BY DEF CheckWaits, CheckAgain, HealthInv, BreakersTyped
<1>2. PICK e \in Report : /\ report' = [report EXCEPT ![p] = e]
                          /\ e.asleep => e.tries = 1
                          /\ e.at = report[p].at /\ e.shown = report[p].shown
                          /\ e.services = report[p].services
  <2>1. CASE CheckWaits(p)
    <3> DEFINE e == [report[p] EXCEPT !.asleep = TRUE]
    <3>1. report' = [report EXCEPT ![p] = e]
      BY <2>1 DEF CheckWaits
    <3>2. report[p].tries = 1
      BY <1>1, <2>1 DEF CheckWaits, RetriesAfter, Report
    <3>3. e \in Report /\ e.tries = 1 /\ e.at = report[p].at /\ e.shown = report[p].shown
          /\ e.services = report[p].services
      BY <1>1, <3>2 DEF Report
    <3>4. QED BY <3>1, <3>3
  <2>2. CASE CheckAgain(p)
    <3>1. report[p].tries + 1 = 2
      BY <1>1, <2>2 DEF CheckAgain, Kept
    <3>2. PICK d : d = [report[p] EXCEPT !.asleep = FALSE]
      OBVIOUS
    <3>3. /\ d \in Report /\ ~d.asleep /\ d.at = report[p].at /\ d.shown = report[p].shown
          /\ d.services = report[p].services
      BY <1>1, <3>2 DEF Report
    <3>4. PICK e : /\ e = [d EXCEPT !.tries = 2]
                   /\ report' = [report EXCEPT ![p] = e]
      BY <1>1, <2>2, <3>1, <3>2 DEF CheckAgain
    <3>5. /\ e \in Report /\ ~e.asleep /\ e.at = d.at /\ e.shown = d.shown
          /\ e.services = d.services
      BY <3>3, <3>4 DEF Report
    <3>6. QED BY <3>3, <3>4, <3>5
  <2>3. QED BY <2>1, <2>2
<1>3. \A q \in Reports : report'[q] = IF q = p THEN e ELSE report[q]
  BY <1>2 DEF HealthInv, BreakersTyped
<1>4. BreakersTyped' /\ UnusedIsClosed'
  BY <1>1, <1>2 DEF HealthInv, BreakersTyped, UnusedIsClosed
<1>5. \A q \in Reports : UnderWay(q)' = UnderWay(q)
  BY <1>2, <1>3 DEF UnderWay
<1>6. Apart'
  BY <1>1, <1>5 DEF HealthInv, Apart
<1>7. ASSUME NEW q \in Reports
      PROVE  Kept(q)' /\ Expected(q)'
  <2>1. /\ report'[q].at = report[q].at /\ report'[q].shown = report[q].shown
        /\ report'[q].services = report[q].services /\ Kept(q) /\ Expected(q)
        /\ report'[q].asleep => report'[q].tries = 1
    BY <1>2, <1>3 DEF HealthInv, Kept
  <2>2. Kept(q)'
    BY <1>1, <1>5, <2>1 DEF Kept
  <2>3. Expected(q)'
    BY <1>1, <1>5, <2>1 DEF Expected, Told, Foreseen
  <2>4. QED BY <2>2, <2>3
<1>8. QED BY <1>4, <1>6, <1>7 DEF HealthInv

-----------------------------------------------------------------------------
(* Answers.  Whatever is thrown, what the filter answers fits. *)
Fits(info) ==
    /\ info.status = 503 => info.isRetryable
    /\ info.status \in 400 .. 499 => ~info.isRetryable

LEMMA ErrorInfoFits ==
    ASSUME NEW status \in Nat, NEW code, NEW retry \in BOOLEAN,
           status = 503 => retry, status \in 400 .. 499 => ~retry
    PROVE  Fits(ErrorInfo(status, code, retry))
BY DEF Fits, ErrorInfo

LEMMA FaultFits ==
    ASSUME NEW status \in 400 .. 499, NEW code
    PROVE  Fits(ErrorInfo(status, code, FALSE))
BY DEF Fits, ErrorInfo

LEMMA InfoFits ==
    ASSUME NEW e, Throwable(e)
    PROVE  Fits(ProcessException(e))
<1>1. e.status \in Nat /\ e.isTemporary \in BOOLEAN
  BY DEF Throwable
<1>2. CASE e.class \in {"BusinessException", "ResourceNotFoundException",
                        "ResourceConflictException", "InvalidOperationException"}
  <2>1. ProcessException(e) = HandleBusinessException(e)
    BY <1>2 DEF ProcessException, TypeOrmErrors
  <2>2. e.status \in 400 .. 499
    BY <1>2 DEF Throwable
  <2>3. QED BY <1>1, <2>1, <2>2, FaultFits DEF HandleBusinessException
<1>3. CASE e.class = "ExternalServiceException"
  <2>1. ProcessException(e) = HandleExternalServiceException(e)
    BY <1>3 DEF ProcessException, TypeOrmErrors
  <2>2. e.status = IF e.isTemporary THEN 503 ELSE 502
    BY <1>3 DEF Throwable
  <2>3. QED BY <1>1, <2>1, <2>2, ErrorInfoFits DEF HandleExternalServiceException
<1>4. CASE e.class \in {"ValidationException", "FileValidationException"}
  <2>1. ProcessException(e) = HandleValidationException(e)
    BY <1>4 DEF ProcessException, TypeOrmErrors
  <2>2. e.status \in 400 .. 499
    BY <1>4 DEF Throwable
  <2>3. QED BY <1>1, <2>1, <2>2, FaultFits DEF HandleValidationException
<1>5. CASE e.class \in {"AuthenticationException", "AuthorizationException"}
  <2>1. ProcessException(e) = HandleAuthException(e)
    BY <1>5 DEF ProcessException, TypeOrmErrors
  <2>2. e.status \in 400 .. 499
    BY <1>5 DEF Throwable
  <2>3. QED BY <1>1, <2>1, <2>2, FaultFits DEF HandleAuthException
<1>6. CASE e.class \in TypeOrmErrors
  <2>1. ProcessException(e) = HandleTypeORMException(e)
    BY <1>6 DEF ProcessException, TypeOrmErrors
  <2>2. HandleTypeORMException(e) \in {ErrorInfo(400, "DATABASE_QUERY_FAILED", FALSE),
                                       ErrorInfo(404, "ENTITY_NOT_FOUND", FALSE),
                                       ErrorInfo(500, "DATABASE_ERROR", TRUE)}
    BY <1>6 DEF HandleTypeORMException, TypeOrmErrors
  <2>3. QED BY <2>1, <2>2 DEF Fits, ErrorInfo
<1>7. CASE e.class = "HttpException"
  <2>1. ProcessException(e) = HandleHttpException(e)
    BY <1>7 DEF ProcessException, TypeOrmErrors
  <2>2. PICK retry \in BOOLEAN : retry <=> e.status >= 500
    OBVIOUS
  <2>3. Fits(ErrorInfo(e.status, "HTTP_EXCEPTION", retry))
    BY <1>1, <2>2, ErrorInfoFits
  <2>4. QED BY <1>1, <2>1, <2>2, <2>3 DEF HandleHttpException
<1>8. CASE e.class = "Error"
  <2>1. ProcessException(e) = HandleSystemError(e)
    BY <1>8 DEF ProcessException, TypeOrmErrors
  <2>2. QED BY <2>1 DEF HandleSystemError, Fits, ErrorInfo
<1>9. CASE ~(e.class \in {"BusinessException", "ResourceNotFoundException",
                          "ResourceConflictException", "InvalidOperationException",
                          "ExternalServiceException", "ValidationException",
                          "FileValidationException", "AuthenticationException",
                          "AuthorizationException", "HttpException", "Error"}
             \/ e.class \in TypeOrmErrors)
  <2>1. ProcessException(e) = HandleUnknownException
    BY <1>9 DEF ProcessException
  <2>2. QED BY <2>1 DEF HandleUnknownException, Fits, ErrorInfo
<1>10. QED BY <1>2, <1>3, <1>4, <1>5, <1>6, <1>7, <1>8, <1>9

(* What the handlers throw themselves. *)
LEMMA HandlersThrow ==
    /\ Throwable(DatabaseException) /\ Throwable(RedisException)
    /\ \A says : Throwable(PlainError(says))
    /\ Throwable(HttpException(401)) /\ Throwable(HttpException(403))
<1>1. Throwable(DatabaseException) /\ Throwable(RedisException)
  BY DEF Throwable, DatabaseException, RedisException, ExternalServiceException, Thrown
<1>2. \A says : Throwable(PlainError(says))
  BY DEF Throwable, PlainError, Thrown
<1>3. Throwable(HttpException(401)) /\ Throwable(HttpException(403))
  BY DEF Throwable, HttpException, Thrown
<1>4. QED BY <1>1, <1>2, <1>3

LEMMA AnswerFits ==
    ASSUME NEW n, NEW since, NEW before, AnswerAfter(n, since, before)
    PROVE  RetryAfterFits'
<1>1. reply' = [status |-> 200, code |-> "", retryAfter |-> FALSE]
  BY DEF AnswerAfter
<1>2. reply'.status = 200
  BY <1>1
<1>3. QED BY <1>2 DEF RetryAfterFits

LEMMA CatchFits ==
    ASSUME NEW n, NEW before, NEW e, Throwable(e), Catch(n, e, before)
    PROVE  RetryAfterFits'
<1>1. PICK info : info = ProcessException(e) /\ Fits(info)
  BY InfoFits
<1>2. reply' = [status |-> info.status, code |-> info.code, retryAfter |-> info.isRetryable]
  BY <1>1 DEF Catch
<1>3. QED BY <1>1, <1>2 DEF RetryAfterFits, Fits

-----------------------------------------------------------------------------
(* The routes.  Of the breakers they touch, only a reset one may be that   *)
(* of a check, and a check's may get a configuration. *)
LEMMA RegisteredTyped ==
    ASSUME NEW s \in Names, NEW cfg \in ConfigType,
           NEW c \in [Names -> ConfigType \cup {Absent}]
    PROVE  /\ Registered(c, s, cfg) \in [Names -> ConfigType \cup {Absent}]
           /\ Registered(c, s, cfg)[s] \in ConfigType
           /\ Registered(c, s, cfg)[s] \in {c[s], cfg}
           /\ \A t \in Names : t # s => Registered(c, s, cfg)[t] = c[t]
           /\ \A t \in Names : c[t] # Absent => Registered(c, s, cfg)[t] # Absent
BY CheckAssumption DEF Registered

LEMMA GuardedTyped ==
    ASSUME NEW r \in GuardedRoutes
    PROVE  /\ r.service \in Names \ CheckNames
           /\ r.guard \in ConfigType
           /\ r.error \in {DatabaseException, RedisException}
BY HttpAssumption DEF GuardedRoutes

(* What the filter looks up is registered, and nothing else changes. *)
LEMMA LookedUpTyped ==
    ASSUME NEW e, e.class = "ExternalServiceException" => e.service \in Names,
           NEW c \in [Names -> ConfigType \cup {Absent}]
    PROVE  /\ LookedUp(c, e) \in [Names -> ConfigType \cup {Absent}]
           /\ \A t \in Names : c[t] # Absent => LookedUp(c, e)[t] # Absent
           /\ \A t \in Names : (e.class = "ExternalServiceException" => e.service # t)
                                => LookedUp(c, e)[t] = c[t]
BY HttpAssumption, RegisteredTyped DEF LookedUp

LEMMA UnguardedInv ==
    ASSUME IInv, NEW e \in Errors, UnguardedRoute(e)
    PROVE  HealthInv' /\ RetryAfterFits'
<1>1. /\ config' = LookedUp(config, e) /\ UNCHANGED <<breaker, report, overlapped>>
      /\ BreakersTyped /\ UnusedIsClosed
  BY DEF UnguardedRoute, IInv, HealthInv
<1>2. /\ config' \in [Names -> ConfigType \cup {Absent}]
      /\ \A s \in Names : config[s] # Absent => config'[s] # Absent
  BY <1>1, HttpAssumption, LookedUpTyped DEF BreakersTyped
<1>3. BreakersTyped' /\ UnusedIsClosed'
  BY <1>1, <1>2 DEF BreakersTyped, UnusedIsClosed
<1>4. HealthInv'
  BY <1>1, <1>2, <1>3, RequestKeepsHealth DEF IInv
<1>5. QED BY <1>4, HttpAssumption, CatchFits DEF UnguardedRoute, Throws

LEMMA GuardedThrow ==
    /\ DatabaseException.class = "ExternalServiceException"
    /\ DatabaseException.service = "Database"
    /\ RedisException.class = "ExternalServiceException"
    /\ RedisException.service = "Redis"
BY DEF DatabaseException, RedisException, ExternalServiceException, Thrown

(* One breaker, not of a check, goes through a section of its class. *)
LEMMA OneBreakerKeepsHealth ==
    ASSUME HealthInv, NEW s \in Names \ CheckNames, NEW b \in Breaker,
           breaker' = [breaker EXCEPT ![s] = b], UNCHANGED <<report, overlapped>>,
           config' \in [Names -> ConfigType \cup {Absent}], config'[s] # Absent,
           \A t \in Names : config[t] # Absent => config'[t] # Absent
    PROVE  HealthInv'
<1>1. \A t \in Names : breaker'[t] = IF t = s THEN b ELSE breaker[t]
  BY DEF HealthInv, BreakersTyped
<1>2. BreakersTyped'
  BY DEF HealthInv, BreakersTyped
<1>3. UnusedIsClosed'
  BY <1>1 DEF HealthInv, UnusedIsClosed
<1>4. \A c \in CheckNames : breaker'[c] = breaker[c]
  BY <1>1, ChecksTyped
<1>5. QED BY <1>2, <1>3, <1>4, RequestKeepsHealth

LEMMA GuardedInv ==
    ASSUME IInv, NEW r \in GuardedRoutes, GuardedRoute(r)
    PROVE  HealthInv' /\ RetryAfterFits'
<1>1. PICK s, registered : s = r.service /\ registered = Registered(config, s, r.guard)
  OBVIOUS
<1>2. /\ s \in Names \ CheckNames /\ r.guard \in ConfigType
      /\ breaker \in [Names -> Breaker] /\ config \in [Names -> ConfigType \cup {Absent}]
      /\ now \in Nat
  BY <1>1, GuardedTyped, HttpAssumption DEF IInv, HealthInv, BreakersTyped
<1>3. /\ registered \in [Names -> ConfigType \cup {Absent}]
      /\ registered[s] \in ConfigType
      /\ \A t \in Names : config[t] # Absent => registered[t] # Absent
  BY <1>1, <1>2, RegisteredTyped
<1>4. UNCHANGED <<report, overlapped>>
  BY DEF GuardedRoute
<1>5. CASE /\ config' = registered
           /\ Throws(This, PlainError("Circuit breaker is OPEN"))
           /\ UNCHANGED breaker
  <2>1. breaker' = [breaker EXCEPT ![s] = breaker[s]] /\ breaker[s] \in Breaker
    BY <1>2, <1>5
  <2>2. HealthInv'
    BY <1>2, <1>3, <1>4, <1>5, <2>1, CheckAssumption, OneBreakerKeepsHealth DEF IInv
  <2>3. QED BY <1>5, <2>2, HandlersThrow, CatchFits DEF Throws
<1>6. CASE /\ breaker' = [breaker EXCEPT ![s] = FailedAt(Admitted(@), registered[s], now)]
           /\ config' = LookedUp(registered, r.error)
           /\ Throws(This, r.error)
  <2>1. PICK b : b = FailedAt(Admitted(breaker[s]), registered[s], now)
    OBVIOUS
  <2>2. b \in Breaker /\ breaker' = [breaker EXCEPT ![s] = b]
    BY <1>2, <1>3, <1>6, <2>1, AdmittedTyped, FailedTyped
  <2>3. r.error.service \in Names
    BY GuardedTyped, GuardedThrow, HttpAssumption
  <2>4. /\ config' \in [Names -> ConfigType \cup {Absent}]
        /\ \A t \in Names : registered[t] # Absent => config'[t] # Absent
    BY <1>3, <1>6, <2>3, LookedUpTyped
  <2>5. HealthInv'
    BY <1>2, <1>3, <1>4, <2>2, <2>4, CheckAssumption, OneBreakerKeepsHealth DEF IInv
  <2>6. QED BY <1>6, <2>5, GuardedTyped, HandlersThrow, CatchFits DEF Throws
<1>7. QED BY <1>1, <1>5, <1>6 DEF GuardedRoute

LEMMA DemonstrateInv ==
    ASSUME IInv, NEW shouldFail \in BOOLEAN, DemonstrateCircuitBreaker(shouldFail)
    PROVE  HealthInv' /\ RetryAfterFits'
<1>1. PICK s, registered : s = "demo-service" /\ registered = Registered(config, s, DefaultConfig)
  OBVIOUS
<1>2. /\ s \in Names \ CheckNames /\ DefaultConfig \in ConfigType
      /\ breaker \in [Names -> Breaker] /\ config \in [Names -> ConfigType \cup {Absent}]
      /\ now \in Nat
  BY <1>1, HttpAssumption DEF IInv, HealthInv, BreakersTyped
<1>3. /\ registered \in [Names -> ConfigType \cup {Absent}]
      /\ registered[s] \in ConfigType
      /\ \A t \in Names : config[t] # Absent => registered[t] # Absent
  BY <1>1, <1>2, RegisteredTyped
<1>4. PICK b : b = IF RejectsAt(breaker[s], now) THEN breaker[s]
                   ELSE IF shouldFail THEN FailedAt(Admitted(breaker[s]), registered[s], now)
                   ELSE Succeeded(Admitted(breaker[s]))
  OBVIOUS
<1>5. b \in Breaker
  BY <1>2, <1>3, <1>4, AdmittedTyped, FailedTyped, SucceededTyped
<1>6. /\ config' = registered /\ breaker' = [breaker EXCEPT ![s] = b]
      /\ UNCHANGED <<report, overlapped>>
  BY <1>1, <1>4 DEF DemonstrateCircuitBreaker
<1>7. HealthInv'
  BY <1>2, <1>3, <1>5, <1>6, CheckAssumption, OneBreakerKeepsHealth DEF IInv
<1>8. QED BY <1>7, AnswerFits DEF DemonstrateCircuitBreaker, Answer

LEMMA ResetInv ==
    ASSUME IInv, NEW s \in Names, ResetRoute(s)
    PROVE  HealthInv' /\ RetryAfterFits'
<1>1. /\ UNCHANGED <<config, report, overlapped>>
      /\ \A t \in Names : breaker'[t] \in {breaker[t], NewBreaker}
      /\ breaker' \in [Names -> Breaker]
  BY ResetTyped DEF ResetRoute, Reset, IInv, HealthInv, BreakersTyped
<1>2. BreakersTyped' /\ UnusedIsClosed'
  BY <1>1, ResetTyped DEF IInv, HealthInv, BreakersTyped, UnusedIsClosed
<1>3. HealthInv'
  BY <1>1, <1>2, ChecksTyped, RequestKeepsHealth DEF IInv
<1>4. QED BY <1>3, AnswerFits DEF ResetRoute, Answer

LEMMA NothingKeepsHealth ==
    ASSUME HealthInv, UNCHANGED <<breaker, config, report, overlapped>>
    PROVE  HealthInv'
<1>1. BreakersTyped' /\ UnusedIsClosed'
  BY DEF HealthInv, BreakersTyped, UnusedIsClosed
<1>2. QED BY <1>1, RequestKeepsHealth

LEMMA LogsInv ==
    ASSUME IInv, NEW role, LogsRoute(role)
    PROVE  HealthInv' /\ RetryAfterFits'
<1>1. HealthInv'
  BY NothingKeepsHealth DEF LogsRoute, IInv
<1>2. QED BY <1>1, HandlersThrow, CatchFits, AnswerFits DEF LogsRoute, Answer

LEMMA EndsFits ==
    ASSUME RetryAfterFits, NEW p \in Reports, EndsWith(p)
    PROVE  RetryAfterFits'
<1>1. CASE report'[p].at = Finished
  BY <1>1, AnswerFits DEF EndsWith, Answer
<1>2. CASE report'[p].at # Finished
  BY <1>2 DEF EndsWith, RetryAfterFits
<1>3. QED BY <1>1, <1>2

LEMMA InitInv == Init => IInv
<1> SUFFICES ASSUME Init PROVE IInv
  OBVIOUS
<1>1. BreakersTyped
  <2>1. NoReport \in Report
    BY ChecksTyped DEF NoReport, Report
  <2>2. QED BY <2>1, ResetTyped DEF Init, HealthInit, BreakersTyped
<1>2. UnusedIsClosed
  BY ResetTyped DEF Init, UnusedIsClosed
<1>3. ASSUME NEW p \in Reports
      PROVE  ~UnderWay(p) /\ Told(report[p]) /\ ~report[p].asleep
  <2>1. report[p] = NoReport
    BY DEF Init, HealthInit
  <2>2. NoReport.at = 0 /\ NoReport.services = [c \in CheckNames |-> "none"]
    BY DEF NoReport
  <2>3. ~NoReport.asleep
    BY DEF NoReport
  <2>4. QED BY <2>1, <2>2, <2>3 DEF UnderWay, Told
<1>4. HealthInv
  BY <1>1, <1>2, <1>3 DEF HealthInv, Kept, Expected, Apart
<1>5. reply.status = 0
  BY DEF Init
<1>6. RetryAfterFits
  BY <1>5 DEF RetryAfterFits
<1>7. now = 0 /\ requests = 0
  BY DEF Init
<1>8. QED BY <1>4, <1>6, <1>7, HttpAssumption DEF IInv

LEMMA NextInv == IInv /\ [Next]_vars => IInv'
<1> SUFFICES ASSUME IInv, [Next]_vars PROVE IInv'
  OBVIOUS
<1>1. now \in Nat /\ now \in 0 .. MaxTime /\ requests \in Nat /\ HealthInv
      /\ RetryAfterFits
  BY HttpAssumption DEF IInv
<1>2. Arrives => requests' \in Nat /\ This \in Nat
  BY <1>1 DEF Arrives, This
<1>3. ASSUME NEW e \in Errors, UnguardedRoute(e) PROVE IInv'
  BY <1>1, <1>2, <1>3, UnguardedInv DEF IInv, UnguardedRoute
<1>4. ASSUME NEW r \in GuardedRoutes, GuardedRoute(r) PROVE IInv'
  BY <1>1, <1>2, <1>4, GuardedInv DEF IInv, GuardedRoute
<1>5. ASSUME NEW f \in BOOLEAN, DemonstrateCircuitBreaker(f) PROVE IInv'
  BY <1>1, <1>2, <1>5, DemonstrateInv DEF IInv, DemonstrateCircuitBreaker
<1>6. ASSUME NEW s \in Names, ResetRoute(s) PROVE IInv'
  BY <1>1, <1>2, <1>6, ResetInv DEF IInv, ResetRoute
<1>7. ASSUME NEW role, LogsRoute(role) PROVE IInv'
  BY <1>1, <1>2, <1>7, LogsInv DEF IInv, LogsRoute
<1>8. ASSUME NEW p \in Reports, DetailedCheck(p) PROVE IInv'
  BY <1>1, <1>2, <1>8, BeginKeepsHealth, EndsFits DEF IInv, DetailedCheck
<1>9. ASSUME NEW p \in Reports, HealthStep(p) PROVE IInv'
  BY <1>1, <1>9, CheckAnswersKeepsHealth, CheckFailsKeepsHealth, RetryKeepsHealth, EndsFits
     DEF IInv, HealthStep
<1>10. CASE Tick
  BY <1>1, <1>10, NothingKeepsHealth, HttpAssumption DEF IInv, Tick, RetryAfterFits
<1>11. CASE OtherCodeLogs
  BY <1>1, <1>11, NothingKeepsHealth DEF IInv, OtherCodeLogs, RetryAfterFits
<1>12. CASE UNCHANGED vars
  BY <1>1, <1>12, NothingKeepsHealth DEF IInv, vars, RetryAfterFits
<1>13. QED BY <1>3, <1>4, <1>5, <1>6, <1>7, <1>8, <1>9, <1>10, <1>11, <1>12 DEF Next

LEMMA SpecInv == Spec => []IInv
BY InitInv, NextInv, PTL DEF Spec

-----------------------------------------------------------------------------
(* An answer of 503, and of no 4xx, says to come back later, whatever was  *)
(* thrown (global-exception.filter.ts, catch and processException).        *)
THEOREM RetryAfterIsRight == Spec => []RetryAfterFits
<1>1. IInv => RetryAfterFits
  BY DEF IInv
<1>2. QED BY <1>1, SpecInv, PTL

LEMMA NonemptyCounts ==
    ASSUME NEW S, IsFiniteSet(S), S # {}
    PROVE  Cardinality(S) > 0
<1>1. Cardinality(S) \in Nat
  BY FS_CardinalityType
<1>2. Cardinality(S) # 0
  BY FS_EmptySet
<1>3. QED BY <1>1, <1>2

(* A finished report in which a breaker refused a check is not healthy,    *)
(* and shows that breaker open if it ran alone, though it read the         *)
(* breakers before the first check (health-check.service.ts,               *)
(* getHealthStatus).                                                       *)
THEOREM RefusalsShow == Spec => []RefusedShows
<1>1. IInv => RefusedShows
  <2> SUFFICES ASSUME IInv, NEW p \in Reports, NEW c \in CheckNames,
                      report[p].at = Finished, report[p].services[c] = "refused"
               PROVE  /\ DetermineOverallStatus(report[p].services) # "healthy"
                      /\ p \notin overlapped => report[p].shown[c] = "OPEN"
    BY DEF RefusedShows
  <2>1. p \notin overlapped => report[p].shown[c] = "OPEN"
    BY DEF IInv, HealthInv, Expected, Told
  <2>2. DetermineOverallStatus(report[p].services) # "healthy"
    <3> DEFINE D == {d \in CheckNames : report[p].services[d] \in {"down", "refused"}}
    <3>1. IsFiniteSet(CheckNames)
      <4>1. IsFiniteSet(1 .. Len(Checks))
        BY ChecksTyped, FS_Interval
      <4>2. PICK f : f = [k \in 1 .. Len(Checks) |-> Checks[k]]
        OBVIOUS
      <4>3. f \in Surjection(1 .. Len(Checks), CheckNames)
        BY <4>2, ChecksTyped DEF Surjection, CheckNames
      <4>4. QED BY <4>1, <4>3, FS_Surjection
    <3>2. IsFiniteSet(D) /\ D # {}
      BY <3>1, FS_Subset
    <3>3. Cardinality(D) > 0
      BY <3>2, NonemptyCounts
    <3> HIDE DEF D
    <3>4. QED BY <3>3 DEF DetermineOverallStatus, D
  <2>3. QED BY <2>1, <2>2
<1>2. QED BY <1>1, SpecInv, PTL

(* What a step does to the configuration of a guarded route. *)
KeepsGuard(r) == config'[r.service] \in {config[r.service], r.guard}

NamesNoGuard(e) ==
    e.class = "ExternalServiceException" => e.service \notin {"database", "redis"}

LEMMA GuardedServices ==
    ASSUME NEW r \in GuardedRoutes
    PROVE  /\ r.service \in {"database", "redis"} /\ NamesNoGuard(r.error)
           /\ \A q \in GuardedRoutes : q.service = r.service => q = r
BY GuardedThrow DEF GuardedRoutes, NamesNoGuard

LEMMA ReportKeepsGuards ==
    ASSUME HealthInv, NEW r \in GuardedRoutes, NEW p \in Reports, NEW v, NEW n \in 1 .. Finished,
           NEW b, ComeTo(p, v, n, b)
    PROVE  KeepsGuard(r)
<1>1. PICK m \in n .. Finished : m = Awaited(n)
  BY AwaitedIsFirst
<1>2. CASE m = Finished
  BY <1>1, <1>2 DEF ComeTo, KeepsGuard
<1>3. CASE m # Finished
  <2>1. Checks[m] \in CheckNames
    BY <1>1, <1>3, ChecksTyped
  <2>2. config' = [config EXCEPT ![Checks[m]] = IF @ = Absent THEN CheckConfig ELSE @]
    BY <1>1, <1>3 DEF ComeTo
  <2>3. Checks[m] # r.service
    BY <2>1, GuardedTyped
  <2>4. QED BY <2>2, <2>3, GuardedTyped DEF KeepsGuard, HealthInv, BreakersTyped
<1>4. QED BY <1>2, <1>3

LEMMA StepKeepsGuards ==
    ASSUME IInv, [Next]_vars, \A e \in Errors : NamesNoGuard(e), NEW r \in GuardedRoutes
    PROVE  KeepsGuard(r)
<1>1. /\ config \in [Names -> ConfigType \cup {Absent}] /\ HealthInv
      /\ r.service \in Names /\ r.service \in {"database", "redis"}
  BY GuardedTyped, GuardedServices DEF IInv, HealthInv, BreakersTyped
<1>2. ASSUME NEW e \in Errors, UnguardedRoute(e) PROVE KeepsGuard(r)
  BY <1>1, <1>2, HttpAssumption, LookedUpTyped DEF UnguardedRoute, KeepsGuard, NamesNoGuard
<1>3. ASSUME NEW q \in GuardedRoutes, GuardedRoute(q) PROVE KeepsGuard(r)
  <2>1. PICK c : c = Registered(config, q.service, q.guard)
    OBVIOUS
  <2>2. /\ c \in [Names -> ConfigType \cup {Absent}]
        /\ c[r.service] \in {config[r.service], r.guard}
    BY <1>1, <2>1, GuardedTyped, GuardedServices, RegisteredTyped
  <2>3. q.error.service \in Names /\ NamesNoGuard(q.error)
    BY GuardedTyped, GuardedThrow, GuardedServices, HttpAssumption
  <2>4. LookedUp(c, q.error)[r.service] = c[r.service]
    BY <1>1, <2>2, <2>3, LookedUpTyped DEF NamesNoGuard
  <2>5. config' = c \/ config' = LookedUp(c, q.error)
    BY <1>3, <2>1 DEF GuardedRoute
  <2>6. QED BY <2>2, <2>4, <2>5 DEF KeepsGuard
<1>4. ASSUME NEW f \in BOOLEAN, DemonstrateCircuitBreaker(f) PROVE KeepsGuard(r)
  <2>1. config' = Registered(config, "demo-service", DefaultConfig)
    BY <1>4 DEF DemonstrateCircuitBreaker
  <2>2. QED BY <1>1, <2>1, HttpAssumption, RegisteredTyped DEF KeepsGuard
<1>5. ASSUME NEW p \in Reports, DetailedCheck(p) PROVE KeepsGuard(r)
  <2>1. PICK v : ComeTo(p, v, 1, breaker)
    BY <1>5 DEF DetailedCheck, BeginReport
  <2>2. 1 \in 1 .. Finished
    BY ChecksTyped
  <2>3. QED BY <1>1, <2>1, <2>2, ReportKeepsGuards
<1>6. ASSUME NEW p \in Reports, HealthStep(p) PROVE KeepsGuard(r)
  <2>1. CASE UNCHANGED config
    BY <2>1 DEF KeepsGuard
  <2>2. CASE CheckAnswers(p) \/ CheckFails(p)
    <3>1. PICK n, v, b : n = report[p].at + 1 /\ ComeTo(p, v, n, b)
      BY <2>2 DEF CheckAnswers, CheckFails
    <3>2. n \in 1 .. Finished
      BY <2>2, <3>1, ChecksTyped DEF CheckAnswers, CheckFails, UnderWay
    <3>3. QED BY <1>1, <3>1, <3>2, ReportKeepsGuards
  <2>3. QED BY <1>6, <2>1, <2>2 DEF HealthStep, CheckWaits, CheckAgain
<1>7. CASE UNCHANGED config
  BY <1>7 DEF KeepsGuard
<1>8. QED BY <1>2, <1>3, <1>4, <1>5, <1>6, <1>7
          DEF Next, ResetRoute, LogsRoute, OtherCodeLogs, Tick, vars

(* A guarded route keeps the configuration of its decorator, as long as no *)
(* other handler throws an exception that carries the name of its breaker  *)
(* (circuit-breaker.interceptor.ts, intercept; global-exception.filter.ts, *)
(* handleExternalServiceException).                                        *)
THEOREM GuardsKeepConfigurations ==
    ASSUME \A e \in Errors : NamesNoGuard(e)
    PROVE  Spec => []GuardsKeepTheirConfig
<1>1. Init => GuardsKeepTheirConfig
  BY GuardedTyped DEF Init, GuardsKeepTheirConfig
<1>2. IInv /\ [Next]_vars /\ GuardsKeepTheirConfig => GuardsKeepTheirConfig'
  <2> SUFFICES ASSUME IInv, [Next]_vars, GuardsKeepTheirConfig, NEW r \in GuardedRoutes
               PROVE  config'[r.service] \in {Absent, r.guard}
    BY DEF GuardsKeepTheirConfig, GuardedRoutes
  <2>1. KeepsGuard(r)
    BY StepKeepsGuards
  <2>2. QED BY <2>1 DEF KeepsGuard, GuardsKeepTheirConfig
<1>3. QED BY <1>1, <1>2, SpecInv, PTL DEF Spec
-----------------------------------------------------------------------------
(* The log.  Its errors about requests are about those that failed, ... *)
ErrorsOfFailed ==
    /\ \A k \in DOMAIN logged : logged[k].level = "error" /\ logged[k].request # 0 =>
          logged[k].request \in 1 .. MaxRequests /\ outcome[logged[k].request] = "failed"
    /\ \A n \in 1 .. MaxRequests : outcome[n] = "failed" =>
          \E k \in DOMAIN logged : logged[k].level = "error" /\ logged[k].request = n

(* ... and none that is still to come or waits for its report has ended. *)
Pending ==
    /\ requests =< MaxRequests
    /\ \A n \in 1 .. MaxRequests : n > requests => outcome[n] = "none"
    /\ \A p \in Reports : UnderWay(p) =>
          report[p].request \in 1 .. requests /\ outcome[report[p].request] = "none"
    /\ \A p, q \in Reports : UnderWay(p) /\ UnderWay(q) /\ p # q =>
          report[p].request # report[q].request

Recorded ==
    /\ logged \in Seq(LogEntry) /\ reply \in Reply
    /\ outcome \in [1 .. MaxRequests -> Outcomes]
    /\ \A k \in DOMAIN logged : logged[k].timestamp =< now

LogInv == Recorded /\ ErrorsOfFailed /\ Pending

(* What the filter answers is typed, whatever was thrown. *)
Info(e) == [status : Nat, code : Codes \cup {e.code}, isRetryable : BOOLEAN]

LEMMA ErrorInfoTyped ==
    ASSUME NEW e, NEW status \in Nat, NEW code \in Codes \cup {e.code}, NEW retry \in BOOLEAN
    PROVE  ErrorInfo(status, code, retry) \in Info(e)
BY DEF ErrorInfo, Info

LEMMA InfoTyped ==
    ASSUME NEW e, Throwable(e)
    PROVE  ProcessException(e) \in Info(e)
<1>1. e.status \in Nat /\ e.isTemporary \in BOOLEAN
  BY DEF Throwable
<1>2. /\ {"BUSINESS_ERROR", "EXTERNAL_SERVICE_ERROR", "VALIDATION_ERROR", "AUTH_ERROR",
          "HTTP_EXCEPTION"} \subseteq Codes \cup {e.code}
      /\ \A default \in Codes : OrElse(e.code, default) \in Codes \cup {e.code}
  BY DEF Codes, OrElse
<1>3. /\ {"BUSINESS_ERROR", "EXTERNAL_SERVICE_ERROR", "VALIDATION_ERROR", "AUTH_ERROR"}
          \subseteq Codes
  BY DEF Codes
<1>4. HandleBusinessException(e) \in Info(e)
  BY <1>1, <1>2, <1>3, ErrorInfoTyped DEF HandleBusinessException
<1>5. HandleExternalServiceException(e) \in Info(e)
  BY <1>1, <1>2, <1>3, ErrorInfoTyped DEF HandleExternalServiceException
<1>6. HandleValidationException(e) \in Info(e)
  BY <1>1, <1>2, <1>3, ErrorInfoTyped DEF HandleValidationException
<1>7. HandleAuthException(e) \in Info(e)
  BY <1>1, <1>2, <1>3, ErrorInfoTyped DEF HandleAuthException
<1>8. HandleTypeORMException(e) \in Info(e)
  <2>1. PICK a, b, c : /\ a = ErrorInfo(400, "DATABASE_QUERY_FAILED", FALSE)
                       /\ b = ErrorInfo(404, "ENTITY_NOT_FOUND", FALSE)
                       /\ c = ErrorInfo(500, "DATABASE_ERROR", TRUE)
    OBVIOUS
  <2>2. HandleTypeORMException(e) \in {a, b, c}
    BY <2>1, Zenon DEF HandleTypeORMException
  <2>3. a \in Info(e) /\ b \in Info(e) /\ c \in Info(e)
    BY <2>1 DEF ErrorInfo, Info, Codes
  <2>4. QED BY <2>2, <2>3
<1>9. HandleHttpException(e) \in Info(e)
  <2>1. PICK retry \in BOOLEAN : retry <=> e.status >= 500
    OBVIOUS
  <2>2. HandleHttpException(e) = ErrorInfo(e.status, "HTTP_EXCEPTION", retry)
    BY <2>1 DEF HandleHttpException
  <2>3. QED BY <1>1, <1>2, <2>2, ErrorInfoTyped
<1>10. HandleSystemError(e) \in Info(e)
  <2>1. \/ HandleSystemError(e) = ErrorInfo(503, "CONNECTION_ERROR", TRUE)
        \/ HandleSystemError(e) = ErrorInfo(503, "RESOURCE_EXHAUSTED", TRUE)
        \/ HandleSystemError(e) = ErrorInfo(500, "SYSTEM_ERROR", FALSE)
    BY DEF HandleSystemError
  <2>2. /\ ErrorInfo(503, "CONNECTION_ERROR", TRUE) \in Info(e)
        /\ ErrorInfo(503, "RESOURCE_EXHAUSTED", TRUE) \in Info(e)
        /\ ErrorInfo(500, "SYSTEM_ERROR", FALSE) \in Info(e)
    BY DEF ErrorInfo, Info, Codes
  <2>3. QED BY <2>1, <2>2
<1>11. HandleUnknownException \in Info(e)
  BY DEF HandleUnknownException, ErrorInfo, Info, Codes
<1>12. QED BY <1>4, <1>5, <1>6, <1>7, <1>8, <1>9, <1>10, <1>11 DEF ProcessException

(* What is appended to the log, and what stays of it. *)
LEMMA Appended ==
    ASSUME NEW s \in Seq(LogEntry), NEW m \in Seq(LogEntry), NEW t, t = s \o m
    PROVE  /\ t \in Seq(LogEntry)
           /\ \A k \in DOMAIN s : k \in DOMAIN t /\ t[k] = s[k]
           /\ \A k \in DOMAIN t : k \in DOMAIN s
                                 \/ (k - Len(s) \in DOMAIN m /\ t[k] = m[k - Len(s)])
           /\ \A k \in DOMAIN m : /\ Len(s) + k \in DOMAIN t /\ Len(s) + k \notin DOMAIN s
                                  /\ t[Len(s) + k] = m[k]
<1>1. /\ t \in Seq(LogEntry) /\ Len(s) \in Nat /\ Len(m) \in Nat /\ Len(t) = Len(s) + Len(m)
      /\ DOMAIN s = 1 .. Len(s) /\ DOMAIN m = 1 .. Len(m) /\ DOMAIN t = 1 .. Len(t)
  OBVIOUS
<1>2. \A k \in 1 .. Len(s) + Len(m) : t[k] = IF k =< Len(s) THEN s[k] ELSE m[k - Len(s)]
  OBVIOUS
<1>3. ASSUME NEW k \in DOMAIN m
      PROVE  /\ Len(s) + k \in DOMAIN t /\ Len(s) + k \notin DOMAIN s
             /\ t[Len(s) + k] = m[k]
  <2>1. Len(s) + k \in 1 .. Len(s) + Len(m) /\ ~(Len(s) + k =< Len(s)) /\ (Len(s) + k) - Len(s) = k
    BY <1>1
  <2>2. QED BY <1>1, <1>2, <2>1
<1>4. ASSUME NEW k \in DOMAIN t
      PROVE  k \in DOMAIN s \/ (k - Len(s) \in DOMAIN m /\ t[k] = m[k - Len(s)])
  <2>1. k \in 1 .. Len(s) + Len(m)
    BY <1>1
  <2>2. k =< Len(s) => k \in 1 .. Len(s)
    BY <1>1, <2>1
  <2>3. ~(k =< Len(s)) => k - Len(s) \in 1 .. Len(m)
    BY <1>1, <2>1
  <2>4. QED BY <1>1, <1>2, <2>1, <2>2, <2>3
<1>5. ASSUME NEW k \in DOMAIN s
      PROVE  k \in DOMAIN t /\ t[k] = s[k]
  BY <1>1, <1>2
<1>6. QED BY <1>1, <1>3, <1>4, <1>5

Entries(m) == {m[k] : k \in DOMAIN m}

LEMMA EntriesJoined ==
    ASSUME NEW s \in Seq(LogEntry), NEW m \in Seq(LogEntry)
    PROVE  s \o m \in Seq(LogEntry) /\ Entries(s \o m) = Entries(s) \cup Entries(m)
<1>1. PICK t : t = s \o m
  OBVIOUS
<1>2. /\ t \in Seq(LogEntry)
      /\ \A k \in DOMAIN s : k \in DOMAIN t /\ t[k] = s[k]
      /\ \A k \in DOMAIN t : k \in DOMAIN s
                            \/ (k - Len(s) \in DOMAIN m /\ t[k] = m[k - Len(s)])
      /\ \A k \in DOMAIN m : Len(s) + k \in DOMAIN t /\ t[Len(s) + k] = m[k]
  BY <1>1, Appended
<1>3. Entries(t) \subseteq Entries(s) \cup Entries(m)
  BY <1>2 DEF Entries
<1>4. Entries(s) \subseteq Entries(t) /\ Entries(m) \subseteq Entries(t)
  BY <1>2 DEF Entries
<1>5. QED BY <1>1, <1>2, <1>3, <1>4

(* The entries m that are made when the request n ends with the outcome o: *)
(* those about it are errors if it failed, and only then.                  *)
OfRequest(m, n, o) ==
    /\ m \in Seq(LogEntry)
    /\ \A x \in Entries(m) :
          /\ x.timestamp = now
          /\ x.level = "error" /\ x.request # 0 => x.request = n /\ o = "failed"
    /\ o = "failed" => \E x \in Entries(m) : x.level = "error" /\ x.request = n

LEMMA EntriesRecorded ==
    ASSUME Recorded, ErrorsOfFailed, now \in Nat, now' = now, reply' \in Reply,
           NEW n \in 1 .. MaxRequests, outcome[n] = "none", NEW o \in {"ok", "failed"},
           NEW m, OfRequest(m, n, o), logged' = logged \o m,
           outcome' = [outcome EXCEPT ![n] = o]
    PROVE  Recorded' /\ ErrorsOfFailed'
<1>1. /\ logged' \in Seq(LogEntry)
      /\ \A k \in DOMAIN logged : k \in DOMAIN logged' /\ logged'[k] = logged[k]
      /\ \A k \in DOMAIN logged' : k \in DOMAIN logged
              \/ (k - Len(logged) \in DOMAIN m /\ logged'[k] = m[k - Len(logged)])
      /\ \A k \in DOMAIN m : /\ Len(logged) + k \in DOMAIN logged'
                             /\ logged'[Len(logged) + k] = m[k]
  <2>1. logged \in Seq(LogEntry) /\ m \in Seq(LogEntry)
    BY DEF Recorded, OfRequest
  <2>2. PICK t : t = logged' /\ t = logged \o m
    OBVIOUS
  <2>3. QED BY ONLY <2>1, <2>2, Appended
<1>2. \A k \in DOMAIN logged' : k \in DOMAIN logged \/ logged'[k] \in Entries(m)
  BY <1>1 DEF Entries
<1>3. ASSUME NEW x \in Entries(m) PROVE \E k \in DOMAIN logged' : logged'[k] = x
  <2>1. PICK k \in DOMAIN m : m[k] = x
    BY DEF Entries
  <2>2. PICK j : j = Len(logged) + k
    OBVIOUS
  <2>3. j \in DOMAIN logged' /\ logged'[j] = x
    BY <1>1, <2>1, <2>2
  <2>4. QED BY <2>3
<1>4. \A i \in 1 .. MaxRequests : outcome'[i] = IF i = n THEN o ELSE outcome[i]
  BY DEF Recorded
<1>5. Recorded'
  <2>1. outcome' \in [1 .. MaxRequests -> Outcomes]
    BY DEF Recorded, Outcomes
  <2>2. ASSUME NEW k \in DOMAIN logged' PROVE logged'[k].timestamp =< now
    <3>1. CASE k \in DOMAIN logged
      BY <1>1, <3>1 DEF Recorded
    <3>2. CASE logged'[k] \in Entries(m)
      <4>1. logged'[k].timestamp = now
        BY <3>2 DEF OfRequest
      <4>2. QED BY <4>1
    <3>3. QED BY <1>2, <3>1, <3>2
  <2>3. QED BY <1>1, <2>1, <2>2 DEF Recorded, Reply
<1>6. ErrorsOfFailed'
  <2>1. ASSUME NEW k \in DOMAIN logged', logged'[k].level = "error", logged'[k].request # 0
        PROVE  logged'[k].request \in 1 .. MaxRequests /\ outcome'[logged'[k].request] = "failed"
    <3>1. CASE k \in DOMAIN logged
      BY <1>1, <1>4, <2>1, <3>1 DEF ErrorsOfFailed
    <3>2. CASE logged'[k] \in Entries(m)
      BY <1>4, <2>1, <3>2 DEF OfRequest
    <3>3. QED BY <1>2, <3>1, <3>2
  <2>2. ASSUME NEW i \in 1 .. MaxRequests, outcome'[i] = "failed"
        PROVE  \E k \in DOMAIN logged' : logged'[k].level = "error" /\ logged'[k].request = i
    <3>1. CASE i = n
      <4>1. PICK x \in Entries(m) : x.level = "error" /\ x.request = n
        BY <1>4, <2>2, <3>1 DEF OfRequest
      <4>2. QED BY <1>3, <3>1, <4>1
    <3>2. CASE i # n
      BY <1>1, <1>4, <2>2, <3>2 DEF ErrorsOfFailed
    <3>3. QED BY <3>1, <3>2
  <2>3. QED BY <2>1, <2>2 DEF ErrorsOfFailed
<1>7. QED BY <1>5, <1>6

(* Other code logs an entry about no request. *)
LEMMA OtherRecorded ==
    ASSUME Recorded, ErrorsOfFailed, now \in Nat, UNCHANGED <<now, reply, outcome>>,
           NEW e \in LogEntry, e.request = 0, e.timestamp = now, logged' = Append(logged, e)
    PROVE  Recorded' /\ ErrorsOfFailed'
<1>1. /\ logged' \in Seq(LogEntry)
      /\ \A k \in DOMAIN logged : k \in DOMAIN logged' /\ logged'[k] = logged[k]
      /\ \A k \in DOMAIN logged' : k \in DOMAIN logged \/ logged'[k] = e
  BY DEF Recorded
<1>2. \A k \in DOMAIN logged' : logged'[k].timestamp =< now
  BY <1>1 DEF Recorded
<1>3. Recorded'
  BY <1>1, <1>2 DEF Recorded, Reply
<1>4. ErrorsOfFailed'
  BY <1>1 DEF ErrorsOfFailed
<1>5. QED BY <1>3, <1>4

Line(e, i) == e \in LogEntry /\ e.request = i /\ e.timestamp = now

LEMMA EntryTyped ==
    ASSUME now \in Nat, NEW level \in Levels, NEW module \in Modules, NEW i \in Nat,
           NEW e, e = EntryOf(level, module, i)
    PROVE  Line(e, i) /\ e.level = level
BY DEF EntryOf, LogEntry, Line

LEMMA LinesTyped ==
    ASSUME now \in Nat, NEW n \in Nat
    PROVE  /\ Line(LogHttpRequest(n), n) /\ LogHttpRequest(n).level = "info"
           /\ Line(LogPerformance(n), n) /\ LogPerformance(n).level = "info"
           /\ Line(LogError("HTTP Request", n), n)
           /\ LogError("HTTP Request", n).level = "error"
           /\ Line(LogError("GlobalExceptionFilter", n), n)
           /\ LogError("GlobalExceptionFilter", n).level = "error"
           /\ Line(Log("error", "GlobalExceptionFilter", n), n)
           /\ Log("error", "GlobalExceptionFilter", n).level = "error"
<1>1. /\ {"error", "info"} \subseteq Levels
      /\ {"HTTP Request", "GlobalExceptionFilter", "HTTP", "Performance"} \subseteq Modules
  BY QueryAssumption DEF Modules
<1>2. Line(LogHttpRequest(n), n) /\ LogHttpRequest(n).level = "info"
  BY <1>1, EntryTyped DEF LogHttpRequest
<1>3. Line(LogPerformance(n), n) /\ LogPerformance(n).level = "info"
  BY <1>1, EntryTyped DEF LogPerformance
<1>4. Line(LogError("HTTP Request", n), n) /\ LogError("HTTP Request", n).level = "error"
  BY <1>1, EntryTyped DEF LogError
<1>5. /\ Line(LogError("GlobalExceptionFilter", n), n)
      /\ LogError("GlobalExceptionFilter", n).level = "error"
  BY <1>1, EntryTyped DEF LogError
<1>6. /\ Line(Log("error", "GlobalExceptionFilter", n), n)
      /\ Log("error", "GlobalExceptionFilter", n).level = "error"
  BY <1>1, EntryTyped DEF Log
<1>7. QED BY <1>2, <1>3, <1>4, <1>5, <1>6

LEMMA OtherLinesTyped ==
    ASSUME now \in Nat, NEW e \in {QueryFailed, StatsFailed} \cup OtherEntries
    PROVE  Line(e, 0)
<1>1. /\ {"error", "info"} \subseteq Levels
      /\ {"Bootstrap", "none", "LoggingService.queryLogs", "LoggingService.getLogStats"}
            \subseteq Modules
  BY QueryAssumption DEF Modules
<1>2. CASE e = QueryFailed
  BY <1>1, <1>2, EntryTyped DEF QueryFailed, LogError
<1>3. CASE e = StatsFailed
  BY <1>1, <1>3, EntryTyped DEF StatsFailed, LogError
<1>4. CASE e \in OtherEntries
  <2>1. PICK level, module : /\ level \in Levels /\ module \in Modules
                             /\ e = EntryOf(level, module, 0)
    BY <1>1, <1>4 DEF OtherEntries, Log
  <2>2. QED BY <2>1, EntryTyped
<1>5. QED BY <1>2, <1>3, <1>4

AtMost(t, b) == t = <<>> \/ t = <<b>>

Before(t, n) == AtMost(t, LogError("HTTP Request", n))

LEMMA AtMostTyped ==
    ASSUME NEW t, NEW b \in LogEntry, AtMost(t, b)
    PROVE  t \in Seq(LogEntry) /\ Entries(t) \subseteq {b}
<1>1. CASE t = <<>>
  BY <1>1 DEF Entries
<1>2. CASE t = <<b>>
  BY <1>2 DEF Entries
<1>3. QED BY <1>1, <1>2 DEF AtMost

LEMMA AnswerRecorded ==
    ASSUME Recorded, ErrorsOfFailed, now \in Nat, now' = now,
           NEW n \in 1 .. MaxRequests, outcome[n] = "none",
           NEW f, Line(f, 0), NEW before, AtMost(before, f), NEW since, AnswerAfter(n, since, before)
    PROVE  Recorded' /\ ErrorsOfFailed'
<1>1. PICK a, b : a = LogHttpRequest(n) /\ b = LogPerformance(n)
  OBVIOUS
<1>2. n \in Nat
  BY HttpAssumption
<1>3. Line(a, n) /\ a.level = "info" /\ Line(b, n) /\ b.level = "info"
  BY <1>1, <1>2, LinesTyped
<1>4. PICK s, t : s = <<a>> /\ AtMost(t, b) /\ logged' = ((logged \o before) \o s) \o t
  BY <1>1 DEF AnswerAfter, AtMost
<1>5. /\ logged \in Seq(LogEntry) /\ before \in Seq(LogEntry)
      /\ s \in Seq(LogEntry) /\ t \in Seq(LogEntry)
      /\ Entries(before) \subseteq {f} /\ Entries(s) \subseteq {a} /\ Entries(t) \subseteq {b}
  <2>1. AtMost(s, a)
    BY <1>4 DEF AtMost
  <2>2. QED BY <1>3, <1>4, <2>1, AtMostTyped DEF Recorded, Line
<1>6. PICK r : r = before \o s
  OBVIOUS
<1>7. r \in Seq(LogEntry) /\ Entries(r) \subseteq {f, a}
  <2>1. before \o s \in Seq(LogEntry) /\ Entries(before \o s) = Entries(before) \cup Entries(s)
    BY <1>5, EntriesJoined
  <2>2. QED BY <1>5, <1>6, <2>1
<1>8. PICK m : m = r \o t /\ logged' = logged \o m
  <2>1. (logged \o before) \o s = logged \o (before \o s)
    BY ONLY <1>5, ConcatAssociative
  <2>2. (logged \o r) \o t = logged \o (r \o t)
    BY ONLY <1>5, <1>7, ConcatAssociative
  <2>3. QED BY ONLY <1>4, <1>6, <2>1, <2>2
<1>9. m \in Seq(LogEntry) /\ Entries(m) \subseteq {f, a, b}
  <2>1. r \o t \in Seq(LogEntry) /\ Entries(r \o t) = Entries(r) \cup Entries(t)
    BY <1>5, <1>7, EntriesJoined
  <2>2. QED BY <1>5, <1>7, <1>8, <2>1
<1>10. OfRequest(m, n, "ok")
  BY <1>3, <1>9 DEF OfRequest, Line
<1>11. reply' \in Reply /\ outcome' = [outcome EXCEPT ![n] = "ok"]
  BY DEF AnswerAfter, Reply, Codes
<1>12. QED BY <1>8, <1>10, <1>11, EntriesRecorded

LEMMA CatchRecorded ==
    ASSUME Recorded, ErrorsOfFailed, now \in Nat, now' = now,
           NEW n \in 1 .. MaxRequests, outcome[n] = "none",
           NEW e, Throwable(e), e \in Errors \/ e.code \in Codes,
           NEW before, Before(before, n), Catch(n, e, before)
    PROVE  Recorded' /\ ErrorsOfFailed'
<1>1. PICK a, b, c : /\ a = LogError("HTTP Request", n)
                     /\ b = LogError("GlobalExceptionFilter", n)
                     /\ c = Log("error", "GlobalExceptionFilter", n)
  OBVIOUS
<1>2. n \in Nat
  BY HttpAssumption
<1>3. /\ Line(a, n) /\ Line(b, n) /\ Line(c, n)
      /\ a.level = "error" /\ b.level = "error" /\ c.level = "error"
  BY <1>1, <1>2, LinesTyped
<1>4. PICK s, t : /\ AtMost(s, a) /\ t = <<b, c>> /\ logged' = (logged \o s) \o t
  BY <1>1 DEF Catch, FilterLogs, Before
<1>5. logged \in Seq(LogEntry) /\ s \in Seq(LogEntry) /\ Entries(s) \subseteq {a}
  BY <1>3, <1>4, AtMostTyped DEF Recorded, Line
<1>6. t \in Seq(LogEntry) /\ Entries(t) = {b, c}
  BY <1>3, <1>4 DEF Entries, Line
<1>7. PICK m : m = s \o t /\ logged' = logged \o m
  <2>1. (logged \o s) \o t = logged \o (s \o t)
    BY ONLY <1>5, <1>6, ConcatAssociative
  <2>2. QED BY ONLY <1>4, <2>1
<1>8. m \in Seq(LogEntry) /\ Entries(m) \subseteq {a, b, c} /\ b \in Entries(m)
  BY <1>5, <1>6, <1>7, EntriesJoined
<1>9. OfRequest(m, n, "failed")
  BY <1>3, <1>8 DEF OfRequest, Line
<1>10. reply' \in Reply /\ outcome' = [outcome EXCEPT ![n] = "failed"]
  <2>1. PICK info : info = ProcessException(e) /\ info \in Info(e)
    BY InfoTyped
  <2>2. reply' = [status |-> info.status, code |-> info.code, retryAfter |-> info.isRetryable]
    BY <2>1 DEF Catch
  <2>3. info.status \in Nat /\ info.isRetryable \in BOOLEAN /\ info.code \in Codes \cup {e.code}
    BY <2>1 DEF Info
  <2>4. PICK C : C = Codes \cup {x.code : x \in Errors}
    OBVIOUS
  <2>5. e.code \in C /\ info.code \in C
    BY <2>3, <2>4
  <2>6. reply' \in [status : Nat, code : C, retryAfter : BOOLEAN]
    BY <2>2, <2>3, <2>5
  <2>7. QED BY <2>4, <2>6 DEF Reply, Catch
<1>11. QED BY <1>7, <1>9, <1>10, EntriesRecorded

(* The bound counts requests, and entries about none. *)
LEMMA BoundCounts ==
    ASSUME Recorded, requests \in Nat, WithinBound
    PROVE  requests < MaxRequests
<1> DEFINE others == {k \in DOMAIN logged : logged[k].request = 0}
<1>1. IsFiniteSet(DOMAIN logged)
  <2>1. DOMAIN logged = 1 .. Len(logged) /\ Len(logged) \in Nat
    BY DEF Recorded
  <2>2. QED BY <2>1, FS_Interval
<1>2. Cardinality(others) \in Nat
  BY <1>1, FS_Subset, FS_CardinalityType
<1>3. requests + Cardinality(others) < MaxRequests
  BY DEF WithinBound
<1> HIDE DEF others
<1>4. QED BY <1>2, <1>3, HttpAssumption

LEMMA AnsweredAlone ==
    ASSUME Recorded, ErrorsOfFailed, now \in Nat, now' = now,
           NEW n \in 1 .. MaxRequests, outcome[n] = "none", NEW since, Answer(n, since)
    PROVE  Recorded' /\ ErrorsOfFailed'
<1>1. PICK f, before : f = QueryFailed /\ before = <<>> /\ AnswerAfter(n, since, before)
  BY DEF Answer
<1>2. Line(f, 0)
  BY <1>1, OtherLinesTyped
<1>3. AtMost(before, f)
  BY <1>1 DEF AtMost
<1>4. QED BY <1>1, <1>2, <1>3, AnswerRecorded

(* A request that is answered at once. *)
LEMMA ArrivalPends ==
    ASSUME Pending, Recorded, requests \in Nat, Arrives, UNCHANGED report,
           NEW o, outcome' = [outcome EXCEPT ![This] = o]
    PROVE  /\ Pending'
           /\ This \in 1 .. MaxRequests /\ outcome[This] = "none"
<1>1. This \in 1 .. MaxRequests /\ This > requests /\ requests' = requests + 1 /\ This = requests + 1
  BY BoundCounts, HttpAssumption DEF This, Arrives
<1>2. \A i \in 1 .. MaxRequests : i # This => outcome'[i] = outcome[i]
  BY DEF Recorded
<1>3. \A p \in Reports : UnderWay(p)' = UnderWay(p)
  BY DEF UnderWay
<1>4. \A p \in Reports : UnderWay(p) => report[p].request \in 1 .. MaxRequests
                                      /\ report[p].request # This
  BY <1>1, HttpAssumption DEF Pending
<1>5. QED BY <1>1, <1>2, <1>3, <1>4, HttpAssumption DEF Pending

LEMMA NowherePends ==
    ASSUME Pending, UNCHANGED <<report, outcome, requests>>
    PROVE  Pending'
BY DEF Pending, UnderWay

(* What a report does with its request. *)
LEMMA ComeToKeepsRequest ==
    ASSUME NEW p \in Reports, NEW r \in Report, NEW n \in 1 .. Finished, NEW b, ComeTo(p, r, n, b)
    PROVE  \E e : /\ report' = [report EXCEPT ![p] = e]
                  /\ e.at \in 1 .. Finished /\ e.request = r.request
<1>1. PICK m : m = Awaited(n)
  OBVIOUS
<1>2. PICK sv, e : /\ e = [r EXCEPT !.at = m, !.tries = 1, !.asleep = FALSE, !.services = sv]
                   /\ report' = [report EXCEPT ![p] = e]
  BY <1>1 DEF ComeTo
<1>3. e = [at |-> m, tries |-> 1, asleep |-> FALSE, shown |-> r.shown,
           services |-> sv, since |-> r.since, request |-> r.request]
  BY <1>2, ReportUpdated DEF Report
<1>4. m \in 1 .. Finished
  BY <1>1, AwaitedIsFirst, ChecksTyped
<1>5. e.at \in 1 .. Finished /\ e.request = r.request
  BY <1>3, <1>4
<1>6. QED BY <1>2, <1>5

(* Steps of reports.  One that begins has a request of its own; one that   *)
(* goes on keeps its request, and ends it at most once. *)
LEMMA EndRecorded ==
    ASSUME Recorded, ErrorsOfFailed, now \in Nat, now' = now, NEW p \in Reports,
           report'[p].request \in 1 .. MaxRequests, outcome[report'[p].request] = "none",
           EndsWith(p)
    PROVE  /\ Recorded' /\ ErrorsOfFailed'
           /\ \A i \in 1 .. MaxRequests : outcome'[i] = outcome[i]
                 \/ (i = report'[p].request /\ report'[p].at = Finished)
<1>1. CASE report'[p].at = Finished
  <2>1. PICK n : n = report'[p].request
    OBVIOUS
  <2>2. Answer(n, report'[p].since)
    BY <1>1, <2>1 DEF EndsWith
  <2>3. Recorded' /\ ErrorsOfFailed'
    BY <2>1, <2>2, AnsweredAlone
  <2>4. outcome' = [outcome EXCEPT ![n] = "ok"]
    BY <2>2 DEF Answer, AnswerAfter
  <2>5. QED BY <1>1, <2>1, <2>3, <2>4 DEF Recorded
<1>2. CASE report'[p].at # Finished
  <2>1. UNCHANGED <<reply, logged, outcome>>
    BY <1>2 DEF EndsWith
  <2>2. Recorded'
    BY <2>1 DEF Recorded, Reply
  <2>3. ErrorsOfFailed'
    BY <2>1 DEF ErrorsOfFailed
  <2>4. QED BY <2>1, <2>2, <2>3
<1>3. QED BY <1>1, <1>2

LEMMA BeginRecorded ==
    ASSUME HealthInv, LogInv, now \in Nat, requests \in Nat, NEW p \in Reports, DetailedCheck(p)
    PROVE  LogInv'
<1>1. /\ This \in 1 .. MaxRequests /\ This = requests + 1 /\ requests' = requests + 1
      /\ outcome[This] = "none" /\ ~UnderWay(p) /\ requests < MaxRequests
  BY BoundCounts, HttpAssumption DEF This, Arrives, DetailedCheck, BeginReport, LogInv, Pending
<1>2. PICK e : /\ report' = [report EXCEPT ![p] = e]
               /\ e.at \in 1 .. Finished /\ e.request = This
  <2>1. PICK sh : sh = [c \in CheckNames |-> Shown(c)]
    OBVIOUS
  <2>2. PICK r : /\ r = [NoReport EXCEPT !.shown = sh, !.since = now, !.request = This]
                 /\ ComeTo(p, r, 1, breaker)
    BY <2>1 DEF DetailedCheck, BeginReport
  <2>3. r = [at |-> 0, tries |-> 1, asleep |-> FALSE, shown |-> sh,
             services |-> [c \in CheckNames |-> "none"], since |-> now, request |-> This]
    BY <2>2 DEF NoReport
  <2>4. sh \in [CheckNames -> States \cup {"none"}]
    BY <2>1, ChecksTyped DEF Shown, HealthInv, BreakersTyped, Breaker
  <2>5. r \in Report /\ r.request = This
    BY <1>1, <2>3, <2>4, ChecksTyped DEF Report
  <2>6. 1 \in 1 .. Finished
    BY ChecksTyped
  <2>7. PICK b, n : b = breaker /\ n = 1
    OBVIOUS
  <2>8. ComeTo(p, r, n, b)
    BY <2>2, <2>7
  <2>9. \E e : /\ report' = [report EXCEPT ![p] = e]
               /\ e.at \in 1 .. Finished /\ e.request = r.request
    BY ONLY <2>5, <2>6, <2>7, <2>8, ComeToKeepsRequest
  <2>10. QED BY <2>5, <2>9
<1>3. \A q \in Reports : report'[q] = IF q = p THEN e ELSE report[q]
  BY <1>2 DEF HealthInv, BreakersTyped
<1>4. /\ Recorded' /\ ErrorsOfFailed'
      /\ \A i \in 1 .. MaxRequests : outcome'[i] = outcome[i] \/ (i = This /\ e.at = Finished)
  BY <1>1, <1>2, <1>3, EndRecorded DEF DetailedCheck, LogInv
<1>5. UnderWay(p)' => e.at # Finished
  BY <1>3, ChecksTyped DEF UnderWay
<1>6. \A q \in Reports : q # p => UnderWay(q)' = UnderWay(q)
  BY <1>3 DEF UnderWay
<1>7. \A q \in Reports : UnderWay(q) => report[q].request \in 1 .. requests
  BY DEF LogInv, Pending
<1>8. Pending'
  <2>1. \A i \in 1 .. MaxRequests : i > requests + 1 => outcome'[i] = "none"
    BY <1>1, <1>4 DEF LogInv, Pending
  <2>2. ASSUME NEW q \in Reports, UnderWay(q)'
        PROVE  /\ report'[q].request \in 1 .. requests + 1
               /\ outcome'[report'[q].request] = "none"
               /\ q # p => UnderWay(q) /\ report'[q].request \in 1 .. requests
    <3>1. CASE q = p
      BY <1>1, <1>2, <1>3, <1>4, <1>5, <2>2, <3>1
    <3>2. CASE q # p
      <4>1. UnderWay(q) /\ report'[q] = report[q] /\ report[q].request \in 1 .. requests
        BY <1>3, <1>6, <1>7, <2>2, <3>2
      <4>2. report[q].request \in 1 .. MaxRequests /\ report[q].request # This
        BY <1>1, <4>1, HttpAssumption
      <4>3. outcome'[report[q].request] = "none"
        BY <1>4, <4>1, <4>2 DEF LogInv, Pending
      <4>4. QED BY <4>1, <4>3
    <3>3. QED BY <3>1, <3>2
  <2>3. ASSUME NEW q \in Reports, NEW s \in Reports, UnderWay(q)', UnderWay(s)', q # s
        PROVE  report'[q].request # report'[s].request
    <3>1. CASE q # p /\ s # p
      BY <1>3, <1>6, <2>3, <3>1 DEF LogInv, Pending
    <3>2. CASE q = p
      BY <1>1, <1>2, <1>3, <2>2, <2>3, <3>2
    <3>3. CASE s = p
      BY <1>1, <1>2, <1>3, <2>2, <2>3, <3>3
    <3>4. QED BY <3>1, <3>2, <3>3
  <2>4. QED BY <1>1, <2>1, <2>2, <2>3 DEF Pending
<1>9. QED BY <1>4, <1>8 DEF LogInv

LEMMA StepRecorded ==
    ASSUME HealthInv, LogInv, now \in Nat, requests \in Nat,
           NEW p \in Reports, HealthStep(p)
    PROVE  LogInv'
<1>1. UnderWay(p) /\ requests' = requests /\ now' = now /\ report[p] \in Report
  BY DEF HealthStep, CheckAnswers, CheckFails, CheckWaits, CheckAgain, HealthInv, BreakersTyped
<1>2. PICK e : report' = [report EXCEPT ![p] = e] /\ e.request = report[p].request
  <2>1. CASE CheckAnswers(p) \/ CheckFails(p)
    <3>1. PICK c, a, b, r, n : /\ a \in Statuses /\ r = [report[p] EXCEPT !.services[c] = a]
                               /\ ComeTo(p, r, n, b) /\ n = report[p].at + 1
      <4>1. CASE CheckAnswers(p)
        BY <4>1 DEF CheckAnswers
      <4>2. CASE CheckFails(p)
        <5>1. PICK b : ComeTo(p, [report[p] EXCEPT !.services[Checks[report[p].at]] = "down"],
                              report[p].at + 1, b)
          BY <4>2 DEF CheckFails
        <5>2. QED BY <5>1 DEF Statuses
      <4>3. QED BY <2>1, <4>1, <4>2
    <3>2. r \in Report /\ r.request = report[p].request
      BY <1>1, <3>1 DEF Report
    <3>3. n \in 1 .. Finished
      BY <1>1, <3>1, ChecksTyped DEF UnderWay
    <3>4. \E e : /\ report' = [report EXCEPT ![p] = e]
                 /\ e.at \in 1 .. Finished /\ e.request = r.request
      BY ONLY <3>1, <3>2, <3>3, ComeToKeepsRequest
    <3>5. QED BY <3>2, <3>4
  <2>2. CASE CheckWaits(p)
    <3>1. PICK e : /\ e = [report[p] EXCEPT !.asleep = TRUE]
                   /\ report' = [report EXCEPT ![p] = e]
      BY <2>2 DEF CheckWaits
    <3>2. e.request = report[p].request
      BY <1>1, <3>1 DEF Report
    <3>3. QED BY <3>1, <3>2
  <2>3. CASE CheckAgain(p)
    <3>1. PICK d, e : /\ d = [report[p] EXCEPT !.asleep = FALSE]
                      /\ e = [d EXCEPT !.tries = @ + 1]
                      /\ report' = [report EXCEPT ![p] = e]
      BY <1>1, <2>3 DEF CheckAgain, HealthInv, BreakersTyped, Report
    <3>2. e.request = report[p].request
      BY <1>1, <3>1 DEF Report
    <3>3. QED BY <3>1, <3>2
  <2>4. QED BY <2>1, <2>2, <2>3 DEF HealthStep
<1>3. \A q \in Reports : report'[q] = IF q = p THEN e ELSE report[q]
  BY <1>2 DEF HealthInv, BreakersTyped
<1>4. report[p].request \in 1 .. MaxRequests /\ outcome[report[p].request] = "none"
  BY <1>1, HttpAssumption DEF LogInv, Pending
<1>5. /\ Recorded' /\ ErrorsOfFailed'
      /\ \A i \in 1 .. MaxRequests : outcome'[i] = outcome[i]
            \/ (i = report[p].request /\ e.at = Finished)
  BY <1>1, <1>2, <1>3, <1>4, EndRecorded DEF HealthStep, LogInv
<1>6. UnderWay(p)' => e.at # Finished
  BY <1>3, ChecksTyped DEF UnderWay
<1>7. \A q \in Reports : q # p => UnderWay(q)' = UnderWay(q)
  BY <1>3 DEF UnderWay
<1>8. Pending'
  <2>1. \A i \in 1 .. MaxRequests : i > requests => outcome'[i] = "none"
    BY <1>1, <1>5 DEF LogInv, Pending
  <2>2. ASSUME NEW q \in Reports, UnderWay(q)'
        PROVE  report'[q].request \in 1 .. requests /\ outcome'[report'[q].request] = "none"
    <3>1. UnderWay(q) /\ report'[q].request = report[q].request
      BY <1>1, <1>2, <1>3, <1>7, <2>2
    <3>2. report[q].request \in 1 .. MaxRequests
      BY <3>1, HttpAssumption DEF LogInv, Pending
    <3>3. q # p => report[q].request # report[p].request
      BY <1>1, <3>1 DEF LogInv, Pending
    <3>4. q = p => e.at # Finished
      BY <1>6, <2>2
    <3>5. outcome'[report[q].request] = outcome[report[q].request]
      BY <1>5, <3>2, <3>3, <3>4
    <3>6. QED BY <3>1, <3>5 DEF LogInv, Pending
  <2>3. ASSUME NEW q \in Reports, NEW s \in Reports, UnderWay(q)', UnderWay(s)', q # s
        PROVE  report'[q].request # report'[s].request
    BY <1>1, <1>2, <1>3, <1>7, <2>3 DEF LogInv, Pending
  <2>4. QED BY <1>1, <2>1, <2>2, <2>3 DEF LogInv, Pending
<1>9. QED BY <1>5, <1>8 DEF LogInv

LEMMA InitLog == Init => LogInv
<1> SUFFICES ASSUME Init PROVE LogInv
  OBVIOUS
<1>1. /\ requests = 0 /\ outcome \in [1 .. MaxRequests -> Outcomes]
      /\ \A n \in 1 .. MaxRequests : outcome[n] = "none"
  BY DEF Init, Outcomes
<1>2. \A p \in Reports : ~UnderWay(p)
  <2>1. NoReport.at = 0
    BY DEF NoReport
  <2>2. \A p \in Reports : report[p] = NoReport
    BY DEF Init, HealthInit
  <2>3. QED BY <2>1, <2>2 DEF UnderWay
<1>3. logged \in Seq(LogEntry) /\ DOMAIN logged = {}
  <2>1. logged = <<>>
    BY DEF Init
  <2>2. QED BY <2>1
<1>4. Recorded /\ ErrorsOfFailed
  <2>1. reply = [status |-> 0, code |-> "", retryAfter |-> FALSE]
    BY DEF Init
  <2>2. reply \in Reply
    BY <2>1 DEF Reply, Codes
  <2>3. QED BY <1>1, <1>3, <2>2 DEF Recorded, ErrorsOfFailed
<1>5. Pending
  BY <1>1, <1>2, HttpAssumption DEF Pending
<1>6. QED BY <1>4, <1>5 DEF LogInv

(* Requests that are answered at once. *)
LEMMA AnsweredRecorded ==
    ASSUME LogInv, now \in Nat, now' = now, requests \in Nat, Arrives, UNCHANGED report,
           NEW f \in {QueryFailed, StatsFailed}, NEW before, AtMost(before, f),
           NEW since, AnswerAfter(This, since, before)
    PROVE  LogInv'
<1>1. outcome' = [outcome EXCEPT ![This] = "ok"]
  BY DEF AnswerAfter
<1>2. Pending' /\ This \in 1 .. MaxRequests /\ outcome[This] = "none"
  BY <1>1, ArrivalPends DEF LogInv
<1>3. PICK n : n = This
  OBVIOUS
<1>4. Line(f, 0)
  BY OtherLinesTyped
<1>5. Recorded' /\ ErrorsOfFailed'
  BY <1>2, <1>3, <1>4, AnswerRecorded DEF LogInv
<1>6. QED BY <1>2, <1>5 DEF LogInv

LEMMA AnsweredAtOnce ==
    ASSUME LogInv, now \in Nat, now' = now, requests \in Nat, Arrives, UNCHANGED report,
           NEW since, Answer(This, since)
    PROVE  LogInv'
<1>1. PICK before : before = <<>> /\ AnswerAfter(This, since, before)
  BY DEF Answer
<1>2. AtMost(before, QueryFailed)
  BY <1>1 DEF AtMost
<1>3. QED BY <1>1, <1>2, AnsweredRecorded

LEMMA CaughtRecorded ==
    ASSUME LogInv, now \in Nat, now' = now, requests \in Nat, Arrives, UNCHANGED report,
           NEW e, Throwable(e), e \in Errors \/ e.code \in Codes,
           NEW before, Before(before, This), Catch(This, e, before)
    PROVE  LogInv'
<1>1. outcome' = [outcome EXCEPT ![This] = "failed"]
  BY DEF Catch
<1>2. Pending' /\ This \in 1 .. MaxRequests /\ outcome[This] = "none"
  BY <1>1, ArrivalPends DEF LogInv
<1>3. PICK n : n = This
  OBVIOUS
<1>4. Recorded' /\ ErrorsOfFailed'
  BY <1>2, <1>3, CatchRecorded DEF LogInv
<1>5. QED BY <1>2, <1>4 DEF LogInv

LEMMA ThrownRecorded ==
    ASSUME LogInv, now \in Nat, now' = now, requests \in Nat, Arrives, UNCHANGED report,
           NEW e, Throwable(e), e \in Errors \/ e.code \in Codes, Throws(This, e)
    PROVE  LogInv'
<1>1. PICK before : Before(before, This) /\ Catch(This, e, before)
  BY DEF Throws, Before, AtMost
<1>2. QED BY <1>1, CaughtRecorded

LEMMA HandlersCodes ==
    /\ DatabaseException.code \in Codes /\ RedisException.code \in Codes
    /\ PlainError("Circuit breaker is OPEN").code \in Codes
    /\ HttpException(401).code \in Codes /\ HttpException(403).code \in Codes
BY DEF DatabaseException, RedisException, ExternalServiceException, PlainError, HttpException,
       Thrown, Codes

LEMMA NextLog == IInv /\ LogInv /\ [Next]_vars => LogInv'
<1> SUFFICES ASSUME IInv, LogInv, [Next]_vars PROVE LogInv'
  OBVIOUS
<1>1. now \in Nat /\ requests \in Nat /\ HealthInv
  BY HttpAssumption DEF IInv
<1>2. ASSUME NEW e \in Errors, UnguardedRoute(e) PROVE LogInv'
  BY <1>1, <1>2, HttpAssumption, ThrownRecorded DEF UnguardedRoute
<1>3. ASSUME NEW r \in GuardedRoutes, GuardedRoute(r) PROVE LogInv'
  <2>1. Arrives /\ UNCHANGED <<now, report>>
    BY <1>3 DEF GuardedRoute
  <2>2. PICK e : Throws(This, e) /\ Throwable(e) /\ e.code \in Codes
    <3>1. CASE Throws(This, PlainError("Circuit breaker is OPEN"))
      BY <3>1, HandlersThrow, HandlersCodes
    <3>2. CASE Throws(This, r.error)
      <4>1. CASE r.error = DatabaseException
        BY <3>2, <4>1, HandlersThrow, HandlersCodes
      <4>2. CASE r.error = RedisException
        BY <3>2, <4>2, HandlersThrow, HandlersCodes
      <4>3. QED BY <4>1, <4>2, GuardedTyped
    <3>3. QED BY <1>3, <3>1, <3>2 DEF GuardedRoute
  <2>3. QED BY <1>1, <2>1, <2>2, ThrownRecorded
<1>4. ASSUME NEW f \in BOOLEAN, DemonstrateCircuitBreaker(f) PROVE LogInv'
  BY <1>1, <1>4, AnsweredAtOnce DEF DemonstrateCircuitBreaker
<1>5. ASSUME NEW s \in Names, ResetRoute(s) PROVE LogInv'
  BY <1>1, <1>5, AnsweredAtOnce DEF ResetRoute
<1>6. ASSUME NEW role, LogsRoute(role) PROVE LogInv'
  <2>1. Arrives /\ UNCHANGED <<now, report>>
    BY <1>6 DEF LogsRoute
  <2>2. CASE Answer(This, now)
    BY <1>1, <2>1, <2>2, AnsweredAtOnce
  <2>3. ASSUME NEW e, NEW b, Catch(This, e, b), b = <<>>, Throwable(e), e.code \in Codes
        PROVE  LogInv'
    <3>1. Before(b, This)
      BY <2>3 DEF Before, AtMost
    <3>2. QED BY <1>1, <2>1, <2>3, <3>1, CaughtRecorded
  <2>4. CASE Catch(This, HttpException(401), <<>>)
    BY <2>3, <2>4, HandlersThrow, HandlersCodes
  <2>5. CASE Catch(This, HttpException(403), <<>>)
    <3>1. PICK e, b : e = HttpException(403) /\ b = <<>> /\ Catch(This, e, b)
      BY <2>5
    <3>2. Throwable(e) /\ e.code \in Codes
      BY <3>1, HandlersThrow, HandlersCodes
    <3>3. QED BY <2>3, <3>1, <3>2
  <2>6. CASE \E e \in {QueryFailed, StatsFailed} : AnswerAfter(This, now, <<e>>)
    <3>1. PICK e, b : /\ e \in {QueryFailed, StatsFailed} /\ b = <<e>>
                      /\ AnswerAfter(This, now, b)
      BY <2>6
    <3>2. AtMost(b, e)
      BY <3>1 DEF AtMost
    <3>3. QED BY <1>1, <2>1, <3>1, <3>2, AnsweredRecorded
  <2>7. QED BY <1>6, <2>2, <2>4, <2>5, <2>6 DEF LogsRoute
<1>7. ASSUME NEW p \in Reports, DetailedCheck(p) PROVE LogInv'
  BY <1>1, <1>7, BeginRecorded
<1>8. ASSUME NEW p \in Reports, HealthStep(p) PROVE LogInv'
  BY <1>1, <1>8, StepRecorded
<1>9. CASE OtherCodeLogs
  <2>1. PICK e \in OtherEntries : logged' = Append(logged, e)
    BY <1>9 DEF OtherCodeLogs
  <2>2. e \in LogEntry /\ e.request = 0 /\ e.timestamp = now
    BY <1>1, <2>1, OtherLinesTyped DEF Line
  <2>3. UNCHANGED <<now, reply, outcome, report, requests>>
    BY <1>9 DEF OtherCodeLogs
  <2>4. Recorded' /\ ErrorsOfFailed'
    BY <1>1, <2>1, <2>2, <2>3, OtherRecorded DEF LogInv
  <2>5. QED BY <2>3, <2>4, NowherePends DEF LogInv
<1>10. CASE Tick \/ UNCHANGED vars
  <2>1. UNCHANGED <<report, requests, outcome, logged, reply>> /\ now =< now'
    BY <1>1, <1>10 DEF Tick, vars
  <2>2. Pending'
    BY <2>1, NowherePends DEF LogInv
  <2>3. ErrorsOfFailed'
    BY <2>1 DEF LogInv, ErrorsOfFailed
  <2>4. now' \in Nat
    BY <1>1, <1>10 DEF Tick, vars
  <2>5. Recorded'
    <3>1. \A k \in DOMAIN logged : logged[k].timestamp \in Nat /\ logged[k].timestamp =< now
      <4>1. \A k \in DOMAIN logged : logged[k] \in LogEntry
        BY DEF LogInv, Recorded
      <4>2. QED BY <4>1 DEF LogInv, Recorded, LogEntry
    <3>2. \A k \in DOMAIN logged' : logged'[k].timestamp =< now'
      BY <1>1, <2>1, <2>4, <3>1
    <3>3. QED BY <2>1, <3>2 DEF LogInv, Recorded, Reply
  <2>6. QED BY <2>2, <2>3, <2>5 DEF LogInv
<1>11. QED BY <1>2, <1>3, <1>4, <1>5, <1>6, <1>7, <1>8, <1>9, <1>10 DEF Next

LEMMA SpecLog == Spec => []LogInv
BY InitLog, NextLog, SpecInv, PTL DEF Spec

(* Everything has its type: breakers, configurations, reports, the log,    *)
(* the answers and the outcomes (the whole of the HTTP application). *)
THEOREM HttpTyped == Spec => []TypeOK
<1>1. IInv /\ LogInv => TypeOK
  BY HttpAssumption DEF IInv, HealthInv, BreakersTyped, LogInv, Recorded, Pending, TypeOK
<1>2. QED BY <1>1, SpecInv, SpecLog, PTL

-----------------------------------------------------------------------------
(* Pages of the log.  SortedBefore orders rows, so each of them has fewer  *)
(* before it than there are: a page with room for all holds all.           *)
LEMMA SortedOrder ==
    ASSUME Recorded, NEW K \in SUBSET Nat
    PROVE  /\ \A x \in K \X (DOMAIN logged) : ~SortedBefore(x, x)
           /\ \A x, y, z \in K \X (DOMAIN logged) :
                 SortedBefore(x, y) /\ SortedBefore(y, z) => SortedBefore(x, z)
<1>1. \A k \in DOMAIN logged : logged[k].timestamp \in Nat /\ k \in Nat
  <2>1. \A k \in DOMAIN logged : logged[k] \in LogEntry /\ k \in Nat
    BY DEF Recorded
  <2>2. QED BY <2>1 DEF LogEntry
<1>2. ASSUME NEW x \in K \X (DOMAIN logged)
      PROVE  x[1] \in Nat /\ x[2] \in Nat /\ logged[x[2]].timestamp \in Nat
  BY <1>1
<1>3. QED BY <1>2 DEF SortedBefore

LEMMA PositionTyped ==
    ASSUME Recorded, NEW K \in SUBSET Nat, IsFiniteSet(K),
           NEW rows \in SUBSET (K \X (DOMAIN logged)), NEW x \in rows
    PROVE  /\ IsFiniteSet(rows) /\ Cardinality(rows) \in Nat
           /\ Position(x, rows) \in 0 .. Cardinality(rows) - 1
<1>1. IsFiniteSet(DOMAIN logged)
  <2>1. DOMAIN logged = 1 .. Len(logged) /\ Len(logged) \in Nat
    BY DEF Recorded
  <2>2. QED BY <2>1, FS_Interval
<1>2. IsFiniteSet(rows) /\ Cardinality(rows) \in Nat
  <2>1. IsFiniteSet(K \X (DOMAIN logged))
    BY <1>1, FS_Product
  <2>2. QED BY <2>1, FS_Subset, FS_CardinalityType
<1> DEFINE before == {y \in rows : SortedBefore(y, x)}
<1>3. before \in SUBSET rows /\ before # rows
  BY SortedOrder
<1> HIDE DEF before
<1>4. /\ IsFiniteSet(before) /\ Cardinality(before) =< Cardinality(rows)
      /\ Cardinality(before) # Cardinality(rows)
  BY <1>2, <1>3, FS_Subset
<1>5. Cardinality(before) \in Nat
  BY <1>4, FS_CardinalityType
<1>6. Position(x, rows) = Cardinality(before)
  BY DEF Position, before
<1>7. QED BY <1>2, <1>4, <1>5, <1>6

(* The rows that a query without a module, for any time, reads. *)
LEMMA RowsTyped ==
    ASSUME NEW q
    PROVE  /\ (DOMAIN GetLogFiles(q.level)) \in SUBSET Nat
           /\ IsFiniteSet(DOMAIN GetLogFiles(q.level))
           /\ Rows(q) \in SUBSET ((DOMAIN GetLogFiles(q.level)) \X (DOMAIN logged))
<1>1. PICK n \in Nat : DOMAIN GetLogFiles(q.level) = 1 .. n
  <2>1. /\ DOMAIN <<"error.log">> = 1 .. 1 /\ DOMAIN <<"http.log">> = 1 .. 1
        /\ DOMAIN <<"performance.log">> = 1 .. 1
        /\ DOMAIN <<"app.log", "http.log", "performance.log">> = 1 .. 3
    OBVIOUS
  <2>2. \/ GetLogFiles(q.level) = <<"error.log">>
        \/ GetLogFiles(q.level) = <<"http.log">>
        \/ GetLogFiles(q.level) = <<"performance.log">>
        \/ GetLogFiles(q.level) = <<"app.log", "http.log", "performance.log">>
    BY DEF GetLogFiles
  <2>3. QED BY <2>1, <2>2
<1>2. QED BY <1>1, FS_Interval DEF Rows

LEMMA WithinDates ==
    ASSUME Recorded, now \in Nat, NEW k \in DOMAIN logged
    PROVE  logged[k].timestamp \in 0 .. now
<1>1. logged[k] \in LogEntry /\ logged[k].timestamp =< now
  BY DEF Recorded
<1>2. logged[k].timestamp \in Nat
  BY <1>1 DEF LogEntry
<1>3. QED BY <1>1, <1>2

LEMMA ErrorRows ==
    ASSUME Recorded, now \in Nat, NEW limit, NEW q, q = Query("error", limit, 0)
    PROVE  /\ \A x \in Rows(q) : x[1] = 1 /\ x[2] \in DOMAIN logged
           /\ \A k \in DOMAIN logged :
                 <<1, k>> \in Rows(q) <=> logged[k].level = "error"
<1>1. /\ q.level = "error" /\ q.module = Anything /\ q.startDate = 0 /\ q.endDate = now
  BY DEF Query
<1>2. GetLogFiles(q.level) = <<"error.log">>
  BY <1>1 DEF GetLogFiles
<1>3. \A k \in DOMAIN logged : Matches(logged[k], q) <=> logged[k].level = "error"
  BY <1>1, QueryAssumption, WithinDates DEF Matches
<1>4. QED BY <1>2, <1>3 DEF Rows, Accepts

LEMMA AllRows ==
    ASSUME Recorded, now \in Nat, NEW limit, NEW q, q = Query(Anything, limit, 0)
    PROVE  Rows(q) = (1 .. 3) \X (DOMAIN logged)
<1>1. /\ q.level = Anything /\ q.module = Anything /\ q.startDate = 0 /\ q.endDate = now
  BY DEF Query
<1>2. GetLogFiles(q.level) = <<"app.log", "http.log", "performance.log">>
  BY <1>1, QueryAssumption DEF GetLogFiles
<1>3. \A k \in DOMAIN logged : Matches(logged[k], q)
  BY <1>1, WithinDates DEF Matches
<1>4. QED BY <1>2, <1>3 DEF Rows, Accepts

LEMMA UpTo ==
    \A n \in Nat : IsFiniteSet(1 .. n) /\ Cardinality(1 .. n) = n
<1>1. ASSUME NEW n \in Nat PROVE IsFiniteSet(1 .. n) /\ Cardinality(1 .. n) = n
  <2>1. IsFiniteSet(1 .. n) /\ Cardinality(1 .. n) = IF 1 > n THEN 0 ELSE n - 1 + 1
    BY FS_Interval
  <2>2. QED BY <2>1
<1>2. QED BY <1>1

LEMMA Products ==
    \A S, T : IsFiniteSet(S) /\ IsFiniteSet(T) =>
                 /\ IsFiniteSet(S \X T)
                 /\ Cardinality(S \X T) = Cardinality(S) * Cardinality(T)
BY FS_Product

(* A query for errors finds no request that did not fail and, while there  *)
(* are no more errors than its page holds, every request that did, whoever *)
(* else logs errors (logging.interceptor.ts, intercept;                    *)
(* global-exception.filter.ts, catch; logging.service.ts, queryLogs).      *)
THEOREM LogTells == Spec => []LogTellsOutcomes
<1>1. IInv /\ LogInv => LogTellsOutcomes
  <2> SUFFICES ASSUME Recorded, ErrorsOfFailed, now \in Nat
               PROVE  LogTellsOutcomes
    BY HttpAssumption DEF IInv, LogInv
  <2>1. PICK q, rows : q = Query("error", DefaultLimit, 0) /\ rows = Rows(q)
    OBVIOUS
  <2>2. PICK E : E = {k \in DOMAIN logged : logged[k].level = "error"}
    OBVIOUS
  <2>3. /\ \A x \in rows : x[1] = 1 /\ x[2] \in DOMAIN logged
        /\ \A k \in DOMAIN logged : <<1, k>> \in rows <=> logged[k].level = "error"
    BY <2>1, ErrorRows
  <2>4. PICK K : rows \in SUBSET (K \X (DOMAIN logged))
    BY <2>1, RowsTyped
  <2>5. rows = {1} \X E
    BY <2>2, <2>3, <2>4
  <2>6. PICK found, failed :
           /\ found = {logged[x[2]].request : x \in QueryLogs(q)}
           /\ failed = {n \in 1 .. MaxRequests : outcome[n] = "failed"}
    OBVIOUS
  <2>7. found \subseteq failed \cup {0}
    <3>1. \A x \in QueryLogs(q) : x[2] \in E
      BY <2>1, <2>5 DEF QueryLogs
    <3>2. \A k \in E : logged[k].request \in failed \cup {0}
      BY <2>2, <2>6 DEF ErrorsOfFailed
    <3>3. QED BY <2>6, <3>1, <3>2
  <2>8. ASSUME Cardinality(E) =< DefaultLimit
        PROVE  failed \subseteq found
    <3>1. IsFiniteSet(E) /\ Cardinality(E) \in Nat
      <4>1. PICK L \in Nat : DOMAIN logged = 1 .. L
        BY DEF Recorded
      <4>2. QED BY <2>2, <4>1, UpTo, FS_Subset, FS_CardinalityType
    <3>2. Cardinality(rows) = Cardinality(E)
      <4>1. PICK A : A = {1}
        OBVIOUS
      <4>2. IsFiniteSet(A) /\ Cardinality(A) = 1
        BY <4>1, FS_Singleton
      <4>3. Cardinality(A \X E) = Cardinality(A) * Cardinality(E)
        BY <3>1, <4>2, Products
      <4>4. QED BY <2>5, <3>1, <4>1, <4>2, <4>3
    <3>3. \A x \in rows : Position(x, rows) \in 0 .. Cardinality(rows) - 1
      BY <2>1, RowsTyped, PositionTyped
    <3>4. q.offset = 0 /\ q.limit = DefaultLimit /\ DefaultLimit \in Nat
      BY <2>1, QueryAssumption DEF Query
    <3>5. \A x \in rows : Position(x, rows) \in q.offset .. q.offset + q.limit - 1
      BY <2>8, <3>1, <3>2, <3>3, <3>4
    <3>6. QueryLogs(q) = rows
      BY <2>1, <3>5 DEF QueryLogs
    <3>7. ASSUME NEW n \in failed PROVE n \in found
      <4>1. PICK k \in E : logged[k].request = n
        BY <2>2, <2>6 DEF ErrorsOfFailed
      <4>2. PICK x : x = <<1, k>>
        OBVIOUS
      <4>3. x \in QueryLogs(q) /\ x[2] = k
        BY <2>5, <3>6, <4>1, <4>2
      <4>4. QED BY <2>6, <4>1, <4>3
    <3>8. QED BY <3>7
  <2>9. QED BY <2>1, <2>2, <2>6, <2>7, <2>8 DEF LogTellsOutcomes
<1>2. QED BY <1>1, SpecInv, SpecLog, PTL

LEMMA Shares ==
    ASSUME NEW e \in Nat, NEW l \in Nat
    PROVE  (3 * e) * l = e * (3 * l)
OBVIOUS

(* As long as their page holds the whole log, the statistics count each    *)
(* entry as often as any other: the shares of errors and of warnings are   *)
(* right (logging.service.ts, getLogStats). *)
THEOREM StatsWeigh == Spec => []StatsWeighAlike
<1>1. IInv /\ LogInv => StatsWeighAlike
  <2> SUFFICES ASSUME Recorded, now \in Nat
               PROVE  StatsWeighAlike
    BY HttpAssumption DEF IInv, LogInv
  <2>1. PICK q, page, rows : /\ q = Query(Anything, StatsLimit, 0)
                             /\ page = QueryLogs(q) /\ rows = Rows(q)
    OBVIOUS
  <2>2. PICK L \in Nat : L = Len(logged) /\ DOMAIN logged = 1 .. L
    BY DEF Recorded
  <2>3. rows = (1 .. 3) \X (1 .. L)
    BY <2>1, <2>2, AllRows
  <2>4. page = {x \in rows : Position(x, rows) \in 0 .. 0 + StatsLimit - 1}
    BY <2>1 DEF QueryLogs, Query
  <2>5. /\ IsFiniteSet(1 .. 3) /\ Cardinality(1 .. 3) = 3
        /\ IsFiniteSet(1 .. L) /\ Cardinality(1 .. L) = L
    BY UpTo
  <2>6. /\ GetLogStats.totalLogs = Cardinality(page)
        /\ GetLogStats.errorCount = CountOf(page, "error")
        /\ GetLogStats.warningCount = CountOf(page, "warn")
    BY <2>1 DEF GetLogStats, Statistics
  <2>7. ASSUME Cardinality(rows) =< StatsLimit, NEW level
        PROVE  CountOf(page, level) * Len(logged) =
                  Cardinality({n \in DOMAIN logged : logged[n].level = level})
                     * Cardinality(page)
    <3>1. page = rows
      <4>1. (1 .. 3) \in SUBSET Nat /\ rows \in SUBSET ((1 .. 3) \X (DOMAIN logged))
        BY <2>2, <2>3
      <4>2. /\ Cardinality(rows) \in Nat
            /\ \A x \in rows : Position(x, rows) \in 0 .. Cardinality(rows) - 1
        <5>1. CASE rows = {}
          BY <5>1, FS_EmptySet
        <5>2. CASE rows # {}
          BY <2>5, <4>1, <5>2, PositionTyped
        <5>3. QED BY <5>1, <5>2
      <4>3. \A x \in rows : Position(x, rows) \in 0 .. 0 + StatsLimit - 1
        BY <2>7, <4>2, QueryAssumption
      <4>4. QED BY <2>4, <4>3
    <3>2. PICK E, F : /\ E = {x \in page : logged[x[2]].level = level}
                      /\ F = {n \in 1 .. L : logged[n].level = level}
      OBVIOUS
    <3>3. IsFiniteSet(F) /\ Cardinality(F) \in Nat
      BY <2>5, <3>2, FS_Subset, FS_CardinalityType
    <3>4. E = (1 .. 3) \X F
      BY <2>3, <3>1, <3>2
    <3>5. Cardinality(E) = 3 * Cardinality(F) /\ Cardinality(page) = 3 * L
      <4>1. PICK A, B : A = 1 .. 3 /\ B = 1 .. L
        OBVIOUS
      <4>2. /\ Cardinality(A \X F) = Cardinality(A) * Cardinality(F)
            /\ Cardinality(A \X B) = Cardinality(A) * Cardinality(B)
        BY <2>5, <3>3, <4>1, Products
      <4>3. E = A \X F /\ page = A \X B /\ Cardinality(A) = 3 /\ Cardinality(B) = L
        BY <2>3, <2>5, <3>1, <3>4, <4>1
      <4>4. QED BY <4>2, <4>3
    <3>6. (3 * Cardinality(F)) * L = Cardinality(F) * (3 * L)
      BY <3>3, Shares
    <3>7. CountOf(page, level) = Cardinality(E)
      BY <3>2 DEF CountOf
    <3>8. QED BY <2>2, <3>2, <3>5, <3>6, <3>7
  <2>8. QED BY <2>1, <2>6, <2>7 DEF StatsWeighAlike
<1>2. QED BY <1>1, SpecInv, SpecLog, PTL
=============================================================================
