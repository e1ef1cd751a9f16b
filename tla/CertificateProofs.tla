-------------------------- MODULE CertificateProofs --------------------------
(***************************************************************************)
(* Theorems about CertificateQueue for every set of domains, requests and  *)
(* jobs, however often the administrator acts.                             *)
(***************************************************************************)
EXTENDS CertificateQueue, TLAPS

\* The runner has a job.
Working == runner.at \notin {"idle", "reconcile", "claim"}

-----------------------------------------------------------------------------
(* Rows.                                                                   *)

LEMMA FreshIsJob == Fresh \in Jobs
BY CertificateAssumption DEF Fresh, CertificateAssumption

LEMMA Rows ==
  ASSUME TypeOK
  PROVE  /\ \A j \in Jobs : job[j].status # "absent" => job[j] \in JobRow
         /\ \A j \in Jobs : Open(j) => job[j] \in JobRow
         /\ \A j \in Jobs : job[j] # NoJob => job[j] \in JobRow
         /\ NoJob \notin JobRow
         /\ Working => Mine \in Jobs /\ job[Mine] \in JobRow /\ MyDomain \in Domains
BY DEF TypeOK, NoJob, JobRow, Open, Working, Mine, MyDomain

LEMMA RowWrites ==
  /\ \A old \in DomainRow : Secured(old) \in DomainRow /\ Unsecured(old) \in DomainRow
  /\ \A row \in JobRow, s \in {"queued", "running", "succeeded", "failed"} :
       [row EXCEPT !.status = s] \in JobRow
BY DEF DomainRow, JobRow, Secured, Unsecured

LEMMA VerifyWrites ==
  ASSUME TypeOK, NEW d \in Domains, NEW v \in BOOLEAN, NEW w \in {"verified", "dns_error"}
  PROVE  [domain EXCEPT ![d].status = w, ![d].verified = v] \in [Domains -> DomainRow]
<1>1. domain[d] \in DomainRow /\ domain \in [Domains -> DomainRow]
  BY DEF TypeOK
<1>2. [domain[d] EXCEPT !.status = w, !.verified = v] \in DomainRow
  BY <1>1 DEF DomainRow
<1>3. QED
  BY <1>1, <1>2

LEMMA SucceedsType ==
  ASSUME TypeOK, NEW j \in Jobs, job[j] \in JobRow, NEW d \in Domains, Succeeds(j, d)
  PROVE  /\ job' \in [Jobs -> JobRow \cup {NoJob}] /\ domain' \in [Domains -> DomainRow]
         /\ expired' \subseteq Jobs /\ due' \subseteq Domains
         /\ \A i \in Jobs : job[i] # NoJob => job'[i] # NoJob
BY RowWrites, Rows DEF TypeOK, Succeeds

LEMMA FailsType ==
  ASSUME TypeOK, NEW j \in Jobs, job[j] \in JobRow, NEW d \in Domains, Fails(j, d)
  PROVE  /\ job' \in [Jobs -> JobRow \cup {NoJob}] /\ domain' \in [Domains -> DomainRow]
         /\ expired' \subseteq Jobs /\ due' \subseteq Domains
         /\ \A i \in Jobs : job[i] # NoJob => job'[i] # NoJob
BY RowWrites, Rows DEF TypeOK, Fails

LEMMA GoesType ==
  ASSUME TypeOK, NEW s \in Stage, Goes(s)
  PROVE  /\ runner' \in RunnerState /\ runner'.at = s
         /\ runner'.job = runner.job /\ runner'.previous = runner.previous
BY DEF TypeOK, Goes, RunnerState

LEMMA SleepsType ==
  ASSUME Sleeps
  PROVE  runner' \in RunnerState /\ runner'.at = "idle" /\ runner'.previous = "none"
BY DEF Sleeps, Asleep, RunnerState, Stage, Vhost

LEMMA ClaimsType ==
  ASSUME NEW j \in Jobs, runner' = [Asleep EXCEPT !.at = "validate", !.job = j]
  PROVE  /\ runner' \in RunnerState /\ runner'.at = "validate"
         /\ runner'.job = j /\ runner'.previous = "none"
<1>1. Asleep \in RunnerState /\ Asleep.previous = "none"
  BY DEF Asleep, RunnerState, Stage, Vhost
<1>2. "validate" \in Stage
  BY DEF Stage
<1>3. QED
  BY <1>1, <1>2 DEF RunnerState

LEMMA WritesType ==
  ASSUME TypeOK, Write
  PROVE  /\ runner' \in RunnerState /\ runner'.at \in {"reload_http", "reload_tls"}
         /\ runner'.at = IF At("write_http") THEN "reload_http" ELSE "reload_tls"
         /\ runner'.job = runner.job /\ runner'.previous = runner.previous
BY DEF TypeOK, Write, RunnerState, Stage, At

LEMMA ValidatesType ==
  ASSUME TypeOK, Validate
  PROVE  /\ runner' \in RunnerState /\ runner'.job = runner.job
         /\ At("validate") =>
              /\ runner'.at = IF site[MyDomain] = "none" THEN "write_http" ELSE "certbot"
              /\ runner'.previous = site[MyDomain]
         /\ At("validate_issued") => runner'.at = "write_tls"
         /\ At("validate_probed") => runner'.at = "complete"
         /\ ~At("validate") => runner'.previous = runner.previous
<1>1. site[MyDomain] \in Vhost
  BY Rows DEF Validate, Working, TypeOK
<1>2. QED
  BY <1>1 DEF TypeOK, Validate, Goes, RunnerState, Stage, At

LEMMA LoadsType ==
  ASSUME TypeOK, Loads
  PROVE  loaded' \in [Domains -> Vhost] /\ shown' \in [Domains -> Shown]
<1>1. site \in [Domains -> Vhost] /\ lineage \in [Domains -> {"none", "good", "lapsed"}]
  BY DEF TypeOK
<1>2. QED
  BY <1>1 DEF Loads, Shown

LEMMA IssuesType ==
  ASSUME TypeOK, NEW d \in Domains, Issues(d)
  PROVE  /\ lineage' \in [Domains -> {"none", "good", "lapsed"}]
         /\ lineage'[d] = "good" /\ \A e \in Domains : lineage[e] # "none" => lineage'[e] # "none"
         /\ shown' \in [Domains -> Shown]
<1>1. shown \in [Domains -> Shown] /\ lineage \in [Domains -> {"none", "good", "lapsed"}]
  BY DEF TypeOK
<1>2. QED
  BY <1>1 DEF Issues, Shown

LEMMA ActsTypes ==
  ASSUME TypeOK, NEW d \in Domains, Acts(d),
         domain' \in [Domains -> DomainRow], due' \subseteq Domains
  PROVE  TypeOK'
BY CertificateAssumption DEF Acts, TypeOK, host, nginx, CertificateAssumption

-----------------------------------------------------------------------------
(* Types.                                                                  *)

LEMMA RequestTypes ==
  ASSUME TypeOK, NEW d \in Domains,
         \/ \E k \in Keys : Enqueue(d, k)
         \/ \E found \in BOOLEAN : Verify(d, found)
         \/ Activate(d)
         \/ \E status \in {"suspended", "removed"} : Withdraw(d, status)
  PROVE  TypeOK'
<1>1. ASSUME NEW k \in Keys, Enqueue(d, k) PROVE TypeOK'
  <2>1. Fresh \in Jobs /\ job[Fresh] = NoJob
    BY <1>1, FreshIsJob DEF Enqueue
  <2>2. \A s \in {"queued", "succeeded"} : [domain |-> d, key |-> k, status |-> s] \in JobRow
    BY DEF JobRow
  <2>3. job' \in [Jobs -> JobRow \cup {NoJob}]
    BY <1>1, <2>1, <2>2 DEF Enqueue, TypeOK
  <2>4. domain[d] \in DomainRow
    BY DEF TypeOK
  <2>5. [domain[d] EXCEPT !.ssl = IF @ = "active" THEN @ ELSE "pending"] \in DomainRow
    BY <2>4 DEF DomainRow
  <2>6. domain' \in [Domains -> DomainRow]
    BY <1>1, <2>4, <2>5, RowWrites DEF Enqueue, TypeOK
  <2>7. \A i \in Jobs : job[i] # NoJob => job'[i] # NoJob
    BY <1>1, <2>1, <2>2, Rows DEF Enqueue, TypeOK
  <2>8. cooling' \subseteq Domains /\ due' \subseteq Domains
    BY <1>1 DEF Enqueue, TypeOK
  <2>9. QED
    BY <1>1, <2>3, <2>6, <2>7, <2>8 DEF Enqueue, TypeOK, host, nginx
<1>2. ASSUME NEW found \in BOOLEAN, Verify(d, found) PROVE TypeOK'
  <2>1. Acts(d) /\ due' \subseteq Domains
    BY <1>2 DEF Verify, TypeOK
  <2>2. domain' = [domain EXCEPT
                    ![d].status   = IF found THEN "verified" ELSE "dns_error",
                    ![d].verified = domain[d].verified \/ found]
    BY <1>2 DEF Verify
  <2>3. (domain[d].verified \/ found) \in BOOLEAN
    BY Zenon
  <2>4. domain' \in [Domains -> DomainRow]
    BY <2>2, <2>3, VerifyWrites
  <2>5. QED
    BY <2>1, <2>4, ActsTypes
<1>3. ASSUME Activate(d) PROVE TypeOK'
  BY <1>3, ActsTypes DEF Activate, TypeOK, DomainRow
<1>4. ASSUME NEW status \in {"suspended", "removed"}, Withdraw(d, status) PROVE TypeOK'
  BY <1>4, ActsTypes DEF Withdraw, TypeOK, DomainRow
<1>5. QED
  BY <1>1, <1>2, <1>3, <1>4

LEMMA QueueTypes ==
  ASSUME TypeOK,
         \/ StartRun \/ Reconciled \/ NothingToClaim
         \/ \E j \in Jobs : ReconcileJob(j) \/ Claim(j)
         \/ \E d \in Domains : Refresh(d)
  PROVE  TypeOK'
<1>1. CASE StartRun \/ Reconciled
  BY <1>1, GoesType DEF StartRun, Reconciled, TypeOK, Stage, rows, host, nginx
<1>0. CASE NothingToClaim
  BY <1>0, SleepsType DEF NothingToClaim, TypeOK, rows, host, nginx
<1>2. ASSUME NEW j \in Jobs, ReconcileJob(j) PROVE TypeOK'
  <2>1. job[j] \in JobRow /\ job[j].domain \in Domains
    BY <1>2, Rows DEF ReconcileJob, JobRow
  <2>2. CASE Succeeds(j, job[j].domain)
    BY <1>2, <2>1, <2>2, SucceedsType DEF ReconcileJob, TypeOK, host, nginx
  <2>3. CASE Fails(j, job[j].domain)
    BY <1>2, <2>1, <2>3, FailsType DEF ReconcileJob, TypeOK, host, nginx
  <2>4. QED
    BY <1>2, <2>2, <2>3 DEF ReconcileJob
<1>3. ASSUME NEW j \in Jobs, Claim(j) PROVE TypeOK'
  <2>1. job[j] \in JobRow /\ job[j].domain \in Domains
    BY <1>3, Rows DEF Claim, JobRow
  <2>2. CASE Fails(j, job[j].domain) /\ UNCHANGED runner
    BY <1>3, <2>1, <2>2, FailsType DEF Claim, TypeOK, host, nginx
  <2>3. CASE /\ job' = [job EXCEPT ![j].status = "running"]
             /\ runner' = [Asleep EXCEPT !.at = "validate", !.job = j] \/ Sleeps
             /\ UNCHANGED <<domain, expired, due>>
    <3>1. /\ job' \in [Jobs -> JobRow \cup {NoJob}]
          /\ job'[j] # NoJob
      BY <2>1, <2>3, RowWrites, Rows DEF TypeOK
    <3>2. /\ runner' \in RunnerState
          /\ runner'.at \notin {"idle", "reconcile", "claim"} => runner'.job = j
      BY <2>3, ClaimsType, SleepsType
    <3>3. QED
      BY <1>3, <2>3, <3>1, <3>2 DEF Claim, TypeOK, host, nginx
  <2>4. QED
    BY <1>3, <2>2, <2>3 DEF Claim
<1>4. ASSUME NEW d \in Domains, Refresh(d) PROVE TypeOK'
  <2>1. domain' \in [Domains -> DomainRow]
    BY <1>4 DEF Refresh, TypeOK, DomainRow
  <2>2. QED
    BY <1>4, <2>1 DEF Refresh, TypeOK, host, nginx
<1>5. QED
  BY <1>0, <1>1, <1>2, <1>3, <1>4

LEMMA StageTypes ==
  ASSUME TypeOK,
         \/ Validate \/ Write \/ Reload \/ Certbot \/ Probe \/ Complete
         \/ Breaks \/ Rollback \/ RollbackBreaks \/ Fail \/ Killed
  PROVE  TypeOK'
<1> USE DEF At, rows, host, nginx
<1>0. /\ Working => Mine \in Jobs /\ job[Mine] \in JobRow /\ MyDomain \in Domains
      /\ runner.job = Mine
  BY Rows DEF Mine
<1>1. CASE Validate
  BY <1>1, ValidatesType DEF Validate, TypeOK
<1>2. CASE Write
  <2>1. site' \in [Domains -> Vhost]
    BY <1>0, <1>2 DEF Write, Working, TypeOK, Vhost
  <2>2. QED
    BY <1>2, <2>1, WritesType DEF Write, TypeOK
<1>3. CASE Reload \/ Probe \/ Certbot
  <2>1. PICK s \in Stage : Goes(s)
    BY <1>3 DEF Reload, Probe, Certbot, Stage
  <2>2. lineage' \in [Domains -> {"none", "good", "lapsed"}] /\ shown' \in [Domains -> Shown]
        /\ loaded' \in [Domains -> Vhost]
    <3>1. CASE Reload
      BY <3>1, LoadsType DEF Reload, TypeOK
    <3>2. CASE Probe
      BY <3>2 DEF Probe, TypeOK
    <3>3. CASE Certbot
      <4>1. MyDomain \in Domains
        BY <1>0, <3>3 DEF Certbot, Working
      <4>2. QED
        BY <3>3, <4>1, IssuesType DEF Certbot, TypeOK
    <3>4. QED
      BY <1>3, <3>1, <3>2, <3>3
  <2>3. QED
    BY <1>3, <2>1, <2>2, GoesType DEF Reload, Probe, Certbot, TypeOK
<1>4. CASE Breaks \/ RollbackBreaks
  <2>1. PICK s \in Stage : Goes(s)
    BY <1>4 DEF Breaks, RollbackBreaks, Stage
  <2>2. QED
    BY <1>4, <2>1, GoesType DEF Breaks, RollbackBreaks, Trying, TypeOK
<1>5. CASE Rollback
  <2>1. site' \in [Domains -> Vhost]
    BY <1>5 DEF Rollback, TypeOK, RunnerState
  <2>2. "reload_back" \in Stage
    BY DEF Stage
  <2>3. QED
    BY <1>5, <2>1, <2>2, GoesType DEF Rollback, TypeOK
<1>6. CASE Complete
  <2>1. Succeeds(Mine, MyDomain) /\ Mine \in Jobs /\ job[Mine] \in JobRow /\ MyDomain \in Domains
    BY <1>0, <1>6 DEF Complete, Working
  <2>2. runner' \in RunnerState /\ (runner'.job = runner.job \/ runner'.at = "idle")
    BY <1>6, SleepsType, GoesType DEF Complete, Stage
  <2>3. QED
    BY <1>0, <1>6, <2>1, <2>2, SucceedsType DEF Complete, TypeOK
<1>7. CASE Fail
  <2>1. /\ job' \in [Jobs -> JobRow \cup {NoJob}] /\ domain' \in [Domains -> DomainRow]
        /\ expired' \subseteq Jobs /\ due' \subseteq Domains
    <3>1. Mine \in Jobs /\ job[Mine] \in JobRow /\ MyDomain \in Domains
      BY <1>0, <1>7 DEF Fail, Working
    <3>2. CASE LeaseHeld(Mine)
      BY <1>7, <3>1, <3>2, FailsType DEF Fail
    <3>3. CASE ~LeaseHeld(Mine)
      BY <1>7, <3>3 DEF Fail, TypeOK
    <3>4. QED
      BY <3>2, <3>3
  <2>2. QED
    BY <1>7, <2>1, SleepsType DEF Fail, TypeOK
<1>8. CASE Killed
  BY <1>8, SleepsType DEF Killed, TypeOK
<1>9. QED
  BY <1>1, <1>2, <1>3, <1>4, <1>5, <1>6, <1>7, <1>8

LEMMA WorldTypes ==
  ASSUME TypeOK, World
  PROVE  TypeOK'
<1>1. ASSUME NEW d \in Domains, Renew(d) PROVE TypeOK'
  BY <1>1, IssuesType DEF Renew, TypeOK, rows
<1>2. ASSUME NEW d \in Domains, RunHook(d) PROVE TypeOK'
  BY <1>2, LoadsType DEF RunHook, TypeOK, rows, nginx
<1>3. ASSUME NEW d \in Domains, Lapse(d) \/ OldLapses(d) PROVE TypeOK'
  <2>1. shown' \in [Domains -> Shown]
    BY <1>3 DEF Lapse, OldLapses, TypeOK, Shown
  <2>2. QED
    BY <1>3, <2>1 DEF Lapse, OldLapses, TypeOK, rows
<1>4. ASSUME NEW d \in Domains, CoolsDown(d) \/ FallsDue(d) \/ Repoint(d) PROVE TypeOK'
  BY <1>4 DEF CoolsDown, FallsDue, Repoint, TypeOK, rows, host, nginx
<1>5. ASSUME NEW k \in Jobs, Expires(k) PROVE TypeOK'
  BY <1>5 DEF Expires, TypeOK, host, nginx
<1>6. QED
  BY <1>1, <1>2, <1>3, <1>4, <1>5 DEF World

LEMMA StepTypes ==
  ASSUME TypeOK, [Next]_vars
  PROVE  TypeOK'
<1>1. ASSUME UNCHANGED vars PROVE TypeOK'
  BY <1>1 DEF vars, TypeOK
<1>2. QED
  BY <1>1, RequestTypes, QueueTypes, StageTypes, WorldTypes DEF Next, RunnerStep

LEMMA InitTypes == Init => TypeOK
BY CertificateAssumption DEF Init, TypeOK, DomainRow, Asleep, RunnerState, Stage, Vhost, Shown,
                             CertificateAssumption

\* Rows, runner and host keep their types, whatever is killed or unanswered, and
\* a runner past the claim has a job.
THEOREM CertificateTypes == Spec => []TypeOK
BY InitTypes, StepTypes, PTL DEF Spec

-----------------------------------------------------------------------------
(* One open job of a domain, one job of a request, jobs that ended.        *)

JobInv == OneOpenJob /\ OneJobPerKey

\* Jobs are given out once, keep what they are about, and end once.
JobsGoOn ==
  \A j \in Jobs :
    /\ job[j] # NoJob =>
         job'[j] # NoJob /\ job'[j].domain = job[j].domain /\ job'[j].key = job[j].key
    /\ Open(j)' => Open(j) \/ job[j] = NoJob
    /\ Ended(j) => job'[j] = job[j]

\* No job is new.
NoneNew == \A j \in Jobs : job[j] = NoJob => job'[j] = NoJob

LEMMA StatusWrite ==
  ASSUME TypeOK, NEW j \in Jobs, Open(j), NEW s \in {"running", "succeeded", "failed"},
         job' = [job EXCEPT ![j].status = s]
  PROVE  JobsGoOn /\ NoneNew
<1>1. job[j] \in JobRow /\ ~Ended(j)
  BY Rows DEF Open, Ended
<1>2. job'[j].domain = job[j].domain /\ job'[j].key = job[j].key /\ job'[j].status = s
  BY <1>1 DEF TypeOK, JobRow
<1>3. job' [j] # NoJob /\ job[j] # NoJob
  BY <1>1, <1>2, Rows DEF NoJob
<1>4. \A i \in Jobs : i # j => job'[i] = job[i]
  BY DEF TypeOK
<1>5. QED
  BY <1>1, <1>2, <1>3, <1>4 DEF JobsGoOn, NoneNew, Open, Ended

LEMMA SameJobs ==
  ASSUME UNCHANGED job
  PROVE  JobsGoOn /\ NoneNew
BY DEF JobsGoOn, NoneNew, Open, Ended

\* Every step but a request for a certificate.
LEMMA WithoutEnqueue ==
  ASSUME TypeOK, [Next]_vars, ~\E d \in Domains, k \in Keys : Enqueue(d, k)
  PROVE  JobsGoOn /\ NoneNew
<1>1. ASSUME UNCHANGED job PROVE JobsGoOn /\ NoneNew
  BY <1>1, SameJobs
<1>2. ASSUME NEW j \in Jobs, ReconcileJob(j) PROVE JobsGoOn /\ NoneNew
  BY <1>2, StatusWrite DEF ReconcileJob, Succeeds, Fails, Open
<1>3. ASSUME NEW j \in Jobs, Claim(j) PROVE JobsGoOn /\ NoneNew
  BY <1>3, StatusWrite DEF Claim, Fails, Open
<1>4. CASE Complete
  BY <1>4, Rows, StatusWrite DEF Complete, Succeeds, LeaseHeld, Open, Working, At
<1>5. CASE Fail
  <2>1. CASE LeaseHeld(Mine)
    BY <1>5, <2>1, Rows, StatusWrite DEF Fail, Fails, LeaseHeld, Open, Working, At
  <2>2. CASE ~LeaseHeld(Mine)
    BY <1>5, <2>2, <1>1 DEF Fail
  <2>3. QED
    BY <2>1, <2>2
<1>6. CASE \E d \in Domains :
             \/ \E found \in BOOLEAN : Verify(d, found)
             \/ Activate(d)
             \/ \E status \in {"suspended", "removed"} : Withdraw(d, status)
  BY <1>1, <1>6 DEF Verify, Activate, Withdraw, Acts
<1>7. CASE \/ StartRun \/ Reconciled \/ NothingToClaim \/ \E d \in Domains : Refresh(d)
  BY <1>1, <1>7 DEF StartRun, Reconciled, NothingToClaim, Refresh, rows
<1>8. CASE \/ Validate \/ Write \/ Reload \/ Certbot \/ Probe
           \/ Breaks \/ Rollback \/ RollbackBreaks \/ Killed
  BY <1>1, <1>8 DEF Validate, Write, Reload, Certbot, Probe, Breaks, Rollback, RollbackBreaks,
                    Killed, rows
<1>9. CASE World
  BY <1>1, <1>9 DEF World, Expires, CoolsDown, FallsDue, Repoint, Lapse, OldLapses, Renew, RunHook, rows
<1>10. CASE UNCHANGED vars
  BY <1>1, <1>10 DEF vars
<1>11. QED
  BY <1>2, <1>3, <1>4, <1>5, <1>6, <1>7, <1>8, <1>9, <1>10 DEF Next, RunnerStep

\* What a request for a certificate does to the jobs.
LEMMA EnqueueAdds ==
  ASSUME TypeOK, NEW d \in Domains, NEW k \in Keys, Enqueue(d, k)
  PROVE  /\ Fresh \in Jobs /\ job[Fresh] = NoJob
         /\ \A i \in Jobs : i # Fresh => job'[i] = job[i]
         /\ job'[Fresh] \in JobRow
         /\ job'[Fresh].domain = d /\ job'[Fresh].key = k
         /\ \A i \in Jobs : Open(i) => job[i].domain # d
         /\ \A i \in Jobs : job[i] # NoJob /\ job[i].domain = d => job[i].key # k
<1>1. Fresh \in Jobs /\ job[Fresh] = NoJob
  BY FreshIsJob DEF Enqueue
<1>2. PICK s \in {"queued", "succeeded"} :
        job' = [job EXCEPT ![Fresh] = [domain |-> d, key |-> k, status |-> s]]
  BY DEF Enqueue
<1>3. job'[Fresh] = [domain |-> d, key |-> k, status |-> s]
  BY <1>1, <1>2 DEF TypeOK
<1>4. \A i \in Jobs : i # Fresh => job'[i] = job[i]
  BY <1>1, <1>2 DEF TypeOK
<1>5. \A i \in Jobs : Open(i) => job[i].domain # d
  BY Rows DEF Enqueue, OpenJobs, JobsOf
<1>6. \A i \in Jobs : job[i] # NoJob /\ job[i].domain = d => job[i].key # k
  BY DEF Enqueue, Earlier, JobsOf
<1>7. QED
  BY <1>1, <1>3, <1>4, <1>5, <1>6 DEF JobRow

LEMMA StepJobs ==
  ASSUME TypeOK, JobInv, [Next]_vars
  PROVE  JobInv' /\ JobsGoOn
<1>1. ASSUME NEW d \in Domains, NEW k \in Keys, Enqueue(d, k) PROVE JobInv' /\ JobsGoOn
  <2>1. \A i \in Jobs : i # Fresh => (Open(i)' <=> Open(i)) /\ job'[i] = job[i]
    BY <1>1, EnqueueAdds DEF Open
  <2>2. OneOpenJob'
    BY <1>1, <2>1, EnqueueAdds DEF JobInv, OneOpenJob
  <2>3. OneJobPerKey'
    BY <1>1, <2>1, EnqueueAdds DEF JobInv, OneJobPerKey
  <2>4. ~Open(Fresh) /\ ~Ended(Fresh)
    BY <1>1, EnqueueAdds DEF NoJob, Open, Ended
  <2>5. JobsGoOn
    BY <1>1, <2>1, <2>4, EnqueueAdds DEF JobsGoOn
  <2>6. QED
    BY <2>2, <2>3, <2>5 DEF JobInv
<1>2. CASE ~\E d \in Domains, k \in Keys : Enqueue(d, k)
  <2>1. JobsGoOn /\ NoneNew
    BY <1>2, WithoutEnqueue
  <2>2. \A j \in Jobs : Open(j)' => Open(j) /\ job'[j].domain = job[j].domain
    <3>1. ASSUME NEW j \in Jobs, Open(j)' PROVE job[j] # NoJob
      BY <2>1, <3>1 DEF NoneNew, Open, NoJob
    <3>2. QED
      BY <2>1, <3>1 DEF JobsGoOn
  <2>3. QED
    BY <2>1, <2>2 DEF JobInv, OneOpenJob, OneJobPerKey, JobsGoOn, NoneNew
<1>3. QED
  BY <1>1, <1>2

LEMMA InitJobs == Init => JobInv
BY DEF Init, JobInv, OneOpenJob, OneJobPerKey, Open, NoJob

THEOREM JobsSound == Spec => [](TypeOK /\ JobInv)
<1>1. Init => TypeOK /\ JobInv
  BY InitTypes, InitJobs
<1>2. TypeOK /\ JobInv /\ [Next]_vars => (TypeOK /\ JobInv)'
  BY StepTypes, StepJobs
<1>3. QED
  BY <1>1, <1>2, PTL DEF Spec

\* However requests, failures, expired leases and lost answers follow each other,
\* a domain has at most one job that is queued or running.
THEOREM OneJobAtATime == Spec => []OneOpenJob
<1>1. JobInv => OneOpenJob
  BY DEF JobInv
<1>2. QED
  BY <1>1, JobsSound, PTL

\* A request that comes again never gets a job of its own.
THEOREM OneJobPerRequest == Spec => []OneJobPerKey
<1>1. JobInv => OneJobPerKey
  BY DEF JobInv
<1>2. QED
  BY <1>1, JobsSound, PTL

\* A job that succeeded or failed is never reopened nor decided anew.
THEOREM EndedForGood == Spec => JobsAreFinal
<1>1. TypeOK /\ JobInv /\ [Next]_vars => [\A j \in Jobs : Ended(j) => job'[j] = job[j]]_vars
  BY StepJobs DEF JobsGoOn
<1>2. QED
  BY <1>1, JobsSound, PTL DEF Spec, JobsAreFinal

-----------------------------------------------------------------------------
(* Files and certificates.                                                 *)

\* The stages that come after Certbot has answered.
Certified == { "validate_issued", "write_tls", "reload_tls", "probe", "validate_probed", "complete" }

\* FilesLoad, and what the runner knows of the host it works on: past Certbot
\* there is a certificate; a file that serves TLS is never replaced by another.
FileInv ==
  /\ FilesLoad
  /\ runner.at \in Certified => lineage[MyDomain] # "none"
  /\ runner.previous = "tls" =>
       Working /\ site[MyDomain] = "tls" /\ lineage[MyDomain] # "none"
  /\ runner.at = "write_http" => runner.previous = "none"

\* Certbot never gives a certificate up.
LineageStays == \A d \in Domains : lineage[d] # "none" => lineage'[d] # "none"

\* Certificates stay; the runner's domain is what it was.
LEMMA StepHost ==
  ASSUME TypeOK, JobInv, [Next]_vars
  PROVE  /\ \A d \in Domains : lineage[d] # "none" => lineage'[d] # "none"
         /\ Working /\ runner'.job = runner.job => MyDomain' = MyDomain
<1>1. LineageStays
  <2>1. CASE UNCHANGED lineage
    BY <2>1 DEF LineageStays
  <2>2. CASE Certbot
    <3>1. MyDomain \in Domains
      BY <2>2, Rows DEF Certbot, Working, At
    <3>2. QED
      BY <2>2, <3>1, IssuesType DEF Certbot, LineageStays
  <2>3. ASSUME NEW d \in Domains, Lapse(d) \/ Renew(d) PROVE LineageStays
    BY <2>3, IssuesType DEF Lapse, Renew, TypeOK, LineageStays
  <2>4. QED
    BY <2>1, <2>2, <2>3 DEF Next, RunnerStep, World, Enqueue, Verify, Activate, Withdraw, Acts,
      StartRun, ReconcileJob, Refresh, Claim, NothingToClaim, Reconciled, Validate, Write,
      Reload, Probe, Complete, Breaks, Rollback, RollbackBreaks, Fail, Killed,
      Expires, CoolsDown, FallsDue, Repoint, OldLapses, RunHook, host, nginx, vars
<1>2. Working /\ runner'.job = runner.job => MyDomain' = MyDomain
  BY StepJobs, Rows DEF JobsGoOn, Working, MyDomain, Mine, TypeOK
<1>3. QED
  BY <1>1, <1>2 DEF LineageStays

\* Steps that leave the runner and the files alone.
LEMMA RunnerStays ==
  ASSUME TypeOK, JobInv, FileInv, [Next]_vars, UNCHANGED <<runner, site>>
  PROVE  FileInv'
<1>1. Working => MyDomain \in Domains /\ MyDomain' = MyDomain
  BY StepHost, Rows
<1>2. runner.at \in Certified => Working
  BY DEF Certified, Working
<1>3. QED
  BY <1>1, <1>2, StepHost DEF FileInv, FilesLoad, Working

LEMMA RunnerSleeps ==
  ASSUME TypeOK, JobInv, FileInv, [Next]_vars, Sleeps, UNCHANGED site
  PROVE  FileInv'
BY StepHost, SleepsType DEF FileInv, FilesLoad, Certified

\* Steps of the runner that leave the files alone and reach no new knowledge.
LEMMA RunnerGoes ==
  ASSUME TypeOK, JobInv, FileInv, [Next]_vars, Working, NEW s \in Stage, Goes(s), UNCHANGED site,
         s \notin {"idle", "reconcile", "claim", "write_http"},
         s \in Certified => runner.at \in Certified
  PROVE  FileInv'
<1>1. MyDomain \in Domains /\ MyDomain' = MyDomain
  BY StepHost, GoesType, Rows
<1>2. runner'.at = s /\ runner'.previous = runner.previous
  BY GoesType
<1>3. QED
  BY <1>1, <1>2, StepHost DEF FileInv, FilesLoad, Working

LEMMA ValidateFiles ==
  ASSUME TypeOK, JobInv, FileInv, [Next]_vars, Validate
  PROVE  FileInv'
<1>1. Working /\ MyDomain \in Domains /\ MyDomain' = MyDomain /\ UNCHANGED <<site, lineage>>
  BY StepHost, ValidatesType, Rows DEF Validate, Working, host, nginx
<1>2. CASE At("validate")
  <2>1. runner'.at \in {"write_http", "certbot"}
    BY <1>2, ValidatesType
  <2>2. QED
    BY <1>1, <1>2, <2>1, ValidatesType DEF FileInv, FilesLoad, Working, Certified
<1>3. CASE At("validate_issued") \/ At("validate_probed")
  <2>1. runner.at \in Certified /\ ~At("validate")
    BY <1>3 DEF Certified, At
  <2>2. runner'.at \in {"write_tls", "complete"}
    BY <1>3, ValidatesType
  <2>3. QED
    BY <1>1, <2>1, <2>2, ValidatesType DEF FileInv, FilesLoad, Working, Certified
<1>4. QED
  BY <1>2, <1>3 DEF Validate, At

LEMMA WriteFiles ==
  ASSUME TypeOK, JobInv, FileInv, [Next]_vars, Write
  PROVE  FileInv'
<1>1. Working /\ MyDomain \in Domains /\ MyDomain' = MyDomain /\ UNCHANGED lineage
  BY StepHost, WritesType, Rows DEF Write, Working, At
<1>2. \A d \in Domains : d # MyDomain => site'[d] = site[d]
  BY DEF Write, TypeOK
<1>3. CASE At("write_http")
  <2>1. site'[MyDomain] = "http" /\ runner'.at = "reload_http" /\ runner'.previous = "none"
    BY <1>1, <1>3, WritesType DEF Write, At, TypeOK, FileInv
  <2>2. QED
    BY <1>1, <1>2, <2>1 DEF FileInv, FilesLoad, Working, Certified
<1>4. CASE At("write_tls")
  <2>1. /\ site'[MyDomain] = "tls" /\ runner'.at = "reload_tls" /\ runner'.previous = runner.previous
        /\ lineage[MyDomain] # "none"
    BY <1>1, <1>4, WritesType DEF Write, At, TypeOK, FileInv, Certified
  <2>2. QED
    BY <1>1, <1>2, <2>1 DEF FileInv, FilesLoad, Working
<1>5. QED
  BY <1>3, <1>4 DEF Write

LEMMA CertbotFiles ==
  ASSUME TypeOK, JobInv, FileInv, [Next]_vars, Certbot
  PROVE  FileInv'
<1>1. Goes("validate_issued") /\ "validate_issued" \in Stage
  BY DEF Certbot, Stage
<1>2. Working /\ MyDomain \in Domains /\ MyDomain' = MyDomain /\ UNCHANGED site
  BY <1>1, StepHost, GoesType, Rows DEF Certbot, Working, At
<1>3. lineage'[MyDomain] = "good"
  BY <1>2, IssuesType DEF Certbot
<1>4. runner'.at = "validate_issued" /\ runner'.previous = runner.previous
  BY <1>1, GoesType
<1>5. QED
  BY <1>2, <1>3, <1>4, StepHost DEF FileInv, FilesLoad, Working, Certified

LEMMA RollbackFiles ==
  ASSUME TypeOK, JobInv, FileInv, [Next]_vars, Rollback
  PROVE  FileInv'
<1>1. Goes("reload_back") /\ "reload_back" \in Stage
  BY DEF Rollback, Stage
<1>2. Working /\ MyDomain \in Domains /\ MyDomain' = MyDomain /\ UNCHANGED lineage
  BY <1>1, StepHost, GoesType, Rows DEF Rollback, Working, At
<1>3. /\ site'[MyDomain] = runner.previous
      /\ \A d \in Domains : d # MyDomain => site'[d] = site[d]
  BY <1>2 DEF Rollback, TypeOK
<1>4. runner'.at = "reload_back" /\ runner'.previous = runner.previous
  BY <1>1, GoesType
<1>5. QED
  BY <1>2, <1>3, <1>4 DEF FileInv, FilesLoad, Working, Certified

LEMMA StepFiles ==
  ASSUME TypeOK, JobInv, FileInv, [Next]_vars
  PROVE  FileInv'
<1> DEFINE Still == UNCHANGED <<runner, site>>
<1>1. CASE Validate \/ Write \/ Certbot \/ Rollback
  BY <1>1, ValidateFiles, WriteFiles, CertbotFiles, RollbackFiles
<1>2. CASE StartRun \/ Reconciled
  <2>1. PICK s \in {"reconcile", "claim"} : Goes(s)
    BY <1>2 DEF StartRun, Reconciled
  <2>2. runner'.at \in {"reconcile", "claim"} /\ runner'.previous = runner.previous
    BY <2>1, GoesType DEF Stage
  <2>3. ~Working /\ UNCHANGED site
    BY <1>2 DEF StartRun, Reconciled, At, Working, host, nginx
  <2>4. QED
    BY <2>2, <2>3, StepHost DEF FileInv, FilesLoad, Certified
<1>3. CASE NothingToClaim \/ Fail \/ Killed
  BY <1>3, RunnerSleeps DEF NothingToClaim, Fail, Killed, host, nginx
<1>4. ASSUME NEW j \in Jobs, Claim(j) PROVE FileInv'
  <2>1. CASE runner' = [Asleep EXCEPT !.at = "validate", !.job = j]
    BY <1>4, <2>1, ClaimsType, StepHost DEF Claim, FileInv, FilesLoad, Certified, host, nginx
  <2>2. CASE Sleeps
    BY <1>4, <2>2, RunnerSleeps DEF Claim, host, nginx
  <2>3. CASE Still
    BY <2>3, RunnerStays
  <2>4. QED
    BY <1>4, <2>1, <2>2, <2>3 DEF Claim, host, nginx
<1>5. CASE Reload
  <2>1. PICK s \in {"certbot", "probe", "fail"} :
          Goes(s) /\ (s = "probe" => runner.at \in Certified)
    BY <1>5 DEF Reload, At, Certified
  <2>2. s \in Stage /\ s \notin {"idle", "reconcile", "claim", "write_http"}
    BY DEF Stage
  <2>3. QED
    BY <1>5, <2>1, <2>2, RunnerGoes DEF Reload, Working, At, Certified
<1>6. CASE Probe
  <2>1. Goes("validate_probed") /\ "validate_probed" \in Stage /\ runner.at \in Certified
    BY <1>6 DEF Probe, Stage, At, Certified
  <2>2. QED
    BY <1>6, <2>1, RunnerGoes DEF Probe, Working, At, host, nginx
<1>7. CASE Complete
  <2>1. CASE Sleeps
    BY <1>7, <2>1, RunnerSleeps DEF Complete, host, nginx
  <2>2. CASE Goes("rollback")
    <3>1. "rollback" \in Stage /\ "rollback" \notin Certified
      BY DEF Stage, Certified
    <3>2. QED
      BY <1>7, <2>2, <3>1, RunnerGoes DEF Complete, Working, At, host, nginx
  <2>3. QED
    BY <1>7, <2>1, <2>2 DEF Complete
<1>8. CASE Breaks \/ RollbackBreaks
  <2>1. PICK s \in {"rollback", "fail"} : Goes(s)
    BY <1>8 DEF Breaks, RollbackBreaks
  <2>2. s \in Stage /\ s \notin Certified
    BY DEF Stage, Certified
  <2>3. QED
    BY <1>8, <2>1, <2>2, RunnerGoes DEF Breaks, RollbackBreaks, Working, Trying, host, nginx
<1>9. CASE Still
  BY <1>9, RunnerStays
<1>10. QED
  BY <1>1, <1>2, <1>3, <1>4, <1>5, <1>6, <1>7, <1>8, <1>9
  DEF Next, RunnerStep, World, Enqueue, Verify, Activate, Withdraw, Acts, ReconcileJob, Refresh,
      Expires, CoolsDown, FallsDue, Repoint, Lapse, OldLapses, Renew, RunHook, host, nginx, rows, vars

LEMMA InitFiles == Init => FileInv
BY DEF Init, FileInv, FilesLoad, Asleep, Certified

THEOREM FilesSound == Spec => [](TypeOK /\ JobInv /\ FileInv)
<1>1. Init => TypeOK /\ JobInv /\ FileInv
  BY InitTypes, InitJobs, InitFiles
<1>2. TypeOK /\ JobInv /\ FileInv /\ [Next]_vars => (TypeOK /\ JobInv /\ FileInv)'
  BY StepTypes, StepJobs, StepFiles
<1>3. QED
  BY <1>1, <1>2, PTL DEF Spec

\* Wherever the runner is killed, no file is left that names a certificate which
\* is not there, so that nginx can always load what the other shops wrote.
THEOREM NginxLoads == Spec => []FilesLoad
<1>1. FileInv => FilesLoad
  BY DEF FileInv
<1>2. QED
  BY <1>1, FilesSound, PTL

\* A job that found its host serving TLS never takes it away.
THEOREM RenewalServes == Spec => ServesThroughRenewal
<1>1. TypeOK /\ FileInv /\ [Next]_vars =>
        [runner.previous = "tls" /\ loaded[MyDomain] = "tls" => loaded'[MyDomain] = "tls"]_vars
  <2> SUFFICES ASSUME TypeOK, FileInv, [Next]_vars, runner.previous = "tls", loaded[MyDomain] = "tls"
               PROVE  loaded'[MyDomain] = "tls"
    OBVIOUS
  <2>1. Working /\ MyDomain \in Domains /\ site[MyDomain] = "tls"
    BY Rows DEF FileInv
  <2>2. CASE UNCHANGED loaded
    BY <2>2
  <2>3. CASE Reload
    BY <2>1, <2>3 DEF Reload, Loads
  <2>4. ASSUME NEW d \in Domains, RunHook(d) PROVE loaded' = loaded
    BY <2>1, <2>4 DEF RunHook, Working, At, nginx
  <2>5. QED
    BY <2>2, <2>3, <2>4 DEF Next, RunnerStep, World, Enqueue, Verify, Activate, Withdraw, Acts,
      StartRun, ReconcileJob, Refresh, Claim, NothingToClaim, Reconciled, Validate, Write,
      Certbot, Probe, Complete, Breaks, Rollback, RollbackBreaks, Fail, Killed,
      Expires, CoolsDown, FallsDue, Repoint, Lapse, OldLapses, Renew, host, nginx, vars
<1>2. QED
  BY <1>1, FilesSound, PTL DEF Spec, ServesThroughRenewal
=============================================================================
