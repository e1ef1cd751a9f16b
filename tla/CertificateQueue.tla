-------------------------- MODULE CertificateQueue --------------------------
(***************************************************************************)
(* HTTPS certificates of the shops' own domains.  The API queues jobs      *)
(* (backend/services/tenant_domain_ssl_service.py) and publishes domains   *)
(* (tenant_domain_service.py); a root runner started by a timer            *)
(* (scripts/tenant-domain-ssl.py) claims a job, writes the host's nginx    *)
(* configuration, calls Certbot and reports back.                          *)
(*                                                                         *)
(* Every operation on a domain or its jobs locks the domain's row before   *)
(* it reads (_domain, claim, _lease, reconcile), so each is one step.  The *)
(* runner holds the maintenance lock of the host, so there is one; its     *)
(* calls may commit and their answer be lost, and it may be killed between *)
(* any two steps.                                                          *)
(***************************************************************************)
EXTENDS Naturals, FiniteSets

CONSTANTS
  Domains,     \* tenant_domains rows
  Keys,        \* idempotency keys of certificate requests
  Jobs,        \* bound: ids of tenant_domain_certificate_jobs rows
  Nothing,     \* no job, no domain
  MaxActions   \* bound: how often the administrator acts on the domains

ASSUME CertificateAssumption ==
  /\ Nothing \notin Jobs /\ Jobs # {}
  /\ MaxActions \in Nat

VARIABLES
  domain,   \* tenant_domains rows
  job,      \* tenant_domain_certificate_jobs rows
  expired,  \* running jobs whose lease_expires_at has passed
  cooling,  \* domains with a job younger than the cooldown
  due,      \* domains last checked more than fifteen minutes ago
  runner,   \* where the runner is, and with what
  site,     \* the nginx file of a host in /etc/nginx/conf.d
  loaded,   \* the configuration of a host that nginx runs with
  shown,    \* the certificate nginx has read for a host, as it compares to lineage
  lineage,  \* the certificate Certbot keeps of a host
  hook,     \* renewed hosts whose deploy hook waits for the maintenance lock
  dns,      \* the host's records point to this platform only
  actions   \* how often the administrator has acted

vars == <<domain, job, expired, cooling, due, runner, site, loaded, shown, lineage, hook,
          dns, actions>>

rows   == <<domain, job, expired, cooling, due>>
nginx  == <<loaded, shown>>
host   == <<site, nginx, lineage, hook>>

Vhost == {"none", "http", "tls"}
Shown == {"none", "good", "old", "lapsed"}  \* "old": an earlier one than lineage, still valid

DomainRow ==
  [ status   : {"awaiting_dns", "dns_error", "verified", "active", "suspended", "removed"},
    verified : BOOLEAN,                       \* verified_at is set
    ssl      : {"pending", "active", "error"},
    issued   : BOOLEAN ]                      \* ssl_issued_at is set

JobRow == [ domain : Domains, key : Keys, status : {"queued", "running", "succeeded", "failed"} ]
NoJob  == [ status |-> "absent" ]

Stage ==
  { "idle", "reconcile", "claim", "validate", "write_http", "reload_http", "certbot",
    "validate_issued", "write_tls", "reload_tls", "probe", "validate_probed", "complete",
    "rollback", "reload_back", "fail" }

RunnerState ==
  [ at : Stage, job : Jobs \cup {Nothing}, previous : Vhost, mutated : BOOLEAN ]
Asleep == [ at |-> "idle", job |-> Nothing, previous |-> "none", mutated |-> FALSE ]

TypeOK ==
  /\ domain  \in [Domains -> DomainRow]
  /\ job     \in [Jobs -> JobRow \cup {NoJob}]
  /\ expired \subseteq Jobs
  /\ cooling \subseteq Domains
  /\ due     \subseteq Domains
  /\ runner  \in RunnerState
  /\ site    \in [Domains -> Vhost]
  /\ loaded  \in [Domains -> Vhost]
  /\ shown   \in [Domains -> Shown]
  /\ lineage \in [Domains -> {"none", "good", "lapsed"}]
  /\ hook    \subseteq Domains
  /\ dns     \in [Domains -> BOOLEAN]
  /\ actions \in 0..MaxActions
  /\ runner.at \notin {"idle", "reconcile", "claim"} =>
       runner.job \in Jobs /\ job[runner.job] # NoJob

Init ==
  /\ domain  = [d \in Domains |-> [status |-> "awaiting_dns", verified |-> FALSE,
                                   ssl |-> "pending", issued |-> FALSE]]
  /\ job     = [j \in Jobs |-> NoJob]
  /\ expired = {} /\ cooling = {} /\ due = {}
  /\ runner  = Asleep
  /\ site    = [d \in Domains |-> "none"]
  /\ loaded  = [d \in Domains |-> "none"]
  /\ shown   = [d \in Domains |-> "none"]
  /\ lineage = [d \in Domains |-> "none"]
  /\ hook    = {}
  /\ dns     \in [Domains -> BOOLEAN]
  /\ actions = 0

-----------------------------------------------------------------------------
(* What the operations share.                                              *)

Open(j)     == job[j].status \in {"queued", "running"}
Ended(j)    == job[j].status \in {"succeeded", "failed"}
JobsOf(d)   == { j \in Jobs : job[j] # NoJob /\ job[j].domain = d }

\* _eligible: the tenant is active in this model.
Eligible(d) == domain[d].status \in {"verified", "active"} /\ domain[d].verified

\* resolve_public_addresses accepts the host.
Resolves(d) == dns[d]

\* probe_certificate succeeds: nginx serves a certificate that is valid now.
Served(d)   == dns[d] /\ loaded[d] = "tls" /\ shown[d] \in {"good", "old"}

\* Mutant: an expired lease, or a job that has ended, is as good as any.
LeaseUnasked(j) == job[j] # NoJob

\* _lease: the runner that claimed the job is the one that has its token.
LeaseHeld(j)  == job[j].status = "running" /\ j \notin expired
Validates(j)  == LET d == job[j].domain IN Eligible(d) /\ Resolves(d)

\* Mutant: only a job that is still open answers for its key.
EarlierOpen(d, k) == { j \in JobsOf(d) : job[j].key = k /\ Open(j) }

Earlier(d, k) == { j \in JobsOf(d) : job[j].key = k }

\* Mutant: a job somebody works on no longer stands in the way of another.
OpenQueued(d) == { j \in JobsOf(d) : job[j].status = "queued" }
OpenJobs(d) == { j \in JobsOf(d) : Open(j) }

\* _finish_success and _finish_failure, on the row `old` of the domain.
Secured(old) == [old EXCEPT !.ssl = "active", !.issued = TRUE]
Unsecured(old) == [old EXCEPT !.ssl = IF @ = "active" THEN "active" ELSE "error"]

Succeeds(j, d) ==
  /\ job'     = [job EXCEPT ![j].status = "succeeded"]
  /\ domain'  = [domain EXCEPT ![d] = Secured(@)]
  /\ expired' = expired \ {j}
  /\ due'     = due \ {d}

Fails(j, d) ==
  /\ job'     = [job EXCEPT ![j].status = "failed"]
  /\ domain'  = [domain EXCEPT ![d] = Unsecured(@)]
  /\ expired' = expired \ {j}
  /\ UNCHANGED due

-----------------------------------------------------------------------------
(* Requests of administrators.                                             *)

\* A new row.
Fresh == CHOOSE j \in Jobs : job[j] = NoJob \/ \A i \in Jobs : job[i] # NoJob

\* enqueue: a known key returns its job, an open job is returned as it is; both
\* change nothing.  A certificate that is served already is adopted at once.
Enqueue(d, k) ==
  LET j == Fresh IN
  /\ job[j] = NoJob
  /\ Earlier(d, k) = {}
  /\ Eligible(d) /\ Resolves(d)
  /\ OpenJobs(d) = {}
  /\ Served(d) \/ d \notin cooling
  /\ cooling' = cooling \cup {d}
  /\ IF Served(d)
       THEN /\ job'    = [job EXCEPT ![j] = [domain |-> d, key |-> k, status |-> "succeeded"]]
            /\ domain' = [domain EXCEPT ![d] = Secured(@)]
            /\ due'    = due \ {d}
       ELSE /\ job'    = [job EXCEPT ![j] = [domain |-> d, key |-> k, status |-> "queued"]]
            /\ domain' = [domain EXCEPT ![d].ssl = IF @ = "active" THEN @ ELSE "pending"]
            /\ UNCHANGED due
  /\ UNCHANGED <<expired, runner, host, dns, actions>>

\* domain_action: locks the domain, which must not have been removed.
Acts(d) ==
  /\ domain[d].status # "removed"
  /\ actions < MaxActions
  /\ actions' = actions + 1
  /\ UNCHANGED <<job, expired, cooling, runner, host, dns>>

\* verify_dns: the TXT record is found or not, whatever the domain's status was.
Verify(d, found) ==
  /\ Acts(d)
  /\ domain' = [domain EXCEPT ![d].status   = IF found THEN "verified" ELSE "dns_error",
                              ![d].verified = @ \/ found]
  /\ due'    = due \ {d}

Activate(d) ==
  /\ Acts(d)
  /\ domain[d].status = "verified" /\ domain[d].ssl = "active"
  /\ Eligible(d) /\ Served(d)
  /\ domain' = [domain EXCEPT ![d].status = "active"]
  /\ UNCHANGED due

Withdraw(d, status) ==      \* suspend, remove
  /\ Acts(d)
  /\ domain' = [domain EXCEPT ![d].status = status]
  /\ UNCHANGED due

-----------------------------------------------------------------------------
(* The runner: reconcile, claim one job, process it.                       *)

At(stage)  == runner.at = stage
Goes(stage) == runner' = [runner EXCEPT !.at = stage]
Sleeps     == runner' = Asleep
Mine       == runner.job
MyDomain   == job[runner.job].domain

StartRun ==
  /\ At("idle")
  /\ Goes("reconcile")
  /\ UNCHANGED <<rows, host, dns, actions>>

\* Mutant: a job that cannot be validated is left for the next run.
ReconcileServed(j) ==
  /\ At("reconcile")
  /\ job[j].status = "running" /\ j \in expired
  /\ Validates(j) /\ Served(job[j].domain)
  /\ Succeeds(j, job[j].domain)
  /\ UNCHANGED <<cooling, runner, host, dns, actions>>

\* reconcile, first half: a job whose lease ran out ends by what is served.
ReconcileJob(j) ==
  /\ At("reconcile")
  /\ job[j].status = "running" /\ j \in expired
  /\ IF Validates(j) /\ Served(job[j].domain)
       THEN Succeeds(j, job[j].domain)
       ELSE Fails(j, job[j].domain)
  /\ UNCHANGED <<cooling, runner, host, dns, actions>>

\* Mutant: a certificate that cannot be seen leaves the row as it is.
RefreshKindly(d) ==
  /\ At("reconcile")
  /\ d \in due /\ domain[d].status \in {"verified", "active"} /\ domain[d].issued
  /\ domain' = [domain EXCEPT ![d].ssl = IF Eligible(d) /\ Served(d) THEN "active" ELSE @]
  /\ due'    = due \ {d}
  /\ UNCHANGED <<job, expired, cooling, runner, host, dns, actions>>

\* reconcile, second half: what the domain's row says of its certificate is
\* compared with what is served.
Refresh(d) ==
  /\ At("reconcile")
  /\ d \in due /\ domain[d].status \in {"verified", "active"} /\ domain[d].issued
  /\ domain' = [domain EXCEPT ![d].ssl = IF Eligible(d) /\ Served(d) THEN "active" ELSE "error"]
  /\ due'    = due \ {d}
  /\ UNCHANGED <<job, expired, cooling, runner, host, dns, actions>>

\* All done, or the deadline of a minute has passed.
Reconciled ==
  /\ At("reconcile")
  /\ Goes("claim")
  /\ UNCHANGED <<rows, host, dns, actions>>

Claim(j) ==
  /\ At("claim")
  /\ job[j].status = "queued"
  /\ UNCHANGED <<cooling, host, dns, actions>>
  /\ \/ /\ Validates(j)
        /\ job' = [job EXCEPT ![j].status = "running"]
        /\ \/ runner' = [Asleep EXCEPT !.at = "validate", !.job = j]
           \/ Sleeps                                    \* the answer is lost
        /\ UNCHANGED <<domain, expired, due>>
     \/ /\ ~Validates(j)
        /\ Fails(j, job[j].domain)
        /\ UNCHANGED runner

NothingToClaim ==
  /\ At("claim")
  /\ \A j \in Jobs : job[j].status # "queued"
  /\ Sleeps
  /\ UNCHANGED <<rows, host, dns, actions>>

\* The stages of process_job in which an exception leads to the rollback.
Trying ==
  { "validate", "write_http", "reload_http", "certbot", "validate_issued", "write_tls",
    "reload_tls", "probe", "validate_probed", "complete" }

\* An exception: a refusal of the queue, of Certbot, of nginx, a lost answer.
Breaks ==
  /\ runner.at \in Trying
  /\ Goes(IF runner.mutated THEN "rollback" ELSE "fail")
  /\ UNCHANGED <<rows, host, dns, actions>>

\* Mutant: the challenge's file is written whether the host has a file or not.
ValidateAnew ==
  /\ runner.at \in {"validate", "validate_issued", "validate_probed"}
  /\ LeaseHeld(Mine) /\ Validates(Mine)
  /\ \/ /\ At("validate")
        /\ runner' = [runner EXCEPT !.at = "write_http", !.previous = site[MyDomain]]
     \/ At("validate_issued") /\ Goes("write_tls")
     \/ At("validate_probed") /\ Goes("complete")
  /\ UNCHANGED <<rows, host, dns, actions>>

\* Which validation leads where; the first one looks for an earlier file.
Validate ==
  /\ runner.at \in {"validate", "validate_issued", "validate_probed"}
  /\ LeaseHeld(Mine) /\ Validates(Mine)
  /\ \/ /\ At("validate")
        /\ runner' = [runner EXCEPT
             !.at = IF site[MyDomain] = "none" THEN "write_http" ELSE "certbot",
             !.previous = site[MyDomain]]
     \/ At("validate_issued") /\ Goes("write_tls")
     \/ At("validate_probed") /\ Goes("complete")
  /\ UNCHANGED <<rows, host, dns, actions>>

Write ==
  /\ \/ At("write_http") /\ site' = [site EXCEPT ![MyDomain] = "http"]
     \/ At("write_tls")  /\ site' = [site EXCEPT ![MyDomain] = "tls"]
  /\ runner' = [runner EXCEPT !.mutated = TRUE,
                              !.at = IF @ = "write_http" THEN "reload_http" ELSE "reload_tls"]
  /\ UNCHANGED <<rows, nginx, lineage, hook, dns, actions>>

\* nginx -t reads every file; a certificate that is not there refuses them all.
ConfigLoads == \A d \in Domains : site[d] = "tls" => lineage[d] # "none"

\* nginx reads the files, and with them the certificates.
Loads ==
  /\ loaded' = site
  /\ shown'  = [d \in Domains |-> IF site[d] = "tls" THEN lineage[d] ELSE "none"]

Reload ==
  /\ ConfigLoads
  /\ \/ At("reload_http") /\ Goes("certbot")
     \/ At("reload_tls")  /\ Goes("probe")
     \/ At("reload_back") /\ Goes("fail")
  /\ Loads
  /\ UNCHANGED <<rows, site, lineage, hook, dns, actions>>

\* Mutant: the certificate's file is written before there is a certificate.
CertbotLater ==
  /\ At("certbot")
  /\ dns[MyDomain] /\ loaded[MyDomain] # "none"
  /\ Goes("validate_issued")
  /\ UNCHANGED <<rows, host, dns, actions>>

\* Certbot's certificate of d is a new one, and what nginx has read is not it.
Issues(d) ==
  /\ dns[d] /\ loaded[d] # "none"
  /\ lineage' = [lineage EXCEPT ![d] = "good"]
  /\ shown'   = [shown EXCEPT ![d] = IF @ = "good" THEN "old" ELSE @]

\* certbot certonly: the challenge has to be reachable over HTTP.  A certificate
\* that is good for long is kept; the hook is not called (--no-directory-hooks).
Certbot ==
  /\ At("certbot")
  /\ \/ Issues(MyDomain)
     \/ lineage[MyDomain] = "good" /\ UNCHANGED <<lineage, shown>>
  /\ Goes("validate_issued")
  /\ UNCHANGED <<rows, site, loaded, hook, dns, actions>>

Probe ==
  /\ At("probe")
  /\ Served(MyDomain)
  /\ Goes("validate_probed")
  /\ UNCHANGED <<rows, host, dns, actions>>

Complete ==
  /\ At("complete")
  /\ LeaseHeld(Mine) /\ Validates(Mine) /\ Served(MyDomain)
  /\ Succeeds(Mine, MyDomain)
  /\ \/ Sleeps
     \/ Goes("rollback")                                \* the answer is lost
  /\ UNCHANGED <<cooling, host, dns, actions>>

\* The file that was there comes back, or there is none again.
Rollback ==
  /\ At("rollback")
  /\ site' = [site EXCEPT ![MyDomain] = runner.previous]
  /\ Goes("reload_back")
  /\ UNCHANGED <<rows, nginx, lineage, hook, dns, actions>>

\* What goes wrong while rolling back is reported as any other failure.
RollbackBreaks ==
  /\ runner.at \in {"rollback", "reload_back"}
  /\ Goes("fail")
  /\ UNCHANGED <<rows, host, dns, actions>>

\* fail: refused without a lease; either way the run is over.
Fail ==
  /\ At("fail")
  /\ IF LeaseHeld(Mine) THEN Fails(Mine, MyDomain) ELSE UNCHANGED <<domain, job, expired, due>>
  /\ Sleeps
  /\ UNCHANGED <<cooling, host, dns, actions>>

\* Killed by systemd or with the machine, or an unanswered call to the queue.
Killed ==
  /\ ~At("idle")
  /\ Sleeps
  /\ UNCHANGED <<rows, host, dns, actions>>

RunnerStep ==
  \/ (\E j \in Jobs : Claim(j)) \/ NothingToClaim \/ Reconciled
  \/ Validate \/ Write \/ Reload \/ Certbot \/ Probe \/ Complete
  \/ Breaks \/ Rollback \/ RollbackBreaks \/ Fail \/ Killed

-----------------------------------------------------------------------------
(* The world: clocks, DNS, certificates that lapse and are renewed.        *)

Expires(j) ==      \* TENANT_DOMAIN_SSL_LEASE_SECONDS
  /\ job[j].status = "running" /\ j \notin expired
  /\ expired' = expired \cup {j}
  /\ UNCHANGED <<domain, job, cooling, due, runner, host, dns, actions>>

CoolsDown(d) ==    \* TENANT_DOMAIN_SSL_COOLDOWN_SECONDS; looked at between jobs only
  /\ d \in cooling /\ OpenJobs(d) = {}
  /\ cooling' = cooling \ {d}
  /\ UNCHANGED <<domain, job, expired, due, runner, host, dns, actions>>

FallsDue(d) ==     \* looked at only once a certificate has been seen
  /\ d \notin due /\ domain[d].issued
  /\ due' = due \cup {d}
  /\ UNCHANGED <<domain, job, expired, cooling, runner, host, dns, actions>>

Repoint(d) ==
  /\ dns' = [dns EXCEPT ![d] = ~@]
  /\ UNCHANGED <<rows, runner, host, actions>>

Lapse(d) ==        \* a certificate nginx has of before lapses before it
  /\ lineage[d] = "good"
  /\ lineage' = [lineage EXCEPT ![d] = "lapsed"]
  /\ shown'   = [shown EXCEPT ![d] = IF @ \in {"good", "old"} THEN "lapsed" ELSE @]
  /\ UNCHANGED <<rows, runner, site, loaded, hook, dns, actions>>

OldLapses(d) ==
  /\ shown[d] = "old"
  /\ shown' = [shown EXCEPT ![d] = "lapsed"]
  /\ UNCHANGED <<rows, runner, site, loaded, lineage, hook, dns, actions>>

\* certbot.timer, whatever the runner does.
Renew(d) ==
  /\ lineage[d] # "none"
  /\ Issues(d)
  /\ hook' = hook \cup {d}
  /\ UNCHANGED <<rows, runner, site, loaded, dns, actions>>

\* The hook reloads nginx under the maintenance lock, or gives up waiting for it.
RunHook(d) ==
  /\ d \in hook
  /\ hook' = hook \ {d}
  /\ \/ At("idle") /\ ConfigLoads /\ Loads
     \/ UNCHANGED nginx
  /\ UNCHANGED <<rows, runner, site, lineage, dns, actions>>

World ==
  \/ \E j \in Jobs : Expires(j)
  \/ \E d \in Domains : CoolsDown(d) \/ FallsDue(d) \/ Repoint(d)
  \/ \E d \in Domains : Lapse(d) \/ OldLapses(d) \/ Renew(d) \/ RunHook(d)

-----------------------------------------------------------------------------

Next ==
  \/ \E d \in Domains, k \in Keys : Enqueue(d, k)
  \/ \E d \in Domains :
       \/ \E found \in BOOLEAN : Verify(d, found)
       \/ Activate(d)
       \/ \E status \in {"suspended", "removed"} : Withdraw(d, status)
  \/ StartRun
  \/ \E j \in Jobs : ReconcileJob(j)
  \/ \E d \in Domains : Refresh(d)
  \/ RunnerStep
  \/ World

Spec == Init /\ [][Next]_vars

\* The timer starts a run, a run goes on or dies, clocks advance.  Single runs
\* may be killed or run out of time, not every one of them before it reaches
\* an expired lease, a domain that is due or a queued job.
FairSpec ==
  /\ Spec
  /\ WF_vars(StartRun) /\ WF_vars(RunnerStep) /\ SF_vars(Reconciled)
  /\ WF_vars(\E j \in Jobs : Expires(j))
  /\ SF_vars(\E j \in Jobs : ReconcileJob(j))
  /\ SF_vars(\E j \in Jobs : Claim(j))
  /\ \A d \in Domains : WF_vars(FallsDue(d)) /\ SF_vars(Refresh(d))

-----------------------------------------------------------------------------
(* Properties.                                                             *)

\* A domain has at most one job that is queued or running, whatever requests,
\* failures and lost answers came before (enqueue, uq_domain_ssl_job_open).
OneOpenJob ==
  \A i, j \in Jobs : Open(i) /\ Open(j) /\ job[i].domain = job[j].domain => i = j

\* A request that is sent again never starts a second job, not even after the
\* first one has failed (enqueue, uq_domain_ssl_job_request).
OneJobPerKey ==
  \A i, j \in Jobs :
    /\ job[i] # NoJob /\ job[j] # NoJob
    /\ job[i].domain = job[j].domain /\ job[i].key = job[j].key
    => i = j

\* A job that ended stays as it ended: a runner that did not hear that its job
\* succeeded cannot turn it into a failure (_lease, reconcile).
JobsAreFinal ==
  [][\A j \in Jobs : Ended(j) => job'[j] = job[j]]_vars

\* Wherever the runner is killed, no file is left that keeps nginx from loading
\* the other shops' configuration (process_job).
FilesLoad ==
  \A d \in Domains : site[d] = "tls" => lineage[d] # "none"

\* A job that found its host serving TLS never takes it away, not while the
\* certificate is issued again and not when it fails (process_job).
ServesThroughRenewal ==
  [][runner.previous = "tls" /\ loaded[MyDomain] = "tls" => loaded'[MyDomain] = "tls"]_vars

\* Every job ends: a runner that dies leaves a lease that expires, and the next
\* run decides by what is served (claim, reconcile).
JobsEnd == \A j \in Jobs : Open(j) ~> Ended(j)

\* When a domain's row says HTTPS is active and it is not served - the runner
\* rolled back after a success it did not hear of, the certificate lapsed - the
\* row is corrected, or the host served again, in the end (reconcile).
TruthReturns ==
  \A d \in Domains :
    domain[d].ssl = "active" /\ ~Served(d) ~>
      \/ domain[d].ssl # "active" \/ Served(d)
      \/ domain[d].status \notin {"verified", "active"}
=============================================================================
