----------------------------- MODULE LeaseStore -----------------------------
(***************************************************************************)
(* The table demand_jobs and the statements PGStore runs on it              *)
(* (internal/lease/pg_store.go, configs/schema.sql).  Every method is one   *)
(* SQL statement on one row, hence one atomic action; the callers are       *)
(* arbitrary: any agent id, any token, any time to live.                    *)
(*                                                                          *)
(* Time is relative: the column lease_expires_at is kept as the number of   *)
(* seconds until it, so the predicate lease_expires_at < now() is           *)
(* expires < 0, and the clock is the action Tick.  A lease that has been    *)
(* expired for more than Grace seconds is kept at Past.                     *)
(***************************************************************************)
EXTENDS Integers

CONSTANTS Jobs,       \* ids of demand_jobs
          Agents,     \* agent ids (libp2p peer ids, fresh at every start)
          TTLs,       \* the lease durations callers ask for, in seconds
          MaxToken,   \* bound: claims granted for one job
          Grace,      \* the 3 seconds of requeueLoop's comment
          NULL        \* SQL NULL

ASSUME TTLAssumption == TTLs \subseteq Nat
ASSUME BoundAssumption == MaxToken \in Nat /\ Grace \in Nat
ASSUME NullAssumption == NULL \notin Agents /\ NULL \notin Int

VARIABLE rows         \* rows[j]: job j's row; status "absent" when there is none

Leased == {"assigned", "running"}
Final == {"succeeded", "failed"}
Statuses == {"absent", "queued"} \cup Leased \cup Final

Tokens == 0..MaxToken
Past == -(Grace + 1)
Expiries == {e \in Int : e >= Past} \cup {NULL}

\* The columns result_root_cid, artifacts and metrics are opaque to the code:
\* they are abstracted to the identity of the report that wrote them.
Report == [agent : Agents, token : Tokens]

Row == [status   : Statuses,
        agent    : Agents \cup {NULL},
        expires  : Expiries,
        token    : Tokens,
        retry    : Nat,
        manifest : BOOLEAN,
        result   : Report \cup {NULL}]

NoRow == [status |-> "absent", agent |-> NULL, expires |-> NULL, token |-> 0,
          retry |-> 0, manifest |-> FALSE, result |-> NULL]

StoreInit == rows = [j \in Jobs |-> NoRow]

-----------------------------------------------------------------------------
(***************************************************************************)
(* WHERE clauses.                                                           *)
(***************************************************************************)
Exists(r) == r.status # "absent"

LeaseExpired(r) == r.expires # NULL /\ r.expires < 0

ClaimableIfExpired(r) == Exists(r) /\ (r.expires = NULL \/ LeaseExpired(r))

Claimable(r) == r.status = "queued" /\ (r.expires = NULL \/ LeaseExpired(r))

Renewable(r, a, t) == Exists(r) /\ r.agent = a /\ r.token = t

FinishableAnyToken(r, a, t) == Exists(r) /\ (r.agent = a \/ r.agent = NULL)

Finishable(r, a, t) ==
  Exists(r) /\ (r.agent = a \/ r.agent = NULL) /\ r.token <= t

ExpirableAnyTime(r) == r.status \in Leased

\* ListExpiredLeases takes a cutoff and never uses it.
Expirable(r) == r.status \in Leased /\ LeaseExpired(r)

-----------------------------------------------------------------------------
(***************************************************************************)
(* The statements that write.                                               *)
(***************************************************************************)
CreateJobNoStatus(j) ==
  /\ ~Exists(rows[j])
  /\ rows' = [rows EXCEPT ![j] = [rows[j] EXCEPT !.status = ""]]

CreateJobUpsert(j) ==
  rows' = [rows EXCEPT ![j] = [rows[j] EXCEPT !.status = "queued"]]

CreateJob(j) ==          \* ON CONFLICT DO NOTHING: an existing row stays
  /\ ~Exists(rows[j])
  /\ rows' = [rows EXCEPT ![j] = [rows[j] EXCEPT !.status = "queued"]]

AttachManifest(j) ==
  /\ Exists(rows[j])
  /\ rows' = [rows EXCEPT ![j] = [rows[j] EXCEPT !.manifest = TRUE]]

TryClaimSameToken(j, a, ttl) ==
  /\ Claimable(rows[j])
  /\ rows[j].token < MaxToken
  /\ rows' = [rows EXCEPT ![j] = [rows[j] EXCEPT !.agent = a,
                                                 !.expires = ttl,
                                                 !.status = "assigned"]]

TryClaim(j, a, ttl) ==
  /\ Claimable(rows[j])
  /\ rows[j].token < MaxToken
  /\ rows' = [rows EXCEPT ![j] = [rows[j] EXCEPT !.agent = a,
                                                 !.expires = ttl,
                                                 !.token = @ + 1,
                                                 !.status = "assigned"]]

Heartbeat(j, a, t, ttl) ==
  /\ Renewable(rows[j], a, t)
  /\ rows' = [rows EXCEPT ![j] = [rows[j] EXCEPT !.expires = ttl,
                                                 !.status = "running"]]

FinishKeepingHolder(j, a, t, succeeded) ==
  /\ Finishable(rows[j], a, t)
  /\ rows' = [rows EXCEPT ![j] = [rows[j] EXCEPT !.status = IF succeeded THEN "succeeded" ELSE "failed",
                                                 !.result = [agent |-> a, token |-> t],
                                                 !.expires = NULL]]

Finish(j, a, t, succeeded) ==
  /\ Finishable(rows[j], a, t)
  /\ rows' = [rows EXCEPT ![j] = [rows[j] EXCEPT !.status = IF succeeded THEN "succeeded" ELSE "failed",
                                                 !.result = [agent |-> a, token |-> t],
                                                 !.agent = NULL,
                                                 !.expires = NULL]]

SetStatusQueuedUnchecked(j) ==
  /\ Exists(rows[j])
  /\ rows[j].status \notin Final
  /\ rows[j].retry <= MaxToken
  /\ rows' = [rows EXCEPT ![j] = [rows[j] EXCEPT !.status = "queued",
                                                 !.agent = NULL,
                                                 !.expires = NULL,
                                                 !.retry = @ + 1]]

SetStatusQueued(j) ==
  /\ Expirable(rows[j])
  /\ rows' = [rows EXCEPT ![j] = [rows[j] EXCEPT !.status = "queued",
                                                 !.agent = NULL,
                                                 !.expires = NULL,
                                                 !.retry = @ + 1]]

\* PostgreSQL's now() moves on by one second.
Tick ==
  rows' = [j \in Jobs |->
            [rows[j] EXCEPT !.expires =
               IF @ = NULL \/ @ = Past THEN @ ELSE @ - 1]]

-----------------------------------------------------------------------------
(***************************************************************************)
(* The statements that read.                                                *)
(***************************************************************************)
ListExpiredLeases == {j \in Jobs : Expirable(rows[j])}

ListQueued == {j \in Jobs : rows[j].status = "queued"}

\* Why a claim was refused, read from the row after the UPDATE matched none.
ClaimError(r) ==
  CASE ~Exists(r)  -> "ErrJobNotFound"
    [] Exists(r) /\ ~r.manifest -> "ErrNoManifest"
    [] OTHER -> "ErrLeaseConflict"

-----------------------------------------------------------------------------
StoreNext ==
  \/ Tick
  \/ \E j \in Jobs :
       \/ CreateJob(j)
       \/ AttachManifest(j)
       \/ SetStatusQueued(j)
       \/ \E a \in Agents :
            \/ \E ttl \in TTLs : TryClaim(j, a, ttl)
            \/ \E t \in Tokens :
                 \/ \E ttl \in TTLs : Heartbeat(j, a, t, ttl)
                 \/ \E ok \in BOOLEAN : Finish(j, a, t, ok)

StoreSpec == StoreInit /\ [][StoreNext]_rows

-----------------------------------------------------------------------------
(***************************************************************************)
(* Properties.                                                              *)
(***************************************************************************)

\* Every row has the columns of configs/schema.sql, with values the code knows.
StoreTypeOK == rows \in [Jobs -> Row]

\* The lease columns agree with the status after any sequence of calls: an
\* assigned or running row names its holder and an expiry, every other row has
\* NULL in both.  Heartbeat checks neither status nor expiry and Finish accepts
\* a row without holder; this is what makes both safe on a finished row.
LeaseShape ==
  \A j \in Jobs :
    /\ rows[j].status \in Leased <=> rows[j].agent # NULL
    /\ rows[j].status \in Leased <=> rows[j].expires # NULL

\* retry_count counts leases that were granted and then lost, each at most
\* once: it stays below the number of claims while a lease is out, so the
\* requeue loop never charges the same expired lease to a job twice.
RetryCountsLostLeases ==
  \A j \in Jobs :
    /\ rows[j].retry <= rows[j].token
    /\ rows[j].status \in Leased => rows[j].retry < rows[j].token

\* SetStatusQueued never takes a lease that is still valid away from its
\* holder, even if the caller decided to requeue before the holder renewed it.
LapseOnlyExpired ==
  [][\A j \in Jobs :
       (rows[j].status \in Leased /\ rows'[j].status = "queued")
         => LeaseExpired(rows[j])]_rows

\* The table implements the ownership promise: one holder, a new token for
\* every acquisition, no handover without a lapse, no lease after completion.
Lease == INSTANCE JobLease WITH
           holder <- [j \in Jobs |-> rows[j].agent],
           epoch  <- [j \in Jobs |-> rows[j].token],
           done   <- {j \in Jobs : rows[j].status \in Final}

ImplementsJobLease == Lease!Spec
=============================================================================
