---------------------------- MODULE ControlPlane ----------------------------
(***************************************************************************)
(* The control server's handlers and loops (cmd/control), which write first *)
(* to the database and then, one record at a time, to the DHT, and the      *)
(* agents that find work in the DHT (pkg/agent/discover.go).                *)
(*                                                                          *)
(* Every handler runs in a goroutine of its own.  It is modelled by its     *)
(* database statement and the list todo of DHT writes still to be done; the *)
(* writes of different processes interleave.  The DHT is as benign as it    *)
(* can be: a put takes effect at once and a get returns the last put,       *)
(* except for at most MaxLost puts and gets that fail.                      *)
(*                                                                          *)
(* GetJSON calls whose result is only merged into the fields rewritten next *)
(* are part of the write that follows.                                      *)
(***************************************************************************)
EXTENDS LeaseStore, Sequences

CONSTANTS Threads,      \* bound: HTTP requests being served at a time
          MaxRequests,  \* bound: MaxRequests[op] requests of each client operation
          MaxLost,      \* bound: DHT puts and gets, and startup lists, that fail
          MaxTimeouts,  \* bound: calls an agent gives up waiting for
          MaxRestarts,  \* bound: restarts of the control process
          MaxCrashes    \* bound: agents that die

ASSUME ThreadAssumption ==
  Threads \cap {"announcer", "requeuer", "main"} = {} /\ NULL \notin Threads

VARIABLES dht,          \* dht[j]: what the DHT holds about job j
          proc,         \* proc[p]: the goroutines of the control server
          dirty,        \* AnnounceManager.dirty; nothing removes an id
          up,           \* restoreJobsFromDemand is over, HTTP is served
          torestore,    \* queued jobs restoreJobsFromDemand has still to publish
          ag,           \* ag[a]: the agents
          used          \* how much of each bound is used up

vars == <<rows, dht, proc, dirty, up, torestore, ag, used>>

Procs == Threads \cup {"announcer", "requeuer", "main"}

ClientOps == {"create", "manifest", "startup", "force", "release"}

Record == [meta   : BOOLEAN,
           state  : {"none", "queued", "assigned"} \cup Final,
           lease  : Agents \cup {NULL},
           man    : {"none", "noop", "real"},
           ad     : BOOLEAN,          \* ad/<ns>/task/<id>, not expired
           mirror : BOOLEAN,          \* p2p/<id>/manifest, not expired
           index  : BOOLEAN]          \* in one of the index shards

Unpublished == [meta |-> FALSE, state |-> "none", lease |-> NULL, man |-> "none",
                ad |-> FALSE, mirror |-> FALSE, index |-> FALSE]

Free == [op |-> "free", job |-> NULL, agent |-> NULL, token |-> 0,
         status |-> "failed", todo |-> <<>>]

Idle == [pc |-> "idle", job |-> NULL, token |-> 0, status |-> "failed", thread |-> NULL]

Init == /\ StoreInit
        /\ dht = [j \in Jobs |-> Unpublished]
        /\ proc = [p \in Procs |-> Free]
        /\ dirty = {}
        /\ up = TRUE
        /\ torestore = {}
        /\ ag = [a \in Agents |-> Idle]
        /\ used = [b \in ClientOps \cup {"lost", "timeout", "restart", "crash"} |-> 0]

Put(k, v) == [key |-> k, val |-> v]

IsFree(p) == proc[p].op = "free"

AtEnd(p, op) == proc[p].op = op /\ proc[p].todo = <<>>

Run(p, op, j, todo) ==
  proc' = [proc EXCEPT ![p] = [Free EXCEPT !.op = op, !.job = j, !.todo = todo]]

Stop(p) == proc' = [proc EXCEPT ![p] = Free]

\* One more call fails.
Lose ==
  /\ used["lost"] < MaxLost
  /\ used' = [used EXCEPT !["lost"] = @ + 1]

\* Agent a's call on thread t returns; nobody listens if the agent gave up.
Answer(t, a, r) ==
  ag' = IF ag[a].thread = t THEN [ag EXCEPT ![a] = r] ELSE ag

-----------------------------------------------------------------------------
(***************************************************************************)
(* DHT writes, one at a time.                                               *)
(***************************************************************************)
DhtPut(p) ==
  /\ proc[p].todo # <<>>
  /\ LET w == Head(proc[p].todo)
     IN  dht' = [dht EXCEPT ![proc[p].job] = [@ EXCEPT ![w.key] = w.val]]
  /\ proc' = [proc EXCEPT ![p] = [proc[p] EXCEPT !.todo = Tail(proc[p].todo)]]
  /\ UNCHANGED <<rows, dirty, up, torestore, ag, used>>

EndsOnFailure(p) ==
  \/ p.op \in {"create", "manifest"}
  \/ p.op = "force" /\ Head(p.todo).key = "state"

\* A failed put ends the handlers that check for it; createTask returns to
\* main, which goes on with the database; everyone else ignores the error.
DhtPutFails(p) ==
  /\ proc[p].todo # <<>>
  /\ Lose
  /\ \/ /\ EndsOnFailure(proc[p])
        /\ Stop(p)
     \/ /\ ~EndsOnFailure(proc[p])
        /\ proc' = [proc EXCEPT ![p] =
             [proc[p] EXCEPT !.todo = IF proc[p].op = "startup" THEN <<>>
                                                               ELSE Tail(proc[p].todo)]]
  /\ UNCHANGED <<rows, dht, dirty, up, torestore, ag>>

-----------------------------------------------------------------------------
(***************************************************************************)
(* Requests of clients and operators.                                       *)
(***************************************************************************)
PublishedNoStatus == <<Put("meta", TRUE), Put("state", ""), Put("index", TRUE)>>

Published == <<Put("meta", TRUE), Put("state", "queued"), Put("index", TRUE)>>

Requeued == <<Put("lease", NULL), Put("state", "queued")>>

Request(p, op) ==
  /\ up
  /\ IsFree(p)
  /\ used[op] < MaxRequests[op]
  /\ used' = [used EXCEPT ![op] = @ + 1]

Insert(j) == CreateJob(j) \/ (Exists(rows[j]) /\ UNCHANGED rows)

CreateTaskUnsaved(t, j) ==
  /\ Request(t, "create")
  /\ Insert(j) \/ UNCHANGED rows
  /\ Run(t, "create", j, Published)
  /\ UNCHANGED <<dht, dirty, up, torestore, ag>>

CreateTask(t, j) ==
  /\ Request(t, "create")
  /\ Insert(j)
  /\ Run(t, "create", j, Published)
  /\ UNCHANGED <<dht, dirty, up, torestore, ag>>

PostManifest(t, j) ==
  /\ Request(t, "manifest")
  /\ Run(t, "manifest", j, <<Put("man", "real"), Put("mirror", TRUE)>>)
  /\ UNCHANGED <<rows, dht, dirty, up, torestore, ag>>

ForceRequeue(t, j) ==
  /\ Request(t, "force")
  /\ dht[j].state # "none"
  /\ Run(t, "force", j, Requeued)
  /\ UNCHANGED <<rows, dht, dirty, up, torestore, ag>>

\* releaseHandler, which changes the DHT only: the caller named by the lease record
\* has it deleted (a record written by tryClaimHandler carries no nonce).
Release(t, j) ==
  /\ Request(t, "release")
  /\ dht[j].lease # NULL
  /\ Run(t, "release", j, <<Put("lease", NULL)>>)
  /\ UNCHANGED <<rows, dht, dirty, up, torestore, ag>>

\* Then the state is read again.  A finished job's state may still name the caller
\* in AssignedTo, and is reset as well; a state that cannot be read is left.
ReleaseState(t) ==
  /\ AtEnd(t, "release")
  /\ \/ /\ dht[proc[t].job].state \in {"assigned"} \cup Final
        /\ Run(t, "released", proc[t].job, <<Put("state", "queued")>>)
        /\ UNCHANGED used
     \/ /\ \/ dht[proc[t].job].state # "assigned" /\ UNCHANGED used
           \/ Lose
        /\ Stop(t)
  /\ UNCHANGED <<rows, dht, dirty, up, torestore, ag>>

\* --create: createTask puts the id only into the index agents do not read.
StartupCreate(j) ==
  /\ Request("main", "startup")
  /\ Run("main", "startup", j, <<Put("meta", TRUE), Put("state", "queued")>>)
  /\ UNCHANGED <<rows, dht, dirty, up, torestore, ag>>

RequestEnds(p) ==
  /\ LET j == proc[p].job
     IN  \/ /\ AtEnd(p, "create") \/ AtEnd(p, "force")
            /\ dirty' = dirty \cup {j}
            /\ UNCHANGED rows
         \/ /\ AtEnd(p, "startup")
            /\ Insert(j)
            /\ dirty' = dirty \cup {j}
         \/ /\ AtEnd(p, "manifest")
            /\ AttachManifest(j)
            /\ dirty' = dirty \cup {j}
         \/ /\ AtEnd(p, "manifest")     \* no such row: the handler answers 500
            /\ ~Exists(rows[j])
            /\ UNCHANGED <<rows, dirty>>
         \/ /\ AtEnd(p, "released")
            /\ UNCHANGED <<rows, dirty>>
  /\ Stop(p)
  /\ UNCHANGED <<dht, up, torestore, ag, used>>

-----------------------------------------------------------------------------
(***************************************************************************)
(* Agents.                                                                  *)
(***************************************************************************)

\* handleJob: a state that says anything but queued is skipped, an unreadable
\* one is not.
Discover(a, j) ==
  /\ ag[a].pc = "idle"
  /\ dht[j].index
  /\ \/ dht[j].state \in {"queued", "none"} /\ UNCHANGED used
     \/ dht[j].state \notin {"queued", "none"} /\ Lose
  /\ ag' = [ag EXCEPT ![a] = [Idle EXCEPT !.pc = "found", !.job = j]]
  /\ UNCHANGED <<rows, dht, proc, dirty, up, torestore>>

Advertised(j) == dht[j].ad /\ dht[j].mirror

SkipJob(a) ==
  /\ ag[a].pc = "found"
  /\ ~Advertised(ag[a].job) \/ ~up
  /\ ag' = [ag EXCEPT ![a] = Idle]
  /\ UNCHANGED <<rows, dht, proc, dirty, up, torestore, used>>

\* Agent a calls the control server; thread t serves the call.
Call(a, t, op, s) ==
  /\ up
  /\ IsFree(t)
  /\ proc' = [proc EXCEPT ![t] = [Free EXCEPT !.op = op, !.job = ag[a].job, !.agent = a,
                                              !.token = ag[a].token, !.status = s]]

SendClaim(a, t) ==
  /\ ag[a].pc = "found"
  /\ Advertised(ag[a].job)
  /\ Call(a, t, "claimDB", "failed")
  /\ ag' = [ag EXCEPT ![a] = [ag[a] EXCEPT !.pc = "claiming", !.thread = t]]
  /\ UNCHANGED <<rows, dht, dirty, up, torestore, used>>

SendHeartbeat(a, t) ==
  /\ ag[a].pc = "working"
  /\ \A u \in Threads : proc[u].agent # a
  /\ Call(a, t, "heartbeatDB", "failed")
  /\ UNCHANGED <<rows, dht, dirty, up, torestore, ag, used>>

ContainerEnds(a, s) ==
  /\ ag[a].pc = "working"
  /\ ag' = [ag EXCEPT ![a] = [ag[a] EXCEPT !.pc = "reporting", !.status = s]]
  /\ UNCHANGED <<rows, dht, proc, dirty, up, torestore, used>>

SendFinish(a, t) ==
  /\ ag[a].pc = "reporting"
  /\ Call(a, t, "finishDB", ag[a].status)
  /\ ag' = [ag EXCEPT ![a] = [ag[a] EXCEPT !.pc = "finishing", !.thread = t]]
  /\ UNCHANGED <<rows, dht, dirty, up, torestore, used>>

\* The HTTP client's timeout: the handler runs on, its answer goes nowhere.  A
\* finish is retried or, after the last attempt, given up.
CallTimesOut(a) ==
  /\ ag[a].thread # NULL
  /\ used["timeout"] < MaxTimeouts
  /\ used' = [used EXCEPT !["timeout"] = @ + 1]
  /\ \/ ag' = [ag EXCEPT ![a] = Idle]
     \/ /\ ag[a].pc = "finishing"
        /\ ag' = [ag EXCEPT ![a] = [ag[a] EXCEPT !.pc = "reporting", !.thread = NULL]]
  /\ UNCHANGED <<rows, dht, proc, dirty, up, torestore>>

Crash(a) ==
  /\ ag[a].pc # "dead"
  /\ used["crash"] < MaxCrashes
  /\ used' = [used EXCEPT !["crash"] = @ + 1]
  /\ ag' = [ag EXCEPT ![a] = [Idle EXCEPT !.pc = "dead"]]
  /\ UNCHANGED <<rows, dht, proc, dirty, up, torestore>>

-----------------------------------------------------------------------------
(***************************************************************************)
(* tryClaimHandler, heartbeatHandler, finishHandler.                        *)
(***************************************************************************)
ServeClaim(t) ==
  LET j == proc[t].job
      a == proc[t].agent
  IN  /\ proc[t].op = "claimDB"
      /\ \/ /\ \E ttl \in TTLs : TryClaim(j, a, ttl)
            /\ proc' = [proc EXCEPT ![t] =
                 [proc[t] EXCEPT !.op = "claim", !.token = rows[j].token + 1,
                                 !.todo = <<Put("state", "assigned"), Put("lease", a)>>]]
         \/ /\ ~Claimable(rows[j])
            /\ proc' = [proc EXCEPT ![t] = [proc[t] EXCEPT !.op = "refused"]]
            /\ UNCHANGED rows
      /\ UNCHANGED <<dht, dirty, up, torestore, ag, used>>

\* Only now does TryClaim read the row to tell why.  The handler passes over
\* ErrNoManifest, and goes on without a lease.
ExplainRefusal(t) ==
  LET j == proc[t].job
      a == proc[t].agent
  IN  /\ proc[t].op = "refused"
      /\ \/ /\ ClaimError(rows[j]) = "ErrNoManifest"
            /\ proc' = [proc EXCEPT ![t] =
                 [proc[t] EXCEPT !.op = "claim", !.todo = <<Put("state", "assigned")>>]]
            /\ UNCHANGED ag
         \/ /\ ClaimError(rows[j]) # "ErrNoManifest"
            /\ Stop(t)
            /\ Answer(t, a, Idle)
      /\ UNCHANGED <<rows, dht, dirty, up, torestore, used>>

ClaimEndsCurrentToken(t) ==
  LET a == proc[t].agent
  IN  /\ AtEnd(t, "claim")
      /\ Stop(t)
      /\ Answer(t, a, [Idle EXCEPT !.pc = "working", !.job = proc[t].job,
                                   !.token = rows[proc[t].job].token])
      /\ UNCHANGED <<rows, dht, dirty, up, torestore, used>>

\* Without a lease, claimedLease is nil and reading it panics: net/http closes
\* the connection and the agent's call fails.
ClaimEnds(t) ==
  LET a == proc[t].agent
  IN  /\ AtEnd(t, "claim")
      /\ Stop(t)
      /\ Answer(t, a, IF proc[t].token = 0 THEN Idle
                      ELSE [Idle EXCEPT !.pc = "working", !.job = proc[t].job,
                                        !.token = proc[t].token])
      /\ UNCHANGED <<rows, dht, dirty, up, torestore, used>>

ServeHeartbeat(t) ==
  LET p == proc[t]
  IN  /\ p.op = "heartbeatDB"
      /\ \/ /\ \E ttl \in TTLs : Heartbeat(p.job, p.agent, p.token, ttl)
            /\ proc' = [proc EXCEPT ![t] =
                 [p EXCEPT !.op = "heartbeat", !.todo = <<Put("lease", p.agent)>>]]
         \/ /\ ~Renewable(rows[p.job], p.agent, p.token)
            /\ Stop(t)
            /\ UNCHANGED rows
      /\ UNCHANGED <<dht, dirty, up, torestore, ag, used>>

\* Finish does not look at RowsAffected: a refused report is answered, and
\* published, like an accepted one.
ServeFinish(t) ==
  LET p == proc[t]
  IN  /\ p.op = "finishDB"
      /\ \/ Finish(p.job, p.agent, p.token, p.status = "succeeded")
         \/ ~Finishable(rows[p.job], p.agent, p.token) /\ UNCHANGED rows
      /\ proc' = [proc EXCEPT ![t] =
           [p EXCEPT !.op = "finish",
                     !.todo = <<Put("state", p.status), Put("lease", NULL),
                                Put("ad", FALSE), Put("mirror", FALSE)>>]]
      /\ UNCHANGED <<dht, dirty, up, torestore, ag, used>>

CallEnds(t) ==
  /\ AtEnd(t, "heartbeat") \/ AtEnd(t, "finish")
  /\ Stop(t)
  /\ Answer(t, proc[t].agent, Idle)
  /\ UNCHANGED <<rows, dht, dirty, up, torestore, used>>

-----------------------------------------------------------------------------
(***************************************************************************)
(* The loops of the control process, and its restart.                       *)
(***************************************************************************)
RequeueExpired(j) ==
  /\ up
  /\ IsFree("requeuer")
  /\ SetStatusQueued(j)
  /\ Run("requeuer", "requeue", j, Requeued)
  /\ UNCHANGED <<dht, dirty, up, torestore, ag, used>>

RequeueEnds ==
  /\ AtEnd("requeuer", "requeue")
  /\ dirty' = dirty \cup {proc["requeuer"].job}
  /\ Stop("requeuer")
  /\ UNCHANGED <<rows, dht, up, torestore, ag, used>>

ReannounceRequeued ==
  /\ up
  /\ dirty' = dirty \cup {j \in ListQueued : rows[j].retry > 0}
  /\ UNCHANGED <<rows, dht, proc, up, torestore, ag, used>>

ReannounceQueued ==
  /\ up
  /\ dirty' = dirty \cup ListQueued
  /\ UNCHANGED <<rows, dht, proc, up, torestore, ag, used>>

\* announceAds.
Advertisement == <<Put("ad", TRUE), Put("mirror", TRUE)>>

\* announceOnce: the manifest is read here and the placeholder written later.  A
\* read that fails is taken for a manifest that is missing.
AnnounceOnce(j) ==
  /\ j \in dirty
  /\ IsFree("announcer")
  /\ \/ /\ dht[j].man # "none"
        /\ Run("announcer", "announce", j, Advertisement)
        /\ UNCHANGED used
     \/ /\ (dht[j].man = "none" /\ UNCHANGED used) \/ (dht[j].man # "none" /\ Lose)
        /\ Run("announcer", "announce", j, <<Put("man", "noop")>> \o Advertisement)
  /\ UNCHANGED <<rows, dht, dirty, up, torestore, ag>>

AnnounceEnds ==
  /\ AtEnd("announcer", "announce")
  /\ Stop("announcer")
  /\ UNCHANGED <<rows, dht, dirty, up, torestore, ag, used>>

\* An id in dirty is announced every 3 seconds and its ad lasts 30, so only an
\* id that the manager has forgotten loses its ad to expiry.
AdExpires(j) ==
  /\ j \notin dirty
  /\ dht[j].ad \/ dht[j].mirror
  /\ \A p \in Procs : proc[p].job # j
  /\ dht' = [dht EXCEPT ![j] = [@ EXCEPT !.ad = FALSE, !.mirror = FALSE]]
  /\ UNCHANGED <<rows, proc, dirty, up, torestore, ag, used>>

\* The process dies: every goroutine, open connection and the dirty set is gone;
\* a call cut off this way is not repeated, not even a finish.  The next process
\* starts by listing the queued jobs.  DHT records are kept in memory: all of them
\* are gone if no other node served the DHT.
ControlRestart ==
  /\ used["restart"] < MaxRestarts
  /\ used' = [used EXCEPT !["restart"] = @ + 1]
  /\ proc' = [p \in Procs |-> Free]
  /\ dirty' = {}
  /\ up' = FALSE
  /\ torestore' = ListQueued
  /\ ag' = [a \in Agents |-> IF ag[a].thread # NULL THEN Idle ELSE ag[a]]
  /\ dht' \in {dht, [j \in Jobs |-> Unpublished]}
  /\ UNCHANGED rows

\* The queued jobs cannot be listed: restoreJobsFromDemand returns with nothing
\* restored.  Nothing is dirty before the first job is.
RestoreListFails ==
  /\ ~up
  /\ torestore # {}
  /\ IsFree("main")
  /\ dirty = {}
  /\ Lose
  /\ torestore' = {}
  /\ UNCHANGED <<rows, dht, proc, dirty, up, ag>>

RestoreJob(j) ==
  /\ j \in torestore
  /\ IsFree("main")
  /\ Run("main", "restore", j, Published)
  /\ UNCHANGED <<rows, dht, dirty, up, torestore, ag, used>>

RestoreEnds ==
  /\ AtEnd("main", "restore")
  /\ dirty' = dirty \cup {proc["main"].job}
  /\ torestore' = torestore \ {proc["main"].job}
  /\ Stop("main")
  /\ UNCHANGED <<rows, dht, up, ag, used>>

ServingEarly ==
  /\ ~up
  /\ up' = TRUE
  /\ UNCHANGED <<rows, dht, proc, dirty, torestore, ag, used>>

Serving ==
  /\ ~up
  /\ torestore = {}
  /\ up' = TRUE
  /\ UNCHANGED <<rows, dht, proc, dirty, torestore, ag, used>>

Clock ==
  /\ Tick
  /\ UNCHANGED <<dht, proc, dirty, up, torestore, ag, used>>

-----------------------------------------------------------------------------
ClientStep ==
  \/ \E j \in Jobs, t \in Threads :
       CreateTask(t, j) \/ PostManifest(t, j) \/ ForceRequeue(t, j) \/ Release(t, j)
  \/ \E j \in Jobs : StartupCreate(j)

AgentStep(a) ==
  \/ \E j \in Jobs : Discover(a, j)
  \/ SkipJob(a)
  \/ \E s \in Final : ContainerEnds(a, s)
  \/ \E t \in Threads : SendClaim(a, t) \/ SendFinish(a, t)

ProcStep(p) ==
  DhtPut(p) \/ RequestEnds(p)

ThreadStep(t) ==
  \/ ServeClaim(t) \/ ExplainRefusal(t) \/ ClaimEnds(t)
  \/ ServeHeartbeat(t) \/ ServeFinish(t) \/ CallEnds(t) \/ ReleaseState(t)

LoopStep ==
  \/ \E j \in Jobs : RequeueExpired(j) \/ RestoreJob(j)
  \/ RequeueEnds \/ RestoreEnds \/ Serving

Announce == (\E j \in Jobs : AnnounceOnce(j)) \/ AnnounceEnds

Disturbance ==
  \/ ControlRestart \/ RestoreListFails
  \/ \E p \in Procs : DhtPutFails(p)
  \/ \E j \in Jobs : AdExpires(j)
  \/ \E a \in Agents : \/ CallTimesOut(a) \/ Crash(a)
                       \/ \E t \in Threads : SendHeartbeat(a, t)

Next ==
  \/ ClientStep
  \/ \E a \in Agents : AgentStep(a)
  \/ \E p \in Procs : ProcStep(p)
  \/ \E t \in Threads : ThreadStep(t)
  \/ LoopStep
  \/ Announce
  \/ ReannounceQueued
  \/ Disturbance
  \/ Clock

Spec == Init /\ [][Next]_vars

\* Goroutines run, tickers fire, agents poll and containers end.
Fairness ==
  /\ \A p \in Procs : WF_vars(ProcStep(p))
  /\ \A t \in Threads : WF_vars(ThreadStep(t))
  /\ \A a \in Agents : WF_vars(AgentStep(a))
  /\ WF_vars(LoopStep)
  /\ WF_vars(Announce)
  /\ WF_vars(ReannounceQueued)
  /\ WF_vars(Clock)

FairSpec == Spec /\ Fairness

-----------------------------------------------------------------------------
(***************************************************************************)
(* Properties.                                                              *)
(***************************************************************************)

\* Every variable has the shape the code gives it.
TypeOK ==
  /\ StoreTypeOK
  /\ dht \in [Jobs -> Record]
  /\ DOMAIN proc = Procs
  /\ dirty \subseteq Jobs
  /\ up \in BOOLEAN
  /\ torestore \subseteq Jobs

\* A job that has an outcome keeps one: duplicate create requests, forced
\* requeues, late heartbeats and late reports do not bring it back, even when
\* the DHT offers it as queued.
FinishedStaysFinished ==
  [][\A j \in Jobs : rows[j].status \in Final => rows'[j].status \in Final]_vars

\* Two agents never work under the same lease: an answer tryClaimHandler gives
\* after a refusal, or to a caller that is gone, hands out no token twice.
WorkUnderOwnLease ==
  \A a, b \in Agents :
    (a # b /\ ag[a].job = ag[b].job /\ ag[a].token = ag[b].token) => ag[a].token = 0

\* The DHT never runs ahead of the database, which createTaskHandler writes first:
\* every job in the index has a row, and a claim that tryClaimHandler refuses is
\* never refused with ErrJobNotFound, however requests, restores and polls interleave.
ClaimFindsJob ==
  /\ \A j \in Jobs : dht[j].index => Exists(rows[j])
  /\ \A t \in Threads :
       proc[t].op = "refused" => ClaimError(rows[proc[t].job]) # "ErrJobNotFound"

Discoverable(j) == dht[j].state = "queued" /\ dht[j].index /\ j \in dirty

\* When the control server starts to serve, every queued job of the database
\* can be found, whatever handlers the previous process left half done and
\* whatever was left of the DHT, as long as neither the list nor a put fails.
RestoreRepublishes ==
  [][(~up /\ up' /\ used["lost"] = 0) => \A j \in ListQueued : Discoverable(j)]_vars

\* Every queued job gets an unexpired ad and manifest mirror, or is claimed, even
\* if the request that created it failed half way or the process restarted.
QueuedIsAdvertised ==
  \A j \in Jobs :
    (rows[j].status = "queued") ~> (Advertised(j) \/ rows[j].status # "queued")

\* Every queued job becomes visible to discovering agents, or is claimed.
QueuedIsDiscoverable ==
  \A j \in Jobs :
    (rows[j].status = "queued") ~> (Discoverable(j) \/ rows[j].status # "queued")

\* The DHT shows an outcome only for a job that has one in the database: a
\* report that Finish refused is not published.
OutcomeShownIsReal ==
  \A j \in Jobs : dht[j].state \in Final => rows[j].status \in Final

\* tryClaimHandler never reads a lease that TryClaim did not return.
ClaimHasLease == \A t \in Threads : AtEnd(t, "claim") => proc[t].token # 0

\* announceOnce writes its placeholder only where there is no manifest.
PlaceholderOnlyIfMissing ==
  [][\A j \in Jobs : dht[j].man = "real" => dht'[j].man = "real"]_vars

\* A finished job that no handler is working on has no lease record in the DHT.
FinishedHasNoLease ==
  \A j \in Jobs :
    rows[j].status \in Final /\ (\A p \in Procs : proc[p].job # j) => dht[j].lease = NULL
=============================================================================
