----------------------------- MODULE Execution ------------------------------
(***************************************************************************)
(* Agents executing jobs under leases: the statements of LeaseStore, driven *)
(* by what agents (cmd/agent/main.go, onCandidate) and the control server's *)
(* requeue loop (cmd/control/main.go) do.                                   *)
(*                                                                          *)
(* Requests travel over HTTP.  An agent gives up on a call that is not      *)
(* answered in time, while the server may still execute it: a request stays *)
(* in sent for ever, and the server may execute it late, repeatedly or      *)
(* never.  An answer reaches the agent only if it is still waiting for it.  *)
(*                                                                          *)
(* What the handlers write to the DHT does not influence the database; it   *)
(* decides only when an agent tries a job, so here an idle agent may try    *)
(* any job at any time.                                                     *)
(***************************************************************************)
EXTENDS LeaseStore

CONSTANTS MaxFail,    \* maxFail: failed heartbeats in a row that end the goroutine
          MaxFinish   \* maxFinishRetries: attempts at reporting a run's outcome

ASSUME RetryAssumption == MaxFail \in Nat \ {0} /\ MaxFinish \in Nat \ {0}

VARIABLES ag,         \* ag[a]: where agent a is in onCandidate
          sent,       \* every request agents have sent
          listed,     \* ids returned by ListExpiredLeases, not yet requeued
          grants      \* history: every lease TryClaim has granted

vars == <<rows, ag, sent, listed, grants>>

\* waiting: WaitForManifest, before the heartbeat goroutine is started;
\* preparing: manifest, meta and inputs are read; awaiting: a finish call is out.
Holding == {"waiting", "preparing", "running", "reporting", "awaiting"}

Agent == [pc      : {"idle", "claiming", "dead"} \cup Holding,
          job     : Jobs \cup {NULL},
          token   : Tokens,
          outcome : Final,
          tries   : 0..MaxFinish,
          beating : BOOLEAN,           \* the heartbeat goroutine runs
          fails   : 0..(MaxFail - 1)]

Request == [type   : {"claim", "heartbeat", "finish"},
            job    : Jobs,
            agent  : Agents,
            token  : Tokens,
            status : Final]

Grant == [job : Jobs, token : Tokens, agent : Agents]

Idle == [pc |-> "idle", job |-> NULL, token |-> 0, outcome |-> "failed", tries |-> 0,
         beating |-> FALSE, fails |-> 0]

Init == /\ StoreInit
        /\ ag = [a \in Agents |-> Idle]
        /\ sent = {}
        /\ listed = {}
        /\ grants = {}

-----------------------------------------------------------------------------
(***************************************************************************)
(* The agent: onCandidate, one job at a time.                               *)
(***************************************************************************)
Candidate(a, j) ==
  /\ ag[a].pc = "idle"
  /\ ag' = [ag EXCEPT ![a] = [Idle EXCEPT !.pc = "claiming", !.job = j]]
  /\ sent' = sent \cup {[type |-> "claim", job |-> j, agent |-> a,
                         token |-> 0, status |-> "failed"]}
  /\ UNCHANGED <<rows, listed, grants>>

\* Refused, not found, a broken connection, or 4 seconds without an answer.
ClaimFails(a) ==
  /\ ag[a].pc = "claiming"
  /\ ag' = [ag EXCEPT ![a] = Idle]
  /\ UNCHANGED <<rows, sent, listed, grants>>

\* WaitForManifest returned, with or without a manifest.
StartHeartbeats(a) ==
  /\ ag[a].pc = "waiting"
  /\ ag' = [ag EXCEPT ![a] = [ag[a] EXCEPT !.pc = "preparing", !.beating = TRUE]]
  /\ UNCHANGED <<rows, sent, listed, grants>>

\* No manifest, no meta or no input: "failed" is reported once, without
\* retries, and the heartbeats stop only after that report.
PrepareFails(a) ==
  /\ ag[a].pc = "preparing"
  /\ ag' = [ag EXCEPT ![a] = [ag[a] EXCEPT !.pc = "reporting", !.outcome = "failed",
                                           !.tries = MaxFinish]]
  /\ UNCHANGED <<rows, sent, listed, grants>>

StartContainer(a) ==
  /\ ag[a].pc = "preparing"
  /\ ag' = [ag EXCEPT ![a] = [ag[a] EXCEPT !.pc = "running"]]
  /\ UNCHANGED <<rows, sent, listed, grants>>

\* RunInContainer returned; cancelJob stops the heartbeats.
ContainerEnds(a, status) ==
  /\ ag[a].pc = "running"
  /\ ag' = [ag EXCEPT ![a] = [ag[a] EXCEPT !.pc = "reporting", !.outcome = status,
                                           !.tries = 1, !.beating = FALSE]]
  /\ UNCHANGED <<rows, sent, listed, grants>>

SendFinish(a) ==
  /\ ag[a].pc = "reporting"
  /\ ag' = [ag EXCEPT ![a] = [ag[a] EXCEPT !.pc = "awaiting"]]
  /\ sent' = sent \cup {[type |-> "finish", job |-> ag[a].job, agent |-> a,
                         token |-> ag[a].token, status |-> ag[a].outcome]}
  /\ UNCHANGED <<rows, listed, grants>>

\* An error that ShouldRetryFinish accepts, with attempts left.
RetryFinish(a) ==
  /\ ag[a].pc = "awaiting"
  /\ ag[a].tries < MaxFinish
  /\ ag' = [ag EXCEPT ![a] = [ag[a] EXCEPT !.pc = "reporting", !.tries = @ + 1]]
  /\ UNCHANGED <<rows, sent, listed, grants>>

\* Any other error, or no attempt left: the outcome is dropped.
AbandonFinish(a) ==
  /\ ag[a].pc = "awaiting"
  /\ ag' = [ag EXCEPT ![a] = Idle]
  /\ UNCHANGED <<rows, sent, listed, grants>>

SendHeartbeat(a) ==
  /\ ag[a].beating
  /\ sent' = sent \cup {[type |-> "heartbeat", job |-> ag[a].job, agent |-> a,
                         token |-> ag[a].token, status |-> "failed"]}
  /\ UNCHANGED <<rows, ag, listed, grants>>

HeartbeatFailsOnceMore(a) ==
  /\ ag[a].beating
  /\ ag' = [ag EXCEPT ![a] =
              IF ag[a].fails < MaxFail
              THEN [ag[a] EXCEPT !.fails = @ + 1]
              ELSE [ag[a] EXCEPT !.fails = 0, !.beating = FALSE]]
  /\ UNCHANGED <<rows, sent, listed, grants>>

\* A refused or unanswered heartbeat.  After MaxFail in a row the goroutine
\* returns; the job's context is not cancelled, so the container goes on.
HeartbeatFails(a) ==
  /\ ag[a].beating
  /\ ag' = [ag EXCEPT ![a] =
              IF ag[a].fails + 1 < MaxFail
              THEN [ag[a] EXCEPT !.fails = @ + 1]
              ELSE [ag[a] EXCEPT !.fails = 0, !.beating = FALSE]]
  /\ UNCHANGED <<rows, sent, listed, grants>>

\* The process dies.  A restarted agent has a new peer id: it is another agent.
Crash(a) ==
  /\ ag[a].pc # "dead"
  /\ ag' = [ag EXCEPT ![a] = [Idle EXCEPT !.pc = "dead"]]
  /\ UNCHANGED <<rows, sent, listed, grants>>

-----------------------------------------------------------------------------
(***************************************************************************)
(* The control server executes a request and its answer is delivered, or    *)
(* executes it for a caller that has given up.                              *)
(***************************************************************************)
Granted(q) == [job |-> q.job, token |-> rows[q.job].token + 1, agent |-> q.agent]

Claimed(q, ttl) ==
  /\ q.type = "claim"
  /\ TryClaim(q.job, q.agent, ttl)
  /\ grants' = grants \cup {Granted(q)}
  /\ UNCHANGED <<sent, listed>>

ClaimAnswered(q, ttl) ==
  /\ Claimed(q, ttl)
  /\ ag[q.agent].pc = "claiming" /\ ag[q.agent].job = q.job
  /\ ag' = [ag EXCEPT ![q.agent] = [ag[q.agent] EXCEPT !.pc = "waiting",
                                                       !.token = rows[q.job].token + 1]]

ClaimUnanswered(q, ttl) ==
  /\ Claimed(q, ttl)
  /\ UNCHANGED ag

Renewed(q, ttl) ==
  /\ q.type = "heartbeat"
  /\ Heartbeat(q.job, q.agent, q.token, ttl)
  /\ UNCHANGED <<sent, listed, grants>>

HeartbeatAnswered(q, ttl) ==
  /\ Renewed(q, ttl)
  /\ ag[q.agent].beating
  /\ ag[q.agent].job = q.job /\ ag[q.agent].token = q.token
  /\ ag' = [ag EXCEPT ![q.agent] = [ag[q.agent] EXCEPT !.fails = 0]]

HeartbeatUnanswered(q, ttl) ==
  /\ Renewed(q, ttl)
  /\ UNCHANGED ag

\* finishHandler answers 204 whether or not the UPDATE matched the row.
Completed(q) ==
  /\ q.type = "finish"
  /\ IF Finishable(rows[q.job], q.agent, q.token)
     THEN Finish(q.job, q.agent, q.token, q.status = "succeeded")
     ELSE UNCHANGED rows
  /\ UNCHANGED <<sent, listed, grants>>

FinishAnswered(q) ==
  /\ Completed(q)
  /\ ag[q.agent].pc = "awaiting"
  /\ ag[q.agent].job = q.job /\ ag[q.agent].token = q.token
  /\ ag' = [ag EXCEPT ![q.agent] = Idle]

FinishUnanswered(q) ==
  /\ Completed(q)
  /\ UNCHANGED ag

\* requeueLoop lists the expired leases, then requeues them one by one.
RequeueList ==
  /\ listed = {}
  /\ listed' = ListExpiredLeases
  /\ UNCHANGED <<rows, ag, sent, grants>>

RequeueOne(j) ==
  /\ j \in listed
  /\ IF Expirable(rows[j]) THEN SetStatusQueued(j) ELSE UNCHANGED rows
  /\ listed' = listed \ {j}
  /\ UNCHANGED <<ag, sent, grants>>

\* The control process restarts: the list is lost, the database is not.
ControlRestart ==
  /\ listed # {}
  /\ listed' = {}
  /\ UNCHANGED <<rows, ag, sent, grants>>

Submit(j) == (CreateJob(j) \/ AttachManifest(j)) /\ UNCHANGED <<ag, sent, listed, grants>>

Clock == Tick /\ UNCHANGED <<ag, sent, listed, grants>>

AgentStep(a) ==
  \/ \E j \in Jobs : Candidate(a, j)
  \/ ClaimFails(a)
  \/ StartHeartbeats(a)
  \/ PrepareFails(a)
  \/ StartContainer(a)
  \/ \E status \in Final : ContainerEnds(a, status)
  \/ SendFinish(a)
  \/ RetryFinish(a)
  \/ AbandonFinish(a)
  \/ SendHeartbeat(a)
  \/ HeartbeatFails(a)
  \/ Crash(a)

Serve(q) ==
  \/ \E ttl \in TTLs : \/ ClaimAnswered(q, ttl)
                       \/ ClaimUnanswered(q, ttl)
                       \/ HeartbeatAnswered(q, ttl)
                       \/ HeartbeatUnanswered(q, ttl)
  \/ FinishAnswered(q)
  \/ FinishUnanswered(q)

Next ==
  \/ Clock
  \/ RequeueList
  \/ ControlRestart
  \/ \E j \in Jobs : Submit(j) \/ RequeueOne(j)
  \/ \E a \in Agents : AgentStep(a)
  \/ \E q \in sent : Serve(q)

Spec == Init /\ [][Next]_vars

-----------------------------------------------------------------------------
(***************************************************************************)
(* Properties.                                                              *)
(***************************************************************************)

\* Every variable has the values the code can give it.
TypeOK ==
  /\ StoreTypeOK
  /\ ag \in [Agents -> Agent]
  /\ sent \subseteq Request
  /\ listed \subseteq Jobs
  /\ grants \subseteq Grant

\* Two agents working on the same job never believe in the same fencing token,
\* however many claims, late answers and requeues came before.
NoSharedToken ==
  \A a, b \in Agents :
    (a # b /\ ag[a].pc \in Holding /\ ag[b].pc \in Holding /\ ag[a].job = ag[b].job)
      => ag[a].token # ag[b].token

\* The result columns of a finished job were written by the agent to which the
\* job's latest token was granted: a report that was overtaken by a newer claim
\* is never what the database keeps.
ResultFromLatestLease ==
  \A j \in Jobs : rows[j].status \in Final =>
    /\ rows[j].result \in Report
    /\ rows[j].result.token = rows[j].token
    /\ [job |-> j, token |-> rows[j].token, agent |-> rows[j].result.agent] \in grants

\* Once a job is succeeded or failed its outcome never changes again, although
\* Finish tests neither the status nor whether the caller still holds the lease
\* and the same report may be executed many times.
OutcomeIsFinal ==
  [][\A j \in Jobs : rows[j].status \in Final =>
       rows'[j].status = rows[j].status /\ rows'[j].result = rows[j].result]_vars

\* README: at most one active executor per task.
AtMostOneExecutor ==
  \A a, b \in Agents :
    (ag[a].pc = "running" /\ ag[b].pc = "running" /\ ag[a].job = ag[b].job) => a = b

\* requeueLoop: only leases that expired at least Grace seconds ago are requeued.
RequeueAfterGrace ==
  [][\A j \in Jobs :
       (rows[j].status \in Leased /\ rows'[j].status = "queued")
         => rows[j].expires <= -Grace]_vars
=============================================================================
