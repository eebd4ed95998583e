--------------------------- MODULE ExecutionProofs --------------------------
(***************************************************************************)
(* The properties of Execution, for any number of jobs, agents, requests in *)
(* flight and retries.                                                      *)
(***************************************************************************)
EXTENDS Execution, LeaseStoreProofs

(***************************************************************************)
(* The inductive invariant.  It follows a token from the grant to the       *)
(* report: one agent per token, the holder and every request carry a        *)
(* granted token, all reports under one token say the same, and a finished  *)
(* row was written by a report under the row's latest token.                *)
(***************************************************************************)
IsGranted(j, t, a) == [job |-> j, token |-> t, agent |-> a] \in grants

OneAgentPerToken ==
  /\ \A g, h \in grants : (g.job = h.job /\ g.token = h.token) => g.agent = h.agent
  /\ \A g \in grants : g.token <= rows[g.job].token

RowGrantKnown ==
  \A j \in Jobs : rows[j].agent # NULL => IsGranted(j, rows[j].token, rows[j].agent)

HolderGrantKnown ==
  \A a \in Agents :
    /\ ag[a].pc \in Holding => ag[a].job \in Jobs /\ IsGranted(ag[a].job, ag[a].token, a)
    /\ ag[a].beating => ag[a].pc \in Holding
    /\ ag[a].pc = "claiming" => ag[a].job \in Jobs

RequestGrantKnown ==
  \A q \in sent : q.type # "claim" => IsGranted(q.job, q.token, q.agent)

OneOutcomePerToken ==
  /\ \A p, q \in sent :
       (p.type = "finish" /\ q.type = "finish" /\ p.job = q.job /\ p.token = q.token)
         => p.status = q.status
  /\ \A a \in Agents : \A q \in sent :
       (ag[a].pc \in Holding /\ q.type = "finish" /\ q.job = ag[a].job /\ q.token = ag[a].token)
         => ag[a].pc \in {"reporting", "awaiting"} /\ q.status = ag[a].outcome

FinalWasReported ==
  \A j \in Jobs : rows[j].status \in Final =>
    \E q \in sent : /\ q.type = "finish" /\ q.job = j
                    /\ q.token = rows[j].token /\ q.status = rows[j].status
                    /\ rows[j].result = [agent |-> q.agent, token |-> q.token]

Lineage == /\ OneAgentPerToken /\ RowGrantKnown /\ HolderGrantKnown
           /\ RequestGrantKnown /\ OneOutcomePerToken /\ FinalWasReported

ExecInv == TypeOK /\ StoreInv /\ Lineage

-----------------------------------------------------------------------------
(***************************************************************************)
(* Execution drives the table only through the statements of PGStore.       *)
(***************************************************************************)

\* Every step of the system is a step of the table, or leaves it alone.
LEMMA StepIsStoreStep == TypeOK /\ [Next]_vars => [StoreNext]_rows
<1> SUFFICES ASSUME TypeOK, Next
             PROVE  StoreNext \/ UNCHANGED rows
  BY DEF vars
<1>1. CASE Clock
  BY <1>1 DEF Clock, StoreNext
<1>2. CASE RequeueList \/ ControlRestart
  BY <1>2 DEF RequeueList, ControlRestart
<1>3. ASSUME NEW j \in Jobs, Submit(j) \/ RequeueOne(j)
      PROVE  StoreNext \/ UNCHANGED rows
  BY <1>3, SMTT(60) DEF Submit, RequeueOne, StoreNext
<1>4. ASSUME NEW a \in Agents, AgentStep(a)
      PROVE  UNCHANGED rows
  BY <1>4 DEF AgentStep, Candidate, ClaimFails, StartHeartbeats, PrepareFails,
              StartContainer, ContainerEnds, SendFinish, RetryFinish,
              AbandonFinish, SendHeartbeat, HeartbeatFails, Crash
<1>5. ASSUME NEW q \in sent, Serve(q)
      PROVE  StoreNext \/ UNCHANGED rows
  <2>1. q.job \in Jobs /\ q.agent \in Agents /\ q.token \in Tokens /\ q \in Request
    BY DEF TypeOK, Request
  <2>2. ASSUME NEW ttl \in TTLs, Claimed(q, ttl)
        PROVE  StoreNext
    BY <2>1, <2>2 DEF Claimed, StoreNext
  <2>3. ASSUME NEW ttl \in TTLs, Renewed(q, ttl)
        PROVE  StoreNext
    BY <2>1, <2>3 DEF Renewed, StoreNext
  <2>4. ASSUME Completed(q)
        PROVE  StoreNext \/ UNCHANGED rows
    <3>1. CASE Finish(q.job, q.agent, q.token, q.status = "succeeded")
      <4>1. CASE q.status = "succeeded"
        <5>1. Finish(q.job, q.agent, q.token, TRUE)
          BY <3>1, <4>1 DEF Finish
        <5> QED
          BY <5>1, <2>1, ZenonT(60) DEF StoreNext
      <4>2. CASE q.status # "succeeded"
        <5>1. Finish(q.job, q.agent, q.token, FALSE)
          BY <3>1, <4>2 DEF Finish
        <5> QED
          BY <5>1, <2>1, ZenonT(60) DEF StoreNext
      <4> QED
        BY <4>1, <4>2
    <3> QED
      BY <2>4, <3>1 DEF Completed
  <2> QED
    BY <1>5, <2>2, <2>3, <2>4
       DEF Serve, ClaimAnswered, ClaimUnanswered, HeartbeatAnswered,
           HeartbeatUnanswered, FinishAnswered, FinishUnanswered
<1> QED
  BY <1>1, <1>2, <1>3, <1>4, <1>5 DEF Next

-----------------------------------------------------------------------------
(***************************************************************************)
(* Typing.                                                                  *)
(***************************************************************************)

\* The records an agent's steps leave behind.
LEMMA AgentTypes ==
  ASSUME NEW r \in Agent
  PROVE  /\ Idle \in Agent
         /\ [Idle EXCEPT !.pc = "dead"] \in Agent
         /\ \A j \in Jobs : [Idle EXCEPT !.pc = "claiming", !.job = j] \in Agent
         /\ \A p \in Holding : [r EXCEPT !.pc = p] \in Agent
         /\ \A t \in Tokens : [r EXCEPT !.pc = "waiting", !.token = t] \in Agent
         /\ [r EXCEPT !.pc = "preparing", !.beating = TRUE] \in Agent
         /\ \A n \in 0..MaxFinish :
              /\ [r EXCEPT !.pc = "reporting", !.tries = n] \in Agent
              /\ \A s \in Final :
                   /\ [r EXCEPT !.pc = "reporting", !.outcome = s, !.tries = n] \in Agent
                   /\ [r EXCEPT !.pc = "reporting", !.outcome = s, !.tries = n,
                                !.beating = FALSE] \in Agent
         /\ \A n \in 0..(MaxFail - 1) :
              /\ [r EXCEPT !.fails = n] \in Agent
              /\ [r EXCEPT !.fails = n, !.beating = FALSE] \in Agent
<1>1. Idle \in Agent
  BY RetryAssumption, BoundAssumption, SMTT(60) DEF Idle, Agent, Final, Tokens
<1>2. /\ [Idle EXCEPT !.pc = "dead"] \in Agent
      /\ \A j \in Jobs : [Idle EXCEPT !.pc = "claiming", !.job = j] \in Agent
  BY <1>1, ZenonT(60) DEF Agent
<1>3. /\ \A p \in Holding : [r EXCEPT !.pc = p] \in Agent
      /\ \A t \in Tokens : [r EXCEPT !.pc = "waiting", !.token = t] \in Agent
      /\ [r EXCEPT !.pc = "preparing", !.beating = TRUE] \in Agent
  BY ZenonT(60) DEF Agent, Holding
<1>4. ASSUME NEW n \in 0..MaxFinish
      PROVE  /\ [r EXCEPT !.pc = "reporting", !.tries = n] \in Agent
             /\ \A s \in Final :
                  /\ [r EXCEPT !.pc = "reporting", !.outcome = s, !.tries = n] \in Agent
                  /\ [r EXCEPT !.pc = "reporting", !.outcome = s, !.tries = n,
                               !.beating = FALSE] \in Agent
  BY ZenonT(60) DEF Agent, Holding
<1>5. ASSUME NEW n \in 0..(MaxFail - 1)
      PROVE  /\ [r EXCEPT !.fails = n] \in Agent
             /\ [r EXCEPT !.fails = n, !.beating = FALSE] \in Agent
  BY ZenonT(60) DEF Agent
<1> QED
  BY <1>1, <1>2, <1>3, <1>4, <1>5, ZenonT(60)

\* Every step leaves every variable well typed.  A report needs to know that an
\* agent past its claim has a job.
LEMMA TypeInductive == TypeOK /\ HolderGrantKnown /\ [Next]_vars => TypeOK'
<1> SUFFICES ASSUME TypeOK, HolderGrantKnown, [Next]_vars
             PROVE  TypeOK'
  OBVIOUS
<1>a. StoreTypeOK'
  BY StepIsStoreStep, StoreTypeInductive DEF TypeOK
<1>b. ASSUME NEW a \in Agents, NEW r \in Agent, ag' = [ag EXCEPT ![a] = r]
      PROVE  ag' \in [Agents -> Agent]
  BY <1>b DEF TypeOK
<1>c. ASSUME NEW a \in Agents
      PROVE  ag[a] \in Agent
  BY DEF TypeOK
<1>d. ASSUME UNCHANGED <<ag, sent, listed, grants>>
      PROVE  TypeOK'
  BY <1>a, <1>d DEF TypeOK
<1>1. CASE Clock
  BY <1>1, <1>d DEF Clock
<1>2. CASE RequeueList \/ ControlRestart
  BY <1>2, <1>a DEF RequeueList, ControlRestart, ListExpiredLeases, TypeOK
<1>3. ASSUME NEW j \in Jobs, Submit(j) \/ RequeueOne(j)
      PROVE  TypeOK'
  BY <1>3, <1>a DEF Submit, RequeueOne, TypeOK
<1>4. ASSUME NEW a \in Agents, AgentStep(a)
      PROVE  TypeOK'
  <2>1. UNCHANGED <<listed, grants>>
    BY <1>4 DEF AgentStep, Candidate, ClaimFails, StartHeartbeats, PrepareFails,
                StartContainer, ContainerEnds, SendFinish, RetryFinish,
                AbandonFinish, SendHeartbeat, HeartbeatFails, Crash
  <2> SUFFICES ag' \in [Agents -> Agent] /\ sent' \subseteq Request
    BY <2>1, <1>a DEF TypeOK
  <2>2. ASSUME NEW j \in Jobs, Candidate(a, j)
        PROVE  ag' \in [Agents -> Agent] /\ sent' \subseteq Request
    <3>1. [type |-> "claim", job |-> j, agent |-> a, token |-> 0, status |-> "failed"]
            \in Request
      BY BoundAssumption, SMTT(60) DEF Request, Final, Tokens
    <3> QED
      BY <2>2, <3>1, <1>b, <1>c, AgentTypes, ZenonT(60) DEF Candidate, TypeOK
  <2>3. CASE ClaimFails(a) \/ AbandonFinish(a) \/ Crash(a)
    BY <2>3, <1>b, <1>c, AgentTypes, ZenonT(60) DEF ClaimFails, AbandonFinish, Crash, TypeOK
  <2>4. CASE StartHeartbeats(a) \/ StartContainer(a)
    <3>1. [ag[a] EXCEPT !.pc = "running"] \in Agent
      BY <1>c, AgentTypes, ZenonT(60) DEF Holding
    <3> QED
      BY <2>4, <3>1, <1>b, <1>c, AgentTypes, ZenonT(60) DEF StartHeartbeats, StartContainer, TypeOK
  <2>5. CASE PrepareFails(a)
    <3>1. MaxFinish \in 0..MaxFinish /\ "failed" \in Final
      BY RetryAssumption, SMTT(60) DEF Final
    <3>2. [ag[a] EXCEPT !.pc = "reporting", !.outcome = "failed", !.tries = MaxFinish] \in Agent
      BY <3>1, <1>c, AgentTypes, ZenonT(60)
    <3> QED
      BY <2>5, <3>2, <1>b DEF PrepareFails, TypeOK
  <2>6. ASSUME NEW s \in Final, ContainerEnds(a, s)
        PROVE  ag' \in [Agents -> Agent] /\ sent' \subseteq Request
    <3>1. 1 \in 0..MaxFinish
      BY RetryAssumption, SMTT(60)
    <3>2. [ag[a] EXCEPT !.pc = "reporting", !.outcome = s, !.tries = 1, !.beating = FALSE] \in Agent
      BY <3>1, <1>c, AgentTypes, ZenonT(60)
    <3> QED
      BY <2>6, <3>2, <1>b DEF ContainerEnds, TypeOK
  <2>7. CASE SendFinish(a)
    <3>1. [ag[a] EXCEPT !.pc = "awaiting"] \in Agent
      BY <1>c, AgentTypes, ZenonT(60) DEF Holding
    <3>2. ag[a].job \in Jobs
      BY <2>7 DEF SendFinish, HolderGrantKnown, Holding
    <3>3. [type |-> "finish", job |-> ag[a].job, agent |-> a,
           token |-> ag[a].token, status |-> ag[a].outcome] \in Request
      BY <3>2, <1>c DEF Request, Agent
    <3> QED
      BY <2>7, <3>1, <3>3, <1>b, SMTT(60) DEF SendFinish, TypeOK
  <2>8. CASE RetryFinish(a)
    <3>1. ag[a].tries + 1 \in 0..MaxFinish
      BY <2>8, <1>c, RetryAssumption, SMTT(60) DEF RetryFinish, Agent
    <3>2. [ag[a] EXCEPT !.pc = "reporting", !.tries = @ + 1] \in Agent
      BY <3>1, <1>c, AgentTypes, ZenonT(60)
    <3> QED
      BY <2>8, <3>2, <1>b DEF RetryFinish, TypeOK
  <2>9. CASE SendHeartbeat(a)
    <3>1. ag[a].job \in Jobs
      BY <2>9 DEF SendHeartbeat, HolderGrantKnown
    <3>2. [type |-> "heartbeat", job |-> ag[a].job, agent |-> a,
           token |-> ag[a].token, status |-> "failed"] \in Request
      BY <3>1, <1>c DEF Request, Agent, Final
    <3> QED
      BY <2>9, <3>2 DEF SendHeartbeat, TypeOK
  <2>10. CASE HeartbeatFails(a)
    <3>1. 0 \in 0..(MaxFail - 1)
      BY RetryAssumption
    <3>2. ag[a].fails + 1 < MaxFail => ag[a].fails + 1 \in 0..(MaxFail - 1)
      BY <1>c, RetryAssumption, SMTT(60) DEF Agent
    <3>3. ag[a].fails + 1 < MaxFail => [ag[a] EXCEPT !.fails = @ + 1] \in Agent
      BY <3>2, <1>c, AgentTypes, ZenonT(60)
    <3>4. [ag[a] EXCEPT !.fails = 0, !.beating = FALSE] \in Agent
      BY <3>1, <1>c, AgentTypes, ZenonT(60)
    <3> QED
      BY <2>10, <3>3, <3>4, <1>b DEF HeartbeatFails, TypeOK
  <2> QED
    BY <1>4, <2>2, <2>3, <2>4, <2>5, <2>6, <2>7, <2>8, <2>9, <2>10 DEF AgentStep
<1>5. ASSUME NEW q \in sent, Serve(q)
      PROVE  TypeOK'
  <2>1. q.job \in Jobs /\ q.agent \in Agents
    BY DEF TypeOK, Request
  <2>2. ASSUME NEW ttl \in TTLs, Claimed(q, ttl)
        PROVE  /\ UNCHANGED <<sent, listed>>
               /\ grants' \subseteq Grant
               /\ rows[q.job].token + 1 \in Tokens
    <3>1. rows[q.job].token + 1 \in Tokens
      BY <2>1, <2>2, NextToken DEF Claimed, TryClaim, TypeOK, StoreTypeOK
    <3>2. Granted(q) \in Grant
      BY <3>1, <2>1 DEF Granted, Grant
    <3> QED
      BY <2>2, <3>1, <3>2 DEF Claimed, TypeOK
  <2>3. ASSUME NEW ttl \in TTLs, ClaimAnswered(q, ttl)
        PROVE  TypeOK'
    <3>1. [ag[q.agent] EXCEPT !.pc = "waiting", !.token = rows[q.job].token + 1] \in Agent
      BY <2>1, <2>2, <2>3, <1>c, AgentTypes, ZenonT(60) DEF ClaimAnswered
    <3> QED
      BY <2>1, <2>2, <2>3, <3>1, <1>a, <1>b, SMTT(60) DEF ClaimAnswered, TypeOK
  <2>4. ASSUME NEW ttl \in TTLs, ClaimUnanswered(q, ttl)
        PROVE  TypeOK'
    BY <2>2, <2>4, <1>a DEF ClaimUnanswered, TypeOK
  <2>5. ASSUME NEW ttl \in TTLs, HeartbeatAnswered(q, ttl)
        PROVE  TypeOK'
    <3>1. 0 \in 0..(MaxFail - 1)
      BY RetryAssumption, SMTT(60)
    <3>2. [ag[q.agent] EXCEPT !.fails = 0] \in Agent
      BY <2>1, <3>1, <1>c, AgentTypes, ZenonT(60)
    <3> QED
      BY <2>1, <2>5, <3>2, <1>a, <1>b DEF HeartbeatAnswered, Renewed, TypeOK
  <2>6. ASSUME NEW ttl \in TTLs, HeartbeatUnanswered(q, ttl)
        PROVE  TypeOK'
    BY <2>6, <1>d, SMTT(60) DEF HeartbeatUnanswered, Renewed
  <2>7. CASE FinishAnswered(q)
    BY <2>1, <2>7, <1>a, <1>b, <1>c, AgentTypes, ZenonT(60) DEF FinishAnswered, Completed, TypeOK
  <2>8. CASE FinishUnanswered(q)
    BY <2>8, <1>d DEF FinishUnanswered, Completed
  <2> QED
    BY <1>5, <2>3, <2>4, <2>5, <2>6, <2>7, <2>8 DEF Serve
<1>6. CASE UNCHANGED vars
  BY <1>6, <1>d DEF vars
<1> QED
  BY <1>1, <1>2, <1>3, <1>4, <1>5, <1>6 DEF Next

-----------------------------------------------------------------------------
(***************************************************************************)
(* Preservation of the lineage.  Most steps are calm for the table: they    *)
(* neither grant a lease nor complete a job.                                *)
(***************************************************************************)
NoGrant ==
  \A j \in Jobs :
    rows'[j].token = rows[j].token /\ rows'[j].agent \in {rows[j].agent, NULL}

Calm ==
  /\ NoGrant
  /\ \A j \in Jobs :
    /\ rows'[j].status \in Final <=> rows[j].status \in Final
    /\ rows[j].status \in Final => /\ rows'[j].status = rows[j].status
                                   /\ rows'[j].result = rows[j].result

\* Every statement but the claim and the finish is calm.
LEMMA CalmStatements ==
  ASSUME StoreInv,
         \/ Tick
         \/ UNCHANGED rows
         \/ \E j \in Jobs : CreateJob(j) \/ AttachManifest(j) \/ SetStatusQueued(j)
         \/ \E j \in Jobs, a \in Agents, t \in Tokens, ttl \in TTLs : Heartbeat(j, a, t, ttl)
  PROVE  Calm
<1>a. ASSUME NEW j \in Jobs
      PROVE  rows[j] \in Row /\ Sound(rows[j])
  BY <1>a DEF StoreInv, StoreTypeOK, LeaseShape, RetryCountsLostLeases, Sound
<1>b. ASSUME NEW j \in Jobs, NEW r, rows' = [rows EXCEPT ![j] = r],
             r.token = rows[j].token, r.agent \in {rows[j].agent, NULL},
             r.status \notin Final /\ rows[j].status \notin Final
      PROVE  Calm
  BY <1>b DEF Calm, NoGrant, StoreInv, StoreTypeOK
<1>1. CASE Tick
  BY <1>1, <1>a DEF Tick, Calm, NoGrant, Row
<1>2. CASE UNCHANGED rows
  BY <1>2 DEF Calm, NoGrant
<1>3. ASSUME NEW j \in Jobs, CreateJob(j)
      PROVE  Calm
  BY <1>3, <1>a, <1>b, ZenonT(60) DEF CreateJob, Exists, Row, Final
<1>4. ASSUME NEW j \in Jobs, AttachManifest(j)
      PROVE  Calm
  <2>1. \A k \in Jobs : rows'[k] = IF k = j THEN [rows[j] EXCEPT !.manifest = TRUE]
                                           ELSE rows[k]
    BY <1>4 DEF AttachManifest, StoreInv, StoreTypeOK
  <2> QED
    BY <2>1, <1>a DEF Calm, NoGrant, Row
<1>5. ASSUME NEW j \in Jobs, SetStatusQueued(j)
      PROVE  Calm
  BY <1>5, <1>a, <1>b, ZenonT(60) DEF SetStatusQueued, Expirable, Row, Final, Leased
<1>6. ASSUME NEW j \in Jobs, NEW a \in Agents, NEW t \in Tokens, NEW ttl \in TTLs,
             Heartbeat(j, a, t, ttl)
      PROVE  Calm
  <2>1. rows[j].status \in Leased
    BY <1>6, <1>a, NullAssumption, ZenonT(60) DEF Heartbeat, Renewable, Sound
  <2> DEFINE r == [rows[j] EXCEPT !.expires = ttl, !.status = "running"]
  <2>2. /\ r.token = rows[j].token /\ r.agent = rows[j].agent
        /\ r.status \notin Final /\ rows[j].status \notin Final
    BY <2>1, <1>a, SMTT(60) DEF Row, Final, Leased
  <2>3. rows' = [rows EXCEPT ![j] = r]
    BY <1>6, ZenonT(60) DEF Heartbeat
  <2> QED
    BY <2>2, <2>3, <1>b, ZenonT(60)
<1> QED
  BY <1>1, <1>2, <1>3, <1>4, <1>5, <1>6

\* A calm step keeps the report behind every finished row.
LEMMA CalmKeepsReports ==
  ASSUME ExecInv, Calm, sent \subseteq sent'
  PROVE  FinalWasReported'
BY DEF ExecInv, Lineage, FinalWasReported, Calm, NoGrant

\* A step that grants no lease, in which one agent moves on and sends nothing.
LEMMA LocalStep ==
  ASSUME ExecInv, NoGrant, FinalWasReported', UNCHANGED <<sent, grants>>,
         NEW a \in Agents, NEW r, ag' = [ag EXCEPT ![a] = r],
         r.beating => r.pc \in Holding,
         r.pc = "claiming" => r.job \in Jobs,
         r.pc \in Holding =>
           /\ ag[a].pc \in Holding /\ r.job = ag[a].job /\ r.token = ag[a].token
           /\ \/ ag[a].pc \notin {"reporting", "awaiting"}
              \/ r.pc \in {"reporting", "awaiting"} /\ r.outcome = ag[a].outcome
  PROVE  Lineage'
<1>1. \A b \in Agents : ag'[b] = IF b = a THEN r ELSE ag[b]
  BY DEF ExecInv, TypeOK
<1>2. OneAgentPerToken' /\ RowGrantKnown'
  BY DEF ExecInv, TypeOK, Lineage, OneAgentPerToken, RowGrantKnown, IsGranted, NoGrant, Grant
<1>3. HolderGrantKnown'
  BY <1>1 DEF ExecInv, Lineage, HolderGrantKnown, IsGranted
<1>4. RequestGrantKnown'
  BY DEF ExecInv, Lineage, RequestGrantKnown, IsGranted
<1>5. OneOutcomePerToken'
  BY <1>1 DEF ExecInv, Lineage, OneOutcomePerToken
<1> QED
  BY <1>2, <1>3, <1>4, <1>5 DEF Lineage

\* A step that grants no lease, in which no agent moves.
LEMMA StillStep ==
  ASSUME ExecInv, NoGrant, FinalWasReported', UNCHANGED <<ag, sent, grants>>
  PROVE  Lineage'
<1>1. OneAgentPerToken' /\ RowGrantKnown'
  BY DEF ExecInv, TypeOK, Lineage, OneAgentPerToken, RowGrantKnown, IsGranted, NoGrant, Grant
<1>2. HolderGrantKnown' /\ RequestGrantKnown' /\ OneOutcomePerToken'
  BY DEF ExecInv, Lineage, HolderGrantKnown, RequestGrantKnown, OneOutcomePerToken, IsGranted
<1> QED
  BY <1>1, <1>2 DEF Lineage

\* An agent sends one request: a claim, or a call under the token it holds.  A
\* report repeats the outcome the agent has settled on.
LEMMA SendStep ==
  ASSUME ExecInv, UNCHANGED <<rows, grants>>,
         NEW a \in Agents, NEW p \in Request, sent' = sent \cup {p}, p.agent = a,
         NEW r, ag' = [ag EXCEPT ![a] = r],
         r.beating => r.pc \in Holding,
         r.pc = "claiming" => r.job \in Jobs,
         r.pc \in Holding =>
           /\ ag[a].pc \in Holding /\ r.job = ag[a].job /\ r.token = ag[a].token
           /\ r.outcome = ag[a].outcome
           /\ r.pc = ag[a].pc \/ r.pc \in {"reporting", "awaiting"},
         p.type # "claim" =>
           ag[a].pc \in Holding /\ p.job = ag[a].job /\ p.token = ag[a].token,
         p.type = "finish" =>
           /\ ag[a].pc = "reporting" /\ r.pc = "awaiting"
           /\ p.status = ag[a].outcome
  PROVE  Lineage'
<1>1. \A b \in Agents : ag'[b] = IF b = a THEN r ELSE ag[b]
  BY DEF ExecInv, TypeOK
<1>2. OneAgentPerToken' /\ RowGrantKnown'
  BY DEF ExecInv, Lineage, OneAgentPerToken, RowGrantKnown, IsGranted
<1>3. HolderGrantKnown'
  BY <1>1 DEF ExecInv, Lineage, HolderGrantKnown, IsGranted
<1>4. RequestGrantKnown'
  <2>1. p.type # "claim" => IsGranted(p.job, p.token, p.agent)
    BY DEF ExecInv, Lineage, HolderGrantKnown
  <2> QED
    BY <2>1 DEF ExecInv, Lineage, RequestGrantKnown, IsGranted
<1>5. OneOutcomePerToken'
  <2>1. ASSUME p.type = "finish", NEW q \in sent, q.type = "finish",
               q.job = p.job, q.token = p.token
        PROVE  q.status = p.status
    BY <2>1 DEF ExecInv, Lineage, OneOutcomePerToken, Holding
  <2>2. ASSUME p.type = "finish", NEW b \in Agents, b # a, ag[b].pc \in Holding,
               ag[b].job = p.job, ag[b].token = p.token
        PROVE  FALSE
    <3>1. IsGranted(p.job, p.token, a) /\ IsGranted(p.job, p.token, b)
      BY <2>2 DEF ExecInv, Lineage, HolderGrantKnown
    <3> QED
      BY <3>1, <2>2 DEF ExecInv, Lineage, OneAgentPerToken, IsGranted
  <2>3. \A x, q \in sent' :
          (x.type = "finish" /\ q.type = "finish" /\ x.job = q.job /\ x.token = q.token)
            => x.status = q.status
    BY <2>1 DEF ExecInv, Lineage, OneOutcomePerToken
  <2>4. ASSUME NEW b \in Agents, NEW q \in sent', ag'[b].pc \in Holding,
               q.type = "finish", q.job = ag'[b].job, q.token = ag'[b].token
        PROVE  ag'[b].pc \in {"reporting", "awaiting"} /\ q.status = ag'[b].outcome
    <3>1. CASE b # a
      BY <3>1, <2>2, <2>4, <1>1 DEF ExecInv, Lineage, OneOutcomePerToken
    <3>2. CASE b = a
      BY <3>2, <2>4, <1>1 DEF ExecInv, Lineage, OneOutcomePerToken
    <3> QED
      BY <3>1, <3>2
  <2> QED
    BY <2>3, <2>4 DEF OneOutcomePerToken
<1>6. FinalWasReported'
  BY DEF ExecInv, Lineage, FinalWasReported
<1> QED
  BY <1>2, <1>3, <1>4, <1>5, <1>6 DEF Lineage

\* A granted claim, whether or not the answer reaches the agent: the new token
\* is above every token granted before, so no request can carry it yet.
LEMMA ClaimStep ==
  ASSUME ExecInv, NEW q \in sent, NEW ttl \in TTLs,
         ClaimAnswered(q, ttl) \/ ClaimUnanswered(q, ttl)
  PROVE  Lineage'
<1> DEFINE j == q.job
           n == rows[j].token + 1
<1>1. /\ Claimed(q, ttl)
      /\ sent' = sent
      /\ grants' = grants \cup {[job |-> j, token |-> n, agent |-> q.agent]}
  BY DEF ClaimAnswered, ClaimUnanswered, Claimed, Granted
<1>2. j \in Jobs /\ q.agent \in Agents /\ q \in Request
  BY DEF ExecInv, TypeOK, Request
<1>3. /\ rows'[j].token = n /\ rows'[j].agent = q.agent /\ rows'[j].status = "assigned"
      /\ \A k \in Jobs \ {j} : rows'[k] = rows[k]
  BY <1>1, <1>2 DEF Claimed, TryClaim, ExecInv, StoreInv, StoreTypeOK, Row
<1>4. \A k \in Jobs : rows[k].token \in Nat
  BY BoundAssumption DEF ExecInv, StoreInv, StoreTypeOK, Row, Tokens
<1>5. \A g \in grants : g.job \in Jobs /\ g.token \in Nat /\ g.agent \in Agents
  BY BoundAssumption DEF ExecInv, TypeOK, Grant, Tokens
<1>6. \A g \in grants : g.job = j => g.token < n
  BY <1>4, <1>5, <1>2 DEF ExecInv, Lineage, OneAgentPerToken
<1>7. \A p \in sent : (p.type # "claim" /\ p.job = j) => p.token # n
  <2> SUFFICES ASSUME NEW p \in sent, p.type # "claim", p.job = j, p.token = n
               PROVE  FALSE
    OBVIOUS
  <2>1. [job |-> j, token |-> n, agent |-> p.agent] \in grants
    BY DEF ExecInv, Lineage, RequestGrantKnown, IsGranted
  <2> QED
    BY <2>1, <1>6, <1>4, <1>2
<1>8. \/ ag' = ag
      \/ /\ ag[q.agent].pc = "claiming" /\ ag[q.agent].job = j
         /\ ag' = [ag EXCEPT ![q.agent] = [ag[q.agent] EXCEPT !.pc = "waiting", !.token = n]]
  BY DEF ClaimAnswered, ClaimUnanswered
<1>9. \A b \in Agents :
        \/ ag'[b] = ag[b]
        \/ /\ b = q.agent /\ ag[b].job = j
           /\ ag'[b].pc = "waiting" /\ ag'[b].job = j /\ ag'[b].token = n
  BY <1>8, ZenonT(60) DEF ExecInv, TypeOK, Agent
<1> HIDE DEF j, n
<1>10. OneAgentPerToken'
  <2>1. \A g, h \in grants' : (g.job = h.job /\ g.token = h.token) => g.agent = h.agent
    BY <1>1, <1>6, <1>4, <1>2, <1>5 DEF ExecInv, Lineage, OneAgentPerToken, n
  <2>2. \A g \in grants' : g.token <= rows'[g.job].token
    BY <1>1, <1>3, <1>4, <1>5, <1>2 DEF ExecInv, Lineage, OneAgentPerToken, n
  <2> QED
    BY <2>1, <2>2 DEF OneAgentPerToken
<1>11. RowGrantKnown'
  BY <1>1, <1>2, <1>3 DEF ExecInv, Lineage, RowGrantKnown, IsGranted
<1>12. HolderGrantKnown'
  <2> SUFFICES ASSUME NEW b \in Agents
               PROVE  /\ ag'[b].pc \in Holding =>
                           ag'[b].job \in Jobs /\ IsGranted(ag[b].job, ag[b].token, b)'
                      /\ ag'[b].beating => ag'[b].pc \in Holding
                      /\ ag'[b].pc = "claiming" => ag'[b].job \in Jobs
    BY DEF HolderGrantKnown, IsGranted
  <2>1. CASE ag'[b] = ag[b]
    BY <2>1, <1>1 DEF ExecInv, Lineage, HolderGrantKnown, IsGranted
  <2>2. CASE /\ b = q.agent /\ ag[b].job = j
             /\ ag'[b].pc = "waiting" /\ ag'[b].job = j /\ ag'[b].token = n
    BY <2>2, <1>1, <1>2 DEF IsGranted, Holding
  <2> QED
    BY <2>1, <2>2, <1>9
<1>13. RequestGrantKnown'
  BY <1>1 DEF ExecInv, Lineage, RequestGrantKnown, IsGranted
<1>14. OneOutcomePerToken'
  BY <1>1, <1>7, <1>9 DEF ExecInv, Lineage, OneOutcomePerToken
<1>15. FinalWasReported'
  BY <1>1, <1>2, <1>3 DEF ExecInv, Lineage, FinalWasReported, Final
<1> QED
  BY <1>10, <1>11, <1>12, <1>13, <1>14, <1>15 DEF Lineage

\* A report that the UPDATE of Finish accepts carries exactly the row's token.
LEMMA AcceptedIsLatest ==
  ASSUME ExecInv, NEW q \in sent, q.type = "finish",
         Finishable(rows[q.job], q.agent, q.token)
  PROVE  q.token = rows[q.job].token
<1>1. q \in Request /\ q.job \in Jobs
  BY DEF ExecInv, TypeOK, Request
<1>2. [job |-> q.job, token |-> q.token, agent |-> q.agent] \in grants
  BY DEF ExecInv, Lineage, RequestGrantKnown, IsGranted
<1>3. q.token <= rows[q.job].token
  BY <1>2 DEF ExecInv, Lineage, OneAgentPerToken
<1>4. q.token \in Nat /\ rows[q.job].token \in Nat
  BY <1>1, BoundAssumption DEF ExecInv, StoreInv, StoreTypeOK, Row, Request, Tokens
<1> QED
  BY <1>3, <1>4 DEF Finishable

\* The table after a report: unchanged, or the reported row is final.
LEMMA FinishRows ==
  ASSUME ExecInv, NEW q \in sent, Completed(q)
  PROVE  NoGrant /\ FinalWasReported'
<1>1. q \in Request /\ q.job \in Jobs /\ q.status \in Final /\ q.type = "finish"
  BY DEF ExecInv, TypeOK, Request, Completed
<1>2. sent' = sent
  BY DEF Completed
<1>3. CASE UNCHANGED rows
  BY <1>2, <1>3 DEF NoGrant, ExecInv, Lineage, FinalWasReported
<1>4. CASE /\ Finishable(rows[q.job], q.agent, q.token)
           /\ Finish(q.job, q.agent, q.token, q.status = "succeeded")
  <2>1. (IF q.status = "succeeded" THEN "succeeded" ELSE "failed") = q.status
    BY <1>1 DEF Final
  <2>2. rows' = [rows EXCEPT ![q.job] = [rows[q.job] EXCEPT !.status = q.status,
                                  !.result = [agent |-> q.agent, token |-> q.token],
                                  !.agent = NULL, !.expires = NULL]]
    BY <1>4, <2>1, ZenonT(60) DEF Finish
  <2>3. rows[q.job] \in Row
    BY <1>1 DEF ExecInv, StoreInv, StoreTypeOK
  <2>4. /\ rows'[q.job].status = q.status
        /\ rows'[q.job].result = [agent |-> q.agent, token |-> q.token]
        /\ rows'[q.job].agent = NULL
        /\ rows'[q.job].token = rows[q.job].token
        /\ \A k \in Jobs \ {q.job} : rows'[k] = rows[k]
    BY <1>1, <2>2, <2>3 DEF ExecInv, StoreInv, StoreTypeOK, Row
  <2>5. NoGrant
    BY <2>4 DEF NoGrant
  <2>6. q.token = rows'[q.job].token
    BY <1>1, <1>4, <2>4, AcceptedIsLatest
  <2>7. FinalWasReported'
    BY <1>1, <1>2, <2>4, <2>6 DEF ExecInv, Lineage, FinalWasReported
  <2> QED
    BY <2>5, <2>7
<1> QED
  BY <1>3, <1>4 DEF Completed

\* Every step keeps the inductive invariant.
LEMMA ExecInvInductive == ExecInv /\ [Next]_vars => ExecInv'
<1> SUFFICES ASSUME ExecInv, [Next]_vars
             PROVE  Lineage'
  BY TypeInductive, StepIsStoreStep, StoreInvInductive DEF ExecInv, Lineage
<1>a. StoreInv
  BY DEF ExecInv
<1>b. ASSUME Calm, UNCHANGED <<ag, sent, grants>>
      PROVE  Lineage'
  BY <1>b, CalmKeepsReports, StillStep DEF Calm
<1>c. ASSUME UNCHANGED <<rows, sent, grants>>
      PROVE  NoGrant /\ FinalWasReported'
  BY <1>c, <1>a, CalmStatements, CalmKeepsReports DEF Calm
<1>1. CASE Clock
  BY <1>1, <1>a, <1>b, CalmStatements DEF Clock
<1>2. CASE RequeueList \/ ControlRestart
  BY <1>2, <1>a, <1>b, CalmStatements DEF RequeueList, ControlRestart
<1>3. ASSUME NEW j \in Jobs, Submit(j) \/ RequeueOne(j)
      PROVE  Lineage'
  BY <1>3, <1>a, <1>b, CalmStatements DEF Submit, RequeueOne
<1>4. ASSUME NEW a \in Agents, AgentStep(a)
      PROVE  Lineage'
  <2>a. ag[a] \in Agent
    BY DEF ExecInv, TypeOK
  <2>b. ag[a].beating => ag[a].pc \in Holding
    BY DEF ExecInv, Lineage, HolderGrantKnown
  <2>1. ASSUME NEW j \in Jobs, Candidate(a, j)
        PROVE  Lineage'
    <3> DEFINE r == [Idle EXCEPT !.pc = "claiming", !.job = j]
               p == [type |-> "claim", job |-> j, agent |-> a, token |-> 0, status |-> "failed"]
    <3>1. p \in Request /\ p.type = "claim" /\ p.agent = a
      BY BoundAssumption DEF Request, Final, Tokens
    <3>2. ~r.beating /\ r.pc = "claiming" /\ r.job = j /\ r.pc \notin Holding
      BY DEF Idle, Holding
    <3>3. ag' = [ag EXCEPT ![a] = r] /\ sent' = sent \cup {p} /\ UNCHANGED <<rows, grants>>
      BY <2>1 DEF Candidate
    <3> HIDE DEF r, p
    <3> QED
      BY <3>1, <3>2, <3>3, SendStep, ZenonT(60)
  <2>2. CASE ClaimFails(a) \/ AbandonFinish(a)
    <3>1. ~Idle.beating /\ Idle.pc = "idle" /\ Idle.pc \notin Holding
      BY DEF Idle, Holding
    <3> QED
      BY <2>2, <3>1, <1>c, LocalStep DEF ClaimFails, AbandonFinish
  <2>3. CASE Crash(a)
    <3> DEFINE r == [Idle EXCEPT !.pc = "dead"]
    <3>1. ~r.beating /\ r.pc = "dead" /\ r.pc \notin Holding
      BY DEF Idle, Holding
    <3>2. ag' = [ag EXCEPT ![a] = r] /\ UNCHANGED <<rows, sent, grants>>
      BY <2>3 DEF Crash
    <3> HIDE DEF r
    <3> QED
      BY <3>1, <3>2, <1>c, LocalStep, ZenonT(60)
  <2>4. ASSUME NEW r, ag' = [ag EXCEPT ![a] = r], UNCHANGED <<rows, sent, grants>>,
               ag[a].pc \in Holding, r.pc \in Holding,
               r.job = ag[a].job, r.token = ag[a].token,
               \/ ag[a].pc \notin {"reporting", "awaiting"}
               \/ r.pc \in {"reporting", "awaiting"} /\ r.outcome = ag[a].outcome
        PROVE  Lineage'
    <3>1. r.pc # "claiming"
      BY <2>4 DEF Holding
    <3> QED
      BY <2>4, <3>1, <1>c, LocalStep, ZenonT(60)
  <2>5. CASE StartHeartbeats(a)
    <3> DEFINE r == [ag[a] EXCEPT !.pc = "preparing", !.beating = TRUE]
    <3>1. r.pc = "preparing" /\ r.job = ag[a].job /\ r.token = ag[a].token
      BY <2>a DEF Agent
    <3> QED
      BY <2>5, <3>1, <2>4, ZenonT(60) DEF StartHeartbeats, Holding
  <2>6. CASE PrepareFails(a)
    <3> DEFINE r == [ag[a] EXCEPT !.pc = "reporting", !.outcome = "failed", !.tries = MaxFinish]
    <3>1. r.pc = "reporting" /\ r.job = ag[a].job /\ r.token = ag[a].token
      BY <2>a DEF Agent
    <3> QED
      BY <2>6, <3>1, <2>4, ZenonT(60) DEF PrepareFails, Holding
  <2>7. CASE StartContainer(a)
    <3> DEFINE r == [ag[a] EXCEPT !.pc = "running"]
    <3>1. r.pc = "running" /\ r.job = ag[a].job /\ r.token = ag[a].token
      BY <2>a DEF Agent
    <3> QED
      BY <2>7, <3>1, <2>4, ZenonT(60) DEF StartContainer, Holding
  <2>8. ASSUME NEW s \in Final, ContainerEnds(a, s)
        PROVE  Lineage'
    <3> DEFINE r == [ag[a] EXCEPT !.pc = "reporting", !.outcome = s, !.tries = 1,
                                  !.beating = FALSE]
    <3>1. r.pc = "reporting" /\ r.job = ag[a].job /\ r.token = ag[a].token
      BY <2>a DEF Agent
    <3> QED
      BY <2>8, <3>1, <2>4, ZenonT(60) DEF ContainerEnds, Holding
  <2>9. CASE RetryFinish(a)
    <3> DEFINE r == [ag[a] EXCEPT !.pc = "reporting", !.tries = @ + 1]
    <3>1. /\ r.pc = "reporting" /\ r.job = ag[a].job /\ r.token = ag[a].token
          /\ r.outcome = ag[a].outcome
      BY <2>a DEF Agent
    <3> QED
      BY <2>9, <3>1, <2>4, ZenonT(60) DEF RetryFinish, Holding
  <2>10. CASE SendFinish(a)
    <3> DEFINE r == [ag[a] EXCEPT !.pc = "awaiting"]
               p == [type |-> "finish", job |-> ag[a].job, agent |-> a,
                     token |-> ag[a].token, status |-> ag[a].outcome]
    <3>1. ag[a].pc = "reporting" /\ ag[a].pc \in Holding /\ ag[a].job \in Jobs
      BY <2>10 DEF SendFinish, Holding, ExecInv, Lineage, HolderGrantKnown
    <3>2. /\ r.pc = "awaiting" /\ r.pc \in Holding
          /\ r.job = ag[a].job /\ r.token = ag[a].token /\ r.outcome = ag[a].outcome
      BY <2>a DEF Agent, Holding
    <3>3. /\ p \in Request /\ p.agent = a /\ p.type = "finish" /\ p.status = ag[a].outcome
          /\ p.job = ag[a].job /\ p.token = ag[a].token
      BY <2>a, <3>1 DEF Request, Agent
    <3>4. ag' = [ag EXCEPT ![a] = r] /\ sent' = sent \cup {p} /\ UNCHANGED <<rows, grants>>
      BY <2>10 DEF SendFinish
    <3> HIDE DEF r, p
    <3> QED
      BY <3>1, <3>2, <3>3, <3>4, SendStep, ZenonT(60)
  <2>11. CASE SendHeartbeat(a)
    <3> DEFINE p == [type |-> "heartbeat", job |-> ag[a].job, agent |-> a,
                     token |-> ag[a].token, status |-> "failed"]
    <3>1. ag[a].pc \in Holding /\ ag[a].job \in Jobs /\ ag[a].pc # "claiming"
      BY <2>11 DEF SendHeartbeat, Holding, ExecInv, Lineage, HolderGrantKnown
    <3>2. /\ p \in Request /\ p.agent = a /\ p.type = "heartbeat"
          /\ p.job = ag[a].job /\ p.token = ag[a].token
      BY <2>a, <3>1 DEF Request, Agent, Final
    <3>3. ag' = [ag EXCEPT ![a] = ag[a]]
      BY <2>11 DEF SendHeartbeat, ExecInv, TypeOK
    <3>4. sent' = sent \cup {p} /\ UNCHANGED <<rows, grants>>
      BY <2>11 DEF SendHeartbeat
    <3> HIDE DEF p
    <3> QED
      BY <3>1, <3>2, <3>3, <3>4, SendStep, ZenonT(60)
  <2>12. CASE HeartbeatFails(a)
    <3>1. ag[a].pc \in Holding
      BY <2>12, <2>b DEF HeartbeatFails
    <3>2. CASE ag[a].fails + 1 < MaxFail
      <4> DEFINE r == [ag[a] EXCEPT !.fails = @ + 1]
      <4>1. /\ r.pc = ag[a].pc /\ r.job = ag[a].job /\ r.token = ag[a].token
            /\ r.outcome = ag[a].outcome
        BY <2>a DEF Agent
      <4>2. ag' = [ag EXCEPT ![a] = r] /\ UNCHANGED <<rows, sent, grants>>
        BY <2>12, <3>2 DEF HeartbeatFails
      <4> HIDE DEF r
      <4> QED
        BY <3>1, <4>1, <4>2, <2>4, ZenonT(60)
    <3>3. CASE ~(ag[a].fails + 1 < MaxFail)
      <4> DEFINE r == [ag[a] EXCEPT !.fails = 0, !.beating = FALSE]
      <4>1. /\ r.pc = ag[a].pc /\ r.job = ag[a].job /\ r.token = ag[a].token
            /\ r.outcome = ag[a].outcome
        BY <2>a DEF Agent
      <4>2. ag' = [ag EXCEPT ![a] = r] /\ UNCHANGED <<rows, sent, grants>>
        BY <2>12, <3>3 DEF HeartbeatFails
      <4> HIDE DEF r
      <4> QED
        BY <3>1, <4>1, <4>2, <2>4, ZenonT(60)
    <3> QED
      BY <3>2, <3>3
  <2> QED
    BY <1>4, <2>1, <2>2, <2>3, <2>5, <2>6, <2>7, <2>8, <2>9, <2>10, <2>11, <2>12 DEF AgentStep
<1>5. ASSUME NEW q \in sent, Serve(q)
      PROVE  Lineage'
  <2>1. q.job \in Jobs /\ q.agent \in Agents /\ q.token \in Tokens
    BY DEF ExecInv, TypeOK, Request
  <2>2. ASSUME NEW ttl \in TTLs, Renewed(q, ttl)
        PROVE  Calm /\ UNCHANGED <<sent, grants>>
    BY <2>1, <2>2, <1>a, CalmStatements DEF Renewed
  <2>3. ASSUME NEW ttl \in TTLs, HeartbeatUnanswered(q, ttl)
        PROVE  Lineage'
    BY <2>2, <2>3, <1>b DEF HeartbeatUnanswered
  <2>4. ASSUME NEW ttl \in TTLs, HeartbeatAnswered(q, ttl)
        PROVE  Lineage'
    <3> DEFINE a == q.agent
               r == [ag[a] EXCEPT !.fails = 0]
    <3>1. /\ r.pc = ag[a].pc /\ r.job = ag[a].job /\ r.token = ag[a].token
          /\ r.outcome = ag[a].outcome
      BY <2>1 DEF ExecInv, TypeOK, Agent
    <3>2. ag[a].pc \in Holding /\ ag[a].pc # "claiming"
      BY <2>1, <2>4 DEF HeartbeatAnswered, ExecInv, Lineage, HolderGrantKnown, Holding
    <3>3. ag' = [ag EXCEPT ![a] = r]
      BY <2>4 DEF HeartbeatAnswered
    <3>4. NoGrant /\ FinalWasReported' /\ UNCHANGED <<sent, grants>>
      BY <2>2, <2>4, CalmKeepsReports DEF HeartbeatAnswered, Calm
    <3> HIDE DEF r
    <3> QED
      BY <2>1, <3>1, <3>2, <3>3, <3>4, LocalStep, ZenonT(60)
  <2>5. CASE FinishUnanswered(q)
    BY <2>5, FinishRows, StillStep DEF FinishUnanswered, Completed
  <2>6. CASE FinishAnswered(q)
    <3>1. ~Idle.beating /\ Idle.pc = "idle" /\ Idle.pc \notin Holding
      BY DEF Idle, Holding
    <3>2. NoGrant /\ FinalWasReported'
      BY <2>6, FinishRows DEF FinishAnswered
    <3>3. ag' = [ag EXCEPT ![q.agent] = Idle] /\ UNCHANGED <<sent, grants>>
      BY <2>6 DEF FinishAnswered, Completed
    <3> QED
      BY <2>1, <3>1, <3>2, <3>3, LocalStep, ZenonT(60)
  <2> QED
    BY <1>5, <2>3, <2>4, <2>5, <2>6, ClaimStep DEF Serve
<1>6. CASE UNCHANGED vars
  BY <1>6, <1>a, <1>b, CalmStatements DEF vars
<1> QED
  BY <1>1, <1>2, <1>3, <1>4, <1>5, <1>6 DEF Next

\* The initial state satisfies the inductive invariant.
LEMMA ExecInvInit == Init => ExecInv
<1> SUFFICES ASSUME Init
             PROVE  ExecInv
  OBVIOUS
<1>1. StoreInv
  BY StoreInvInit DEF Init
<1>2. Idle \in Agent
  BY RetryAssumption, BoundAssumption DEF Idle, Agent, Final, Tokens
<1>3. TypeOK
  BY <1>1, <1>2, SMTT(60) DEF TypeOK, Init, StoreInv
<1>4. Lineage
  BY DEF Init, StoreInit, NoRow, Idle, Holding, Final, Lineage, OneAgentPerToken,
         RowGrantKnown, HolderGrantKnown, RequestGrantKnown, OneOutcomePerToken,
         FinalWasReported
<1> QED
  BY <1>1, <1>3, <1>4 DEF ExecInv

-----------------------------------------------------------------------------
(***************************************************************************)
(* The theorems.                                                            *)
(***************************************************************************)

\* The inductive invariant holds in every reachable state.
THEOREM ExecInvHolds == Spec => []ExecInv
BY ExecInvInit, ExecInvInductive, PTL DEF Spec

\* Every variable keeps its type.
THEOREM TypeCorrect == Spec => []TypeOK
BY ExecInvHolds, PTL DEF ExecInv

\* The system of agents and requeue loop uses the table only as PGStore allows:
\* every theorem about StoreSpec holds of it.
THEOREM ImplementsStore == Spec => StoreSpec
<1>1. Init => StoreInit
  BY DEF Init
<1>2. ExecInv /\ [Next]_vars => [StoreNext]_rows
  BY StepIsStoreStep DEF ExecInv
<1> QED
  BY <1>1, <1>2, ExecInvHolds, PTL DEF Spec, StoreSpec

\* The requeue loop, which lists expired leases first and requeues them later,
\* never takes away a lease renewed in between.
THEOREM RequeueSafe == Spec => LapseOnlyExpired
BY ImplementsStore, LapseHolds, PTL

\* The composed system implements the ownership promise of JobLease.
THEOREM OwnershipHolds == Spec => ImplementsJobLease
BY ImplementsStore, Refinement, PTL

\* Two agents at work on one job never hold the same fencing token.
THEOREM NoSharedTokenHolds == Spec => []NoSharedToken
<1>1. ExecInv => NoSharedToken
  <2> SUFFICES ASSUME ExecInv, NEW a \in Agents, NEW b \in Agents, a # b,
                      ag[a].pc \in Holding, ag[b].pc \in Holding,
                      ag[a].job = ag[b].job, ag[a].token = ag[b].token
               PROVE  FALSE
    BY DEF NoSharedToken
  <2>1. IsGranted(ag[a].job, ag[a].token, a) /\ IsGranted(ag[a].job, ag[a].token, b)
    BY DEF ExecInv, Lineage, HolderGrantKnown
  <2> QED
    BY <2>1 DEF ExecInv, Lineage, OneAgentPerToken, IsGranted
<1> QED
  BY <1>1, ExecInvHolds, PTL

\* What the database keeps as the result of a job was reported by the agent that
\* was granted the job's latest token.
THEOREM ResultFromLatestHolds == Spec => []ResultFromLatestLease
<1>1. ExecInv => ResultFromLatestLease
  <2> SUFFICES ASSUME ExecInv, NEW j \in Jobs, rows[j].status \in Final
               PROVE  /\ rows[j].result \in Report
                      /\ rows[j].result.token = rows[j].token
                      /\ IsGranted(j, rows[j].token, rows[j].result.agent)
    BY DEF ResultFromLatestLease, IsGranted
  <2>1. PICK q \in sent :
          /\ q.type = "finish" /\ q.job = j /\ q.token = rows[j].token
          /\ rows[j].result = [agent |-> q.agent, token |-> q.token]
    BY DEF ExecInv, Lineage, FinalWasReported
  <2>2. IsGranted(j, rows[j].token, q.agent)
    BY <2>1 DEF ExecInv, Lineage, RequestGrantKnown
  <2>3. rows[j].result.agent = q.agent /\ rows[j].result.token = rows[j].token
    BY <2>1
  <2>4. rows[j].result \in Report
    BY <2>1 DEF ExecInv, TypeOK, Request, Report
  <2> QED
    BY <2>2, <2>3, <2>4
<1> QED
  BY <1>1, ExecInvHolds, PTL

\* A finished job's status and result never change again, whatever reports are
\* still in flight or executed twice.
THEOREM OutcomeIsFinalHolds == Spec => OutcomeIsFinal
<1> DEFINE Kept == \A j \in Jobs : rows[j].status \in Final =>
             rows'[j].status = rows[j].status /\ rows'[j].result = rows[j].result
<1>1. ExecInv /\ [Next]_vars => Kept
  <2> SUFFICES ASSUME ExecInv, ExecInv', [Next]_vars, NEW j \in Jobs,
                      rows[j].status \in Final
               PROVE  rows'[j].status = rows[j].status /\ rows'[j].result = rows[j].result
    BY ExecInvInductive
  <2>1. /\ rows'[j].status \in Final
        /\ rows'[j].token = rows[j].token
    <3>1. StoreInv /\ [StoreNext]_rows
      BY StepIsStoreStep, SMTT(60) DEF ExecInv
    <3> QED
      BY <3>1, StoreStep DEF RowKept, RowGranted, RowLapsed, RowFinished, Leased, Final
  <2>2. sent \subseteq sent'
    BY ZenonT(60) DEF Next, vars, Clock, RequeueList, ControlRestart, Submit, RequeueOne, AgentStep,
           Candidate, ClaimFails, StartHeartbeats, PrepareFails, StartContainer,
           ContainerEnds, SendFinish, RetryFinish, AbandonFinish, SendHeartbeat,
           HeartbeatFails, Crash, Serve, ClaimAnswered, ClaimUnanswered, Claimed,
           HeartbeatAnswered, HeartbeatUnanswered, Renewed, FinishAnswered,
           FinishUnanswered, Completed
  <2>3. PICK p \in sent :
          /\ p.type = "finish" /\ p.job = j
          /\ p.token = rows[j].token /\ p.status = rows[j].status
          /\ rows[j].result = [agent |-> p.agent, token |-> p.token]
    BY DEF ExecInv, Lineage, FinalWasReported
  <2>4. PICK q \in sent' :
          /\ q.type = "finish" /\ q.job = j
          /\ q.token = rows'[j].token /\ q.status = rows'[j].status
          /\ rows'[j].result = [agent |-> q.agent, token |-> q.token]
    BY <2>1 DEF ExecInv, Lineage, FinalWasReported
  <2>5. p.token = q.token /\ p.job = q.job /\ p \in sent'
    BY <2>1, <2>2, <2>3, <2>4
  <2>6. p.status = q.status
    BY <2>3, <2>4, <2>5 DEF ExecInv, Lineage, OneOutcomePerToken
  <2>7. p.agent = q.agent
    <3>1. [job |-> j, token |-> q.token, agent |-> p.agent] \in grants'
      BY <2>3, <2>5, SMTT(60) DEF ExecInv, Lineage, RequestGrantKnown, IsGranted
    <3>2. [job |-> j, token |-> q.token, agent |-> q.agent] \in grants'
      BY <2>4 DEF ExecInv, Lineage, RequestGrantKnown, IsGranted
    <3> QED
      BY <3>1, <3>2 DEF ExecInv, Lineage, OneAgentPerToken
  <2> QED
    BY <2>3, <2>4, <2>5, <2>6, <2>7
<1>2. ExecInv /\ [Next]_vars => [Kept]_vars
  BY <1>1
<1> QED
  BY <1>2, ExecInvHolds, PTL DEF Spec, OutcomeIsFinal
=============================================================================
