------------------------- MODULE ControlPlaneProofs -------------------------
(***************************************************************************)
(* ControlPlane for any number of jobs, agents, requests served at a time,  *)
(* failures, timeouts, crashes and restarts.                                *)
(***************************************************************************)
EXTENDS ControlPlane, LeaseStoreProofs, SequenceTheorems

-----------------------------------------------------------------------------
(***************************************************************************)
(* The shape of the goroutines and of the agents, as far as the arguments   *)
(* need it.                                                                 *)
(***************************************************************************)
Write ==
  [key : {"meta", "index", "ad", "mirror"}, val : BOOLEAN]
    \cup [key : {"state"}, val : {"none", "queued", "assigned"} \cup Final]
    \cup [key : {"lease"}, val : Agents \cup {NULL}]
    \cup [key : {"man"}, val : {"none", "noop", "real"}]

CallOps == {"claimDB", "refused", "claim", "heartbeatDB", "heartbeat", "finishDB", "finish"}

GoodProc(r) ==
  /\ DOMAIN r = {"op", "job", "agent", "token", "status", "todo"}
  /\ r.token \in Tokens
  /\ r.op # "free" => r.job \in Jobs
  /\ r.op = "free" => r.todo = <<>>
  /\ r.op \in CallOps => r.agent \in Agents
  /\ r.op \in {"claimDB", "refused"} => r.token = 0
  /\ r.status \in Final
  /\ r.todo \in Seq(Write)

GoodAgent(r) ==
  /\ DOMAIN r = {"pc", "job", "token", "status", "thread"}
  /\ r.token \in Tokens
  /\ r.pc \notin {"idle", "dead"} => r.job \in Jobs
  /\ r.pc \in {"idle", "dead", "found", "claiming"} => r.token = 0
  /\ r.status \in Final

Shape == /\ DOMAIN proc = Procs /\ \A p \in Procs : GoodProc(proc[p])
         /\ DOMAIN ag = Agents /\ \A a \in Agents : GoodAgent(ag[a])

(***************************************************************************)
(* Where a token is between the database and its agent: with the handler    *)
(* that was granted it, or with the agent that was answered.                *)
(***************************************************************************)
Carries(p) == proc[p].op = "claim" /\ proc[p].token # 0
Holds(a) == ag[a].token # 0

Lineage ==
  /\ \A a \in Agents : Holds(a) => ag[a].token <= rows[ag[a].job].token
  /\ \A p \in Procs : Carries(p) => proc[p].token <= rows[proc[p].job].token
  /\ \A a, b \in Agents :
       (a # b /\ Holds(a) /\ ag[a].job = ag[b].job) => ag[a].token # ag[b].token
  /\ \A a \in Agents, p \in Procs :
       (Holds(a) /\ Carries(p) /\ ag[a].job = proc[p].job) => ag[a].token # proc[p].token
  /\ \A p, q \in Procs :
       (p # q /\ Carries(p) /\ Carries(q) /\ proc[p].job = proc[q].job)
         => proc[p].token # proc[q].token

ControlInv == StoreInv /\ Shape /\ Lineage

-----------------------------------------------------------------------------
\* A goroutine that has stopped is a good one.
LEMMA FreeRecord == GoodProc(Free) /\ Free.op = "free"
BY BoundAssumption DEF GoodProc, Free, CallOps, Tokens, Final

\* The handlers and loops put values of the right kind under every key.
LEMMA TodoTypes ==
  /\ Published \in Seq(Write) /\ Requeued \in Seq(Write) /\ Advertisement \in Seq(Write)
  /\ <<Put("man", "noop")>> \o Advertisement \in Seq(Write)
  /\ <<Put("man", "real"), Put("mirror", TRUE)>> \in Seq(Write)
  /\ <<Put("meta", TRUE), Put("state", "queued")>> \in Seq(Write)
  /\ <<Put("lease", NULL)>> \in Seq(Write)
  /\ <<Put("state", "queued")>> \in Seq(Write)
  /\ <<Put("state", "assigned")>> \in Seq(Write)
  /\ \A a \in Agents : /\ <<Put("lease", a)>> \in Seq(Write)
                      /\ <<Put("state", "assigned"), Put("lease", a)>> \in Seq(Write)
  /\ \A s \in Final : <<Put("state", s), Put("lease", NULL), Put("ad", FALSE),
                        Put("mirror", FALSE)>> \in Seq(Write)
<1>1. /\ \A k \in {"meta", "index", "ad", "mirror"}, v \in BOOLEAN : Put(k, v) \in Write
      /\ \A v \in {"none", "queued", "assigned"} \cup Final : Put("state", v) \in Write
      /\ \A v \in Agents \cup {NULL} : Put("lease", v) \in Write
      /\ \A v \in {"none", "noop", "real"} : Put("man", v) \in Write
  BY DEF Put, Write
<1>2. /\ Put("meta", TRUE) \in Write /\ Put("index", TRUE) \in Write
      /\ Put("ad", TRUE) \in Write /\ Put("mirror", TRUE) \in Write
      /\ Put("ad", FALSE) \in Write /\ Put("mirror", FALSE) \in Write
  BY <1>1, Zenon
<1>3. /\ Put("state", "queued") \in Write /\ Put("state", "assigned") \in Write
      /\ Put("lease", NULL) \in Write /\ Put("man", "noop") \in Write
      /\ Put("man", "real") \in Write
  BY <1>1
<1>s. \A u, v, w, x \in Write :
        /\ <<u>> \in Seq(Write) /\ <<u, v>> \in Seq(Write)
        /\ <<u, v, w>> \in Seq(Write) /\ <<u, v, w, x>> \in Seq(Write)
  OBVIOUS
<1>4. Published \in Seq(Write) /\ Requeued \in Seq(Write) /\ Advertisement \in Seq(Write)
  BY <1>s, <1>2, <1>3, Zenon DEF Published, Requeued, Advertisement
<1>5. <<Put("man", "noop")>> \o Advertisement \in Seq(Write)
  BY <1>3, <1>4
<1>6. /\ <<Put("man", "real"), Put("mirror", TRUE)>> \in Seq(Write)
      /\ <<Put("meta", TRUE), Put("state", "queued")>> \in Seq(Write)
      /\ <<Put("lease", NULL)>> \in Seq(Write)
      /\ <<Put("state", "queued")>> \in Seq(Write)
      /\ <<Put("state", "assigned")>> \in Seq(Write)
  BY <1>s, <1>2, <1>3, Zenon
<1>7. ASSUME NEW a \in Agents
      PROVE  /\ <<Put("lease", a)>> \in Seq(Write)
             /\ <<Put("state", "assigned"), Put("lease", a)>> \in Seq(Write)
  BY <1>1, <1>3
<1>8. ASSUME NEW s \in Final
      PROVE  <<Put("state", s), Put("lease", NULL), Put("ad", FALSE), Put("mirror", FALSE)>>
               \in Seq(Write)
  <2>1. Put("state", s) \in Write
    BY <1>1, Zenon
  <2> QED
    BY <2>1, <1>s, <1>2, <1>3, Zenon
<1> QED
  BY <1>4, <1>5, <1>6, <1>7, <1>8, Zenon

\* What an agent's steps leave behind is a good agent that has its token still,
\* or none.
LEMMA AgentRecords ==
  /\ GoodAgent(Idle) /\ Idle.token = 0
  /\ LET r == [Idle EXCEPT !.pc = "dead"] IN GoodAgent(r) /\ r.token = 0
  /\ \A j \in Jobs :
       LET r == [Idle EXCEPT !.pc = "found", !.job = j] IN GoodAgent(r) /\ r.token = 0
  /\ \A j \in Jobs, t \in Tokens :
       LET r == [Idle EXCEPT !.pc = "working", !.job = j, !.token = t]
       IN  GoodAgent(r) /\ r.job = j /\ r.token = t
<1>1. 0 \in Tokens
  BY BoundAssumption DEF Tokens
<1> QED
  BY <1>1 DEF GoodAgent, Idle, Final

-----------------------------------------------------------------------------
(***************************************************************************)
(* Steps that move no token.                                                *)
(***************************************************************************)
KeepsProc(r, s) == (s.op = "claim" /\ s.token # 0) =>
                     r.op = "claim" /\ s.job = r.job /\ s.token = r.token

KeepsAgent(r, s) == s.token # 0 => s.job = r.job /\ s.token = r.token

QuietProcs == /\ DOMAIN proc' = Procs
              /\ \A p \in Procs : GoodProc(proc'[p]) /\ KeepsProc(proc[p], proc'[p])

QuietAgents == /\ DOMAIN ag' = Agents
               /\ \A a \in Agents : GoodAgent(ag'[a]) /\ KeepsAgent(ag[a], ag'[a])

\* One goroutine moves.
LEMMA OneProc ==
  ASSUME Shape, NEW p \in Procs, NEW r, GoodProc(r), KeepsProc(proc[p], r),
         proc' = [proc EXCEPT ![p] = r]
  PROVE  QuietProcs
BY DEF Shape, QuietProcs, KeepsProc

\* One agent moves.
LEMMA OneAgent ==
  ASSUME Shape, NEW a \in Agents, NEW r, GoodAgent(r), KeepsAgent(ag[a], r),
         ag' = [ag EXCEPT ![a] = r]
  PROVE  QuietAgents
BY DEF Shape, QuietAgents, KeepsAgent

\* Nothing moves.
LEMMA NoneMoves ==
  ASSUME Shape
  PROVE  /\ UNCHANGED proc => QuietProcs
         /\ UNCHANGED ag => QuietAgents
BY DEF Shape, QuietProcs, QuietAgents, KeepsProc, KeepsAgent

\* The fencing tokens of the table never go back.
LEMMA TokensGrow ==
  ASSUME StoreInv, [StoreNext]_rows
  PROVE  \A j \in Jobs : /\ rows[j].token \in Nat /\ rows'[j].token \in Nat
                         /\ rows[j].token <= rows'[j].token
<1>1. \A j \in Jobs : rows[j].token \in Nat /\ rows'[j].token \in Nat
  <2>1. StoreTypeOK /\ StoreTypeOK'
    BY StoreTypeInductive DEF StoreInv
  <2> QED
    BY <2>1, BoundAssumption DEF StoreTypeOK, Row, Tokens
<1>2. CASE UNCHANGED rows
  BY <1>1, <1>2
<1>3. CASE StoreNext
  BY <1>1, <1>3, StoreStep DEF RowKept, RowGranted, RowLapsed, RowFinished
<1> QED
  BY <1>2, <1>3

\* A step that moves no token keeps the invariant.
LEMMA QuietStep ==
  ASSUME ControlInv, QuietProcs, QuietAgents, [StoreNext]_rows
  PROVE  ControlInv'
<1>1. StoreInv'
  BY StoreInvInductive DEF ControlInv
<1>2. Shape'
  BY DEF QuietProcs, QuietAgents, Shape
<1>3. \A j \in Jobs : /\ rows[j].token \in Nat /\ rows'[j].token \in Nat
                      /\ rows[j].token <= rows'[j].token
  BY TokensGrow DEF ControlInv
<1>4. \A a \in Agents : Holds(a)' =>
        Holds(a) /\ ag'[a].job = ag[a].job /\ ag'[a].token = ag[a].token /\ ag[a].job \in Jobs
  BY DEF QuietAgents, KeepsAgent, Holds, ControlInv, Shape, GoodAgent
<1>5. \A p \in Procs : Carries(p)' =>
        /\ Carries(p) /\ proc'[p].job = proc[p].job /\ proc'[p].token = proc[p].token
        /\ proc[p].job \in Jobs
  BY DEF QuietProcs, KeepsProc, Carries, ControlInv, Shape, GoodProc
<1>6. /\ \A a \in Agents : ag[a].token \in Nat
      /\ \A p \in Procs : proc[p].token \in Nat
  BY BoundAssumption DEF ControlInv, Shape, GoodAgent, GoodProc, Tokens
<1>7. \A a, b \in Agents :
        (a # b /\ Holds(a)' /\ ag'[a].job = ag'[b].job) => ag'[a].token # ag'[b].token
  <2> SUFFICES ASSUME NEW a \in Agents, NEW b \in Agents, a # b, Holds(a)',
                      ag'[a].job = ag'[b].job, ag'[a].token = ag'[b].token
               PROVE  FALSE
    OBVIOUS
  <2>1. Holds(b)'
    BY DEF Holds
  <2> QED
    BY <1>4, <2>1 DEF ControlInv, Lineage
<1>8. /\ \A a \in Agents : Holds(a)' => ag'[a].token <= rows'[ag'[a].job].token
      /\ \A p \in Procs : Carries(p)' => proc'[p].token <= rows'[proc'[p].job].token
  BY <1>3, <1>4, <1>5, <1>6 DEF ControlInv, Lineage
<1>9. /\ \A a \in Agents, p \in Procs :
           (Holds(a)' /\ Carries(p)' /\ ag'[a].job = proc'[p].job)
             => ag'[a].token # proc'[p].token
      /\ \A p, q \in Procs :
           (p # q /\ Carries(p)' /\ Carries(q)' /\ proc'[p].job = proc'[q].job)
             => proc'[p].token # proc'[q].token
  BY <1>4, <1>5 DEF ControlInv, Lineage
<1>10. Lineage'
  BY <1>7, <1>8, <1>9 DEF Lineage
<1> QED
  BY <1>1, <1>2, <1>10 DEF ControlInv

-----------------------------------------------------------------------------
(***************************************************************************)
(* The actions, one group of Next at a time.                                *)
(***************************************************************************)

\* The statements of the handlers are statements of the store.
LEMMA StoreCalls ==
  ASSUME NEW j \in Jobs
  PROVE  /\ Insert(j) => [StoreNext]_rows
         /\ AttachManifest(j) => [StoreNext]_rows
         /\ SetStatusQueued(j) => [StoreNext]_rows
         /\ Tick => [StoreNext]_rows
BY DEF Insert, StoreNext

\* A goroutine that starts on a job with Run, or ends with Stop, moves no token.
LEMMA RunStop ==
  ASSUME Shape, NEW p \in Procs
  PROVE  /\ Stop(p) => QuietProcs
         /\ \A op : \A j \in Jobs, todo \in Seq(Write) :
              (op \notin CallOps \cup {"free"} /\ Run(p, op, j, todo)) => QuietProcs
<1>1. ASSUME NEW r, GoodProc(r), r.op # "claim", proc' = [proc EXCEPT ![p] = r]
      PROVE  QuietProcs
  BY <1>1, OneProc, Zenon DEF KeepsProc
<1>2. Stop(p) => QuietProcs
  BY <1>1, FreeRecord, Zenon DEF Stop
<1>3. ASSUME NEW op, NEW j \in Jobs, NEW todo \in Seq(Write),
             op \notin CallOps \cup {"free"}, Run(p, op, j, todo)
      PROVE  QuietProcs
  <2> DEFINE r == [Free EXCEPT !.op = op, !.job = j, !.todo = todo]
  <2>1. GoodProc(r) /\ r.op = op
    BY <1>3, BoundAssumption DEF GoodProc, Free, CallOps, Tokens, Final
  <2>2. r.op # "claim" /\ proc' = [proc EXCEPT ![p] = r]
    BY <1>3, <2>1 DEF Run, CallOps
  <2> HIDE DEF r
  <2> QED
    BY <1>1, <2>1, <2>2, Zenon
<1> QED
  BY <1>2, <1>3

\* Requests of clients: the job is one of Jobs and no agent is concerned.
LEMMA ClientQuiet ==
  ASSUME ControlInv, ClientStep
  PROVE  QuietProcs /\ QuietAgents /\ [StoreNext]_rows
<1> USE DEF ControlInv
<1>0. Threads \subseteq Procs /\ "main" \in Procs
  BY DEF Procs
<1>1. ASSUME NEW j \in Jobs, NEW t \in Threads, CreateTask(t, j)
      PROVE  QuietProcs /\ QuietAgents /\ [StoreNext]_rows
  BY <1>0, <1>1, RunStop, NoneMoves, StoreCalls, TodoTypes DEF CreateTask, CallOps
<1>2. ASSUME NEW j \in Jobs, NEW t \in Threads,
             PostManifest(t, j) \/ ForceRequeue(t, j) \/ Release(t, j)
      PROVE  QuietProcs /\ QuietAgents /\ [StoreNext]_rows
  BY <1>0, <1>2, RunStop, NoneMoves, TodoTypes, Zenon
     DEF PostManifest, ForceRequeue, Release, CallOps
<1>3. ASSUME NEW j \in Jobs, StartupCreate(j)
      PROVE  QuietProcs /\ QuietAgents /\ [StoreNext]_rows
  BY <1>0, <1>3, RunStop, NoneMoves, TodoTypes, Zenon DEF StartupCreate, CallOps
<1> QED
  BY <1>1, <1>2, <1>3 DEF ClientStep

\* Ends of requests, and puts: a put, done or lost, only shortens a todo list.
LEMMA ProcQuiet ==
  ASSUME ControlInv, NEW p \in Procs, ProcStep(p) \/ DhtPutFails(p)
  PROVE  QuietProcs /\ QuietAgents /\ [StoreNext]_rows
<1> USE DEF ControlInv
<1>0. GoodProc(proc[p])
  BY DEF Shape
<1>1. ASSUME proc[p].todo # <<>>, NEW todo \in Seq(Write),
             proc' = [proc EXCEPT ![p] = [proc[p] EXCEPT !.todo = todo]]
      PROVE  QuietProcs
  <2>1. /\ GoodProc([proc[p] EXCEPT !.todo = todo])
        /\ KeepsProc(proc[p], [proc[p] EXCEPT !.todo = todo])
    BY <1>0, <1>1 DEF GoodProc, KeepsProc
  <2> QED
    BY <1>1, <2>1, OneProc, Zenon
<1>2. CASE DhtPut(p)
  <2>1. Tail(proc[p].todo) \in Seq(Write)
    BY <1>0, <1>2 DEF DhtPut, GoodProc
  <2> QED
    BY <1>1, <1>2, <2>1, NoneMoves, Zenon DEF DhtPut
<1>3. CASE DhtPutFails(p)
  <2>1. Tail(proc[p].todo) \in Seq(Write) /\ <<>> \in Seq(Write)
    BY <1>0, <1>3 DEF DhtPutFails, GoodProc
  <2> QED
    BY <1>1, <1>3, <2>1, RunStop, NoneMoves, Zenon DEF DhtPutFails
<1>4. CASE RequestEnds(p)
  <2>1. QuietProcs /\ QuietAgents
    BY <1>4, RunStop, NoneMoves DEF RequestEnds
  <2>2. [StoreNext]_rows
    <3>1. proc[p].op # "free" => proc[p].job \in Jobs
      BY <1>0 DEF GoodProc
    <3> QED
      BY <1>4, <3>1, StoreCalls DEF RequestEnds, AtEnd
  <2> QED
    BY <2>1, <2>2
<1> QED
  BY <1>2, <1>3, <1>4 DEF ProcStep

\* Agents: a call copies the agent's token into the request, where only the
\* database statement uses it.
LEMMA AgentQuiet ==
  ASSUME ControlInv, NEW a \in Agents,
         \/ AgentStep(a) \/ CallTimesOut(a) \/ Crash(a)
         \/ \E t \in Threads : SendHeartbeat(a, t)
  PROVE  QuietProcs /\ QuietAgents /\ [StoreNext]_rows
<1> USE DEF ControlInv
<1>0. GoodAgent(ag[a]) /\ Threads \subseteq Procs
  BY DEF Shape, Procs
<1>s. ag[a].status \in Final /\ "failed" \in Final
  BY <1>0 DEF GoodAgent, Final
<1>1. ASSUME NEW r, GoodAgent(r), r.token = 0, ag' = [ag EXCEPT ![a] = r]
      PROVE  QuietAgents
  BY <1>1, OneAgent, Zenon DEF KeepsAgent
<1>2. ASSUME NEW pc \in {"reporting", "finishing", "claiming"}, NEW s \in Final, NEW u,
             ag[a].pc \notin {"idle", "dead"}, pc = "claiming" => ag[a].token = 0,
             ag' = [ag EXCEPT ![a] = [ag[a] EXCEPT !.pc = pc, !.status = s, !.thread = u]]
      PROVE  QuietAgents
  <2>1. LET r == [ag[a] EXCEPT !.pc = pc, !.status = s, !.thread = u]
        IN  GoodAgent(r) /\ KeepsAgent(ag[a], r)
    BY <1>0, <1>2 DEF GoodAgent, KeepsAgent
  <2> QED
    BY <1>2, <2>1, OneAgent, Zenon
<1>3. ASSUME NEW t \in Threads, NEW op \in {"claimDB", "heartbeatDB", "finishDB"},
             NEW s \in Final, ag[a].pc \notin {"idle", "dead"}, op = "claimDB" => ag[a].token = 0,
             Call(a, t, op, s)
      PROVE  QuietProcs
  <2>1. ag[a].job \in Jobs /\ ag[a].token \in Tokens
    BY <1>0, <1>3 DEF GoodAgent
  <2> DEFINE r == [Free EXCEPT !.op = op, !.job = ag[a].job, !.agent = a,
                               !.token = ag[a].token, !.status = s]
  <2>2. GoodProc(r) /\ r.op = op
    BY <2>1, <1>3 DEF GoodProc, Free, CallOps
  <2>3. proc' = [proc EXCEPT ![t] = r]
    BY <1>3 DEF Call
  <2> HIDE DEF r
  <2> QED
    BY <1>0, <2>2, <2>3, OneProc, Zenon DEF KeepsProc
<1>4. CASE \E j \in Jobs : Discover(a, j)
  BY <1>1, <1>4, AgentRecords, NoneMoves, ZenonT(40) DEF Discover
<1>5. CASE SkipJob(a)
  BY <1>1, <1>5, AgentRecords, NoneMoves, ZenonT(40) DEF SkipJob
<1>6. CASE \E s \in Final : ContainerEnds(a, s)
  <2>1. PICK s \in Final : ContainerEnds(a, s)
    BY <1>6
  <2>2. [ag[a] EXCEPT !.pc = "reporting", !.status = s]
          = [ag[a] EXCEPT !.pc = "reporting", !.status = s, !.thread = ag[a].thread]
    BY <1>0, Zenon DEF GoodAgent
  <2> QED
    BY <1>2, <2>1, <2>2, NoneMoves, Zenon DEF ContainerEnds
<1>7. ASSUME NEW t \in Threads, SendClaim(a, t)
      PROVE  QuietProcs /\ QuietAgents /\ [StoreNext]_rows
  <2>1. [ag[a] EXCEPT !.pc = "claiming", !.thread = t]
          = [ag[a] EXCEPT !.pc = "claiming", !.status = ag[a].status, !.thread = t]
    BY <1>0, Zenon DEF GoodAgent
  <2>2. ag[a].token = 0
    BY <1>0, <1>7 DEF GoodAgent, SendClaim
  <2> QED
    BY <1>s, <1>2, <1>3, <1>7, <2>1, <2>2, Zenon DEF SendClaim
<1>8. ASSUME NEW t \in Threads, SendFinish(a, t)
      PROVE  QuietProcs /\ QuietAgents /\ [StoreNext]_rows
  <2>1. [ag[a] EXCEPT !.pc = "finishing", !.thread = t]
          = [ag[a] EXCEPT !.pc = "finishing", !.status = ag[a].status, !.thread = t]
    BY <1>0, Zenon DEF GoodAgent
  <2> QED
    BY <1>s, <1>2, <1>3, <1>8, <2>1, Zenon DEF SendFinish
<1>9. ASSUME NEW t \in Threads, SendHeartbeat(a, t)
      PROVE  QuietProcs /\ QuietAgents /\ [StoreNext]_rows
  BY <1>s, <1>3, <1>9, NoneMoves DEF SendHeartbeat
<1>10. CASE CallTimesOut(a)
  <2>1. [ag[a] EXCEPT !.pc = "reporting", !.thread = NULL]
          = [ag[a] EXCEPT !.pc = "reporting", !.status = ag[a].status, !.thread = NULL]
    BY <1>0, ZenonT(40) DEF GoodAgent
  <2>2. QuietProcs /\ [StoreNext]_rows
    BY <1>10, NoneMoves DEF CallTimesOut
  <2>3. CASE ag' = [ag EXCEPT ![a] = Idle]
    BY <2>2, <2>3, <1>1, AgentRecords, Zenon
  <2>4. CASE /\ ag[a].pc = "finishing"
             /\ ag' = [ag EXCEPT ![a] = [ag[a] EXCEPT !.pc = "reporting", !.thread = NULL]]
    BY <1>s, <2>1, <2>2, <2>4, <1>2, ZenonT(40)
  <2> QED
    BY <2>3, <2>4, <1>10 DEF CallTimesOut
<1>11. CASE Crash(a)
  BY <1>1, <1>11, AgentRecords, NoneMoves, Zenon DEF Crash
<1> QED
  BY <1>4, <1>5, <1>6, <1>7, <1>8, <1>9, <1>10, <1>11 DEF AgentStep

\* An answer that sends the agent back to polling moves no token.
LEMMA AnswerIdle ==
  ASSUME Shape, NEW t, NEW a \in Agents, Answer(t, a, Idle)
  PROVE  QuietAgents
<1>1. CASE ag' = [ag EXCEPT ![a] = Idle]
  BY <1>1, OneAgent, AgentRecords, Zenon DEF KeepsAgent
<1>2. CASE UNCHANGED ag
  BY <1>2, NoneMoves
<1> QED
  BY <1>1, <1>2 DEF Answer

\* The handlers of agents' calls, all but the grant of a claim and its answer.
LEMMA ThreadQuiet ==
  ASSUME ControlInv, NEW t \in Threads,
         \/ ExplainRefusal(t) \/ ServeHeartbeat(t) \/ ServeFinish(t)
         \/ CallEnds(t) \/ ReleaseState(t)
  PROVE  QuietProcs /\ QuietAgents /\ [StoreNext]_rows
<1> USE DEF ControlInv
<1>0. GoodProc(proc[t]) /\ t \in Procs
  BY DEF Shape, Procs
<1>1. ASSUME NEW r, GoodProc(r), r.op = "claim" => r.token = 0, proc' = [proc EXCEPT ![t] = r]
      PROVE  QuietProcs
  BY <1>0, <1>1, OneProc, Zenon DEF KeepsProc
<1>2. CASE ExplainRefusal(t)
  <2>1. proc[t].op = "refused" /\ proc[t].agent \in Agents /\ proc[t].token = 0
    BY <1>0, <1>2 DEF ExplainRefusal, GoodProc, CallOps
  <2>2. CASE /\ proc' = [proc EXCEPT ![t] =
                  [proc[t] EXCEPT !.op = "claim", !.todo = <<Put("state", "assigned")>>]]
             /\ UNCHANGED ag
    <3> DEFINE r == [proc[t] EXCEPT !.op = "claim", !.todo = <<Put("state", "assigned")>>]
    <3>1. proc' = [proc EXCEPT ![t] = r] /\ GoodProc(r) /\ r.token = 0
      BY <1>0, <2>1, <2>2, TodoTypes DEF GoodProc, CallOps
    <3> HIDE DEF r
    <3>2. QuietProcs
      BY <1>1, <3>1, Zenon
    <3> QED
      BY <1>2, <2>2, <3>2, NoneMoves DEF ExplainRefusal
  <2>3. CASE Stop(t) /\ Answer(t, proc[t].agent, Idle)
    BY <1>0, <1>2, <2>1, <2>3, RunStop, AnswerIdle DEF ExplainRefusal
  <2> QED
    BY <1>2, <2>2, <2>3 DEF ExplainRefusal
<1>3. CASE ServeHeartbeat(t)
  <2>1. /\ proc[t].op = "heartbeatDB" /\ proc[t].agent \in Agents /\ proc[t].job \in Jobs
        /\ proc[t].token \in Tokens
    BY <1>0, <1>3 DEF ServeHeartbeat, GoodProc, CallOps
  <2>2. QuietAgents
    BY <1>3, NoneMoves DEF ServeHeartbeat
  <2>3. CASE /\ \E ttl \in TTLs : Heartbeat(proc[t].job, proc[t].agent, proc[t].token, ttl)
             /\ proc' = [proc EXCEPT ![t] =
                  [proc[t] EXCEPT !.op = "heartbeat", !.todo = <<Put("lease", proc[t].agent)>>]]
    <3> DEFINE r == [proc[t] EXCEPT !.op = "heartbeat", !.todo = <<Put("lease", proc[t].agent)>>]
    <3>1. proc' = [proc EXCEPT ![t] = r] /\ GoodProc(r) /\ r.op # "claim"
      BY <1>0, <2>1, <2>3, TodoTypes DEF GoodProc, CallOps
    <3> HIDE DEF r
    <3>2. QuietProcs
      BY <1>1, <3>1, Zenon
    <3> QED
      BY <2>1, <2>2, <2>3, <3>2 DEF StoreNext
  <2>4. CASE Stop(t) /\ UNCHANGED rows
    BY <1>0, <2>2, <2>4, RunStop
  <2> QED
    BY <1>3, <2>3, <2>4 DEF ServeHeartbeat
<1>4. CASE ServeFinish(t)
  <2>1. /\ proc[t].op = "finishDB" /\ proc[t].agent \in Agents /\ proc[t].job \in Jobs
        /\ proc[t].token \in Tokens
    BY <1>0, <1>4 DEF ServeFinish, GoodProc, CallOps
  <2>2. QuietProcs
    <3> DEFINE todo == <<Put("state", proc[t].status), Put("lease", NULL),
                         Put("ad", FALSE), Put("mirror", FALSE)>>
               r == [proc[t] EXCEPT !.op = "finish", !.todo = todo]
    <3>1. proc' = [proc EXCEPT ![t] = r]
      BY <1>4 DEF ServeFinish
    <3>2. todo \in Seq(Write)
      BY <1>0, TodoTypes, Zenon DEF GoodProc
    <3> HIDE DEF todo
    <3>3. GoodProc(r) /\ r.op # "claim"
      BY <1>0, <2>1, <3>2 DEF GoodProc, CallOps
    <3> HIDE DEF r
    <3> QED
      BY <1>1, <3>1, <3>3, Zenon
  <2>3. QuietAgents
    BY <1>4, NoneMoves DEF ServeFinish
  <2>4. [StoreNext]_rows
    <3>1. CASE Finish(proc[t].job, proc[t].agent, proc[t].token, proc[t].status = "succeeded")
      <4>1. PICK ok \in BOOLEAN : ok = (proc[t].status = "succeeded")
        BY Zenon
      <4>2. Finish(proc[t].job, proc[t].agent, proc[t].token, ok)
        BY <3>1, <4>1, Zenon
      <4> QED
        BY <2>1, <4>2 DEF StoreNext
    <3> QED
      BY <1>4, <3>1 DEF ServeFinish
  <2> QED
    BY <2>2, <2>3, <2>4
<1>5. CASE CallEnds(t)
  <2>1. proc[t].agent \in Agents
    BY <1>0, <1>5, SMTT(60) DEF CallEnds, AtEnd, GoodProc, CallOps
  <2> QED
    BY <1>0, <1>5, <2>1, RunStop, AnswerIdle DEF CallEnds
<1>6. CASE ReleaseState(t)
  <2>1. proc[t].job \in Jobs
    BY <1>0, <1>6 DEF ReleaseState, AtEnd, GoodProc
  <2>2. QuietProcs
    BY <1>0, <1>6, <2>1, RunStop, TodoTypes, Zenon DEF ReleaseState, CallOps
  <2> QED
    BY <1>6, <2>2, NoneMoves DEF ReleaseState
<1> QED
  BY <1>2, <1>3, <1>4, <1>5, <1>6

\* The loops of the control process and its restart.
LEMMA LoopQuiet ==
  ASSUME ControlInv,
         \/ LoopStep \/ Announce \/ ReannounceQueued \/ Clock \/ ControlRestart
         \/ RestoreListFails \/ \E j \in Jobs : AdExpires(j)
  PROVE  QuietProcs /\ QuietAgents /\ [StoreNext]_rows
<1> USE DEF ControlInv
<1>0. {"announcer", "requeuer", "main"} \subseteq Procs
  BY DEF Procs
<1>1. ASSUME NEW j \in Jobs, RequeueExpired(j) \/ RestoreJob(j)
      PROVE  QuietProcs /\ QuietAgents /\ [StoreNext]_rows
  BY <1>0, <1>1, RunStop, NoneMoves, StoreCalls, TodoTypes, SMTT(60)
     DEF RequeueExpired, RestoreJob, CallOps
<1>2. CASE RequeueEnds \/ RestoreEnds \/ AnnounceEnds
  BY <1>0, <1>2, RunStop, NoneMoves DEF RequeueEnds, RestoreEnds, AnnounceEnds
<1>3. ASSUME NEW j \in Jobs, AnnounceOnce(j)
      PROVE  QuietProcs /\ QuietAgents /\ [StoreNext]_rows
  <2>1. QuietProcs
    BY <1>0, <1>3, RunStop, TodoTypes, Zenon DEF AnnounceOnce, CallOps
  <2> QED
    BY <1>3, <2>1, NoneMoves DEF AnnounceOnce
<1>4. CASE Serving \/ ReannounceQueued \/ RestoreListFails \/ \E j \in Jobs : AdExpires(j)
  BY <1>4, NoneMoves, Zenon DEF Serving, ReannounceQueued, RestoreListFails, AdExpires
<1>5. CASE Clock
  <2>1. QuietProcs /\ QuietAgents /\ Tick
    BY <1>5, NoneMoves DEF Clock
  <2> QED
    BY <2>1 DEF StoreNext
<1>6. CASE ControlRestart
  <2>1. QuietProcs
    <3>1. proc' = [p \in Procs |-> Free]
      BY <1>6 DEF ControlRestart
    <3> QED
      BY <3>1, FreeRecord DEF QuietProcs, KeepsProc
  <2>2. QuietAgents
    <3>1. ag' = [a \in Agents |-> IF ag[a].thread # NULL THEN Idle ELSE ag[a]]
      BY <1>6 DEF ControlRestart
    <3> QED
      BY <3>1, AgentRecords, Zenon DEF QuietAgents, KeepsAgent, Shape
  <2> QED
    BY <1>6, <2>1, <2>2 DEF ControlRestart
<1> QED
  BY <1>1, <1>2, <1>3, <1>4, <1>5, <1>6 DEF LoopStep, Announce

-----------------------------------------------------------------------------
(***************************************************************************)
(* The two steps that move a token: TryClaim hands the row's next token to  *)
(* the handler, and the handler's answer hands it to the agent.             *)
(***************************************************************************)

\* A granted token is new: it is larger than every token of the job that any
\* handler or agent has.
LEMMA ServeClaimKeeps ==
  ASSUME ControlInv, NEW t \in Threads, ServeClaim(t)
  PROVE  ControlInv' /\ [StoreNext]_rows
<1> DEFINE j == proc[t].job
           a == proc[t].agent
<1>0. GoodProc(proc[t]) /\ t \in Procs
  BY DEF ControlInv, Shape, Procs
<1>1. proc[t].op = "claimDB" /\ j \in Jobs /\ a \in Agents /\ proc[t].token = 0
  BY <1>0 DEF ServeClaim, GoodProc, CallOps
<1>2. UNCHANGED ag /\ QuietAgents
  BY NoneMoves DEF ServeClaim, ControlInv
<1>3. CASE proc' = [proc EXCEPT ![t] = [proc[t] EXCEPT !.op = "refused"]] /\ UNCHANGED rows
  <2> DEFINE r == [proc[t] EXCEPT !.op = "refused"]
  <2>1. GoodProc(r) /\ r.op = "refused" /\ proc' = [proc EXCEPT ![t] = r]
    BY <1>0, <1>1, <1>3 DEF GoodProc, CallOps
  <2> HIDE DEF r
  <2>2. QuietProcs
    BY <1>0, <2>1, OneProc, Zenon DEF KeepsProc, ControlInv
  <2> QED
    BY <1>2, <1>3, <2>2, QuietStep
<1>4. ASSUME NEW ttl \in TTLs, TryClaim(j, a, ttl), NEW todo \in Seq(Write),
             proc' = [proc EXCEPT ![t] = [proc[t] EXCEPT !.op = "claim",
                                             !.token = rows[j].token + 1, !.todo = todo]]
      PROVE  ControlInv' /\ [StoreNext]_rows
  <2>1. StoreNext
    BY <1>1, <1>4 DEF StoreNext
  <2>2. StoreInv'
    BY <2>1, StoreInvInductive DEF ControlInv
  <2>3. rows[j] \in Row /\ rows[j].token \in Nat /\ rows[j].token + 1 \in Tokens
    BY <1>1, <1>4, NextToken, BoundAssumption, SMTT(60)
       DEF ControlInv, StoreInv, StoreTypeOK, Row, Tokens, TryClaim
  <2>4. rows'[j].token = rows[j].token + 1
    BY <1>1, <1>4, <2>3 DEF TryClaim, ControlInv, StoreInv, StoreTypeOK, Row
  <2>5. \A k \in Jobs : /\ rows[k].token \in Nat /\ rows'[k].token \in Nat
                        /\ rows[k].token <= rows'[k].token
    BY <2>1, TokensGrow DEF ControlInv
  <2> DEFINE r == [proc[t] EXCEPT !.op = "claim", !.token = rows[j].token + 1, !.todo = todo]
  <2>6. GoodProc(r) /\ r.op = "claim" /\ r.token = rows[j].token + 1 /\ r.job = j
    BY <1>0, <1>1, <2>3 DEF GoodProc, CallOps
  <2>7. proc' = [proc EXCEPT ![t] = r]
    BY <1>4
  <2> HIDE DEF r, j, a
  <2>8. /\ DOMAIN proc' = Procs /\ proc'[t] = r
        /\ \A p \in Procs \ {t} : proc'[p] = proc[p]
    BY <1>0, <2>7 DEF ControlInv, Shape
  <2>9. Shape'
    BY <1>2, <2>6, <2>8 DEF ControlInv, Shape
  <2>10. /\ \A b \in Agents : ag[b].token \in Nat /\ (Holds(b) => ag[b].job \in Jobs)
         /\ \A p \in Procs : proc[p].token \in Nat /\ (Carries(p) => proc[p].job \in Jobs)
    BY BoundAssumption DEF ControlInv, Shape, GoodAgent, GoodProc, Tokens, Holds, Carries
  <2>11. /\ \A b \in Agents : Holds(b)' <=> Holds(b)
         /\ \A p \in Procs \ {t} : Carries(p)' <=> Carries(p)
    BY <1>2, <2>8 DEF Holds, Carries
  <2>12. /\ \A b \in Agents : Holds(b)' => ag'[b].token <= rows'[ag'[b].job].token
         /\ \A p \in Procs : Carries(p)' => proc'[p].token <= rows'[proc'[p].job].token
    <3>1. \A b \in Agents : Holds(b)' => ag'[b].token <= rows'[ag'[b].job].token
      BY <1>2, <2>5, <2>10, <2>11, SMTT(60) DEF ControlInv, Lineage
    <3>2. \A p \in Procs \ {t} : Carries(p)' => proc'[p].token <= rows'[proc'[p].job].token
      BY <2>5, <2>8, <2>10, <2>11, SMTT(60) DEF ControlInv, Lineage
    <3>3. proc'[t].token <= rows'[proc'[t].job].token
      BY <2>3, <2>4, <2>6, <2>8
    <3> QED
      BY <3>1, <3>2, <3>3, SMTT(60)
  <2>13. \A b, c \in Agents :
           (b # c /\ Holds(b)' /\ ag'[b].job = ag'[c].job) => ag'[b].token # ag'[c].token
    BY <1>2, <2>11, SMTT(60) DEF ControlInv, Lineage
  <2>14. \A b \in Agents, p \in Procs :
           (Holds(b)' /\ Carries(p)' /\ ag'[b].job = proc'[p].job)
             => ag'[b].token # proc'[p].token
    <3>1. \A b \in Agents : (Holds(b) /\ ag[b].job = j) => ag[b].token # rows[j].token + 1
      BY <1>1, <2>3, <2>10, SMTT(60) DEF ControlInv, Lineage
    <3> QED
      BY <1>2, <2>6, <2>8, <2>11, <3>1, SMTT(60) DEF ControlInv, Lineage
  <2>15. \A p, q \in Procs :
           (p # q /\ Carries(p)' /\ Carries(q)' /\ proc'[p].job = proc'[q].job)
             => proc'[p].token # proc'[q].token
    <3>1. \A p \in Procs : (Carries(p) /\ proc[p].job = j) => proc[p].token # rows[j].token + 1
      BY <1>1, <2>3, <2>10, SMTT(60) DEF ControlInv, Lineage
    <3> QED
      BY <2>6, <2>8, <2>11, <3>1, SMTT(60) DEF ControlInv, Lineage
  <2>16. Lineage'
    BY <2>12, <2>13, <2>14, <2>15 DEF Lineage
  <2> QED
    BY <2>1, <2>2, <2>9, <2>16 DEF ControlInv
<1>5. CASE \E ttl \in TTLs :
             /\ TryClaim(j, a, ttl)
             /\ proc' = [proc EXCEPT ![t] =
                  [proc[t] EXCEPT !.op = "claim", !.token = rows[j].token + 1,
                                  !.todo = <<Put("state", "assigned"), Put("lease", a)>>]]
  <2> DEFINE todo == <<Put("state", "assigned"), Put("lease", a)>>
  <2>1. PICK ttl \in TTLs :
          /\ TryClaim(j, a, ttl)
          /\ proc' = [proc EXCEPT ![t] = [proc[t] EXCEPT !.op = "claim",
                                             !.token = rows[j].token + 1, !.todo = todo]]
    BY <1>5
  <2>2. todo \in Seq(Write)
    BY <1>1, TodoTypes
  <2> HIDE DEF todo, j, a
  <2> QED
    BY <1>4, <2>1, <2>2, Zenon
<1> QED
  BY <1>3, <1>5 DEF ServeClaim

\* The answer takes the token from the handler that ends, to the agent if it
\* still listens: nobody else has it.
LEMMA ClaimEndsKeeps ==
  ASSUME ControlInv, NEW t \in Threads, ClaimEnds(t)
  PROVE  ControlInv' /\ [StoreNext]_rows
<1> DEFINE j == proc[t].job
           a == proc[t].agent
           n == proc[t].token
<1>0. GoodProc(proc[t]) /\ t \in Procs
  BY DEF ControlInv, Shape, Procs
<1>1. proc[t].op = "claim" /\ j \in Jobs /\ a \in Agents /\ n \in Tokens /\ n \in Nat
  BY <1>0, BoundAssumption DEF ClaimEnds, AtEnd, GoodProc, CallOps, Tokens
<1>2. QuietProcs /\ proc' = [proc EXCEPT ![t] = Free] /\ UNCHANGED rows
  BY <1>0, RunStop, ZenonT(40) DEF ClaimEnds, Stop, ControlInv
<1>3. CASE UNCHANGED ag
  BY <1>2, <1>3, NoneMoves, QuietStep DEF ControlInv
<1>4. CASE n = 0 /\ ag' = [ag EXCEPT ![a] = Idle]
  <2>1. QuietAgents
    BY <1>1, <1>4, OneAgent, AgentRecords, Zenon DEF KeepsAgent, ControlInv
  <2> QED
    BY <1>2, <2>1, QuietStep
<1>5. CASE /\ n # 0
           /\ ag' = [ag EXCEPT ![a] = [Idle EXCEPT !.pc = "working", !.job = j, !.token = n]]
  <2> DEFINE r == [Idle EXCEPT !.pc = "working", !.job = j, !.token = n]
  <2>1. GoodAgent(r) /\ r.job = j /\ r.token = n /\ ag' = [ag EXCEPT ![a] = r]
    BY <1>1, <1>5, AgentRecords, Zenon
  <2> HIDE DEF r
  <2>2. DOMAIN ag' = Agents /\ ag'[a] = r /\ \A b \in Agents \ {a} : ag'[b] = ag[b]
    BY <1>1, <2>1 DEF ControlInv, Shape
  <2>3. Shape'
    BY <1>2, <2>1, <2>2 DEF ControlInv, Shape, QuietProcs
  <2>4. /\ \A p \in Procs \ {t} : proc'[p] = proc[p]
        /\ proc'[t] = Free
    BY <1>0, <1>2 DEF ControlInv, Shape
  <2>5. /\ Carries(t) /\ ~Carries(t)'
        /\ \A p \in Procs \ {t} : Carries(p)' <=> Carries(p)
        /\ \A b \in Agents \ {a} : Holds(b)' <=> Holds(b)
    BY <1>1, <1>5, <2>2, <2>4, FreeRecord, SMTT(60) DEF Carries, Holds
  <2>6. n <= rows[j].token
    BY <1>0, <2>5 DEF ControlInv, Lineage
  <2>7. \A b \in Agents : (Holds(b) /\ ag[b].job = j) => ag[b].token # n
    BY <1>0, <2>5, SMTT(60) DEF ControlInv, Lineage
  <2>8. \A p \in Procs \ {t} : (Carries(p) /\ proc[p].job = j) => proc[p].token # n
    BY <1>0, <2>5, SMTT(60) DEF ControlInv, Lineage
  <2> HIDE DEF j, n, a
  <2>9. /\ \A b \in Agents : Holds(b)' => ag'[b].token <= rows'[ag'[b].job].token
        /\ \A p \in Procs : Carries(p)' => proc'[p].token <= rows'[proc'[p].job].token
    BY <1>2, <2>1, <2>2, <2>4, <2>5, <2>6 DEF ControlInv, Lineage
  <2>10. \A b, c \in Agents :
           (b # c /\ Holds(b)' /\ ag'[b].job = ag'[c].job) => ag'[b].token # ag'[c].token
    <3> SUFFICES ASSUME NEW b \in Agents, NEW c \in Agents, b # c, Holds(b)',
                        ag'[b].job = ag'[c].job, ag'[b].token = ag'[c].token
                 PROVE  FALSE
      OBVIOUS
    <3>0. Holds(c)'
      BY DEF Holds
    <3>1. CASE b = a
      BY <3>0, <3>1, <2>1, <2>2, <2>5, <2>7
    <3>2. CASE c = a
      BY <3>0, <3>2, <2>1, <2>2, <2>5, <2>7, SMTT(60)
    <3>3. CASE b # a /\ c # a
      BY <3>0, <3>3, <2>2, <2>5, SMTT(60) DEF ControlInv, Lineage
    <3> QED
      BY <3>1, <3>2, <3>3
  <2>11. \A b \in Agents, p \in Procs :
           (Holds(b)' /\ Carries(p)' /\ ag'[b].job = proc'[p].job)
             => ag'[b].token # proc'[p].token
    BY <2>1, <2>2, <2>4, <2>5, <2>8, SMTT(60) DEF ControlInv, Lineage
  <2>12. \A p, q \in Procs :
           (p # q /\ Carries(p)' /\ Carries(q)' /\ proc'[p].job = proc'[q].job)
             => proc'[p].token # proc'[q].token
    BY <2>4, <2>5 DEF ControlInv, Lineage
  <2>13. Lineage'
    BY <2>9, <2>10, <2>11, <2>12 DEF Lineage
  <2>14. StoreInv'
    BY <1>2, StoreInvInductive DEF ControlInv
  <2> QED
    BY <1>2, <2>3, <2>13, <2>14 DEF ControlInv
<1> QED
  BY <1>3, <1>4, <1>5, Zenon DEF ClaimEnds, Answer

-----------------------------------------------------------------------------
\* Every step keeps the invariant, and does to the table what a statement of
\* PGStore does.
LEMMA ControlStep ==
  ControlInv /\ [Next]_vars => ControlInv' /\ [StoreNext]_rows
<1> SUFFICES ASSUME ControlInv, [Next]_vars
             PROVE  ControlInv' /\ [StoreNext]_rows
  OBVIOUS
<1>1. ASSUME QuietProcs, QuietAgents, [StoreNext]_rows
      PROVE  ControlInv' /\ [StoreNext]_rows
  BY <1>1, QuietStep
<1>2. CASE ClientStep
  BY <1>1, <1>2, ClientQuiet
<1>3. ASSUME NEW a \in Agents,
             \/ AgentStep(a) \/ CallTimesOut(a) \/ Crash(a)
             \/ \E t \in Threads : SendHeartbeat(a, t)
      PROVE  ControlInv' /\ [StoreNext]_rows
  BY <1>1, <1>3, AgentQuiet
<1>4. ASSUME NEW p \in Procs, ProcStep(p) \/ DhtPutFails(p)
      PROVE  ControlInv' /\ [StoreNext]_rows
  BY <1>1, <1>4, ProcQuiet
<1>5. ASSUME NEW t \in Threads, ThreadStep(t)
      PROVE  ControlInv' /\ [StoreNext]_rows
  BY <1>1, <1>5, ThreadQuiet, ServeClaimKeeps, ClaimEndsKeeps DEF ThreadStep
<1>6. CASE \/ LoopStep \/ Announce \/ ReannounceQueued \/ Clock \/ ControlRestart
           \/ RestoreListFails \/ \E j \in Jobs : AdExpires(j)
  BY <1>1, <1>6, LoopQuiet
<1>7. CASE UNCHANGED vars
  BY <1>1, <1>7, NoneMoves DEF vars, ControlInv
<1> QED
  BY <1>2, <1>3, <1>4, <1>5, <1>6, <1>7 DEF Next, Disturbance

\* Nobody has a token at the start.
LEMMA ControlInit == Init => ControlInv
<1> SUFFICES ASSUME Init
             PROVE  ControlInv
  OBVIOUS
<1>1. StoreInv
  BY StoreInvInit DEF Init
<1>2. Shape
  BY FreeRecord, AgentRecords, ZenonT(40) DEF Init, Shape
<1>3. /\ \A a \in Agents : ~Holds(a)
      /\ \A p \in Procs : ~Carries(p)
  BY FreeRecord, AgentRecords, Zenon DEF Init, Holds, Carries
<1> QED
  BY <1>1, <1>2, <1>3 DEF ControlInv, Lineage

\* The invariant holds at every moment, whatever is lost, times out or restarts.
THEOREM ControlInvCorrect == Spec => []ControlInv
BY ControlInit, ControlStep, PTL DEF Spec

\* The handlers and loops use the table as LeaseStore allows, so that everything
\* proved of the store holds of the control server.
THEOREM ControlImplementsStore == Spec => StoreSpec
<1>1. Init => StoreInit
  BY DEF Init
<1> QED
  BY <1>1, ControlInvCorrect, ControlStep, PTL DEF Spec, StoreSpec

\* Whatever its handlers and loops do at the same time, the control server keeps the
\* ownership promise of JobLease.
THEOREM ControlOwnershipHolds == Spec => ImplementsJobLease
BY ControlImplementsStore, Refinement, PTL

\* No handler or loop of the server takes a lease away that has not expired, and
\* retry_count is the number of leases it took away.
THEOREM ControlRequeueSafe == Spec => LapseOnlyExpired /\ []RetryCountsLostLeases
BY ControlImplementsStore, LapseHolds, RetryCountHolds, PTL

\* Two agents never work under the same lease, for any number of agents and of
\* concurrent requests: a token goes from its row to one handler to one agent.
THEOREM WorkUnderOwnLeaseHolds == Spec => []WorkUnderOwnLease
<1>1. ControlInv => WorkUnderOwnLease
  BY DEF ControlInv, Lineage, Holds, WorkUnderOwnLease
<1> QED
  BY <1>1, ControlInvCorrect, PTL

\* A finished job stays finished whatever handlers and loops do, for none of their
\* statements moves a row from an outcome to a state without one.
THEOREM FinishedStaysFinishedHolds == Spec => FinishedStaysFinished
<1>1. ControlInv /\ [Next]_vars =>
        [\A j \in Jobs : rows[j].status \in Final => rows'[j].status \in Final]_vars
  <2> SUFFICES ASSUME ControlInv, [Next]_vars, NEW j \in Jobs, rows[j].status \in Final
               PROVE  rows'[j].status \in Final
    OBVIOUS
  <2>1. CASE UNCHANGED rows
    BY <2>1
  <2>2. CASE StoreNext
    BY <2>2, StoreStep
       DEF ControlInv, RowKept, RowGranted, RowLapsed, RowFinished, Leased, Final
  <2> QED
    BY <2>1, <2>2, ControlStep
<1> QED
  BY <1>1, ControlInvCorrect, PTL DEF Spec, FinishedStaysFinished

-----------------------------------------------------------------------------
(***************************************************************************)
(* The DHT records, one put at a time.                                      *)
(***************************************************************************)
Keys == {"meta", "state", "lease", "man", "ad", "mirror", "index"}

After(r, w) == [r EXCEPT ![w.key] = w.val]

\* A put leaves a well-formed record.
LEMMA PutRecord ==
  ASSUME NEW r \in Record, NEW w \in Write
  PROVE  After(r, w) \in Record
<1>1. CASE w \in [key : {"meta", "index", "ad", "mirror"}, val : BOOLEAN]
  <2>1. w.key \in {"meta", "index", "ad", "mirror"} /\ w.val \in BOOLEAN
    BY <1>1
  <2> QED
    BY <2>1 DEF Record, After
<1>2. CASE w \in [key : {"state"}, val : {"none", "queued", "assigned"} \cup Final]
  BY <1>2 DEF Record, After
<1>3. CASE w \in [key : {"lease"}, val : Agents \cup {NULL}]
  BY <1>3 DEF Record, After
<1>4. CASE w \in [key : {"man"}, val : {"none", "noop", "real"}]
  BY <1>4 DEF Record, After
<1> QED
  BY <1>1, <1>2, <1>3, <1>4 DEF Write

\* DhtPut in terms of its first write.
LEMMA PutEffect ==
  ASSUME ControlInv, TypeOK, NEW p \in Procs, DhtPut(p)
  PROVE  /\ proc[p].todo \in Seq(Write) /\ proc[p].todo # <<>>
         /\ Head(proc[p].todo) \in Write
         /\ proc[p].op # "free" /\ proc[p].job \in Jobs
         /\ dht' = [dht EXCEPT ![proc[p].job] = After(dht[proc[p].job], Head(proc[p].todo))]
<1>1. GoodProc(proc[p])
  BY DEF ControlInv, Shape
<1>2. proc[p].todo \in Seq(Write) /\ proc[p].todo # <<>> /\ Head(proc[p].todo) \in Write
  BY <1>1 DEF GoodProc, DhtPut
<1>3. proc[p].op # "free" /\ proc[p].job \in Jobs
  BY <1>1, <1>2 DEF GoodProc
<1> QED
  BY <1>2, <1>3 DEF DhtPut, After

\* Every step keeps the types.
LEMMA TypeStep ==
  ControlInv /\ TypeOK /\ [Next]_vars => TypeOK'
<1> SUFFICES ASSUME ControlInv, TypeOK, [Next]_vars
             PROVE  TypeOK'
  BY SMTT(40)
<1>1. StoreTypeOK' /\ DOMAIN proc' = Procs
  BY ControlStep DEF ControlInv, StoreInv, Shape
<1>2. ASSUME dht' \in [Jobs -> Record], dirty' \subseteq Jobs, up' \in BOOLEAN,
             torestore' \subseteq Jobs
      PROVE  TypeOK'
  BY <1>1, <1>2 DEF TypeOK
<1>3. ASSUME UNCHANGED <<dht, dirty, up, torestore>>
      PROVE  TypeOK'
  BY <1>2, <1>3 DEF TypeOK
<1>4. ASSUME NEW D, D \subseteq Jobs, dirty' = dirty \cup D, UNCHANGED <<dht, up, torestore>>
      PROVE  TypeOK'
  BY <1>2, <1>4 DEF TypeOK
<1>5. \A p \in Procs : \A op : AtEnd(p, op) /\ op # "free" => {proc[p].job} \subseteq Jobs
  BY SMTT(60) DEF ControlInv, Shape, GoodProc, AtEnd
<1>6. CASE ClientStep
  BY <1>3, <1>6 DEF ClientStep, CreateTask, PostManifest, ForceRequeue, Release, StartupCreate
<1>7. ASSUME NEW a \in Agents,
             \/ AgentStep(a) \/ CallTimesOut(a) \/ Crash(a)
             \/ \E t \in Threads : SendHeartbeat(a, t)
      PROVE  TypeOK'
  BY <1>3, <1>7, Zenon DEF AgentStep, Discover, SkipJob, ContainerEnds, SendClaim, SendFinish,
                    SendHeartbeat, CallTimesOut, Crash
<1>8. ASSUME NEW p \in Procs, DhtPut(p)
      PROVE  TypeOK'
  <2>1. dht \in [Jobs -> Record]
    BY DEF TypeOK
  <2>2. After(dht[proc[p].job], Head(proc[p].todo)) \in Record
    BY <1>8, <2>1, PutEffect, PutRecord
  <2>3. dht' \in [Jobs -> Record]
    BY <1>8, <2>1, <2>2, PutEffect, SMTT(60)
  <2> QED
    BY <1>2, <1>8, <2>3 DEF DhtPut, TypeOK
<1>9. ASSUME NEW p \in Procs, RequestEnds(p)
      PROVE  TypeOK'
  <2>1. CASE UNCHANGED dirty
    BY <1>3, <1>9, <2>1 DEF RequestEnds
  <2>2. CASE dirty' = dirty \cup {proc[p].job} /\ {proc[p].job} \subseteq Jobs
    BY <1>4, <1>9, <2>2, Zenon DEF RequestEnds
  <2> QED
    BY <1>5, <1>9, <2>1, <2>2, SMTT(60) DEF RequestEnds
<1>10. ASSUME NEW p \in Procs, DhtPutFails(p)
       PROVE  TypeOK'
  BY <1>3, <1>10, SMTT(60) DEF DhtPutFails
<1>11. ASSUME NEW t \in Threads, ThreadStep(t)
       PROVE  TypeOK'
  BY <1>3, <1>11 DEF ThreadStep, ServeClaim, ExplainRefusal, ClaimEnds, ServeHeartbeat,
                     ServeFinish, CallEnds, ReleaseState
<1>12. CASE LoopStep
  <2>0. "main" \in Procs /\ "requeuer" \in Procs
    BY DEF Procs
  <2>1. CASE \E j \in Jobs : RequeueExpired(j) \/ RestoreJob(j)
    BY <1>3, <2>1 DEF RequeueExpired, RestoreJob
  <2>2. CASE RequeueEnds
    BY <1>4, <1>5, <2>0, <2>2, Zenon DEF RequeueEnds
  <2>3. CASE RestoreEnds
    BY <1>2, <1>5, <2>0, <2>3 DEF RestoreEnds, TypeOK
  <2>4. CASE Serving
    BY <1>2, <2>4 DEF Serving, TypeOK
  <2> QED
    BY <1>12, <2>1, <2>2, <2>3, <2>4 DEF LoopStep
<1>13. CASE Announce
  BY <1>3, <1>13 DEF Announce, AnnounceOnce, AnnounceEnds
<1>14. CASE ReannounceQueued
  BY <1>4, <1>14, Zenon DEF ReannounceQueued, ListQueued
<1>15. CASE ControlRestart
  <2>1. [j \in Jobs |-> Unpublished] \in [Jobs -> Record]
    BY DEF Unpublished, Record
  <2>2. dht' \in [Jobs -> Record]
    BY <1>15, <2>1 DEF ControlRestart, TypeOK
  <2> QED
    BY <1>2, <1>15, <2>2, Zenon DEF ControlRestart, ListQueued
<1>16. ASSUME NEW j \in Jobs, AdExpires(j)
       PROVE  TypeOK'
  <2>1. dht \in [Jobs -> Record]
    BY DEF TypeOK
  <2>2. [dht[j] EXCEPT !.ad = FALSE, !.mirror = FALSE] \in Record
    BY <2>1, ZenonT(60) DEF Record
  <2>3. dht' = [dht EXCEPT ![j] = [dht[j] EXCEPT !.ad = FALSE, !.mirror = FALSE]]
    BY <1>16 DEF AdExpires
  <2>4. dht' \in [Jobs -> Record]
    BY <2>1, <2>2, <2>3
  <2> QED
    BY <1>2, <1>16, <2>4 DEF AdExpires, TypeOK
<1>17. CASE Clock \/ UNCHANGED vars
  BY <1>3, <1>17 DEF Clock, vars
<1>18. CASE RestoreListFails
  BY <1>2, <1>18 DEF RestoreListFails, TypeOK
<1> QED
  BY <1>6, <1>7, <1>8, <1>9, <1>10, <1>11, <1>12, <1>13, <1>14, <1>15, <1>16, <1>17, <1>18, SMTT(60)
     DEF Next, ProcStep, Disturbance

\* The table, the DHT records and the state of the loops keep their types, for
\* any number of goroutines.
THEOREM ControlTypeCorrect == Spec => []TypeOK
<1>1. Init => TypeOK
  <2>1. [j \in Jobs |-> Unpublished] \in [Jobs -> Record]
    BY DEF Unpublished, Record
  <2> QED
    BY <2>1, StoreTypeInit DEF Init, TypeOK
<1> QED
  BY <1>1, TypeStep, ControlInvCorrect, PTL DEF Spec

-----------------------------------------------------------------------------
(***************************************************************************)
(* restoreJobsFromDemand.  While it runs nothing is served, so the goroutines*)
(* that move are main and the announcer, the table keeps its queued jobs,   *)
(* and what main has still to put is due on the record of its job.          *)
(***************************************************************************)
Due(todo, r, k, v) ==
  /\ \A i \in 1..Len(todo) : todo[i].key = k => todo[i].val = v
  /\ r[k] = v \/ \E i \in 1..Len(todo) : todo[i].key = k

IsPublished(j) == dht[j]["state"] = "queued" /\ dht[j]["index"] = TRUE

Restoring ==
  /\ \A p \in Procs \ {"main", "announcer"} : proc[p].op = "free"
  /\ proc["announcer"].op \in {"free", "announce"}
  /\ \A i \in 1..Len(proc["announcer"].todo) :
       proc["announcer"].todo[i].key \in {"man", "ad", "mirror"}
  /\ proc["main"].op \in {"free", "restore"}
  /\ proc["main"].op = "restore" =>
       /\ proc["main"].job \in torestore
       /\ Due(proc["main"].todo, dht[proc["main"].job], "state", "queued")
       /\ Due(proc["main"].todo, dht[proc["main"].job], "index", TRUE)
  /\ \A j \in ListQueued : j \in torestore \/ (IsPublished(j) /\ j \in dirty)

LostCounted == "lost" \in DOMAIN used /\ used["lost"] \in Nat

RestoreInv == LostCounted /\ (~up /\ used["lost"] = 0 => Restoring)

\* A put that is done is no longer due, and what is due stays due.
LEMMA DuePut ==
  ASSUME NEW todo \in Seq(Write), todo # <<>>, NEW r \in Record, NEW k \in Keys, NEW v,
         Due(todo, r, k, v)
  PROVE  Due(Tail(todo), After(r, Head(todo)), k, v)
<1>1. DOMAIN r = Keys
  BY DEF Record, Keys
<1>2. /\ Len(todo) \in Nat /\ Len(todo) >= 1
      /\ Len(Tail(todo)) = Len(todo) - 1
      /\ \A i \in 1..(Len(todo) - 1) : Tail(todo)[i] = todo[i + 1]
      /\ Head(todo) = todo[1]
  OBVIOUS
<1>3. After(r, Head(todo))[k] = IF Head(todo).key = k THEN Head(todo).val ELSE r[k]
  BY <1>1 DEF After
<1>4. \A i \in 1..Len(Tail(todo)) : Tail(todo)[i].key = k => Tail(todo)[i].val = v
  BY <1>2, SMTT(60) DEF Due
<1>5. CASE Head(todo).key = k
  BY <1>2, <1>3, <1>4, <1>5, SMTT(60) DEF Due
<1>6. CASE Head(todo).key # k
  <2>1. CASE r[k] = v
    BY <1>3, <1>4, <1>6, <2>1 DEF Due
  <2>2. CASE \E i \in 1..Len(todo) : todo[i].key = k
    <3>1. PICK i \in 1..Len(todo) : todo[i].key = k
      BY <2>2
    <3>2. i - 1 \in 1..Len(Tail(todo)) /\ Tail(todo)[i - 1].key = k
      BY <3>1, <1>2, <1>6
    <3> QED
      BY <3>2, <1>4 DEF Due
  <2> QED
    BY <2>1, <2>2 DEF Due
<1> QED
  BY <1>5, <1>6

\* What is due on a record is due on any other with the same value under the key.
LEMMA SameDue ==
  \A todo, r, s, k, v : (s[k] = r[k] /\ Due(todo, r, k, v)) => Due(todo, s, k, v)
BY DEF Due

\* What restoreJobsFromDemand sets out to put is due from the start.
LEMMA DueStart ==
  ASSUME NEW r
  PROVE  Due(Published, r, "state", "queued") /\ Due(Published, r, "index", TRUE)
<1>1. /\ Len(Published) = 3
      /\ Published[1] = Put("meta", TRUE)
      /\ Published[2] = Put("state", "queued")
      /\ Published[3] = Put("index", TRUE)
  BY DEF Published
<1>2. /\ Published[1].key = "meta" /\ Published[2].key = "state" /\ Published[3].key = "index"
      /\ Published[2].val = "queued"
  BY <1>1 DEF Put
<1>3. Published[3].val = TRUE
  BY <1>1 DEF Put
<1>4. \A i \in 1..Len(Published) : i = 1 \/ i = 2 \/ i = 3
  BY <1>1
<1>5. 2 \in 1..Len(Published) /\ 3 \in 1..Len(Published)
  BY <1>1
<1>6. Due(Published, r, "state", "queued")
  BY <1>2, <1>4, <1>5 DEF Due
<1>7. Due(Published, r, "index", TRUE)
  BY <1>2, <1>3, <1>4, <1>5, Zenon DEF Due
<1> QED
  BY <1>6, <1>7, Zenon

\* A put of the announcer leaves the state and the index entry alone.
LEMMA AnnouncerPut ==
  ASSUME NEW r \in Record, NEW w, w.key \in {"man", "ad", "mirror"}
  PROVE  /\ After(r, w)["state"] = r["state"]
         /\ After(r, w)["index"] = r["index"]
BY DEF Record, After

\* What the announcer puts is not part of what main restores.
LEMMA AnnouncerKeys ==
  /\ \A i \in 1..Len(Advertisement) : Advertisement[i].key \in {"man", "ad", "mirror"}
  /\ LET todo == <<Put("man", "noop")>> \o Advertisement
     IN  \A i \in 1..Len(todo) : todo[i].key \in {"man", "ad", "mirror"}
<1>1. /\ Len(Advertisement) = 2
      /\ Advertisement[1] = Put("ad", TRUE) /\ Advertisement[2] = Put("mirror", TRUE)
  BY DEF Advertisement
<1>2. \A k, v : Put(k, v).key = k
  BY DEF Put
<1>3. Advertisement[1].key = "ad" /\ Advertisement[2].key = "mirror"
  BY <1>1 DEF Put
<1>4. \A i \in 1..Len(Advertisement) : Advertisement[i].key \in {"man", "ad", "mirror"}
  <2>1. \A i \in 1..Len(Advertisement) : i = 1 \/ i = 2
    BY <1>1
  <2> QED
    BY <1>3, <2>1
<1>5. LET todo == <<Put("man", "noop")>> \o Advertisement
      IN  \A i \in 1..Len(todo) : todo[i].key \in {"man", "ad", "mirror"}
  <2> DEFINE todo == <<Put("man", "noop")>> \o Advertisement
  <2>1. \A w \in Write, u \in Seq(Write) :
          Len(u) = 2 => /\ Len(<<w>> \o u) = 3 /\ (<<w>> \o u)[1] = w
                        /\ (<<w>> \o u)[2] = u[1] /\ (<<w>> \o u)[3] = u[2]
    <3> SUFFICES ASSUME NEW w \in Write, NEW u \in Seq(Write), Len(u) = 2
                 PROVE  /\ Len(<<w>> \o u) = 3 /\ (<<w>> \o u)[1] = w
                        /\ (<<w>> \o u)[2] = u[1] /\ (<<w>> \o u)[3] = u[2]
      OBVIOUS
    <3>1. <<w>> \in Seq(Write) /\ Len(<<w>>) = 1 /\ <<w>>[1] = w
      OBVIOUS
    <3>2. /\ Len(<<w>> \o u) = 3
          /\ \A i \in 1..3 : (<<w>> \o u)[i] = IF i <= 1 THEN <<w>>[i] ELSE u[i - 1]
      BY <3>1, ConcatProperties, SMTT(60)
    <3> QED
      BY <3>1, <3>2
  <2>a. Put("man", "noop") \in Write /\ Advertisement \in Seq(Write)
    BY TodoTypes DEF Put, Write
  <2>2. /\ Len(todo) = 3 /\ todo[1] = Put("man", "noop")
        /\ todo[2] = Advertisement[1] /\ todo[3] = Advertisement[2]
    BY <1>1, <2>1, <2>a, Zenon
  <2> HIDE DEF todo
  <2>3. \A i \in 1..Len(todo) : todo[i].key \in {"man", "ad", "mirror"}
    BY <1>2, <1>3, <2>2
  <2> QED
    BY <2>3 DEF todo
<1> QED
  BY <1>4, <1>5

\* A step uses up at most one unit of one bound; only Lose counts a lost call.
LEMMA UsedStep ==
  ASSUME LostCounted, [Next]_vars
  PROVE  LostCounted' /\ (used'["lost"] = 0 => used["lost"] = 0)
<1>1. CASE UNCHANGED used
  BY <1>1 DEF LostCounted
<1>2. CASE \E b : used' = [used EXCEPT ![b] = @ + 1]
  <2>1. PICK b : used' = [used EXCEPT ![b] = @ + 1]
    BY <1>2, Zenon
  <2>2. /\ "lost" \in DOMAIN used'
        /\ used'["lost"] = used["lost"] \/ used'["lost"] = used["lost"] + 1
    BY <2>1 DEF LostCounted
  <2> QED
    BY <2>2 DEF LostCounted
<1>3. UNCHANGED used \/ \E b : used' = [used EXCEPT ![b] = @ + 1]
  <2>1. CASE ClientStep
    BY <2>1, Zenon DEF ClientStep, CreateTask, PostManifest, ForceRequeue, Release, StartupCreate,
                Request
  <2>2. ASSUME NEW a \in Agents,
               \/ AgentStep(a) \/ CallTimesOut(a) \/ Crash(a)
               \/ \E t \in Threads : SendHeartbeat(a, t)
        PROVE  UNCHANGED used \/ \E b : used' = [used EXCEPT ![b] = @ + 1]
    BY <2>2, Zenon DEF AgentStep, Discover, SkipJob, ContainerEnds, SendClaim, SendFinish,
                SendHeartbeat, CallTimesOut, Crash, Lose
  <2>3. ASSUME NEW p \in Procs, ProcStep(p) \/ DhtPutFails(p)
        PROVE  UNCHANGED used \/ \E b : used' = [used EXCEPT ![b] = @ + 1]
    BY <2>3, ZenonT(60) DEF ProcStep, DhtPut, RequestEnds, DhtPutFails, Lose
  <2>4. ASSUME NEW t \in Threads, ThreadStep(t)
        PROVE  UNCHANGED used \/ \E b : used' = [used EXCEPT ![b] = @ + 1]
    <3>1. CASE ReleaseState(t)
      BY <3>1, ZenonT(60) DEF ReleaseState, Lose
    <3>2. CASE ~ReleaseState(t)
      BY <2>4, <3>2 DEF ThreadStep, ServeClaim, ExplainRefusal, ClaimEnds, ServeHeartbeat,
                        ServeFinish, CallEnds
    <3> QED
      BY <3>1, <3>2
  <2>5. CASE LoopStep \/ ReannounceQueued \/ Clock \/ UNCHANGED vars
    BY <2>5 DEF LoopStep, RequeueExpired, RestoreJob, RequeueEnds, RestoreEnds, Serving,
                ReannounceQueued, Clock, vars
  <2>6. CASE Announce \/ ControlRestart \/ RestoreListFails
    BY <2>6, Zenon DEF Announce, AnnounceOnce, AnnounceEnds, ControlRestart,
                RestoreListFails, Lose
  <2>7. CASE \E j \in Jobs : AdExpires(j)
    BY <2>7 DEF AdExpires
  <2> QED
    BY <2>1, <2>2, <2>3, <2>4, <2>5, <2>6, <2>7 DEF Next, Disturbance
<1> QED
  BY <1>1, <1>2, <1>3

\* While the server does not serve, a goroutine that moves is main or the
\* announcer, and no request or agent's call is accepted.
LEMMA DownSteps ==
  ASSUME ControlInv, LostCounted, Restoring, ~up, used'["lost"] = 0, Next
  PROVE  \/ UNCHANGED <<rows, dht, proc, dirty, torestore>>
         \/ DhtPut("main") \/ DhtPut("announcer")
         \/ (\E j \in Jobs : RestoreJob(j)) \/ RestoreEnds \/ Announce
         \/ (\E j \in Jobs : AdExpires(j)) \/ Clock \/ ControlRestart
<1> DEFINE Goal == \/ UNCHANGED <<rows, dht, proc, dirty, torestore>>
                   \/ DhtPut("main") \/ DhtPut("announcer")
                   \/ (\E j \in Jobs : RestoreJob(j)) \/ RestoreEnds \/ Announce
                   \/ (\E j \in Jobs : AdExpires(j)) \/ Clock \/ ControlRestart
<1>0. /\ \A t \in Threads : t \in Procs \ {"main", "announcer"}
      /\ "requeuer" \in Procs \ {"main", "announcer"}
      /\ {"main", "announcer"} \subseteq Procs
  BY ThreadAssumption, SMTT(60) DEF Procs
<1>1. ClientStep => FALSE
  BY DEF ClientStep, CreateTask, PostManifest, ForceRequeue, Release, StartupCreate, Request
<1>2. ASSUME NEW a \in Agents,
             \/ AgentStep(a) \/ CallTimesOut(a) \/ Crash(a)
             \/ \E t \in Threads : SendHeartbeat(a, t)
      PROVE  UNCHANGED <<rows, dht, proc, dirty, torestore>>
  BY <1>2, Zenon DEF AgentStep, Discover, SkipJob, ContainerEnds, SendClaim, SendFinish,
              SendHeartbeat, CallTimesOut, Crash, Call
<1>3. ASSUME NEW p \in Procs, DhtPut(p)
      PROVE  p \in {"main", "announcer"}
  BY <1>3 DEF DhtPut, Restoring, ControlInv, Shape, GoodProc
<1>4. ASSUME NEW p \in Procs, RequestEnds(p)
      PROVE  FALSE
  <2>1. proc[p].op \in {"create", "force", "startup", "manifest", "released"}
    BY <1>4, SMTT(60) DEF RequestEnds, AtEnd
  <2>2. proc[p].op \in {"free", "announce", "restore"}
    BY DEF Restoring
  <2> QED
    BY <2>1, <2>2, SMTT(60)
<1>5. ASSUME NEW p \in Procs, DhtPutFails(p)
      PROVE  FALSE
  BY <1>5 DEF DhtPutFails, Lose, LostCounted
<1>6. ASSUME NEW t \in Threads, ThreadStep(t)
      PROVE  FALSE
  <2>1. proc[t].op = "free"
    BY <1>0, SMTT(60) DEF Restoring
  <2> QED
    BY <1>6, <2>1, SMTT(60) DEF ThreadStep, ServeClaim, ExplainRefusal, ClaimEnds, ServeHeartbeat,
                      ServeFinish, CallEnds, ReleaseState, AtEnd
<1>7. LoopStep => (\E j \in Jobs : RestoreJob(j)) \/ RestoreEnds
                    \/ UNCHANGED <<rows, dht, proc, dirty, torestore>>
  <2>1. proc["requeuer"].op = "free"
    BY <1>0 DEF Restoring
  <2> QED
    BY <2>1, SMTT(60) DEF LoopStep, RequeueExpired, RequeueEnds, AtEnd, Serving
<1>8. ~ReannounceQueued /\ ~RestoreListFails
  BY DEF ReannounceQueued, RestoreListFails, Lose, LostCounted
<1>9. Goal
  BY <1>1, <1>2, <1>3, <1>4, <1>5, <1>6, <1>7, <1>8, SMTT(60) DEF Next, ProcStep, Disturbance
<1> QED
  BY <1>9

\* Only the end of the restore and a restart change whether requests are served.
LEMMA UpStep ==
  ASSUME [Next]_vars
  PROVE  UNCHANGED up \/ Serving \/ ControlRestart
BY Zenon DEF vars, Next, ClientStep, CreateTask, PostManifest, ForceRequeue, Release,
       StartupCreate, AgentStep, Discover, SkipJob, ContainerEnds, SendClaim, SendFinish,
       SendHeartbeat, CallTimesOut, Crash, ProcStep, DhtPut, RequestEnds, DhtPutFails,
       ThreadStep, ServeClaim, ExplainRefusal, ClaimEnds, ServeHeartbeat, ServeFinish,
       CallEnds, ReleaseState, LoopStep, RequeueExpired, RestoreJob, RequeueEnds,
       RestoreEnds, Announce, AnnounceOnce, AnnounceEnds, ReannounceQueued, Disturbance,
       RestoreListFails, AdExpires, Clock

\* Every step keeps what restoreJobsFromDemand relies on.
LEMMA RestoreStep ==
  ControlInv /\ TypeOK /\ RestoreInv /\ [Next]_vars => RestoreInv'
<1> SUFFICES ASSUME ControlInv, TypeOK, RestoreInv, [Next]_vars, ~up', used'["lost"] = 0
             PROVE  Restoring'
  BY UsedStep DEF RestoreInv
<1>0. used["lost"] = 0 /\ LostCounted
  BY UsedStep DEF RestoreInv
<1>p. {"main", "announcer"} \subseteq Procs /\ DOMAIN proc = Procs
  BY DEF Procs, TypeOK
<1>d. dht \in [Jobs -> Record] /\ DOMAIN dht = Jobs
  BY DEF TypeOK
<1>1. CASE ControlRestart
  <2>1. /\ proc' = [p \in Procs |-> Free] /\ torestore' = ListQueued /\ UNCHANGED rows
    BY <1>1 DEF ControlRestart
  <2>2. \A p \in Procs : proc'[p].op = "free" /\ proc'[p].todo = <<>>
    BY <2>1 DEF Free
  <2>3. ListQueued' = ListQueued
    BY <2>1 DEF ListQueued
  <2>4. \A i \in 1..Len(proc'["announcer"].todo) :
          proc'["announcer"].todo[i].key \in {"man", "ad", "mirror"}
    BY <1>p, <2>2
  <2> QED
    BY <1>p, <2>1, <2>2, <2>3, <2>4, Zenon DEF Restoring
<1>2. ASSUME ~ControlRestart
      PROVE  ~up
  BY <1>2, UpStep, Zenon DEF Serving
<1>3. ASSUME ~ControlRestart
      PROVE  Restoring'
  <2>0. ~up /\ Restoring
    BY <1>0, <1>2, <1>3 DEF RestoreInv
  <2>a. UNCHANGED rows => ListQueued' = ListQueued
    BY SMTT(60) DEF ListQueued
  <2>b. ASSUME UNCHANGED <<proc, dirty, torestore>>, ListQueued' = ListQueued,
               \A j \in Jobs : /\ dht'[j]["state"] = dht[j]["state"]
                               /\ dht'[j]["index"] = dht[j]["index"]
        PROVE  Restoring'
    <3>1. \A j \in ListQueued : j \in Jobs
      BY SMTT(60) DEF ListQueued
    <3>2. proc["main"].op = "restore" => proc["main"].job \in Jobs
      BY <2>0 DEF Restoring, TypeOK
    <3>3. ASSUME proc["main"].op = "restore"
          PROVE  /\ Due(proc["main"].todo, dht'[proc["main"].job], "state", "queued")
                 /\ Due(proc["main"].todo, dht'[proc["main"].job], "index", TRUE)
      <4>1. /\ dht'[proc["main"].job]["state"] = dht[proc["main"].job]["state"]
            /\ dht'[proc["main"].job]["index"] = dht[proc["main"].job]["index"]
        BY <2>b, <3>2, <3>3
      <4>2. /\ Due(proc["main"].todo, dht[proc["main"].job], "state", "queued")
            /\ Due(proc["main"].todo, dht[proc["main"].job], "index", TRUE)
        BY <2>0, <3>3, ZenonT(60) DEF Restoring
      <4> QED
        BY <4>1, <4>2, ZenonT(60) DEF Due
    <3>4. \A j \in ListQueued : IsPublished(j) => IsPublished(j)'
      BY <2>b, <3>1, ZenonT(60) DEF IsPublished
    <3> QED
      BY <2>0, <2>b, <3>3, <3>4, ZenonT(60) DEF Restoring
  <2>1. CASE UNCHANGED <<rows, dht, proc, dirty, torestore>>
    BY <2>a, <2>b, <2>1
  <2>2. CASE Clock
    <3>1. \A j \in Jobs : rows'[j].status = rows[j].status
      BY <2>2 DEF Clock, Tick, ControlInv, StoreInv, StoreTypeOK, Row
    <3>2. ListQueued' = ListQueued
      BY <3>1 DEF ListQueued
    <3> QED
      BY <2>2, <2>b, <3>2 DEF Clock
  <2>3. ASSUME NEW j \in Jobs, AdExpires(j)
        PROVE  Restoring'
    <3>1. dht' = [dht EXCEPT ![j] = [dht[j] EXCEPT !.ad = FALSE, !.mirror = FALSE]]
      BY <2>3 DEF AdExpires
    <3>2. \A k \in Jobs : /\ dht'[k]["state"] = dht[k]["state"]
                          /\ dht'[k]["index"] = dht[k]["index"]
      BY <1>d, <3>1 DEF Record
    <3> QED
      BY <2>3, <2>a, <2>b, <3>2 DEF AdExpires
  <2>4. CASE DhtPut("main")
    <3> DEFINE j == proc["main"].job
               todo == proc["main"].todo
    <3>1. /\ proc["main"].op = "restore" /\ j \in torestore /\ j \in Jobs
          /\ todo \in Seq(Write) /\ todo # <<>>
          /\ dht' = [dht EXCEPT ![j] = After(dht[j], Head(todo))]
      BY <1>p, <2>0, <2>4, PutEffect, Zenon DEF Restoring
    <3>2. /\ Due(Tail(todo), After(dht[j], Head(todo)), "state", "queued")
          /\ Due(Tail(todo), After(dht[j], Head(todo)), "index", TRUE)
      <4>1. dht[j] \in Record /\ "state" \in Keys /\ "index" \in Keys
        BY <1>d, <3>1 DEF Keys
      <4>2. Due(todo, dht[j], "state", "queued") /\ Due(todo, dht[j], "index", TRUE)
        BY <2>0, <3>1, ZenonT(60) DEF Restoring
      <4>3. \A v : \A k \in Keys : Due(todo, dht[j], k, v) =>
              Due(Tail(todo), After(dht[j], Head(todo)), k, v)
        BY <3>1, <4>1, DuePut
      <4> QED
        BY <4>1, <4>2, <4>3, Zenon
    <3>3. /\ \A p \in Procs \ {"main"} : proc'[p] = proc[p]
          /\ proc'["main"].op = "restore" /\ proc'["main"].job = j
          /\ proc'["main"].todo = Tail(todo)
      <4>1. GoodProc(proc["main"])
        BY <1>p DEF ControlInv, Shape
      <4>2. proc' = [proc EXCEPT !["main"] = [proc["main"] EXCEPT !.todo = Tail(todo)]]
        BY <2>4, SMTT(60) DEF DhtPut
      <4> QED
        BY <1>p, <3>1, <4>1, <4>2 DEF GoodProc
    <3>4. dht'[j] = After(dht[j], Head(todo)) /\ \A k \in Jobs \ {j} : dht'[k] = dht[k]
      BY <1>d, <3>1
    <3>5. UNCHANGED <<dirty, torestore>> /\ ListQueued' = ListQueued /\ ListQueued \subseteq Jobs
      BY <2>4, <2>a, SMTT(60) DEF DhtPut, ListQueued
    <3> HIDE DEF j, todo
    <3>6. \A k \in ListQueued' : k \in torestore' \/ (IsPublished(k)' /\ k \in dirty')
      BY <2>0, <3>1, <3>4, <3>5 DEF Restoring, IsPublished
    <3>7. /\ proc'["main"].job \in torestore'
          /\ Due(proc'["main"].todo, dht'[proc'["main"].job], "state", "queued")
          /\ Due(proc'["main"].todo, dht'[proc'["main"].job], "index", TRUE)
      BY <3>1, <3>2, <3>3, <3>4, <3>5, Zenon
    <3> QED
      BY <1>p, <2>0, <3>3, <3>6, <3>7, Zenon DEF Restoring
  <2>5. CASE DhtPut("announcer")
    <3> DEFINE j == proc["announcer"].job
               todo == proc["announcer"].todo
    <3>1. /\ proc["announcer"].op = "announce" /\ j \in Jobs
          /\ todo \in Seq(Write) /\ todo # <<>>
          /\ dht' = [dht EXCEPT ![j] = After(dht[j], Head(todo))]
      BY <1>p, <2>0, <2>5, PutEffect, ZenonT(60) DEF Restoring
    <3>a. \A i \in 1..Len(todo) : todo[i].key \in {"man", "ad", "mirror"}
      BY <2>0, ZenonT(60) DEF Restoring
    <3>b. todo \in Seq(Write) /\ Len(todo) \in Nat \ {0}
      BY <3>1
    <3>c. Head(todo) = todo[1] /\ 1 \in 1..Len(todo)
      BY <3>b
    <3>2. Head(todo).key \in {"man", "ad", "mirror"}
      BY <3>a, <3>c, ZenonT(60)
    <3>3. \A i \in 1..Len(Tail(todo)) : Tail(todo)[i].key \in {"man", "ad", "mirror"}
      <4>1. \A i \in 1..Len(Tail(todo)) : Tail(todo)[i] = todo[i + 1] /\ i + 1 \in 1..Len(todo)
        BY <3>1
      <4> QED
        BY <3>a, <4>1, ZenonT(60)
    <3>4. \A k \in Jobs : /\ dht'[k]["state"] = dht[k]["state"]
                          /\ dht'[k]["index"] = dht[k]["index"]
      <4>1. /\ After(dht[j], Head(todo))["state"] = dht[j]["state"]
            /\ After(dht[j], Head(todo))["index"] = dht[j]["index"]
        BY <1>d, <3>1, <3>2, AnnouncerPut, SMTT(60)
      <4>2. dht'[j] = After(dht[j], Head(todo)) /\ \A k \in Jobs \ {j} : dht'[k] = dht[k]
        BY <1>d, <3>1
      <4> HIDE DEF j, todo
      <4> QED
        BY <4>1, <4>2, SMTT(60)
    <3>5. /\ \A p \in Procs \ {"announcer"} : proc'[p] = proc[p]
          /\ proc'["announcer"].op = "announce"
          /\ proc'["announcer"].todo = Tail(todo)
      <4>1. GoodProc(proc["announcer"])
        BY <1>p DEF ControlInv, Shape
      <4>2. proc' = [proc EXCEPT !["announcer"] =
                       [proc["announcer"] EXCEPT !.todo = Tail(todo)]]
        BY <2>5 DEF DhtPut
      <4> QED
        BY <1>p, <3>1, <4>1, <4>2 DEF GoodProc
    <3>6. UNCHANGED <<dirty, torestore>> /\ ListQueued' = ListQueued /\ ListQueued \subseteq Jobs
      BY <2>5, <2>a DEF DhtPut, ListQueued
    <3> HIDE DEF j, todo
    <3>7. proc["main"].op = "restore" => proc["main"].job \in Jobs
      BY <2>0 DEF Restoring, TypeOK
    <3>8. proc'["main"] = proc["main"]
      BY <1>p, <3>5
    <3>9. proc'["main"].op = "restore" =>
            /\ proc'["main"].job \in torestore'
            /\ Due(proc'["main"].todo, dht'[proc'["main"].job], "state", "queued")
            /\ Due(proc'["main"].todo, dht'[proc'["main"].job], "index", TRUE)
      <4> SUFFICES ASSUME proc["main"].op = "restore"
                   PROVE  /\ proc["main"].job \in torestore
                          /\ Due(proc["main"].todo, dht'[proc["main"].job], "state", "queued")
                          /\ Due(proc["main"].todo, dht'[proc["main"].job], "index", TRUE)
        BY <3>6, <3>8, Zenon
      <4>1. /\ proc["main"].job \in torestore
            /\ Due(proc["main"].todo, dht[proc["main"].job], "state", "queued")
            /\ Due(proc["main"].todo, dht[proc["main"].job], "index", TRUE)
        BY <2>0, ZenonT(60) DEF Restoring
      <4> QED
        BY <3>4, <3>7, <4>1, SameDue, Zenon
    <3>10. \A k \in ListQueued' : k \in torestore' \/ (IsPublished(k)' /\ k \in dirty')
      BY <2>0, <3>4, <3>6 DEF Restoring, IsPublished
    <3> QED
      BY <1>p, <2>0, <3>3, <3>5, <3>8, <3>9, <3>10, ZenonT(60) DEF Restoring
  <2>6. ASSUME NEW j \in Jobs, RestoreJob(j)
        PROVE  Restoring'
    <3>1. /\ \A p \in Procs \ {"main"} : proc'[p] = proc[p]
          /\ proc'["main"].op = "restore" /\ proc'["main"].job = j
          /\ proc'["main"].todo = Published
      BY <1>p, <2>6 DEF RestoreJob, Run, Free
    <3>2. UNCHANGED <<rows, dht, dirty, torestore>> /\ j \in torestore
      BY <2>6 DEF RestoreJob
    <3>3. Due(Published, dht[j], "state", "queued") /\ Due(Published, dht[j], "index", TRUE)
      BY DueStart, ZenonT(60)
    <3>4. \A k \in ListQueued' : k \in torestore' \/ (IsPublished(k)' /\ k \in dirty')
      BY <2>0, <2>a, <3>2, SMTT(60) DEF Restoring, IsPublished
    <3> QED
      BY <1>p, <2>0, <3>1, <3>2, <3>3, <3>4, Zenon DEF Restoring
  <2>7. CASE RestoreEnds
    <3> DEFINE j == proc["main"].job
    <3>1. /\ \A p \in Procs \ {"main"} : proc'[p] = proc[p]
          /\ proc'["main"].op = "free"
      BY <1>p, <2>7 DEF RestoreEnds, Stop, Free
    <3>2. UNCHANGED <<rows, dht>> /\ torestore' = torestore \ {j} /\ dirty' = dirty \cup {j}
      BY <2>7 DEF RestoreEnds
    <3>3. dht[j]["state"] = "queued" /\ dht[j]["index"] = TRUE
      <4>1. /\ Due(<<>>, dht[j], "state", "queued") /\ Due(<<>>, dht[j], "index", TRUE)
        BY <2>0, <2>7, ZenonT(60) DEF RestoreEnds, AtEnd, Restoring
      <4>2. \A k, v : Due(<<>>, dht[j], k, v) => dht[j][k] = v
        BY SMTT(60) DEF Due
      <4> QED
        BY <4>1, <4>2, Zenon
    <3> HIDE DEF j
    <3>4. \A k \in ListQueued' : k \in torestore' \/ (IsPublished(k)' /\ k \in dirty')
      BY <2>0, <2>a, <3>2, <3>3 DEF Restoring, IsPublished
    <3> QED
      BY <1>p, <2>0, <3>1, <3>4, SMTT(60) DEF Restoring
  <2>8. CASE Announce
    <3>1. UNCHANGED <<rows, dht, dirty, torestore>>
      BY <2>8, ZenonT(40) DEF Announce, AnnounceOnce, AnnounceEnds
    <3>2. ASSUME NEW op \in {"free", "announce"}, NEW j, NEW todo,
                 \A i \in 1..Len(todo) : todo[i].key \in {"man", "ad", "mirror"},
                 Run("announcer", op, j, todo)
          PROVE  Restoring'
      <4>1. /\ \A p \in Procs \ {"announcer"} : proc'[p] = proc[p]
            /\ proc'["announcer"].op = op /\ proc'["announcer"].todo = todo
        BY <1>p, <3>2 DEF Run, Free
      <4>2. \A k \in ListQueued' : k \in torestore' \/ (IsPublished(k)' /\ k \in dirty')
        BY <2>0, <2>a, <3>1, ZenonT(40) DEF Restoring, IsPublished
      <4>3. proc'["main"] = proc["main"]
        BY <1>p, <4>1
      <4> QED
        BY <1>p, <2>0, <3>1, <3>2, <4>1, <4>2, <4>3, ZenonT(60) DEF Restoring
    <3>3. CASE \E j \in Jobs : AnnounceOnce(j)
      <4>1. PICK j \in Jobs :
              \/ Run("announcer", "announce", j, Advertisement)
              \/ Run("announcer", "announce", j, <<Put("man", "noop")>> \o Advertisement)
        BY <3>3 DEF AnnounceOnce
      <4> QED
        BY <3>2, <4>1, AnnouncerKeys, ZenonT(60)
    <3>4. CASE AnnounceEnds
      <4>1. /\ \A p \in Procs \ {"announcer"} : proc'[p] = proc[p]
            /\ proc'["announcer"].op = "free" /\ proc'["announcer"].todo = <<>>
        BY <1>p, <3>4, SMTT(60) DEF AnnounceEnds, Stop, Free
      <4>2. \A k \in ListQueued' : k \in torestore' \/ (IsPublished(k)' /\ k \in dirty')
        BY <2>0, <2>a, <3>1 DEF Restoring, IsPublished
      <4>3. proc'["main"] = proc["main"]
        BY <1>p, <4>1
      <4>4. \A i \in 1..Len(<<>>) : <<>>[i].key \in {"man", "ad", "mirror"}
        OBVIOUS
      <4> QED
        BY <1>p, <2>0, <3>1, <4>1, <4>2, <4>3, <4>4, ZenonT(60) DEF Restoring
    <3> QED
      BY <2>8, <3>3, <3>4 DEF Announce
  <2>9. CASE UNCHANGED vars
    BY <2>1, <2>9 DEF vars
  <2> QED
    BY <1>0, <1>3, <2>0, <2>1, <2>2, <2>3, <2>4, <2>5, <2>6, <2>7, <2>8, <2>9, DownSteps, SMTT(60)
<1> QED
  BY <1>1, <1>3

\* Whatever the previous process left half done, and whatever was left of the
\* DHT, restoreJobsFromDemand has made every queued job discoverable when the
\* server starts to serve, as long as neither the list nor a put fails.
THEOREM RestoreRepublishesHolds == Spec => RestoreRepublishes
<1>1. Init => RestoreInv
  BY DEF Init, RestoreInv, LostCounted
<1>2. Spec => []RestoreInv
  BY <1>1, RestoreStep, ControlInvCorrect, ControlTypeCorrect, PTL DEF Spec
<1>3. RestoreInv /\ [Next]_vars =>
        [(~up /\ up' /\ used["lost"] = 0) => \A j \in ListQueued : Discoverable(j)]_vars
  <2> SUFFICES ASSUME RestoreInv, [Next]_vars, ~up, up', used["lost"] = 0, NEW j \in ListQueued
               PROVE  Discoverable(j)
    OBVIOUS
  <2>1. Serving
    BY UpStep, ZenonT(60) DEF ControlRestart
  <2>2. IsPublished(j) /\ j \in dirty
    BY <2>1 DEF RestoreInv, Restoring, Serving
  <2> QED
    BY <2>2, Zenon DEF IsPublished, Discoverable
<1> QED
  BY <1>2, <1>3, PTL DEF Spec, RestoreRepublishes

-----------------------------------------------------------------------------
(***************************************************************************)
(* Jobs that agents can come to ask for have a row.  The invariant follows  *)
(* the id from the table to the goroutine that publishes it, to the index,  *)
(* to the agent that found it and to the handler of the agent's calls.      *)
(***************************************************************************)
Stored == {j \in Jobs : Exists(rows[j])}

Indexed == {j \in Jobs : dht[j]["index"] = TRUE}

Publishing == {"create", "restore"}

NoIndex(todo) == \A i \in 1..Len(todo) : todo[i].key # "index"

ProcRooted(r, S) == /\ r.op \in CallOps \cup Publishing => r.job \in S
                    /\ r.op \notin Publishing => NoIndex(r.todo)

AgentRooted(r, S) == r.pc \notin {"idle", "dead"} => r.job \in S

ProcsRooted == \A p \in Procs : ProcRooted(proc[p], Stored)

AgentsRooted == \A a \in Agents : AgentRooted(ag[a], Stored)

FoundInv == Indexed \subseteq Stored /\ torestore \subseteq Stored /\ ProcsRooted /\ AgentsRooted

\* No statement deletes a row.
LEMMA StoredGrows ==
  ASSUME StoreInv, [StoreNext]_rows
  PROVE  Stored \subseteq Stored'
<1>1. CASE UNCHANGED rows
  BY <1>1, SMTT(60) DEF Stored
<1>2. CASE StoreNext
  BY <1>2, StoreStep
     DEF Stored, Exists, RowKept, RowGranted, RowLapsed, RowFinished, Leased, Final
<1> QED
  BY <1>1, <1>2

\* Only createTaskHandler and restoreJobsFromDemand set out to write the index.
LEMMA NoIndexTodos ==
  /\ NoIndex(<<>>) /\ NoIndex(Requeued) /\ NoIndex(Advertisement)
  /\ NoIndex(<<Put("man", "noop")>> \o Advertisement)
  /\ NoIndex(<<Put("man", "real"), Put("mirror", TRUE)>>)
  /\ NoIndex(<<Put("meta", TRUE), Put("state", "queued")>>)
  /\ NoIndex(<<Put("lease", NULL)>>)
  /\ NoIndex(<<Put("state", "queued")>>)
  /\ NoIndex(<<Put("state", "assigned")>>)
  /\ \A a : NoIndex(<<Put("lease", a)>>) /\ NoIndex(<<Put("state", "assigned"), Put("lease", a)>>)
  /\ \A s : NoIndex(<<Put("state", s), Put("lease", NULL), Put("ad", FALSE), Put("mirror", FALSE)>>)
<1>1. \A k, v : Put(k, v).key = k
  BY DEF Put
<1>2. /\ NoIndex(<<>>)
      /\ \A u : u.key # "index" => NoIndex(<<u>>)
      /\ \A u, v : u.key # "index" /\ v.key # "index" => NoIndex(<<u, v>>)
  BY DEF NoIndex
<1>3. \A u, v, w, x :
        u.key # "index" /\ v.key # "index" /\ w.key # "index" /\ x.key # "index"
          => NoIndex(<<u, v, w, x>>)
  BY DEF NoIndex
<1>4. NoIndex(Advertisement) /\ NoIndex(<<Put("man", "noop")>> \o Advertisement)
  BY AnnouncerKeys, SMTT(60) DEF NoIndex
<1>5. \A v : /\ Put("meta", v).key # "index" /\ Put("state", v).key # "index"
             /\ Put("lease", v).key # "index" /\ Put("man", v).key # "index"
             /\ Put("ad", v).key # "index" /\ Put("mirror", v).key # "index"
  BY <1>1
<1>6. NoIndex(Requeued)
  BY <1>2, <1>5, Zenon DEF Requeued
<1> HIDE DEF NoIndex, Put
<1> QED
  BY <1>2, <1>3, <1>4, <1>5, <1>6, Zenon

\* A put takes the first write off the list.
LEMMA NoIndexTail ==
  ASSUME NEW todo \in Seq(Write), todo # <<>>, NoIndex(todo)
  PROVE  NoIndex(Tail(todo)) /\ Head(todo).key # "index"
BY DEF NoIndex

\* One goroutine moves on, to a record that is rooted in the table as it is then.
LEMMA RootedProc ==
  ASSUME Shape, ProcsRooted, Stored \subseteq Stored', NEW p \in Procs, NEW r,
         ProcRooted(r, Stored'), proc' = [proc EXCEPT ![p] = r]
  PROVE  ProcsRooted'
<1>1. \A q \in Procs : proc'[q] = IF q = p THEN r ELSE proc[q]
  BY DEF Shape
<1>2. \A q \in Procs : ProcRooted(proc[q], Stored')
  BY DEF ProcsRooted, ProcRooted
<1> QED
  BY <1>1, <1>2 DEF ProcsRooted

\* One agent moves on.
LEMMA RootedAgent ==
  ASSUME Shape, AgentsRooted, Stored \subseteq Stored', NEW a \in Agents, NEW r,
         AgentRooted(r, Stored'), ag' = [ag EXCEPT ![a] = r]
  PROVE  AgentsRooted'
<1>1. \A b \in Agents : ag'[b] = IF b = a THEN r ELSE ag[b]
  BY DEF Shape
<1>2. \A b \in Agents : AgentRooted(ag[b], Stored')
  BY DEF AgentsRooted, AgentRooted
<1> QED
  BY <1>1, <1>2 DEF AgentsRooted

\* Nobody moves, or a goroutine ends or starts on a job.
LEMMA RootedRun ==
  ASSUME Shape, ProcsRooted, AgentsRooted, Stored \subseteq Stored'
  PROVE  /\ UNCHANGED proc => ProcsRooted'
         /\ UNCHANGED ag => AgentsRooted'
         /\ \A p \in Procs : Stop(p) => ProcsRooted'
         /\ \A p \in Procs : \A op, j, todo :
              /\ op \notin CallOps
              /\ op \in Publishing => j \in Stored'
              /\ op \notin Publishing => NoIndex(todo)
              /\ Run(p, op, j, todo)
              => ProcsRooted'
<1>1. UNCHANGED proc => ProcsRooted'
  BY DEF ProcsRooted, ProcRooted
<1>2. UNCHANGED ag => AgentsRooted'
  BY DEF AgentsRooted, AgentRooted
<1>3. ASSUME NEW p \in Procs, Stop(p)
      PROVE  ProcsRooted'
  <2>1. ProcRooted(Free, Stored')
    BY NoIndexTodos DEF ProcRooted, Free, CallOps, Publishing
  <2> QED
    BY <1>3, <2>1, RootedProc, ZenonT(60) DEF Stop
<1>4. ASSUME NEW p \in Procs, NEW op, NEW j, NEW todo,
             op \notin CallOps, op \in Publishing => j \in Stored',
             op \notin Publishing => NoIndex(todo), Run(p, op, j, todo)
      PROVE  ProcsRooted'
  <2> DEFINE r == [Free EXCEPT !.op = op, !.job = j, !.todo = todo]
  <2>1. r.op = op /\ r.job = j /\ r.todo = todo /\ proc' = [proc EXCEPT ![p] = r]
    BY <1>4 DEF Free, Run
  <2> HIDE DEF r
  <2>2. ProcRooted(r, Stored')
    BY <1>4, <2>1 DEF ProcRooted
  <2> QED
    BY <2>1, <2>2, RootedProc, Zenon
<1> QED
  BY <1>1, <1>2, <1>3, <1>4, Zenon

\* Requests of clients: createTaskHandler publishes a job once it has its row.
LEMMA ClientRooted ==
  ASSUME ControlInv, FoundInv, ClientStep
  PROVE  ProcsRooted' /\ AgentsRooted' /\ UNCHANGED <<dht, torestore>>
<1>0. /\ Threads \subseteq Procs /\ "main" \in Procs
      /\ Shape /\ ProcsRooted /\ AgentsRooted /\ Stored \subseteq Stored'
  BY ClientQuiet, StoredGrows, Zenon DEF Procs, ControlInv, FoundInv
<1>1. ASSUME NEW j \in Jobs, NEW t \in Threads, CreateTask(t, j)
      PROVE  ProcsRooted' /\ AgentsRooted' /\ UNCHANGED <<dht, torestore>>
  <2>1. j \in Stored'
    BY <1>1 DEF CreateTask, Insert, CreateJob, Stored, Exists, ControlInv, StoreInv,
                StoreTypeOK, Row
  <2>2. Run(t, "create", j, Published) /\ UNCHANGED <<dht, torestore, ag>>
    BY <1>1 DEF CreateTask
  <2>3. "create" \notin CallOps /\ "create" \in Publishing
    BY DEF CallOps, Publishing
  <2> QED
    BY <1>0, <2>1, <2>2, <2>3, RootedRun, Zenon
<1>2. ASSUME NEW p \in Procs, NEW op \in {"manifest", "force", "release", "startup"}, NEW j,
             NEW todo, NoIndex(todo), Run(p, op, j, todo), UNCHANGED <<dht, torestore, ag>>
      PROVE  ProcsRooted' /\ AgentsRooted' /\ UNCHANGED <<dht, torestore>>
  <2>1. op \notin CallOps /\ op \notin Publishing
    BY DEF CallOps, Publishing
  <2> QED
    BY <1>0, <1>2, <2>1, RootedRun, Zenon
<1>3. ASSUME NEW j \in Jobs, NEW t \in Threads,
             PostManifest(t, j) \/ ForceRequeue(t, j) \/ Release(t, j)
      PROVE  ProcsRooted' /\ AgentsRooted' /\ UNCHANGED <<dht, torestore>>
  BY <1>0, <1>2, <1>3, NoIndexTodos, Zenon DEF PostManifest, ForceRequeue, Release
<1>4. ASSUME NEW j \in Jobs, StartupCreate(j)
      PROVE  ProcsRooted' /\ AgentsRooted' /\ UNCHANGED <<dht, torestore>>
  BY <1>0, <1>2, <1>4, NoIndexTodos, ZenonT(60) DEF StartupCreate
<1> QED
  BY <1>1, <1>3, <1>4 DEF ClientStep

\* Puts: an index entry comes from a goroutine that publishes a stored job.
LEMMA PutsRooted ==
  ASSUME ControlInv, TypeOK, FoundInv, NEW p \in Procs, ProcStep(p) \/ DhtPutFails(p)
  PROVE  ProcsRooted' /\ AgentsRooted' /\ Indexed' \subseteq Stored' /\ UNCHANGED torestore
<1>0. /\ Shape /\ ProcsRooted /\ AgentsRooted /\ Stored \subseteq Stored'
      /\ GoodProc(proc[p]) /\ ProcRooted(proc[p], Stored)
  BY ProcQuiet, StoredGrows, Zenon DEF ControlInv, FoundInv, Shape, ProcsRooted
<1>1. ASSUME NEW todo, proc[p].op \notin Publishing => NoIndex(todo),
             proc' = [proc EXCEPT ![p] = [proc[p] EXCEPT !.todo = todo]]
      PROVE  ProcsRooted'
  <2> DEFINE r == [proc[p] EXCEPT !.todo = todo]
  <2>1. r.op = proc[p].op /\ r.job = proc[p].job /\ r.todo = todo
    BY <1>0 DEF GoodProc
  <2>2. proc' = [proc EXCEPT ![p] = r]
    BY <1>1
  <2> HIDE DEF r
  <2>3. ProcRooted(r, Stored')
    BY <1>0, <1>1, <2>1, SMTT(60) DEF ProcRooted
  <2> QED
    BY <1>0, <2>2, <2>3, RootedProc, Zenon
<1>2. UNCHANGED dht => Indexed' \subseteq Stored'
  BY <1>0, SMTT(60) DEF FoundInv, Indexed
<1>3. proc[p].todo # <<>> =>
        /\ proc[p].todo \in Seq(Write)
        /\ proc[p].op \notin Publishing =>
             NoIndex(Tail(proc[p].todo)) /\ Head(proc[p].todo).key # "index"
  BY <1>0, NoIndexTail DEF GoodProc, ProcRooted
<1>4. CASE DhtPut(p)
  <2>1. ProcsRooted' /\ UNCHANGED <<torestore, ag, rows>>
    BY <1>1, <1>3, <1>4, Zenon DEF DhtPut
  <2>2. AgentsRooted'
    BY <1>0, <2>1, RootedRun, ZenonT(60)
  <2> DEFINE j == proc[p].job
             w == Head(proc[p].todo)
  <2>3. j \in Jobs /\ dht' = [dht EXCEPT ![j] = After(dht[j], w)]
    BY <1>4, PutEffect
  <2>4. dht \in [Jobs -> Record]
    BY SMTT(60) DEF TypeOK
  <2>5. w.key # "index" => After(dht[j], w)["index"] = dht[j]["index"]
    BY <2>3, <2>4 DEF After, Record
  <2>6. proc[p].op \in Publishing => j \in Stored
    BY <1>0 DEF ProcRooted
  <2>7. w.key = "index" => proc[p].op \in Publishing
    BY <1>3, <1>4 DEF DhtPut
  <2> HIDE DEF j, w
  <2>8. /\ dht'[j] = After(dht[j], w)
        /\ \A k \in Jobs \ {j} : dht'[k] = dht[k]
    BY <2>3, <2>4, SMTT(60)
  <2>9. Indexed' \subseteq Stored
    BY <2>5, <2>6, <2>7, <2>8 DEF Indexed, FoundInv
  <2> QED
    BY <1>0, <2>1, <2>2, <2>9
<1>5. CASE DhtPutFails(p)
  <2>1. ProcsRooted'
    BY <1>0, <1>1, <1>3, <1>5, NoIndexTodos, RootedRun, Zenon DEF DhtPutFails
  <2> QED
    BY <1>0, <1>2, <1>5, <2>1, RootedRun, Zenon DEF DhtPutFails
<1>6. CASE RequestEnds(p)
  BY <1>0, <1>2, <1>6, RootedRun, ZenonT(60) DEF RequestEnds
<1> QED
  BY <1>4, <1>5, <1>6 DEF ProcStep

\* Agents: what an agent finds is in the index, and its calls name what it found.
LEMMA AgentRootedStep ==
  ASSUME ControlInv, FoundInv, NEW a \in Agents,
         \/ AgentStep(a) \/ CallTimesOut(a) \/ Crash(a)
         \/ \E t \in Threads : SendHeartbeat(a, t)
  PROVE  ProcsRooted' /\ AgentsRooted' /\ UNCHANGED <<dht, torestore>>
<1>0. /\ Shape /\ ProcsRooted /\ AgentsRooted /\ Stored \subseteq Stored'
      /\ GoodAgent(ag[a]) /\ AgentRooted(ag[a], Stored) /\ Threads \subseteq Procs
  BY AgentQuiet, StoredGrows, Zenon DEF ControlInv, FoundInv, Shape, AgentsRooted, Procs
<1>1. ASSUME NEW r, AgentRooted(r, Stored'), ag' = [ag EXCEPT ![a] = r]
      PROVE  AgentsRooted'
  BY <1>0, <1>1, RootedAgent, Zenon
<1>2. ASSUME NEW r, ag[a].pc \notin {"idle", "dead"}, r.job = ag[a].job,
             ag' = [ag EXCEPT ![a] = r]
      PROVE  AgentsRooted'
  <2>1. AgentRooted(r, Stored')
    BY <1>0, <1>2 DEF AgentRooted
  <2> QED
    BY <1>0, <1>2, <2>1, RootedAgent, Zenon
<1>3. ASSUME NEW t \in Threads, NEW op \in {"claimDB", "heartbeatDB", "finishDB"}, NEW s,
             ag[a].pc \notin {"idle", "dead"}, Call(a, t, op, s)
      PROVE  ProcsRooted'
  <2> DEFINE r == [Free EXCEPT !.op = op, !.job = ag[a].job, !.agent = a,
                               !.token = ag[a].token, !.status = s]
  <2>1. r.op = op /\ r.job = ag[a].job /\ r.todo = <<>> /\ proc' = [proc EXCEPT ![t] = r]
    BY <1>3, SMTT(60) DEF Free, Call
  <2> HIDE DEF r
  <2>2. ProcRooted(r, Stored')
    BY <1>0, <1>3, <2>1, NoIndexTodos DEF ProcRooted, AgentRooted
  <2> QED
    BY <1>0, <2>1, <2>2, RootedProc, Zenon
<1>4. /\ AgentRooted(Idle, Stored') /\ AgentRooted([Idle EXCEPT !.pc = "dead"], Stored')
      /\ \A j : [Idle EXCEPT !.pc = "found", !.job = j].job = j
  BY DEF Idle, AgentRooted
<1>5. \A pc, u, s : /\ [ag[a] EXCEPT !.pc = pc, !.thread = u].job = ag[a].job
                    /\ [ag[a] EXCEPT !.pc = pc, !.status = s].job = ag[a].job
  BY <1>0 DEF GoodAgent
<1>6. ASSUME NEW j \in Jobs, Discover(a, j)
      PROVE  ProcsRooted' /\ AgentsRooted' /\ UNCHANGED <<dht, torestore>>
  <2>1. j \in Indexed
    BY <1>6, Zenon DEF Discover, Indexed
  <2> DEFINE r == [Idle EXCEPT !.pc = "found", !.job = j]
  <2>2. ag' = [ag EXCEPT ![a] = r] /\ r.job = j
    BY <1>4, <1>6, Zenon DEF Discover
  <2> HIDE DEF r
  <2>3. AgentRooted(r, Stored')
    BY <1>0, <2>1, <2>2 DEF AgentRooted, FoundInv
  <2>4. UNCHANGED <<dht, torestore, proc>>
    BY <1>6 DEF Discover
  <2> QED
    BY <1>0, <2>2, <2>3, <2>4, RootedAgent, RootedRun, Zenon
<1>i. ag' = [ag EXCEPT ![a] = Idle] => AgentsRooted'
  BY <1>1, <1>4, Zenon
<1>7. CASE SkipJob(a) \/ Crash(a)
  <2>1. ag' = [ag EXCEPT ![a] = [Idle EXCEPT !.pc = "dead"]] => AgentsRooted'
    BY <1>1, <1>4, Zenon
  <2> QED
    BY <1>0, <1>i, <1>7, <2>1, RootedRun, ZenonT(60) DEF SkipJob, Crash
<1>8. ASSUME NEW s \in Final, ContainerEnds(a, s)
      PROVE  ProcsRooted' /\ AgentsRooted' /\ UNCHANGED <<dht, torestore>>
  BY <1>0, <1>2, <1>5, <1>8, RootedRun, Zenon DEF ContainerEnds
<1>9. ASSUME NEW t \in Threads, SendClaim(a, t) \/ SendFinish(a, t)
      PROVE  ProcsRooted' /\ AgentsRooted' /\ UNCHANGED <<dht, torestore>>
  <2>1. ag[a].pc \notin {"idle", "dead"}
    BY <1>9 DEF SendClaim, SendFinish
  <2> QED
    BY <1>2, <1>3, <1>5, <1>9, <2>1, ZenonT(60) DEF SendClaim, SendFinish
<1>10. ASSUME NEW t \in Threads, SendHeartbeat(a, t)
       PROVE  ProcsRooted' /\ AgentsRooted' /\ UNCHANGED <<dht, torestore>>
  <2>1. ag[a].pc \notin {"idle", "dead"}
    BY <1>10 DEF SendHeartbeat
  <2> QED
    BY <1>0, <1>3, <1>10, <2>1, RootedRun, Zenon DEF SendHeartbeat
<1>11. CASE CallTimesOut(a)
  <2>1. CASE /\ ag[a].pc = "finishing"
             /\ ag' = [ag EXCEPT ![a] = [ag[a] EXCEPT !.pc = "reporting", !.thread = NULL]]
    <3>1. ag[a].pc \notin {"idle", "dead"}
      BY <2>1
    <3>2. AgentsRooted'
      BY <1>2, <1>5, <2>1, <3>1, Zenon
    <3> QED
      BY <1>0, <1>11, <3>2, RootedRun, Zenon DEF CallTimesOut
  <2>2. CASE ag' = [ag EXCEPT ![a] = Idle]
    BY <1>0, <1>i, <1>11, <2>2, RootedRun, ZenonT(60) DEF CallTimesOut
  <2> QED
    BY <1>11, <2>1, <2>2 DEF CallTimesOut
<1> QED
  BY <1>6, <1>7, <1>8, <1>9, <1>10, <1>11 DEF AgentStep

\* The handlers of agents' calls go on with the job of the call.
LEMMA ThreadRooted ==
  ASSUME ControlInv, FoundInv, NEW t \in Threads, ThreadStep(t)
  PROVE  ProcsRooted' /\ AgentsRooted' /\ UNCHANGED <<dht, torestore>>
<1> DEFINE p == proc[t]
<1>0. /\ Shape /\ ProcsRooted /\ AgentsRooted /\ Stored \subseteq Stored'
      /\ t \in Procs /\ GoodProc(p) /\ ProcRooted(p, Stored)
  BY ThreadQuiet, ServeClaimKeeps, ClaimEndsKeeps, StoredGrows, ZenonT(60)
     DEF ThreadStep, ControlInv, FoundInv, Shape, ProcsRooted, Procs
<1>1. UNCHANGED <<dht, torestore>>
  BY DEF ThreadStep, ServeClaim, ExplainRefusal, ClaimEnds, ServeHeartbeat, ServeFinish,
         CallEnds, ReleaseState
<1>2. ASSUME NEW r, p.op \in CallOps, r.op \notin Publishing, r.job = p.job, NoIndex(r.todo),
             proc' = [proc EXCEPT ![t] = r]
      PROVE  ProcsRooted'
  <2>1. ProcRooted(r, Stored')
    BY <1>0, <1>2 DEF ProcRooted
  <2> QED
    BY <1>0, <1>2, <2>1, RootedProc, ZenonT(60)
<1>3. ASSUME p.op \in CallOps, NEW r, AgentRooted(r, Stored'), Answer(t, p.agent, r)
      PROVE  AgentsRooted'
  <2>1. p.agent \in Agents
    BY <1>0, <1>3 DEF GoodProc
  <2> QED
    BY <1>0, <1>3, <2>1, RootedAgent, RootedRun, ZenonT(60) DEF Answer
<1>4. AgentRooted(Idle, Stored')
  BY DEF AgentRooted, Idle
<1>5. CASE ServeClaim(t)
  <2>1. p.op \in CallOps /\ UNCHANGED ag
    BY <1>5 DEF ServeClaim, CallOps
  <2> DEFINE r == [p EXCEPT !.op = "refused"]
             q == [p EXCEPT !.op = "claim", !.token = rows[p.job].token + 1,
                            !.todo = <<Put("state", "assigned"), Put("lease", p.agent)>>]
  <2>2. proc' = [proc EXCEPT ![t] = r] \/ proc' = [proc EXCEPT ![t] = q]
    BY <1>5 DEF ServeClaim
  <2>3. r.op \notin Publishing /\ r.job = p.job /\ NoIndex(r.todo)
    <3>1. p.op \notin Publishing
      BY <1>5 DEF ServeClaim, Publishing
    <3>2. r.op = "refused" /\ r.job = p.job /\ r.todo = p.todo
      BY <1>0, SMTT(60) DEF GoodProc
    <3> QED
      BY <1>0, <3>1, <3>2 DEF ProcRooted, Publishing
  <2>4. q.op \notin Publishing /\ q.job = p.job /\ NoIndex(q.todo)
    <3>1. /\ q.op = "claim" /\ q.job = p.job
          /\ q.todo = <<Put("state", "assigned"), Put("lease", p.agent)>>
      BY <1>0 DEF GoodProc
    <3> HIDE DEF q
    <3> QED
      BY <3>1, NoIndexTodos, ZenonT(60) DEF Publishing
  <2> HIDE DEF r, q
  <2> QED
    BY <1>0, <1>1, <1>2, <2>1, <2>2, <2>3, <2>4, RootedRun, ZenonT(60)
<1>6. CASE ExplainRefusal(t)
  <2>1. p.op \in CallOps
    BY <1>6 DEF ExplainRefusal, CallOps
  <2> DEFINE r == [p EXCEPT !.op = "claim", !.todo = <<Put("state", "assigned")>>]
  <2>2. \/ proc' = [proc EXCEPT ![t] = r] /\ UNCHANGED ag
        \/ Stop(t) /\ Answer(t, p.agent, Idle)
    BY <1>6 DEF ExplainRefusal
  <2>3. r.op \notin Publishing /\ r.job = p.job /\ NoIndex(r.todo)
    <3>1. r.op = "claim" /\ r.job = p.job /\ r.todo = <<Put("state", "assigned")>>
      BY <1>0 DEF GoodProc
    <3> HIDE DEF r
    <3> QED
      BY <3>1, NoIndexTodos DEF Publishing
  <2> HIDE DEF r
  <2> QED
    BY <1>0, <1>1, <1>2, <1>3, <1>4, <2>1, <2>2, <2>3, RootedRun, Zenon
<1>7. CASE ClaimEnds(t)
  <2>1. p.op \in CallOps /\ Stop(t)
    BY <1>7 DEF ClaimEnds, AtEnd, CallOps
  <2> DEFINE r == [Idle EXCEPT !.pc = "working", !.job = p.job, !.token = p.token]
  <2>2. Answer(t, p.agent, IF p.token = 0 THEN Idle ELSE r)
    BY <1>7 DEF ClaimEnds
  <2>3. r.job = p.job
    BY DEF Idle
  <2> HIDE DEF r
  <2>4. AgentRooted(r, Stored')
    BY <1>0, <2>1, <2>3 DEF AgentRooted, ProcRooted
  <2>5. AgentsRooted'
    BY <1>3, <1>4, <2>1, <2>2, <2>4, Zenon
  <2> QED
    BY <1>0, <1>1, <2>1, <2>5, RootedRun, ZenonT(60)
<1>8. CASE ServeHeartbeat(t)
  <2>1. p.op \in CallOps /\ UNCHANGED ag
    BY <1>8 DEF ServeHeartbeat, CallOps
  <2> DEFINE r == [p EXCEPT !.op = "heartbeat", !.todo = <<Put("lease", p.agent)>>]
  <2>2. proc' = [proc EXCEPT ![t] = r] \/ Stop(t)
    BY <1>8, SMTT(60) DEF ServeHeartbeat
  <2>3. r.op \notin Publishing /\ r.job = p.job /\ NoIndex(r.todo)
    <3>1. r.op = "heartbeat" /\ r.job = p.job /\ r.todo = <<Put("lease", p.agent)>>
      BY <1>0 DEF GoodProc
    <3> HIDE DEF r
    <3> QED
      BY <3>1, NoIndexTodos, ZenonT(60) DEF Publishing
  <2> HIDE DEF r
  <2> QED
    BY <1>0, <1>1, <1>2, <2>1, <2>2, <2>3, RootedRun, ZenonT(60)
<1>9. CASE ServeFinish(t)
  <2>1. p.op \in CallOps /\ UNCHANGED ag
    BY <1>9 DEF ServeFinish, CallOps
  <2> DEFINE todo == <<Put("state", p.status), Put("lease", NULL),
                       Put("ad", FALSE), Put("mirror", FALSE)>>
             r == [p EXCEPT !.op = "finish", !.todo = todo]
  <2>2. proc' = [proc EXCEPT ![t] = r]
    BY <1>9 DEF ServeFinish
  <2>3. NoIndex(todo)
    BY NoIndexTodos, Zenon
  <2> HIDE DEF todo
  <2>4. r.op \notin Publishing /\ r.job = p.job /\ NoIndex(r.todo)
    <3>1. r.op = "finish" /\ r.job = p.job /\ r.todo = todo
      BY <1>0 DEF GoodProc
    <3> HIDE DEF r
    <3> QED
      BY <2>3, <3>1 DEF Publishing
  <2> HIDE DEF r
  <2> QED
    BY <1>0, <1>1, <1>2, <2>1, <2>2, <2>4, RootedRun, Zenon
<1>10. CASE CallEnds(t)
  <2>1. p.op \in CallOps
    BY <1>10 DEF CallEnds, AtEnd, CallOps
  <2> QED
    BY <1>0, <1>1, <1>3, <1>4, <1>10, <2>1, RootedRun, ZenonT(60) DEF CallEnds
<1>11. CASE ReleaseState(t)
  <2>1. "released" \notin CallOps /\ "released" \notin Publishing
    BY DEF CallOps, Publishing
  <2> QED
    BY <1>0, <1>1, <1>11, <2>1, NoIndexTodos, RootedRun, ZenonT(60) DEF ReleaseState
<1> QED
  BY <1>5, <1>6, <1>7, <1>8, <1>9, <1>10, <1>11, SMTT(60) DEF ThreadStep

\* The loops and the restart: restoreJobsFromDemand publishes rows it has listed.
LEMMA LoopRooted ==
  ASSUME ControlInv, TypeOK, FoundInv,
         \/ LoopStep \/ Announce \/ ReannounceQueued \/ Clock \/ ControlRestart
         \/ RestoreListFails \/ \E j \in Jobs : AdExpires(j)
  PROVE  FoundInv'
<1>0. /\ Shape /\ ProcsRooted /\ AgentsRooted /\ Stored \subseteq Stored'
      /\ {"announcer", "requeuer", "main"} \subseteq Procs
      /\ Indexed \subseteq Stored /\ torestore \subseteq Stored
  BY LoopQuiet, StoredGrows, Zenon DEF ControlInv, FoundInv, Procs
<1>1. ASSUME ProcsRooted', AgentsRooted', Indexed' \subseteq Indexed,
             torestore' \subseteq torestore
      PROVE  FoundInv'
  BY <1>0, <1>1 DEF FoundInv
<1>2. UNCHANGED dht => Indexed' \subseteq Indexed
  BY DEF Indexed
<1>3. UNCHANGED torestore => torestore' \subseteq torestore
  OBVIOUS
<1>4. ASSUME NEW j \in Jobs, RequeueExpired(j)
      PROVE  FoundInv'
  <2>1. "requeue" \notin CallOps /\ "requeue" \notin Publishing
    BY DEF CallOps, Publishing
  <2> QED
    BY <1>0, <1>1, <1>2, <1>3, <1>4, <2>1, NoIndexTodos, RootedRun, ZenonT(60) DEF RequeueExpired
<1>5. ASSUME NEW j \in Jobs, RestoreJob(j)
      PROVE  FoundInv'
  <2>1. "restore" \notin CallOps /\ "restore" \in Publishing
    BY DEF CallOps, Publishing
  <2>2. j \in Stored'
    BY <1>0, <1>5 DEF RestoreJob
  <2> QED
    BY <1>0, <1>1, <1>2, <1>3, <1>5, <2>1, <2>2, RootedRun, ZenonT(60) DEF RestoreJob
<1>6. CASE RequeueEnds \/ AnnounceEnds
  BY <1>0, <1>1, <1>2, <1>3, <1>6, RootedRun, ZenonT(60) DEF RequeueEnds, AnnounceEnds
<1>7. CASE RestoreEnds
  BY <1>0, <1>1, <1>2, <1>7, RootedRun, ZenonT(60) DEF RestoreEnds
<1>8. CASE Serving \/ ReannounceQueued \/ Clock
  BY <1>0, <1>1, <1>2, <1>3, <1>8, RootedRun, ZenonT(60) DEF Serving, ReannounceQueued, Clock
<1>9. ASSUME NEW j \in Jobs, AnnounceOnce(j)
      PROVE  FoundInv'
  <2>1. "announce" \notin CallOps /\ "announce" \notin Publishing
    BY DEF CallOps, Publishing
  <2>2. ProcsRooted'
    BY <1>0, <1>9, <2>1, NoIndexTodos, RootedRun, Zenon DEF AnnounceOnce
  <2> QED
    BY <1>0, <1>1, <1>2, <1>3, <1>9, <2>2, RootedRun, ZenonT(60) DEF AnnounceOnce
<1>10. CASE RestoreListFails
  BY <1>0, <1>1, <1>2, <1>10, RootedRun, ZenonT(60) DEF RestoreListFails
<1>11. ASSUME NEW j \in Jobs, AdExpires(j)
       PROVE  FoundInv'
  <2>1. dht \in [Jobs -> Record]
    BY SMTT(60) DEF TypeOK
  <2>2. dht' = [dht EXCEPT ![j] = [dht[j] EXCEPT !.ad = FALSE, !.mirror = FALSE]]
    BY <1>11, ZenonT(60) DEF AdExpires
  <2>3. \A k \in Jobs : dht'[k]["index"] = dht[k]["index"]
    BY <2>1, <2>2, SMTT(60) DEF Record
  <2>4. Indexed' \subseteq Indexed
    BY <2>3 DEF Indexed
  <2> QED
    BY <1>0, <1>1, <1>3, <1>11, <2>4, RootedRun, ZenonT(60) DEF AdExpires
<1>12. CASE ControlRestart
  <2>1. /\ proc' = [p \in Procs |-> Free] /\ torestore' = ListQueued /\ UNCHANGED rows
        /\ ag' = [a \in Agents |-> IF ag[a].thread # NULL THEN Idle ELSE ag[a]]
        /\ dht' = dht \/ dht' = [j \in Jobs |-> Unpublished]
    BY <1>12 DEF ControlRestart
  <2>2. ProcsRooted'
    <3>1. ProcRooted(Free, Stored')
      BY NoIndexTodos DEF ProcRooted, Free, CallOps, Publishing
    <3> QED
      BY <2>1, <3>1, SMTT(60) DEF ProcsRooted
  <2>3. AgentsRooted'
    <3>1. \A S : AgentRooted(Idle, S)
      BY DEF AgentRooted, Idle
    <3>2. Stored' = Stored
      BY <2>1, SMTT(60) DEF Stored
    <3> QED
      BY <1>0, <2>1, <3>1, <3>2, ZenonT(60) DEF AgentsRooted
  <2>4. Indexed' \subseteq Indexed
    <3>1. Unpublished["index"] = FALSE
      BY DEF Unpublished
    <3>2. dht' = [j \in Jobs |-> Unpublished] => \A j \in Jobs : dht'[j]["index"] = FALSE
      BY <3>1
    <3> QED
      BY <2>1, <1>2, <3>2, SMTT(60) DEF Indexed
  <2>5. torestore' \subseteq Stored'
    BY <2>1 DEF ListQueued, Stored, Exists
  <2> QED
    BY <1>0, <2>2, <2>3, <2>4, <2>5, SMTT(60) DEF FoundInv
<1> QED
  BY <1>4, <1>5, <1>6, <1>7, <1>8, <1>9, <1>10, <1>11, <1>12, SMTT(60) DEF LoopStep, Announce

\* Every step keeps the invariant.
LEMMA FoundStep == ControlInv /\ TypeOK /\ FoundInv /\ [Next]_vars => FoundInv'
<1> SUFFICES ASSUME ControlInv, TypeOK, FoundInv, [Next]_vars
             PROVE  FoundInv'
  OBVIOUS
<1>0. Stored \subseteq Stored'
  BY ControlStep, StoredGrows DEF ControlInv
<1>1. ASSUME ProcsRooted', AgentsRooted', UNCHANGED <<dht, torestore>>
      PROVE  FoundInv'
  BY <1>0, <1>1 DEF FoundInv, Indexed
<1>2. CASE ClientStep
  BY <1>1, <1>2, ClientRooted, Zenon
<1>3. ASSUME NEW a \in Agents,
             \/ AgentStep(a) \/ CallTimesOut(a) \/ Crash(a)
             \/ \E t \in Threads : SendHeartbeat(a, t)
      PROVE  FoundInv'
  BY <1>1, <1>3, AgentRootedStep, ZenonT(60)
<1>4. ASSUME NEW p \in Procs, ProcStep(p) \/ DhtPutFails(p)
      PROVE  FoundInv'
  BY <1>0, <1>4, PutsRooted DEF FoundInv
<1>5. ASSUME NEW t \in Threads, ThreadStep(t)
      PROVE  FoundInv'
  BY <1>1, <1>5, ThreadRooted, Zenon
<1>6. CASE \/ LoopStep \/ Announce \/ ReannounceQueued \/ Clock \/ ControlRestart
           \/ RestoreListFails \/ \E j \in Jobs : AdExpires(j)
  BY <1>6, LoopRooted
<1>7. CASE UNCHANGED vars
  BY <1>0, <1>1, <1>7, RootedRun, ZenonT(60) DEF vars, ControlInv, FoundInv
<1> QED
  BY <1>2, <1>3, <1>4, <1>5, <1>6, <1>7, SMTT(60) DEF Next, Disturbance

\* Agents ask only for jobs the database has: createTaskHandler inserts the row
\* before it writes the index, restoreJobsFromDemand publishes rows it has read, and
\* no statement deletes one.
THEOREM ClaimFindsJobHolds == Spec => []ClaimFindsJob
<1>1. Init => FoundInv
  <2> SUFFICES ASSUME Init
               PROVE  FoundInv
    OBVIOUS
  <2>1. Indexed = {}
    <3>1. \A j \in Jobs : dht[j]["index"] = FALSE
      BY DEF Init, Unpublished
    <3> QED
      BY <3>1, SMTT(60) DEF Indexed
  <2>2. ProcsRooted
    <3>1. ProcRooted(Free, Stored)
      BY NoIndexTodos, SMTT(60) DEF ProcRooted, Free, CallOps, Publishing
    <3> QED
      BY <3>1, SMTT(60) DEF Init, ProcsRooted
  <2>3. AgentsRooted
    BY SMTT(60) DEF Init, AgentsRooted, AgentRooted, Idle
  <2> QED
    BY <2>1, <2>2, <2>3, SMTT(60) DEF Init, FoundInv
<1>2. ControlInv /\ FoundInv => ClaimFindsJob
  <2> SUFFICES ASSUME ControlInv, FoundInv
               PROVE  ClaimFindsJob
    OBVIOUS
  <2>1. ASSUME NEW j \in Jobs, dht[j].index
        PROVE  Exists(rows[j])
    <3>1. j \in Indexed
      BY <2>1, Zenon DEF Indexed
    <3> QED
      BY <3>1 DEF FoundInv, Stored
  <2>2. ASSUME NEW t \in Threads, proc[t].op = "refused"
        PROVE  ClaimError(rows[proc[t].job]) # "ErrJobNotFound"
    <3>1. t \in Procs
      BY DEF Procs
    <3>2. proc[t].job \in Stored
      BY <2>2, <3>1 DEF FoundInv, ProcsRooted, ProcRooted, CallOps
    <3> QED
      BY <3>2 DEF Stored, ClaimError
  <2> QED
    BY <2>1, <2>2 DEF ClaimFindsJob
<1> QED
  BY <1>1, <1>2, FoundStep, ControlInvCorrect, ControlTypeCorrect, PTL DEF Spec
=============================================================================
