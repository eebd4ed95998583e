--------------------------- MODULE TaskIndexProofs --------------------------
(***************************************************************************)
(* TaskIndex for any number of jobs, shards, concurrent requests, faults    *)
(* and restarts.                                                            *)
(***************************************************************************)
EXTENDS TaskIndex, TLAPS

Proc == [pc : {"free", "get", "put", "done"}, job : Jobs \cup {NULL}, shard : Shards,
         seen : SUBSET Jobs]

\* The part of the typing the arguments below rest on.
IndexType ==
  /\ shard \in [Shards -> SUBSET Jobs]
  /\ proc \in [Procs -> Proc]
  /\ \A p \in Procs : proc[p].pc # "free" => proc[p].job \in Jobs
  /\ queued \subseteq Jobs /\ rows \subseteq Jobs /\ torestore \subseteq Jobs

-----------------------------------------------------------------------------
\* Goroutine p moves and becomes r.
Moves(p, r) == proc' = [proc EXCEPT ![p] = r]

\* A goroutine that moves leaves the others alone.
LEMMA MovedProc ==
  ASSUME IndexType, NEW p \in Procs, NEW r \in Proc, Moves(p, r),
         r.pc # "free" => r.job \in Jobs
  PROVE  /\ proc' \in [Procs -> Proc]
         /\ \A q \in Procs : proc'[q].pc # "free" => proc'[q].job \in Jobs
         /\ proc'[p] = r
         /\ \A q \in Procs \ {p} : proc'[q] = proc[q]
BY DEF IndexType, Moves

\* Every step keeps the types.
LEMMA IndexTypeInductive == IndexType /\ [Next]_vars => IndexType'
<1> SUFFICES ASSUME IndexType, [Next]_vars
             PROVE  IndexType'
  OBVIOUS
<1>a. \A p \in Procs : proc[p] \in Proc
  BY DEF IndexType
<1>b. Threads \subseteq Procs /\ "main" \in Procs
  BY DEF Procs
<1>c. ASSUME NEW p \in Procs, NEW r \in Proc, Moves(p, r), r.pc # "free" => r.job \in Jobs,
             shard' \in [Shards -> SUBSET Jobs], queued' \subseteq Jobs, rows' \subseteq Jobs,
             torestore' \subseteq Jobs
      PROVE  IndexType'
  BY <1>c, MovedProc DEF IndexType
<1>d. Free \in Proc /\ Free.pc = "free"
  BY <1>a, <1>b, ShardAssumption DEF Proc, Free, Shards
<1>1. ASSUME NEW t \in Threads, NEW j \in Jobs, CreateTask(t, j)
      PROVE  IndexType'
  <2>1. [Free EXCEPT !.pc = "get", !.job = j] \in Proc
        /\ [Free EXCEPT !.pc = "get", !.job = j].job = j
    BY <1>d, ZenonT(60) DEF Proc
  <2> QED
    BY <1>1, <1>b, <1>c, <2>1 DEF CreateTask, Moves, IndexType
<1>2. ASSUME NEW t \in Threads, PublishFails(t) \/ CreateEnds(t)
      PROVE  IndexType'
  BY <1>2, <1>b, <1>c, <1>d DEF PublishFails, CreateEnds, Moves, IndexType
<1>3. ASSUME NEW p \in Procs, NEW s \in Shards, GetShard(p, s) \/ GetShardFails(p, s)
      PROVE  IndexType'
  <2>1. shard[s] \in SUBSET Jobs /\ {} \in SUBSET Jobs /\ proc[p].job \in Jobs
    BY <1>3 DEF IndexType, GetShard, GetShardFails
  <2>2. PICK c \in {"put", "done"}, x \in SUBSET Jobs :
          Moves(p, [proc[p] EXCEPT !.pc = c, !.shard = s, !.seen = x])
    BY <1>3, <2>1, ZenonT(60) DEF GetShard, GetShardFails, Moves
  <2>3. /\ [proc[p] EXCEPT !.pc = c, !.shard = s, !.seen = x] \in Proc
        /\ [proc[p] EXCEPT !.pc = c, !.shard = s, !.seen = x].job = proc[p].job
    BY <1>a, ZenonT(60) DEF Proc
  <2> QED
    BY <1>3, <1>c, <2>1, <2>2, <2>3, ZenonT(60) DEF GetShard, GetShardFails, IndexType
<1>4. ASSUME NEW p \in Procs, PutShard(p) \/ PutShardFails(p)
      PROVE  IndexType'
  <2>1. proc[p].job \in Jobs /\ proc[p].seen \subseteq Jobs /\ proc[p].shard \in Shards
    BY <1>4, <1>a DEF IndexType, PutShard, PutShardFails, Proc
  <2>2. shard' \in [Shards -> SUBSET Jobs]
    BY <1>4, <2>1 DEF PutShard, PutShardFails, Written, Extended, IndexType
  <2>3. /\ [proc[p] EXCEPT !.pc = "done"] \in Proc
        /\ [proc[p] EXCEPT !.pc = "done"].job = proc[p].job
    BY <1>a DEF Proc
  <2>4. PICK r \in {Free, [proc[p] EXCEPT !.pc = "done"]} : Moves(p, r)
    BY <1>4 DEF PutShard, PutShardFails, Moves
  <2> QED
    BY <1>4, <1>c, <1>d, <2>1, <2>2, <2>3, <2>4, ZenonT(60) DEF PutShard, PutShardFails, IndexType
<1>5. ASSUME NEW j \in Jobs, Claimed(j) \/ Requeued(j)
      PROVE  IndexType'
  BY <1>5 DEF Claimed, Requeued, IndexType
<1>6. ASSUME NEW j \in Jobs, RestoreJob(j)
      PROVE  IndexType'
  <2>1. [Free EXCEPT !.pc = "get", !.job = j] \in Proc
        /\ [Free EXCEPT !.pc = "get", !.job = j].job = j
    BY <1>d, ZenonT(60) DEF Proc
  <2> QED
    BY <1>6, <1>b, <1>c, <2>1 DEF RestoreJob, Moves, IndexType
<1>7. CASE Restart
  BY <1>7, <1>d DEF Restart, IndexType
<1>8. CASE RestoreJobEnds
  BY <1>8, <1>b, <1>c, <1>d DEF RestoreJobEnds, Moves, IndexType
<1>9. CASE Serving \/ ScanStart \/ ScanStartFails \/ ScanShard \/ ScanShardFails \/ ScanEnds
  BY <1>9 DEF Serving, ScanStart, ScanStartFails, ScanShard, ScanShardFails, ScanEnds, IndexType
<1>10. CASE UNCHANGED vars
  BY <1>10 DEF vars, IndexType
<1> QED
  BY <1>1, <1>2, <1>3, <1>4, <1>5, <1>6, <1>7, <1>8, <1>9, <1>10 DEF Next

\* The control server starts with an empty index.
LEMMA IndexTypeInit == Init => IndexType
BY ShardAssumption DEF Init, IndexType, Proc, Free, Shards

-----------------------------------------------------------------------------
(***************************************************************************)
(* Nothing is lost but by a race.  As long as the history is clean, a       *)
(* goroutine about to write a shard is alone with it and has seen what is   *)
(* there, so every write extends the index.                                 *)
(***************************************************************************)
CleanInv ==
  clean =>
    /\ \A p \in Procs : proc[p].pc = "put" => proc[p].seen = shard[proc[p].shard]
    /\ \A p, q \in Procs :
         (proc[p].pc = "put" /\ proc[q].pc = "put" /\ proc[p].shard = proc[q].shard) => p = q
    /\ \A t \in Threads : proc[t].pc = "done" => proc[t].job \in Indexed
    /\ acked \subseteq Indexed

\* A step that leaves clean, shards and acknowledgements alone and starts or
\* ends a call keeps the invariant.
LEMMA CleanQuiet ==
  ASSUME IndexType, CleanInv, NEW p \in Procs, NEW r \in Proc, Moves(p, r),
         r.pc \in {"free", "get"}, UNCHANGED <<shard, clean>>,
         clean => acked' \subseteq Indexed
  PROVE  CleanInv'
<1>1. proc'[p] = r /\ \A q \in Procs \ {p} : proc'[q] = proc[q]
  BY DEF IndexType, Moves
<1>2. Indexed' = Indexed
  BY DEF Indexed
<1> QED
  BY <1>1, <1>2 DEF CleanInv, Procs

\* Every step keeps it.
LEMMA CleanInductive == IndexType /\ CleanInv /\ [Next]_vars => CleanInv'
<1> SUFFICES ASSUME IndexType, CleanInv, [Next]_vars
             PROVE  CleanInv'
  OBVIOUS
<1>a. \A p \in Procs : proc[p] \in Proc
  BY DEF IndexType
<1>b. Threads \subseteq Procs /\ "main" \in Procs /\ "main" \notin Threads
  BY ThreadAssumption DEF Procs
<1>c. Free \in Proc /\ Free.pc = "free"
  BY ShardAssumption DEF Proc, Free, Shards
<1>d. ASSUME NEW j \in Jobs
      PROVE  /\ [Free EXCEPT !.pc = "get", !.job = j] \in Proc
             /\ [Free EXCEPT !.pc = "get", !.job = j].pc = "get"
  BY <1>c, ZenonT(60) DEF Proc
<1>1. ASSUME NEW t \in Threads, NEW j \in Jobs, CreateTask(t, j)
      PROVE  CleanInv'
  BY <1>1, <1>b, <1>d, CleanQuiet, ZenonT(60) DEF CreateTask, Moves, CleanInv
<1>2. ASSUME NEW t \in Threads, PublishFails(t) \/ CreateEnds(t)
      PROVE  CleanInv'
  BY <1>2, <1>b, <1>c, CleanQuiet, ZenonT(60) DEF PublishFails, CreateEnds, Moves, CleanInv
<1>3. ASSUME NEW p \in Procs, NEW s \in Shards, GetShard(p, s)
      PROVE  CleanInv'
  <2> SUFFICES ASSUME clean'
               PROVE  CleanInv'
    BY DEF CleanInv
  <2>1. clean /\ ~Writing(s)
    BY <1>3, Zenon DEF GetShard
  <2> DEFINE c == IF proc[p].job \in shard[s] THEN "done" ELSE "put"
             r == [proc[p] EXCEPT !.pc = c, !.shard = s, !.seen = shard[s]]
  <2>2. proc'[p] = r /\ \A q \in Procs \ {p} : proc'[q] = proc[q]
    BY <1>3 DEF GetShard, IndexType
  <2>3. r.pc = c /\ r.shard = s /\ r.seen = shard[s] /\ r.job = proc[p].job
    BY <1>a DEF Proc
  <2>4. c = "done" => proc[p].job \in Indexed
    BY DEF Indexed
  <2>5. Indexed' = Indexed /\ shard' = shard /\ acked' = acked
    BY <1>3 DEF Indexed, GetShard
  <2>6. \A q \in Procs : proc[q].pc = "put" => proc[q].shard # s
    BY <2>1 DEF Writing
  <2> HIDE DEF c, r
  <2>7. c \in {"done", "put"}
    BY DEF c
  <2> QED
    BY <2>1, <2>2, <2>3, <2>4, <2>5, <2>6, <2>7, <1>b DEF CleanInv
<1>4. ASSUME NEW p \in Procs, NEW s \in Shards, GetShardFails(p, s)
      PROVE  CleanInv'
  BY <1>4 DEF GetShardFails, CleanInv
<1>5. ASSUME NEW p \in Procs, PutShard(p) \/ PutShardFails(p)
      PROVE  CleanInv'
  <2> SUFFICES ASSUME clean
               PROVE  CleanInv'
    BY <1>5, ZenonT(60) DEF PutShard, PutShardFails, CleanInv
  <2> DEFINE s == proc[p].shard
  <2>1. /\ proc[p].pc = "put" /\ s \in Shards
        /\ proc[p].seen = shard[s]
        /\ clean' = clean /\ acked' = acked
    BY <1>5, <1>a, ZenonT(60) DEF PutShard, PutShardFails, CleanInv, Proc
  <2>2. \/ shard' = shard
        \/ shard' = [shard EXCEPT ![s] = shard[s] \cup {proc[p].job}]
    BY <1>5, <2>1 DEF PutShard, PutShardFails, Written, Extended
  <2>3. Indexed \subseteq Indexed'
    BY <2>1, <2>2 DEF Indexed, IndexType
  <2>4. /\ proc'[p] \in {Free, [proc[p] EXCEPT !.pc = "done"]}
        /\ \A q \in Procs \ {p} : proc'[q] = proc[q]
    BY <1>5, ZenonT(60) DEF PutShard, PutShardFails, IndexType
  <2>5. proc'[p].pc \in {"free", "done"} /\ (proc'[p].pc = "done" => proc'[p].job = proc[p].job)
    BY <2>4, <1>a, <1>c DEF Proc
  <2>6. p \in Threads /\ proc'[p].pc = "done" => proc[p].job \in Indexed'
    <3>1. CASE PutShard(p)
      BY <3>1, <2>1 DEF PutShard, Written, Extended, Indexed, IndexType
    <3>2. CASE PutShardFails(p)
      BY <3>2, <1>b, <1>c, <2>4 DEF PutShardFails, IndexType
    <3> QED
      BY <1>5, <3>1, <3>2
  <2>7. \A q \in Procs \ {p} : proc[q].pc = "put" => shard'[proc[q].shard] = shard[proc[q].shard]
    BY <2>1, <2>2, <1>a DEF CleanInv, IndexType, Proc
  <2> HIDE DEF s
  <2> QED
    BY <2>1, <2>3, <2>4, <2>5, <2>6, <2>7, <1>b DEF CleanInv
<1>6. ASSUME NEW j \in Jobs, Claimed(j) \/ Requeued(j)
      PROVE  CleanInv'
  BY <1>6, ZenonT(60) DEF Claimed, Requeued, CleanInv, Indexed
<1>7. ASSUME NEW j \in Jobs, RestoreJob(j)
      PROVE  CleanInv'
  BY <1>7, <1>b, <1>d, CleanQuiet, ZenonT(60) DEF RestoreJob, Moves, CleanInv
<1>8. CASE Restart
  <2> SUFFICES ASSUME clean'
               PROVE  CleanInv'
    BY DEF CleanInv
  <2>1. clean /\ shard' = shard /\ acked' = acked
    BY <1>8, ZenonT(60) DEF Restart
  <2>2. \A p \in Procs : proc'[p].pc = "free"
    BY <1>8, <1>c DEF Restart
  <2> QED
    BY <2>1, <2>2, <1>b DEF CleanInv, Indexed
<1>9. CASE RestoreJobEnds
  BY <1>9, <1>b, <1>c, CleanQuiet, ZenonT(60) DEF RestoreJobEnds, Moves, CleanInv
<1>10. CASE Serving \/ ScanStart \/ ScanStartFails \/ ScanShard \/ ScanShardFails \/ ScanEnds
  BY <1>10, ZenonT(60) DEF Serving, ScanStart, ScanStartFails, ScanShard, ScanShardFails,
                           ScanEnds, CleanInv, Indexed
<1>11. CASE UNCHANGED vars
  BY <1>11 DEF vars, CleanInv, Indexed
<1> QED
  BY <1>1, <1>2, <1>3, <1>4, <1>5, <1>6, <1>7, <1>8, <1>9, <1>10, <1>11 DEF Next

\* Failed puts, repeated creates and restarts lose no acknowledged job: that
\* takes a failed read, two overlapping calls of addToIndex, or lost records.
THEOREM LostOnlyByRaceHolds == Spec => []LostOnlyByRace
<1>1. Init => CleanInv
  BY DEF Init, CleanInv, Free, Procs
<1>2. CleanInv => LostOnlyByRace
  BY DEF CleanInv, LostOnlyByRace
<1> QED
  BY <1>1, <1>2, IndexTypeInit, IndexTypeInductive, CleanInductive, PTL DEF Spec

-----------------------------------------------------------------------------
(***************************************************************************)
(* A restart.  While restoreJobsFromDemand runs it is alone with the index; *)
(* every job it listed is still to come, being written, or in the index.    *)
(***************************************************************************)
Main == proc["main"]

RestoreInv ==
  /\ DOMAIN used = {"create", "fault", "restart"} /\ used.fault \in Nat
  /\ ~up => \A t \in Threads : proc[t].pc = "free"
  /\ up => Main.pc = "free"
  /\ ~up /\ used.fault = 0 =>
       /\ \A j \in listed : j \in torestore \/ j \in Indexed
                               \/ (Main.pc \in {"get", "put"} /\ Main.job = j)
       /\ Main.pc = "put" => Main.seen = shard[Main.shard]
       /\ Main.pc = "done" => Main.job \in Indexed

\* Every step keeps the invariant.
LEMMA RestoreInductive == IndexType /\ RestoreInv /\ [Next]_vars => RestoreInv'
<1> SUFFICES ASSUME IndexType, RestoreInv, [Next]_vars
             PROVE  RestoreInv'
  OBVIOUS
<1>a. \A p \in Procs : proc[p] \in Proc
  BY DEF IndexType
<1>b. Threads \subseteq Procs /\ "main" \in Procs /\ "main" \notin Threads
  BY ThreadAssumption DEF Procs
<1>c. Free \in Proc /\ Free.pc = "free"
  BY ShardAssumption DEF Proc, Free, Shards
<1>d. ASSUME Fault
      PROVE  /\ DOMAIN used' = {"create", "fault", "restart"}
             /\ used'.fault \in Nat /\ used'.fault # 0
  BY <1>d DEF Fault, RestoreInv
<1>1. ASSUME NEW t \in Threads, NEW j \in Jobs, CreateTask(t, j)
      PROVE  RestoreInv'
  <2>1. up /\ up' /\ proc'["main"] = proc["main"]
    BY <1>1, <1>b DEF CreateTask, IndexType
  <2>2. DOMAIN used' = DOMAIN used /\ used'.fault = used.fault
    BY <1>1 DEF CreateTask, RestoreInv
  <2> QED
    BY <2>1, <2>2 DEF RestoreInv, Main
<1>2. ASSUME NEW t \in Threads, PublishFails(t) \/ CreateEnds(t)
      PROVE  RestoreInv'
  <2>1. up /\ up' /\ proc'["main"] = proc["main"]
    BY <1>2, <1>b DEF PublishFails, CreateEnds, IndexType, RestoreInv
  <2>2. DOMAIN used' = DOMAIN used /\ used'.fault \in Nat
    BY <1>2, <1>d DEF PublishFails, CreateEnds, RestoreInv
  <2> QED
    BY <2>1, <2>2 DEF RestoreInv, Main
<1>3. ASSUME NEW p \in Procs, NEW s \in Shards, GetShard(p, s)
      PROVE  RestoreInv'
  <2> DEFINE c == IF proc[p].job \in shard[s] THEN "done" ELSE "put"
             r == [proc[p] EXCEPT !.pc = c, !.shard = s, !.seen = shard[s]]
  <2>1. proc'[p] = r /\ \A q \in Procs \ {p} : proc'[q] = proc[q]
    BY <1>3 DEF GetShard, IndexType
  <2>2. r.pc = c /\ r.shard = s /\ r.seen = shard[s] /\ r.job = proc[p].job
    BY <1>a DEF Proc
  <2>3. c = "done" => proc[p].job \in Indexed
    BY DEF Indexed
  <2>4. /\ Indexed' = Indexed
        /\ UNCHANGED <<shard, up, torestore, listed, used>>
        /\ proc[p].pc = "get"
    BY <1>3 DEF Indexed, GetShard
  <2>5. c \in {"done", "put"}
    OBVIOUS
  <2> HIDE DEF c, r
  <2>6. CASE p = "main"
    BY <2>1, <2>2, <2>3, <2>4, <2>5, <2>6, <1>b DEF RestoreInv, Main
  <2>7. CASE p # "main"
    BY <2>1, <2>4, <2>7, <1>b DEF RestoreInv, Main, Procs
  <2> QED
    BY <2>6, <2>7
<1>4. ASSUME NEW p \in Procs, NEW s \in Shards, GetShardFails(p, s)
      PROVE  RestoreInv'
  <2>1. /\ UNCHANGED up /\ \A q \in Procs \ {p} : proc'[q] = proc[q]
        /\ proc[p].pc = "get"
    BY <1>4 DEF GetShardFails, IndexType
  <2> QED
    BY <1>4, <2>1, <1>b, <1>d DEF GetShardFails, RestoreInv, Main, Procs
<1>5. ASSUME NEW p \in Procs, PutShard(p)
      PROVE  RestoreInv'
  <2> DEFINE s == proc[p].shard
  <2>1. /\ proc[p].pc = "put" /\ s \in Shards
        /\ UNCHANGED <<up, torestore, listed, used>>
        /\ shard' = [shard EXCEPT ![s] = proc[p].seen \cup {proc[p].job}]
    BY <1>5, <1>a DEF PutShard, Written, Extended, Proc
  <2>2. /\ proc'[p].pc = "done" /\ proc'[p].job = proc[p].job
        /\ \A q \in Procs \ {p} : proc'[q] = proc[q]
    BY <1>5, <1>a DEF PutShard, IndexType, Proc
  <2>3. proc[p].job \in Indexed'
    BY <2>1 DEF Indexed, IndexType
  <2>4. CASE up
    BY <2>1, <2>2, <2>4, <1>b DEF RestoreInv, Main
  <2>5. CASE ~up
    <3>1. p = "main"
      BY <2>1, <2>5 DEF RestoreInv, Procs
    <3>2. used.fault = 0 => Indexed \subseteq Indexed'
      BY <2>1, <2>5, <3>1 DEF RestoreInv, Main, Indexed, IndexType
    <3> QED
      BY <2>1, <2>2, <2>3, <2>5, <3>1, <3>2, <1>b DEF RestoreInv, Main
  <2> QED
    BY <2>4, <2>5
<1>6. ASSUME NEW p \in Procs, PutShardFails(p)
      PROVE  RestoreInv'
  <2>1. /\ UNCHANGED up /\ \A q \in Procs \ {p} : proc'[q] = proc[q]
        /\ proc[p].pc = "put"
    BY <1>6 DEF PutShardFails, IndexType
  <2> QED
    BY <1>6, <2>1, <1>b, <1>d DEF PutShardFails, RestoreInv, Main, Procs
<1>7. ASSUME NEW j \in Jobs, Claimed(j) \/ Requeued(j)
      PROVE  RestoreInv'
  BY <1>7 DEF Claimed, Requeued, RestoreInv, Main, Indexed
<1>8. ASSUME NEW j \in Jobs, RestoreJob(j)
      PROVE  RestoreInv'
  <2>1. /\ proc'["main"] = [Free EXCEPT !.pc = "get", !.job = j]
        /\ \A t \in Threads : proc'[t] = proc[t]
    BY <1>8, <1>b DEF RestoreJob, IndexType
  <2>2. proc'["main"].pc = "get" /\ proc'["main"].job = j
    BY <2>1 DEF Free
  <2>3. /\ Indexed' = Indexed /\ UNCHANGED <<shard, up, listed, used>>
        /\ ~up /\ torestore' = torestore \ {j} /\ proc["main"].pc = "free"
    BY <1>8 DEF RestoreJob, Indexed
  <2> QED
    BY <2>1, <2>2, <2>3 DEF RestoreInv, Main
<1>9. CASE Restart
  <2>1. \A p \in Procs : proc'[p].pc = "free"
    BY <1>9, <1>c DEF Restart
  <2>2. DOMAIN used' = DOMAIN used /\ used'.fault = used.fault
    BY <1>9 DEF Restart, RestoreInv
  <2>3. listed' = torestore' /\ ~up'
    BY <1>9 DEF Restart
  <2> QED
    BY <2>1, <2>2, <2>3, <1>b DEF RestoreInv, Main
<1>10. CASE RestoreJobEnds
  <2>1. proc'["main"].pc = "free" /\ \A t \in Threads : proc'[t] = proc[t]
    BY <1>10, <1>b, <1>c DEF RestoreJobEnds, IndexType
  <2> QED
    BY <1>10, <2>1 DEF RestoreJobEnds, RestoreInv, Main, Indexed
<1>11. CASE Serving \/ ScanStart \/ ScanShard \/ ScanEnds
  BY <1>11 DEF Serving, ScanStart, ScanShard, ScanEnds, RestoreInv, Main, Indexed
<1>12. CASE ScanStartFails \/ ScanShardFails
  BY <1>12, <1>d DEF ScanStartFails, ScanShardFails, RestoreInv, Main, Indexed
<1>13. CASE UNCHANGED vars
  BY <1>13 DEF vars, RestoreInv, Main, Indexed
<1> QED
  BY <1>1, <1>2, <1>3, <1>4, <1>5, <1>6, <1>7, <1>8, <1>9, <1>10, <1>11, <1>12, <1>13 DEF Next

\* When restoreJobsFromDemand is over, every queued job it listed is in the
\* index, whatever it found there, unless a DHT call has failed.
THEOREM RestoreReindexesHolds == Spec => RestoreReindexes
<1>1. Init => RestoreInv
  BY DEF Init, RestoreInv, Main, Free, Procs
<1>2. RestoreInv /\ [Next]_vars
        => [~up /\ up' /\ used.fault = 0 => listed \subseteq Indexed]_vars
  <2> SUFFICES ASSUME RestoreInv, Next, ~up, up', used.fault = 0
               PROVE  listed \subseteq Indexed
    BY SMTT(60)
  <2>1. Serving
    BY ZenonT(60) DEF Next, CreateTask, PublishFails, CreateEnds, GetShard, GetShardFails, PutShard,
           PutShardFails, Claimed, Requeued, RestoreJob, Restart, RestoreJobEnds,
           ScanStart, ScanStartFails, ScanShard, ScanShardFails, ScanEnds
  <2> QED
    BY <2>1 DEF Serving, RestoreInv, Main
<1> QED
  BY <1>1, <1>2, IndexTypeInit, IndexTypeInductive, RestoreInductive, PTL
     DEF Spec, RestoreReindexes

-----------------------------------------------------------------------------
(***************************************************************************)
(* A scan.  What is steady is in its shard now, and was when the scan came  *)
(* past that shard.                                                         *)
(***************************************************************************)
ScanInv ==
  /\ DOMAIN scan = {"pos", "ids", "steady", "faulty"}
  /\ scan.pos \in 0..ShardCount
  /\ scan.steady \subseteq Entries(shard)
  /\ ~scan.faulty => \A e \in scan.steady : e[1] < scan.pos => e[2] \in scan.ids

\* Writing shards only takes entries out of what is steady.
LEMMA ScanWritten ==
  ASSUME ScanInv, scan' = Steady(shard')
  PROVE  ScanInv'
<1>1. /\ DOMAIN scan' = {"pos", "ids", "steady", "faulty"}
      /\ scan'.pos = scan.pos /\ scan'.ids = scan.ids /\ scan'.faulty = scan.faulty
      /\ scan'.steady = scan.steady \cap Entries(shard')
  BY DEF ScanInv, Steady
<1> QED
  BY <1>1 DEF ScanInv, Entries

\* Every step keeps the invariant.
LEMMA ScanInductive == ScanInv /\ [Next]_vars => ScanInv'
<1> SUFFICES ASSUME ScanInv, [Next]_vars
             PROVE  ScanInv'
  OBVIOUS
<1>a. ShardCount \in Nat \ {0} /\ Shards = 0..(ShardCount - 1)
  BY ShardAssumption DEF Shards
<1>b. \A e \in scan.steady : e[1] \in Shards /\ e[2] \in shard[e[1]]
  BY DEF ScanInv, Entries
<1>c. CASE UNCHANGED <<shard, scan>>
  BY <1>c DEF ScanInv, Entries
<1>1. CASE Restart \/ \E p \in Procs : PutShard(p) \/ PutShardFails(p)
  BY <1>1, <1>c, ScanWritten DEF Restart, PutShard, PutShardFails, Written
<1>2. CASE ScanStart \/ ScanStartFails
  <2>1. /\ \/ scan' = [pos |-> 1, ids |-> shard[0], steady |-> Entries(shard), faulty |-> FALSE]
           \/ scan' = [pos |-> 1, ids |-> {}, steady |-> Entries(shard), faulty |-> TRUE]
        /\ shard' = shard
    BY <1>2 DEF ScanStart, ScanStartFails
  <2>2. \A e \in Entries(shard) : e[1] \in Shards /\ e[2] \in shard[e[1]]
    BY DEF Entries
  <2>3. Entries(shard') = Entries(shard)
    BY <2>1 DEF Entries
  <2> QED
    BY <2>1, <2>2, <2>3, <1>a DEF ScanInv
<1>3. CASE ScanShard
  <2>1. /\ DOMAIN scan' = {"pos", "ids", "steady", "faulty"}
        /\ scan'.pos = scan.pos + 1 /\ scan'.ids = scan.ids \cup shard[scan.pos]
        /\ scan'.steady = scan.steady /\ scan'.faulty = scan.faulty
        /\ shard' = shard /\ scan.pos \in 1..(ShardCount - 1)
    BY <1>3 DEF ScanShard, ScanInv
  <2>2. Entries(shard') = Entries(shard)
    BY <2>1 DEF Entries
  <2> QED
    BY <2>1, <2>2, <1>a, <1>b DEF ScanInv
<1>4. CASE ScanShardFails
  <2>1. /\ DOMAIN scan' = {"pos", "ids", "steady", "faulty"}
        /\ scan'.pos = scan.pos + 1 /\ scan'.steady = scan.steady /\ scan'.faulty
        /\ shard' = shard /\ scan.pos \in 1..(ShardCount - 1)
    BY <1>4 DEF ScanShardFails, ScanInv
  <2>2. Entries(shard') = Entries(shard)
    BY <2>1 DEF Entries
  <2> QED
    BY <2>1, <2>2, <1>a DEF ScanInv
<1>5. CASE ScanEnds
  BY <1>5, <1>a DEF ScanEnds, NoScan, ScanInv
<1> QED
  BY <1>1, <1>2, <1>3, <1>4, <1>5, <1>c, ZenonT(60)
     DEF Next, vars, CreateTask, PublishFails, CreateEnds, GetShard, GetShardFails, Claimed,
         Requeued, RestoreJob, RestoreJobEnds, Serving

\* ListFromIndex, which reads the shards one by one, returns every id that stays
\* in its shard during the scan.
THEOREM ScanSeesSteadyHolds == Spec => []ScanSeesSteady
<1>1. Init => ScanInv
  BY ShardAssumption DEF Init, NoScan, ScanInv
<1>2. ScanInv => ScanSeesSteady
  BY ShardAssumption DEF ScanInv, Entries, Shards, ScanSeesSteady
<1> QED
  BY <1>1, <1>2, ScanInductive, PTL DEF Spec

-----------------------------------------------------------------------------
(***************************************************************************)
(* Types.  A row is never deleted, so whatever is queued, acknowledged, to  *)
(* be restored or being added to the index has one.                         *)
(***************************************************************************)
RowInv ==
  /\ queued \subseteq rows /\ acked \subseteq rows
  /\ torestore \subseteq rows /\ listed \subseteq rows
  /\ \A p \in Procs : proc[p].pc # "free" => proc[p].job \in rows

\* Every step keeps the rows.
LEMMA RowInductive == IndexType /\ RowInv /\ [Next]_vars => RowInv'
<1> SUFFICES ASSUME IndexType, RowInv, [Next]_vars
             PROVE  RowInv'
  OBVIOUS
<1>a. \A p \in Procs : proc[p] \in Proc
  BY DEF IndexType
<1>b. Threads \subseteq Procs /\ "main" \in Procs
  BY DEF Procs
<1>c. ASSUME NEW p \in Procs, NEW r \in Proc, Moves(p, r), r.pc # "free" => r.job \in rows',
             rows \subseteq rows', queued' \subseteq rows', acked' \subseteq rows',
             torestore' \subseteq rows', listed' \subseteq rows'
      PROVE  RowInv'
  <2>1. proc'[p] = r /\ \A q \in Procs \ {p} : proc'[q] = proc[q]
    BY <1>c DEF IndexType, Moves
  <2> QED
    BY <1>c, <2>1 DEF RowInv
<1>d. Free \in Proc /\ Free.pc = "free"
  BY ShardAssumption DEF Proc, Free, Shards
<1>e. ASSUME NEW j \in Jobs
      PROVE  /\ [Free EXCEPT !.pc = "get", !.job = j] \in Proc
             /\ [Free EXCEPT !.pc = "get", !.job = j].job = j
  BY <1>d, ZenonT(60) DEF Proc
<1>1. ASSUME NEW t \in Threads, NEW j \in Jobs, CreateTask(t, j)
      PROVE  RowInv'
  <2> DEFINE r == [Free EXCEPT !.pc = "get", !.job = j]
  <2>1. r \in Proc /\ r.job = j
    BY <1>e, ZenonT(60)
  <2>2. Moves(t, r) /\ j \in rows' /\ rows \subseteq rows'
    BY <1>1 DEF CreateTask, Moves
  <2> HIDE DEF r
  <2>3. /\ queued' \subseteq rows' /\ acked' \subseteq rows'
        /\ torestore' \subseteq rows' /\ listed' \subseteq rows'
    BY <1>1 DEF CreateTask, RowInv
  <2> QED
    BY <1>b, <1>c, <2>1, <2>2, <2>3
<1>2. ASSUME NEW t \in Threads, PublishFails(t) \/ CreateEnds(t)
      PROVE  RowInv'
  BY <1>2, <1>b, <1>c, <1>d DEF PublishFails, CreateEnds, Moves, RowInv
<1>3. ASSUME NEW p \in Procs, NEW s \in Shards, GetShard(p, s) \/ GetShardFails(p, s)
      PROVE  RowInv'
  <2>1. shard[s] \in SUBSET Jobs /\ {} \in SUBSET Jobs /\ proc[p].job \in rows
    BY <1>3 DEF IndexType, RowInv, GetShard, GetShardFails
  <2>2. PICK c \in {"put", "done"}, x \in SUBSET Jobs :
          Moves(p, [proc[p] EXCEPT !.pc = c, !.shard = s, !.seen = x])
    BY <1>3, <2>1, ZenonT(60) DEF GetShard, GetShardFails, Moves
  <2>3. /\ [proc[p] EXCEPT !.pc = c, !.shard = s, !.seen = x] \in Proc
        /\ [proc[p] EXCEPT !.pc = c, !.shard = s, !.seen = x].job = proc[p].job
    BY <1>a, ZenonT(60) DEF Proc
  <2> QED
    BY <1>3, <1>c, <2>1, <2>2, <2>3, ZenonT(60) DEF GetShard, GetShardFails, RowInv
<1>4. ASSUME NEW p \in Procs, PutShard(p) \/ PutShardFails(p)
      PROVE  RowInv'
  <2>1. proc[p].job \in rows
    BY <1>4 DEF RowInv, PutShard, PutShardFails
  <2>2. /\ [proc[p] EXCEPT !.pc = "done"] \in Proc
        /\ [proc[p] EXCEPT !.pc = "done"].job = proc[p].job
    BY <1>a DEF Proc
  <2>3. PICK r \in {Free, [proc[p] EXCEPT !.pc = "done"]} : Moves(p, r)
    BY <1>4 DEF PutShard, PutShardFails, Moves
  <2> QED
    BY <1>4, <1>c, <1>d, <2>1, <2>2, <2>3, ZenonT(60) DEF PutShard, PutShardFails, RowInv
<1>5. ASSUME NEW j \in Jobs, Claimed(j) \/ Requeued(j)
      PROVE  RowInv'
  BY <1>5 DEF Claimed, Requeued, RowInv
<1>6. ASSUME NEW j \in Jobs, RestoreJob(j)
      PROVE  RowInv'
  <2> DEFINE r == [Free EXCEPT !.pc = "get", !.job = j]
  <2>1. r \in Proc /\ r.job = j
    BY <1>e, ZenonT(60)
  <2>2. Moves("main", r) /\ j \in rows' /\ rows' = rows
    BY <1>6 DEF RestoreJob, Moves, RowInv
  <2> HIDE DEF r
  <2>3. /\ queued' \subseteq rows' /\ acked' \subseteq rows'
        /\ torestore' \subseteq rows' /\ listed' \subseteq rows'
    BY <1>6 DEF RestoreJob, RowInv
  <2> QED
    BY <1>b, <1>c, <2>1, <2>2, <2>3, SMTT(60)
<1>7. CASE Restart
  BY <1>7, <1>d DEF Restart, RowInv
<1>8. CASE RestoreJobEnds
  BY <1>8, <1>b, <1>c, <1>d DEF RestoreJobEnds, Moves, RowInv
<1>9. CASE Serving \/ ScanStart \/ ScanStartFails \/ ScanShard \/ ScanShardFails \/ ScanEnds
  BY <1>9 DEF Serving, ScanStart, ScanStartFails, ScanShard, ScanShardFails, ScanEnds, RowInv
<1>10. CASE UNCHANGED vars
  BY <1>10, SMTT(60) DEF vars, RowInv
<1> QED
  BY <1>1, <1>2, <1>3, <1>4, <1>5, <1>6, <1>7, <1>8, <1>9, <1>10 DEF Next

\* The history flags are truth values, and a scan collects ids.
FlagInv ==
  /\ up \in BOOLEAN /\ clean \in BOOLEAN /\ scan.faulty \in BOOLEAN
  /\ scan.ids \in SUBSET Jobs

\* Every step keeps them so.
LEMMA FlagInductive == IndexType /\ ScanInv /\ FlagInv /\ [Next]_vars => FlagInv'
<1> SUFFICES ASSUME IndexType, ScanInv, FlagInv, [Next]_vars
             PROVE  FlagInv'
  OBVIOUS
<1>a. \A s \in Shards : shard[s] \in SUBSET Jobs
  BY DEF IndexType
<1>b. ShardCount \in Nat \ {0} /\ Shards = 0..(ShardCount - 1)
  BY ShardAssumption DEF Shards
<1>1. CASE \/ Restart
           \/ \E p \in Procs : \/ PutShard(p) \/ PutShardFails(p)
                               \/ \E s \in Shards : GetShard(p, s) \/ GetShardFails(p, s)
  <2>1. scan' = scan \/ scan' = Steady(shard')
    BY <1>1, ZenonT(60) DEF Restart, PutShard, PutShardFails, Written, GetShard, GetShardFails
  <2>2. scan'.faulty = scan.faulty /\ scan'.ids = scan.ids
    BY <2>1 DEF Steady, ScanInv
  <2>3. up' \in BOOLEAN /\ clean' \in BOOLEAN
    BY <1>1, Zenon DEF Restart, PutShard, PutShardFails, Written, GetShard, GetShardFails, FlagInv
  <2> QED
    BY <2>2, <2>3, ZenonT(60) DEF FlagInv
<1>2. CASE ScanStart \/ ScanEnds
  <2>1. /\ scan'.ids \in SUBSET Jobs /\ scan'.faulty = FALSE
        /\ UNCHANGED <<up, clean>>
    BY <1>2, <1>a, <1>b DEF ScanStart, ScanEnds, NoScan
  <2> QED
    BY <2>1, Zenon DEF FlagInv
<1>3. CASE ScanShard
  <2>1. /\ scan'.ids \in SUBSET Jobs /\ scan'.faulty = scan.faulty
        /\ UNCHANGED <<up, clean>>
    BY <1>3, <1>a, <1>b DEF ScanShard, ScanInv, FlagInv
  <2> QED
    BY <2>1, Zenon DEF FlagInv
<1>4. CASE ScanStartFails
  <2>1. scan'.ids = {} /\ scan'.faulty = TRUE /\ UNCHANGED <<up, clean>>
    BY <1>4 DEF ScanStartFails
  <2>2. scan'.ids \in SUBSET Jobs
    BY <2>1
  <2> QED
    BY <2>1, <2>2, Zenon DEF FlagInv
<1>7. CASE ScanShardFails
  <2>1. scan'.ids = scan.ids /\ scan'.faulty = TRUE /\ UNCHANGED <<up, clean>>
    BY <1>7 DEF ScanShardFails, ScanInv
  <2> QED
    BY <2>1, Zenon DEF FlagInv
<1>5. CASE Serving
  BY <1>5, Zenon DEF Serving, FlagInv
<1>6. CASE UNCHANGED <<up, clean, scan>>
  BY <1>6, Zenon DEF FlagInv
<1> QED
  BY <1>1, <1>2, <1>3, <1>4, <1>5, <1>6, <1>7, ZenonT(60)
     DEF Next, vars, CreateTask, PublishFails, CreateEnds, Claimed, Requeued, RestoreJob,
         RestoreJobEnds

\* The types: in particular, no job without a row is ever acknowledged, queued or
\* listed for restoration.
THEOREM TypeCorrect == Spec => []TypeOK
<1>1. Init => IndexType /\ RowInv /\ ScanInv /\ FlagInv
  <2> SUFFICES ASSUME Init
               PROVE  RowInv /\ ScanInv /\ FlagInv
    BY IndexTypeInit
  <2>1. RowInv
    BY DEF Init, RowInv, Free
  <2>2. ScanInv
    BY ShardAssumption DEF Init, NoScan, ScanInv
  <2>3. scan.faulty = FALSE /\ scan.ids = {}
    BY DEF Init, NoScan
  <2>4. FlagInv
    BY <2>3, Zenon DEF Init, FlagInv
  <2> QED
    BY <2>1, <2>2, <2>4
<1>2. IndexType /\ RowInv /\ ScanInv /\ FlagInv => TypeOK
  <2> SUFFICES ASSUME IndexType, RowInv, ScanInv, FlagInv
               PROVE  TypeOK
    OBVIOUS
  <2>1. scan.steady \in SUBSET (Shards \X Jobs)
    BY DEF ScanInv, Entries
  <2> QED
    BY <2>1, Zenon DEF IndexType, Proc, RowInv, ScanInv, FlagInv, TypeOK
<1>3. /\ IndexType /\ RowInv /\ ScanInv /\ FlagInv
      /\ [Next]_vars
      => (IndexType /\ RowInv /\ ScanInv /\ FlagInv)'
  BY IndexTypeInductive, RowInductive, ScanInductive, FlagInductive
<1> QED
  BY <1>1, <1>2, <1>3, PTL DEF Spec
=============================================================================
