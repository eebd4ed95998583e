------------------------------ MODULE TaskIndex -----------------------------
(***************************************************************************)
(* The sharded task index in the DHT: addToIndex (cmd/control/              *)
(* control_http.go) reads a shard, appends the id and writes the shard      *)
(* back; createTaskHandler calls it in concurrent requests,                 *)
(* restoreJobsFromDemand for every queued job after a restart, and agents   *)
(* scan the shards one by one (ListFromIndex).                              *)
(*                                                                          *)
(* A DHT call takes effect at once or fails; MaxFaults calls fail.  The     *)
(* records of the DHT live in the memory of the nodes that serve it: they   *)
(* are gone after a restart if the control server was the only one.         *)
(***************************************************************************)
EXTENDS Naturals

CONSTANTS Jobs,        \* job ids
          Threads,     \* bound: create requests being served at a time
          ShardCount,  \* TaskIndexShardCount
          MaxCreates,  \* bound: create requests
          MaxFaults,   \* bound: DHT calls that fail
          MaxRestarts, \* bound: restarts of the control process
          NULL         \* no job

ASSUME ShardAssumption == ShardCount \in Nat \ {0}
ASSUME NullAssumption == NULL \notin Jobs
ASSUME ThreadAssumption == "main" \notin Threads

VARIABLES shard,       \* shard[s]: the ids of index shard s
          queued,      \* the queued rows of the database
          rows,        \* all rows of the database
          acked,       \* jobs a client was told exist
          proc,        \* proc[p]: a goroutine that runs addToIndex
          up,          \* restoreJobsFromDemand is over
          torestore,   \* queued jobs it has still to publish
          listed,      \* history: the queued jobs it found
          scan,        \* ListFromIndex of an agent
          clean,       \* history: no shard was wiped out, read in vain, or read
                       \* while another process was about to write it
          used         \* how much of each bound is used up

vars == <<shard, queued, rows, acked, proc, up, torestore, listed, scan, clean, used>>

Shards == 0..(ShardCount - 1)
Procs == Threads \cup {"main"}

Free == [pc |-> "free", job |-> NULL, shard |-> 0, seen |-> {}]

NoScan == [pos |-> 0, ids |-> {}, steady |-> {}, faulty |-> FALSE]

Entries(sh) == {e \in Shards \X Jobs : e[2] \in sh[e[1]]}

Init == /\ shard = [s \in Shards |-> {}]
        /\ queued = {} /\ rows = {} /\ acked = {}
        /\ proc = [p \in Procs |-> Free]
        /\ up = TRUE /\ torestore = {} /\ listed = {}
        /\ scan = NoScan
        /\ clean = TRUE
        /\ used = [create |-> 0, fault |-> 0, restart |-> 0]

Fault == used.fault < MaxFaults /\ used' = [used EXCEPT !.fault = @ + 1]

\* The scan goes on elsewhere: what has been in a shard since it started.
Steady(sh) == [scan EXCEPT !.steady = @ \cap Entries(sh)]

-----------------------------------------------------------------------------
(***************************************************************************)
(* createTaskHandler.  CreateJob leaves an existing row alone and reports   *)
(* success; a failed put of the records before the index ends the request.  *)
(***************************************************************************)
CreateTask(t, j) ==
  /\ up
  /\ proc[t].pc = "free"
  /\ used.create < MaxCreates
  /\ used' = [used EXCEPT !.create = @ + 1]
  /\ rows' = rows \cup {j}
  /\ queued' = IF j \in rows THEN queued ELSE queued \cup {j}
  /\ proc' = [proc EXCEPT ![t] = [Free EXCEPT !.pc = "get", !.job = j]]
  /\ UNCHANGED <<shard, acked, up, torestore, listed, scan, clean>>

PublishFails(t) ==
  /\ t \in Threads
  /\ proc[t].pc = "get"
  /\ Fault
  /\ proc' = [proc EXCEPT ![t] = Free]
  /\ UNCHANGED <<shard, queued, rows, acked, up, torestore, listed, scan, clean>>

CreateEnds(t) ==
  /\ t \in Threads
  /\ proc[t].pc = "done"
  /\ proc' = [proc EXCEPT ![t] = Free]
  /\ acked' = acked \cup {proc[t].job}
  /\ UNCHANGED <<shard, queued, rows, up, torestore, listed, scan, clean, used>>

-----------------------------------------------------------------------------
(***************************************************************************)
(* addToIndex.                                                              *)
(***************************************************************************)
Writing(s) == \E p \in Procs : proc[p].pc = "put" /\ proc[p].shard = s

\* An id that is there already is not added again.
GetShard(p, s) ==
  /\ proc[p].pc = "get"
  /\ proc' = [proc EXCEPT ![p] =
                [@ EXCEPT !.pc = IF proc[p].job \in shard[s] THEN "done" ELSE "put",
                          !.shard = s, !.seen = shard[s]]]
  /\ clean' = (clean /\ ~Writing(s))
  /\ UNCHANGED <<shard, queued, rows, acked, up, torestore, listed, scan, used>>

\* The error is ignored, because the shard may not exist yet.
GetShardFails(p, s) ==
  /\ proc[p].pc = "get"
  /\ Fault
  /\ proc' = [proc EXCEPT ![p] = [@ EXCEPT !.pc = "put", !.shard = s, !.seen = {}]]
  /\ clean' = FALSE
  /\ UNCHANGED <<shard, queued, rows, acked, up, torestore, listed, scan>>

ExtendedAlone(p) == {proc[p].job}

Extended(p) == proc[p].seen \cup {proc[p].job}

Written(p) ==
  /\ shard' = [shard EXCEPT ![proc[p].shard] = Extended(p)]
  /\ scan' = Steady(shard')

PutShard(p) ==
  /\ proc[p].pc = "put"
  /\ Written(p)
  /\ proc' = [proc EXCEPT ![p].pc = "done"]
  /\ UNCHANGED <<queued, rows, acked, up, torestore, listed, clean, used>>

\* Whether or not it took effect: a create request ends with an error,
\* restoreJobsFromDemand goes on.
PutShardFails(p) ==
  /\ proc[p].pc = "put"
  /\ Fault
  /\ Written(p) \/ UNCHANGED <<shard, scan>>
  /\ proc' = [proc EXCEPT ![p] = IF p = "main" THEN [@ EXCEPT !.pc = "done"] ELSE Free]
  /\ UNCHANGED <<queued, rows, acked, up, torestore, listed, clean>>

-----------------------------------------------------------------------------
(***************************************************************************)
(* The rows change, and the control process restarts.                       *)
(***************************************************************************)
Claimed(j) ==
  /\ up /\ j \in queued
  /\ queued' = queued \ {j}
  /\ UNCHANGED <<shard, rows, acked, proc, up, torestore, listed, scan, clean, used>>

RequeuedAny(j) ==
  /\ up /\ j \notin queued
  /\ queued' = queued \cup {j}
  /\ UNCHANGED <<shard, rows, acked, proc, up, torestore, listed, scan, clean, used>>

Requeued(j) ==
  /\ up /\ j \in rows \ queued
  /\ queued' = queued \cup {j}
  /\ UNCHANGED <<shard, rows, acked, proc, up, torestore, listed, scan, clean, used>>

Restart ==
  /\ used.restart < MaxRestarts
  /\ used' = [used EXCEPT !.restart = @ + 1]
  /\ proc' = [p \in Procs |-> Free]
  /\ up' = FALSE
  /\ torestore' = queued
  /\ listed' = queued
  /\ \/ UNCHANGED <<shard, clean>>
     \/ shard' = [s \in Shards |-> {}] /\ clean' = FALSE
  /\ scan' = Steady(shard')
  /\ UNCHANGED <<queued, rows, acked>>

RestoreJob(j) ==
  /\ ~up
  /\ proc["main"].pc = "free"
  /\ j \in torestore
  /\ torestore' = torestore \ {j}
  /\ proc' = [proc EXCEPT !["main"] = [Free EXCEPT !.pc = "get", !.job = j]]
  /\ UNCHANGED <<shard, queued, rows, acked, up, listed, scan, clean, used>>

RestoreJobEnds ==
  /\ proc["main"].pc = "done"
  /\ proc' = [proc EXCEPT !["main"] = Free]
  /\ UNCHANGED <<shard, queued, rows, acked, up, torestore, listed, scan, clean, used>>

Serving ==
  /\ ~up
  /\ proc["main"].pc = "free"
  /\ torestore = {}
  /\ up' = TRUE
  /\ UNCHANGED <<shard, queued, rows, acked, proc, torestore, listed, scan, clean, used>>

-----------------------------------------------------------------------------
(***************************************************************************)
(* ListFromIndex: one shard after the other, those that cannot be read      *)
(* skipped.                                                                 *)
(***************************************************************************)
ScanStart ==
  /\ scan.pos = 0
  /\ scan' = [pos |-> 1, ids |-> shard[0], steady |-> Entries(shard), faulty |-> FALSE]
  /\ UNCHANGED <<shard, queued, rows, acked, proc, up, torestore, listed, clean, used>>

ScanStartFails ==
  /\ scan.pos = 0
  /\ Fault
  /\ scan' = [pos |-> 1, ids |-> {}, steady |-> Entries(shard), faulty |-> TRUE]
  /\ UNCHANGED <<shard, queued, rows, acked, proc, up, torestore, listed, clean>>

ScanShardAgain ==
  /\ scan.pos \in 1..(ShardCount - 1)
  /\ scan' = [scan EXCEPT !.pos = @ + 1, !.ids = @ \cup shard[scan.pos - 1]]
  /\ UNCHANGED <<shard, queued, rows, acked, proc, up, torestore, listed, clean, used>>

ScanShard ==
  /\ scan.pos \in 1..(ShardCount - 1)
  /\ scan' = [scan EXCEPT !.pos = @ + 1, !.ids = @ \cup shard[scan.pos]]
  /\ UNCHANGED <<shard, queued, rows, acked, proc, up, torestore, listed, clean, used>>

ScanShardFails ==
  /\ scan.pos \in 1..(ShardCount - 1)
  /\ Fault
  /\ scan' = [scan EXCEPT !.pos = @ + 1, !.faulty = TRUE]
  /\ UNCHANGED <<shard, queued, rows, acked, proc, up, torestore, listed, clean>>

ScanEnds ==
  /\ scan.pos = ShardCount
  /\ scan' = NoScan
  /\ UNCHANGED <<shard, queued, rows, acked, proc, up, torestore, listed, clean, used>>

-----------------------------------------------------------------------------
Next ==
  \/ \E t \in Threads : \/ \E j \in Jobs : CreateTask(t, j)
                        \/ PublishFails(t) \/ CreateEnds(t)
  \/ \E p \in Procs : \/ \E s \in Shards : GetShard(p, s) \/ GetShardFails(p, s)
                      \/ PutShard(p) \/ PutShardFails(p)
  \/ \E j \in Jobs : Claimed(j) \/ Requeued(j) \/ RestoreJob(j)
  \/ Restart \/ RestoreJobEnds \/ Serving
  \/ ScanStart \/ ScanStartFails \/ ScanShard \/ ScanShardFails \/ ScanEnds

Spec == Init /\ [][Next]_vars

-----------------------------------------------------------------------------
(***************************************************************************)
(* Properties.                                                              *)
(***************************************************************************)
Indexed == UNION {shard[s] : s \in Shards}

\* The variables stay within the shapes the code gives them.
TypeOK ==
  /\ shard \in [Shards -> SUBSET Jobs]
  /\ rows \in SUBSET Jobs /\ queued \in SUBSET rows /\ acked \in SUBSET rows
  /\ proc \in [Procs -> [pc : {"free", "get", "put", "done"}, job : Jobs \cup {NULL},
                         shard : Shards, seen : SUBSET Jobs]]
  /\ up \in BOOLEAN /\ clean \in BOOLEAN
  /\ torestore \in SUBSET rows /\ listed \in SUBSET rows
  /\ scan.pos \in 0..ShardCount /\ scan.ids \in SUBSET Jobs
  /\ scan.steady \in SUBSET (Shards \X Jobs) /\ scan.faulty \in BOOLEAN

\* Failed puts, repeated creates and restarts by themselves lose nothing: an
\* acknowledged job leaves the index only if addToIndex took a failed read for an
\* empty shard, or two calls overlapped on one shard, or the records were lost.
LostOnlyByRace == clean => acked \subseteq Indexed

\* restoreJobsFromDemand finds the index in any state, even empty, with jobs in
\* other shards than the ones it draws; when it ends every queued job it listed
\* is in the index, unless a DHT call failed.
RestoreReindexes ==
  [][~up /\ up' /\ used.fault = 0 => listed \subseteq Indexed]_vars

\* A scan that could read every shard returns each id that stayed in its shard
\* from the beginning to the end, whatever was written meanwhile.
ScanSeesSteady ==
  scan.pos = ShardCount /\ ~scan.faulty
    => \A e \in scan.steady : e[2] \in scan.ids

\* A job the server has acknowledged can be found in the index.
AckedIsIndexed == used.fault = 0 /\ used.restart = 0 => acked \subseteq Indexed

\* addToIndex records a job in only one of the shards.
OneShardPerJob ==
  \A j \in Jobs : \A r, s \in Shards : j \in shard[r] /\ j \in shard[s] => r = s
=============================================================================
