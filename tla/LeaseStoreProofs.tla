-------------------------- MODULE LeaseStoreProofs --------------------------
(***************************************************************************)
(* The properties of LeaseStore, for every set of jobs and agents and every *)
(* bound.                                                                    *)
(***************************************************************************)
EXTENDS LeaseStore, TLAPS

-----------------------------------------------------------------------------
(***************************************************************************)
(* Typing.                                                                  *)
(***************************************************************************)

\* A requested duration is a legal expiry.
LEMMA TTLIsExpiry == TTLs \subseteq Expiries
BY TTLAssumption, BoundAssumption DEF Expiries, Past

\* A row below the token bound can take the next token.
LEMMA NextToken ==
  ASSUME NEW r \in Row, r.token < MaxToken
  PROVE  r.token + 1 \in Tokens
BY BoundAssumption DEF Row, Tokens

\* The clock keeps an expiry within its range.
LEMMA TickedRow ==
  ASSUME NEW r \in Row
  PROVE  [r EXCEPT !.expires = IF @ = NULL \/ @ = Past THEN @ ELSE @ - 1] \in Row
<1>1. (IF r.expires = NULL \/ r.expires = Past THEN r.expires ELSE r.expires - 1)
        \in Expiries
  BY NullAssumption, BoundAssumption DEF Row, Expiries, Past
<1> QED
  BY <1>1 DEF Row

\* Every statement leaves the table well typed.
LEMMA StoreTypeInductive ==
  StoreTypeOK /\ [StoreNext]_rows => StoreTypeOK'
<1> SUFFICES ASSUME StoreTypeOK, [StoreNext]_rows
             PROVE  StoreTypeOK'
  OBVIOUS
<1>0. ASSUME NEW j \in Jobs, NEW r \in Row, rows' = [rows EXCEPT ![j] = r]
      PROVE  StoreTypeOK'
  BY <1>0 DEF StoreTypeOK
<1>a. \A j \in Jobs : rows[j] \in Row
  BY DEF StoreTypeOK
<1>b. Statuses = {"absent", "queued", "assigned", "running", "succeeded", "failed"}
  BY DEF Statuses, Leased, Final
<1>1. CASE Tick
  BY <1>1, <1>a, TickedRow DEF Tick, StoreTypeOK
<1>2. ASSUME NEW j \in Jobs, CreateJob(j)
      PROVE  StoreTypeOK'
  <2>1. [rows[j] EXCEPT !.status = "queued"] \in Row
    BY <1>a, <1>b DEF Row
  <2> QED
    BY <2>1, <1>2, <1>0, ZenonT(60) DEF CreateJob
<1>3. ASSUME NEW j \in Jobs, AttachManifest(j)
      PROVE  StoreTypeOK'
  <2>1. [rows[j] EXCEPT !.manifest = TRUE] \in Row
    BY <1>a, ZenonT(60) DEF Row
  <2> QED
    BY <2>1, <1>3, <1>0, ZenonT(60) DEF AttachManifest
<1>4. ASSUME NEW j \in Jobs, SetStatusQueued(j)
      PROVE  StoreTypeOK'
  <2>1. rows[j].retry + 1 \in Nat
    BY <1>a DEF Row
  <2>2. ASSUME NEW n \in Nat
        PROVE  [rows[j] EXCEPT !.status = "queued", !.agent = NULL, !.expires = NULL,
                               !.retry = n] \in Row
    BY <1>a, <1>b, ZenonT(60) DEF Row, Expiries
  <2>3. [rows[j] EXCEPT !.status = "queued", !.agent = NULL, !.expires = NULL,
                        !.retry = @ + 1] \in Row
    BY <2>1, <2>2, ZenonT(60)
  <2> QED
    BY <2>3, <1>4, <1>0, ZenonT(60) DEF SetStatusQueued
<1>5. ASSUME NEW j \in Jobs, NEW a \in Agents, NEW ttl \in TTLs, TryClaim(j, a, ttl)
      PROVE  StoreTypeOK'
  <2>1. rows[j].token + 1 \in Tokens
    BY <1>5, <1>a, NextToken DEF TryClaim
  <2>2. ASSUME NEW n \in Tokens
        PROVE  [rows[j] EXCEPT !.agent = a, !.expires = ttl, !.token = n,
                               !.status = "assigned"] \in Row
    BY <1>a, <1>b, TTLIsExpiry, ZenonT(60) DEF Row
  <2>3. [rows[j] EXCEPT !.agent = a, !.expires = ttl, !.token = @ + 1,
                        !.status = "assigned"] \in Row
    BY <2>1, <2>2, ZenonT(60)
  <2> QED
    BY <2>3, <1>5, <1>0, ZenonT(60) DEF TryClaim
<1>6. ASSUME NEW j \in Jobs, NEW a \in Agents, NEW t \in Tokens, NEW ttl \in TTLs,
             Heartbeat(j, a, t, ttl)
      PROVE  StoreTypeOK'
  <2>1. [rows[j] EXCEPT !.expires = ttl, !.status = "running"] \in Row
    BY <1>a, <1>b, TTLIsExpiry, ZenonT(60) DEF Row
  <2> QED
    BY <2>1, <1>6, <1>0, ZenonT(60) DEF Heartbeat
<1>7. ASSUME NEW j \in Jobs, NEW a \in Agents, NEW t \in Tokens, NEW ok \in BOOLEAN,
             Finish(j, a, t, ok)
      PROVE  StoreTypeOK'
  <2>1. [agent |-> a, token |-> t] \in Report
    BY DEF Report
  <2>2. ASSUME NEW s \in Statuses
        PROVE  [rows[j] EXCEPT !.status = s, !.result = [agent |-> a, token |-> t],
                               !.agent = NULL, !.expires = NULL] \in Row
    BY <2>1, <1>a, ZenonT(60) DEF Row, Expiries
  <2>3. (IF ok THEN "succeeded" ELSE "failed") \in Statuses
    BY <1>b
  <2> QED
    BY <2>2, <2>3, <1>7, <1>0, ZenonT(60) DEF Finish
<1>8. CASE UNCHANGED rows
  BY <1>8 DEF StoreTypeOK
<1> QED
  BY <1>1, <1>2, <1>3, <1>4, <1>5, <1>6, <1>7, <1>8 DEF StoreNext

\* The table starts empty, hence well typed.
LEMMA StoreTypeInit == StoreInit => StoreTypeOK
BY BoundAssumption
   DEF StoreInit, StoreTypeOK, NoRow, Row, Statuses, Expiries, Tokens

\* Whatever calls arrive, in whatever order, every row keeps the columns of
\* schema.sql with values the code knows.
THEOREM StoreTypeCorrect == StoreSpec => []StoreTypeOK
BY StoreTypeInit, StoreTypeInductive, PTL DEF StoreSpec

-----------------------------------------------------------------------------
(***************************************************************************)
(* Safety.  LeaseShape is inductive by itself; the retry count needs it,    *)
(* because only a leased row may be requeued and only an unleased one       *)
(* claimed.                                                                 *)
(***************************************************************************)
StoreInv == StoreTypeOK /\ LeaseShape /\ RetryCountsLostLeases

\* What the two invariants say of one row.
Sound(r) == /\ r.status \in Leased <=> r.agent # NULL
            /\ r.status \in Leased <=> r.expires # NULL
            /\ r.retry <= r.token
            /\ r.status \in Leased => r.retry < r.token

\* A statement that replaces one row by a sound one keeps the invariants.
LEMMA OneRow ==
  ASSUME StoreInv, NEW j \in Jobs, NEW r, Sound(r), rows' = [rows EXCEPT ![j] = r]
  PROVE  LeaseShape' /\ RetryCountsLostLeases'
<1>1. \A k \in Jobs : rows'[k] = IF k = j THEN r ELSE rows[k]
  BY DEF StoreInv, StoreTypeOK
<1>2. \A k \in Jobs : Sound(rows'[k])
  BY <1>1 DEF StoreInv, LeaseShape, RetryCountsLostLeases, Sound
<1> QED
  BY <1>2 DEF LeaseShape, RetryCountsLostLeases, Sound

\* Every statement keeps the invariants.
LEMMA StoreInvInductive == StoreInv /\ [StoreNext]_rows => StoreInv'
<1> SUFFICES ASSUME StoreInv, [StoreNext]_rows
             PROVE  LeaseShape' /\ RetryCountsLostLeases'
  BY StoreTypeInductive DEF StoreInv
<1>a. ASSUME NEW j \in Jobs
      PROVE  rows[j] \in Row /\ Sound(rows[j])
  BY <1>a DEF StoreInv, StoreTypeOK, LeaseShape, RetryCountsLostLeases, Sound
<1>1. CASE Tick
  <2>1. ASSUME NEW j \in Jobs
        PROVE  /\ rows'[j].status = rows[j].status
               /\ rows'[j].agent = rows[j].agent
               /\ rows'[j].token = rows[j].token
               /\ rows'[j].retry = rows[j].retry
               /\ rows'[j].expires = IF rows[j].expires = NULL \/ rows[j].expires = Past
                                     THEN rows[j].expires ELSE rows[j].expires - 1
    BY <1>1, <1>a, <2>1 DEF Tick, Row
  <2>2. ASSUME NEW j \in Jobs
        PROVE  rows'[j].expires = NULL <=> rows[j].expires = NULL
    BY <2>1, <2>2, <1>a, NullAssumption, BoundAssumption DEF Row, Expiries, Past
  <2> QED
    BY <2>1, <2>2, <1>a DEF LeaseShape, RetryCountsLostLeases, Sound
<1>2. ASSUME NEW j \in Jobs, CreateJob(j)
      PROVE  LeaseShape' /\ RetryCountsLostLeases'
  <2>1. Sound([rows[j] EXCEPT !.status = "queued"])
    BY <1>2, <1>a DEF CreateJob, Exists, Sound, Row, Leased
  <2> QED
    BY <2>1, <1>2, OneRow, ZenonT(60) DEF CreateJob
<1>3. ASSUME NEW j \in Jobs, AttachManifest(j)
      PROVE  LeaseShape' /\ RetryCountsLostLeases'
  <2>1. Sound([rows[j] EXCEPT !.manifest = TRUE])
    BY <1>a DEF Sound, Row
  <2> QED
    BY <2>1, <1>3, OneRow, ZenonT(60) DEF AttachManifest
<1>4. ASSUME NEW j \in Jobs, SetStatusQueued(j)
      PROVE  LeaseShape' /\ RetryCountsLostLeases'
  <2>1. rows[j].retry + 1 <= rows[j].token
    BY <1>4, <1>a, BoundAssumption DEF SetStatusQueued, Expirable, Sound, Row, Tokens
  <2>2. Sound([rows[j] EXCEPT !.status = "queued", !.agent = NULL, !.expires = NULL,
                              !.retry = @ + 1])
    BY <2>1, <1>a DEF Sound, Row, Leased
  <2> QED
    BY <2>2, <1>4, OneRow, ZenonT(60) DEF SetStatusQueued
<1>5. ASSUME NEW j \in Jobs, NEW a \in Agents, NEW ttl \in TTLs, TryClaim(j, a, ttl)
      PROVE  LeaseShape' /\ RetryCountsLostLeases'
  <2>1. /\ rows[j].retry < rows[j].token + 1
        /\ rows[j].retry <= rows[j].token + 1
    BY <1>a, BoundAssumption DEF Sound, Row, Tokens
  <2>2. a # NULL /\ ttl # NULL
    BY NullAssumption, TTLAssumption
  <2>3. Sound([rows[j] EXCEPT !.agent = a, !.expires = ttl, !.token = @ + 1,
                              !.status = "assigned"])
    BY <2>1, <2>2, <1>a DEF Sound, Row, Leased
  <2> QED
    BY <2>3, <1>5, OneRow, ZenonT(60) DEF TryClaim
<1>6. ASSUME NEW j \in Jobs, NEW a \in Agents, NEW t \in Tokens, NEW ttl \in TTLs,
             Heartbeat(j, a, t, ttl)
      PROVE  LeaseShape' /\ RetryCountsLostLeases'
  <2>1. rows[j].agent # NULL /\ ttl # NULL
    BY <1>6, NullAssumption, TTLAssumption DEF Heartbeat, Renewable
  <2>2. Sound([rows[j] EXCEPT !.expires = ttl, !.status = "running"])
    BY <2>1, <1>a DEF Sound, Row, Leased
  <2> QED
    BY <2>2, <1>6, OneRow, ZenonT(60) DEF Heartbeat
<1>7. ASSUME NEW j \in Jobs, NEW a \in Agents, NEW t \in Tokens, NEW ok \in BOOLEAN,
             Finish(j, a, t, ok)
      PROVE  LeaseShape' /\ RetryCountsLostLeases'
  <2>1. ASSUME NEW s \in Final
        PROVE  Sound([rows[j] EXCEPT !.status = s,
                                     !.result = [agent |-> a, token |-> t],
                                     !.agent = NULL, !.expires = NULL])
    BY <1>a DEF Sound, Row, Leased, Final
  <2>2. (IF ok THEN "succeeded" ELSE "failed") \in Final
    BY DEF Final
  <2> QED
    BY <2>1, <2>2, <1>7, OneRow, ZenonT(60) DEF Finish
<1>8. CASE UNCHANGED rows
  BY <1>8, <1>a DEF LeaseShape, RetryCountsLostLeases, Sound
<1> QED
  BY <1>1, <1>2, <1>3, <1>4, <1>5, <1>6, <1>7, <1>8 DEF StoreNext

\* An empty table satisfies the invariants.
LEMMA StoreInvInit == StoreInit => StoreInv
BY StoreTypeInit
   DEF StoreInv, StoreInit, NoRow, LeaseShape, RetryCountsLostLeases, Leased

\* The table satisfies its invariant at every moment.
THEOREM StoreInvCorrect == StoreSpec => []StoreInv
BY StoreInvInit, StoreInvInductive, PTL DEF StoreSpec

\* A row has a holder and an expiry exactly while it is assigned or running,
\* after any sequence of the statements of PGStore.
THEOREM LeaseShapeHolds == StoreSpec => []LeaseShape
BY StoreInvCorrect, PTL DEF StoreInv

\* The requeue loop charges each lost lease to a job at most once.
THEOREM RetryCountHolds == StoreSpec => []RetryCountsLostLeases
BY StoreInvCorrect, PTL DEF StoreInv

-----------------------------------------------------------------------------
(***************************************************************************)
(* What a step may do to one row.  The refinement and the action property   *)
(* both follow from this case split.                                        *)
(***************************************************************************)
RowKept(r, s) == /\ s.status = r.status \/ (r.status \in Leased /\ s.status \in Leased)
                                      \/ (r.status = "absent" /\ s.status = "queued")
              /\ s.agent = r.agent
              /\ s.token = r.token

RowGranted(r, s) == /\ r.status = "queued" /\ s.status = "assigned"
                 /\ r.agent = NULL /\ s.agent \in Agents
                 /\ s.token = r.token + 1

RowLapsed(r, s) == /\ r.status \in Leased /\ LeaseExpired(r) /\ s.status = "queued"
                /\ r.agent # NULL /\ s.agent = NULL
                /\ s.token = r.token

RowFinished(r, s) == /\ s.status \in Final
                  /\ s.agent = NULL
                  /\ s.token = r.token

\* A statement either keeps every row's ownership, or changes it in one row by
\* a grant, a lapse of an expired lease, or a completion.
LEMMA StoreStep ==
  ASSUME StoreInv, StoreNext
  PROVE  \/ \A j \in Jobs : RowKept(rows[j], rows'[j])
         \/ \E j \in Jobs :
              /\ \/ RowGranted(rows[j], rows'[j])
                 \/ RowLapsed(rows[j], rows'[j])
                 \/ RowFinished(rows[j], rows'[j])
              /\ \A k \in Jobs \ {j} : rows'[k] = rows[k]
<1> DEFINE Goal == \/ \A j \in Jobs : RowKept(rows[j], rows'[j])
                   \/ \E j \in Jobs :
                        /\ \/ RowGranted(rows[j], rows'[j])
                           \/ RowLapsed(rows[j], rows'[j])
                           \/ RowFinished(rows[j], rows'[j])
                        /\ \A k \in Jobs \ {j} : rows'[k] = rows[k]
<1>a. ASSUME NEW j \in Jobs
      PROVE  rows[j] \in Row /\ Sound(rows[j])
  BY <1>a DEF StoreInv, StoreTypeOK, LeaseShape, RetryCountsLostLeases, Sound
<1>b. ASSUME NEW j \in Jobs, NEW r, rows' = [rows EXCEPT ![j] = r]
      PROVE  rows'[j] = r /\ \A k \in Jobs \ {j} : rows'[k] = rows[k]
  BY <1>b DEF StoreInv, StoreTypeOK
<1>c. ASSUME NEW j \in Jobs, \A k \in Jobs \ {j} : rows'[k] = rows[k],
             RowKept(rows[j], rows'[j])
      PROVE  Goal
  BY <1>c DEF RowKept
<1> HIDE DEF Goal
<1>1. ASSUME Tick
      PROVE  Goal
  <2>1. \A j \in Jobs : RowKept(rows[j], rows'[j])
    BY <1>1, <1>a DEF Tick, Row, RowKept
  <2> QED
    BY <2>1 DEF Goal
<1>2. ASSUME NEW j \in Jobs, CreateJob(j)
      PROVE  Goal
  <2>1. rows'[j] = [rows[j] EXCEPT !.status = "queued"]
    BY <1>2, <1>b, ZenonT(60) DEF CreateJob
  <2>2. RowKept(rows[j], rows'[j])
    BY <2>1, <1>2, <1>a DEF CreateJob, Exists, RowKept, Row
  <2> QED
    BY <2>2, <1>2, <1>b, <1>c DEF CreateJob
<1>3. ASSUME NEW j \in Jobs, AttachManifest(j)
      PROVE  Goal
  <2>1. rows'[j] = [rows[j] EXCEPT !.manifest = TRUE]
    BY <1>3, <1>b, ZenonT(60) DEF AttachManifest
  <2>2. RowKept(rows[j], rows'[j])
    BY <2>1, <1>a DEF RowKept, Row
  <2> QED
    BY <2>2, <1>3, <1>b, <1>c, ZenonT(60) DEF AttachManifest
<1>4. ASSUME NEW j \in Jobs, SetStatusQueued(j)
      PROVE  Goal
  <2>1. rows'[j] = [rows[j] EXCEPT !.status = "queued", !.agent = NULL,
                                   !.expires = NULL, !.retry = @ + 1]
    BY <1>4, <1>b, ZenonT(60) DEF SetStatusQueued
  <2>2. RowLapsed(rows[j], rows'[j])
    BY <2>1, <1>4, <1>a DEF SetStatusQueued, Expirable, RowLapsed, Sound, Row
  <2> QED
    BY <2>2, <1>4, <1>b, ZenonT(60) DEF SetStatusQueued, Goal
<1>5. ASSUME NEW j \in Jobs, NEW a \in Agents, NEW ttl \in TTLs, TryClaim(j, a, ttl)
      PROVE  Goal
  <2>1. rows'[j] = [rows[j] EXCEPT !.agent = a, !.expires = ttl, !.token = @ + 1,
                                   !.status = "assigned"]
    BY <1>5, <1>b, ZenonT(60) DEF TryClaim
  <2>2. RowGranted(rows[j], rows'[j])
    BY <2>1, <1>5, <1>a DEF TryClaim, Claimable, RowGranted, Sound, Row, Leased
  <2> QED
    BY <2>2, <1>5, <1>b, ZenonT(60) DEF TryClaim, Goal
<1>6. ASSUME NEW j \in Jobs, NEW a \in Agents, NEW t \in Tokens, NEW ttl \in TTLs,
             Heartbeat(j, a, t, ttl)
      PROVE  Goal
  <2>1. rows'[j] = [rows[j] EXCEPT !.expires = ttl, !.status = "running"]
    BY <1>6, <1>b, ZenonT(60) DEF Heartbeat
  <2>2. rows[j].status \in Leased
    BY <1>6, <1>a, NullAssumption DEF Heartbeat, Renewable, Sound
  <2>3. RowKept(rows[j], rows'[j])
    BY <2>1, <2>2, <1>a DEF RowKept, Row, Leased
  <2> QED
    BY <2>3, <1>6, <1>b, <1>c, ZenonT(60) DEF Heartbeat
<1>7. ASSUME NEW j \in Jobs, NEW a \in Agents, NEW t \in Tokens, NEW ok \in BOOLEAN,
             Finish(j, a, t, ok)
      PROVE  Goal
  <2>1. PICK s \in Final :
          rows' = [rows EXCEPT ![j] = [rows[j] EXCEPT !.status = s,
                                         !.result = [agent |-> a, token |-> t],
                                         !.agent = NULL, !.expires = NULL]]
    BY <1>7, ZenonT(60) DEF Finish, Final
  <2>2. rows'[j] = [rows[j] EXCEPT !.status = s,
                                   !.result = [agent |-> a, token |-> t],
                                   !.agent = NULL, !.expires = NULL]
    BY <2>1, <1>b, ZenonT(60)
  <2>3. RowFinished(rows[j], rows'[j])
    BY <2>2, <1>a DEF RowFinished, Row
  <2> QED
    BY <2>1, <2>3, <1>b, ZenonT(60) DEF Goal
<1>8. Goal
  BY <1>1, <1>2, <1>3, <1>4, <1>5, <1>6, <1>7 DEF StoreNext
<1> QED
  BY <1>8 DEF Goal

\* Requeueing never takes a valid lease from its holder: the UPDATE of
\* SetStatusQueued tests the expiry again.
THEOREM LapseHolds == StoreSpec => LapseOnlyExpired
<1>1. StoreInv /\ [StoreNext]_rows =>
        [\A j \in Jobs :
           (rows[j].status \in Leased /\ rows'[j].status = "queued")
             => LeaseExpired(rows[j])]_rows
  BY StoreStep DEF RowKept, RowGranted, RowLapsed, RowFinished, Leased, Final
<1> QED
  BY <1>1, StoreInvCorrect, PTL DEF StoreSpec, LapseOnlyExpired

\* The statements of PGStore implement the ownership promise of JobLease under
\* the mapping lease_agent, lease_token, final status.
THEOREM Refinement == StoreSpec => ImplementsJobLease
<1>1. StoreInit => Lease!Init
  BY DEF StoreInit, NoRow, Lease!Init, Final
<1>2. StoreInv /\ [StoreNext]_rows => [Lease!Next]_(Lease!vars)
  <2> SUFFICES ASSUME StoreInv, StoreNext
               PROVE  [Lease!Next]_(Lease!vars)
    BY DEF Lease!vars
  <2> DEFINE h == [j \in Jobs |-> rows[j].agent]
             e == [j \in Jobs |-> rows[j].token]
             d == {j \in Jobs : rows[j].status \in Final}
  <2>1. CASE \A j \in Jobs : RowKept(rows[j], rows'[j])
    <3>1. \A j \in Jobs : /\ rows'[j].agent = rows[j].agent
                          /\ rows'[j].token = rows[j].token
                          /\ rows'[j].status \in Final <=> rows[j].status \in Final
      BY <2>1 DEF RowKept, Leased, Final
    <3>2. UNCHANGED <<h, e, d>>
      BY <3>1
    <3> QED
      BY <3>2 DEF Lease!vars
  <2>2. ASSUME NEW j \in Jobs, RowGranted(rows[j], rows'[j]),
               \A k \in Jobs \ {j} : rows'[k] = rows[k]
        PROVE  Lease!Next
    <3>0. PICK a \in Agents : rows'[j].agent = a
      BY <2>2 DEF RowGranted
    <3>1. h' = [h EXCEPT ![j] = a]
      BY <2>2, <3>0, ZenonT(60)
    <3>2. e' = [e EXCEPT ![j] = @ + 1]
      BY <2>2, ZenonT(60) DEF RowGranted
    <3>3. d' = d /\ j \notin d /\ h[j] = NULL
      BY <2>2 DEF RowGranted, Final
    <3>4. Lease!Acquire(j, a)
      BY <3>1, <3>2, <3>3 DEF Lease!Acquire
    <3> QED
      BY <3>4 DEF Lease!Next
  <2>3. ASSUME NEW j \in Jobs, RowLapsed(rows[j], rows'[j]),
               \A k \in Jobs \ {j} : rows'[k] = rows[k]
        PROVE  Lease!Next
    <3>1. h' = [h EXCEPT ![j] = NULL] /\ h[j] # NULL
      BY <2>3, ZenonT(60) DEF RowLapsed
    <3>2. e' = e
      BY <2>3 DEF RowLapsed
    <3>3. d' = d
      BY <2>3 DEF RowLapsed, Final, Leased
    <3>4. Lease!Lapse(j)
      BY <3>1, <3>2, <3>3 DEF Lease!Lapse
    <3> QED
      BY <3>4 DEF Lease!Next
  <2>4. ASSUME NEW j \in Jobs, RowFinished(rows[j], rows'[j]),
               \A k \in Jobs \ {j} : rows'[k] = rows[k]
        PROVE  Lease!Next \/ UNCHANGED <<h, e, d>>
    <3>1. h' = [h EXCEPT ![j] = NULL]
      BY <2>4, ZenonT(60) DEF RowFinished
    <3>2. e' = e
      BY <2>4 DEF RowFinished
    <3>3. d' = d \cup {j}
      BY <2>4 DEF RowFinished
    <3>4. CASE j \in d
      <4>1. h[j] = NULL
        BY <3>4 DEF StoreInv, LeaseShape, Leased, Final
      <4>2. h' = h
        BY <3>1, <4>1, ZenonT(60)
      <4>3. d' = d
        BY <3>3, <3>4
      <4> QED
        BY <4>2, <4>3, <3>2
    <3>5. CASE j \notin d
      <4>1. Lease!Complete(j)
        BY <3>1, <3>2, <3>3, <3>5 DEF Lease!Complete
      <4> QED
        BY <4>1 DEF Lease!Next
    <3> QED
      BY <3>4, <3>5
  <2>5. UNCHANGED <<h, e, d>> => UNCHANGED Lease!vars
    BY DEF Lease!vars
  <2> HIDE DEF h, e, d
  <2> QED
    BY <2>1, <2>2, <2>3, <2>4, <2>5, StoreStep
<1> QED
  BY <1>1, <1>2, StoreInvCorrect, PTL DEF StoreSpec, ImplementsJobLease, Lease!Spec
=============================================================================
