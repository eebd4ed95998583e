------------------------ MODULE AnnounceManagerProofs -----------------------
(***************************************************************************)
(* AnnounceManager for any ids, callers and timing: its types, the rate      *)
(* limit, and that advertisements are renewed before they expire.           *)
(***************************************************************************)
EXTENDS AnnounceManager, FiniteSetTheorems, TLAPS

(***************************************************************************)
(* Run is alone in announcing, and the id it announces has left the batch:  *)
(* what was due when the batch was collected is due until it is announced.  *)
(***************************************************************************)
Announcing == {"read", "put", "record"}

RunInv ==
  /\ age \in [Ids -> 0..Interval]
  /\ pc \in {"select", "loop"} \cup Announcing
  /\ dirty \subseteq Ids /\ batch \subseteq Ids
  /\ cur \in Ids \cup {NULL}
  /\ pc \in Announcing <=> cur # NULL
  /\ cur \notin batch
  /\ \A id \in batch : Due(id)

-----------------------------------------------------------------------------
\* A new manager has nothing to announce.
LEMMA RunInit == Init => RunInv
BY TimeAssumption, NullAssumption DEF Init, RunInv, Announcing, Due

\* Every step keeps the invariant; only Record makes an id not due, and the id
\* it records is not in the batch.
LEMMA RunInductive == RunInv /\ [Next]_vars => RunInv'
<1> SUFFICES ASSUME RunInv, [Next]_vars
             PROVE  RunInv'
  OBVIOUS
<1> USE TimeAssumption, NullAssumption DEF RunInv, Announcing, Due
<1>1. CASE Select
  BY <1>1 DEF Select
<1>2. CASE ProcessEnds \/ Stamp \/ PutAd \/ PutAdFails
  BY <1>2 DEF ProcessEnds, Stamp, PutAd, PutAdFails
<1>3. CASE Record
  BY <1>3 DEF Record
<1>4. ASSUME NEW id \in Ids, AnnounceOnce(id)
      PROVE  RunInv'
  BY <1>4 DEF AnnounceOnce
<1>5. ASSUME NEW c \in Callers, NEW id \in Ids, Mark(c, id)
      PROVE  RunInv'
  BY <1>5 DEF Mark, run
<1>6. ASSUME NEW c \in Callers, Signal(c)
      PROVE  RunInv'
  BY <1>6 DEF Signal, run
<1>7. CASE Tick
  BY <1>7 DEF Tick
<1>8. CASE UNCHANGED vars
  BY <1>8 DEF vars, run
<1> QED
  BY <1>1, <1>2, <1>3, <1>4, <1>5, <1>6, <1>7, <1>8 DEF Next, Run

\* Run satisfies its invariant at every moment.
THEOREM RunInvCorrect == Spec => []RunInv
BY RunInit, RunInductive, PTL DEF Spec

\* No id is announced twice within the interval, although the interval is tested
\* for the whole batch before the first announcement and handlers go on
\* enqueueing the id.
THEOREM RateLimitHolds == Spec => RateLimit
<1>1. RunInv /\ [Next]_vars
        => [\A id \in Ids : cur # id /\ cur' = id => age[id] >= Interval]_vars
  <2> SUFFICES ASSUME RunInv, Next, NEW id \in Ids, cur # id, cur' = id
               PROVE  age[id] >= Interval
    OBVIOUS
  <2>1. PICK i \in Ids : AnnounceOnce(i)
    BY NullAssumption
       DEF Next, Run, Select, ProcessEnds, Stamp, PutAd, PutAdFails, Record, Mark,
           Signal, Tick, run
  <2> QED
    BY <2>1 DEF AnnounceOnce, RunInv, Due
<1> QED
  BY <1>1, RunInvCorrect, PTL DEF Spec, RateLimit

-----------------------------------------------------------------------------
(***************************************************************************)
(* Types.                                                                   *)
(***************************************************************************)
\* Every step keeps the types.
LEMMA TypeInductive == TypeOK /\ [Next]_vars => TypeOK'
<1> SUFFICES ASSUME TypeOK, [Next]_vars
             PROVE  TypeOK'
  OBVIOUS
<1> USE TimeAssumption, NullAssumption DEF TypeOK
<1>1. CASE Select
  BY <1>1 DEF Select
<1>2. CASE ProcessEnds \/ Stamp \/ PutAdFails
  BY <1>2 DEF ProcessEnds, Stamp, PutAdFails
<1>3. CASE PutAd
  BY <1>3 DEF PutAd
<1>4. CASE Record
  BY <1>4 DEF Record
<1>5. ASSUME NEW id \in Ids, AnnounceOnce(id)
      PROVE  TypeOK'
  BY <1>5 DEF AnnounceOnce
<1>6. ASSUME NEW c \in Callers, NEW id \in Ids, Mark(c, id)
      PROVE  TypeOK'
  BY <1>6 DEF Mark, run
<1>7. ASSUME NEW c \in Callers, Signal(c)
      PROVE  TypeOK'
  BY <1>7 DEF Signal, run
<1>8. CASE Tick
  <2>1. age' \in [Ids -> 0..Interval]
    BY <1>8 DEF Tick
  <2>2. ad' \in [Ids -> (-1..TTL) \cup {NULL}]
    BY <1>8 DEF Tick, Later
  <2> QED
    BY <1>8, <2>1, <2>2 DEF Tick, Later
<1>9. CASE UNCHANGED vars
  BY <1>9 DEF vars, run
<1> QED
  BY <1>1, <1>2, <1>3, <1>4, <1>5, <1>6, <1>7, <1>8, <1>9 DEF Next, Run

\* The manager's state keeps its shape: the two channels hold at most one element,
\* the countdowns stay in their ranges, and Run has an id exactly while it is in
\* announceOnce.
THEOREM TypeCorrect == Spec => []TypeOK
<1>1. Init => TypeOK
  BY TimeAssumption, NullAssumption DEF Init, TypeOK
<1> QED
  BY <1>1, TypeInductive, PTL DEF Spec

-----------------------------------------------------------------------------
(***************************************************************************)
(* Renewal.  Load(S) is the time Run may take to announce S, Work what is   *)
(* left of the round under way, Wait what an id may have to wait from the   *)
(* moment it becomes due.  The invariant says that an advertisement lasts   *)
(* until Run has written it again, by where its id is: being announced; in  *)
(* the batch; just written; due but in no batch, so that it has to wait for *)
(* the end of the round or the tick, and then for a round over all ids; or  *)
(* not yet due.                                                             *)
(***************************************************************************)
Load(S) == Cardinality(S) * Delay

Work == (IF cur # NULL THEN Delay - spent ELSE 0) + Load(batch)

Longer(m, n) == IF m > n THEN m ELSE n

NextTick == IF tick = 1 THEN 0 ELSE toTick

Wait == Longer(Interval - 1, Load(Ids) - Delay - 1) + Load(Ids)

Lasts(id) ==
  /\ id = cur /\ pc # "record" => ad[id] >= Delay - spent
  /\ id \in batch => ad[id] >= Work
  /\ id = cur /\ pc = "record" => ad[id] >= (Delay - spent) + Interval + Wait
  /\ id # cur /\ id \notin batch /\ age[id] = Interval
       => ad[id] >= Longer(Work, NextTick) + Load(Ids)
  /\ id # cur /\ id \notin batch /\ age[id] < Interval
       => ad[id] >= (Interval - age[id]) + Wait

RenewalInv ==
  /\ cur # NULL => cur \in dirty
  /\ batch \subseteq dirty
  /\ pc = "select" => batch = {}
  /\ spent <= Delay
  /\ pc = "put" => exp >= TTL - spent
  /\ TTL >= RenewalBound /\ failures = 0 =>
       \A id \in Ids : ad[id] # NULL => id \in dirty /\ Lasts(id)

-----------------------------------------------------------------------------
\* Announcing fewer ids takes no longer.
LEMMA LoadMonotone ==
  ASSUME NEW T \in SUBSET Ids, NEW S \in SUBSET T
  PROVE  Load(S) \in Nat /\ Load(S) <= Load(T)
<1>1. /\ Cardinality(S) \in Nat
      /\ Cardinality(T) \in Nat
      /\ Cardinality(S) <= Cardinality(T)
  BY IdAssumption, FS_Subset, FS_CardinalityType
<1>2. \A m, n, d \in Nat : m <= n => m * d <= n * d /\ m * d \in Nat
  OBVIOUS
<1> QED
  BY <1>1, <1>2, TimeAssumption DEF Load

\* Announcing nothing takes no time, announcing any ids at most the time for all.
LEMMA LoadBounds ==
  ASSUME NEW S \in SUBSET Ids
  PROVE  /\ Load(S) \in Nat
         /\ Load(S) <= Load(Ids)
         /\ S = {} => Load(S) = 0
<1>1. S = {} => Cardinality(S) = 0
  BY FS_EmptySet
<1> QED
  BY <1>1, LoadMonotone, TimeAssumption DEF Load

\* One id takes Delay.
LEMMA LoadOfOne ==
  ASSUME NEW S \in SUBSET Ids, NEW id \in S
  PROVE  Load(S) = Load(S \ {id}) + Delay
<1>1. /\ Cardinality(S) \in Nat
      /\ Cardinality(S \ {id}) \in Nat
      /\ Cardinality(S \ {id}) = Cardinality(S) - 1
  BY IdAssumption, FS_Subset, FS_CardinalityType, FS_RemoveElement
<1>2. \A m, n, d \in Nat : n = m - 1 => m * d = n * d + d
  OBVIOUS
<1> QED
  BY <1>1, <1>2, TimeAssumption DEF Load

\* RenewalBound covers the announcement, the interval and the wait.
LEMMA BoundCovers ==
  ASSUME TTL >= RenewalBound
  PROVE  TTL >= Delay + Interval + Wait
<1> DEFINE n == Cardinality(Ids)
<1>1. n \in Nat
  BY IdAssumption, FS_CardinalityType
<1>2. (n + 1) * Delay = n * Delay + Delay /\ 2 * n * Delay = 2 * (n * Delay) /\ n * Delay \in Nat
  BY <1>1, TimeAssumption
<1>3. /\ TTL >= 2 * Interval - 1 + (n + 1) * Delay
      /\ TTL >= Interval - 1 + 2 * n * Delay
  BY <1>1, <1>2, TimeAssumption DEF RenewalBound
<1> QED
  BY <1>1, <1>2, <1>3, TimeAssumption DEF Wait, Longer, Load

\* The numbers of the invariant, and what is left of a round that leaves an id out.
LEMMA WorkBounds ==
  ASSUME TypeOK, RunInv, spent <= Delay
  PROVE  /\ Work \in Nat /\ NextTick \in Nat /\ NextTick <= Interval
         /\ Load(Ids) \in Nat /\ Load(batch) \in Nat /\ Load(batch) <= Work
         /\ Wait \in Nat /\ Wait >= Interval - 1 + Load(Ids)
         /\ Wait >= Load(Ids) - Delay - 1 + Load(Ids)
         /\ \A id \in Ids : id # cur /\ id \notin batch => Work <= Load(Ids) - Delay
<1> USE TimeAssumption DEF TypeOK
<1>1. /\ Load(Ids) \in Nat /\ Load(batch) \in Nat
      /\ Work \in Nat /\ Load(batch) <= Work
  BY LoadBounds DEF Work
<1>2. Wait \in Nat /\ Wait >= Interval - 1 + Load(Ids) /\ Wait >= Load(Ids) - Delay - 1 + Load(Ids)
  BY <1>1 DEF Wait, Longer
<1>3. ASSUME NEW id \in Ids, id # cur, id \notin batch
      PROVE  Work <= Load(Ids) - Delay
  <2> DEFINE rest == Ids \ {id}
  <2>1. /\ Load(rest) = Load(Ids) - Delay
        /\ Load(rest) \in Nat
    BY <1>1, LoadOfOne, LoadBounds
  <2>2. CASE cur = NULL
    <3>1. Load(batch) <= Load(rest)
      BY <1>3, LoadMonotone
    <3> QED
      BY <2>1, <2>2, <3>1, <1>1 DEF Work
  <2>3. CASE cur # NULL
    <3> DEFINE busy == batch \cup {cur}
    <3>1. busy \subseteq rest /\ busy \subseteq Ids /\ cur \in busy /\ busy \ {cur} = batch
      BY <1>3, <2>3 DEF RunInv
    <3>2. Load(busy) = Load(batch) + Delay
      BY <3>1, LoadOfOne
    <3>3. Load(busy) <= Load(rest)
      BY <3>1, LoadMonotone
    <3> QED
      BY <2>1, <2>3, <3>2, <3>3, <1>1 DEF Work
  <2> QED
    BY <2>2, <2>3
<1> QED
  BY <1>1, <1>2, <1>3 DEF NextTick

\* Every step keeps the invariant.  A write sets the advertisement to what is left
\* of TTL, time takes one from it and from what it has to last, and nothing else
\* makes that longer.
LEMMA RenewalInductive ==
  TypeOK /\ RunInv /\ RenewalInv /\ [Next]_vars => RenewalInv'
<1> SUFFICES ASSUME TypeOK, RunInv, RenewalInv, [Next]_vars
             PROVE  RenewalInv'
  OBVIOUS
<1>a. TypeOK' /\ RunInv'
  BY TypeInductive, RunInductive
<1> USE TimeAssumption, NullAssumption DEF TypeOK, Due
<1>b. /\ Work \in Nat /\ NextTick \in Nat /\ NextTick <= Interval
      /\ Load(Ids) \in Nat /\ Load(batch) \in Nat /\ Load(batch) <= Work
      /\ Wait \in Nat /\ Wait >= Interval - 1 + Load(Ids)
      /\ Wait >= Load(Ids) - Delay - 1 + Load(Ids)
      /\ \A id \in Ids : id # cur /\ id \notin batch => Work <= Load(Ids) - Delay
  BY WorkBounds DEF RenewalInv
<1>1. CASE Select
  <2>1. /\ cur = NULL /\ cur' = NULL /\ batch' \subseteq dirty /\ pc' = "loop"
        /\ UNCHANGED <<dirty, age, cur, spent, exp, ad, failures>>
        /\ batch' = {id \in dirty : age[id] >= Interval}
    BY <1>1 DEF Select
  <2>2. Work' = Load(batch') /\ Load(batch') \in Nat /\ Load(batch') <= Load(Ids)
    BY <1>a, <2>1, LoadBounds DEF Work
  <2>3. ASSUME NEW id \in Ids, ad[id] # NULL, id \in dirty, Lasts(id), id \notin batch
        PROVE  Lasts(id)'
    BY <2>1, <2>2, <2>3, <1>b DEF Lasts, Longer
  <2> QED
    BY <1>1, <2>1, <2>3 DEF Select, RenewalInv
<1>2. CASE ProcessEnds
  BY <1>2 DEF ProcessEnds, RenewalInv, Lasts, Work, NextTick, RunInv
<1>3. CASE Stamp
  BY <1>3 DEF Stamp, RenewalInv, Lasts, Work, NextTick
<1>4. CASE PutAd
  <2>1. /\ pc = "put" /\ pc' = "record" /\ cur \in Ids /\ exp \in Int
        /\ UNCHANGED <<dirty, age, tick, toTick, batch, cur, spent, exp, failures>>
        /\ \A id \in Ids : id # cur => ad'[id] = ad[id]
        /\ ad'[cur] = exp
    BY <1>4 DEF PutAd
  <2>2. Work' = Work /\ NextTick' = NextTick
    BY <2>1 DEF Work, NextTick
  <2>3. ASSUME NEW id \in Ids, id # cur, Lasts(id)
        PROVE  Lasts(id)'
    BY <2>1, <2>2, <2>3 DEF Lasts
  <2>4. TTL >= RenewalBound => Lasts(cur)'
    BY <2>1, <1>b, BoundCovers DEF Lasts, RenewalInv, RunInv
  <2> QED
    BY <2>1, <2>3, <2>4 DEF RenewalInv
<1>5. CASE PutAdFails
  BY <1>5 DEF PutAdFails, RenewalInv, Lasts, Work, NextTick
<1>6. CASE Record
  <2>1. /\ pc = "record" /\ pc' = "loop" /\ cur \in Ids /\ cur' = NULL /\ spent' = 0
        /\ UNCHANGED <<dirty, tick, toTick, batch, ad, failures>>
        /\ \A id \in Ids : id # cur => age'[id] = age[id]
        /\ age'[cur] = 0
    BY <1>6 DEF Record
  <2>2. Work' \in Nat /\ Work' <= Work /\ NextTick' = NextTick
    BY <2>1, <1>b DEF Work, NextTick, RenewalInv
  <2>3. ASSUME NEW id \in Ids, ad[id] \in Int, Lasts(id)
        PROVE  Lasts(id)'
    <3>1. CASE id = cur
      BY <2>1, <2>3, <3>1, <1>b DEF Lasts, RenewalInv, RunInv
    <3>2. CASE id # cur
      BY <2>1, <2>2, <2>3, <3>2, <1>b DEF Lasts, Longer
    <3> QED
      BY <3>1, <3>2
  <2> QED
    BY <2>1, <2>3 DEF RenewalInv
<1>7. ASSUME NEW i \in Ids, AnnounceOnce(i)
      PROVE  RenewalInv'
  <2>1. /\ pc = "loop" /\ pc' = "read" /\ cur = NULL /\ cur' = i /\ spent' = 0
        /\ i \in batch /\ batch' = batch \ {i}
        /\ UNCHANGED <<dirty, age, tick, toTick, ad, failures>>
    BY <1>7 DEF AnnounceOnce
  <2>2. Load(batch) = Load(batch \ {i}) + Delay /\ Load(batch \ {i}) \in Nat
    BY <2>1, LoadOfOne, LoadBounds
  <2>3. Work' = Work /\ NextTick' = NextTick /\ Delay <= Work
    BY <2>1, <2>2 DEF Work, NextTick
  <2>4. ASSUME NEW id \in Ids, ad[id] \in Int, Lasts(id)
        PROVE  Lasts(id)'
    BY <2>1, <2>3, <2>4, <1>b DEF Lasts
  <2> QED
    BY <2>1, <2>4 DEF RenewalInv
<1>8. ASSUME NEW c \in Callers, NEW i \in Ids, Mark(c, i)
      PROVE  RenewalInv'
  BY <1>8 DEF Mark, run, RenewalInv, Lasts, Work, NextTick
<1>9. ASSUME NEW c \in Callers, Signal(c)
      PROVE  RenewalInv'
  BY <1>9 DEF Signal, run, RenewalInv, Lasts, Work, NextTick
<1>10. CASE Tick
  <2>1. /\ pc # "loop" /\ UNCHANGED <<dirty, pc, batch, cur, failures>>
        /\ pc = "select" => tick = 0 /\ cur = NULL
        /\ pc # "select" => cur # NULL /\ spent < Delay /\ spent' = spent + 1
        /\ spent' <= Delay
    BY <1>10 DEF Tick
  <2>2. /\ pc = "select" => Work = 0 /\ Work' = 0
        /\ pc # "select" => Work' = Work - 1 /\ Work > 0
    BY <2>1, <1>b, LoadBounds DEF Work, RenewalInv
  <2>3. /\ NextTick' \in Nat /\ NextTick' <= Interval - 1
        /\ NextTick > 0 => NextTick' <= NextTick - 1
        /\ NextTick = 0 => NextTick' = 0
        /\ pc = "select" => NextTick > 0
    <3>1. CASE toTick = 1
      BY <1>10, <2>1, <3>1 DEF Tick, NextTick
    <3>2. CASE toTick # 1
      BY <1>10, <2>1, <3>2 DEF Tick, NextTick
    <3> QED
      BY <3>1, <3>2
  <2>4. /\ cur # NULL => cur \in dirty
        /\ pc = "put" => exp' >= TTL - spent'
    BY <1>10, <2>1 DEF Tick, Later, RenewalInv
  <2>5. ASSUME NEW id \in Ids, ad[id] # NULL, Lasts(id)
        PROVE  Lasts(id)'
    <3>1. ad[id] \in Int /\ ad[id] >= 0
      BY <2>1, <2>5, <1>b DEF Lasts, RenewalInv, RunInv, Longer
    <3>2. ad'[id] = ad[id] - 1
      BY <1>10, <2>5, <3>1 DEF Tick, Later
    <3>3. age'[id] = IF age[id] < Interval THEN age[id] + 1 ELSE Interval
      BY <1>10 DEF Tick
    <3>4. CASE id = cur \/ id \in batch
      BY <2>1, <2>2, <2>5, <3>1, <3>2, <3>4, <1>b DEF Lasts, RenewalInv, RunInv
    <3>5. CASE id # cur /\ id \notin batch /\ age[id] = Interval
      BY <2>1, <2>2, <2>3, <2>5, <3>1, <3>2, <3>3, <3>5, <1>b, SMTT(60) DEF Lasts, Longer
    <3>6. CASE id # cur /\ id \notin batch /\ age[id] = Interval - 1
      BY <2>1, <2>2, <2>3, <2>5, <3>1, <3>2, <3>3, <3>6, <1>b DEF Lasts, Longer
    <3>7. CASE id # cur /\ id \notin batch /\ age[id] < Interval - 1
      BY <2>1, <2>5, <3>1, <3>2, <3>3, <3>7, <1>b DEF Lasts
    <3> QED
      BY <3>4, <3>5, <3>6, <3>7
  <2>6. \A id \in Ids : ad'[id] # NULL => ad[id] # NULL
    BY <1>10 DEF Tick
  <2> QED
    BY <2>1, <2>4, <2>5, <2>6 DEF RenewalInv
<1>11. CASE UNCHANGED vars
  BY <1>11 DEF vars, run, RenewalInv, Lasts, Work, NextTick
<1> QED
  BY <1>1, <1>2, <1>3, <1>4, <1>5, <1>6, <1>7, <1>8, <1>9, <1>10, <1>11 DEF Next, Run

\* An advertisement never lapses if no write is lost and TTL is at least
\* RenewalBound, whatever handlers enqueue and however the ids share the rounds.
THEOREM AdNeverLapsesHolds == Spec => []AdNeverLapses
<1>1. Init => RenewalInv
  BY TimeAssumption, NullAssumption DEF Init, RenewalInv
<1>2. TypeOK /\ RunInv /\ RenewalInv => AdNeverLapses
  BY WorkBounds, TimeAssumption
     DEF RenewalInv, AdNeverLapses, Lasts, Longer, TypeOK, RunInv
<1> QED
  BY <1>1, <1>2, RenewalInductive, TypeCorrect, RunInvCorrect, PTL DEF Spec
=============================================================================
