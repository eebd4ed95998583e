-------------------------- MODULE LeaseTimingProofs -------------------------
(***************************************************************************)
(* LeaseTiming for every pair of flags, every server limit, every timeout   *)
(* and any number of tolerated failures.                                    *)
(***************************************************************************)
EXTENDS LeaseTiming, TLAPS

\* The longest time between two beats so far: a tick that comes while a heartbeat is
\* under way is taken when it is over.
Period == Later(every, worst)

\* An upper bound of the time since the lease was last renewed, or granted.
SinceRenewal ==
  late + IF flight = -1 THEN fail * Period + (IF pending THEN Period ELSE every - toBeat)
         ELSE IF renewed THEN flight
         ELSE (fail + 1) * Period + flight

\* A heartbeat is no older than the ticks that have passed since it began, and the
\* lease is at most SinceRenewal old.
TimingInv ==
  /\ TypeOK
  /\ flight <= worst
  /\ flight # -1 => beating
  /\ flight # -1 /\ ~pending => flight <= every - toBeat
  /\ beating => fail < MaxFail /\ left + SinceRenewal >= Granted

-----------------------------------------------------------------------------
\* What the server grants is a positive number of half seconds, and what was asked
\* for up to its limit.
LEMMA GrantedType ==
  ttl \in Seconds => /\ Granted \in Nat \ {0}
                     /\ ttl \in Nat /\ Half(ttl) \in Nat
                     /\ ttl <= MaxTTL => Granted = Half(ttl)
BY SecondsAssumption, TTLAssumption DEF Granted, TtlOrDefault, Half

\* main's correction of the interval: whatever the flags, it is positive, not longer
\* than the flag asks for, and leaves room for a heartbeat of half a second before the
\* requested duration is over.
LEMMA CorrectedFits ==
  ttl \in Seconds /\ hb \in Seconds =>
    /\ every \in Nat \ {0}
    /\ Half(hb) \in Nat /\ every <= Half(hb)
    /\ every + 1 <= Half(ttl)
<1> SUFFICES ASSUME ttl \in Nat \ {0}, hb \in Nat \ {0}
             PROVE  /\ every \in Nat \ {0}
                    /\ Half(hb) \in Nat /\ every <= Half(hb)
                    /\ every + 1 <= Half(ttl)
  BY SecondsAssumption
<1>1. CASE hb < ttl
  BY <1>1 DEF every, Corrected, Half
<1>2. CASE hb >= ttl /\ ttl > 1
  BY <1>2 DEF every, Corrected, Half
<1>3. CASE hb >= ttl /\ ttl = 1
  <2>1. (2 * 1) \div 2 = 1
    OBVIOUS
  <2> QED
    BY <1>3, <2>1 DEF every, Corrected, Half
<1> QED
  BY <1>1, <1>2, <1>3

\* More time between beats is more time for the same number of beats.
LEMMA Monotone ==
  ASSUME NEW n \in Nat, NEW a \in Nat, NEW b \in Nat, a <= b
  PROVE  n * a \in Nat /\ n * b \in Nat /\ n * a <= n * b
<1>1. b - a \in Nat /\ b = a + (b - a)
  OBVIOUS
<1>2. n * (b - a) \in Nat
  BY <1>1
<1>3. n * b = n * a + n * (b - a)
  BY <1>1
<1> QED
  BY <1>2, <1>3

\* What every step of the proof needs to know of the numbers.
LEMMA Numbers ==
  TypeOK =>
    /\ every \in Nat \ {0} /\ toBeat \in 1..every /\ flight \in -1..Timeout
    /\ fail \in 0..MaxFail /\ fail \in Nat /\ left \in -1..Granted /\ Granted \in Nat \ {0}
    /\ late \in Nat /\ worst \in 0..Timeout /\ worst \in Nat
    /\ MaxFail \in Nat \ {0} /\ Timeout \in Nat \ {0}
    /\ Period \in Nat /\ every <= Period /\ worst <= Period
    /\ fail * Period \in Nat /\ (fail + 1) * Period = fail * Period + Period
<1> SUFFICES ASSUME TypeOK
             PROVE  /\ every \in Nat \ {0} /\ toBeat \in 1..every /\ flight \in -1..Timeout
                    /\ fail \in 0..MaxFail /\ fail \in Nat /\ left \in -1..Granted
                    /\ Granted \in Nat \ {0}
                    /\ late \in Nat /\ worst \in 0..Timeout /\ worst \in Nat
                    /\ MaxFail \in Nat \ {0} /\ Timeout \in Nat \ {0}
                    /\ Period \in Nat /\ every <= Period /\ worst <= Period
                    /\ fail * Period \in Nat /\ (fail + 1) * Period = fail * Period + Period
  OBVIOUS
<1>1. every \in Nat \ {0} /\ Granted \in Nat \ {0}
  BY CorrectedFits, GrantedType DEF TypeOK
<1>2. fail \in Nat /\ worst \in Nat /\ late \in Nat
  BY FailAssumption, TimeAssumption DEF TypeOK
<1>3. Period \in Nat /\ every <= Period /\ worst <= Period
  BY <1>1, <1>2 DEF Period, Later
<1>4. fail * Period \in Nat /\ (fail + 1) * Period = fail * Period + Period
  BY <1>2, <1>3
<1> QED
  BY <1>1, <1>2, <1>3, <1>4, FailAssumption, TimeAssumption DEF TypeOK

\* The invariant holds when the heartbeat goroutine starts.
LEMMA TimingInit == Init => TimingInv
<1> SUFFICES ASSUME Init
             PROVE  TimingInv
  OBVIOUS
<1>1. every \in Nat \ {0} /\ Granted \in Nat \ {0} /\ late \in Nat
  BY CorrectedFits, GrantedType, TimeAssumption DEF Init
<1>2. left \in -1..Granted /\ left + late >= Granted
  BY <1>1 DEF Init, Later
<1>3. TypeOK
  <2>1. fail \in 0..MaxFail /\ worst \in 0..Timeout /\ flight \in -1..Timeout
        /\ toBeat \in 1..every
    BY <1>1, FailAssumption, TimeAssumption DEF Init
  <2> QED
    BY <1>2, <2>1 DEF Init, TypeOK
<1>4. SinceRenewal = late
  BY <1>1, <1>3, Numbers DEF Init, SinceRenewal
<1> QED
  BY <1>1, <1>2, <1>3, <1>4, FailAssumption DEF Init, TimingInv

\* Every step keeps the invariant: the time since the last renewal grows only
\* with the clock, and a failed beat hands it on to the next interval.
LEMMA TimingInductive == TimingInv /\ [Next]_vars => TimingInv'
<1> SUFFICES ASSUME TimingInv, [Next]_vars
             PROVE  TimingInv'
  OBVIOUS
<1>a. TypeOK
  BY DEF TimingInv
<1>n. /\ every \in Nat \ {0} /\ toBeat \in 1..every /\ flight \in -1..Timeout
      /\ fail \in 0..MaxFail /\ fail \in Nat /\ left \in -1..Granted /\ Granted \in Nat \ {0}
      /\ late \in Nat /\ worst \in 0..Timeout /\ worst \in Nat
      /\ MaxFail \in Nat \ {0} /\ Timeout \in Nat \ {0}
      /\ Period \in Nat /\ every <= Period /\ worst <= Period
      /\ fail * Period \in Nat /\ (fail + 1) * Period = fail * Period + Period
  BY <1>a, Numbers
<1>m. /\ every \in Nat \ {0} /\ toBeat \in 1..every /\ flight \in -1..Timeout
      /\ fail \in 0..MaxFail /\ left \in -1..Granted /\ Granted \in Nat \ {0}
      /\ late \in Nat /\ worst \in 0..Timeout
      /\ MaxFail \in Nat \ {0} /\ Timeout \in Nat \ {0}
  BY <1>n
<1>b. /\ pending \in BOOLEAN /\ renewed \in BOOLEAN /\ stray \in BOOLEAN
      /\ beating \in BOOLEAN /\ held \in BOOLEAN
  BY <1>a DEF TypeOK
<1>c. UNCHANGED <<ttl, hb>> => Granted' = Granted /\ every' = every
  BY DEF Granted, every
<1>d. UNCHANGED <<ttl, hb, worst>> => Period' = Period
  BY DEF Period, every
<1>1. CASE Beat
  <2>1. /\ flight = -1 /\ flight' = 0 /\ pending /\ ~pending' /\ ~renewed' /\ beating
        /\ UNCHANGED <<ttl, hb, toBeat, stray, fail, beating, held, left, late, worst>>
    BY <1>1 DEF Beat
  <2>2. TypeOK'
    <3>1. pending' \in BOOLEAN /\ renewed' \in BOOLEAN
      BY <1>1 DEF Beat
    <3>2. flight' \in -1..Timeout
      BY <2>1, <1>m
    <3> QED
      BY <2>1, <3>1, <3>2, <1>a, <1>c DEF TypeOK
  <2>3. SinceRenewal' = late + fail * Period + Period /\ SinceRenewal = SinceRenewal'
    BY <2>1, <1>d, <1>n DEF SinceRenewal
  <2> QED
    BY <2>1, <2>2, <2>3, <1>c, <1>n DEF TimingInv
<1>2. CASE Renew \/ LateRenew
  <2>1. left' = Granted /\ late' = 0
        /\ UNCHANGED <<ttl, hb, toBeat, pending, flight, fail, beating, worst>>
    BY <1>2 DEF Renew, LateRenew, Renewal
  <2>2. TypeOK'
    <3>1. renewed' \in BOOLEAN /\ stray' \in BOOLEAN /\ held' \in BOOLEAN
      BY <1>2, <1>b DEF Renew, LateRenew, Renewal
    <3>2. left' \in -1..Granted /\ late' \in 0..Wait
      BY <2>1, <1>m, TimeAssumption
    <3> QED
      BY <2>1, <3>1, <3>2, <1>a, <1>c DEF TypeOK
  <2>3. SinceRenewal' >= 0 /\ SinceRenewal' \in Int
    BY <2>1, <1>c, <1>d, <1>n DEF SinceRenewal
  <2>4. left' + SinceRenewal' >= Granted'
    <3>1. PICK s \in Int : s = SinceRenewal' /\ s >= 0
      BY <2>3, Zenon
    <3>a. s >= 0
      BY <3>1
    <3>2. left' + s >= Granted
      BY <2>1, <3>a, <1>m
    <3>3. Granted' = Granted
      BY <2>1, <1>c
    <3> QED
      BY <3>1, <3>2, <3>3, Zenon
  <2> QED
    BY <2>1, <2>2, <2>4, <1>c DEF TimingInv
<1>3. CASE Requeue
  <2>1. UNCHANGED <<ttl, hb, toBeat, pending, flight, renewed, stray, fail, beating, left,
                    late, worst>>
    BY <1>3 DEF Requeue
  <2>2. TypeOK'
    BY <1>3, <1>a, <1>c DEF Requeue, TypeOK
  <2>3. SinceRenewal' = SinceRenewal
    BY <2>1, <1>c, <1>d DEF SinceRenewal
  <2> QED
    BY <2>1, <2>2, <2>3, <1>c DEF TimingInv
<1>4. CASE BeatServed
  <2>1. /\ flight >= 0 /\ renewed /\ flight' = -1 /\ fail' = 0
        /\ UNCHANGED <<ttl, hb, toBeat, pending, renewed, stray, beating, held, left, late,
                       worst>>
    BY <1>4 DEF BeatServed
  <2>2. TypeOK'
    BY <1>4, <1>a, <1>c, <1>n DEF BeatServed, TypeOK
  <2>3. SinceRenewal = late + flight
    BY <2>1, <1>n DEF SinceRenewal
  <2>4. 0 * Period = 0
    BY <1>n
  <2>5. SinceRenewal' = late + IF pending THEN Period ELSE every - toBeat
    BY <2>1, <2>4, <1>c, <1>d, <1>n DEF SinceRenewal
  <2>6. SinceRenewal' >= SinceRenewal /\ SinceRenewal' \in Int /\ SinceRenewal \in Int
    BY <2>1, <2>3, <2>5, <1>n DEF TimingInv
  <2>7. beating' => fail' < MaxFail /\ left' + SinceRenewal' >= Granted'
    <3>1. PICK s \in Int : s = SinceRenewal' /\ s >= SinceRenewal
      BY <2>6, Zenon
    <3>a. s >= SinceRenewal /\ SinceRenewal \in Int
      BY <3>1, <2>6, Zenon
    <3>2. beating' => fail' < MaxFail /\ left' + s >= Granted
      BY <2>1, <3>a, <1>m DEF TimingInv
    <3>3. Granted' = Granted
      BY <2>1, <1>c
    <3> QED
      BY <3>1, <3>2, <3>3, Zenon
  <2> QED
    BY <2>1, <2>2, <2>7, <1>m DEF TimingInv
<1>5. CASE BeatFails
  <2>1. /\ flight >= 0 /\ flight' = -1 /\ fail' = fail + 1 /\ beating
        /\ UNCHANGED <<ttl, hb, toBeat, pending, renewed, held, left, late, worst>>
    BY <1>5, <1>n DEF BeatFails, TimingInv
  <2>2. beating' \in BOOLEAN /\ (beating' => fail' < MaxFail) /\ stray' \in BOOLEAN
    <3>1. beating' = (fail' < MaxFail) /\ stray' = (stray \/ ~renewed)
      BY <1>5 DEF BeatFails
    <3>2. (fail' < MaxFail) \in BOOLEAN /\ (stray \/ ~renewed) \in BOOLEAN
      BY SMT
    <3> QED
      BY <3>1, <3>2, Zenon
  <2>3. TypeOK'
    BY <2>1, <2>2, <1>a, <1>c, <1>n DEF TypeOK, TimingInv
  <2>4. SinceRenewal = late + IF renewed THEN flight ELSE (fail + 1) * Period + flight
    BY <2>1, <1>n DEF SinceRenewal
  <2>5. SinceRenewal' = late + (fail + 1) * Period
                        + (IF pending THEN Period ELSE every - toBeat)
    BY <2>1, <1>c, <1>d, <1>n DEF SinceRenewal
  <2>6. SinceRenewal' >= SinceRenewal /\ SinceRenewal' \in Int /\ SinceRenewal \in Int
    BY <2>1, <2>4, <2>5, <1>n DEF TimingInv
  <2>7. beating' => fail' < MaxFail /\ left' + SinceRenewal' >= Granted'
    <3>1. PICK s \in Int : s = SinceRenewal' /\ s >= SinceRenewal
      BY <2>6, Zenon
    <3>a. s >= SinceRenewal /\ SinceRenewal \in Int
      BY <3>1, <2>6, Zenon
    <3>2. beating' => fail' < MaxFail /\ left' + s >= Granted
      BY <2>1, <2>2, <3>a, <1>m DEF TimingInv
    <3>3. Granted' = Granted
      BY <2>1, <1>c
    <3> QED
      BY <3>1, <3>2, <3>3, Zenon
  <2> QED
    BY <2>1, <2>3, <2>7, <1>m DEF TimingInv
<1>6. CASE JobEnds
  <2>1. ~beating' /\ flight' = -1 /\ worst' = worst
    BY <1>6 DEF JobEnds
  <2>2. TypeOK'
    BY <1>6, <1>a, <1>c DEF JobEnds, TypeOK
  <2> QED
    BY <2>1, <2>2, <1>n DEF TimingInv
<1>7. CASE Tick
  <2>1. /\ flight < Timeout
        /\ toBeat' = IF toBeat = 1 THEN every ELSE toBeat - 1
        /\ flight' = IF flight = -1 THEN -1 ELSE flight + 1
        /\ worst' = Later(worst, flight')
        /\ left' = Later(left - 1, -1)
        /\ UNCHANGED <<ttl, hb, renewed, stray, fail, beating, held, late>>
    BY <1>7 DEF Tick
  <2>2. /\ pending' \in BOOLEAN /\ (pending' <=> (pending \/ toBeat = 1))
        /\ beating /\ flight = -1 => ~pending
    <3>1. pending' = (pending \/ toBeat = 1) /\ ~(beating /\ pending /\ flight = -1)
      BY <1>7 DEF Tick
    <3> QED
      BY <3>1, Zenon
  <2>3. /\ flight' \in -1..Timeout /\ worst' \in 0..Timeout /\ worst' >= worst
        /\ flight' <= worst' /\ toBeat' \in 1..every
        /\ left' \in -1..Granted /\ left' >= left - 1
    BY <2>1, <1>n DEF Later
  <2>4. TypeOK'
    <3>1. pending' \in BOOLEAN
      BY <2>2, Zenon
    <3> QED
      BY <2>1, <2>3, <3>1, <1>a, <1>c DEF TypeOK
  <2>5. PICK p \in Nat : p = Period' /\ Period <= p /\ every <= p
    <3>1. Period' = Later(every, worst')
      BY <2>1, <1>c DEF Period
    <3>2. /\ Later(every, worst') \in Nat /\ Period <= Later(every, worst')
          /\ every <= Later(every, worst')
      BY <2>3, <1>m DEF Period, Later
    <3> QED
      BY <3>1, <3>2, Zenon
  <2>p. Period <= p /\ every <= p
    BY <2>5, Zenon
  <2>6. /\ fail * p \in Nat /\ fail * Period <= fail * p
        /\ (fail + 1) * p = fail * p + p
    <3>1. fail * p \in Nat /\ fail * Period <= fail * p
      BY <1>n, <2>5, Monotone
    <3> QED
      BY <3>1, <1>n
  <2>7. flight' # -1 /\ ~pending' => flight' <= every - toBeat'
    BY <2>1, <2>2, <1>n DEF TimingInv
  <2>8. ASSUME beating
        PROVE  \E s \in Int : s = SinceRenewal' /\ s >= SinceRenewal + 1
                              /\ SinceRenewal \in Int
    <3>1. CASE flight = -1
      <4>1. SinceRenewal = late + (fail * Period + (every - toBeat))
        BY <2>8, <3>1, <2>2, <1>n DEF SinceRenewal
      <4> DEFINE s == late + (fail * p + (IF toBeat = 1 THEN p ELSE every - (toBeat - 1)))
      <4>2. s = SinceRenewal'
        <5>1. flight' = -1 /\ fail' = fail /\ late' = late /\ (pending' <=> toBeat = 1)
          BY <2>1, <2>2, <2>8, <3>1
        <5>2. SinceRenewal' = late + (fail * p + IF pending' THEN p ELSE every - toBeat')
          BY <5>1, <2>1, <2>5, <1>c, Zenon DEF SinceRenewal
        <5> QED
          BY <5>1, <5>2, <2>1
      <4>3. s \in Int /\ s >= SinceRenewal + 1 /\ SinceRenewal \in Int
        BY <4>1, <2>p, <2>6, <1>n
      <4> HIDE DEF s
      <4> QED
        BY <4>2, <4>3, Zenon
    <3>2. CASE flight # -1 /\ renewed
      <4>1. SinceRenewal = late + flight /\ SinceRenewal' = late + (flight + 1)
        BY <3>2, <2>1, <1>n DEF SinceRenewal
      <4> QED
        BY <4>1, <1>n
    <3>3. CASE flight # -1 /\ ~renewed
      <4>1. SinceRenewal = late + ((fail + 1) * Period + flight)
        BY <3>3, <1>n DEF SinceRenewal
      <4> DEFINE s == late + ((fail + 1) * p + (flight + 1))
      <4>2. s = SinceRenewal'
        <5>1. flight' = flight + 1 /\ flight' # -1 /\ fail' = fail /\ late' = late /\ ~renewed'
          BY <3>3, <2>1, <1>m
        <5> QED
          BY <5>1, <2>5, Zenon DEF SinceRenewal
      <4>3. s \in Int /\ s >= SinceRenewal + 1 /\ SinceRenewal \in Int
        BY <4>1, <2>p, <2>6, <1>n
      <4> HIDE DEF s
      <4> QED
        BY <4>2, <4>3, Zenon
    <3> QED
      BY <3>1, <3>2, <3>3
  <2>9. beating' => fail' < MaxFail /\ left' + SinceRenewal' >= Granted'
    <3> SUFFICES ASSUME beating
                 PROVE  fail' < MaxFail /\ left' + SinceRenewal' >= Granted'
      BY <2>1
    <3>1. PICK s \in Int : /\ s = SinceRenewal' /\ s >= SinceRenewal + 1
                           /\ SinceRenewal \in Int
      BY <2>8
    <3>a. s >= SinceRenewal + 1 /\ SinceRenewal \in Int
      BY <3>1, Zenon
    <3>2. fail' < MaxFail /\ left' + s >= Granted
      BY <2>1, <2>3, <3>a, <1>m DEF TimingInv
    <3>3. Granted' = Granted
      BY <2>1, <1>c
    <3> QED
      BY <3>1, <3>2, <3>3, Zenon
  <2> QED
    BY <2>1, <2>3, <2>4, <2>7, <2>9, <1>c DEF TimingInv
<1>8. CASE UNCHANGED vars
  <2>1. SinceRenewal' = SinceRenewal /\ TypeOK'
    BY <1>8, <1>a, <1>c, <1>d DEF vars, SinceRenewal, TypeOK
  <2> QED
    BY <1>8, <2>1, <1>c DEF vars, TimingInv
<1> QED
  BY <1>1, <1>2, <1>3, <1>4, <1>5, <1>6, <1>7, <1>8 DEF Next

\* While the goroutine beats, the lease is at most fail + 1 periods and one heartbeat
\* old, counted from its last renewal.
LEMMA LeaseAge ==
  TimingInv /\ beating => left + late + (fail + 1) * Period + worst >= Granted
<1> SUFFICES ASSUME TimingInv, beating
             PROVE  left + late + (fail + 1) * Period + worst >= Granted
  OBVIOUS
<1>n. /\ every \in Nat \ {0} /\ toBeat \in 1..every /\ flight \in -1..Timeout
      /\ fail \in Nat /\ left \in Int /\ Granted \in Nat
      /\ late \in Nat /\ worst \in Nat /\ Timeout \in Nat
      /\ Period \in Nat /\ every <= Period
      /\ fail * Period \in Nat /\ (fail + 1) * Period = fail * Period + Period
  BY Numbers DEF TimingInv
<1>1. SinceRenewal <= late + (fail + 1) * Period + worst /\ SinceRenewal \in Int
  BY <1>n DEF SinceRenewal, TimingInv
<1> QED
  BY <1>1, <1>n DEF TimingInv

\* A lease is as old as the invariant allows; if that many intervals fit into
\* it, it has not expired.
LEMMA TimingImplies == TimingInv => RenewedInTime /\ CorrectionSuffices
<1> SUFFICES ASSUME TimingInv, beating, ttl <= MaxTTL
             PROVE  /\ late + (fail + 1) * Later(Half(hb), worst) + worst <= Half(ttl)
                         => left >= 0
                    /\ late = 0 /\ fail = 0 /\ worst <= 1 => left >= 0
  BY DEF RenewedInTime, CorrectionSuffices
<1>n. /\ every \in Nat \ {0} /\ fail \in Nat /\ left \in Int /\ late \in Nat /\ worst \in Nat
      /\ Period \in Nat /\ (fail + 1) * Period \in Nat
  BY Numbers DEF TimingInv
<1>f. /\ Granted = Half(ttl) /\ Half(ttl) \in Nat
      /\ Half(hb) \in Nat /\ every <= Half(hb) /\ every + 1 <= Half(ttl)
  BY GrantedType, CorrectedFits DEF TimingInv, TypeOK
<1>1. ASSUME late + (fail + 1) * Later(Half(hb), worst) + worst <= Half(ttl)
      PROVE  left >= 0
  <2>1. Period <= Later(Half(hb), worst) /\ Later(Half(hb), worst) \in Nat
    BY <1>n, <1>f DEF Period, Later
  <2>2. /\ (fail + 1) * Period <= (fail + 1) * Later(Half(hb), worst)
        /\ (fail + 1) * Later(Half(hb), worst) \in Nat
    BY <2>1, <1>n, Monotone
  <2> QED
    BY <1>1, <2>2, <1>n, <1>f, LeaseAge
<1>2. ASSUME late = 0, fail = 0, worst <= 1
      PROVE  left >= 0
  <2>1. Period = every
    BY <1>2, <1>n DEF Period, Later
  <2>2. (0 + 1) * every = every
    BY <1>n
  <2> QED
    BY <1>2, <2>1, <2>2, <1>n, <1>f, LeaseAge
<1> QED
  BY <1>1, <1>2

-----------------------------------------------------------------------------
\* The variables of the heartbeat goroutine keep their types.
THEOREM TimingTypeCorrect == Spec => []TypeOK
BY TimingInit, TimingInductive, PTL DEF Spec, TimingInv

\* For every -ttl-sec the server accepts, every -heartbeat-sec and heartbeats as slow
\* as the client's timeout allows, n failures in a row are survived whenever n + 1
\* periods and one heartbeat fit into what is left of the lease.
THEOREM RenewedInTimeHolds == Spec => []RenewedInTime
BY TimingInit, TimingInductive, TimingImplies, PTL DEF Spec

\* For every pair of flags the server accepts, the interval main corrects renews the
\* lease in time as long as heartbeats take at most half a second and do not fail.
THEOREM CorrectionSufficesHolds == Spec => []CorrectionSuffices
BY TimingInit, TimingInductive, TimingImplies, PTL DEF Spec
=============================================================================
