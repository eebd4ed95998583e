----------------------------- MODULE LeaseTiming ----------------------------
(***************************************************************************)
(* The clockwork of one lease: the heartbeat goroutine of the agent, whose  *)
(* interval main corrects against the flag -ttl-sec (cmd/agent/main.go),    *)
(* and the expiry the control server computes with ttlOrDefault from the    *)
(* same number (cmd/control/control_http.go).                               *)
(*                                                                          *)
(* The unit of time is half a second, because a lease of one second is      *)
(* renewed every half second.  A behaviour starts when the goroutine does,  *)
(* up to Wait after the lease was granted: the answer of try-claim has to   *)
(* arrive and the manifest is waited for first.  A heartbeat may take up to *)
(* the timeout of the HTTP client; the server renews the lease at some      *)
(* moment of it, and reads and puts the DHT's copy before it answers.       *)
(***************************************************************************)
EXTENDS Integers

CONSTANTS Seconds,     \* values of -ttl-sec and -heartbeat-sec
          MaxTTL,      \* 3600: the longest lease the server grants, in seconds
          DefaultTTL,  \* 15: what it grants instead, in seconds
          MaxFail,     \* maxFail of the heartbeat goroutine
          Timeout,     \* 10: Timeout of the HTTP client, in half seconds
          Wait         \* 38: timeouts of try-claim and WaitForManifest, in half seconds

\* Zero and negative flags are left out: time.NewTicker panics on them.
ASSUME SecondsAssumption == Seconds \subseteq Nat \ {0}
ASSUME TTLAssumption == MaxTTL \in Nat /\ DefaultTTL \in Nat \ {0}
ASSUME FailAssumption == MaxFail \in Nat \ {0}
ASSUME TimeAssumption == Timeout \in Nat \ {0} /\ Wait \in Nat

VARIABLES ttl,         \* -ttl-sec, sent with every claim and heartbeat
          hb,          \* -heartbeat-sec
          toBeat,      \* time to the next tick of the goroutine's ticker
          pending,     \* the ticker's channel, of capacity 1, holds a tick
          flight,      \* time the heartbeat under way has taken, -1 if none
          renewed,     \* the server has renewed the lease for that heartbeat
          stray,       \* the server may still execute heartbeats given up
          fail,        \* consecutive failures
          beating,     \* the goroutine has not returned
          held,        \* the database has the lease under the agent's token
          left,        \* time to lease_expires_at; -1 when it has passed
          late,        \* history: the age of the lease at the start, 0 once renewed
          worst        \* history: the longest time a heartbeat has taken so far

vars == <<ttl, hb, toBeat, pending, flight, renewed, stray, fail, beating, held, left,
          late, worst>>

Half(sec) == 2 * sec

CorrectedNever(ttlSec, hbSec) == Half(hbSec)

Corrected(ttlSec, hbSec) ==
  IF hbSec < ttlSec THEN Half(hbSec)
  ELSE IF ttlSec > 1 THEN Half(ttlSec - 1)
  ELSE Half(ttlSec) \div 2

TtlBelowLimit(sec) == IF sec <= 0 \/ sec >= MaxTTL THEN DefaultTTL ELSE sec

TtlOrDefault(sec) == IF sec <= 0 \/ sec > MaxTTL THEN DefaultTTL ELSE sec

every == Corrected(ttl, hb)

Granted == Half(TtlOrDefault(ttl))

Later(a, b) == IF a < b THEN b ELSE a

Init == /\ ttl \in Seconds
        /\ hb \in Seconds
        /\ late \in 0..Wait
        /\ toBeat = every
        /\ left = Later(Granted - late, -1)
        /\ flight = -1
        /\ fail = 0
        /\ worst = 0
        /\ beating = TRUE /\ held = TRUE
        /\ pending = FALSE /\ renewed = FALSE /\ stray = FALSE

-----------------------------------------------------------------------------
Beat ==
  /\ beating
  /\ pending
  /\ flight = -1
  /\ pending' = FALSE
  /\ flight' = 0
  /\ renewed' = FALSE
  /\ UNCHANGED <<ttl, hb, toBeat, stray, fail, beating, held, left, late, worst>>

\* The UPDATE asks for the token, not for the time: it revives a lease that has
\* expired.
Renewal ==
  /\ held
  /\ left' = Granted
  /\ late' = 0
  /\ UNCHANGED <<ttl, hb, toBeat, pending, flight, stray, fail, beating, held, worst>>

Renew == flight >= 0 /\ ~renewed /\ renewed' = TRUE /\ Renewal

\* The server executes a heartbeat whose client has given up.
LateRenew == stray /\ Renewal /\ UNCHANGED renewed

\* The requeue loop takes an expired lease away.
Requeue ==
  /\ held
  /\ left = -1
  /\ held' = FALSE
  /\ UNCHANGED <<ttl, hb, toBeat, pending, flight, renewed, stray, fail, beating, left,
                 late, worst>>

BeatServed ==
  /\ flight >= 0
  /\ renewed
  /\ flight' = -1
  /\ fail' = 0
  /\ UNCHANGED <<ttl, hb, toBeat, pending, renewed, stray, beating, held, left, late, worst>>

BeatFailsForever ==
  /\ flight >= 0
  /\ flight' = -1
  /\ fail' = fail + 1
  /\ stray' = (stray \/ ~renewed)
  /\ UNCHANGED <<ttl, hb, toBeat, pending, renewed, beating, held, left, late, worst>>

\* The heartbeat is refused or not answered in time, whether the lease was renewed
\* or not.
BeatFails ==
  /\ flight >= 0
  /\ flight' = -1
  /\ fail' = fail + 1
  /\ stray' = (stray \/ ~renewed)
  /\ beating' = (fail' < MaxFail)
  /\ UNCHANGED <<ttl, hb, toBeat, pending, renewed, held, left, late, worst>>

\* The job's context is cancelled.
JobEnds ==
  /\ beating
  /\ flight = -1
  /\ beating' = FALSE
  /\ UNCHANGED <<ttl, hb, toBeat, pending, flight, renewed, stray, fail, held, left, late,
                 worst>>

\* The goroutine takes a tick as soon as it is there and it is waiting for one; a tick
\* that finds another one in the channel is dropped.
Tick ==
  /\ ~(beating /\ pending /\ flight = -1)
  /\ flight < Timeout
  /\ toBeat' = IF toBeat = 1 THEN every ELSE toBeat - 1
  /\ pending' = (pending \/ toBeat = 1)
  /\ flight' = IF flight = -1 THEN -1 ELSE flight + 1
  /\ worst' = Later(worst, flight')
  /\ left' = Later(left - 1, -1)
  /\ UNCHANGED <<ttl, hb, renewed, stray, fail, beating, held, late>>

Next == \/ Beat \/ Renew \/ LateRenew \/ Requeue \/ BeatServed \/ BeatFails \/ JobEnds
        \/ Tick

Spec == Init /\ [][Next]_vars

-----------------------------------------------------------------------------
(***************************************************************************)
(* Properties.                                                              *)
(***************************************************************************)
\* The variables stay within the shapes the code gives them.
TypeOK ==
  /\ ttl \in Seconds /\ hb \in Seconds
  /\ toBeat \in 1..every
  /\ pending \in BOOLEAN /\ renewed \in BOOLEAN /\ stray \in BOOLEAN
  /\ beating \in BOOLEAN /\ held \in BOOLEAN
  /\ flight \in -1..Timeout
  /\ fail \in 0..MaxFail
  /\ left \in -1..Granted
  /\ late \in 0..Wait
  /\ worst \in 0..Timeout

\* The flags decide how many failures a lease survives.  With n failures in a row
\* so far it has not expired if n + 1 intervals of the flag -heartbeat-sec, or of the
\* slowest heartbeat if that took longer, and one such heartbeat fit into the flag
\* -ttl-sec, together with what was spent before the goroutine started.
RenewedInTime ==
  (/\ beating
   /\ ttl <= MaxTTL
   /\ late + (fail + 1) * Later(Half(hb), worst) + worst <= Half(ttl)) => left >= 0

\* main's correction of the interval makes any pair of flags keep the lease while
\* heartbeats take at most half a second and do not fail, once one has renewed it.
CorrectionSuffices ==
  (/\ beating
   /\ ttl <= MaxTTL
   /\ late = 0 /\ fail = 0 /\ worst <= 1) => left >= 0

\* For every lease duration an operator sets, prompt heartbeats keep the lease as
\* long as none fails.
HeartbeatsKeepLease == beating /\ late = 0 /\ fail = 0 /\ worst <= 1 => left >= 0

\* For every lease duration the server accepts, heartbeats keep the lease as long as
\* none fails, however slow they are.
SlowHeartbeatsKeepLease == beating /\ ttl <= MaxTTL /\ late = 0 /\ fail = 0 => left >= 0
=============================================================================
