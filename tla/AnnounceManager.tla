--------------------------- MODULE AnnounceManager --------------------------
(***************************************************************************)
(* The AnnounceManager of the control server (cmd/control/main.go): request *)
(* handlers and the requeue loops call Enqueue, one goroutine (Run)         *)
(* advertises what is dirty, at most once per interval and id.              *)
(*                                                                          *)
(* Time is discrete.  It does not pass while Run has something to do other  *)
(* than wait for the DHT; one announceOnce, its DHT calls together, takes   *)
(* at most Delay.                                                           *)
(***************************************************************************)
EXTENDS Integers, FiniteSets

CONSTANTS Ids,         \* job ids
          Callers,     \* goroutines that call Enqueue
          Interval,    \* minimum time between two advertisements of an id
          TTL,         \* lifetime of an advertisement
          Delay,       \* bound: the time one announceOnce takes
          MaxCalls,    \* bound: Enqueue calls in one unit of time
          MaxFailures, \* bound: advertisements lost on their way to the DHT
          NULL         \* no id

ASSUME TimeAssumption == Interval \in Nat \ {0} /\ TTL \in Nat \ {0} /\ Delay \in Nat
ASSUME IdAssumption == IsFiniteSet(Ids)
ASSUME NullAssumption == NULL \notin Ids

VARIABLES dirty,       \* m.dirty
          age,         \* time since m.last[id], up to Interval; Interval when it is zero
          trigger,     \* elements in m.trigger, a channel of capacity 1
          tick,        \* elements in ticker.C, a channel of capacity 1
          toTick,      \* time to the next tick
          pc,          \* where Run is
          batch,       \* the ids process has still to announce
          cur,         \* the id announceOnce is announcing
          spent,       \* the time this announceOnce has taken
          exp,         \* time to go of the advertisement about to be written
          ad,          \* time to go of id's advertisement; NULL if there is none
          caller,      \* caller[c]: the id c has marked and not yet signalled
          calls,       \* Enqueue calls in this unit of time
          failures     \* advertisements lost so far

run  == <<tick, pc, batch, cur, spent>>
vars == <<dirty, age, trigger, toTick, run, exp, ad, caller, calls, failures>>

\* NewAnnounceManager, and the ticker Run starts with.
Init ==
  /\ dirty = {}
  /\ age = [id \in Ids |-> Interval]
  /\ trigger = 0
  /\ tick = 0
  /\ toTick = Interval
  /\ pc = "select"
  /\ batch = {}
  /\ cur = NULL
  /\ spent = 0
  /\ exp = 0
  /\ ad = [id \in Ids |-> NULL]
  /\ caller = [c \in Callers |-> NULL]
  /\ calls = 0
  /\ failures = 0

-----------------------------------------------------------------------------
(***************************************************************************)
(* Enqueue: mark under the lock, then signal without blocking.              *)
(***************************************************************************)
Mark(c, id) ==
  /\ caller[c] = NULL
  /\ calls < MaxCalls
  /\ calls' = calls + 1
  /\ dirty' = dirty \cup {id}
  /\ caller' = [caller EXCEPT ![c] = id]
  /\ UNCHANGED <<age, trigger, toTick, run, exp, ad, failures>>

SignalUncounted(c) ==
  /\ caller[c] # NULL
  /\ trigger' = trigger + 1
  /\ caller' = [caller EXCEPT ![c] = NULL]
  /\ UNCHANGED <<dirty, age, toTick, run, exp, ad, calls, failures>>

Signal(c) ==
  /\ caller[c] # NULL
  /\ trigger' = 1
  /\ caller' = [caller EXCEPT ![c] = NULL]
  /\ UNCHANGED <<dirty, age, toTick, run, exp, ad, calls, failures>>

-----------------------------------------------------------------------------
(***************************************************************************)
(* Run: a select over the ticker and the trigger, then process.             *)
(***************************************************************************)
DueAlways(id) == TRUE

Due(id) == age[id] >= Interval

SelectDraining ==
  /\ pc = "select"
  /\ \/ tick = 1 /\ tick' = 0 /\ UNCHANGED trigger
     \/ trigger = 1 /\ trigger' = 0 /\ UNCHANGED tick
  /\ batch' = {id \in dirty : Due(id)}
  /\ pc' = "loop"
  /\ dirty' = {}
  /\ UNCHANGED <<age, toTick, cur, spent, exp, ad, caller, calls, failures>>

\* One of the ready channels is drained; the ids to announce are collected
\* under the lock, and stay dirty.
Select ==
  /\ pc = "select"
  /\ \/ tick = 1 /\ tick' = 0 /\ UNCHANGED trigger
     \/ trigger = 1 /\ trigger' = 0 /\ UNCHANGED tick
  /\ batch' = {id \in dirty : Due(id)}
  /\ pc' = "loop"
  /\ UNCHANGED <<dirty, age, toTick, cur, spent, exp, ad, caller, calls, failures>>

AnnounceOnce(id) ==
  /\ pc = "loop"
  /\ id \in batch
  /\ batch' = batch \ {id}
  /\ cur' = id
  /\ spent' = 0
  /\ pc' = "read"
  /\ UNCHANGED <<dirty, age, trigger, tick, toTick, exp, ad, caller, calls, failures>>

ProcessEnds ==
  /\ pc = "loop"
  /\ batch = {}
  /\ pc' = "select"
  /\ UNCHANGED <<dirty, age, trigger, tick, toTick, batch, cur, spent, exp, ad, caller,
                 calls, failures>>

\* The manifest is read or replaced; announceAds stamps the advertisement.
Stamp ==
  /\ pc = "read"
  /\ pc' = "put"
  /\ exp' = TTL
  /\ UNCHANGED <<dirty, age, trigger, tick, toTick, batch, cur, spent, ad, caller, calls, failures>>

PutAd ==
  /\ pc = "put"
  /\ pc' = "record"
  /\ ad' = [ad EXCEPT ![cur] = exp]
  /\ UNCHANGED <<dirty, age, trigger, tick, toTick, batch, cur, spent, exp, caller, calls, failures>>

\* The failure is logged; the interval starts over all the same.
PutAdFails ==
  /\ pc = "put"
  /\ failures < MaxFailures
  /\ failures' = failures + 1
  /\ pc' = "record"
  /\ UNCHANGED <<dirty, age, trigger, tick, toTick, batch, cur, spent, exp, ad, caller, calls>>

\* The mirror is written and the time of the advertisement recorded.
Record ==
  /\ pc = "record"
  /\ pc' = "loop"
  /\ age' = [age EXCEPT ![cur] = 0]
  /\ cur' = NULL
  /\ exp' = 0
  /\ spent' = 0
  /\ UNCHANGED <<dirty, trigger, tick, toTick, batch, ad, caller, calls, failures>>

-----------------------------------------------------------------------------
Later(left) == IF left < 0 THEN left ELSE left - 1

\* time.Ticker: a tick is dropped when the one before it has not been taken.
Tick ==
  /\ pc = "select" => tick = 0 /\ trigger = 0
  /\ pc # "loop"
  /\ pc \in {"read", "put", "record"} => spent < Delay
  /\ spent' = IF pc = "select" THEN 0 ELSE spent + 1
  /\ age' = [id \in Ids |-> IF age[id] < Interval THEN age[id] + 1 ELSE Interval]
  /\ ad' = [id \in Ids |-> IF ad[id] = NULL THEN NULL ELSE Later(ad[id])]
  /\ exp' = IF pc = "put" THEN Later(exp) ELSE exp
  /\ IF toTick = 1 THEN tick' = 1 /\ toTick' = Interval
                   ELSE UNCHANGED tick /\ toTick' = toTick - 1
  /\ calls' = 0
  /\ UNCHANGED <<dirty, trigger, pc, batch, cur, caller, failures>>

-----------------------------------------------------------------------------
Run == \/ Select \/ ProcessEnds \/ Stamp \/ PutAd \/ PutAdFails \/ Record
       \/ \E id \in Ids : AnnounceOnce(id)

Next == \/ Run
        \/ \E c \in Callers, id \in Ids : Mark(c, id)
        \/ \E c \in Callers : Signal(c)
        \/ Tick

Spec == Init /\ [][Next]_vars

\* The goroutines run, DHT calls end by their timeouts, and time passes.
FairSpec == Spec /\ WF_vars(Run) /\ WF_vars(Tick) /\ \A c \in Callers : WF_vars(Signal(c))

-----------------------------------------------------------------------------
(***************************************************************************)
(* Properties.                                                              *)
(***************************************************************************)
\* The variables stay within the shapes the code gives them.
TypeOK ==
  /\ dirty \in SUBSET Ids
  /\ age \in [Ids -> 0..Interval]
  /\ trigger \in 0..1 /\ tick \in 0..1
  /\ toTick \in 1..Interval
  /\ pc \in {"select", "loop", "read", "put", "record"}
  /\ batch \in SUBSET Ids
  /\ cur \in Ids \cup {NULL}
  /\ pc \in {"read", "put", "record"} <=> cur # NULL
  /\ spent \in Nat
  /\ exp \in -1..TTL
  /\ ad \in [Ids -> (-1..TTL) \cup {NULL}]
  /\ caller \in [Callers -> Ids \cup {NULL}]
  /\ calls \in Nat /\ failures \in Nat

\* However often and by however many goroutines an id is enqueued, two
\* announcements of it are at least Interval apart: the test process makes
\* under the lock still holds when the announcement starts, after others.
RateLimit == [][\A id \in Ids : cur # id /\ cur' = id => age[id] >= Interval]_vars

\* What has been enqueued once is advertised again and again: no Enqueue is
\* lost because the trigger was full or the interval not over, and since an id
\* never leaves dirty its advertisement is renewed for ever.
EnqueuedIsAnnounced == \A id \in Ids : id \in dirty ~> (pc = "put" /\ cur = id)

\* The longest an advertisement may have to last.  Its own announceOnce takes
\* Delay after the stamp; a round over the other ids that starts just before the
\* interval is over leaves it out; the next round starts with the next tick, or
\* when that round ends, and announces it last.
RenewalBound ==
  LET n      == Cardinality(Ids)
      ticked == 2 * Interval - 1 + (n + 1) * Delay
      busy   == Interval - 1 + 2 * n * Delay
  IN  IF ticked > busy THEN ticked ELSE busy

\* As long as no write is lost, an advertisement is renewed before it expires if
\* TTL is at least RenewalBound, which grows with every id ever enqueued.
AdNeverLapses ==
  TTL >= RenewalBound /\ failures = 0 => \A id \in Ids : ad[id] # NULL => ad[id] >= 0
=============================================================================
