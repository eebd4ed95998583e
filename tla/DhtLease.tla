------------------------------ MODULE DhtLease ------------------------------
(***************************************************************************)
(* Leases kept in the DHT alone: Claim, Heartbeat and Release               *)
(* (internal/task/claim.go) over PutJSONCAS (internal/dht/node.go), which   *)
(* gets the record, checks it, puts the new one and gets it again to see    *)
(* whether its own put survived, up to Attempts times.                      *)
(*                                                                          *)
(* One task; every peer makes one call at a time.  The DHT is a register    *)
(* whose gets and puts take effect at once, except for MaxFaults of them.   *)
(* Expiries are relative: the seconds to go, 0 when the time has come.      *)
(***************************************************************************)
EXTENDS Naturals

CONSTANTS Peers,       \* peers that compete for the task
          TTL,         \* lease duration
          Attempts,    \* rounds of PutJSONCAS
          MaxCalls,    \* bound: calls of Claim, Heartbeat and Release
          MaxFaults,   \* bound: gets and puts that fail
          NULL         \* no peer

ASSUME NumberAssumption == TTL \in Nat \ {0} /\ Attempts \in Nat \ {0}
ASSUME NullAssumption == NULL \notin Peers

VARIABLES lease,       \* the record under the task's lease key
          local,       \* local[p]: p's localStore entry for that key
          call,        \* call[p]: the call p is in
          mine,        \* mine[p]: the nonce of the lease p believes to hold, 0 if none
          until,       \* until[p]: when p believes that lease to expire
          nonces,      \* nonces drawn so far
          calls,       \* calls made so far
          faults,      \* gets and puts that have failed
          serial       \* history: no fault, and no record read while another
                       \* peer was about to replace it

vars == <<lease, local, call, mine, until, nonces, calls, faults, serial>>

Absent == [owner |-> NULL, nonce |-> 0, exp |-> 0, version |-> 0]

NoCall == [op |-> "none", pc |-> "idle", nonce |-> 0, left |-> 0, next |-> Absent]

Init == /\ lease = Absent
        /\ local = [p \in Peers |-> Absent]
        /\ call = [p \in Peers |-> NoCall]
        /\ mine = [p \in Peers |-> 0]
        /\ until = [p \in Peers |-> 0]
        /\ nonces = 0 /\ calls = 0 /\ faults = 0
        /\ serial = TRUE

-----------------------------------------------------------------------------
(***************************************************************************)
(* The check functions: an error ends the call, a conflict costs a round.   *)
(***************************************************************************)
AliveLate(r) == r.owner # NULL /\ r.exp > 1

Alive(r) == r.owner # NULL /\ r.exp > 0

Owned(r, p) == r.owner = p /\ r.nonce = call[p].nonce

Busy(p, prev) == call[p].op = "claim" /\ Alive(prev)

Conflict(p, prev) == call[p].op # "claim" /\ prev.version = 0

StolenUnnoticed(p, prev) == call[p].op = "release" /\ prev.version # 0 /\ ~Owned(prev, p)

Stolen(p, prev) == call[p].op # "claim" /\ prev.version # 0 /\ ~Owned(prev, p)

NewLeaseUnversioned(p, prev) ==
  CASE call[p].op = "claim" ->
         [owner |-> p, nonce |-> call[p].nonce, exp |-> TTL, version |-> prev.version + 1]
    [] call[p].op = "heartbeat" -> [prev EXCEPT !.exp = TTL, !.version = @ + 1]
    [] call[p].op = "release" -> Absent

NewLease(p, prev) ==
  CASE call[p].op = "claim" ->
         [owner |-> p, nonce |-> call[p].nonce, exp |-> TTL, version |-> prev.version + 1]
    [] call[p].op = "heartbeat" -> [prev EXCEPT !.exp = TTL, !.version = @ + 1]
    [] call[p].op = "release" -> [Absent EXCEPT !.version = prev.version + 1]

-----------------------------------------------------------------------------
(***************************************************************************)
(* How a call ends.                                                         *)
(***************************************************************************)
Succeed(p) ==
  /\ call' = [call EXCEPT ![p] = NoCall]
  /\ mine' = [mine EXCEPT ![p] = IF call[p].op = "release" THEN 0 ELSE call[p].nonce]
  /\ until' = [until EXCEPT ![p] = IF call[p].op = "release" THEN 0 ELSE call[p].next.exp]

\* The peer stops unless it was a heartbeat that may be repeated.
Fail(p, stolen) ==
  /\ call' = [call EXCEPT ![p] = NoCall]
  /\ IF call[p].op = "heartbeat" /\ ~stolen
       THEN UNCHANGED <<mine, until>>
       ELSE /\ mine' = [mine EXCEPT ![p] = 0]
            /\ until' = [until EXCEPT ![p] = 0]

RetryForever(p) ==
  /\ call' = [call EXCEPT ![p] = [call[p] EXCEPT !.pc = "get", !.next = Absent]]
  /\ UNCHANGED <<mine, until>>

Retry(p) ==
  \/ /\ call[p].left > 1
     /\ call' = [call EXCEPT ![p] = [call[p] EXCEPT !.pc = "get", !.left = @ - 1,
                                                    !.next = Absent]]
     /\ UNCHANGED <<mine, until>>
  \/ /\ call[p].left = 1
     /\ Fail(p, FALSE)

-----------------------------------------------------------------------------
StartOneMore(p, op, nonce) ==
  /\ call[p].pc = "idle"
  /\ calls < MaxCalls
  /\ calls' = calls + 1
  /\ call' = [call EXCEPT ![p] = [op |-> op, pc |-> "get", nonce |-> nonce,
                                  left |-> Attempts + 1, next |-> Absent]]
  /\ UNCHANGED <<lease, local, mine, until, faults, serial>>

Start(p, op, nonce) ==
  /\ call[p].pc = "idle"
  /\ calls < MaxCalls
  /\ calls' = calls + 1
  /\ call' = [call EXCEPT ![p] = [op |-> op, pc |-> "get", nonce |-> nonce,
                                  left |-> Attempts, next |-> Absent]]
  /\ UNCHANGED <<lease, local, mine, until, faults, serial>>

Claim(p) ==
  /\ mine[p] = 0
  /\ Start(p, "claim", nonces + 1)
  /\ nonces' = nonces + 1

Heartbeat(p) == mine[p] # 0 /\ Start(p, "heartbeat", mine[p]) /\ UNCHANGED nonces

Release(p) == mine[p] # 0 /\ Start(p, "release", mine[p]) /\ UNCHANGED nonces

\* check(prev) decides on what the get returned.
Checked(p, prev) ==
  \/ /\ Busy(p, prev) \/ Stolen(p, prev)
     /\ Fail(p, TRUE)
  \/ /\ Conflict(p, prev)
     /\ Retry(p)
  \/ /\ ~Busy(p, prev) /\ ~Stolen(p, prev) /\ ~Conflict(p, prev)
     /\ call' = [call EXCEPT ![p] = [call[p] EXCEPT !.pc = "put", !.next = NewLease(p, prev)]]
     /\ UNCHANGED <<mine, until>>

Get(p) ==
  /\ call[p].pc = "get"
  /\ Checked(p, lease)
  /\ serial' = (serial /\ \A q \in Peers : call[q].pc # "put")
  /\ UNCHANGED <<lease, local, nonces, calls, faults>>

Fault == faults < MaxFaults /\ faults' = faults + 1 /\ serial' = FALSE

\* No answer from the network: the localStore is asked.
GetFails(p) ==
  /\ call[p].pc = "get"
  /\ Fault
  /\ Checked(p, local[p])
  /\ UNCHANGED <<lease, local, nonces, calls>>

Put(p) ==
  /\ call[p].pc = "put"
  /\ lease' = call[p].next
  /\ call' = [call EXCEPT ![p] = [call[p] EXCEPT !.pc = "verify"]]
  /\ UNCHANGED <<local, mine, until, nonces, calls, faults, serial>>

\* An error does not tell whether the put took effect.
PutFails(p) ==
  /\ call[p].pc = "put"
  /\ Fault
  /\ lease' \in {lease, call[p].next}
  /\ Retry(p)
  /\ UNCHANGED <<local, nonces, calls>>

\* No peer in the routing table: the record stays in this process.
PutAlone(p) ==
  /\ call[p].pc = "put"
  /\ Fault
  /\ local' = [local EXCEPT ![p] = call[p].next]
  /\ Succeed(p)
  /\ UNCHANGED <<lease, nonces, calls>>

Compared(p, after) ==
  \/ after = call[p].next /\ Succeed(p)
  \/ after # call[p].next /\ Retry(p)

Verify(p) ==
  /\ call[p].pc = "verify"
  /\ Compared(p, lease)
  /\ UNCHANGED <<lease, local, nonces, calls, faults, serial>>

\* An empty localStore costs the round, as a different record does.
VerifyFails(p) ==
  /\ call[p].pc = "verify"
  /\ Fault
  /\ Compared(p, local[p])
  /\ UNCHANGED <<lease, local, nonces, calls>>

Less(n) == IF n = 0 THEN 0 ELSE n - 1

Sooner(r) == [r EXCEPT !.exp = Less(@)]

Tick ==
  /\ lease' = Sooner(lease)
  /\ local' = [p \in Peers |-> Sooner(local[p])]
  /\ call' = [p \in Peers |-> [call[p] EXCEPT !.next = Sooner(@)]]
  /\ until' = [p \in Peers |-> Less(until[p])]
  /\ UNCHANGED <<mine, nonces, calls, faults, serial>>

-----------------------------------------------------------------------------
CallStep(p) ==
  \/ Get(p) \/ GetFails(p) \/ Put(p) \/ PutFails(p) \/ PutAlone(p)
  \/ Verify(p) \/ VerifyFails(p)

Next ==
  \/ \E p \in Peers : Claim(p) \/ Heartbeat(p) \/ Release(p) \/ CallStep(p)
  \/ Tick

Spec == Init /\ [][Next]_vars

\* A goroutine in a call runs on: DHT calls have timeouts, backoffs end.
FairSpec == Spec /\ \A p \in Peers : WF_vars(CallStep(p))

-----------------------------------------------------------------------------
(***************************************************************************)
(* Properties.                                                              *)
(***************************************************************************)
LeaseRecord == [owner : Peers \cup {NULL}, nonce : Nat, exp : 0..TTL, version : Nat]

\* The variables stay within the shapes the code gives them.
TypeOK ==
  /\ lease \in LeaseRecord
  /\ local \in [Peers -> LeaseRecord]
  /\ call \in [Peers -> [op : {"none", "claim", "heartbeat", "release"},
                         pc : {"idle", "get", "put", "verify"},
                         nonce : Nat, left : 0..Attempts, next : LeaseRecord]]
  /\ mine \in [Peers -> 0..nonces]
  /\ until \in [Peers -> 0..TTL]
  /\ nonces \in Nat /\ calls \in Nat /\ faults \in Nat
  /\ serial \in BOOLEAN

\* A peer that has begun to release its lease works under it no longer.
Believes(p) == mine[p] # 0 /\ until[p] > 0 /\ call[p].op # "release"

\* As long as no DHT call fails and no peer reads the record between another
\* one's read and put, at most one peer believes to hold an unexpired lease.
SerialClaimsExclude ==
  serial => \A p, q \in Peers : Believes(p) /\ Believes(q) => p = q

\* Under the same condition the version is a fencing token: it never goes back,
\* and every lease gets a greater one than all leases before.
VersionFences ==
  [][serial' => /\ lease'.version >= lease.version
                /\ lease'.nonce # lease.nonce => lease'.version > lease.version]_vars

\* Under the same condition PutJSONCAS is the compare-and-set its name promises: what
\* a put replaces is still what the check allowed (no unexpired lease for a claim,
\* the caller's own lease for a heartbeat or a release), and the version counts the
\* puts.
SerialIsCompareAndSet ==
  [][serial => \A p \in Peers :
       Put(p) => /\ lease'.version = lease.version + 1
                 /\ call[p].op = "claim" => ~Alive(lease)
                 /\ call[p].op # "claim" => Owned(lease, p)]_vars

\* Every call comes to an end, in spite of faults and of peers that go on
\* replacing the record.
CallReturns == \A p \in Peers : call[p].pc # "idle" ~> call[p].pc = "idle"

\* A claim never replaces an unexpired lease that another peer was granted.
ClaimPreemptsOnlyExpired ==
  [][\A p, q \in Peers :
       call[p].op = "claim" /\ Put(p)
         => ~(p # q /\ Believes(q) /\ lease.nonce = mine[q] /\ Alive(lease))]_vars

\* A heartbeat extends a lease only if its sender is the current owner.
HeartbeatOnlyByOwner ==
  [][\A p \in Peers :
       call[p].op = "heartbeat" /\ Put(p) => Owned(lease, p)]_vars
=============================================================================
