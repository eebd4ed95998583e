----------------------------- MODULE DhtProofs ------------------------------
(***************************************************************************)
(* The DHT: DhtNode for any number of agents, servers, callers and puts, and*)
(* DhtLease for any number of peers, calls and faults.                      *)
(***************************************************************************)
EXTENDS DhtNode, DhtLease, TLAPS

(***************************************************************************)
(* The inductive invariant.  A put under way is not among those reported as *)
(* done, so what it stores cannot have been superseded; no two puts under   *)
(* way write the same value; and while the control server is alone it has   *)
(* the latest record, no other node has one, no correction is on its way    *)
(* and no put is being sent.                                                *)
(***************************************************************************)
UnderWay ==
  /\ \A c \in Callers : /\ put[c].pc # "idle" => put[c].val \in (1..puts) \ done
                        /\ put[c].past \subseteq done
  /\ \A c, d \in Callers :
       c # d /\ put[c].pc # "idle" /\ put[d].pc # "idle" => put[c].val # put[d].val

Alone ==
  servers = {Control} =>
    /\ store[Control] = puts
    /\ \A a \in Agents : store[a] = 0
    /\ fix = {}
    /\ \A c \in Callers : put[c].pc # "send"
    /\ fallback \notin superseded

NodeInv ==
  /\ NodeTypeOK /\ UnderWay /\ Alone
  /\ fallback \notin forgotten
  /\ SoleServerFresh /\ FallbackForgets

-----------------------------------------------------------------------------
\* A node that has just started satisfies the invariant.
LEMMA NodeStarts == NodeInit => NodeInv
<1> SUFFICES ASSUME NodeInit PROVE NodeInv
  OBVIOUS
<1> USE NodeAssumption, PutAssumption DEF NodeInit, Nodes
<1>1. NoPut \in PutRecord
  BY DEF NoPut, PutRecord
<1>2. NodeTypeOK
  BY <1>1 DEF NodeTypeOK
<1>3. UnderWay /\ Alone
  BY DEF UnderWay, Alone, NoPut
<1> QED
  BY <1>2, <1>3 DEF NodeInv, SoleServerFresh, FallbackForgets

\* A caller's step in PutJSON or DelJSON leaves the other callers' puts alone: what
\* it reports as done is its own put, and the value it starts to write is new.
LEMMA OneCallerAtATime ==
  ASSUME NodeTypeOK, UnderWay, NEW c \in Callers, NEW r, r \in PutRecord',
         put' = [put EXCEPT ![c] = r], puts \in Nat, puts' \in {puts, puts + 1},
         \/ done' = done
         \/ done' = done \cup {put[c].val} /\ put[c].pc # "idle" /\ r.pc = "idle",
         r.past \subseteq done',
         \/ r.pc = "idle"
         \/ r.val = put[c].val /\ put[c].pc # "idle"
         \/ r.val = puts + 1 /\ puts' = puts + 1
  PROVE  put' \in [Callers -> PutRecord'] /\ UnderWay'
<1>1. PutRecord \subseteq PutRecord'
  BY DEF PutRecord
<1>2. put \in [Callers -> PutRecord] /\ done \in SUBSET (1..puts)
  BY DEF NodeTypeOK
<1>3. put' \in [Callers -> PutRecord'] /\ put'[c] = r
  BY <1>1, <1>2
<1>4. \A d \in Callers : d # c => put'[d] = put[d]
  BY <1>2
<1>5. \A d \in Callers : put[d].pc # "idle" => put[d].val \in (1..puts) \ done
  BY DEF UnderWay
<1>6. \A d \in Callers : d # c /\ put[c].pc # "idle" /\ put[d].pc # "idle"
                         => put[d].val # put[c].val
  BY DEF UnderWay
<1>7. ASSUME NEW d \in Callers
      PROVE  /\ put'[d].pc # "idle" => put'[d].val \in (1..puts') \ done'
             /\ put'[d].past \subseteq done'
  <2>1. CASE d = c
    BY <1>2, <1>3, <1>5, <2>1
  <2>2. CASE d # c
    <3>1. put[d].past \subseteq done
      BY DEF UnderWay
    <3> QED
      BY <1>2, <1>4, <1>5, <1>6, <2>2, <3>1
  <2> QED
    BY <2>1, <2>2
<1>8. ASSUME NEW d \in Callers, d # c, r.pc # "idle", put[d].pc # "idle"
      PROVE  put[d].val # r.val
  BY <1>5, <1>6, <1>8
<1>9. ASSUME NEW d \in Callers, NEW e \in Callers, d # e, put'[d].pc # "idle",
             put'[e].pc # "idle"
      PROVE  put'[d].val # put'[e].val
  <2>1. CASE d = c
    BY <1>3, <1>4, <1>8, <1>9, <2>1
  <2>2. CASE e = c
    BY <1>3, <1>4, <1>8, <1>9, <2>2
  <2>3. CASE d # c /\ e # c
    BY <1>4, <1>9, <2>3 DEF UnderWay
  <2> QED
    BY <2>1, <2>2, <2>3
<1> QED
  BY <1>3, <1>7, <1>9 DEF UnderWay

\* PutJSON's return, to its caller or to DelJSON, keeps the types and what is known
\* of the puts under way; what it supersedes are puts reported as done.
LEMMA ReturnsKeeps ==
  ASSUME NodeTypeOK, UnderWay, NEW c \in Callers, put[c].pc # "idle", Returns(c),
         fallback' \in 0..puts
  PROVE  /\ NodeTypeOK' /\ UnderWay'
         /\ superseded' \subseteq superseded \cup put[c].past
         /\ \A d \in Callers : put'[d].pc = "send" => put[d].pc = "send"
<1> USE NodeAssumption, PutAssumption
<1>t. /\ puts \in 0..MaxPuts /\ puts \in Nat /\ put \in [Callers -> PutRecord]
      /\ NoPut \in PutRecord /\ put[c] \in PutRecord
      /\ put[c].val \in (1..puts) \ done /\ put[c].past \subseteq done
  BY DEF NodeTypeOK, PutRecord, NoPut, UnderWay
<1>p. puts' = puts /\ PutRecord' = PutRecord
  BY DEF Returns, PutRecord
<1>1. CASE put[c].del
  <2> DEFINE r == [put[c] EXCEPT !.pc = "forget"]
  <2>1. /\ put' = [put EXCEPT ![c] = r]
        /\ done' = done /\ superseded' = superseded
    BY <1>1 DEF Returns
  <2>2. r \in PutRecord /\ r.pc = "forget" /\ r.val = put[c].val /\ r.past = put[c].past
    BY <1>t DEF PutRecord
  <2>3. put' \in [Callers -> PutRecord'] /\ UnderWay'
    <3> HIDE DEF r
    <3> QED
      BY <1>t, <1>p, <2>1, <2>2, OneCallerAtATime, ZenonT(60)
  <2>4. \A d \in Callers : put'[d].pc = "send" => put[d].pc = "send"
    BY <1>t, <2>1, <2>2
  <2> QED
    BY <2>1, <2>3, <2>4, <1>p DEF Returns, NodeTypeOK
<1>2. CASE ~put[c].del
  <2>1. /\ put' = [put EXCEPT ![c] = NoPut]
        /\ done' = done \cup {put[c].val} /\ superseded' = superseded \cup put[c].past
    BY <1>2 DEF Returns
  <2>2. NoPut.pc = "idle" /\ NoPut.past = {}
    BY DEF NoPut
  <2>3. put' \in [Callers -> PutRecord'] /\ UnderWay'
    BY <1>t, <1>p, <2>1, <2>2, OneCallerAtATime, ZenonT(60)
  <2>4. \A d \in Callers : put'[d].pc = "send" => put[d].pc = "send"
    BY <1>t, <2>1, <2>2
  <2> QED
    BY <1>t, <2>1, <2>3, <2>4, <1>p DEF Returns, NodeTypeOK
<1> QED
  BY <1>1, <1>2

\* Every step of PutJSON and DelJSON keeps the invariant.
LEMMA PutInductive ==
  ASSUME NodeInv, NEW c \in Callers, PutStep(c)
  PROVE  NodeInv'
<1> USE NodeAssumption, PutAssumption
<1>n. NodeTypeOK /\ UnderWay
  BY DEF NodeInv
<1>t. /\ puts \in 0..MaxPuts /\ puts \in Nat /\ put \in [Callers -> PutRecord]
      /\ NoPut \in PutRecord /\ NoPut.pc = "idle" /\ NoPut.past = {}
      /\ put[c] \in PutRecord
      /\ put[c].val \in 0..puts /\ put[c].to \in SUBSET Agents
      /\ put[c].past \subseteq done
      /\ put[c].pc # "idle" => put[c].val \in (1..puts) \ done
      /\ done \in SUBSET (1..puts) /\ superseded \subseteq done /\ forgotten \subseteq done
  BY <1>n DEF NodeTypeOK, PutRecord, NoPut, UnderWay
<1>a. puts' = puts => PutRecord' = PutRecord
  BY DEF PutRecord
<1>1. ASSUME NEW del \in BOOLEAN, PutStart(c, del)
      PROVE  NodeInv'
  <2> DEFINE r == [pc |-> "find", del |-> del, val |-> puts + 1, to |-> {}, past |-> done]
  <2>1. puts' = puts + 1 /\ puts' \in 0..MaxPuts /\ done' = done
    BY <1>1, <1>t DEF PutStart
  <2>2. r \in PutRecord' /\ r.pc = "find" /\ r.val = puts + 1 /\ r.past = done
    BY <2>1, <1>t DEF PutRecord
  <2>3. put' = [put EXCEPT ![c] = r]
    BY <1>1 DEF PutStart
  <2>4. put' \in [Callers -> PutRecord'] /\ UnderWay'
    <3> HIDE DEF r
    <3> QED
      BY <1>n, <1>t, <2>1, <2>2, <2>3, OneCallerAtATime, ZenonT(60)
  <2>5. NodeTypeOK'
    BY <1>1, <1>n, <1>t, <2>1, <2>4 DEF PutStart, NodeTypeOK, Nodes
  <2>6. \A d \in Callers : put'[d].pc = "send" => put[d].pc = "send"
    BY <1>t, <2>2, <2>3
  <2>7. Alone'
    BY <1>1, <1>n, <2>1, <2>6 DEF PutStart, NodeInv, Alone, NodeTypeOK, Nodes
  <2> QED
    BY <1>1, <2>4, <2>5, <2>7 DEF PutStart, NodeInv, SoleServerFresh, FallbackForgets
<1>2. CASE PutFinds(c)
  <2> DEFINE r == [put[c] EXCEPT !.pc = IF servers = {Control} THEN "store" ELSE "send",
                                 !.to = servers \ {Control}]
  <2>1. r \in PutRecord /\ r.val = put[c].val /\ r.past = put[c].past
        /\ (servers = {Control} => r.pc = "store")
    BY <1>n, <1>t DEF PutRecord, NodeTypeOK, Nodes
  <2>2. put' = [put EXCEPT ![c] = r] /\ puts' = puts /\ done' = done /\ put[c].pc # "idle"
    BY <1>2, ZenonT(60) DEF PutFinds
  <2>3. put' \in [Callers -> PutRecord'] /\ UnderWay'
    <3> HIDE DEF r
    <3> QED
      BY <1>n, <1>t, <1>a, <2>1, <2>2, OneCallerAtATime, ZenonT(60)
  <2>4. NodeTypeOK'
    BY <1>2, <1>n, <2>3 DEF PutFinds, NodeTypeOK
  <2>5. servers = {Control} => \A d \in Callers : put'[d].pc = "send" => put[d].pc = "send"
    BY <1>t, <2>1, <2>2
  <2>6. Alone'
    BY <1>2, <2>5, ZenonT(60) DEF PutFinds, NodeInv, Alone
  <2> QED
    BY <1>2, <2>3, <2>4, <2>6 DEF PutFinds, NodeInv, SoleServerFresh, FallbackForgets
<1>3. ASSUME NEW s \in Nodes, Send(c, s)
      PROVE  NodeInv'
  <2> DEFINE r == [put[c] EXCEPT !.to = put[c].to \ {s}]
  <2>1. r \in PutRecord /\ r.val = put[c].val /\ r.past = put[c].past
    BY <1>t DEF PutRecord
  <2>2. put' = [put EXCEPT ![c] = r] /\ puts' = puts /\ done' = done /\ put[c].pc # "idle"
    <3>1. put' = [put EXCEPT ![c] = r]
      BY <1>3, <1>t DEF Send
    <3> QED
      BY <1>3, <3>1 DEF Send
  <2>3. put' \in [Callers -> PutRecord'] /\ UnderWay'
    <3> HIDE DEF r
    <3> QED
      BY <1>n, <1>t, <1>a, <2>1, <2>2, OneCallerAtATime, ZenonT(60)
  <2>4. NodeTypeOK'
    BY <1>3, <1>n, <1>t, <2>3 DEF Send, NodeTypeOK
  <2>5. servers # {Control} /\ servers' = servers
    BY <1>3 DEF Send, NodeInv, Alone
  <2> QED
    BY <1>3, <2>3, <2>4, <2>5 DEF Send, NodeInv, Alone, SoleServerFresh, FallbackForgets
<1>4. CASE PutEnds(c)
  <2>1. put[c].pc # "idle" /\ Returns(c) /\ fallback' = fallback /\ fallback' \in 0..puts
    BY <1>4, <1>n DEF PutEnds, NodeTypeOK
  <2>2. NodeTypeOK' /\ UnderWay'
    BY <1>n, <2>1, ReturnsKeeps
  <2>3. servers # {Control} /\ servers' = servers
    BY <1>4 DEF PutEnds, Returns, NodeInv, Alone
  <2> QED
    BY <2>1, <2>2, <2>3 DEF Returns, NodeInv, Alone, SoleServerFresh, FallbackForgets
<1>5. CASE PutStores(c)
  <2>1. put[c].pc # "idle" /\ Returns(c) /\ fallback' = put[c].val
    BY <1>5 DEF PutStores
  <2>2. /\ NodeTypeOK' /\ UnderWay'
        /\ superseded' \subseteq superseded \cup put[c].past
        /\ \A d \in Callers : put'[d].pc = "send" => put[d].pc = "send"
    BY <1>n, <1>t, <2>1, ReturnsKeeps
  <2>3. fallback' \notin superseded' /\ fallback' \notin forgotten'
    BY <1>t, <2>1, <2>2 DEF Returns
  <2>4. Alone'
    BY <2>1, <2>2, <2>3 DEF Returns, NodeInv, Alone
  <2> QED
    BY <2>1, <2>2, <2>3, <2>4 DEF Returns, NodeInv, SoleServerFresh, FallbackForgets
<1>6. CASE PutTimesOut(c)
  <2>1. put' = [put EXCEPT ![c] = NoPut] /\ puts' = puts /\ done' = done
    BY <1>6 DEF PutTimesOut
  <2>2. put' \in [Callers -> PutRecord'] /\ UnderWay'
    BY <1>n, <1>t, <1>a, <2>1, OneCallerAtATime, ZenonT(60)
  <2>3. NodeTypeOK'
    BY <1>6, <1>n, <2>2 DEF PutTimesOut, NodeTypeOK
  <2>4. servers # {Control} /\ servers' = servers
    BY <1>6 DEF PutTimesOut, NodeInv, Alone
  <2> QED
    BY <1>6, <2>2, <2>3, <2>4 DEF PutTimesOut, NodeInv, Alone, SoleServerFresh,
                                  FallbackForgets
<1>7. CASE Forget(c)
  <2>1. /\ put' = [put EXCEPT ![c] = NoPut] /\ puts' = puts /\ put[c].pc # "idle"
        /\ done' = done \cup {put[c].val} /\ fallback' = 0
        /\ superseded' = superseded \cup put[c].past
        /\ forgotten' = forgotten \cup put[c].past
    BY <1>7 DEF Forget, Deleted
  <2>2. put' \in [Callers -> PutRecord'] /\ UnderWay'
    BY <1>n, <1>t, <1>a, <2>1, OneCallerAtATime, ZenonT(60)
  <2>3. NodeTypeOK'
    <3>1. /\ done' \in SUBSET (1..puts)
          /\ superseded' \in SUBSET done' /\ forgotten' \in SUBSET done'
      BY <1>t, <2>1, ZenonT(60)
    <3>2. fallback' \in 0..puts
      BY <1>t, <2>1
    <3> QED
      BY <1>7, <1>n, <2>1, <2>2, <3>1, <3>2 DEF Forget, Deleted, NodeTypeOK
  <2>4. fallback' \notin superseded' /\ fallback' \notin forgotten'
    BY <1>t, <2>1
  <2>5. \A d \in Callers : put'[d].pc = "send" => put[d].pc = "send"
    BY <1>t, <2>1
  <2>6. Alone'
    BY <1>7, <2>4, <2>5 DEF Forget, Deleted, NodeInv, Alone
  <2> QED
    BY <1>7, <2>2, <2>3, <2>4, <2>6 DEF Forget, Deleted, NodeInv, SoleServerFresh,
                                        FallbackForgets
<1> QED
  BY <1>1, <1>2, <1>3, <1>4, <1>5, <1>6, <1>7 DEF PutStep

\* Every step keeps the invariant.
LEMMA NodeInductive == NodeInv /\ [NodeNext]_nodeVars => NodeInv'
<1> SUFFICES ASSUME NodeInv, [NodeNext]_nodeVars
             PROVE  NodeInv'
  OBVIOUS
<1> USE NodeAssumption, PutAssumption
<1>n. NodeTypeOK /\ puts \in Nat
  BY DEF NodeInv, NodeTypeOK
<1>1. ASSUME NEW c \in Callers, PutStep(c)
      PROVE  NodeInv'
  BY <1>1, PutInductive
<1>2. ASSUME NEW n \in Nodes, GetJSON(n)
      PROVE  NodeInv'
  <2>1. PICK s \in IF store[n] # 0 THEN {n} ELSE servers :
          /\ store[s] # 0
          /\ Got("network", store[s])
          /\ fix' = fix \cup {[to |-> r, val |-> store[s]] :
                               r \in {q \in servers \ {n} : store[q] # store[s]}}
    BY <1>2 DEF GetJSON
  <2>2. s \in Nodes /\ store[s] \in 0..puts /\ servers \subseteq Nodes
    BY <1>n, <2>1 DEF NodeTypeOK
  <2>3. fix' \in SUBSET [to : Nodes, val : 0..puts]
    BY <1>n, <2>1, <2>2 DEF NodeTypeOK
  <2>4. got' \in [via : {"none", "network", "fallback"}, val : 0..puts,
                  done : SUBSET (1..puts), superseded : SUBSET (1..puts),
                  forgotten : SUBSET (1..puts)]
    BY <1>n, <2>1, <2>2 DEF Got, NodeTypeOK
  <2>5. NodeTypeOK'
    BY <1>2, <1>n, <2>3, <2>4 DEF GetJSON, NodeTypeOK, PutRecord
  <2>6. got'.via = "network" /\ got'.val = store[s] /\ got'.done = done
    BY <2>1 DEF Got
  <2>7. ASSUME servers = {Control}
        PROVE  s = Control /\ store[s] = puts /\ fix' = {}
    <3>1. s = Control /\ store[s] = puts /\ fix = {}
      BY <2>1, <2>2, <2>7 DEF NodeInv, Alone, Nodes
    <3>2. {q \in servers \ {n} : store[q] # store[s]} = {}
      BY <2>7, <3>1
    <3> QED
      BY <2>1, <3>1, <3>2
  <2>8. Alone' /\ UnderWay'
    BY <1>2, <2>7 DEF GetJSON, NodeInv, Alone, UnderWay
  <2>9. SoleServerFresh'
    <3>1. \A v \in done : puts >= v
      BY <1>n DEF NodeTypeOK
    <3>2. servers' = servers
      BY <1>2 DEF GetJSON
    <3> QED
      BY <2>6, <2>7, <3>1, <3>2 DEF SoleServerFresh
  <2> QED
    BY <1>2, <2>5, <2>6, <2>8, <2>9 DEF GetJSON, NodeInv, FallbackForgets
<1>3. CASE GetJSONFails
  <2>1. /\ got'.via = "fallback" /\ got'.val = fallback
        /\ got'.superseded = superseded /\ got'.forgotten = forgotten
    BY <1>3 DEF GetJSONFails, Got
  <2>2. NodeTypeOK'
    BY <1>3, <1>n DEF GetJSONFails, Got, NodeTypeOK, PutRecord
  <2>3. Alone' /\ UnderWay'
    BY <1>3 DEF GetJSONFails, NodeInv, Alone, UnderWay
  <2> QED
    BY <1>3, <2>1, <2>2, <2>3 DEF GetJSONFails, NodeInv, Alone, SoleServerFresh,
                                  FallbackForgets
<1>4. CASE Fix
  <2>1. NodeTypeOK'
    BY <1>4, <1>n DEF Fix, NodeTypeOK, PutRecord
  <2>2. servers # {Control} /\ servers' = servers
    BY <1>4 DEF Fix, NodeInv, Alone
  <2> QED
    BY <1>4, <2>1, <2>2 DEF Fix, NodeInv, Alone, UnderWay, SoleServerFresh, FallbackForgets
<1>5. ASSUME NEW a \in Agents, Join(a)
      PROVE  NodeInv'
  <2>1. NodeTypeOK'
    BY <1>5, <1>n DEF Join, NodeTypeOK, PutRecord, Nodes
  <2>2. servers' # {Control}
    BY <1>5 DEF Join
  <2> QED
    BY <1>5, <2>1, <2>2 DEF Join, NodeInv, Alone, UnderWay, SoleServerFresh, FallbackForgets
<1>6. CASE UNCHANGED nodeVars
  BY <1>6 DEF nodeVars, NodeInv, NodeTypeOK, PutRecord, Alone, UnderWay, SoleServerFresh,
              FallbackForgets
<1> QED
  BY <1>1, <1>2, <1>3, <1>4, <1>5, <1>6 DEF NodeNext

\* The control server's DHT node satisfies the invariant at every moment, however the
\* puts of its handlers and loops interleave.
THEOREM NodeInvCorrect == NodeSpec => []NodeInv
BY NodeStarts, NodeInductive, PTL DEF NodeSpec

\* Every node, correction and answer holds a record that was put; the control
\* server always serves, and a put is sent to agents only.
THEOREM NodeTypeCorrect == NodeSpec => []NodeTypeOK
<1>1. NodeInv => NodeTypeOK
  BY DEF NodeInv
<1> QED
  BY <1>1, NodeInvCorrect, PTL

\* As long as no agent has become a DHT server, GetJSON returns nothing older than a
\* put that was reported as done, or from localStore nothing that a put or deletion
\* begun after it had returned has replaced, however many callers put at a time.
THEOREM SoleServerFreshHolds == NodeSpec => []SoleServerFresh
<1>1. NodeInv => SoleServerFresh
  BY DEF NodeInv
<1> QED
  BY <1>1, NodeInvCorrect, PTL

\* localStore never brings back a record whose put had returned when a DelJSON that
\* has returned was called, whatever agents become servers, whichever puts time out
\* and whichever overlap.
THEOREM FallbackForgetsHolds == NodeSpec => []FallbackForgets
<1>1. NodeInv => FallbackForgets
  BY DEF NodeInv
<1> QED
  BY <1>1, NodeInvCorrect, PTL

-----------------------------------------------------------------------------
(***************************************************************************)
(* DhtLease.  What a call has in hand: Heartbeat and Release act under the  *)
(* nonce the peer holds, and what Claim and Heartbeat write names the peer. *)
(***************************************************************************)
Fits(p, c, held) ==
  /\ c.pc = "idle" <=> c.op = "none"
  /\ c.nonce <= nonces
  /\ c.op \in {"heartbeat", "release"} => c.nonce = held
  /\ c.pc \in {"put", "verify"} /\ c.op # "release"
       => c.next.owner = p /\ c.next.nonce = c.nonce

CallInv == TypeOK /\ \A p \in Peers : Fits(p, call[p], mine[p])

(***************************************************************************)
(* As long as the calls are serial, the peer about to put is alone and the  *)
(* record is still the one it has checked, and who believes to hold the     *)
(* lease is the one the record names, for at least as long.                 *)
(***************************************************************************)
Current(p) ==
  call[p].pc = "put" =>
    /\ \A q \in Peers : call[q].pc = "put" => q = p
    /\ call[p].next.version = lease.version + 1
    /\ call[p].op = "claim" => ~Alive(lease)
    /\ call[p].op # "claim" => Owned(lease, p)
    /\ call[p].op = "heartbeat" => call[p].next.exp >= lease.exp

Backed(p) ==
  Believes(p) => lease.owner = p /\ lease.nonce = mine[p] /\ lease.exp >= until[p]

SerialInv == serial => \A p \in Peers : Current(p) /\ Backed(p)

-----------------------------------------------------------------------------
(***************************************************************************)
(* What a step of p's call does to p, and that it does nothing to others.   *)
(***************************************************************************)
CallRecord == [op : {"none", "claim", "heartbeat", "release"},
               pc : {"idle", "get", "put", "verify"},
               nonce : Nat, left : 0..Attempts, next : LeaseRecord]

Alters(p, c, m, u) ==
  /\ call' = [call EXCEPT ![p] = c]
  /\ mine' = [mine EXCEPT ![p] = m]
  /\ until' = [until EXCEPT ![p] = u]

\* The call ends without success: the peer stops, or may repeat its heartbeat.
GivesUp(p) ==
  \/ Alters(p, NoCall, 0, 0)
  \/ call[p].op = "heartbeat" /\ Alters(p, NoCall, mine[p], until[p])

\* The next round of the same call.
Repeats(p) ==
  \E n \in 0..Attempts :
    Alters(p, [call[p] EXCEPT !.pc = "get", !.left = n, !.next = Absent], mine[p], until[p])

Succeeds(p) ==
  \/ call[p].op = "release" /\ Alters(p, NoCall, 0, 0)
  \/ call[p].op # "release" /\ Alters(p, NoCall, call[p].nonce, call[p].next.exp)

\* The check is passed; NewLease is about to be put.
Proceeds(p, prev) ==
  /\ ~Busy(p, prev) /\ ~Stolen(p, prev) /\ ~Conflict(p, prev)
  /\ Alters(p, [call[p] EXCEPT !.pc = "put", !.next = NewLease(p, prev)], mine[p], until[p])

\* Functions that are unchanged are changed to what they are.
LEMMA AltersNothing ==
  ASSUME TypeOK, NEW p \in Peers, UNCHANGED <<mine, until>>
  PROVE  mine' = [mine EXCEPT ![p] = mine[p]] /\ until' = [until EXCEPT ![p] = until[p]]
BY DEF TypeOK

\* A failed call gives up.
LEMMA FailGivesUp ==
  ASSUME TypeOK, NEW p \in Peers, NEW stolen \in BOOLEAN, Fail(p, stolen)
  PROVE  GivesUp(p)
BY AltersNothing DEF Fail, GivesUp, Alters

\* PutJSONCAS goes round again, or gives up after its last attempt.
LEMMA RetryRepeats ==
  ASSUME TypeOK, NEW p \in Peers, Retry(p)
  PROVE  GivesUp(p) \/ Repeats(p)
<1> DEFINE n == call[p].left - 1
<1>1. CASE call[p].left = 1 /\ Fail(p, FALSE)
  BY <1>1, FailGivesUp, ZenonT(60)
<1>2. CASE call[p].left > 1 /\ ~(call[p].left = 1 /\ Fail(p, FALSE))
  <2>1. call[p].left \in 0..Attempts
    BY DEF TypeOK
  <2>2. n \in 0..Attempts
    BY <1>2, <2>1, NumberAssumption
  <2>3. call' = [call EXCEPT ![p] = [call[p] EXCEPT !.pc = "get", !.left = n, !.next = Absent]]
    BY <1>2, ZenonT(60) DEF Retry
  <2>4. mine' = [mine EXCEPT ![p] = mine[p]] /\ until' = [until EXCEPT ![p] = until[p]]
    BY <1>2, AltersNothing, ZenonT(60) DEF Retry
  <2> QED
    BY <2>2, <2>3, <2>4, Zenon DEF Repeats, Alters
<1> QED
  BY <1>1, <1>2, ZenonT(60) DEF Retry

\* After a get, the call ends, goes round again or proceeds to its put.
LEMMA CheckedOutcome ==
  ASSUME TypeOK, NEW p \in Peers, NEW prev, Checked(p, prev)
  PROVE  GivesUp(p) \/ Repeats(p) \/ Proceeds(p, prev)
BY FailGivesUp, RetryRepeats, AltersNothing, ZenonT(60) DEF Checked, Proceeds, Alters

\* After the second get, the call succeeds, ends or goes round again.
LEMMA ComparedOutcome ==
  ASSUME TypeOK, NEW p \in Peers, NEW after, Compared(p, after)
  PROVE  \/ after = call[p].next /\ Succeeds(p)
         \/ GivesUp(p) \/ Repeats(p)
BY RetryRepeats DEF Compared, Succeed, Succeeds, Alters

-----------------------------------------------------------------------------
\* An alteration touches p alone.
LEMMA AltersOne ==
  ASSUME TypeOK, NEW p \in Peers, NEW c \in CallRecord, NEW m \in 0..nonces, NEW u \in 0..TTL,
         Alters(p, c, m, u)
  PROVE  /\ call' \in [Peers -> CallRecord] /\ mine' \in [Peers -> 0..nonces]
         /\ until' \in [Peers -> 0..TTL]
         /\ call'[p] = c /\ mine'[p] = m /\ until'[p] = u
         /\ \A q \in Peers : q # p => /\ call'[q] = call[q]
                                      /\ mine'[q] = mine[q]
                                      /\ until'[q] = until[q]
BY DEF TypeOK, Alters, CallRecord

\* An alteration to a fitting call keeps the invariant.
LEMMA AltersFits ==
  ASSUME CallInv, NEW p \in Peers, NEW c \in CallRecord, NEW m \in 0..nonces, NEW u \in 0..TTL,
         Alters(p, c, m, u), Fits(p, c, m), nonces' = nonces
  PROVE  /\ call' \in [Peers -> CallRecord] /\ mine' \in [Peers -> 0..nonces']
         /\ until' \in [Peers -> 0..TTL]
         /\ \A q \in Peers : Fits(q, call[q], mine[q])'
<1>1. /\ call' \in [Peers -> CallRecord] /\ mine' \in [Peers -> 0..nonces]
      /\ until' \in [Peers -> 0..TTL]
      /\ call'[p] = c /\ mine'[p] = m
      /\ \A q \in Peers : q # p => call'[q] = call[q] /\ mine'[q] = mine[q]
  BY AltersOne DEF CallInv
<1>2. ASSUME NEW q \in Peers
      PROVE  Fits(q, call[q], mine[q])'
  <2>1. CASE q = p
    BY <1>1, <2>1 DEF Fits
  <2>2. CASE q # p
    BY <1>1, <2>2 DEF Fits, CallInv
  <2> QED
    BY <2>1, <2>2
<1> QED
  BY <1>1, <1>2

\* No record and no call have their types.
LEMMA NothingTyped == Absent \in LeaseRecord /\ NoCall \in CallRecord
BY NumberAssumption DEF Absent, NoCall, LeaseRecord, CallRecord

\* The record a passed check lets through: the next version, in the peer's name
\* unless it is released.
LEMMA NewLeaseFits ==
  ASSUME CallInv, NEW p \in Peers, NEW prev \in LeaseRecord,
         call[p].op # "none", ~Stolen(p, prev), ~Conflict(p, prev)
  PROVE  /\ NewLease(p, prev) \in LeaseRecord
         /\ NewLease(p, prev).version = prev.version + 1
         /\ call[p].op # "release" => /\ NewLease(p, prev).owner = p
                                      /\ NewLease(p, prev).nonce = call[p].nonce
                                      /\ NewLease(p, prev).exp = TTL
<1> USE NumberAssumption, NothingTyped DEF CallInv, TypeOK
<1>1. call[p] \in CallRecord
  BY DEF CallRecord
<1>2. CASE call[p].op = "claim"
  BY <1>1, <1>2 DEF NewLease, LeaseRecord, CallRecord
<1>3. CASE call[p].op = "heartbeat"
  <2>1. NewLease(p, prev) = [prev EXCEPT !.exp = TTL, !.version = prev.version + 1]
    BY <1>3 DEF NewLease
  <2>2. prev.owner = p /\ prev.nonce = call[p].nonce
    BY <1>3 DEF Stolen, Conflict, Owned
  <2>3. prev.version + 1 \in Nat /\ TTL \in 0..TTL
    BY DEF LeaseRecord
  <2> QED
    BY <1>3, <2>1, <2>2, <2>3, ZenonT(60) DEF LeaseRecord
<1>4. CASE call[p].op = "release"
  <2>1. NewLease(p, prev) = [Absent EXCEPT !.version = prev.version + 1]
    BY <1>4 DEF NewLease
  <2>2. prev.version + 1 \in Nat
    BY DEF LeaseRecord
  <2> QED
    BY <1>4, <2>1, <2>2, ZenonT(60) DEF LeaseRecord
<1> QED
  BY <1>1, <1>2, <1>3, <1>4 DEF CallRecord

\* However a call goes on, it fits.
LEMMA OutcomeFits ==
  ASSUME CallInv, NEW p \in Peers, nonces' = nonces, NEW prev \in LeaseRecord,
         call[p].pc # "idle",
         \/ GivesUp(p) \/ Repeats(p)
         \/ call[p].pc = "get" /\ Proceeds(p, prev)
         \/ call[p].pc # "get" /\ Succeeds(p)
  PROVE  /\ call' \in [Peers -> CallRecord] /\ mine' \in [Peers -> 0..nonces']
         /\ until' \in [Peers -> 0..TTL]
         /\ \A q \in Peers : Fits(q, call[q], mine[q])'
<1> USE NumberAssumption, NothingTyped
<1>0. /\ call[p] \in CallRecord /\ mine[p] \in 0..nonces /\ until[p] \in 0..TTL
      /\ nonces \in Nat /\ Fits(p, call[p], mine[p])
      /\ call[p].nonce \in 0..nonces /\ call[p].next.exp \in 0..TTL
  BY DEF CallInv, TypeOK, CallRecord, Fits, LeaseRecord
<1>1. \A m \in 0..nonces : Fits(p, NoCall, m)
  BY <1>0, SMTT(60) DEF Fits, NoCall
<1>2. CASE GivesUp(p)
  BY <1>0, <1>1, <1>2, AltersFits, SMTT(60) DEF GivesUp
<1>3. CASE Repeats(p)
  <2>1. PICK n \in 0..Attempts :
          Alters(p, [call[p] EXCEPT !.pc = "get", !.left = n, !.next = Absent], mine[p], until[p])
    BY <1>3, ZenonT(60) DEF Repeats
  <2> DEFINE c == [call[p] EXCEPT !.pc = "get", !.left = n, !.next = Absent]
  <2>2. c \in CallRecord
    BY <1>0, ZenonT(60) DEF CallRecord
  <2>3. Fits(p, c, mine[p])
    BY <1>0 DEF Fits, CallRecord
  <2>4. Alters(p, c, mine[p], until[p])
    BY <2>1, SMTT(60)
  <2> HIDE DEF c
  <2> QED
    BY <1>0, <2>2, <2>3, <2>4, AltersFits, SMTT(60)
<1>4. CASE call[p].pc = "get" /\ Proceeds(p, prev)
  <2> DEFINE r == NewLease(p, prev)
             c == [call[p] EXCEPT !.pc = "put", !.next = r]
  <2>1. /\ r \in LeaseRecord
        /\ call[p].op # "release" => r.owner = p /\ r.nonce = call[p].nonce
    BY <1>0, <1>4, NewLeaseFits DEF Proceeds, Fits
  <2>2. Alters(p, c, mine[p], until[p])
    BY <1>4 DEF Proceeds
  <2> HIDE DEF r
  <2>3. c \in CallRecord
    BY <1>0, <2>1, ZenonT(60) DEF CallRecord
  <2>4. Fits(p, c, mine[p])
    BY <1>0, <1>4, <2>1, SMTT(60) DEF Fits, CallRecord
  <2> HIDE DEF c
  <2> QED
    BY <1>0, <2>2, <2>3, <2>4, AltersFits
<1>5. CASE call[p].pc # "get" /\ Succeeds(p)
  BY <1>0, <1>1, <1>5, AltersFits DEF Succeeds
<1> QED
  BY <1>2, <1>3, <1>4, <1>5

\* A call that starts fits, and so do the others.
LEMMA StartFits ==
  ASSUME CallInv, NEW p \in Peers, NEW op \in {"claim", "heartbeat", "release"},
         NEW n \in Nat, Start(p, op, n), nonces' \in Nat, nonces' >= nonces, n <= nonces',
         op # "claim" => n = mine[p]
  PROVE  CallInv'
<1> USE NumberAssumption, NothingTyped DEF CallInv, TypeOK
<1> DEFINE c == [op |-> op, pc |-> "get", nonce |-> n, left |-> Attempts, next |-> Absent]
<1>1. c \in CallRecord
  BY DEF CallRecord
<1>2. call' = [call EXCEPT ![p] = c]
  BY DEF Start
<1>3. c.pc = "get" /\ c.op = op /\ c.nonce = n
  OBVIOUS
<1> HIDE DEF c
<1>4. call' \in [Peers -> CallRecord]
  BY <1>1, <1>2 DEF CallRecord
<1>5. call'[p] = c /\ \A q \in Peers : q # p => call'[q] = call[q]
  BY <1>2
<1>6. ASSUME NEW q \in Peers
      PROVE  Fits(q, call[q], mine[q])'
  <2>1. mine' = mine /\ mine[q] \in 0..nonces /\ call[q].nonce \in Nat
    BY DEF Start
  <2>2. CASE q = p
    BY <1>3, <1>5, <2>1, <2>2 DEF Fits
  <2>3. CASE q # p
    BY <1>5, <2>1, <2>3 DEF Fits
  <2> QED
    BY <2>2, <2>3
<1>7. mine' \in [Peers -> 0..nonces']
  BY DEF Start
<1> QED
  BY <1>4, <1>6, <1>7 DEF Start, CallRecord

\* Time takes nothing but exp from a record.
LEMMA SoonerTyped ==
  ASSUME NEW r \in LeaseRecord
  PROVE  /\ Sooner(r) \in LeaseRecord
         /\ Sooner(r).owner = r.owner /\ Sooner(r).nonce = r.nonce
         /\ Sooner(r).version = r.version /\ Sooner(r).exp = Less(r.exp)
BY NumberAssumption DEF Sooner, Less, LeaseRecord

\* What Tick does to a peer.
LEMMA TickOne ==
  ASSUME TypeOK, Tick
  PROVE  /\ call' \in [Peers -> CallRecord]
         /\ \A p \in Peers : /\ call'[p].op = call[p].op /\ call'[p].pc = call[p].pc
                             /\ call'[p].nonce = call[p].nonce
                             /\ call'[p].next = Sooner(call[p].next)
<1>1. \A p \in Peers : call[p] \in CallRecord /\ Sooner(call[p].next) \in LeaseRecord
  BY SoonerTyped DEF TypeOK, CallRecord
<1>2. \A p \in Peers : call'[p] = [call[p] EXCEPT !.next = Sooner(call[p].next)]
  BY DEF Tick
<1>3. DOMAIN call' = Peers /\ call' = [p \in Peers |-> call'[p]]
  BY DEF Tick
<1>4. ASSUME NEW p \in Peers
      PROVE  /\ call'[p] \in CallRecord
             /\ call'[p].op = call[p].op /\ call'[p].pc = call[p].pc
             /\ call'[p].nonce = call[p].nonce
             /\ call'[p].next = Sooner(call[p].next)
  BY <1>1, <1>2, ZenonT(60) DEF CallRecord
<1> QED
  BY <1>3, <1>4

\* Every step keeps the calls fitting.
LEMMA CallInductive == CallInv /\ [Next]_vars => CallInv'
<1> SUFFICES ASSUME CallInv, [Next]_vars
             PROVE  CallInv'
  OBVIOUS
<1> USE NumberAssumption, NothingTyped
<1>1. ASSUME NEW p \in Peers, Claim(p)
      PROVE  CallInv'
  <2>1. nonces \in Nat /\ nonces' = nonces + 1 /\ Start(p, "claim", nonces + 1)
    BY <1>1 DEF Claim, CallInv, TypeOK
  <2> QED
    BY <2>1, StartFits
<1>2. ASSUME NEW p \in Peers, Heartbeat(p) \/ Release(p)
      PROVE  CallInv'
  <2>1. nonces \in Nat /\ nonces' = nonces /\ mine[p] \in 0..nonces
    BY <1>2 DEF Heartbeat, Release, CallInv, TypeOK
  <2> QED
    BY <1>2, <2>1, StartFits DEF Heartbeat, Release
<1>3. ASSUME NEW p \in Peers, Get(p) \/ GetFails(p)
      PROVE  CallInv'
  <2>1. PICK prev \in LeaseRecord : Checked(p, prev) /\ call[p].pc = "get"
    BY <1>3, SMTT(60) DEF Get, GetFails, CallInv, TypeOK
  <2>2. GivesUp(p) \/ Repeats(p) \/ Proceeds(p, prev)
    BY <2>1, CheckedOutcome, SMTT(60) DEF CallInv
  <2>3. /\ call' \in [Peers -> CallRecord] /\ mine' \in [Peers -> 0..nonces']
        /\ until' \in [Peers -> 0..TTL]
        /\ \A q \in Peers : Fits(q, call[q], mine[q])'
    BY <1>3, <2>1, <2>2, OutcomeFits DEF Get, GetFails
  <2>4. serial' \in BOOLEAN
    BY <1>3, Zenon DEF Get, GetFails, Fault
  <2>5. UNCHANGED <<lease, local, calls>> /\ nonces' \in Nat /\ faults' \in Nat
    BY <1>3 DEF Get, GetFails, Fault, CallInv, TypeOK
  <2> QED
    BY <2>3, <2>4, <2>5 DEF CallInv, TypeOK, CallRecord
<1>4. ASSUME NEW p \in Peers, Put(p)
      PROVE  CallInv'
  <2> DEFINE c == [call[p] EXCEPT !.pc = "verify"]
  <2>1. call[p] \in CallRecord /\ mine[p] \in 0..nonces /\ until[p] \in 0..TTL
    BY DEF CallInv, TypeOK, CallRecord
  <2>2. c \in CallRecord
    BY <2>1 DEF CallRecord
  <2>3. Fits(p, c, mine[p])
    BY <1>4, <2>1 DEF Put, CallInv, Fits, CallRecord
  <2>4. Alters(p, c, mine[p], until[p])
    BY <1>4, AltersNothing DEF Put, Alters, CallInv
  <2> HIDE DEF c
  <2>5. /\ call' \in [Peers -> CallRecord] /\ mine' \in [Peers -> 0..nonces']
        /\ until' \in [Peers -> 0..TTL]
        /\ \A q \in Peers : Fits(q, call[q], mine[q])'
    BY <1>4, <2>1, <2>2, <2>3, <2>4, AltersFits, ZenonT(60) DEF Put
  <2>6. lease' \in LeaseRecord
    BY <1>4, <2>1 DEF Put, CallRecord
  <2> QED
    BY <1>4, <2>5, <2>6 DEF Put, CallInv, TypeOK, CallRecord
<1>5. ASSUME NEW p \in Peers, PutFails(p) \/ PutAlone(p)
      PROVE  CallInv'
  <2>1. GivesUp(p) \/ Repeats(p) \/ Succeeds(p)
    BY <1>5, RetryRepeats, SMTT(60) DEF PutFails, PutAlone, CallInv, Succeed, Succeeds, Alters
  <2>2. /\ call' \in [Peers -> CallRecord] /\ mine' \in [Peers -> 0..nonces']
        /\ until' \in [Peers -> 0..TTL]
        /\ \A q \in Peers : Fits(q, call[q], mine[q])'
    BY <1>5, <2>1, OutcomeFits DEF PutFails, PutAlone
  <2>3. call[p].next \in LeaseRecord
    BY DEF CallInv, TypeOK
  <2>4. lease' \in LeaseRecord /\ local' \in [Peers -> LeaseRecord]
    BY <1>5, <2>3 DEF PutFails, PutAlone, CallInv, TypeOK
  <2>5. serial' \in BOOLEAN
    BY <1>5, Zenon DEF PutFails, PutAlone, Fault
  <2>6. calls' = calls /\ nonces' \in Nat /\ faults' \in Nat
    BY <1>5 DEF PutFails, PutAlone, Fault, CallInv, TypeOK
  <2> QED
    BY <2>2, <2>4, <2>5, <2>6 DEF CallInv, TypeOK, CallRecord
<1>6. ASSUME NEW p \in Peers, Verify(p) \/ VerifyFails(p)
      PROVE  CallInv'
  <2>1. PICK after : Compared(p, after) /\ call[p].pc = "verify"
    BY <1>6, ZenonT(60) DEF Verify, VerifyFails
  <2>2. GivesUp(p) \/ Repeats(p) \/ Succeeds(p)
    <3>1. TypeOK
      BY DEF CallInv
    <3> QED
      BY <2>1, <3>1, ComparedOutcome, ZenonT(60)
  <2>3. /\ call' \in [Peers -> CallRecord] /\ mine' \in [Peers -> 0..nonces']
        /\ until' \in [Peers -> 0..TTL]
        /\ \A q \in Peers : Fits(q, call[q], mine[q])'
    BY <1>6, <2>1, <2>2, OutcomeFits DEF Verify, VerifyFails
  <2>4. serial' \in BOOLEAN
    BY <1>6, Zenon DEF Verify, VerifyFails, Fault, CallInv, TypeOK
  <2>5. UNCHANGED <<lease, local, calls>> /\ nonces' \in Nat /\ faults' \in Nat
    BY <1>6 DEF Verify, VerifyFails, Fault, CallInv, TypeOK
  <2> QED
    BY <2>3, <2>4, <2>5, SMTT(60) DEF CallInv, TypeOK, CallRecord
<1>7. CASE Tick
  <2>1. /\ call' \in [Peers -> CallRecord] /\ lease' \in LeaseRecord
        /\ local' \in [Peers -> LeaseRecord] /\ until' \in [Peers -> 0..TTL]
    <3>1. lease' \in LeaseRecord
      BY <1>7, SoonerTyped DEF Tick, CallInv, TypeOK
    <3>2. local' \in [Peers -> LeaseRecord]
      BY <1>7, SoonerTyped DEF Tick, CallInv, TypeOK
    <3>3. until' \in [Peers -> 0..TTL]
      <4>1. \A u \in 0..TTL : Less(u) \in 0..TTL
        BY DEF Less
      <4> QED
        BY <1>7, <4>1 DEF Tick, CallInv, TypeOK
    <3>4. call' \in [Peers -> CallRecord]
      BY <1>7, TickOne, Zenon DEF CallInv
    <3> QED
      BY <3>1, <3>2, <3>3, <3>4
  <2>2. ASSUME NEW p \in Peers
        PROVE  Fits(p, call[p], mine[p])'
    <3>1. call[p].next \in LeaseRecord
      BY DEF CallInv, TypeOK
    <3> QED
      BY <1>7, <3>1, TickOne, SoonerTyped DEF Fits, CallInv, Tick
  <2> QED
    BY <1>7, <2>1, <2>2 DEF Tick, CallInv, TypeOK, CallRecord
<1>8. CASE UNCHANGED vars
  BY <1>8 DEF vars, CallInv, TypeOK, Fits
<1> QED
  BY <1>1, <1>2, <1>3, <1>4, <1>5, <1>6, <1>7, <1>8 DEF Next, CallStep

\* Calls keep their shapes and attempts their bound, and a heartbeat or a release
\* acts under the nonce its peer was granted, whatever fails.
THEOREM CallInvCorrect == Spec => []CallInv
<1>1. Init => CallInv
  BY NumberAssumption, NothingTyped DEF Init, CallInv, TypeOK, Fits, NoCall, CallRecord
<1> QED
  BY <1>1, CallInductive, PTL DEF Spec

\* The types of the leases kept in the DHT.
THEOREM LeaseTypeCorrect == Spec => []TypeOK
<1>1. CallInv => TypeOK
  BY DEF CallInv
<1> QED
  BY <1>1, CallInvCorrect, PTL

-----------------------------------------------------------------------------
\* A call that starts leaves the other peers alone.
LEMMA StartOne ==
  ASSUME TypeOK, NEW p \in Peers, NEW op, NEW n, Start(p, op, n)
  PROVE  /\ call'[p].pc = "get" /\ call'[p].op = op
         /\ \A q \in Peers : q # p => call'[q] = call[q]
<1> DEFINE c == [op |-> op, pc |-> "get", nonce |-> n, left |-> Attempts, next |-> Absent]
<1>1. call' = [call EXCEPT ![p] = c] /\ c.pc = "get" /\ c.op = op
  BY SMTT(60) DEF Start
<1> HIDE DEF c
<1> QED
  BY <1>1 DEF TypeOK

\* A call that does not succeed makes nobody believe anything new.
LEMMA UnsuccessfulOne ==
  ASSUME CallInv, NEW p \in Peers, GivesUp(p) \/ Repeats(p)
  PROVE  /\ \A q \in Peers : q # p => /\ call'[q] = call[q]
                                      /\ mine'[q] = mine[q]
                                      /\ until'[q] = until[q]
         /\ call'[p].pc # "put"
         /\ Believes(p)' => Believes(p) /\ mine'[p] = mine[p] /\ until'[p] = until[p]
<1> USE NumberAssumption, NothingTyped
<1>1. /\ call[p] \in CallRecord /\ mine[p] \in 0..nonces /\ until[p] \in 0..TTL
      /\ nonces \in Nat /\ TypeOK
  BY SMTT(60) DEF CallInv, TypeOK, CallRecord
<1>2. CASE GivesUp(p)
  BY <1>1, <1>2, AltersOne, SMTT(60) DEF GivesUp, Believes, NoCall
<1>3. CASE Repeats(p)
  <2>1. PICK n \in 0..Attempts :
          Alters(p, [call[p] EXCEPT !.pc = "get", !.left = n, !.next = Absent], mine[p], until[p])
    BY <1>3, ZenonT(60) DEF Repeats
  <2> DEFINE c == [call[p] EXCEPT !.pc = "get", !.left = n, !.next = Absent]
  <2>2. c \in CallRecord /\ c.pc = "get" /\ c.op = call[p].op
    BY <1>1, ZenonT(60) DEF CallRecord
  <2>3. Alters(p, c, mine[p], until[p])
    BY <2>1
  <2> HIDE DEF c
  <2> QED
    <3>1. /\ call'[p] = c /\ mine'[p] = mine[p] /\ until'[p] = until[p]
          /\ \A q \in Peers : q # p => /\ call'[q] = call[q]
                                     /\ mine'[q] = mine[q]
                                     /\ until'[q] = until[q]
      BY <1>1, <2>2, <2>3, AltersOne, ZenonT(60)
    <3>2. call'[p].pc # "put" /\ call'[p].op = call[p].op
      BY <2>2, <3>1
    <3>3. Believes(p)' => Believes(p)
      BY <3>1, <3>2, ZenonT(60) DEF Believes
    <3> QED
      BY <3>1, <3>2, <3>3, ZenonT(60)
<1> QED
  BY <1>2, <1>3

\* As long as the record stays, an unsuccessful call keeps the serial invariant.
LEMMA UnsuccessfulKeeps ==
  ASSUME CallInv, SerialInv, serial, lease' = lease,
         NEW q \in Peers, GivesUp(q) \/ Repeats(q), NEW p \in Peers
  PROVE  (Current(p) /\ Backed(p))'
<1>1. Current(p) /\ Backed(p)
  BY DEF SerialInv
<1>2. CASE p = q
  BY <1>1, <1>2, UnsuccessfulOne, ZenonT(60) DEF Current, Backed
<1>3. CASE p # q
  BY <1>1, <1>3, UnsuccessfulOne, ZenonT(60) DEF Current, Backed, Believes, Alive, Owned
<1> QED
  BY <1>2, <1>3

\* Every step keeps the serial invariant.  A claim puts only over a lease nobody
\* believes in any more; a heartbeat or a release puts over its sender's own; a
\* step that fails, or that reads while another peer is about to put, ends serial.
LEMMA SerialInductive == CallInv /\ SerialInv /\ [Next]_vars => SerialInv'
<1> SUFFICES ASSUME CallInv, SerialInv, [Next]_vars, serial',
                    NEW p \in Peers
             PROVE  (Current(p) /\ Backed(p))'
  BY DEF SerialInv
<1>a. CallInv'
  BY CallInductive
<1>b. /\ \A q \in Peers : /\ call[q] \in CallRecord /\ mine[q] \in 0..nonces
                          /\ until[q] \in 0..TTL /\ Fits(q, call[q], mine[q])
                          /\ call[q].next \in LeaseRecord
      /\ lease \in LeaseRecord /\ nonces \in Nat
  BY DEF CallInv, TypeOK, CallRecord
<1>1. ASSUME NEW q \in Peers, Claim(q) \/ Heartbeat(q) \/ Release(q)
      PROVE  (Current(p) /\ Backed(p))'
  <2>1. /\ call[q].pc = "idle" /\ call[q].op = "none" /\ call'[q].pc = "get"
        /\ call'[q].op = "claim" => mine[q] = 0
        /\ \A r \in Peers : r # q => call'[r] = call[r]
        /\ UNCHANGED <<lease, mine, until, serial>>
    <3>1. \/ Start(q, "claim", nonces + 1) /\ mine[q] = 0
          \/ Start(q, "heartbeat", mine[q])
          \/ Start(q, "release", mine[q])
      BY <1>1 DEF Claim, Heartbeat, Release
    <3>2. /\ call'[q].pc = "get"
          /\ call'[q].op = "claim" => mine[q] = 0
          /\ \A r \in Peers : r # q => call'[r] = call[r]
      BY <3>1, StartOne DEF CallInv
    <3> QED
      BY <3>1, <3>2, <1>b, ZenonT(60) DEF Start, Fits
  <2>2. Current(p) /\ Backed(p)
    BY <2>1, SMTT(60) DEF SerialInv
  <2>3. CASE p = q
    BY <2>1, <2>2, <2>3, SMTT(60) DEF Current, Backed, Believes
  <2>4. CASE p # q
    BY <2>1, <2>2, <2>4, SMTT(60) DEF Current, Backed, Believes, Owned, Alive
  <2> QED
    BY <2>3, <2>4, SMTT(60)
<1>2. ASSUME NEW q \in Peers, Get(q)
      PROVE  (Current(p) /\ Backed(p))'
  <2>1. /\ call[q].pc = "get" /\ lease' = lease
        /\ serial /\ \A r \in Peers : call[r].pc # "put"
    BY <1>2, Zenon DEF Get
  <2>2. CASE GivesUp(q) \/ Repeats(q)
    BY <2>1, <2>2, UnsuccessfulKeeps
  <2>3. CASE Proceeds(q, lease)
    <3> DEFINE r == NewLease(q, lease)
               c == [call[q] EXCEPT !.pc = "put", !.next = r]
    <3>1. /\ r \in LeaseRecord /\ r.version = lease.version + 1
          /\ call[q].op # "release" => r.exp = TTL
      BY <1>b, <2>1, <2>3, NewLeaseFits DEF Proceeds, Fits
    <3>2. /\ Alters(q, c, mine[q], until[q])
          /\ call[q].op = "claim" => ~Alive(lease)
          /\ call[q].op # "claim" => Owned(lease, q)
      BY <2>3 DEF Proceeds, Busy, Stolen, Conflict
    <3> HIDE DEF r
    <3>3. /\ c \in CallRecord /\ c.op = call[q].op /\ c.pc = "put"
          /\ c.next = r /\ c.nonce = call[q].nonce
      BY <1>b, <3>1, ZenonT(60) DEF CallRecord
    <3> HIDE DEF c
    <3>4. /\ call'[q] = c /\ mine'[q] = mine[q] /\ until'[q] = until[q]
          /\ \A x \in Peers : x # q => /\ call'[x] = call[x]
                                       /\ mine'[x] = mine[x]
                                       /\ until'[x] = until[x]
      BY <1>b, <3>2, <3>3, AltersOne DEF CallInv
    <3>5. Current(p) /\ Backed(p)
      BY <2>1, SMTT(60) DEF SerialInv
    <3>6. Backed(p)'
      BY <2>1, <3>3, <3>4, <3>5 DEF Backed, Believes
    <3>7. CASE p = q
      <4>1. \A x \in Peers : call'[x].pc = "put" => x = p
        BY <2>1, <3>4, <3>7, ZenonT(60)
      <4>2. call'[p] = c /\ lease' = lease
        BY <2>1, <3>4, <3>7, SMTT(60)
      <4>3. /\ c.next.version = lease.version + 1
            /\ c.op = "claim" => ~Alive(lease)
            /\ c.op = "heartbeat" => c.next.exp >= lease.exp
        <5>1. lease.exp \in 0..TTL
          BY <1>b DEF LeaseRecord
        <5> QED
          BY <3>1, <3>2, <3>3, <5>1, NumberAssumption
      <4>4. c.op # "claim" => Owned(lease, p)'
        BY <3>2, <3>3, <3>7, <4>2 DEF Owned
      <4>5. (~Alive(lease))' <=> ~Alive(lease)
        BY <4>2, Zenon DEF Alive
      <4>6. Current(p)'
        BY <4>1, <4>2, <4>3, <4>4, <4>5, ZenonT(60) DEF Current
      <4> QED
        BY <3>6, <4>6
    <3>8. CASE p # q
      BY <2>1, <3>4, <3>6, <3>8 DEF Current
    <3> QED
      BY <3>7, <3>8
  <2> QED
    BY <1>2, <2>2, <2>3, CheckedOutcome DEF Get, CallInv
<1>3. ASSUME NEW q \in Peers, Put(q)
      PROVE  (Current(p) /\ Backed(p))'
  <2>1. /\ call[q].pc = "put" /\ lease' = call[q].next /\ serial
        /\ UNCHANGED <<mine, until>>
        /\ call'[q].pc = "verify" /\ call'[q].op = call[q].op
        /\ \A x \in Peers : x # q => call'[x] = call[x]
    BY <1>3, SMTT(60) DEF Put, CallInv, TypeOK
  <2>2. /\ Current(p) /\ Backed(p) /\ Current(q)
        /\ \A x \in Peers : call[x].pc = "put" => x = q
    BY <2>1, SMTT(60) DEF SerialInv, Current
  <2>3. Current(p)'
    BY <2>1, <2>2, SMTT(60) DEF Current
  <2>4. ASSUME Believes(p)
        PROVE  p = q /\ call[q].op = "heartbeat"
    <3>1. lease.owner = p /\ lease.exp > 0
      BY <2>2, <2>4, <1>b DEF Backed, Believes, LeaseRecord
    <3>2. Alive(lease)
      BY <3>1, NullAssumption, SMTT(60) DEF Alive
    <3> QED
      <4>1. call[q].op = "claim" => ~Alive(lease)
        BY <2>1, <2>2, Zenon DEF Current
      <4>2. call[q].op # "claim" /\ Owned(lease, q)
        BY <2>1, <2>2, <3>2, <4>1, Zenon DEF Current
      <4>3. p = q
        BY <3>1, <4>2 DEF Owned
      <4>4. call[q].op # "none"
        BY <1>b, <2>1 DEF Fits
      <4> QED
        BY <1>b, <2>4, <4>2, <4>3, <4>4 DEF Believes, CallRecord
  <2>5. Backed(p)'
    <3>1. Believes(p)' => Believes(p)
      BY <2>1, SMTT(60) DEF Believes
    <3> QED
      <4> SUFFICES ASSUME Believes(p)
                   PROVE  (lease.owner = p /\ lease.nonce = mine[p] /\ lease.exp >= until[p])'
        BY <3>1, Zenon DEF Backed
      <4>1. p = q /\ call[p].op = "heartbeat" /\ call[p].pc = "put"
        BY <2>1, <2>4
      <4>2. call[p].next.owner = p /\ call[p].next.nonce = mine[p]
        BY <1>b, <4>1 DEF Fits
      <4>3. call[p].next.exp >= lease.exp /\ lease.exp >= until[p]
        BY <2>2, <4>1 DEF Current, Backed
      <4>4. call[p].next.exp >= until[p]
        <5>1. call[p].next.exp \in Nat /\ lease.exp \in Nat /\ until[p] \in Nat
          BY <1>b, NumberAssumption DEF CallRecord, LeaseRecord
        <5> QED
          BY <4>3, <5>1
      <4> QED
        BY <2>1, <4>1, <4>2, <4>4, Zenon
  <2> QED
    BY <2>3, <2>5
<1>4. ASSUME NEW q \in Peers, Verify(q)
      PROVE  (Current(p) /\ Backed(p))'
  <2>1. /\ call[q].pc = "verify" /\ lease' = lease /\ serial
        /\ Compared(q, lease)
    BY <1>4, SMTT(60) DEF Verify
  <2>2. CASE GivesUp(q) \/ Repeats(q)
    BY <2>1, <2>2, UnsuccessfulKeeps
  <2>3. CASE lease = call[q].next /\ Succeeds(q)
    <3>1. /\ call'[q] = NoCall
          /\ mine'[q] # 0 => /\ mine'[q] = call[q].nonce /\ until'[q] = call[q].next.exp
                             /\ call[q].op # "release"
          /\ \A x \in Peers : x # q => /\ call'[x] = call[x]
                                       /\ mine'[x] = mine[x]
                                       /\ until'[x] = until[x]
      BY <2>3, NumberAssumption DEF Succeeds, Alters, CallInv, TypeOK
    <3>2. Current(p) /\ Backed(p)
      BY <2>1, ZenonT(60) DEF SerialInv
    <3>3. CASE p = q
      <4>1. call'[p].pc = "idle"
        BY <3>1, <3>3 DEF NoCall
      <4>2. Current(p)'
        BY <4>1 DEF Current
      <4>3. ASSUME mine'[p] # 0
            PROVE  /\ call[q].op # "release" /\ mine'[p] = call[q].nonce
                   /\ until'[p] = lease.exp
        BY <2>3, <3>1, <3>3, <4>3, SMTT(60)
      <4>4. ASSUME mine'[p] # 0
            PROVE  lease.owner = q /\ lease.nonce = call[q].nonce
        BY <1>b, <2>1, <2>3, <4>3, <4>4 DEF Fits
      <4>5. lease.exp \in Nat
        BY <1>b, NumberAssumption DEF LeaseRecord
      <4>6. Backed(p)'
        BY <2>1, <3>3, <4>3, <4>4, <4>5 DEF Backed, Believes
      <4> QED
        BY <4>2, <4>6
    <3>4. CASE p # q
      <4>1. call'[p] = call[p] /\ mine'[p] = mine[p] /\ until'[p] = until[p]
        BY <3>1, <3>4
      <4>2. \A x \in Peers : call'[x].pc = "put" => call[x].pc = "put"
        BY <3>1, SMTT(60) DEF NoCall
      <4>3. Current(p)'
        BY <2>1, <3>2, <4>1, <4>2, SMTT(60) DEF Current, Alive, Owned
      <4>4. call'[p].op = call[p].op
        BY <4>1
      <4>5. Backed(p)'
        BY <2>1, <3>2, <4>1, <4>4, ZenonT(60) DEF Backed, Believes
      <4> QED
        BY <4>3, <4>5
    <3> QED
      BY <3>3, <3>4
  <2> QED
    BY <2>1, <2>2, <2>3, ComparedOutcome DEF CallInv
<1>5. ASSUME NEW q \in Peers, GetFails(q) \/ PutFails(q) \/ PutAlone(q) \/ VerifyFails(q)
      PROVE  FALSE
  BY <1>5 DEF GetFails, PutFails, PutAlone, VerifyFails, Fault
<1>6. CASE Tick
  <2>1. Current(p) /\ Backed(p)
    BY <1>6 DEF SerialInv, Tick
  <2>2. \A q \in Peers : /\ call'[q].op = call[q].op /\ call'[q].pc = call[q].pc
                         /\ call'[q].nonce = call[q].nonce
                         /\ call'[q].next = Sooner(call[q].next)
    BY <1>6, TickOne DEF CallInv
  <2>3. lease' = Sooner(lease) /\ until'[p] = Less(until[p]) /\ mine' = mine
    BY <1>6, SMTT(60) DEF Tick
  <2>4. /\ lease'.owner = lease.owner /\ lease'.nonce = lease.nonce
        /\ lease'.version = lease.version /\ lease'.exp = Less(lease.exp)
        /\ call'[p].next.version = call[p].next.version
        /\ call'[p].next.exp = Less(call[p].next.exp)
    <3>1. lease \in LeaseRecord /\ call[p].next \in LeaseRecord
      BY <1>b DEF CallRecord
    <3>2. call'[p].next = Sooner(call[p].next)
      BY <2>2
    <3> QED
      BY <2>3, <3>1, <3>2, SoonerTyped, ZenonT(60)
  <2>5. lease.exp \in Nat /\ until[p] \in Nat /\ call[p].next.exp \in Nat
    BY <1>b, NumberAssumption DEF LeaseRecord
  <2>6. ASSUME NEW m \in Nat, NEW n \in Nat
        PROVE  /\ Less(m) \in Nat
               /\ Less(m) > 0 => m > 0
               /\ m >= n => Less(m) >= Less(n)
    BY SMTT(60) DEF Less
  <2>7. Current(p)'
    <3>1. lease'.exp > 0 => lease.exp > 0
      BY <2>4, <2>5, <2>6
    <3>2. call[p].next.exp >= lease.exp => call'[p].next.exp >= lease'.exp
      BY <2>4, <2>5, <2>6, SMTT(60)
    <3>3. CASE call'[p].pc = "put"
      <4>1. /\ \A q \in Peers : call[q].pc = "put" => q = p
            /\ call[p].next.version = lease.version + 1
            /\ call[p].op = "claim" => ~Alive(lease)
            /\ call[p].op # "claim" => Owned(lease, p)
            /\ call[p].op = "heartbeat" => call[p].next.exp >= lease.exp
        BY <2>1, <2>2, <3>3, ZenonT(60) DEF Current
      <4>2. \A q \in Peers : call'[q].pc = "put" => q = p
        BY <2>2, <4>1, ZenonT(60)
      <4>3. call'[p].next.version = lease'.version + 1
        BY <2>4, <4>1, ZenonT(60)
      <4>4. call'[p].op = "claim" => ~Alive(lease')
        BY <2>2, <2>4, <3>1, <4>1, ZenonT(60) DEF Alive
      <4>5. call'[p].op # "claim" => lease'.owner = p /\ lease'.nonce = call'[p].nonce
        BY <2>2, <2>4, <4>1, ZenonT(60) DEF Owned
      <4>6. call'[p].op = "heartbeat" => call'[p].next.exp >= lease'.exp
        BY <2>2, <3>2, <4>1, ZenonT(60)
      <4> QED
        BY <4>2, <4>3, <4>4, <4>5, <4>6, ZenonT(60) DEF Current, Owned
    <3> QED
      BY <3>3, ZenonT(60) DEF Current
  <2>8. Backed(p)'
    <3>1. until'[p] > 0 => until[p] > 0
      BY <2>3, <2>5, <2>6
    <3>2. lease.exp >= until[p] => lease'.exp >= until'[p]
      BY <2>3, <2>4, <2>5, <2>6
    <3> QED
      BY <2>1, <2>2, <2>3, <2>4, <3>1, <3>2 DEF Backed, Believes
  <2> QED
    BY <2>7, <2>8
<1>7. CASE UNCHANGED vars
  BY <1>7, ZenonT(60) DEF vars, SerialInv, Current, Backed, Believes, Alive, Owned
<1> QED
  BY <1>1, <1>2, <1>3, <1>4, <1>5, <1>6, <1>7 DEF Next, CallStep

\* The record and the peers' beliefs agree at every moment of a serial history.
THEOREM SerialInvCorrect == Spec => []SerialInv
<1>1. Init => SerialInv
  BY SMTT(60) DEF Init, SerialInv, Current, Backed, Believes, NoCall
<1> QED
  BY <1>1, SerialInductive, CallInvCorrect, PTL DEF Spec

\* At most one peer believes to hold an unexpired lease, for any number of peers
\* and calls, as long as gets and puts succeed and no read-check-put of one peer
\* is cut by a read of another.
THEOREM SerialClaimsExcludeHolds == Spec => []SerialClaimsExclude
<1>1. SerialInv => SerialClaimsExclude
  BY DEF SerialInv, SerialClaimsExclude, Backed
<1> QED
  BY <1>1, SerialInvCorrect, PTL

\* Under the same condition the version grows with every put, so that it orders
\* the leases that were granted.
THEOREM VersionFencesHolds == Spec => VersionFences
<1> DEFINE Fences == serial' => /\ lease'.version >= lease.version
                                /\ lease'.nonce # lease.nonce => lease'.version > lease.version
<1>1. CallInv /\ SerialInv /\ [Next]_vars => [Fences]_vars
  <2> SUFFICES ASSUME CallInv, SerialInv, Next, serial'
               PROVE  /\ lease'.version >= lease.version
                      /\ lease'.nonce # lease.nonce => lease'.version > lease.version
    OBVIOUS
  <2>1. lease \in LeaseRecord /\ lease.version \in Nat
    BY DEF CallInv, TypeOK, LeaseRecord
  <2>2. CASE lease' = lease
    BY <2>1, <2>2
  <2>3. CASE Tick
    BY <2>1, <2>3, SoonerTyped DEF Tick
  <2>4. ASSUME NEW p \in Peers, Put(p)
        PROVE  lease'.version = lease.version + 1
    BY <2>4 DEF Put, SerialInv, Current
  <2>5. ASSUME NEW p \in Peers, PutFails(p)
        PROVE  FALSE
    BY <2>5, SMTT(60) DEF PutFails, Fault
  <2>6. ASSUME NEW p \in Peers,
               \/ Claim(p) \/ Heartbeat(p) \/ Release(p)
               \/ Get(p) \/ GetFails(p) \/ PutAlone(p) \/ Verify(p) \/ VerifyFails(p)
        PROVE  lease' = lease
    BY <2>6, ZenonT(60) DEF Claim, Heartbeat, Release, Start, Get, GetFails, PutAlone, Verify, VerifyFails
  <2>7. CASE \E p \in Peers : Put(p)
    BY <2>1, <2>4, <2>7
  <2> QED
    BY <2>2, <2>3, <2>5, <2>6, <2>7 DEF Next, CallStep
<1> QED
  BY <1>1, CallInvCorrect, SerialInvCorrect, PTL DEF Spec, VersionFences

\* A put of PutJSONCAS replaces the very record, or an aged form of it, that its
\* check was run on, as long as no get falls between another peer's get and put.
THEOREM SerialIsCompareAndSetHolds == Spec => SerialIsCompareAndSet
<1>1. SerialInv =>
        (serial => \A p \in Peers :
           Put(p) => /\ lease'.version = lease.version + 1
                     /\ call[p].op = "claim" => ~Alive(lease)
                     /\ call[p].op # "claim" => Owned(lease, p))
  BY DEF SerialInv, Current, Put
<1> QED
  BY <1>1, SerialInvCorrect, PTL DEF Spec, SerialIsCompareAndSet
=============================================================================
