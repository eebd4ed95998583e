------------------------------- MODULE DhtNode ------------------------------
(***************************************************************************)
(* One DHT record under PutJSON, DelJSON and GetJSON (internal/dht/json.go) *)
(* and the Kademlia DHT below them, configured by NewNode                   *)
(* (internal/dht/node.go) with a validator that calls every record valid    *)
(* and the first of several the best.                                       *)
(*                                                                          *)
(* The control server is the only node that puts.  Its handlers and loops   *)
(* do so concurrently, on the same key: a put takes several steps, and      *)
(* those of different callers interleave.  The control server serves the    *)
(* DHT; agents start as clients and may become servers (ModeAuto) when they *)
(* are found to be publicly reachable.  The n-th put to reach the control   *)
(* server's own datastore writes the value n; 0 is no record.  DelJSON is a *)
(* put, of a tombstone.                                                     *)
(***************************************************************************)
EXTENDS Naturals

CONSTANTS Control,     \* the control server's node
          Agents,      \* agents' nodes
          MayServe,    \* agents that may become DHT servers
          Callers,     \* bound: goroutines of the control server that put at a time
          MaxPuts      \* bound: puts

ASSUME NodeAssumption == Control \notin Agents /\ MayServe \subseteq Agents
ASSUME PutAssumption == MaxPuts \in Nat

VARIABLES servers,     \* nodes that serve the DHT
          store,       \* store[n]: the record in n's datastore
          fallback,    \* localStore of the control process
          put,         \* put[c]: the PutJSON or DelJSON of caller c
          fix,         \* corrections a reader has sent to servers
          puts,        \* puts so far
          done,        \* history: the puts and deletions that were reported as done
          superseded,  \* history: those of done that had returned when another one
                       \* of done began
          forgotten,   \* history: those that had returned when a deletion of done began
          got          \* history: the last GetJSON and what it could know

nodeVars == <<servers, store, fallback, put, fix, puts, done, superseded, forgotten, got>>

Nodes == Agents \cup {Control}

NoPut == [pc |-> "idle", del |-> FALSE, val |-> 0, to |-> {}, past |-> {}]

NodeInit ==
  /\ servers = {Control}
  /\ store = [n \in Nodes |-> 0]
  /\ fallback = 0
  /\ put = [c \in Callers |-> NoPut]
  /\ fix = {}
  /\ puts = 0
  /\ done = {} /\ superseded = {} /\ forgotten = {}
  /\ got = [via |-> "none", val |-> 0, done |-> {}, superseded |-> {}, forgotten |-> {}]

-----------------------------------------------------------------------------
(***************************************************************************)
(* PutJSON and DelJSON.  PutValue stores the record on this node and then   *)
(* sends it to the servers it finds; whether they get it is not reported.   *)
(***************************************************************************)
PutStart(c, del) ==
  /\ put[c].pc = "idle"
  /\ puts < MaxPuts
  /\ puts' = puts + 1
  /\ store' = [store EXCEPT ![Control] = puts + 1]
  /\ put' = [put EXCEPT ![c] = [pc |-> "find", del |-> del, val |-> puts + 1, to |-> {},
                                past |-> done]]
  /\ UNCHANGED <<servers, fallback, fix, done, superseded, forgotten, got>>

PutFindsSelf(c) ==
  /\ put[c].pc = "find"
  /\ put' = [put EXCEPT ![c].pc = IF servers = {Control} THEN "store" ELSE "send",
                         ![c].to = servers]
  /\ UNCHANGED <<servers, store, fallback, fix, puts, done, superseded, forgotten, got>>

\* GetClosestPeers: with no peer in the routing table PutValue fails.
PutFinds(c) ==
  /\ put[c].pc = "find"
  /\ put' = [put EXCEPT ![c].pc = IF servers = {Control} THEN "store" ELSE "send",
                         ![c].to = servers \ {Control}]
  /\ UNCHANGED <<servers, store, fallback, fix, puts, done, superseded, forgotten, got>>

Send(c, s) ==
  /\ put[c].pc = "send"
  /\ s \in put[c].to
  /\ put' = [put EXCEPT ![c].to = @ \ {s}]
  /\ store' \in {store, [store EXCEPT ![s] = put[c].val]}
  /\ UNCHANGED <<servers, fallback, fix, puts, done, superseded, forgotten, got>>

\* PutJSON returns nil: to its caller, or to DelJSON, which goes on.
Returns(c) ==
  /\ put' = [put EXCEPT ![c] = IF put[c].del THEN [@ EXCEPT !.pc = "forget"] ELSE NoPut]
  /\ done' = IF put[c].del THEN done ELSE done \cup {put[c].val}
  /\ superseded' = IF put[c].del THEN superseded ELSE superseded \cup put[c].past
  /\ UNCHANGED <<servers, store, fix, puts, forgotten, got>>

PutEnds(c) ==
  /\ put[c].pc = "send"
  /\ put[c].to = {}
  /\ Returns(c)
  /\ UNCHANGED fallback

PutStoresOnce(c) ==
  /\ put[c].pc = "store"
  /\ fallback' = IF fallback = 0 THEN put[c].val ELSE fallback
  /\ Returns(c)

\* The put ends in localStore, which may hold another caller's newer value by now.
PutStores(c) ==
  /\ put[c].pc = "store"
  /\ fallback' = put[c].val
  /\ Returns(c)

\* The context ends first: PutJSON returns the error and DelJSON stops there.
PutTimesOut(c) ==
  /\ put[c].pc = "send"
  /\ put' = [put EXCEPT ![c] = NoPut]
  /\ UNCHANGED <<servers, store, fallback, fix, puts, done, superseded, forgotten, got>>

Deleted(c) ==
  /\ put[c].pc = "forget"
  /\ put' = [put EXCEPT ![c] = NoPut]
  /\ done' = done \cup {put[c].val}
  /\ superseded' = superseded \cup put[c].past
  /\ forgotten' = forgotten \cup put[c].past
  /\ UNCHANGED <<servers, store, fix, puts, got>>

ForgetNothing(c) == Deleted(c) /\ UNCHANGED fallback

Forget(c) == Deleted(c) /\ fallback' = 0

-----------------------------------------------------------------------------
(***************************************************************************)
(* GetJSON.                                                                 *)
(***************************************************************************)
Got(via, val) ==
  got' = [via |-> via, val |-> val, done |-> done, superseded |-> superseded,
          forgotten |-> forgotten]

\* The node's own record comes first, and the first one is the best; servers that
\* are found to hold another one are sent it.
GetJSON(n) ==
  /\ \E s \in IF store[n] # 0 THEN {n} ELSE servers :
       /\ store[s] # 0
       /\ Got("network", store[s])
       /\ fix' = fix \cup {[to |-> r, val |-> store[s]] :
                            r \in {q \in servers \ {n} : store[q] # store[s]}}
  /\ UNCHANGED <<servers, store, fallback, put, puts, done, superseded, forgotten>>

\* Nothing found, or not in time: localStore, which only the control process has
\* anything in, is the last resort.
GetJSONFails ==
  /\ fallback # 0
  /\ Got("fallback", fallback)
  /\ UNCHANGED <<servers, store, fallback, put, fix, puts, done, superseded, forgotten>>

Fix ==
  /\ \E m \in fix : /\ fix' = fix \ {m}
                    /\ store' = [store EXCEPT ![m.to] = m.val]
  /\ UNCHANGED <<servers, fallback, put, puts, done, superseded, forgotten, got>>

Join(a) ==
  /\ a \in MayServe \ servers
  /\ servers' = servers \cup {a}
  /\ UNCHANGED <<store, fallback, put, fix, puts, done, superseded, forgotten, got>>

-----------------------------------------------------------------------------
PutStep(c) ==
  \/ \E del \in BOOLEAN : PutStart(c, del)
  \/ PutFinds(c)
  \/ \E s \in Nodes : Send(c, s)
  \/ PutEnds(c) \/ PutStores(c) \/ PutTimesOut(c) \/ Forget(c)

NodeNext ==
  \/ \E c \in Callers : PutStep(c)
  \/ \E n \in Nodes : GetJSON(n)
  \/ GetJSONFails \/ Fix
  \/ \E a \in Agents : Join(a)

NodeSpec == NodeInit /\ [][NodeNext]_nodeVars

-----------------------------------------------------------------------------
(***************************************************************************)
(* Properties.                                                              *)
(***************************************************************************)
PutRecord == [pc : {"idle", "find", "send", "store", "forget"}, del : BOOLEAN,
              val : 0..puts, to : SUBSET Agents, past : SUBSET (1..puts)]

\* The variables stay within the shapes the code gives them.
NodeTypeOK ==
  /\ servers \in SUBSET Nodes /\ Control \in servers
  /\ store \in [Nodes -> 0..puts]
  /\ fallback \in 0..puts
  /\ put \in [Callers -> PutRecord]
  /\ fix \in SUBSET [to : Nodes, val : 0..puts]
  /\ puts \in 0..MaxPuts
  /\ done \in SUBSET (1..puts) /\ superseded \in SUBSET done /\ forgotten \in SUBSET done
  /\ got \in [via : {"none", "network", "fallback"}, val : 0..puts,
              done : SUBSET (1..puts), superseded : SUBSET (1..puts),
              forgotten : SUBSET (1..puts)]

\* While the control server is the only DHT server: a value GetJSON finds, on any
\* node, is at least as new as every put that was reported as done; and the value
\* it takes from localStore when the get fails is one that no put or deletion has
\* replaced which began after that value's put had returned.  Puts that overlap may
\* leave either value there.
SoleServerFresh ==
  servers = {Control} =>
    /\ got.via = "network" => \A v \in got.done : got.val >= v
    /\ got.via = "fallback" => got.val \notin got.superseded

\* Whatever agents become servers: after DelJSON has returned, a failing get does
\* not bring back from localStore a value whose put had returned when DelJSON was
\* called.
FallbackForgets == got.via = "fallback" => got.val \notin got.forgotten
=============================================================================
