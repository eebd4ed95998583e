---------------------------- MODULE InputTransfer ---------------------------
(***************************************************************************)
(* How an agent gets a job's input: FetchAny and FetchFromProvider          *)
(* (pkg/agent/fetch.go) against the stream handler of a seeder              *)
(* (pkg/seeder/seed_handler.go), over libp2p streams.                       *)
(*                                                                          *)
(* A file is Size chunks, chunk k of root r being <<r, k>>.  The protocol   *)
(* has no header: the seeder sends the bytes and closes the stream, for an  *)
(* error as for the end of the file.  The work directory survives a job, so *)
(* the same agent may fetch into it again after a requeue, with another     *)
(* manifest.                                                                *)
(***************************************************************************)
EXTENDS Naturals, Sequences

CONSTANTS Providers,   \* peer ids of seeders
          Roots,       \* root CIDs; one may be called "input"
          Size,        \* chunks of a file
          AddrLists,   \* bound: the address lists of providers
          MaxRuns,     \* bound: executions of the job by this agent
          NULL         \* no link target

\* "bad" does not parse as a multiaddr, nobody listens at "dead".
Addrs == {"bad", "dead", "live"}

ASSUME SizeAssumption == Size \in Nat \ {0}
ASSUME RootAssumption == "noop" \notin Roots
ASSUME AddrAssumption == AddrLists \subseteq Seq(Addrs)

VARIABLES man,         \* the manifest the agent read
          has,         \* has[p]: the roots under seeder p's base directory
          pc,          \* where FetchAny is
          i,           \* the provider it is trying
          stream,      \* the stream to that provider
          part,        \* the file <root>.part
          dir,         \* the other files of the input directory
          runs,        \* executions so far
          gaveup,      \* history: the seeder closed this stream before the end
          stuck        \* history: the last fetch could not remove "input"

vars == <<man, has, pc, i, stream, part, dir, runs, gaveup, stuck>>

Provider == [peer : Providers \cup {""}, addrs : AddrLists]

\* What manifestHandler lets into a manifest.
ValidateProvider(pv) ==
  /\ pv.peer # ""
  /\ pv.addrs # <<>>
  /\ \A k \in DOMAIN pv.addrs : pv.addrs[k] # "bad"

Manifests ==
  [root : Roots \cup {"noop"},
   providers : UNION {[1..n -> {pv \in Provider : ValidateProvider(pv)}] : n \in 0..2}]

Names == Roots \cup {"input"}

\* A directory entry: a file with its chunks, a symbolic link, or nothing.
File(c) == [kind |-> "file", to |-> NULL, data |-> c]
Link(r) == [kind |-> "link", to |-> r, data |-> <<>>]
None    == [kind |-> "none", to |-> NULL, data |-> <<>>]

Prefix(r, n) == [k \in 1..n |-> <<r, k>>]

Whole(r) == Prefix(r, Size)

Closed == [sent |-> 0, got |-> 0, end |-> "eof"]
Opened == [sent |-> 0, got |-> 0, end |-> "open"]

\* FetchAny is called only for a real root with providers.
Enter(m) == IF m.root = "noop" \/ m.providers = <<>> THEN "skipped" ELSE "try"

Init == /\ man \in Manifests
        /\ has \in [Providers -> SUBSET Roots]
        /\ pc = Enter(man)
        /\ i = 1
        /\ stream = Closed
        /\ part = <<>>
        /\ dir = [n \in Names |-> None]
        /\ runs = 1
        /\ gaveup = FALSE
        /\ stuck = FALSE

-----------------------------------------------------------------------------
(***************************************************************************)
(* The agent.                                                               *)
(***************************************************************************)
Pv == man.providers[i]

\* Only the first address that parses is dialled.
Reachable(pv) ==
  LET addrs == SelectSeq(pv.addrs, LAMBDA a : a # "bad")
  IN  pv.peer # "" /\ addrs # <<>> /\ Head(addrs) = "live"

\* An invalid provider, no connection within 4 seconds, no stream, no file to
\* write to: the next provider is tried.
TrySame ==
  /\ pc = "try"
  /\ i <= Len(man.providers)
  /\ UNCHANGED vars

TryFails ==
  /\ pc = "try"
  /\ i <= Len(man.providers)
  /\ i' = i + 1
  /\ UNCHANGED <<man, has, pc, stream, part, dir, runs, gaveup, stuck>>

OpenAppending ==
  /\ pc = "try"
  /\ i <= Len(man.providers)
  /\ Reachable(Pv)
  /\ pc' = "receive"
  /\ stream' = Opened
  /\ gaveup' = FALSE
  /\ UNCHANGED <<man, has, i, part, dir, runs, stuck>>

\* os.Create truncates what a failed attempt has left in <root>.part.
Open ==
  /\ pc = "try"
  /\ i <= Len(man.providers)
  /\ Reachable(Pv)
  /\ pc' = "receive"
  /\ stream' = Opened
  /\ part' = <<>>
  /\ gaveup' = FALSE
  /\ UNCHANGED <<man, has, i, dir, runs, stuck>>

Receive ==
  /\ pc = "receive"
  /\ stream.got < stream.sent
  /\ part' = Append(part, <<man.root, stream.got + 1>>)
  /\ stream' = [stream EXCEPT !.got = @ + 1]
  /\ UNCHANGED <<man, has, pc, i, dir, runs, gaveup, stuck>>

\* io.Copy returns an error; <root>.part stays behind.
ReceiveFails ==
  /\ pc = "receive"
  /\ stream.end = "reset"
  /\ pc' = "try"
  /\ i' = i + 1
  /\ UNCHANGED <<man, has, stream, part, dir, runs, gaveup, stuck>>

\* <root>.part cannot be written, or not be renamed.
WriteFails ==
  /\ pc = "receive"
  /\ stream.got < stream.sent \/ stream.end = "eof"
  /\ pc' = "try"
  /\ i' = i + 1
  /\ UNCHANGED <<man, has, stream, part, dir, runs, gaveup, stuck>>

\* The files after os.Rename to <root>.
Renamed == [dir EXCEPT ![man.root] = File(part)]

InputKept == {IF dir["input"] = None THEN Link(man.root) ELSE dir["input"]}

\* What "input" may become: a symbolic link or, where that fails, a copy, whose
\* own failure is ignored and may leave nothing or a part.
InputReplaced ==
  {Link(man.root), None} \cup {File(SubSeq(part, 1, n)) : n \in 0..Len(part)}

\* What the files may become where "input" cannot be removed, which is ignored: the
\* link fails because the name is there, and the copy fails too or goes through it,
\* to the file an earlier link leads to; if that is the source it is emptied first.
InputStuck ==
  LET to == IF dir["input"].kind = "link" THEN dir["input"].to ELSE "input"
      copies == IF to = man.root THEN {<<>>} ELSE {SubSeq(part, 1, n) : n \in 0..Len(part)}
  IN  {Renamed} \cup {[Renamed EXCEPT ![to] = File(c)] : c \in copies}

\* End of stream: io.Copy returns no error, whatever was received.
ReceiveEnds ==
  /\ pc = "receive"
  /\ stream.end = "eof"
  /\ stream.got = stream.sent
  /\ pc' = "ok"
  /\ \/ /\ man.root = "input"
        /\ dir' = Renamed
        /\ stuck' = FALSE
     \/ /\ man.root # "input"
        /\ \E c \in InputReplaced : dir' = [Renamed EXCEPT !["input"] = c]
        /\ stuck' = FALSE
     \/ /\ man.root # "input"
        /\ dir["input"] # None
        /\ dir' \in InputStuck
        /\ stuck' = TRUE
  /\ part' = <<>>
  /\ UNCHANGED <<man, has, i, stream, runs, gaveup>>

Exhausted ==
  /\ pc = "try"
  /\ i > Len(man.providers)
  /\ pc' = "error"
  /\ UNCHANGED <<man, has, i, stream, part, dir, runs, gaveup, stuck>>

\* The job comes back to this agent, whose work directory is as it was left.
Again ==
  /\ pc \in {"ok", "error", "skipped"}
  /\ runs < MaxRuns
  /\ runs' = runs + 1
  /\ \E m \in Manifests : man' = m /\ pc' = Enter(m)
  /\ i' = 1
  /\ UNCHANGED <<has, stream, part, dir, gaveup, stuck>>

-----------------------------------------------------------------------------
(***************************************************************************)
(* The seeder and the network.                                              *)
(***************************************************************************)
Serving == pc = "receive" /\ stream.end = "open"

SendChunk ==
  /\ Serving
  /\ man.root \in has[Pv.peer]
  /\ stream.sent < Size
  /\ stream' = [stream EXCEPT !.sent = @ + 1]
  /\ UNCHANGED <<man, has, pc, i, part, dir, runs, gaveup, stuck>>

SendEnds ==
  /\ Serving
  /\ man.root \in has[Pv.peer]
  /\ stream.sent = Size
  /\ stream' = [stream EXCEPT !.end = "eof"]
  /\ UNCHANGED <<man, has, pc, i, part, dir, runs, gaveup, stuck>>

\* The file cannot be opened, or reading it fails half way: the handler logs,
\* returns, and its deferred Close ends the stream in good order.
SeederGivesUp ==
  /\ Serving
  /\ man.root \notin has[Pv.peer] \/ stream.sent < Size
  /\ stream' = [stream EXCEPT !.end = "eof"]
  /\ gaveup' = TRUE
  /\ UNCHANGED <<man, has, pc, i, part, dir, runs, stuck>>

\* The connection breaks, or the seeder process dies; chunks on their way are lost.
StreamReset ==
  /\ pc = "receive"
  /\ stream.end # "reset"
  /\ stream' = [stream EXCEPT !.end = "reset", !.sent = stream.got]
  /\ UNCHANGED <<man, has, pc, i, part, dir, runs, gaveup, stuck>>

-----------------------------------------------------------------------------
AgentStep == TryFails \/ Open \/ Receive \/ ReceiveFails \/ ReceiveEnds \/ Exhausted

SeederStep == SendChunk \/ SendEnds \/ SeederGivesUp

Next == AgentStep \/ WriteFails \/ SeederStep \/ StreamReset \/ Again

Spec == Init /\ [][Next]_vars

\* The agent's goroutine runs: dialling and opening a stream end in time, and what has
\* arrived is read.  Nothing is assumed of a seeder.
FairSpec == Spec /\ WF_vars(AgentStep)

-----------------------------------------------------------------------------
(***************************************************************************)
(* Properties.                                                              *)
(***************************************************************************)
Contents(r) == {Prefix(r, n) : n \in 0..Size}

Files(r) == {File(c) : c \in Contents(r)}

Entries == (UNION {Files(r) : r \in Roots}) \cup {Link(r) : r \in Roots} \cup {None}

\* The variables stay within the shapes the code gives them.
TypeOK ==
  /\ man \in Manifests
  /\ has \in [Providers -> SUBSET Roots]
  /\ pc \in {"try", "receive", "ok", "error", "skipped"}
  /\ i \in 1..(Len(man.providers) + 1)
  /\ stream \in [sent : 0..Size, got : 0..Size, end : {"open", "eof", "reset"}]
  /\ part # <<>> => \E r \in Roots : part \in Contents(r)
  /\ dir \in [Names -> Entries]
  /\ runs \in Nat
  /\ gaveup \in BOOLEAN
  /\ stuck \in BOOLEAN

\* Broken connections and retries with other providers never damage the file a
\* successful FetchAny leaves: it holds the chunks of the file in order, from
\* one stream, and all of them unless the seeder itself closed early or the copy
\* to an "input" that could not be removed has emptied it.
FetchSound ==
  pc = "ok" => /\ dir[man.root] \in Files(man.root)
               /\ ~gaveup /\ ~stuck => dir[man.root] = File(Whole(man.root))

Resolved(e) == IF e.kind = "link" THEN dir[e.to] ELSE e

\* After a successful fetch the name "input", if it could be removed, never leads to
\* the input of an earlier execution, even if the manifest has changed since.
NoStaleInput ==
  pc = "ok" /\ ~stuck => Resolved(dir["input"]) \in Files(man.root) \cup {None}

\* Every fetch comes to an end, each provider being given up or served out, unless a
\* seeder keeps its stream open for ever: nothing limits the time of io.Copy.
FetchEnds ==
  pc \in {"try", "receive"} ~> (pc \in {"ok", "error", "skipped"} \/ []Serving)

\* Every fetch comes to an end.
FetchAlwaysEnds == pc \in {"try", "receive"} ~> pc \in {"ok", "error", "skipped"}

\* A fetch that succeeds has the whole file: a provider without it is not a
\* success, and the next provider is tried.
FetchedIsWhole == pc = "ok" /\ ~stuck => dir[man.root] = File(Whole(man.root))
=============================================================================
