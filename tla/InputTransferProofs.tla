------------------------ MODULE InputTransferProofs -------------------------
(***************************************************************************)
(* What a successful fetch leaves, for any number of providers, roots,      *)
(* chunks and executions.                                                   *)
(***************************************************************************)
EXTENDS InputTransfer, SequenceTheorems, TLAPS

-----------------------------------------------------------------------------
(***************************************************************************)
(* Prefixes of a file.                                                      *)
(***************************************************************************)

\* A prefix is a sequence of chunks.
LEMMA PrefixSeq ==
  \A r : \A n \in Nat : /\ Prefix(r, n) \in Seq({r} \X Nat)
                        /\ Len(Prefix(r, n)) = n
                        /\ \A k \in 1..n : Prefix(r, n)[k] = <<r, k>>
<1> TAKE r
<1> TAKE n \in Nat
<1>1. Prefix(r, n) \in [1..n -> {r} \X Nat]
  BY DEF Prefix
<1>2. Prefix(r, n) \in Seq({r} \X Nat)
  BY <1>1
<1>3. DOMAIN Prefix(r, n) = 1..n
  BY DEF Prefix
<1>4. Len(Prefix(r, n)) = n
  BY <1>2, <1>3
<1> QED
  BY <1>2, <1>4 DEF Prefix

\* Receiving the next chunk makes the prefix longer by one.
LEMMA AppendPrefix ==
  ASSUME NEW r, NEW n \in Nat
  PROVE  Append(Prefix(r, n), <<r, n + 1>>) = Prefix(r, n + 1)
<1> DEFINE S == {r} \X Nat
           p == Prefix(r, n)
           e == <<r, n + 1>>
           t == Prefix(r, n + 1)
<1>0. n + 1 \in Nat
  OBVIOUS
<1>1. p \in Seq(S) /\ Len(p) = n /\ \A k \in 1..n : p[k] = <<r, k>>
  BY PrefixSeq, ZenonT(60)
<1>2. e \in S
  BY <1>0
<1>3. t \in Seq(S) /\ Len(t) = n + 1 /\ \A k \in 1..(n + 1) : t[k] = <<r, k>>
  BY <1>0, PrefixSeq, ZenonT(60)
<1>4. t[n + 1] = e
  BY <1>0, <1>3
<1> HIDE DEF S, p, e, t
<1>5. Append(p, e) \in Seq(S) /\ Len(Append(p, e)) = n + 1
  BY <1>1, <1>2
<1>6. \A k \in 1..n : Append(p, e)[k] = p[k]
  BY <1>1, <1>2
<1>7. Append(p, e)[n + 1] = e
  BY <1>1, <1>2
<1>8. \A k \in 1..(n + 1) : Append(p, e)[k] = t[k]
  <2> TAKE k \in 1..(n + 1)
  <2>1. k \in 1..n \/ k = n + 1
    OBVIOUS
  <2>2. k \in 1..n => p[k] = t[k]
    BY <1>1, <1>3, ZenonT(60)
  <2> QED
    BY <2>1, <2>2, <1>4, <1>6, <1>7, ZenonT(60)
<1>9. Append(p, e) = t
  BY <1>3, <1>5, <1>8
<1> QED
  BY <1>9 DEF p, e, t

\* A copy that stops early holds a shorter prefix.
LEMMA SubSeqPrefix ==
  ASSUME NEW r, NEW n \in Nat, NEW m \in 0..n
  PROVE  SubSeq(Prefix(r, n), 1, m) = Prefix(r, m)
<1> DEFINE S == {r} \X Nat
           p == Prefix(r, n)
           t == Prefix(r, m)
<1>0. m \in Nat
  OBVIOUS
<1>1. p \in Seq(S) /\ Len(p) = n /\ \A k \in 1..n : p[k] = <<r, k>>
  BY PrefixSeq, ZenonT(60)
<1>2. t \in Seq(S) /\ Len(t) = m /\ \A k \in 1..m : t[k] = <<r, k>>
  BY <1>0, PrefixSeq, ZenonT(60)
<1> HIDE DEF S, p, t
<1>3. /\ SubSeq(p, 1, m) \in Seq(S) /\ Len(SubSeq(p, 1, m)) = m
      /\ \A k \in 1..m : SubSeq(p, 1, m)[k] = p[k]
  BY <1>1
<1>4. \A k \in 1..m : SubSeq(p, 1, m)[k] = t[k]
  <2> TAKE k \in 1..m
  <2>1. k \in 1..n
    BY <1>0
  <2>2. SubSeq(p, 1, m)[k] = p[k] /\ p[k] = <<r, k>> /\ t[k] = <<r, k>>
    BY <2>1, <1>1, <1>2, <1>3, Zenon
  <2> QED
    BY <2>2, Zenon
<1>5. SubSeq(p, 1, m) = t
  BY <1>2, <1>3, <1>4
<1> QED
  BY <1>5 DEF p, t

-----------------------------------------------------------------------------
(***************************************************************************)
(* The fetch.  While a stream is open, <root>.part holds exactly what was   *)
(* received from it, and a stream that ended in good order without the      *)
(* seeder giving up has been sent in full.                                  *)
(***************************************************************************)
Received ==
  /\ part = Prefix(man.root, stream.got)
  /\ stream.end = "eof" /\ ~gaveup => stream.sent = Size

FetchInv ==
  /\ man.root \in Roots \cup {"noop"}
  /\ DOMAIN dir = Names
  /\ DOMAIN stream = {"sent", "got", "end"}
  /\ stream.sent \in 0..Size /\ stream.got \in 0..Size /\ stream.got <= stream.sent
  /\ pc \in {"try", "receive", "ok"} => man.root \in Roots
  /\ pc = "receive" => Received
  /\ FetchSound
  /\ NoStaleInput

\* A manifest names a root or the placeholder, and only a real root is fetched.
LEMMA Manifest ==
  ASSUME NEW m \in Manifests
  PROVE  /\ m.root \in Roots \cup {"noop"}
         /\ Enter(m) \in {"skipped", "try"}
         /\ Enter(m) = "try" => m.root \in Roots
BY DEF Manifests, Enter

\* What has been received from a stream that ended is a file, or a part of one,
\* and so is every copy of it.
LEMMA Copies ==
  ASSUME FetchInv, ReceiveEnds
  PROVE  /\ File(part) \in Files(man.root)
         /\ ~gaveup => File(part) = File(Whole(man.root))
         /\ \A c \in InputReplaced : \/ c = Link(man.root) \/ c = None
                                     \/ c \in Files(man.root) /\ c.kind = "file"
<1> DEFINE r == man.root
           g == stream.got
<1>1. /\ part = Prefix(r, g) /\ g \in 0..Size /\ g \in Nat
      /\ ~gaveup => g = Size
  BY SizeAssumption DEF FetchInv, ReceiveEnds, Received
<1>2. File(part) \in Files(r) /\ (~gaveup => File(part) = File(Whole(r)))
  BY <1>1 DEF Files, Contents, Whole
<1>3. \A n \in 0..g : File(Prefix(r, n)) \in Files(r) /\ File(Prefix(r, n)).kind = "file"
  <2> TAKE n \in 0..g
  <2>1. n \in 0..Size
    BY <1>1, SizeAssumption
  <2>2. Prefix(r, n) \in Contents(r)
    BY <2>1 DEF Contents
  <2> QED
    BY <2>2 DEF Files, File
<1>4. ASSUME NEW n \in 0..Len(part)
      PROVE  File(SubSeq(part, 1, n)) \in Files(r) /\ File(SubSeq(part, 1, n)).kind = "file"
  <2>1. n \in 0..g
    BY <1>1, PrefixSeq, ZenonT(60)
  <2>2. SubSeq(part, 1, n) = Prefix(r, n)
    BY <1>1, <2>1, SubSeqPrefix, SMTT(60)
  <2> QED
    BY <1>3, <2>1, <2>2, ZenonT(60)
<1> QED
  BY <1>2, <1>4 DEF InputReplaced

\* No chunks are a prefix of every file.
LEMMA NoChunks == \A r : <<>> = Prefix(r, 0) /\ File(<<>>) \in Files(r)
<1> TAKE r
<1>1. Prefix(r, 0) \in Seq({r} \X Nat) /\ Len(Prefix(r, 0)) = 0
  BY PrefixSeq, ZenonT(60)
<1>2. <<>> = Prefix(r, 0)
  BY <1>1, EmptySeq
<1>3. 0 \in 0..Size
  BY SizeAssumption
<1> QED
  BY <1>2, <1>3, Zenon DEF Files, Contents

\* A copy through an "input" that could not be removed leaves the file that was
\* fetched as it is, or empty.
LEMMA StuckCopies ==
  ASSUME FetchInv, ReceiveEnds, NEW d \in InputStuck
  PROVE  DOMAIN d = Names /\ d[man.root] \in Files(man.root)
<1> DEFINE r == man.root
           to == IF dir["input"].kind = "link" THEN dir["input"].to ELSE "input"
<1>1. r \in Names /\ DOMAIN dir = Names
  BY DEF FetchInv, ReceiveEnds, Names
<1>2. File(part) \in Files(r) /\ File(<<>>) \in Files(r)
  BY Copies, NoChunks, Zenon
<1>3. DOMAIN Renamed = Names /\ Renamed[r] = File(part)
  BY <1>1 DEF Renamed
<1>4. CASE d = Renamed
  BY <1>2, <1>3, <1>4
<1>5. ASSUME NEW c, d = [Renamed EXCEPT ![to] = File(c)], to = r => c = <<>>
      PROVE  DOMAIN d = Names /\ d[r] \in Files(r)
  <2> HIDE DEF to
  <2>1. CASE to = r
    BY <1>1, <1>2, <1>3, <1>5, <2>1
  <2>2. CASE to # r
    BY <1>1, <1>2, <1>3, <1>5, <2>2
  <2> QED
    BY <2>1, <2>2
<1> QED
  BY <1>4, <1>5 DEF InputStuck

\* Received chunks are moved to their name, and "input", if it could be removed, leads
\* to them, to a part of them, or nowhere.
LEMMA FetchCompletes == FetchInv /\ ReceiveEnds => FetchInv'
<1> SUFFICES ASSUME FetchInv, ReceiveEnds
             PROVE  FetchInv'
  OBVIOUS
<1> DEFINE r == man.root
<1>1. /\ r \in Roots /\ r \in Names /\ "input" \in Names
      /\ UNCHANGED <<man, stream, gaveup>> /\ pc' = "ok" /\ DOMAIN dir = Names
  BY DEF FetchInv, ReceiveEnds, Names
<1>2. File(part) \in Files(r) /\ (~gaveup => File(part) = File(Whole(r)))
  BY Copies
<1>3. File(part).kind = "file" /\ Link(r).kind = "link" /\ Link(r).to = r /\ None.kind = "none"
  BY DEF File, Link, None
<1>4. \A c \in InputReplaced : \/ c = Link(r) \/ c = None
                               \/ c \in Files(r) /\ c.kind = "file"
  BY Copies
<1>5. CASE ~stuck'
  <2>1. /\ DOMAIN dir' = Names
        /\ dir'[r] = File(part)
        /\ dir'["input"] = File(part) \/ dir'["input"] = Link(r) \/ dir'["input"] = None
             \/ (dir'["input"] \in Files(r) /\ dir'["input"].kind = "file")
    <3>1. CASE r = "input" /\ dir' = Renamed
      BY <1>1, <3>1 DEF Renamed
    <3>2. ASSUME r # "input", NEW c \in InputReplaced, dir' = [Renamed EXCEPT !["input"] = c]
          PROVE  DOMAIN dir' = Names /\ dir'[r] = File(part) /\ dir'["input"] = c
      BY <1>1, <3>2 DEF Renamed
    <3> QED
      BY <1>5, <3>1, <3>2, <1>4 DEF ReceiveEnds
  <2>2. FetchSound'
    BY <1>1, <1>2, <2>1 DEF FetchSound, Files, Contents, Whole
  <2>3. NoStaleInput'
    BY <1>1, <1>2, <1>3, <2>1 DEF NoStaleInput, Resolved, Files, Contents
  <2> QED
    BY <1>1, <2>1, <2>2, <2>3 DEF FetchInv
<1>6. CASE stuck'
  <2>1. dir' \in InputStuck
    BY <1>6 DEF ReceiveEnds
  <2>2. DOMAIN dir' = Names /\ dir'[r] \in Files(r)
    BY <2>1, StuckCopies
  <2>3. FetchSound' /\ NoStaleInput'
    BY <1>1, <1>6, <2>2 DEF FetchSound, NoStaleInput, Files, Contents
  <2> QED
    BY <1>1, <2>2, <2>3 DEF FetchInv
<1> QED
  BY <1>5, <1>6

\* Every step keeps the invariant.
LEMMA FetchInductive == FetchInv /\ [Next]_vars => FetchInv'
<1> SUFFICES ASSUME FetchInv, [Next]_vars
             PROVE  FetchInv'
  OBVIOUS
<1>a. ASSUME pc' # "ok"
      PROVE  FetchSound' /\ NoStaleInput'
  BY <1>a DEF FetchSound, NoStaleInput
<1>b. Size \in Nat \ {0}
  BY SizeAssumption
<1>1. CASE TryFails \/ ReceiveFails \/ WriteFails \/ Exhausted
  BY <1>1, <1>a DEF TryFails, ReceiveFails, WriteFails, Exhausted, FetchInv
<1>2. CASE Open
  <2>1. Prefix(man.root, 0) = <<>>
    BY NoChunks, Zenon
  <2> QED
    BY <1>2, <1>a, <1>b, <2>1 DEF Open, Opened, FetchInv, Received
<1>3. CASE Receive
  <2>1. /\ stream.got \in Nat /\ stream.got + 1 <= stream.sent
        /\ part = Prefix(man.root, stream.got)
    BY <1>3, <1>b DEF Receive, FetchInv, Received
  <2>2. part' = Prefix(man.root, stream.got + 1)
    BY <1>3, <2>1, AppendPrefix, ZenonT(60) DEF Receive
  <2>3. /\ DOMAIN stream' = {"sent", "got", "end"} /\ stream'.sent = stream.sent
        /\ stream'.got = stream.got + 1 /\ stream'.end = stream.end
    BY <1>3 DEF Receive, FetchInv
  <2> QED
    BY <1>3, <1>a, <1>b, <2>1, <2>2, <2>3 DEF Receive, FetchInv, Received
<1>4. CASE ReceiveEnds
  BY <1>4, FetchCompletes
<1>5. CASE Again
  BY <1>5, <1>a, Manifest DEF Again, FetchInv
<1>6. CASE SendChunk
  <2>1. /\ DOMAIN stream' = {"sent", "got", "end"} /\ stream'.sent = stream.sent + 1
        /\ stream'.got = stream.got /\ stream'.end = "open"
    BY <1>6 DEF SendChunk, Serving, FetchInv
  <2> QED
    BY <1>6, <1>a, <1>b, <2>1 DEF SendChunk, Serving, FetchInv, Received
<1>7. CASE SendEnds
  <2>1. /\ DOMAIN stream' = {"sent", "got", "end"} /\ stream'.sent = stream.sent
        /\ stream'.got = stream.got
    BY <1>7 DEF SendEnds, FetchInv
  <2> QED
    BY <1>7, <1>a, <2>1 DEF SendEnds, Serving, FetchInv, Received
<1>8. CASE SeederGivesUp
  <2>1. /\ DOMAIN stream' = {"sent", "got", "end"} /\ stream'.sent = stream.sent
        /\ stream'.got = stream.got
    BY <1>8 DEF SeederGivesUp, FetchInv
  <2> QED
    BY <1>8, <1>a, <2>1 DEF SeederGivesUp, Serving, FetchInv, Received
<1>9. CASE StreamReset
  <2>1. /\ DOMAIN stream' = {"sent", "got", "end"} /\ stream'.sent = stream.got
        /\ stream'.got = stream.got /\ stream'.end = "reset"
    BY <1>9 DEF StreamReset, FetchInv
  <2> QED
    BY <1>9, <1>a, <1>b, <2>1 DEF StreamReset, FetchInv, Received
<1>10. CASE UNCHANGED vars
  BY <1>10 DEF vars, FetchInv, Received, FetchSound, NoStaleInput, Resolved
<1> QED
  BY <1>1, <1>2, <1>3, <1>4, <1>5, <1>6, <1>7, <1>8, <1>9, <1>10
     DEF Next, AgentStep, SeederStep

\* The agent's fetches satisfy the invariant at every moment.
THEOREM FetchInvCorrect == Spec => []FetchInv
<1>1. Init => FetchInv
  BY SizeAssumption, Manifest DEF Init, FetchInv, Closed, FetchSound, NoStaleInput
<1> QED
  BY <1>1, FetchInductive, PTL DEF Spec

\* A successful FetchAny leaves the chunks of the file in order, from one
\* stream, and all of them unless the seeder closed early or an "input" that could
\* not be removed led to it.
THEOREM FetchSoundHolds == Spec => []FetchSound
<1>1. FetchInv => FetchSound
  BY DEF FetchInv
<1> QED
  BY <1>1, FetchInvCorrect, PTL

\* After a successful fetch that could remove it, "input" does not lead to an earlier
\* execution's file.
THEOREM NoStaleInputHolds == Spec => []NoStaleInput
<1>1. FetchInv => NoStaleInput
  BY DEF FetchInv
<1> QED
  BY <1>1, FetchInvCorrect, PTL

-----------------------------------------------------------------------------
(***************************************************************************)
(* Types.  A stream is open only to a provider of the manifest.             *)
(***************************************************************************)
TransferInv ==
  /\ TypeOK
  /\ pc = "receive" => i <= Len(man.providers)

\* A manifest has a list of providers.
LEMMA ManifestProviders ==
  ASSUME NEW m \in Manifests
  PROVE  Len(m.providers) \in Nat
<1>1. PICK n \in 0..2 : m.providers \in [1..n -> {pv \in Provider : ValidateProvider(pv)}]
  BY DEF Manifests
<1>2. n \in Nat /\ DOMAIN m.providers = 1..n
  BY <1>1
<1> QED
  BY <1>1, <1>2

\* What may be in the input directory.
LEMMA EntryKinds ==
  None \in Entries /\ \A r \in Roots : Link(r) \in Entries /\ \A f \in Files(r) : f \in Entries
<1>1. \A r \in Roots : Files(r) \subseteq UNION {Files(q) : q \in Roots}
  BY Zenon
<1>2. \A r \in Roots : Link(r) \in {Link(q) : q \in Roots}
  BY Zenon
<1> QED
  BY <1>1, <1>2, Zenon DEF Entries

\* Every step keeps the types.
LEMMA TransferInductive == FetchInv /\ TransferInv /\ [Next]_vars => TransferInv'
<1> SUFFICES ASSUME FetchInv, TransferInv, [Next]_vars
             PROVE  TransferInv'
  OBVIOUS
<1>a. FetchInv'
  BY FetchInductive
<1>b. Len(man.providers) \in Nat /\ Size \in Nat \ {0}
  BY ManifestProviders, SizeAssumption DEF TransferInv, TypeOK
<1>c. pc' = "receive" => \E r \in Roots : part' \in Contents(r)
  <2>1. ASSUME pc' = "receive"
        PROVE  /\ man'.root \in Roots /\ part' = Prefix(man'.root, stream'.got)
               /\ stream'.got \in 0..Size
    BY <1>a, <2>1 DEF FetchInv, Received
  <2> QED
    BY <2>1 DEF Contents
<1>1. CASE TryFails \/ ReceiveFails \/ WriteFails \/ Exhausted
  BY <1>1, <1>b DEF TryFails, ReceiveFails, WriteFails, Exhausted, TransferInv, TypeOK
<1>2. CASE Open
  <2>1. stream' \in [sent : 0..Size, got : 0..Size, end : {"open", "eof", "reset"}]
    BY <1>2, <1>b DEF Open, Opened
  <2>2. gaveup' \in BOOLEAN
    BY <1>2, Zenon DEF Open
  <2> QED
    BY <1>2, <1>b, <2>1, <2>2 DEF Open, TransferInv, TypeOK
<1>3. CASE Receive
  <2>1. stream' \in [sent : 0..Size, got : 0..Size, end : {"open", "eof", "reset"}]
    <3>1. stream \in [sent : 0..Size, got : 0..Size, end : {"open", "eof", "reset"}]
      BY DEF TransferInv, TypeOK
    <3>2. stream' = [stream EXCEPT !.got = stream.got + 1] /\ stream.got < stream.sent
      BY <1>3 DEF Receive
    <3>3. stream.got + 1 \in 0..Size
      BY <1>b, <3>1, <3>2
    <3> QED
      BY <3>1, <3>2, <3>3
  <2> QED
    BY <1>3, <1>c, <2>1, SMTT(60) DEF Receive, TransferInv, TypeOK
<1>4. CASE ReceiveEnds
  <2>1. man.root \in Roots /\ man.root \in Names /\ "input" \in Names
    BY <1>4 DEF ReceiveEnds, FetchInv, Names
  <2>2. File(part) \in Entries /\ \A c \in InputReplaced : c \in Entries
    BY <1>4, <2>1, Copies, EntryKinds
  <2>3. Renamed \in [Names -> Entries]
    BY <2>1, <2>2 DEF Renamed, TransferInv, TypeOK
  <2>4. ASSUME NEW d \in InputStuck, dir["input"] # None
        PROVE  d \in [Names -> Entries]
    <3> DEFINE to == IF dir["input"].kind = "link" THEN dir["input"].to ELSE "input"
    <3>1. to \in Names
      <4>1. dir["input"] \in Entries
        BY <2>1 DEF TransferInv, TypeOK
      <4>2. dir["input"].kind = "link" => dir["input"].to \in Roots
        BY <4>1 DEF Entries, Files, File, Link, None
      <4> QED
        BY <2>1, <4>2 DEF Names
    <3>2. File(<<>>) \in Entries
      BY <2>1, NoChunks, EntryKinds, Zenon
    <3>3. \A n \in 0..Len(part) : File(SubSeq(part, 1, n)) \in Entries
      BY <2>2 DEF InputReplaced
    <3> HIDE DEF to
    <3>4. \A e \in Entries : [Renamed EXCEPT ![to] = e] \in [Names -> Entries]
      BY <2>3, <3>1
    <3> QED
      BY <2>3, <3>2, <3>3, <3>4 DEF InputStuck, to
  <2>5. dir' \in [Names -> Entries]
    BY <1>4, <2>1, <2>2, <2>3, <2>4 DEF ReceiveEnds
  <2>6. stuck' \in BOOLEAN
    BY <1>4, Zenon DEF ReceiveEnds
  <2> QED
    BY <1>4, <2>5, <2>6 DEF ReceiveEnds, TransferInv, TypeOK
<1>5. CASE Again
  <2>1. PICK m \in Manifests : man' = m /\ pc' = Enter(m)
    BY <1>5 DEF Again
  <2>2. i' \in 1..(Len(man'.providers) + 1)
    BY <1>5, <2>1, ManifestProviders DEF Again
  <2> QED
    BY <1>5, <2>1, <2>2, Manifest DEF Again, TransferInv, TypeOK
<1>6. CASE SendChunk \/ SendEnds \/ SeederGivesUp \/ StreamReset
  <2>1. stream' \in [sent : 0..Size, got : 0..Size, end : {"open", "eof", "reset"}]
    <3>1. /\ stream \in [sent : 0..Size, got : 0..Size, end : {"open", "eof", "reset"}]
          /\ stream.sent \in 0..Size /\ stream.got \in 0..Size
      BY DEF TransferInv, TypeOK
    <3>2. CASE SendChunk
      BY <1>b, <3>1, <3>2 DEF SendChunk
    <3>3. CASE SendEnds \/ SeederGivesUp
      BY <3>1, <3>3 DEF SendEnds, SeederGivesUp
    <3>4. CASE StreamReset
      BY <3>1, <3>4, ZenonT(60) DEF StreamReset
    <3> QED
      BY <1>6, <3>2, <3>3, <3>4
  <2>2. gaveup' \in BOOLEAN
    BY <1>6, Zenon DEF SendChunk, SendEnds, SeederGivesUp, StreamReset, TransferInv, TypeOK
  <2> QED
    BY <1>6, <2>1, <2>2
       DEF SendChunk, SendEnds, SeederGivesUp, StreamReset, TransferInv, TypeOK
<1>7. CASE UNCHANGED vars
  BY <1>7 DEF vars, TransferInv, TypeOK
<1> QED
  BY <1>1, <1>2, <1>3, <1>4, <1>5, <1>6, <1>7 DEF Next, AgentStep, SeederStep

\* The input directory holds nothing but files with a beginning of some root's
\* chunks and links to roots, and FetchAny's index stays within the manifest.
THEOREM TransferTypeCorrect == Spec => []TypeOK
<1>1. Init => TransferInv
  <2> SUFFICES ASSUME Init
               PROVE  TransferInv
    OBVIOUS
  <2>1. i \in 1..(Len(man.providers) + 1)
    <3>1. Len(man.providers) \in Nat /\ i = 1
      BY ManifestProviders DEF Init
    <3> QED
      BY <3>1
  <2>2. dir \in [Names -> Entries]
    BY EntryKinds DEF Init
  <2>3. gaveup \in BOOLEAN /\ stuck \in BOOLEAN
    BY Zenon DEF Init
  <2>4. stream \in [sent : 0..Size, got : 0..Size, end : {"open", "eof", "reset"}]
    BY SizeAssumption DEF Init, Closed
  <2> QED
    BY <2>1, <2>2, <2>3, <2>4, Manifest DEF Init, TransferInv, TypeOK
<1>2. TransferInv => TypeOK
  BY DEF TransferInv
<1> QED
  BY <1>1, <1>2, TransferInductive, FetchInvCorrect, PTL DEF Spec
=============================================================================
