------------------------------ MODULE Exchange ------------------------------
(***************************************************************************)
(* The handler of src/src/main.rs as a path through shared files: the body *)
(* of a request is read (in memory, or into a spill file named after the   *)
(* request's stem), perhaps moved into the recording, the artifacts are    *)
(* written, and the body is forwarded - a spilled one by reading its file  *)
(* again while it is being sent.  Requests run on several threads and      *)
(* share the temporary directory.                                          *)
(*                                                                         *)
(* BodyRead has the details of reading a body and Tee those of the         *)
(* response; here a body is a sequence of blocks, written and read one at  *)
(* a time, and files are inodes under names, as a rename or a removal      *)
(* leaves open descriptors alone.                                          *)
(***************************************************************************)
EXTENDS Integers, Sequences, FiniteSets

CONSTANTS
  Requests,
  Stems,      \* the values of Plan::stem: <stamp>-<thread>-rNNNN, without the session
  Dirs,       \* the directories of sessions in the recording
  Compressed, \* the requests with a content-encoding
  Sizes,      \* lengths a body may have, in blocks
  Limit,      \* limits.request_body_bytes, in blocks
  HeadKeep,   \* HEAD_KEEP, in blocks
  RawCap,     \* bodies of 4 MiB and more get no raw artifact; in blocks
  RecordRaw   \* record.enabled and record.request_body_raw

ASSUME ExchangeAssumption ==
  /\ Compressed \subseteq Requests
  /\ Sizes \subseteq Nat /\ {Limit, HeadKeep, RawCap} \subseteq Nat \ {0}
  /\ RecordRaw \in BOOLEAN
  /\ "tmp" \notin Dirs /\ "memory" \notin Dirs

VARIABLES
  size,   \* how many blocks each client sends
  stem,   \* the stem of each request's plan
  dir,    \* the directory of each request's plan
  at,     \* where each handler is: see Places
  names,  \* the files that exist: name -> inode
  data,   \* what each inode holds
  in,     \* each request's descriptor on its spill file: inode and offset
  out,    \* each request's descriptor on the file it forwards from
  source, \* forward_path, or InMemory
  unlink, \* the spill path is to be removed (spilled is Some)
  up,     \* how far each upload is: see Uploads
  sent,   \* the blocks the upstream got from each request
  cut,    \* the last background write of a request's spill file has failed
  unkept  \* the write of a request's raw artifact has failed

plans == <<size, stem, dir>>
vars == <<plans, at, names, data, in, out, source, unlink, up, sent, cut, unkept>>

Over   == {"answered", "passed", "catalog", "unread", "refused", "bad_gateway", "gone"}
Places == Over \cup {"reading", "spilling", "moving", "writing", "forwarding",
                     "collecting", "streaming"}
Uploads == {"unpolled", "sending", "ended", "broken"}

Block(r, i)  == [of |-> r, at |-> i]
Hole         == [of |-> "nobody", at |-> 0]
BodyOf(r)    == [i \in 1 .. size[r] |-> Block(r, i)]
OverLimit(r) == size[r] > Limit
Lesser(m, n) == IF m < n THEN m ELSE n
First(s, n)  == SubSeq(s, 1, Lesser(n, Len(s)))

Temp(r) == [dir |-> "tmp", file |-> stem[r]]
Raw(r)  == [dir |-> dir[r], file |-> stem[r]]
InMemory == [dir |-> "memory", file |-> "none"]

Closed == [ino |-> 0, pos |-> 0]

-----------------------------------------------------------------------------
(* Files.                                                                  *)

FreshIno == Cardinality(DOMAIN data) + 1

\* File::create: an existing file is emptied, a missing one made.
Creates(name, content) ==
  LET ino == IF name \in DOMAIN names THEN names[name] ELSE FreshIno IN
  /\ names' = [n \in DOMAIN names \cup {name} |-> IF n = name THEN ino ELSE names[n]]
  /\ data' = [i \in DOMAIN data \cup {ino} |-> IF i = ino THEN content ELSE data[i]]

Without(name) == [n \in DOMAIN names \ {name} |-> names[n]]

\* fs::rename replaces what is at the new name.
Renamed(from, to) ==
  [n \in (DOMAIN names \ {from}) \cup {to} |-> IF n = to THEN names[from] ELSE names[n]]

\* A write through a descriptor that does not append lands at its offset.
Overwritten(s, pos, b) ==
  [i \in 1 .. (IF pos + 1 > Len(s) THEN pos + 1 ELSE Len(s)) |->
     IF i = pos + 1 THEN b ELSE IF i <= Len(s) THEN s[i] ELSE Hole]

-----------------------------------------------------------------------------
Init ==
  /\ size \in [Requests -> Sizes]
  /\ stem \in [Requests -> Stems] /\ dir \in [Requests -> Dirs]
  /\ at = [r \in Requests |-> "reading"]
  /\ names = << >> /\ data = << >>
  /\ in = [r \in Requests |-> Closed] /\ out = [r \in Requests |-> Closed]
  /\ source = [r \in Requests |-> InMemory]
  /\ unlink = [r \in Requests |-> FALSE]
  /\ up = [r \in Requests |-> "unpolled"]
  /\ sent = [r \in Requests |-> << >>]
  /\ cut = [r \in Requests |-> FALSE] /\ unkept = [r \in Requests |-> FALSE]

Goes(r, from, to) == at[r] = from /\ at' = [at EXCEPT ![r] = to]

\* The body ends within the limit.
ReadInMemory(r) ==
  /\ Goes(r, "reading", "writing")
  /\ ~OverLimit(r)
  /\ UNCHANGED <<plans, names, data, in, out, source, unlink, up, sent, cut, unkept>>

\* The body crosses the limit: the spill file is created.
Spill(r) ==
  /\ Goes(r, "reading", "spilling")
  /\ OverLimit(r)
  /\ Creates(Temp(r), << >>)
  /\ in' = [in EXCEPT ![r] = [ino |-> names'[Temp(r)], pos |-> 0]]
  /\ UNCHANGED <<plans, out, source, unlink, up, sent, cut, unkept>>

\* write_all hands a block to the background, having waited for the one before.
SpillBlock(r) ==
  /\ at[r] = "spilling" /\ in[r].pos < size[r] /\ ~cut[r]
  /\ \/ /\ data' = [data EXCEPT ![in[r].ino] =
                     Overwritten(@, in[r].pos, Block(r, in[r].pos + 1))]
        /\ UNCHANGED cut
     \/ /\ cut' = [cut EXCEPT ![r] = TRUE]
        /\ UNCHANGED data
  /\ in' = [in EXCEPT ![r] = [ino |-> in[r].ino, pos |-> in[r].pos + 1]]
  /\ UNCHANGED <<plans, at, names, out, source, unlink, up, sent, unkept>>

\* The body ends; what flush says of the last block is ignored.
Spilled(r) ==
  /\ Goes(r, "spilling", "moving")
  /\ in[r].pos = size[r]
  /\ in' = [in EXCEPT ![r] = Closed]
  /\ UNCHANGED <<plans, names, data, out, source, unlink, up, sent, cut, unkept>>

\* body::read returns an error, such as that of a block's write when there is
\* another block: 413 or 400, and the handler returns.
Refuse(r) ==
  /\ \/ Goes(r, "reading", "refused")
     \/ Goes(r, "spilling", "refused")
  /\ in' = [in EXCEPT ![r] = Closed]
  /\ UNCHANGED <<plans, names, data, out, source, unlink, up, sent, cut, unkept>>

\* The spilled body of a compressed request is the recording of its raw body:
\* renamed or, when that fails, copied and removed.
Moves(r) == RecordRaw /\ r \in Compressed

Renames(r) == names' = Renamed(Temp(r), Raw(r)) /\ UNCHANGED data

Copies(r) ==
  /\ names' = [n \in (DOMAIN names \ {Temp(r)}) \cup {Raw(r)} |->
                IF n = Raw(r) THEN FreshIno ELSE names[n]]
  /\ data' = [i \in DOMAIN data \cup {FreshIno} |->
               IF i = FreshIno THEN data[names[Temp(r)]] ELSE data[i]]

Move(r) ==
  /\ Goes(r, "moving", "writing")
  /\ Moves(r) /\ Temp(r) \in DOMAIN names
  /\ Renames(r) \/ Copies(r)
  /\ source' = [source EXCEPT ![r] = Raw(r)]
  /\ UNCHANGED <<plans, in, out, unlink, up, sent, cut, unkept>>

\* A copy that fails leaves what it has copied so far.
CopiesPart(r) ==
  /\ Moves(r) /\ Temp(r) \in DOMAIN names
  /\ LET copied == data[names[Temp(r)]] IN
       \E n \in 0 .. Len(copied) - 1 : Creates(Raw(r), First(copied, n))

\* When it is not to be kept, or neither works, the body is forwarded from the
\* spill file, which is to be removed after it.
KeepSpill(r) ==
  /\ Goes(r, "moving", "writing")
  /\ CopiesPart(r) \/ UNCHANGED <<names, data>>
  /\ source' = [source EXCEPT ![r] = Temp(r)]
  /\ unlink' = [unlink EXCEPT ![r] = TRUE]
  /\ UNCHANGED <<plans, in, out, up, sent, cut, unkept>>

\* Mutant of Buffered: every body is cut down to its head.
BufferedHead(r) == {First(BodyOf(r), Lesser(Limit, HeadKeep))}

\* body_bytes: all of a body in memory; of a spilled one a head, which is
\* shorter when its frames are long.
Buffered(r) ==
  IF OverLimit(r) THEN {First(BodyOf(r), h) : h \in 0 .. Lesser(Limit, HeadKeep)}
                  ELSE {BodyOf(r)}

\* write_if_any: all of the bytes reach the file; or the file cannot be created,
\* or only a part of them reaches it, and nobody is told.
Artifact(r, bytes) ==
  \/ Creates(Raw(r), bytes) /\ UNCHANGED unkept
  \/ /\ \/ UNCHANGED <<names, data>>
        \/ \E n \in 0 .. Len(bytes) - 1 : Creates(Raw(r), First(bytes, n))
     /\ unkept' = [unkept EXCEPT ![r] = TRUE]

\* The raw body is written as an artifact of a compressed request, unless a
\* spill file is still to be removed or the body is empty or too long.
WriteArtifacts(r) ==
  /\ Goes(r, "writing", "forwarding")
  /\ \E bytes \in Buffered(r) :
       IF RecordRaw /\ r \in Compressed /\ ~unlink[r] /\ Len(bytes) \in 1 .. RawCap - 1
         THEN Artifact(r, bytes)
         ELSE UNCHANGED <<names, data, unkept>>
  /\ UNCHANGED <<plans, in, out, source, unlink, up, sent, cut>>

\* Once send is called the upload runs beside the handler, which may go on
\* when the upstream answers early.
Uploading(r) == at[r] \in {"forwarding", "collecting", "streaming",
                            "answered", "passed", "catalog", "unread"}

\* The upload starts: from memory, or by opening forward_path now.
OpenBody(r) ==
  /\ Uploading(r) /\ up[r] = "unpolled"
  /\ \/ /\ source[r] = InMemory
        /\ up' = [up EXCEPT ![r] = "ended"]
        /\ sent' = [sent EXCEPT ![r] = BodyOf(r)]
        /\ UNCHANGED out
     \/ /\ source[r] # InMemory /\ source[r] \in DOMAIN names
        /\ up' = [up EXCEPT ![r] = "sending"]
        /\ out' = [out EXCEPT ![r] = [ino |-> names[source[r]], pos |-> 0]]
        /\ UNCHANGED sent
     \/ /\ source[r] # InMemory /\ source[r] \notin DOMAIN names
        /\ up' = [up EXCEPT ![r] = "broken"]
        /\ UNCHANGED <<sent, out>>
  /\ UNCHANGED <<plans, at, names, data, in, source, unlink, cut, unkept>>

\* Mutant of SendBlock: the offset does not move on.
SendBlockAgain(r) ==
  /\ up[r] = "sending" /\ out[r].pos < Len(data[out[r].ino])
  /\ sent' = [sent EXCEPT ![r] = Append(@, data[out[r].ino][out[r].pos + 1])]
  /\ UNCHANGED <<plans, at, names, data, in, out, source, unlink, up, cut, unkept>>

SendBlock(r) ==
  /\ up[r] = "sending" /\ out[r].pos < Len(data[out[r].ino])
  /\ sent' = [sent EXCEPT ![r] = Append(@, data[out[r].ino][out[r].pos + 1])]
  /\ out' = [out EXCEPT ![r] = [ino |-> out[r].ino, pos |-> out[r].pos + 1]]
  /\ UNCHANGED <<plans, at, names, data, in, source, unlink, up, cut, unkept>>

\* The read reaches the end of the file: the upstream is told the body ends.
SentAll(r) ==
  /\ up[r] = "sending" /\ out[r].pos >= Len(data[out[r].ino])
  /\ up' = [up EXCEPT ![r] = "ended"]
  /\ UNCHANGED <<plans, at, names, data, in, out, source, unlink, sent, cut, unkept>>

\* Mutant of Unspill: the path is forgotten and its file is not removed.
UnspillForgets(r) ==
  /\ unlink' = [unlink EXCEPT ![r] = FALSE]
  /\ UNCHANGED names

\* Remove the spill file, by its name, if it is to be removed.
Unspill(r) ==
  /\ names' = IF unlink[r] THEN Without(Temp(r)) ELSE names
  /\ unlink' = [unlink EXCEPT ![r] = FALSE]

\* send fails - the body could not be read, or the upstream breaks: 502.
SendFails(r) ==
  /\ Goes(r, "forwarding", "bad_gateway")
  /\ up' = [up EXCEPT ![r] = "broken"]
  /\ Unspill(r)
  /\ UNCHANGED <<plans, data, in, out, source, sent, cut, unkept>>

\* The upstream answers, perhaps before it has the whole body.  A catalog to be
\* rewritten is read whole first; a response that is kept or summarized gets a
\* Sink, which owns the spill file from now on; any other is passed on as it is.
Respond(r) ==
  /\ up[r] # "broken"
  /\ Goes(r, "forwarding", "collecting") \/ Goes(r, "forwarding", "streaming")
  /\ UNCHANGED <<plans, names, data, in, out, source, unlink, up, sent, cut, unkept>>

PassOn(r) ==
  /\ up[r] # "broken"
  /\ Goes(r, "forwarding", "passed")
  /\ Unspill(r)
  /\ UNCHANGED <<plans, data, in, out, source, up, sent, cut, unkept>>

\* The catalog has been read and is returned rewritten, or cannot be read: 502.
\* Neither way out looks at the spill file.
AnswerCatalog(r) ==
  /\ Goes(r, "collecting", "catalog") \/ Goes(r, "collecting", "unread")
  /\ UNCHANGED <<plans, names, data, in, out, source, unlink, up, sent, cut, unkept>>

\* Sink::finish, at the end of the response or when the client goes away.
Finish(r) ==
  /\ Goes(r, "streaming", "answered")
  /\ Unspill(r)
  /\ UNCHANGED <<plans, data, in, out, source, up, sent, cut, unkept>>

\* The client's connection ends before there is a Sink: the handler's future
\* is dropped at an await.
Gone(r) ==
  /\ \/ Goes(r, "reading", "gone") \/ Goes(r, "spilling", "gone")
     \/ Goes(r, "forwarding", "gone") \/ Goes(r, "collecting", "gone")
  /\ in' = [in EXCEPT ![r] = Closed]
  /\ up' = [up EXCEPT ![r] = "broken"]
  /\ UNCHANGED <<plans, names, data, out, source, unlink, sent, cut, unkept>>

Next ==
  \E r \in Requests :
    \/ ReadInMemory(r) \/ Spill(r) \/ SpillBlock(r) \/ Spilled(r) \/ Refuse(r)
    \/ Move(r) \/ KeepSpill(r) \/ WriteArtifacts(r)
    \/ OpenBody(r) \/ SendBlock(r) \/ SentAll(r) \/ SendFails(r)
    \/ Respond(r) \/ PassOn(r) \/ AnswerCatalog(r) \/ Finish(r) \/ Gone(r)

Spec == Init /\ [][Next]_vars

-----------------------------------------------------------------------------
(* Properties.                                                             *)

\* The types of the state.
Inside(descriptors) == \A r \in Requests : descriptors[r].ino \in DOMAIN data \cup {0}
TypeOK ==
  /\ size \in [Requests -> Sizes]
  /\ stem \in [Requests -> Stems] /\ dir \in [Requests -> Dirs]
  /\ at \in [Requests -> Places]
  /\ \A n \in DOMAIN names : names[n] \in DOMAIN data
  /\ in \in [Requests -> [ino : Nat, pos : Nat]] /\ Inside(in)
  /\ out \in [Requests -> [ino : Nat, pos : Nat]] /\ Inside(out)
  /\ DOMAIN source = Requests
  /\ \A r \in Requests : source[r] \in {InMemory, Temp(r), Raw(r)}
  /\ unlink \in [Requests -> BOOLEAN] /\ up \in [Requests -> Uploads]
  /\ DOMAIN sent = Requests
  /\ cut \in [Requests -> BOOLEAN] /\ unkept \in [Requests -> BOOLEAN]

Private(r)   == \A q \in Requests \ {r} : stem[q] # stem[r]
SentWhole(r) == up[r] = "ended"

\* How many blocks of its body the spill file of r lacks.
Missing(r) == IF cut[r] THEN 1 ELSE 0

\* No other request has the plan of r: its directory and its stem.
Alone(r) == \A q \in Requests \ {r} : Raw(q) # Raw(r)

\* Whatever the other requests do, what is sent of a request whose stem is its
\* own is its body, from the start and without a gap; and what the upstream
\* takes for the whole body lacks at most the block whose write failed last,
\* unless the spill file was moved into the recording (main.rs:478-618).
OwnBodySent ==
  \A r \in Requests : Private(r) =>
    /\ sent[r] = First(BodyOf(r), Len(sent[r]))
    /\ SentWhole(r) /\ source[r] # Raw(r)
       => Len(sent[r]) >= size[r] - Missing(r)

\* A body that stayed in memory is recorded whole before it is sent unless that
\* write failed, whatever happens to its request and to the others later; an
\* artifact there is of it never holds anything else, and there is none of an
\* empty body or one of RawCap or more (main.rs:624-627).
RawRecorded ==
  \A r \in Requests :
    RecordRaw /\ r \in Compressed /\ Alone(r) /\ SentWhole(r) /\ ~OverLimit(r) =>
      /\ size[r] \in 1 .. RawCap - 1 /\ ~unkept[r]
         => Raw(r) \in DOMAIN names /\ data[names[Raw(r)]] = BodyOf(r)
      /\ Raw(r) \in DOMAIN names =>
           /\ size[r] \in 1 .. RawCap - 1
           /\ \E n \in 0 .. size[r] : data[names[Raw(r)]] = First(BodyOf(r), n)

\* A spill file that is left when nobody works any more belongs to a request
\* that was refused or abandoned, or whose response was a catalog: the ways out
\* of the handler that do not remove it.
LeftSpillsExplained ==
  (\A r \in Requests : at[r] \in Over) =>
    \A n \in DOMAIN names : n.dir = "tmp" =>
      \E r \in Requests : /\ Temp(r) = n /\ OverLimit(r)
                          /\ at[r] \in {"refused", "gone", "catalog", "unread"}

\* "everything is written to a file as it arrives and forwarded from that
\* file, so memory stays bounded and nothing is lost" (body.rs:7-8).  A failed
\* write to that file is not what this is about.
NothingLost == \A r \in Requests : SentWhole(r) /\ ~cut[r] => sent[r] = BodyOf(r)

=============================================================================
