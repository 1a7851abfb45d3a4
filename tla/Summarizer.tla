----------------------------- MODULE Summarizer -----------------------------
(***************************************************************************)
(* The summary of a response, made while it streams (Summarizer of         *)
(* src/src/summary.rs): an event stream is cut into lines as its chunks    *)
(* arrive and each line is looked at once; of any other body a prefix is   *)
(* kept and looked at when it ends.                                        *)
(*                                                                         *)
(* A byte is a newline, "{", "x" (anything that opens and closes nothing)  *)
(* or one of Closers.  A closer stands for the fields and the end of the   *)
(* JSON object that a "{" opened: a text is JSON when it is "{", any       *)
(* number of "x" and a closer.  So a frame is cut anywhere by chunks, and  *)
(* the tail of a line is a frame again only if it begins with a "{".       *)
(***************************************************************************)
EXTENDS Integers, Sequences, SequencesExt, FiniteSets

CONSTANTS
  Closers,   \* the last bytes of frames
  Type,      \* [Closers -> STRING]: the frame's "type", or "" if it has none
  Delta,     \* [Closers -> Nat]: the length of its "delta", 0 if it has none
  Model,     \* [Closers -> STRING]: its "model", or ""
  Usage,     \* [Closers -> BOOLEAN]: its usage counts output tokens
  MaxLine,   \* MAX_LINE
  TextCap,   \* TEXT_CAP
  Keep,      \* values of limits.summary_buffer_bytes
  MaxChunk,  \* bound: bytes in a chunk
  MaxBytes   \* bound: bytes in a response

None == "none"
Dropped == "dropped an over-long SSE line"

NL == "n"
Bytes == Closers \cup {NL, "{", "x"}

ASSUME SummarizerAssumption ==
  /\ MaxLine \in Nat \ {0} /\ TextCap \in Nat \ {0}
  /\ Keep \subseteq Nat
  /\ {NL, "{", "x"} \cap Closers = {} /\ Dropped \notin Closers
  /\ DOMAIN Type = Closers /\ DOMAIN Model = Closers
  /\ Delta \in [Closers -> Nat] /\ Usage \in [Closers -> BOOLEAN]
  /\ MaxChunk \in Nat \ {0} /\ MaxBytes \in Nat

VARIABLES
  sse,       \* the content type is an event stream
  cap,       \* the prefix of another body that is kept
  encoding,  \* "zstd" or "identity": the response's content-encoding
  pending,   \* the line under way
  raw,       \* the prefix kept
  truncated, \* raw_truncated
  bytes,     \* bytes counted
  events,    \* how often each type was seen
  errors,    \* error frames and dropped lines
  answer,    \* the length of the answer kept
  models,    \* models seen
  usage,     \* the last usage
  done,      \* finish has been called
  received,  \* history: every byte of the response
  handed     \* history: every line parse_line was given

fixed == <<sse, cap, encoding>>
fields == <<events, errors, answer, models, usage>>
vars == <<fixed, pending, raw, truncated, bytes, fields, done, received, handed>>

-----------------------------------------------------------------------------
\* serde_json::from_str of a text.
IsJson(text) ==
  /\ Len(text) >= 2 /\ text[1] = "{" /\ text[Len(text)] \in Closers
  /\ \A i \in 2..(Len(text) - 1) : text[i] = "x"

\* What a summary says: the fields of Summarizer that parse_line sets.
Blank == [events |-> [t \in {Type[c] : c \in Closers} \ {""} |-> 0],
          errors |-> << >>, answer |-> 0, models |-> << >>, usage |-> None]

Fields == [events |-> events, errors |-> errors, answer |-> answer,
           models |-> models, usage |-> usage]

\* Mutant of Grown: the cap is on what the answer becomes.
GrownWithin(text, delta) ==
  IF text + delta <= TextCap THEN text + delta ELSE text

\* A delta is added while the text is below its cap, however long the delta.
Grown(text, delta) == IF text < TextCap THEN text + delta ELSE text

AddOnce(seen, v) == IF v = "" \/ Contains(seen, v) THEN seen ELSE Append(seen, v)

\* parse_line: what a line adds to the summary s.
Parsed(s, line) ==
  IF ~IsJson(line) THEN s
  ELSE LET c == line[Len(line)] IN
       [events |-> [t \in DOMAIN s.events |->
                      s.events[t] + IF t = Type[c] THEN 1 ELSE 0],
        errors |-> IF Type[c] = "response.failed" THEN Append(s.errors, c)
                   ELSE s.errors,
        answer |-> IF Type[c] = "delta" THEN Grown(s.answer, Delta[c])
                   ELSE s.answer,
        models |-> AddOnce(s.models, Model[c]),
        usage |-> IF Usage[c] THEN c ELSE s.usage]

\* The newlines of a text, and the place of the k-th: 0 is before the first.
Ends(text) == {i \in DOMAIN text : text[i] = NL}
End(text, k) == CHOOSE i \in Ends(text) \cup {0} :
                  Cardinality({j \in Ends(text) : j <= i}) = k

\* The lines that are complete: what the loop of push drains.
Lines(text) ==
  [k \in 1..Cardinality(Ends(text)) |->
     SubSeq(text, End(text, k - 1) + 1, End(text, k) - 1)]

\* Mutant of Rest: what follows the last newline is given up.
RestNothing(text) == << >>

\* What is left pending.
Rest(text) == SubSeq(text, End(text, Cardinality(Ends(text))) + 1, Len(text))

\* Mutant of TooLong: a byte more is let through.
TooLongByTwo(rest) == Len(rest) > MaxLine + 1

TooLong(rest) == Len(rest) > MaxLine

\* zstd_decode: a frame is an "x" before what was compressed; one that is cut
\* or is not a frame cannot be decoded.
Trimmed(text) == SelectSeq(text, LAMBDA b : b # NL)
Unzstd(text) ==
  IF text[1] = "x" /\ IsJson(Trimmed(Tail(text))) THEN Tail(text) ELSE None

-----------------------------------------------------------------------------
Init ==
  /\ sse \in BOOLEAN /\ cap \in Keep /\ encoding \in {"zstd", "identity"}
  /\ sse => encoding = "identity"
  /\ pending = << >> /\ raw = << >> /\ truncated = FALSE /\ bytes = 0
  /\ events = Blank.events /\ errors = Blank.errors /\ answer = Blank.answer
  /\ models = Blank.models /\ usage = Blank.usage
  /\ done = FALSE /\ received = << >> /\ handed = << >>

Chunks == UNION {[1..n -> Bytes] : n \in 0..MaxChunk}

Pushed(chunk) ==
  /\ ~done /\ Len(received) + Len(chunk) <= MaxBytes
  /\ received' = received \o chunk
  /\ bytes' = bytes + Len(chunk)
  /\ UNCHANGED <<fixed, done>>

\* push of a chunk of an event stream: each line that is complete is parsed;
\* a line under way that is too long is dropped so far.
PushLines(chunk) ==
  LET text == pending \o chunk
      rest == Rest(text)
      sum == FoldLeft(Parsed, Fields, Lines(text))
  IN /\ sse /\ Pushed(chunk)
     /\ handed' = handed \o Lines(text)
     /\ pending' = IF TooLong(rest) THEN << >> ELSE rest
     /\ errors' = IF TooLong(rest) THEN Append(sum.errors, Dropped)
                  ELSE sum.errors
     /\ events' = sum.events /\ answer' = sum.answer
     /\ models' = sum.models /\ usage' = sum.usage
     /\ UNCHANGED <<raw, truncated>>

\* Mutant of Cut: a chunk of which a part fits is taken to fit.
CutUnlessSome(chunk, take) == take = 0 /\ Len(chunk) > 0

\* Not all of the chunk was kept.
Cut(chunk, take) == take < Len(chunk)

\* push of a chunk of any other body.
PushRaw(chunk) ==
  LET room == cap - Len(raw)
      take == IF room < Len(chunk) THEN room ELSE Len(chunk)
  IN /\ ~sse /\ Pushed(chunk)
     /\ raw' = raw \o SubSeq(chunk, 1, take)
     /\ truncated' = (truncated \/ Cut(chunk, take))
     /\ UNCHANGED <<pending, fields, handed>>

\* The stream is over, at its end or before: finish.
Finish ==
  /\ ~done
  /\ done' = TRUE
  /\ UNCHANGED <<fixed, pending, raw, truncated, bytes, fields, received, handed>>

Next == (\E chunk \in Chunks : PushLines(chunk) \/ PushRaw(chunk)) \/ Finish

Spec == Init /\ [][Next]_vars

\* catalog_summary, of the prefix that was kept.
Catalog ==
  LET zipped == /\ raw # << >> /\ ~IsJson(Trimmed(raw))
                /\ encoding = "zstd" /\ Unzstd(raw) # None
      plain == IF zipped THEN Unzstd(raw) ELSE raw
  IN [parsed |-> IsJson(Trimmed(plain)),
      decoded |-> zipped,
      truncated |-> truncated \/ (cap = 0 /\ bytes > 0)]

-----------------------------------------------------------------------------
(* Properties.                                                             *)

Summaries ==
  [events : [{Type[c] : c \in Closers} \ {""} -> Nat],
   errors : Seq(Closers \cup {Dropped}), answer : Nat,
   models : Seq({Model[c] : c \in Closers}), usage : Closers \cup {None}]

\* The types of the state.
TypeOK ==
  /\ sse \in BOOLEAN /\ cap \in Nat /\ encoding \in {"zstd", "identity"}
  /\ pending \in Seq(Bytes) /\ raw \in Seq(Bytes)
  /\ truncated \in BOOLEAN /\ bytes \in Nat
  /\ Fields \in Summaries
  /\ done \in BOOLEAN
  /\ received \in Seq(Bytes) /\ handed \in Seq(Seq(Bytes))

Heard == Lines(received)
ShortSoFar == /\ \A i \in DOMAIN Heard : Len(Heard[i]) <= MaxLine
              /\ Len(Rest(received)) <= MaxLine
Drops == {i \in DOMAIN errors : errors[i] = Dropped}

\* However a stream is cut into chunks, each of its lines is looked at once, in
\* order, when its newline comes: whole if it is no longer than MAX_LINE, and
\* else perhaps only its tail, of which there is then an error.
EachLineOnce ==
  sse => /\ Len(handed) = Len(Heard)
         /\ \A i \in DOMAIN handed :
              /\ IsSuffix(handed[i], Heard[i])
              /\ Len(Heard[i]) <= MaxLine => handed[i] = Heard[i]
         /\ Cardinality({i \in DOMAIN handed : handed[i] # Heard[i]})
              <= Cardinality(Drops)
         /\ ShortSoFar => Drops = {}

\* What has a cap stays within it, whatever the stream and however it is cut:
\* the line under way, the prefix, and the answer but for one delta.  Errors,
\* models, types and the like have none and grow with what the stream says;
\* of a line without an end, though, there is one error for more than MAX_LINE
\* bytes that came and were let go, not one for each chunk.
CapsHold ==
  /\ Len(pending) <= MaxLine
  /\ Len(raw) <= cap
  /\ answer < TextCap \/ \E c \in Closers : answer - Delta[c] < TextCap
  /\ sse => Cardinality(Drops) * (MaxLine + 1) + Len(pending) <= Len(received)

\* The frames among the lines, and the closer that stands for the i-th line.
Frames(lines) == {i \in DOMAIN lines : IsJson(lines[i])}
Closer(lines, i) == lines[i][Len(lines[i])]

ModelsUpTo(lines, i) ==
  {Model[Closer(lines, j)] : j \in {j \in Frames(lines) : j <= i}} \ {""}

\* The length of the deltas of the first k lines together.
Told(lines) ==
  LET delta(i) == IF i \in Frames(lines) /\ Type[Closer(lines, i)] = "delta"
                    THEN Delta[Closer(lines, i)] ELSE 0
      told[k \in 0..Len(lines)] == IF k = 0 THEN 0 ELSE told[k - 1] + delta(k)
  IN  told

\* A summary says what the frames among some lines say as a whole: how many
\* there were of each type, the models in the order in which they first
\* appear, the last usage, and the answer up to the delta with which it
\* reached the cap.
Says(s, lines) ==
  LET frames == Frames(lines)
      with == {i \in frames : Usage[Closer(lines, i)]}
  IN /\ \A t \in DOMAIN s.events :
          s.events[t] = Cardinality({i \in frames : Type[Closer(lines, i)] = t})
     /\ Range(s.models) = ModelsUpTo(lines, Len(lines))
     /\ Len(s.models) = Cardinality(ModelsUpTo(lines, Len(lines)))
     /\ \A i \in frames :
          LET m == Model[Closer(lines, i)] IN
          m # "" /\ m \notin ModelsUpTo(lines, i - 1) =>
            s.models[Cardinality(ModelsUpTo(lines, i))] = m
     /\ s.usage = IF with = {} THEN None ELSE Closer(lines, Max(with))
     /\ \E k \in 0..Len(lines) :
          /\ s.answer = Told(lines)[k]
          /\ k = Len(lines) \/ Told(lines)[k] >= TextCap
          /\ k = 0 \/ Told(lines)[k - 1] < TextCap

\* Of a stream without over-long lines the summary says what was heard.
SaysWhatWasHeard == sse /\ ShortSoFar => Says(Fields, Heard)

\* A body of which only a prefix was looked at is never described as whole:
\* what parses and is not marked truncated is all that came.
CatalogHonest ==
  ~sse => /\ raw = SubSeq(received, 1, Len(raw))
          /\ Catalog.truncated <=> Len(received) > cap
          /\ Catalog.parsed /\ ~Catalog.truncated => raw = received

=============================================================================
