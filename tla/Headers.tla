------------------------------- MODULE Headers -------------------------------
(***************************************************************************)
(* What the proxy makes of a request and of a response, but for their      *)
(* bodies' way (handle in src/src/main.rs with src/src/config.rs and       *)
(* src/src/persona.rs): the path is mapped, the client's headers are       *)
(* filtered, the persona, the configured headers and the header files go   *)
(* over them, what is sent is dumped, and the environment blocks of the    *)
(* body are rewritten (Environment).                                       *)
(*                                                                         *)
(* A path is the sequence of its segments: "/" is <<"">>.  A header value  *)
(* is a tuple of strings; a User-Agent is <<product, version, os, arch,    *)
(* terminal, product, version>>, the last two of its suffix, "" for none,  *)
(* and any other tuple does not parse as one.                              *)
(***************************************************************************)
EXTENDS Environment, FiniteSets

CONSTANTS
  Configs,   \* configurations to start the proxy with
  Clients,   \* requests of clients
  Answers,   \* headers of responses
  Contents,  \* what a header file may hold: its lines
  Gone,      \* a header file that is not there
  AtStart,   \* what the header files hold when the proxy starts
  Clocks,    \* when to start the clock, with the date of that day, and its end
  ClockStep, \* bound: how many minutes the clock goes on at once
  Busy       \* bound: the instants at which requests come

\* Header values are sequences, those of lines, of header files, of the
\* configuration and of its environment; so are lines and header files.  The
\* clock goes on by a day at most.
AreHeaders(h) == \A n \in DOMAIN h : IsSequence(h[n])
AreLines(lines) == IsSequence(lines) /\ \A i \in DOMAIN lines : IsSequence(lines[i].value)
IsContent(content) == IsSequence(content) /\ \A i \in DOMAIN content : IsSequence(content[i])
ASSUME HeadersAssumption ==
  /\ \A r \in Clients : AreLines(r.lines) /\ IsBody(r.body)
  /\ \A lines \in Answers : AreLines(lines)
  /\ \A content \in Contents \cup {AtStart} : IsContent(content)
  /\ \A c \in Configs : /\ \A sets \in {c.set, c.flags, c.env} : AreHeaders(sets)
                        /\ IsSection(c.section)
                        /\ c.pinned # Absent => c.pinned[1].now \in Int
  /\ \A k \in Clocks : k.now \in Int
  /\ ClockStep \in 1..Day

VARIABLES
  now, date, until, \* the clock, in minutes and as the date in UTC; its end
  cfg,    \* the configuration
  file,   \* what is in the files of set_from_file
  phase,  \* of the one request: idle, files, sent, answered, and Grab's
  req,    \* the request
  uri,    \* path and query of what goes out
  out,    \* the headers of what goes out
  todo,   \* the header files handle has not read yet
  held,   \* history: what the files have held while the request was handled
  times,  \* history: the moments of the clock while the request was handled
  noted,  \* the header files that gave a value
  body,   \* the pieces of the body that goes out
  dump,   \* the lines of <stem>.req.out.hdr, if it could be written
  back    \* the headers of what goes back to the client

clock == <<now, date, until>>
outgoing == <<req, uri, out, todo, noted, body, dump>>
proxy == <<clock, cfg, file, phase, outgoing, held, times, back>>

NoHeaders == [n \in {} |-> Absent]

-----------------------------------------------------------------------------
(* Routes.                                                                 *)

\* The longest prefix of whole segments is taken off, once.
Stripped(strips, path) ==
  LET fits == {p \in strips : p # << >> /\ IsPrefix(p, path)}
      prefix == CHOOSE p \in fits : \A q \in fits : Len(p) >= Len(q)
  IN  IF fits = {} THEN path
      ELSE IF path = prefix THEN <<"">>
      ELSE SubSeq(path, Len(prefix) + 1, Len(path))

\* upstream_path.
UpstreamPath(c, path) == c.prefix \o Stripped(c.strips, path)

-----------------------------------------------------------------------------
(* The incoming headers.                                                   *)

HopByHop == {"host", "connection", "proxy-connection", "content-length",
             "transfer-encoding", "keep-alive", "upgrade"}

\* A value that is not UTF-8 goes on as these words.
Utf8(value) == IF value = <<"opaque">> THEN <<"<non-utf8>">> ELSE value

\* Inserting each line in turn: the last one of a name stays.
Inserted(lines, dropped) ==
  LET names == {lines[i].name : i \in DOMAIN lines} \ (HopByHop \cup dropped)
      last(n) == Max({i \in DOMAIN lines : lines[i].name = n})
  IN  [n \in names |-> Utf8(lines[last(n)].value)]

-----------------------------------------------------------------------------
(* The persona.  A field that is absent is "inherit".                      *)

Field(value, client) == IF value = "inherit" THEN client ELSE value

\* Mutant of Suffix: the suffix is that of the client.
SuffixOfClient(ua, product, version) == <<ua[6], ua[7]>>

\* compose_ua writes the product and version of the front again.
Suffix(ua, product, version) == <<product, version>>

\* rewrite_user_agent.  parse_ua takes the suffix of a User-Agent without a
\* terminal for the terminal.
RewriteUserAgent(p, ua) ==
  LET product == Field(p.originator, ua[1])
      version == Field(p.codex_version, ua[2])
      front == <<product, version, Field(p.os, ua[3]), Field(p.arch, ua[4]),
                 Field(p.terminal, ua[5])>>
      mistaken == ua[5] = "" /\ ua[6] # ""
  IN  IF p.user_agent # "inherit" THEN <<p.user_agent>>
      ELSE IF Len(ua) # 7 THEN ua
      ELSE front \o (IF mistaken
                       THEN IF p.terminal = "inherit" THEN <<ua[6], ua[7]>>
                            ELSE <<"", "">>
                     ELSE IF ua[6] = "" THEN <<"", "">>
                     ELSE Suffix(ua, product, version))

\* Mutant of Originated: the originator is sent whether it came or not.
OriginatedAlways(p, headers) ==
  IF p.originator = "inherit" THEN headers
  ELSE With(headers, "originator", <<p.originator>>)

\* The originator is replaced where there is one.
Originated(p, headers) ==
  IF p.originator = "inherit" \/ "originator" \notin DOMAIN headers THEN headers
  ELSE [headers EXCEPT !["originator"] = <<p.originator>>]

\* persona::apply, to the headers.
Personified(c, headers) ==
  IF c.persona = Absent THEN headers
  ELSE LET p == c.persona[1] IN
       Originated(p, IF "user-agent" \notin DOMAIN headers THEN headers
                     ELSE [headers EXCEPT !["user-agent"] = RewriteUserAgent(p, @)])

\* persona::apply, to the query: rewrite_client_version.
Versioned(c, query) ==
  IF c.persona = Absent THEN query
  ELSE LET p == c.persona[1] IN
       [i \in DOMAIN query |->
          IF /\ p.rewrite_client_version /\ p.codex_version # "inherit"
             /\ query[i][1] = "client_version"
            THEN <<"client_version", p.codex_version>> ELSE query[i]]

-----------------------------------------------------------------------------
(* The configured headers.                                                 *)

\* A value of the form env:NAME; one that is not set leaves the header out.
Resolved(c, pairs) ==
  LET isVar(v) == v[1] = "env:"
      known == {n \in DOMAIN pairs :
                  isVar(pairs[n]) => pairs[n][2] \in DOMAIN c.env}
  IN  [n \in known |-> IF isVar(pairs[n]) THEN c.env[pairs[n][2]] ELSE pairs[n]]

\* HeaderRules::resolved: set, which the flags extend, and over it
\* set_from_env.
RequestSets(c) ==
  Over(Resolved(c, [n \in DOMAIN c.fromEnv |-> <<"env:", c.fromEnv[n]>>]),
       Resolved(c, Over(c.flags, c.set)))

\* Mutant of ReadFile: the file was read when the proxy started.
ReadAtStart(content) == IF Len(AtStart) = 1 THEN AtStart ELSE Absent

\* read_header_value_file: its one line; none of an empty file, of one with
\* several lines or of none.
ReadFile(content) ==
  IF content # Gone /\ Len(content) = 1 THEN content ELSE Absent

-----------------------------------------------------------------------------
(* The dump of what is sent.                                               *)

Redact(name, value) ==
  IF name \in {"authorization", "x-api-key", "cookie"} THEN <<"redacted">> ELSE value

Configured(c) == DOMAIN RequestSets(c) \cup c.files

\* Mutant of SentLine: the mark has no sign that tells it from the value.
SentLineUnmarked(names, n, value) ==
  [kind |-> "header", name |-> n,
   value |-> IF n \in names THEN value \o <<"sent">> ELSE value]

\* A configured header is marked after its value.
SentLine(names, n, value) ==
  [kind |-> "header", name |-> n,
   value |-> IF n \in names THEN value \o <<"<-", "sent">> ELSE value]

\* The request line, the path that came in, the values of the configuration
\* and of the files that had one, and each header once.
DumpOf(c, files, path, headers) ==
  LET sets == RequestSets(c)
      comment(n, value) == [kind |-> "comment", name |-> n, value |-> Redact(n, value)]
  IN  {[kind |-> "request", name |-> "POST", value |-> path],
       [kind |-> "header", name |-> "x-incoming-path", value |-> path]}
      \cup {comment(n, sets[n]) : n \in DOMAIN sets}
      \cup {comment(n, headers[n]) : n \in files}
      \cup {SentLine(DOMAIN sets \cup files, n, Redact(n, headers[n])) :
              n \in DOMAIN headers}

\* <stem>.req.hdr: the headers as they came.
IncomingDump(r) ==
  {[kind |-> "request", name |-> "POST", value |-> r.path]}
    \cup {[kind |-> "header", name |-> r.lines[i].name,
            value |-> Redact(r.lines[i].name, Utf8(r.lines[i].value))] :
             i \in DOMAIN r.lines}

-----------------------------------------------------------------------------
(* The clock.                                                              *)

Moment == [now |-> now, date |-> date]

Goes ==
  /\ now < until
  /\ now' = now + ClockStep
  /\ date' = IF now' \div Day > now \div Day THEN NextDate(date) ELSE date
  /\ UNCHANGED until

\* CODEX_REC_NOW_TS, in the environment of the proxy and of the probe, pins the
\* time that resolve_date reads.
Read(c, moments) == IF c.pinned = Absent THEN moments ELSE {c.pinned[1]}

\* The time that it reads for each of n blocks, if so many of them are rewritten
\* before the clock goes on.
ReadTimes(c, n, early, later) ==
  [i \in 1..n |->
     IF c.pinned # Absent THEN c.pinned[1].now ELSE IF i <= early THEN now ELSE later]

\* The rewrite of a body: the clock goes on between two of its pieces, or not.
Rewriting(pieces, early) ==
  IF early = Len(pieces) THEN UNCHANGED clock ELSE Goes

-----------------------------------------------------------------------------
ProxyInit ==
  /\ \E k \in Clocks : now = k.now /\ date = k.date /\ until = k.until
  /\ cfg \in Configs
  /\ file = [n \in cfg.files |-> AtStart]
  /\ phase = "idle"
  /\ req = Absent /\ uri = Absent /\ out = NoHeaders /\ todo = {} /\ noted = {}
  /\ held = [n \in cfg.files |-> {}] /\ times = {}
  /\ body = << >> /\ dump = {} /\ back = NoHeaders

\* Time passes, while files are read and a body is awaited, too; when a request
\* has been sent nothing more looks at the clock until there is a probe.
Tick ==
  /\ phase \in {"idle", "files", "probing"}
  /\ Goes
  /\ times' = IF phase = "files" THEN times \cup {Moment'} ELSE times
  /\ UNCHANGED <<cfg, file, phase, outgoing, held, back>>

\* The rotator, or a person, replaces a header file, at any time.
Rotate(n, content) ==
  /\ phase \in {"idle", "files", "sent"}
  /\ file' = [file EXCEPT ![n] = content]
  /\ held' = [held EXCEPT ![n] = IF phase = "files" THEN @ \cup {content} ELSE @]
  /\ UNCHANGED <<clock, cfg, phase, outgoing, times, back>>

\* A request comes: its path is mapped, its headers are filtered, and the
\* persona and the configured headers go over them.
Arrive(r) ==
  /\ phase = "idle" /\ now \in Busy
  /\ phase' = "files"
  /\ req' = r
  /\ uri' = [path |-> UpstreamPath(cfg, r.path), query |-> Versioned(cfg, r.query)]
  /\ out' = Over(RequestSets(cfg), Personified(cfg, Inserted(r.lines, cfg.drop)))
  /\ todo' = cfg.files /\ noted' = {}
  /\ held' = [n \in cfg.files |-> {file[n]}] /\ times' = {Moment}
  /\ UNCHANGED <<clock, cfg, file, body, dump, back>>

\* A header file is read, and its value goes over all others.
SetFromFile(n) ==
  /\ phase = "files" /\ n \in todo
  /\ todo' = todo \ {n}
  /\ LET read == ReadFile(file[n]) IN
     IF read = Absent THEN UNCHANGED <<out, noted>>
     ELSE /\ out' = With(out, n, read[1])
          /\ noted' = noted \cup {n}
  /\ UNCHANGED <<clock, cfg, file, phase, req, uri, held, times, body, dump, back>>

\* The dump is written, or cannot be; the body is rewritten, and the request
\* goes out.
Send ==
  /\ phase = "files" /\ todo = {}
  /\ phase' = "sent"
  /\ dump' \in {DumpOf(cfg, noted, req.path, out), {}}
  /\ \E early \in 0..Len(req.body) :
       /\ Rewriting(req.body, early)
       /\ body' = IF req.readable /\ IsActive(cfg.section)
                    THEN ApplyEnv(cfg.section, req.body,
                                  ReadTimes(cfg, Len(req.body), early, now'))
                    ELSE req.body
  /\ times' = times \cup {Moment'}
  /\ UNCHANGED <<cfg, file, req, uri, out, todo, noted, held, back>>

\* A response goes back: filtered, then configured headers and header files,
\* which are read without being looked at: an empty one sets an empty value.
Answer(lines) ==
  /\ phase = "sent"
  /\ phase' = "answered"
  /\ back' = LET given == {n \in cfg.backFiles : file[n] # Gone /\ Len(file[n]) < 2}
                 files == [n \in given |-> IF file[n] = << >> THEN <<"">> ELSE file[n][1]]
             IN  Over(files, Over(cfg.backSets, Inserted(lines, cfg.backDrop)))
  /\ held' = [n \in DOMAIN held |-> {}] /\ times' = {}
  /\ UNCHANGED <<clock, cfg, file, outgoing>>

ProxyNext ==
  \/ Tick
  \/ \E n \in DOMAIN file, content \in Contents \cup {Gone} : Rotate(n, content)
  \/ \E r \in Clients : Arrive(r)
  \/ \E n \in todo : SetFromFile(n)
  \/ Send
  \/ \E lines \in Answers : Answer(lines)

-----------------------------------------------------------------------------
\* What was sent stays as it is after that.
Sent == phase = "sent"

\* The clock's date follows the rules of the calendar from day to day, over
\* leap years, centuries and before 1970; civil_from_days computes it from
\* the number of days alone.
CivilDates == CivilFromDays(now \div Day) = date

\* set_from_file, whenever the file is replaced: the value that is sent was in
\* the file while the request was handled; what the client or the
\* configuration says is sent only if the file had no value at some time then.
FreshFile ==
  Sent => \A n \in cfg.files :
    LET hasValue(c) == c # Gone /\ Len(c) = 1
        values == {c[1] : c \in {c \in held[n] : hasValue(c)}}
        other == Over(RequestSets(cfg), Personified(cfg, Inserted(req.lines, cfg.drop)))
    IN  IF n \notin DOMAIN out
          THEN n \notin DOMAIN other /\ \E c \in held[n] : ~hasValue(c)
          ELSE \/ out[n] \in values
               \/ /\ \E c \in held[n] : ~hasValue(c)
                  /\ n \in DOMAIN other /\ out[n] = other[n]

\* No header that is dropped or only for one hop comes back by a persona or a
\* dump; only the configuration may set it.
NothingComesBack ==
  /\ Sent => \A n \in DOMAIN out :
       n \in HopByHop \cup cfg.drop \/ n \notin {req.lines[i].name : i \in DOMAIN req.lines}
       => n \in Configured(cfg)
  /\ phase = "answered" => \A n \in DOMAIN back :
       n \in HopByHop \cup cfg.backDrop => n \in DOMAIN cfg.backSets \cup cfg.backFiles

\* A persona tells one product and one version: in the User-Agent and its
\* suffix, in the originator header and in client_version, unless the
\* configuration sets one of them or the client's User-Agent has a suffix but
\* no terminal, which is not taken apart (persona.rs:38-42).
PersonaAgrees ==
  Sent /\ cfg.persona # Absent =>
    LET p == cfg.persona[1]
        ua == out["user-agent"]
        told == Inserted(req.lines, cfg.drop)["user-agent"]
    IN  /\ "user-agent" \in DOMAIN out \ Configured(cfg)
        /\ p.user_agent = "inherit"
        /\ Len(told) = 7 /\ (told[6] # "" => told[5] # "")
        => /\ p.originator # "inherit" =>
                /\ ua[1] = p.originator
                /\ "originator" \in DOMAIN out \ Configured(cfg)
                     => out["originator"] = <<p.originator>>
           /\ p.codex_version # "inherit" =>
                /\ ua[2] = p.codex_version
                /\ p.rewrite_client_version =>
                     \A i \in DOMAIN uri.query :
                       uri.query[i][1] = "client_version" => uri.query[i][2] = ua[2]
           /\ ua[6] # "" => <<ua[6], ua[7]>> = <<ua[1], ua[2]>>

\* Of the environment of a request only what is configured changes, whenever
\* its blocks are rewritten, and an unreadable body goes out as it came.
EnvironmentIsAsSet ==
  Sent =>
    /\ ~req.readable => body = req.body
    /\ ChangesOnlyWhatIsSet(cfg.section, req.body, body)
    /\ \A when \in [DOMAIN req.body -> {m.now : m \in Read(cfg, times)}] :
         Settles(cfg.section, req.body, when)
=============================================================================
